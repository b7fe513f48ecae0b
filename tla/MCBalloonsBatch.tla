-------------------------- MODULE MCBalloonsBatch --------------------------
(* Instances of BalloonsBatch for TLC. *)
EXTENDS BalloonsBatch, TLC, MiriadaRequests, TtnServices

CONSTANTS t1, t2, s1, s2

\* Channels: a shipment and a receipt the readers report, a reader that reports nothing,
\* and a receipt on a reader for shipments.
Shipment == [type |-> "u", reader |-> 3]
Receipt == [type |-> "l", reader |-> 5]
Unreported == [type |-> "l", reader |-> 1]
Crossed == [type |-> "l", reader |-> 3]

Reporting(channels) == {c \in channels : c.reader \in MIRIADA_BATCH_STATUS_READERS}

\* The batch of a channel as its statuses are prepared from it.
BatchOf(c) == [batch_type |-> c.type, reader_number |-> c.reader, balloons_type |-> "f",
               truck |-> [number |-> "AC 5512-1", type |-> {"cage"}], ttn |-> {1}, tags |-> {t1}]

Prepared(c) == prepare_payload_for_miriada(c.reader, t1, {BatchOf(c)}, {})
Mismatched(channels) == {c \in Reporting(channels) : Prepared(c) = {}}

SequentialChannels == {Shipment, Unreported}
SequentialReporting == Reporting(SequentialChannels)
SequentialMismatched == Mismatched(SequentialChannels)
ConcurrentChannels == {Receipt, Crossed}
ConcurrentReporting == Reporting(ConcurrentChannels)
ConcurrentMismatched == Mismatched(ConcurrentChannels)
OneChannel == {Shipment}
OneReporting == Reporting(OneChannel)
OneMismatched == Mismatched(OneChannel)

\* No reader reports a balloon both when it passes and when its batch is closed; a reader
\* of batches reports those of one type, and finds the same batch by itself that a closing
\* hands over.
ASSUME ReadersReportOnce ==
    \A r \in 1..8 :
        LET Of(type) == BatchOf([type |-> type, reader |-> r])
            Closing(type) == prepare_payload_for_miriada(r, t1, {Of(type)}, {})
            Found(types) == prepare_payload_for_miriada(r, t1, {}, {Of(type) : type \in types})
        IN /\ should_send_balloon_status_immediately(r) => r \notin MIRIADA_BATCH_STATUS_READERS
           /\ r \in MIRIADA_BATCH_STATUS_READERS =>
                \E type \in {"l", "u"} :
                    /\ Closing(type) # {} /\ Found({"l", "u"}) = Closing(type)
                    /\ \A other \in {"l", "u"} \ {type} : Closing(other) = {} /\ Found({other}) = {}

\* The outcomes of CloseTtn are those the attempts of close_ttn_in_miriada can have: success
\* means closed, but after an answer that was lost a failure does not mean open.
ASSUME ClosingOutcomes ==
    {close_ttn_in_miriada(attempts) : attempts \in
        {a \in [1..3 -> Attempts] : \A i \in 1..3 : Possible(a[i])}}
      = [result : BOOLEAN, closed : BOOLEAN] \ {[result |-> TRUE, closed |-> FALSE]}

\* Importing the current TTNs twice is importing them once; rows that are not current any
\* more stay, and nothing changes when Miriada does not answer.
ASSUME ImportIsUpsert ==
    LET Item == [id : {0, 1, 2}, dated : BOOLEAN, row : {"old", "new"}]
        rows == [id \in {2, 3} |-> "old"]
    IN /\ \A items \in [1..2 -> Item] :
             LET answer == [answered |-> TRUE, items |-> items]
                 lost == [answered |-> FALSE, items |-> <<>>]
                 once == sync_current_ttn_from_miriada(rows, <<lost, answer>>)
                 named == {items[i].id : i \in {i \in 1..2 : items[i].dated}} \ {0}
             IN /\ sync_current_ttn_from_miriada(once, <<answer, lost>>) = once
                /\ DOMAIN once = DOMAIN rows \cup named
                /\ \A id \in DOMAIN rows \ named : once[id] = rows[id]
                /\ sync_current_ttn_from_miriada(rows, <<lost, lost>>) = rows

\* Requests that set the TTN amount, and requests that set nothing.
TtnEdits(amounts) == {[f \in {"ttn"} |-> n] : n \in amounts} \cup {[f \in {} |-> 0]}

EditsTo1 == TtnEdits({1})
EditsTo2 == TtnEdits({1, 2})

SequentialSymmetry == Permutations(Tags)
ConcurrentSymmetry == Permutations(Tags) \cup Permutations(Sessions)
=============================================================================
