------------------------------ MODULE FeigLink ------------------------------
(***************************************************************************)
(* The two TCP connections between the server and one FEIG reader, byte by *)
(* byte: the notification connection, from which events are read by their  *)
(* length, and the command connection, on which each lamp command expects  *)
(* one answer.  What the events do is the subject of RfidReader; here they *)
(* are parsed, followed by a lamp command and acknowledged.                *)
(***************************************************************************)
EXTENDS FeigFrames, FiniteSets

CONSTANTS
    Events,        \* bound: the sets of events its first, second, ... may come from
    Segments,      \* lengths of the TCP segments an answer is cut into
    MaxCommands    \* bound: commands on one command connection

VARIABLES
    sent,       \* events sent on the notification connection, in order
    unsent,     \* bytes of the last one that are still to arrive
    inbox,      \* bytes that have arrived and were not read
    count,      \* events sent on all connections
    pc,         \* where the handler of the connection is
    header,     \* the three bytes read of a frame
    handled,    \* what was made of each event: tags, inputs, acknowledgement
    acks,       \* acknowledgements sent back
    refused,    \* whether the handler ended because of an invalid frame
    conn,       \* the command connection: "none", "open", "eof" (closed by the reader)
    asked,      \* commands written to it
    pending,    \* those the reader may still answer
    coming,     \* bytes of answers that are still to arrive
    answers,    \* bytes of answers that have arrived and were not read
    start,      \* the five bytes read of an answer
    took,       \* the valid answers, by the commands they were given to
    disturbed   \* history: a timeout, a split answer or a hangup on this connection

eventVars == <<sent, unsent, inbox, count>>
handlerVars == <<pc, header, handled, acks, refused>>
commandVars == <<conn, asked, pending, coming, answers, start, took, disturbed>>
vars == <<eventVars, handlerVars, commandVars>>

----------------------------------------------------------------------------
(* The events of a reader.  "cut" bytes are missing at the end of the      *)
(* payload (the frame around it is whole); a damaged frame is not one of   *)
(* the protocol.                                                           *)

Stamp(flag, n) == IF flag THEN [i \in 1..n |-> STX] ELSE <<>>

\* A record: layout, DATE, TIME, and for an identifier the IDD of its type.
RecordBytes(r) ==
    <<0, 0, 0, (IF r.date THEN 1 ELSE 0) + (IF r.time THEN 2 ELSE 0)
                + (IF r.id = <<>> THEN 0 ELSE 4)>>
    \o Stamp(r.date, 5) \o Stamp(r.time, 4)
    \o (IF r.id = <<>> THEN <<>>
        ELSE <<r.type>> \o (CASE r.type = 0 -> <<>> [] r.type = 3 -> <<0, 0>> [] OTHER -> <<0>>)
             \o <<Len(r.id)>> \o Reverse(r.id) \o <<0, 0, 0, 0, 0, 0>>)

RecordsBytes(records) == FlattenSeq([i \in DOMAIN records |-> RecordBytes(records[i])])

InputBytes(inputs) ==
    FlattenSeq([i \in DOMAIN inputs |->
        <<0, 0, 0, 0, 0, 0, 0, IF inputs[i] THEN 1 ELSE 6>>])

\* The whole payload of an event, as its command lays it out.
FullPayload(e) ==
    <<e.command, e.status>> \o
    (CASE e.command = TagEvent -> <<0, Len(e.records)>> \o RecordsBytes(e.records)
       [] e.command = InputEvent -> <<0, Len(e.inputs), 0, 0, 16, 0>> \o InputBytes(e.inputs)
       [] OTHER -> <<>>)

AllEvents == UNION Range(Events)

Payload(e) ==
    LET whole == FullPayload(e)
    IN SubSeq(whole, 1, Len(whole) - e.cut)

\* As sent: whole, with a broken CRC, with another first byte, or with a length
\* below that of the shortest frame.
Damaged(whole, damage) ==
    CASE damage = "none" -> whole
      [] damage = "crc" -> ReplaceAt(whole, Len(whole), (Last(whole) + 1) % 256)
      [] damage = "stx" -> ReplaceAt(whole, 1, 0)
      [] damage = "length" -> ReplaceAt(ReplaceAt(whole, 2, 0), 3, MinLength - 1)

EventBytes(e) == Damaged(Frame(0, Payload(e)), e.damage)

\* What is supposed of the constants; a module that instantiates this one assumes it: the
\* events fit into their bytes, and the commands into the status of an answer.
LinkAssumption ==
    /\ Segments \subseteq Nat \ {0} /\ MaxCommands \in Byte /\ Events \in Seq(SUBSET AllEvents)
    /\ \A e \in AllEvents :
          /\ e.command \in Byte /\ e.status \in Byte
          /\ e.records \in Seq([date : BOOLEAN, time : BOOLEAN, type : Byte, id : Seq(Byte)])
          /\ \A i \in 1..Len(e.records) : Len(e.records[i].id) \in Byte
          /\ e.inputs \in Seq(BOOLEAN)
          /\ Len(e.records) \in Byte /\ Len(e.inputs) \in Byte
          /\ e.cut \in 0..Len(FullPayload(e)) /\ Len(FullPayload(e)) + 6 \in 0..MaxWord
          /\ e.damage \in {"none", "crc", "stx", "length"}

Init ==
    /\ sent = <<>> /\ unsent = <<>> /\ inbox = <<>> /\ count = 0
    /\ pc = "header" /\ header = <<>> /\ handled = <<>> /\ acks = <<>>
    /\ refused = FALSE
    /\ conn \in {"none", "open"} /\ asked = 0 /\ pending = {}
    /\ coming = <<>> /\ answers = <<>> /\ start = <<>> /\ took = <<>> /\ disturbed = FALSE

SendEvent(e) ==
    /\ pc # "closed" /\ unsent = <<>>
    /\ count' = count + 1
    /\ sent' = Append(sent, e)
    /\ unsent' = EventBytes(e)
    /\ UNCHANGED <<inbox, handlerVars, commandVars>>

\* The whole frame arrives, or first only enough to leave a read unfinished (bound: it
\* comes in two pieces at most).
Arrive(n) ==
    /\ n \in 1..Len(unsent)
    /\ n < Len(unsent) => Len(unsent) = Len(Payload(Last(sent))) + 6
    /\ inbox' = inbox \o SubSeq(unsent, 1, n)
    /\ unsent' = SubSeq(unsent, n + 1, Len(unsent))
    /\ UNCHANGED <<sent, count, handlerVars, commandVars>>

\* The reader connects again.
Connect ==
    /\ pc = "closed"
    /\ sent' = <<>> /\ unsent' = <<>> /\ inbox' = <<>>
    /\ pc' = "header" /\ header' = <<>> /\ handled' = <<>> /\ acks' = <<>>
    /\ refused' = FALSE
    /\ UNCHANGED <<count, commandVars>>

----------------------------------------------------------------------------
(* The handler of the notification connection.                             *)

Go(step) == pc' = step

Close(isRefusal) == Go("closed") /\ refused' = isRefusal

\* The connection ends before a read has what it needs: IncompleteReadError.
EndOfStream ==
    /\ pc \in {"header", "body"}
    /\ Close(FALSE)
    /\ UNCHANGED <<eventVars, header, handled, acks, commandVars>>

\* read_frame: readexactly(3), then the check of STX and of the length.
ReadHeader ==
    /\ pc = "header" /\ Len(inbox) >= 3
    /\ header' = SubSeq(inbox, 1, 3)
    /\ inbox' = SubSeq(inbox, 4, Len(inbox))
    /\ IF inbox[1] # STX \/ Word(inbox[2], inbox[3]) < MinLength THEN Close(TRUE)
       ELSE Go("body") /\ UNCHANGED refused
    /\ UNCHANGED <<sent, unsent, count, handled, acks, commandVars>>

\* What process_notification_payload answers.
AckStatus(parsed) ==
    IF parsed.short THEN 129
    ELSE IF parsed.command \in {HeartbeatEvent, TagEvent, InputEvent} THEN 0
    ELSE 128

\* What becomes of an event: what was parsed of it, and how it is acknowledged.
Outcome(payload) ==
    LET parsed == parse_buffer_data(payload)
    IN [command |-> payload[1], tags |-> parsed.tags, inputs |-> parsed.inputs,
        ack |-> AckStatus(parsed)]

\* Only a tag event of which there is something to parse goes on to the lamp.
Handle(payload) ==
    /\ handled' = Append(handled, Outcome(payload))
    /\ Go(IF Has(payload, 2) /\ payload[1] = TagEvent THEN "lamp" ELSE "ack")

\* Seeded fault: the length of a frame is taken for that of what follows the header.
BodyLength_WholeFrame(head) == Word(head[2], head[3]) - 4

BodyLength(head) == Word(head[2], head[3]) - 3

\* readexactly for the rest, parse_response, and the event itself.
ReadBody ==
    /\ pc = "body" /\ Len(inbox) >= BodyLength(header)
    /\ LET response == parse_response(header \o SubSeq(inbox, 1, BodyLength(header)))
       IN IF ~response.valid \/ response.data = <<>> THEN Close(TRUE) /\ UNCHANGED handled
          ELSE Handle(response.data) /\ UNCHANGED refused
    /\ inbox' = SubSeq(inbox, BodyLength(header) + 1, Len(inbox))
    /\ UNCHANGED <<sent, unsent, count, header, acks, commandVars>>

\* Seeded fault: every event is acknowledged as handled.
Ack_AlwaysOk ==
    /\ pc = "ack"
    /\ \/ /\ Go("header") /\ UNCHANGED refused
          /\ acks' = Append(acks, create_request_by_code(Last(handled).command, <<0>>))
       \/ Close(FALSE) /\ UNCHANGED acks
    /\ UNCHANGED <<eventVars, header, handled, commandVars>>

\* send_notification_ack, with the command of the event; a reader that is gone ends
\* the handler.
Ack ==
    /\ pc = "ack"
    /\ \/ /\ Go("header") /\ UNCHANGED refused
          /\ acks' = Append(acks, create_request_by_code(Last(handled).command,
                                                        <<Last(handled).ack>>))
       \/ Close(FALSE) /\ UNCHANGED acks
    /\ UNCHANGED <<eventVars, header, handled, commandVars>>

----------------------------------------------------------------------------
(* The command session: send_raw.                                          *)

\* A new connection, on which nothing was asked yet.
Fresh == /\ conn' = "open" /\ asked' = 1 /\ pending' = {1} /\ coming' = <<>>
         /\ answers' = <<>> /\ took' = <<>> /\ disturbed' = FALSE

\* connect if there is no connection, write and drain; to a connection the reader
\* has closed this may still succeed.
Write ==
    /\ pc = "lamp" /\ asked < MaxCommands
    /\ IF conn = "none" THEN Fresh
       ELSE /\ asked' = asked + 1
            /\ pending' = IF conn = "open" THEN pending \cup {asked + 1} ELSE pending
            /\ UNCHANGED <<conn, coming, answers, took, disturbed>>
    /\ Go("answer")
    /\ UNCHANGED <<eventVars, header, handled, acks, refused, start>>

\* connect or drain fails: the exception leaves the event, the session stays as it is.
WriteFails ==
    /\ pc = "lamp"
    /\ handled' = ReplaceAt(handled, Len(handled), [Last(handled) EXCEPT !.ack = 1])
    /\ Go("ack")
    /\ UNCHANGED <<eventVars, header, acks, refused, commandVars>>

\* The reader answers a command (the status it answers with numbers the command: no
\* code looks at it); it may also never do so.
Answer(k) ==
    /\ conn = "open" /\ k \in pending /\ coming = <<>>
    /\ pending' = {j \in pending : j > k}
    /\ coming' = Frame(0, <<114, k>>)
    /\ UNCHANGED <<eventVars, handlerVars, conn, asked, answers, start, took, disturbed>>

AnswerArrives(n) ==
    /\ coming # <<>>
    /\ LET size == Min({n, Len(coming)})
       IN /\ answers' = answers \o SubSeq(coming, 1, size)
          /\ coming' = SubSeq(coming, size + 1, Len(coming))
          /\ disturbed' = (disturbed \/ size < Len(coming))
    /\ UNCHANGED <<eventVars, handlerVars, conn, asked, pending, start, took>>

\* The reader closes the connection: what has arrived can still be read.
Hangup ==
    /\ conn = "open"
    /\ conn' = "eof" /\ pending' = {} /\ coming' = <<>> /\ disturbed' = TRUE
    /\ UNCHANGED <<eventVars, handlerVars, asked, answers, start, took>>

\* What read(n) returns when it does: what is there, n bytes at most, nothing at
\* the end of the stream.
ReadReturns == answers # <<>> \/ conn = "eof"
Chunk(n) == SubSeq(answers, 1, Min({n, Len(answers)}))
Rest(n) == SubSeq(answers, n + 1, Len(answers))

\* The handler goes on to the acknowledgement whatever became of the command.
Done == Go("ack") /\ start' = <<>>

\* Seeded fault: the length of what was read is not checked.
StartsFrame_AnyLength(head) == head # <<>> /\ head[1] = STX

StartsFrame(head) == Len(head) = 5 /\ head[1] = STX

\* read(5): less, or no start of a frame, ends the command; the rest stays unread.
ReadStart ==
    /\ pc = "answer" /\ ReadReturns
    /\ answers' = Rest(5)
    /\ IF StartsFrame(Chunk(5)) THEN start' = Chunk(5) /\ Go("answer_body") ELSE Done
    /\ UNCHANGED <<eventVars, header, handled, acks, refused, conn, asked, pending, coming,
                   took, disturbed>>

\* The command the answer is for: its status.
Valid(response) ==
    took' = Append(took, [asked |-> asked, status |-> response.data[2]])

\* Seeded fault: the length of a frame is taken not to count the CRC.
Remaining_WithoutCrc(head) == Word(head[2], head[3]) - 7

Remaining(head) == Word(head[2], head[3]) - 5

\* read(remaining), which may also return less, and parse_response.
ReadRest ==
    /\ pc = "answer_body"
    /\ LET remaining == Remaining(start)
           response == parse_response(start \o Chunk(remaining))
       IN /\ remaining > 0 => ReadReturns
          /\ answers' = IF remaining > 0 THEN Rest(remaining) ELSE answers
          /\ IF response.valid THEN Valid(response) ELSE UNCHANGED took
    /\ Done
    /\ UNCHANGED <<eventVars, header, handled, acks, refused, conn, asked, pending, coming,
                   disturbed>>

\* wait_for gives up after one second; the connection is kept.
Timeout ==
    /\ pc \in {"answer", "answer_body"} /\ conn = "open"
    /\ Done /\ disturbed' = TRUE
    /\ UNCHANGED <<eventVars, header, handled, acks, refused, conn, asked, pending, coming,
                   answers, took>>

\* read raises (connection reset): the session drops the connection.
Reset ==
    /\ pc \in {"answer", "answer_body"}
    /\ Done
    /\ conn' = "none" /\ asked' = 0 /\ pending' = {} /\ coming' = <<>> /\ answers' = <<>>
    /\ took' = <<>> /\ disturbed' = FALSE
    /\ UNCHANGED <<eventVars, header, handled, acks, refused>>

----------------------------------------------------------------------------

Next ==
    \/ \E n \in DOMAIN Events : count = n - 1 /\ \E e \in Events[n] : SendEvent(e)
    \/ \E n \in {2, 5, Len(unsent)} : Arrive(n)
    \/ Connect \/ EndOfStream \/ ReadHeader \/ ReadBody \/ Ack
    \/ Write \/ WriteFails
    \/ \E k \in pending : Answer(k)
    \/ \E n \in Segments : AnswerArrives(n)
    \/ Hangup \/ ReadStart \/ ReadRest \/ Timeout \/ Reset

Spec == Init /\ [][Next]_vars

----------------------------------------------------------------------------
(* What an event says, told from its description and not from its bytes.   *)

\* Bytes of records 1..n of an event, and the bytes a cut payload has for them.
Size(e, n) == Len(RecordsBytes(SubSeq(e.records, 1, n)))
Left(e) == Len(Payload(e)) - 4

\* Records up to n are whole and of known types.
Readable(e, n) ==
    /\ Size(e, n) <= Left(e)
    /\ \A i \in 1..n : e.records[i].id # <<>> => e.records[i].type \in DOMAIN IddHeader

Identifiers(records) ==
    FlattenSeq([i \in DOMAIN records |->
        IF records[i].id = <<>> THEN <<>> ELSE <<records[i].id>>])

TagsOf(e) ==
    IF e.command # TagEvent \/ e.status # 0 \/ Left(e) < 0 THEN <<>>
    ELSE LET n == CHOOSE n \in 0..Len(e.records) :
                      /\ Readable(e, n)
                      /\ \A k \in 0..Len(e.records) : Readable(e, k) => k <= n
         IN Identifiers(SubSeq(e.records, 1, n))

\* An input event has 8 bytes before its records, and 8 for each.
InputsOf(e) ==
    IF e.command # InputEvent \/ e.status # 0 THEN <<>>
    ELSE LET whole == {i \in DOMAIN e.inputs : 8 * i + 8 <= Len(Payload(e))}
         IN [i \in whole |-> e.inputs[i]]

Told(e) ==
    [command |-> e.command, tags |-> TagsOf(e), inputs |-> InputsOf(e),
     ack |-> IF Len(Payload(e)) < 2 THEN 129
             ELSE IF e.command \in {HeartbeatEvent, TagEvent, InputEvent} THEN 0 ELSE 128]

\* The parser makes of the payload of an event what the event says.
ParsedAsTold(e) == Payload(e) # <<>> => Outcome(Payload(e)) = Told(e)

----------------------------------------------------------------------------

TypeOK ==
    /\ sent \in Seq(AllEvents) /\ count \in 0..Len(Events)
    /\ unsent \in Seq(Byte) /\ inbox \in Seq(Byte) /\ header \in Seq(Byte)
    /\ pc \in {"header", "body", "lamp", "answer", "answer_body", "ack", "closed"}
    /\ conn \in {"none", "open", "eof"}
    /\ asked \in 0..MaxCommands /\ pending \subseteq 1..asked
    /\ coming \in Seq(Byte) /\ answers \in Seq(Byte) /\ start \in Seq(Byte)
    /\ Len(start) = IF pc = "answer_body" THEN 5 ELSE 0
    /\ refused \in BOOLEAN /\ disturbed \in BOOLEAN

\* Whatever the segments: what the handler makes of the events is what they say, one
\* by one and in order, up to the first record that is cut off or of an unknown type
\* (read_frame, parse_response, parse_buffer_data); a tag event whose lamp command
\* raised is answered by 0x01 instead.  The handler gives the connection up only at an
\* event that was damaged or has no payload: it never loses its place in the stream.
EventsExact ==
    /\ Len(handled) <= Len(sent)
    /\ \A i \in DOMAIN handled :
          /\ sent[i].damage = "none"
          /\ LET told == Told(sent[i])
             IN \/ handled[i] = told
                \/ sent[i].command = TagEvent /\ handled[i] = [told EXCEPT !.ack = 1]
    /\ refused => LET next == Len(handled) + 1
                  IN /\ next <= Len(sent)
                     /\ sent[next].damage # "none" \/ Payload(sent[next]) = <<>>

\* The reader gets one valid acknowledgement per event, in the order of the events and
\* with the command of the event it is for (send_notification_ack).
AcksInOrder ==
    /\ Len(acks) \in {Len(handled), Len(handled) - 1}
    /\ \A i \in DOMAIN acks :
          parse_response(acks[i])
              = [valid |-> TRUE, data |-> <<sent[i].command, handled[i].ack>>]

\* Of the answers to max commands only the first byte of one starts a frame: where another
\* is an STX, the length behind it is more than they have together.
OneStart(max) ==
    \A k \in 1..max :
        LET answer == Frame(0, <<114, k>>)
        IN \A i \in 2..8 : answer[i] = STX =>
              \A l \in 1..max :
                  LET two == answer \o Frame(0, <<114, l>>)
                  IN Word(two[i + 1], two[i + 2]) > 8 * max

\* send_raw gives each lamp command its own answer until a timeout, an answer in two
\* segments or the end of the stream disturbs the connection; after that an answer may be
\* taken for that of a later command, but none is taken twice, before it was asked for,
\* or from a connection that was dropped.
AnswersMatch ==
    LET finished == IF pc \in {"answer", "answer_body"} THEN asked - 1 ELSE asked
    IN /\ ~disturbed => took = [k \in 1..finished |-> [asked |-> k, status |-> k]]
       /\ \A i \in DOMAIN took :
             /\ took[i].status <= took[i].asked
             /\ \A j \in 1..i - 1 : took[j].status < took[i].status
=============================================================================
