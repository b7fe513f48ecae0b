------------------------- MODULE CarouselTransport -------------------------
(***************************************************************************)
(* The TCP connection between a carousel listener and the NPort its posts  *)
(* are wired to, byte by byte: AsyncTcpTransport, the part of              *)
(* serial_exchange from a frame to its answer, and the reconnection.  The  *)
(* line may lose, add or change a byte.  What the frames do is the subject *)
(* of CarouselListener; its request cache is not repeated here.            *)
(***************************************************************************)
EXTENDS CarouselFrames

CONSTANTS
    Requests,     \* frames of the posts: [request_type, post_number, weight_combined, fill_flag]
    Passports,    \* passports that may be at the head of the queue
    Settings,     \* settings the carousel may have when a frame is handled
    Sizes,        \* lengths of the segments the bytes come in
    StaleTicks,   \* STALE_PARTIAL_BUFFER_SECONDS in units of READ_TIMEOUT_SECONDS
    MaxFrames,    \* bound: frames sent by the posts
    MaxDamages    \* bound: frames the line damages

\* The fields of a request fit into their bytes; weights are whole numbers.
ASSUME TransportAssumption ==
    /\ Sizes \subseteq Nat /\ StaleTicks \in Nat \ {0}
    /\ \A r \in Requests :
          /\ r.request_type \in Byte /\ r.post_number \in Byte /\ r.fill_flag \in Byte
          /\ r.weight_combined \in 0..MaxWord
    /\ \A p \in Passports : p.brutto \subseteq Int /\ p.netto \subseteq Int
    /\ \A s \in Settings :
          s.passport_weight_diff.from \subseteq Int /\ s.passport_weight_diff.to \subseteq Int

VARIABLES
    line,        \* bytes on their way
    stream,      \* bytes that have arrived and were not read
    eof,         \* NPort has closed the connection
    link,        \* "up" or "down" (waiting to reconnect)
    buffer,      \* bytes of an unfinished frame
    since,       \* ticks since _partial_buffer_since, none of them if it is None
    waited,      \* whether the pending read has waited for a tick
    frame,       \* the frame that is being handled
    answered,    \* the answer to the last frame: request, passport, settings, bytes
    frames,      \* history: frames sent, and how many of them were damaged
    damages,
    clear,       \* history: no damage and no reconnection since a frame found the line idle
    expected,    \* history: the frames sent since then, and those read
    received,
    silence      \* history: ticks without a byte

lineVars == <<line, stream, eof>>
transportVars == <<link, buffer, since, waited, frame, answered>>
sentVars == <<frames, damages>>
clearVars == <<clear, expected, received>>
transVars == <<lineVars, transportVars, sentVars, clearVars, silence>>

----------------------------------------------------------------------------
(* The posts, the wires and NPort.                                         *)

RequestBytes ==
    [r \in Requests |->
        WithCrc(<<r.request_type, r.post_number, 16, Hi(r.weight_combined), Lo(r.weight_combined),
                  r.fill_flag>>)]

\* One byte is lost, added or changed.
DamagedBytes(bytes) ==
    {RemoveAt(bytes, 5), InsertAt(bytes, 1, 0), ReplaceAt(bytes, 4, (bytes[4] + 1) % 256)}

Init ==
    /\ line = <<>> /\ stream = <<>> /\ eof = FALSE
    /\ link = "down" /\ buffer = <<>> /\ since = {} /\ waited = FALSE /\ frame = <<>>
    /\ answered = {} /\ frames = 0 /\ damages = 0
    /\ clear = FALSE /\ expected = <<>> /\ received = <<>> /\ silence = 0

\* Nothing of an earlier frame is under way.
Quiet == line = <<>> /\ stream = <<>> /\ buffer = <<>> /\ frame = <<>>

\* From here on nothing is promised of the frames under way.
Disturb == clear' = FALSE /\ expected' = <<>> /\ received' = <<>>

\* A post sends a frame; only one of them speaks at a time.
Send(r) ==
    /\ frames < MaxFrames /\ Len(line) <= FRAME_SIZE
    /\ frames' = frames + 1
    /\ line' = line \o RequestBytes[r]
    /\ IF Quiet /\ link = "up" /\ ~eof
       THEN clear' = TRUE /\ expected' = <<RequestBytes[r]>> /\ received' = <<>>
       ELSE /\ expected' = IF clear THEN Append(expected, RequestBytes[r]) ELSE <<>>
            /\ UNCHANGED <<clear, received>>
    /\ UNCHANGED <<stream, eof, transportVars, damages, silence>>

SendDamaged(r) ==
    /\ frames < MaxFrames /\ Len(line) <= FRAME_SIZE /\ damages < MaxDamages
    /\ frames' = frames + 1 /\ damages' = damages + 1
    /\ \E bytes \in DamagedBytes(RequestBytes[r]) : line' = line \o bytes
    /\ Disturb
    /\ UNCHANGED <<stream, eof, transportVars, silence>>

\* Bytes reach the listener, or nobody.
Arrive(n) ==
    /\ line # <<>>
    /\ LET size == Min({n, Len(line)})
       IN /\ line' = SubSeq(line, size + 1, Len(line))
          /\ stream' = IF link = "up" /\ ~eof THEN stream \o SubSeq(line, 1, size) ELSE stream
    /\ silence' = 0
    /\ UNCHANGED <<eof, transportVars, sentVars, clearVars>>

PeerCloses ==
    /\ link = "up" /\ ~eof
    /\ eof' = TRUE /\ Disturb
    /\ UNCHANGED <<line, stream, transportVars, sentVars, silence>>

\* A second passes while a read waits; wait_for ends it then.
Tick ==
    /\ link = "up" /\ frame = <<>> /\ stream = <<>> /\ ~eof /\ ~waited
    /\ waited' = TRUE
    /\ since' = {Min({t + 1, StaleTicks}) : t \in since}
    /\ silence' = Min({silence + 1, StaleTicks + 2})
    /\ UNCHANGED <<lineVars, link, buffer, frame, answered, sentVars, clearVars>>

----------------------------------------------------------------------------
(* AsyncTcpTransport.                                                      *)

connect ==
    /\ link = "down"
    /\ link' = "up" /\ stream' = <<>> /\ eof' = FALSE
    /\ buffer' = <<>> /\ since' = {} /\ waited' = FALSE /\ silence' = 0
    /\ UNCHANGED <<line, frame, answered, sentVars, clearVars>>

\* close, and the wait before the next connection: what is sent meanwhile is lost.
Drop ==
    /\ link' = "down" /\ stream' = <<>> /\ frame' = <<>>
    /\ buffer' = <<>> /\ since' = {} /\ waited' = FALSE
    /\ Disturb

\* Seeded fault: the timer of a finished frame runs on.
reset_partial_buffer_timer_Not == UNCHANGED since

reset_partial_buffer_timer == since' = {}

\* A chunk, of the bytes the frame still needs at most; read_frame goes on reading, or
\* returns the frame.
ReadChunk ==
    /\ link = "up" /\ frame = <<>> /\ stream # <<>>
    /\ LET size == Min({FRAME_SIZE - Len(buffer), Len(stream)})
           bytes == buffer \o SubSeq(stream, 1, size)
       IN /\ stream' = SubSeq(stream, size + 1, Len(stream))
          /\ IF Len(bytes) < FRAME_SIZE
             THEN /\ buffer' = bytes
                  /\ since' = IF buffer = <<>> THEN {0} ELSE since
                  /\ UNCHANGED <<frame, answered, received>>
             ELSE /\ buffer' = <<>> /\ reset_partial_buffer_timer
                  /\ frame' = bytes /\ answered' = {}
                  /\ received' = IF clear THEN Append(received, bytes) ELSE <<>>
    /\ waited' = FALSE
    /\ UNCHANGED <<line, eof, link, sentVars, clear, expected, silence>>

\* Seeded fault: measured from the last timeout, which is never that long ago.
IsStale_Renewed(ages) == FALSE

IsStale(ages) == StaleTicks \in ages

\* Seeded fault: a timeout gives the unfinished frame up.
handle_read_timeout_Clears ==
    /\ link = "up" /\ frame = <<>> /\ stream = <<>> /\ waited
    /\ buffer' = <<>> /\ since' = {} /\ waited' = FALSE
    /\ UNCHANGED <<lineVars, link, frame, answered, sentVars, clearVars, silence>>

\* The read times out: an unfinished frame that is too old ends the connection, otherwise
\* read_frame returns nothing and is called again.
handle_read_timeout ==
    /\ link = "up" /\ frame = <<>> /\ stream = <<>> /\ waited
    /\ IF IsStale(since) THEN Drop
       ELSE waited' = FALSE /\ UNCHANGED <<stream, link, buffer, since, frame, clearVars>>
    /\ UNCHANGED <<line, eof, answered, sentVars, silence>>

\* An empty chunk: NPort has closed the connection.
EmptyChunk ==
    /\ link = "up" /\ frame = <<>> /\ stream = <<>> /\ eof
    /\ Drop
    /\ UNCHANGED <<line, eof, answered, sentVars, silence>>

\* The connection breaks (also noticed by keepalive only); the next read or write raises.
Reset ==
    /\ link = "up"
    /\ Drop
    /\ UNCHANGED <<line, eof, answered, sentVars, silence>>

----------------------------------------------------------------------------
(* serial_exchange: what becomes of a frame.                               *)

\* The frame is done with.
Handled ==
    /\ frame' = <<>>
    /\ UNCHANGED <<stream, link, buffer, since, waited, clearVars>>

InvalidCrc ==
    /\ frame # <<>> /\ ~validate_frame_crc(frame)
    /\ Handled
    /\ UNCHANGED <<line, eof, answered, sentVars, silence>>

\* Seeded fault: the frame is handled whatever its CRC.
IsRequest_Unchecked == frame # <<>>

IsRequest == frame # <<>> /\ validate_frame_crc(frame)

\* No answer: another type, no passport or settings, or a passport outside the ranges.
NoAnswer ==
    /\ IsRequest
    /\ Handled
    /\ UNCHANGED <<line, eof, answered, sentVars, silence>>

\* The answer is built and written; a weight that cannot be packed raises, and the
\* listener starts over.
AnswerFill ==
    /\ IsRequest
    /\ LET request == parse_request_frame(frame)
       IN /\ request.request_type = REQUEST_TYPE_FILL
          /\ \E passport \in Passports, settings \in Settings :
             \E weight \in FullWeight(passport, settings, request.post_number) :
                IF Packable(weight)
                THEN /\ answered' = {[request |-> request, passport |-> passport,
                                      settings |-> settings,
                                      bytes |-> build_response_packet(request.request_type,
                                                    request.post_number, weight)]}
                     /\ Handled
                ELSE Drop /\ UNCHANGED answered
    /\ UNCHANGED <<line, eof, sentVars, silence>>

Next ==
    \/ \E r \in Requests : Send(r) \/ SendDamaged(r)
    \/ \E n \in Sizes : Arrive(n)
    \/ PeerCloses \/ Tick \/ connect
    \/ ReadChunk \/ handle_read_timeout \/ EmptyChunk \/ Reset
    \/ InvalidCrc \/ NoAnswer \/ AnswerFill

Spec == Init /\ [][Next]_transVars

----------------------------------------------------------------------------

TypeOK ==
    /\ line \in Seq(Byte) /\ stream \in Seq(Byte) /\ eof \in BOOLEAN
    /\ link \in {"up", "down"} /\ waited \in BOOLEAN
    /\ buffer \in Seq(Byte) /\ Len(buffer) < FRAME_SIZE
    /\ since \in SUBSET (0..StaleTicks) /\ (since = {}) = (buffer = <<>>)
    /\ frame \in Seq(Byte) /\ Len(frame) \in {0, FRAME_SIZE}

\* Only frames of the posts get past the CRC, wherever the listener cuts the stream after
\* lost, added and changed bytes (read_frame cuts by length, validate_frame_crc decides).
OnlySentAccepted == IsRequest => frame \in Range(RequestBytes)

\* What OnlySentAccepted rests on, a fact of the frames: of the bytes of two pieces, sent one
\* behind the other, whole or damaged, no eight in a row pass the CRC but those of a request.
FramesApart ==
    LET pieces == UNION {{RequestBytes[r]} \cup DamagedBytes(RequestBytes[r]) : r \in Requests}
    IN \A u, v \in pieces :
          LET two == u \o v
          IN \A i \in 0..Len(two) - FRAME_SIZE :
                LET cut == SubSeq(two, i + 1, i + FRAME_SIZE)
                IN validate_frame_crc(cut) => cut \in Range(RequestBytes)

\* From the first frame sent over an idle connection on, until something is damaged or the
\* connection is lost: the listener reads the frames of the posts, whole, in order and all
\* of them, however they are split into segments and whatever was damaged before.
FramesIntact ==
    clear => /\ IsPrefix(received, expected)
             /\ Quiet => received = expected

\* An unfinished frame does not outlive the silence of the line: read_frame completes or
\* discards it within STALE_PARTIAL_BUFFER_SECONDS and one timeout, so the next frame is
\* read from its first byte.
SilenceClears == silence > StaleTicks /\ link = "up" => buffer = <<>>

\* What a post is told to fill to is a whole frame with its number and a weight that is, to
\* the gram, the passport's with the correction of that very post, from a passport within
\* every range of the settings (request_processing, build_response_packet).
AnswersWithinRanges ==
    \A a \in answered :
        LET weight == Word(a.bytes[4], a.bytes[5])
            max == a.settings.max_balloon_weight
            difference == a.settings.passport_weight_diff
        IN /\ validate_frame_crc(a.bytes)
           /\ a.bytes[1] = RESPONSE_TYPE_FILL /\ a.bytes[2] = a.request.post_number
           /\ \E brutto \in a.passport.brutto, netto \in a.passport.netto,
                 from \in difference.from, to \in difference.to :
                 /\ \E correction \in Correction(a.settings, a.request.post_number) :
                      weight \in Grams(brutto + correction)
                 /\ brutto - netto \in from..to \/ netto - brutto \in from..to
                 /\ \A least \in max.from : least <= brutto
                 /\ \A most \in max.to : brutto <= most
=============================================================================
