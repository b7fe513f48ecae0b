----------------------------- MODULE RfidReader -----------------------------
(***************************************************************************)
(* The RFID notification server for one FEIG reader: coroutines that read  *)
(* events from the reader's notification connections (an old connection    *)
(* may still be served when the reader has opened another), the filter of  *)
(* repeated tags they share, the one thread that runs the synchronous      *)
(* services, and the command session that switches the lamp.               *)
(*                                                                         *)
(* A coroutine runs alone between two awaits, so what it does in between   *)
(* is one step.                                                            *)
(***************************************************************************)
EXTENDS Integers, Sequences, FiniteSets

CONSTANTS
    Tags,           \* UIDs that pass is_balloon_nfc_tag
    Noise,          \* UIDs that do not
    TagEvents,      \* bound: TagEvents[n] are the tag events, sequences of UIDs, that may
                    \* be the n-th event
    Conns,          \* notification connections served: the reader's last and current
    Depth,          \* previous_nfc_tags.maxlen
    NeedCache,      \* ReaderSettings.need_cache
    Immediate,      \* should_send_balloon_status_immediately
    MaxEvents,      \* bound: events received
    MaxSessions     \* bound: command connections opened

ASSUME RfidAssumption ==
    /\ Tags \cap Noise = {}
    /\ 1..MaxEvents \subseteq DOMAIN TagEvents
    /\ \A n \in 1..MaxEvents : TagEvents[n] \subseteq Seq(Tags \cup Noise)
    /\ IsFiniteSet(Conns) /\ Cardinality(Conns) <= 2
    /\ Depth \in Nat \ {0} /\ MaxEvents \in Nat /\ MaxSessions \in Nat \ {0}
    /\ NeedCache \in BOOLEAN /\ Immediate \in BOOLEAN

VARIABLES
    recent,     \* previous_nfc_tags
    pc,         \* where a coroutine is
    event,      \* the tags of the event it handles
    todo,       \* new_tags not processed yet
    lampOk,     \* lamp_ok
    status,     \* ack_status
    rowOf,      \* the row of the Reader table for the tag it processes
    work,       \* coroutines that wait for the service thread, in order
    passes,     \* the Reader table: the tags in the order of insertion
    queue,      \* the passport queue, oldest first: numbers of rows of passes
    session,    \* the command connection self.conn, 0 for none
    opened,     \* command connections opened so far
    lock,       \* the lock (one per command connection) a coroutine has or awaits
    stream,     \* the command connection it reads its answer from
    events      \* events received so far

loopVars == <<event, todo, lampOk, status, rowOf>>   \* of each coroutine
dbVars == <<passes, queue>>
sessionVars == <<session, opened, lock, stream>>
vars == <<recent, pc, loopVars, work, dbVars, sessionVars, events>>

Init ==
    /\ recent = <<>>
    /\ pc = [c \in Conns |-> "closed"]
    /\ event = [c \in Conns |-> <<>>]
    /\ todo = [c \in Conns |-> <<>>]
    /\ lampOk = [c \in Conns |-> FALSE]
    /\ status = [c \in Conns |-> 0]
    /\ rowOf = [c \in Conns |-> 0]
    /\ work = <<>>
    /\ passes = <<>> /\ queue = <<>>
    /\ session \in {0, 1} /\ opened = session
    /\ lock = [c \in Conns |-> 0] /\ stream = [c \in Conns |-> 0]
    /\ events = 0

Go(c, step) == pc' = [pc EXCEPT ![c] = step]

SeqToSet(s) == {s[i] : i \in DOMAIN s}

----------------------------------------------------------------------------
(* Events.                                                                 *)

\* asyncio.start_server: the reader connects.
Open(c) ==
    /\ pc[c] = "closed"
    /\ Go(c, "read")
    /\ UNCHANGED <<recent, work, loopVars, dbVars, sessionVars, events>>

\* End of stream, an invalid frame or an empty payload.
Close(c) ==
    /\ pc[c] = "read"
    /\ Go(c, "closed")
    /\ UNCHANGED <<recent, work, loopVars, dbVars, sessionVars, events>>

\* sync_to_async: the call is queued for the thread.
Submit(c, step) == Go(c, step) /\ work' = Append(work, c)

Receive(c) ==
    /\ pc[c] = "read"
    /\ events < MaxEvents
    /\ events' = events + 1

\* deque.append with maxlen.
Remember(s, t) ==
    IF Len(s) = Depth THEN Append(Tail(s), t) ELSE Append(s, t)

\* The UIDs of balloons end in TAG_HEX_SUFFIX.
is_balloon_nfc_tag(t) == t \in Tags

\* The deque and the new tags so far, once t has been looked at.
filter_duplicate_tag(was, t) ==
    IF t \in SeqToSet(was.recent) THEN was
    ELSE [recent |-> Remember(was.recent, t), new |-> Append(was.new, t)]

\* Seeded fault: repeated tags are not dropped.
Filter_KeepsRepeats(tags) ==
    LET after[i \in 0..Len(tags)] ==
            IF i = 0 THEN [recent |-> recent, new |-> <<>>]
            ELSE IF ~is_balloon_nfc_tag(tags[i]) THEN after[i - 1]
            ELSE [recent |-> Remember(after[i - 1].recent, tags[i]),
                  new |-> Append(after[i - 1].new, tags[i])]
    IN after[Len(tags)]

\* The loop over the tags of an event: after[i] is the deque, and the new tags, when the
\* first i are through.
Filter(tags) ==
    LET after[i \in 0..Len(tags)] ==
            IF i = 0 THEN [recent |-> recent, new |-> <<>>]
            ELSE IF is_balloon_nfc_tag(tags[i]) THEN filter_duplicate_tag(after[i - 1], tags[i])
            ELSE after[i - 1]
    IN after[Len(tags)]

\* Seeded fault: tags are to be remembered when they have been processed.
TagEvent_RemembersLater(c, tags) ==
    /\ Receive(c)
    /\ todo' = [todo EXCEPT ![c] = Filter(tags).new]
    /\ event' = [event EXCEPT ![c] = tags]
    /\ IF Filter(tags).new = <<>> THEN Go(c, "loop") /\ UNCHANGED work
       ELSE Submit(c, "submitted")
    /\ UNCHANGED <<recent, lampOk, status, rowOf, dbVars, sessionVars>>

\* process_tag_event up to its first await: all new tags are remembered.
TagEvent(c, tags) ==
    /\ Receive(c)
    /\ recent' = Filter(tags).recent
    /\ todo' = [todo EXCEPT ![c] = Filter(tags).new]
    /\ event' = [event EXCEPT ![c] = tags]
    /\ lampOk' = [lampOk EXCEPT ![c] =
                    Filter(tags).new = <<>> /\ \E t \in SeqToSet(tags) : is_balloon_nfc_tag(t)]
    /\ status' = [status EXCEPT ![c] = 0]
    /\ IF Filter(tags).new = <<>> THEN Go(c, "loop") /\ UNCHANGED work
       ELSE Submit(c, "submitted")
    /\ UNCHANGED <<rowOf, dbVars, sessionVars>>

\* process_input_event with IN1 active.
InputEvent(c) ==
    /\ Receive(c)
    /\ status' = [status EXCEPT ![c] = 0]
    /\ Submit(c, "sensor")
    /\ UNCHANGED <<recent, event, todo, lampOk, rowOf, dbVars, sessionVars>>

\* A heartbeat, an inactive input, or an event nobody knows (0x80).
OtherEvent(c) ==
    /\ Receive(c)
    /\ \E s \in {0, 128} : status' = [status EXCEPT ![c] = s]
    /\ Go(c, "ack")
    /\ UNCHANGED <<recent, work, event, todo, lampOk, rowOf, dbVars, sessionVars>>

----------------------------------------------------------------------------
(* sync_to_async: every service call runs on one thread, in the order of    *)
(* submission.                                                             *)

InThread == {"balloon", "table", "queue", "report"}

\* Seeded fault: thread_sensitive=False, each call gets a thread of its own.
Turn_Parallel(c) == work # <<>> /\ Head(work) = c

\* The thread is idle and c is the next to be served.
Turn(c) ==
    /\ \A d \in Conns : pc[d] \notin InThread
    /\ work # <<>> /\ Head(work) = c

\* processing_request_without_nfc; the sensor count itself is AddSensor of
\* BalloonsBatch.
Sensor(c) ==
    /\ pc[c] = "sensor" /\ Turn(c)
    /\ \E s \in {0, 1} : status' = [status EXCEPT ![c] = s]
    /\ work' = Tail(work)
    /\ Go(c, "ack")
    /\ UNCHANGED <<recent, event, todo, lampOk, rowOf, dbVars, sessionVars, events>>

Start(c) ==
    /\ pc[c] = "submitted" /\ Turn(c)
    /\ work' = Tail(work)
    /\ Go(c, "balloon")
    /\ UNCHANGED <<recent, loopVars, dbVars, sessionVars, events>>

\* The coroutine goes on with its next tag.
NextTag(c) ==
    /\ pc[c] = "loop"
    /\ todo[c] # <<>>
    /\ Submit(c, "submitted")
    /\ UNCHANGED <<recent, loopVars, dbVars, sessionVars, events>>

\* Back in the loop with the status "success" or "error".
Result(c, success) ==
    /\ todo' = [todo EXCEPT ![c] = Tail(@)]
    /\ lampOk' = [lampOk EXCEPT ![c] = @ \/ success]
    /\ Go(c, "loop")
    /\ UNCHANGED <<event, status>>

\* Seeded fault: the exception is swallowed and the event acknowledged as OK.
Abort_Swallowed(c) ==
    /\ Go(c, "ack")
    /\ UNCHANGED <<event, todo, lampOk, status>>

\* An exception leaves process_tag_event: the rest of the tags and the lamp are
\* skipped.
Abort(c) ==
    /\ status' = [status EXCEPT ![c] = 1]
    /\ Go(c, "ack")
    /\ UNCHANGED <<event, todo, lampOk>>

\* On to the next service that is configured, or to the successful end.
Continue(c, services) ==
    IF services = {} THEN Result(c, TRUE)
    ELSE /\ Go(c, IF "queue" \in services THEN "queue" ELSE "report")
         /\ UNCHANGED <<event, todo, lampOk, status>>

Reporting == {s \in {"report"} : Immediate}
Caching == {s \in {"queue"} : NeedCache}

\* The balloon row and its passport from Miriada.  The addition to a batch, whose
\* errors are swallowed, is AddRfid of BalloonsBatch.
Balloon(c) ==
    /\ pc[c] = "balloon"
    /\ \/ Go(c, "table") /\ UNCHANGED <<event, todo, lampOk, status>>
       \/ Result(c, FALSE)      \* the database or Miriada fails: None
       \/ Abort(c)              \* ReaderNotFoundError
    /\ UNCHANGED <<recent, work, rowOf, passes, queue, sessionVars, events>>

\* add_balloon_to_reader_table.
Table(c) ==
    /\ pc[c] = "table"
    /\ \/ /\ passes' = Append(passes, Head(todo[c]))
          /\ rowOf' = [rowOf EXCEPT ![c] = Len(passes')]
          /\ Continue(c, Caching \cup Reporting)
       \/ Result(c, FALSE) /\ UNCHANGED <<passes, rowOf>>
    /\ UNCHANGED <<recent, work, queue, sessionVars, events>>

\* add_balloon_to_cache: an error after the push is an error all the same.
Cache(c) ==
    /\ pc[c] = "queue"
    /\ \/ queue' = Append(queue, rowOf[c]) /\ Continue(c, Reporting)
       \/ queue' \in {queue, Append(queue, rowOf[c])} /\ Result(c, FALSE)
    /\ UNCHANGED <<recent, work, rowOf, passes, sessionVars, events>>

\* send_status_to_miriada; its MiriadaAPIError is caught by nobody on the way.
Report(c) ==
    /\ pc[c] = "report"
    /\ Result(c, TRUE) \/ Abort(c)
    /\ UNCHANGED <<recent, work, rowOf, passes, queue, sessionVars, events>>

----------------------------------------------------------------------------
(* The lamp and the acknowledgement.                                       *)

\* Seeded fault: commands are sent without the lock.
LockFree_Ignored(l) == TRUE

\* asyncio.Lock: nobody holds it; those that wait are served before a newcomer.
LockFree(l) == \A d \in Conns : ~(pc[d] = "answer" /\ lock[d] = l)
Awaited(l) == \E d \in Conns : pc[d] = "waiting" /\ lock[d] = l

\* The command is written to the connection the session has by now, and the answer
\* read from it; drain may raise, which leaves the session as it is.
Write(c, s) ==
    \/ Go(c, "answer") /\ stream' = [stream EXCEPT ![c] = s] /\ UNCHANGED loopVars
    \/ Abort(c) /\ UNCHANGED <<rowOf, stream>>

\* indicate_tag_read after the loop: send_raw connects if it has to, and waits for
\* the lock if it has to.
Indicate(c) ==
    /\ pc[c] = "loop"
    /\ todo[c] = <<>>
    /\ \/ /\ session = 0
          /\ Go(c, "connecting")
          /\ UNCHANGED <<loopVars, lock, stream>>
       \/ /\ session # 0 /\ (~LockFree(session) \/ Awaited(session))
          /\ Go(c, "waiting")
          /\ lock' = [lock EXCEPT ![c] = session]
          /\ UNCHANGED <<loopVars, stream>>
       \/ /\ session # 0 /\ LockFree(session) /\ ~Awaited(session)
          /\ lock' = [lock EXCEPT ![c] = session]
          /\ Write(c, session)
    /\ UNCHANGED <<recent, work, passes, queue, session, opened, events>>

\* The lock it waits for has been released.
Woken(c) == pc[c] = "waiting" /\ LockFree(lock[c])

\* asyncio runs coroutines in the order in which they became ready, and all of them
\* before it looks at the network again: one whose service call returned or whose lock
\* was released is not overtaken by one that still had an exchange to make.
OthersRan(c) == \A d \in Conns \ {c} : pc[d] # "loop" /\ ~Woken(d)

\* Every connect makes a new lock, also when the other coroutine has connected in
\* the meantime.
Connect(c) ==
    /\ pc[c] = "connecting" /\ OthersRan(c)
    /\ \/ /\ opened < MaxSessions
          /\ opened' = opened + 1
          /\ session' = opened + 1
          /\ lock' = [lock EXCEPT ![c] = opened + 1]
          /\ Write(c, opened + 1)
       \/ Abort(c) /\ UNCHANGED <<rowOf, sessionVars>>    \* OSError
    /\ UNCHANGED <<recent, work, passes, queue, events>>

\* The session may be gone when the lock is there: AttributeError.
TakeLock(c) ==
    /\ Woken(c)
    /\ IF session = 0 THEN Abort(c) /\ UNCHANGED <<rowOf, stream>> ELSE Write(c, session)
    /\ UNCHANGED <<recent, work, passes, queue, session, opened, lock, events>>

\* Seeded fault: the answer is read without a timeout, and a reader may be silent.
Answer_NoTimeout(c) ==
    /\ pc[c] = "answer" /\ OthersRan(c)
    /\ session' \in {session, 0}
    /\ Go(c, "ack") \/ Go(c, "silent")
    /\ UNCHANGED <<recent, work, loopVars, dbVars, opened, lock, stream, events>>

\* An answer, a wrong one, end of stream or a timeout of one second; after any other
\* exception the session forgets its connection.  The rest of an answer is read from
\* the connection the session has by then: the same outcomes, perhaps later.
Answer(c) ==
    /\ pc[c] = "answer" /\ OthersRan(c)
    /\ session' \in {session, 0}
    /\ Go(c, "ack")
    /\ UNCHANGED <<recent, work, loopVars, dbVars, opened, lock, stream, events>>

\* Local variables of the handlers end with the event.
Forget(c) ==
    /\ event' = [event EXCEPT ![c] = <<>>] /\ todo' = [todo EXCEPT ![c] = <<>>]
    /\ lampOk' = [lampOk EXCEPT ![c] = FALSE] /\ status' = [status EXCEPT ![c] = 0]
    /\ rowOf' = [rowOf EXCEPT ![c] = 0]
    /\ lock' = [lock EXCEPT ![c] = 0] /\ stream' = [stream EXCEPT ![c] = 0]

\* send_notification_ack; an error ends the connection.
Ack(c) ==
    /\ pc[c] = "ack" /\ OthersRan(c)
    /\ Go(c, "read") \/ Go(c, "closed")
    /\ Forget(c)
    /\ UNCHANGED <<recent, work, dbVars, session, opened, events>>

----------------------------------------------------------------------------

Reader(c) ==
    \/ Open(c) \/ Close(c)
    \/ events < MaxEvents /\ \E tags \in TagEvents[events + 1] : TagEvent(c, tags)
    \/ InputEvent(c) \/ OtherEvent(c)

\* What the coroutine and its service thread do by themselves.
Work(c) ==
    \/ Sensor(c) \/ Start(c) \/ NextTag(c)
    \/ Balloon(c) \/ Table(c) \/ Cache(c) \/ Report(c)
    \/ Indicate(c) \/ Connect(c) \/ TakeLock(c) \/ Answer(c) \/ Ack(c)

Next == \E c \in Conns : Reader(c) \/ Work(c)

\* Database, Redis and HTTP calls return or time out, answers are waited for one
\* second, and the thread serves what waits in order.
Fairness == \A c \in Conns : WF_vars(Work(c))

Spec == Init /\ [][Next]_vars /\ Fairness

----------------------------------------------------------------------------
(* Properties.                                                             *)

\* Types; the filter keeps the last Depth tags only, each once.
TypeOK ==
    /\ recent \in Seq(Tags) /\ Len(recent) <= Depth
    /\ Cardinality(SeqToSet(recent)) = Len(recent)
    /\ pc \in [Conns -> {"closed", "read", "loop", "sensor", "submitted", "connecting",
                         "waiting", "answer", "ack"} \cup InThread]
    /\ event \in [Conns -> (UNION {TagEvents[n] : n \in 1..MaxEvents}) \cup {<<>>}]
    /\ todo \in [Conns -> Seq(Tags)]
    /\ lampOk \in [Conns -> BOOLEAN]
    /\ status \in [Conns -> {0, 1, 128}]
    /\ rowOf \in [Conns -> 0..Len(passes)]
    /\ work \in Seq(Conns)
    /\ passes \in Seq(Tags)
    /\ queue \in Seq(1..Len(passes))
    /\ opened \in 0..MaxSessions /\ session \in 0..opened
    /\ lock \in [Conns -> 0..opened] /\ stream \in [Conns -> 0..opened]
    /\ events \in 0..MaxEvents

\* The new tags a coroutine has still to process.
Pending(c) == IF pc[c] = "ack" THEN {} ELSE SeqToSet(todo[c])

\* A balloon read over both connections, or again while it is processed, is not
\* processed twice.
NoDoubleProcessing ==
    \A c, d \in Conns : c # d => Pending(c) \cap Pending(d) = {}

\* The carousel takes passports by order: they are queued in the order in which
\* the balloons passed, each pass at most once.
QueueFollowsPasses ==
    \A i, j \in DOMAIN queue : i < j => queue[i] < queue[j]

\* Two coroutines never wait for answers on one command connection.
OneCommandPerStream ==
    \A c, d \in Conns :
        (c # d /\ pc[c] = "answer" /\ pc[d] = "answer") => stream[c] # stream[d]

\* The reader gets the status OK only for an event whose new tags all went through
\* the services.
AckHonest ==
    \A c \in Conns : (pc[c] = "ack" /\ status[c] = 0) => todo[c] = <<>>

\* Every event is acknowledged, or its connection ends.
EventAnswered ==
    \A c \in Conns : (pc[c] \notin {"read", "closed"}) ~> (pc[c] \in {"read", "closed"})

\* The lamp is steady only for an event with a balloon whose pass was recorded or is
\* still being processed: the docstring of indicate_tag_read calls it the sign of
\* successful processing.
LampHonest ==
    [][\A c \in Conns :
         (pc[c] # "answer" /\ pc'[c] = "answer" /\ lampOk[c])
         => \E t \in SeqToSet(event[c]) :
                t \in SeqToSet(passes) \/ \E d \in Conns : t \in Pending(d)]_vars
=============================================================================
