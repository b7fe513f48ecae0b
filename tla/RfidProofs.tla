----------------------------- MODULE RfidProofs -----------------------------
(***************************************************************************)
(* Theorems about the RFID notification server, for any tags, events, depth *)
(* of the filter and number of sessions, and the reader's last and current *)
(* notification connection: type correctness, the order of the passport    *)
(* queue, the lock of the command session, and the acknowledgements; and   *)
(* that no tag is processed twice, when the filter remembers enough of them. *)
(*                                                                         *)
(* None of the properties is inductive.  The queue is in the order of the  *)
(* passes because one coroutine at a time is with the service thread and *)
(* the row it is about to queue is newer than all that are queued.  No     *)
(* answer is read by another coroutine because the reader of a stream holds *)
(* the lock of that connection, whoever waits for the lock finds the same  *)
(* connection when it gets it, and a new connection is opened only while   *)
(* nobody waits.  An acknowledgement is honest because a coroutine has tags *)
(* left to process exactly while it is with the services.  And a tag in    *)
(* hand is still remembered because the other coroutine cannot bring more  *)
(* than an event for each tag of its own that a coroutine has processed.   *)
(***************************************************************************)
EXTENDS RfidReader, DataInduction, FiniteSetTheorems, TLAPS

(***************************************************************************)
(* The filter.  Filter is a recursive function over the tags of an event; its *)
(* values are shown to be filters by induction over the tags.              *)
(***************************************************************************)

\* A sequence without repetitions.
Distinct(s) == \A i, j \in DOMAIN s : s[i] = s[j] => i = j

\* What the filter holds while it looks at an event.
Filtered ==
    {x \in [recent : Seq(Tags), new : Seq(Tags)] :
        Len(x.recent) <= Depth /\ Distinct(x.recent)}

\* A new tag joins a full deque by pushing out the oldest one.
LEMMA RememberDistinct ==
    ASSUME NEW s \in Seq(Tags), Len(s) <= Depth, Distinct(s),
           NEW t \in Tags, t \notin SeqToSet(s)
    PROVE  /\ Remember(s, t) \in Seq(Tags) /\ Len(Remember(s, t)) <= Depth
           /\ Distinct(Remember(s, t))
<1> USE RfidAssumption
<1>1. \A i \in 1..Len(s) : s[i] # t
  BY DEF SeqToSet
<1>2. CASE Len(s) = Depth
  <2>1. Remember(s, t) = Append(Tail(s), t)
    BY <1>2 DEF Remember
  <2> DEFINE r == Append(Tail(s), t)
  <2>2. r \in Seq(Tags) /\ Len(r) = Len(s)
    BY <1>2
  <2>3. \A i \in 1..Len(s) : r[i] = IF i = Len(s) THEN t ELSE s[i + 1]
    BY <1>2
  <2>4. Distinct(r)
    <3> SUFFICES ASSUME NEW i \in 1..Len(s), NEW j \in 1..Len(s), r[i] = r[j]
                 PROVE  i = j
      <4> HIDE DEF r
      <4> QED BY <2>2 DEF Distinct
    <3>1. (i = Len(s)) <=> (j = Len(s))
      <4> HIDE DEF r
      <4> QED BY <1>1, <2>3
    <3>2. CASE i # Len(s)
      <4>1. i + 1 \in DOMAIN s /\ j + 1 \in DOMAIN s /\ s[i + 1] = s[j + 1]
        <5> HIDE DEF r
        <5> QED BY <2>3, <3>1, <3>2
      <4>2. i + 1 = j + 1
        BY <4>1 DEF Distinct
      <4> QED BY <4>2
    <3> QED BY <3>1, <3>2
  <2> QED BY <1>2, <2>1, <2>2, <2>4
<1>3. CASE Len(s) < Depth
  <2>1. Remember(s, t) = Append(s, t)
    BY <1>3 DEF Remember
  <2> DEFINE r == Append(s, t)
  <2>2. r \in Seq(Tags) /\ Len(r) = Len(s) + 1
    OBVIOUS
  <2>3. \A i \in 1..(Len(s) + 1) : r[i] = IF i = Len(s) + 1 THEN t ELSE s[i]
    OBVIOUS
  <2>4. Distinct(r)
    <3> HIDE DEF r
    <3> QED BY <1>1, <2>2, <2>3 DEF Distinct
  <2> QED BY <1>3, <2>1, <2>2, <2>4
<1> QED BY <1>2, <1>3

\* Looking at one tag keeps the deque within its length and without repetitions.
LEMMA FilterDuplicateType ==
    ASSUME NEW x \in Filtered, NEW t \in Tags
    PROVE  filter_duplicate_tag(x, t) \in Filtered
<1>1. CASE t \in SeqToSet(x.recent)
  BY <1>1 DEF filter_duplicate_tag
<1>2. CASE t \notin SeqToSet(x.recent)
  <2>1. filter_duplicate_tag(x, t) = [recent |-> Remember(x.recent, t), new |-> Append(x.new, t)]
    BY <1>2 DEF filter_duplicate_tag
  <2>2. x.recent \in Seq(Tags) /\ x.new \in Seq(Tags) /\ Len(x.recent) <= Depth /\ Distinct(x.recent)
    BY DEF Filtered
  <2>3. /\ Remember(x.recent, t) \in Seq(Tags) /\ Len(Remember(x.recent, t)) <= Depth
        /\ Distinct(Remember(x.recent, t))
    BY <1>2, <2>2, RememberDistinct
  <2> QED BY <2>1, <2>2, <2>3 DEF Filtered
<1> QED BY <1>1, <1>2

\* The values of the loop over the tags of an event.
Looked(tags, after) ==
    /\ after[0] = [recent |-> recent, new |-> <<>>]
    /\ \A i \in 1..Len(tags) :
          after[i] = IF is_balloon_nfc_tag(tags[i]) THEN filter_duplicate_tag(after[i - 1], tags[i])
                     ELSE after[i - 1]
    /\ Filter(tags) = after[Len(tags)]

\* They are filters, one after the other.
LEMMA FilterRuns ==
    ASSUME recent \in Seq(Tags), Len(recent) <= Depth, Distinct(recent),
           NEW tags \in Seq(Tags \cup Noise)
    PROVE  \E after \in [0..Len(tags) -> Filtered] : Looked(tags, after)
<1> DEFINE start == [recent |-> recent, new |-> <<>>]
           Step(i, x) == IF is_balloon_nfc_tag(tags[i]) THEN filter_duplicate_tag(x, tags[i]) ELSE x
           g == [p \in Nat \X Filtered |->
                    IF p[1] \in 1..Len(tags) THEN Step(p[1], p[2]) ELSE p[2]]
<1>1. start \in Filtered
  BY DEF Filtered
<1>2. \A i \in 1..Len(tags) : \A x \in Filtered : Step(i, x) \in Filtered
  BY FilterDuplicateType DEF is_balloon_nfc_tag
<1>3. g \in Steps(Filtered)
  BY <1>2 DEF Steps
<1>4. \A i \in 1..Len(tags) : \A x \in Filtered : g[<<i, x>>] = Step(i, x)
  OBVIOUS
<1>5. PICK f \in [0..Len(tags) -> Filtered] :
           f[0] = start /\ \A i \in 1..Len(tags) : f[i] = g[<<i, f[i - 1]>>]
  <2>1. Run(Filtered, start, g, Len(tags)) # {}
    <3> HIDE DEF g, start
    <3> QED BY <1>1, <1>3, PrimitiveRecursion
  <2> HIDE DEF g, start
  <2> QED BY <2>1 DEF Run
<1> DEFINE Body(h, i) == IF i = 0 THEN start
                         ELSE IF is_balloon_nfc_tag(tags[i]) THEN filter_duplicate_tag(h[i - 1], tags[i])
                         ELSE h[i - 1]
           Unrolled(h) == h = [i \in 0..Len(tags) |-> Body(h, i)]
           after == CHOOSE h : Unrolled(h)
<1>6. \A i \in 0..Len(tags) : f[i] = Body(f, i)
  <2> SUFFICES ASSUME NEW i \in 0..Len(tags) PROVE f[i] = Body(f, i)
    OBVIOUS
  <2>1. CASE i = 0
    BY <1>5, <2>1
  <2>2. CASE i # 0
    <3>1. i \in 1..Len(tags) /\ f[i - 1] \in Filtered
      BY <2>2
    <3>2. f[i] = Step(i, f[i - 1])
      <4> HIDE DEF g, Step
      <4> QED BY <1>4, <1>5, <3>1
    <3> HIDE DEF g, start
    <3> QED BY <2>2, <3>2
  <2> QED BY <2>1, <2>2
<1>7. Unrolled(f)
  <2> HIDE DEF Body
  <2> QED BY <1>6
<1>8. Unrolled(after)
  <2> HIDE DEF Unrolled
  <2> QED BY <1>7
<1>9. \A i \in 0..Len(tags) : after[i] = Body(after, i)
  <2> HIDE DEF Body, after
  <2> QED BY <1>8
<1>10. \A n \in Nat : n \in 0..Len(tags) => after[n] \in Filtered
  <2> DEFINE T == {n \in Nat : n \in 0..Len(tags) => after[n] \in Filtered}
  <2>1. 0 \in T
    <3> HIDE DEF after
    <3> QED BY <1>1, <1>9
  <2>2. \A n \in Nat : n \in T => n + 1 \in T
    <3> SUFFICES ASSUME NEW n \in Nat, n \in T, n + 1 \in 0..Len(tags)
                 PROVE  after[n + 1] \in Filtered
      OBVIOUS
    <3>1. after[n] \in Filtered
      OBVIOUS
    <3>2. after[n + 1] = Step(n + 1, after[n])
      <4> HIDE DEF after
      <4> QED BY <1>9
    <3> QED BY <1>2, <3>1, <3>2
  <2>3. Nat \subseteq T
    <3> HIDE DEF T
    <3> QED BY <2>1, <2>2, SetInduction
  <2> QED BY <2>3
<1>11. Filter(tags) = after[Len(tags)]
  BY DEF Filter
<1>12. after \in [0..Len(tags) -> Filtered]
  <2>1. after = [i \in 0..Len(tags) |-> after[i]]
    <3>1. after = [i \in 0..Len(tags) |-> Body(after, i)]
      BY <1>8
    <3> HIDE DEF Body, after
    <3> QED BY <1>9, <3>1
  <2>2. \A i \in 0..Len(tags) : after[i] \in Filtered
    <3> HIDE DEF after
    <3> QED BY <1>10
  <2> HIDE DEF after
  <2> QED BY <2>1, <2>2
<1>13. Looked(tags, after)
  <2> HIDE DEF after
  <2>1. after[0] = start
    BY <1>9
  <2>2. \A i \in 1..Len(tags) : after[i] = Body(after, i)
    BY <1>9
  <2> QED BY <1>11, <2>1, <2>2 DEF Looked
<1> HIDE DEF after
<1> QED BY <1>12, <1>13

\* So is what comes out.
LEMMA FilterType ==
    ASSUME recent \in Seq(Tags), Len(recent) <= Depth, Distinct(recent),
           NEW tags \in Seq(Tags \cup Noise)
    PROVE  Filter(tags) \in Filtered
<1>1. PICK after \in [0..Len(tags) -> Filtered] : Looked(tags, after)
  BY FilterRuns
<1>2. Len(tags) \in 0..Len(tags)
  OBVIOUS
<1> QED BY <1>1, <1>2 DEF Looked

(***************************************************************************)
(* The inductive invariant.                                                *)
(***************************************************************************)

\* Where a coroutine can be, and the events it can have in hand.
Places == {"closed", "read", "loop", "sensor", "submitted", "connecting",
           "waiting", "answer", "ack"} \cup InThread

Handled == (UNION {TagEvents[n] : n \in 1..MaxEvents}) \cup {<<>>}

\* The deque, and the state of the coroutines, have their types.
FilterOK ==
    /\ recent \in Seq(Tags) /\ Len(recent) <= Depth /\ Distinct(recent)

LoopOK ==
    /\ pc \in [Conns -> Places]
    /\ event \in [Conns -> Handled]
    /\ todo \in [Conns -> Seq(Tags)]
    /\ lampOk \in [Conns -> BOOLEAN]
    /\ status \in [Conns -> {0, 1, 128}]
    /\ work \in Seq(Conns)

\* Rows of the Reader table and the queue have their types, and so has the session.
RowsOK ==
    /\ passes \in Seq(Tags)
    /\ rowOf \in [Conns -> 0..Len(passes)]
    /\ queue \in Seq(1..Len(passes))

SessionOK ==
    /\ opened \in 0..MaxSessions /\ session \in 0..opened
    /\ lock \in [Conns -> 0..opened] /\ stream \in [Conns -> 0..opened]
    /\ events \in 0..MaxEvents

\* A coroutine has tags to process exactly while it is with the services, and none when
\* it acknowledges an event as good.
Busy == {"submitted"} \cup InThread
Idle == {"closed", "read", "sensor", "connecting", "waiting", "answer"}
TodoFits ==
    \A c \in Conns :
        /\ pc[c] \in Busy => todo[c] # <<>>
        /\ pc[c] \in Idle => todo[c] = <<>>
        /\ pc[c] = "ack" /\ status[c] = 0 => todo[c] = <<>>

\* One coroutine is with the services, and the row it is about to queue is newer than
\* those in the queue.
OneInThread == \A c, d \in Conns : pc[c] \in InThread /\ pc[d] \in InThread => c = d
RowAhead ==
    \A c \in Conns : pc[c] = "queue" =>
        rowOf[c] # 0 /\ \A i \in DOMAIN queue : queue[i] < rowOf[c]

\* A coroutine holds the lock of the connection it reads from, and one that waits for a
\* lock finds that connection, or none, when it gets it.
LocksFit ==
    /\ \A c \in Conns : pc[c] = "answer" => lock[c] = stream[c]
    /\ \A c, d \in Conns :
         c # d /\ pc[c] = "answer" /\ pc[d] = "answer" => lock[c] # lock[d]
    /\ \A c \in Conns : pc[c] = "waiting" => session \in {0, lock[c]}

RowsInv == RowsOK /\ OneInThread /\ RowAhead /\ QueueFollowsPasses
Inv == FilterOK /\ LoopOK /\ TodoFits /\ RowsInv /\ SessionOK /\ LocksFit

(***************************************************************************)
(* The initial state and the steps.                                        *)
(***************************************************************************)

LEMMA InitInv == Init => Inv
<1> SUFFICES ASSUME Init PROVE Inv
  OBVIOUS
<1> USE RfidAssumption
<1>1. FilterOK
  BY DEF Init, FilterOK, Distinct
<1>2. LoopOK
  BY DEF Init, LoopOK, Places, Handled
<1>3. TodoFits
  BY DEF Init, TodoFits, Busy, InThread
<1>4. RowsInv
  BY DEF Init, RowsInv, RowsOK, OneInThread, RowAhead, QueueFollowsPasses, InThread
<1>6. SessionOK
  BY DEF Init, SessionOK
<1>7. LocksFit
  BY DEF Init, LocksFit
<1> QED BY <1>1, <1>2, <1>3, <1>4, <1>6, <1>7 DEF Inv

\* A service step: where the coroutine goes, and what it leaves alone.
Served(c, p) ==
    /\ pc[c] \in InThread /\ pc' = [pc EXCEPT ![c] = p]
    /\ todo' = todo \/ todo' = [todo EXCEPT ![c] = Tail(todo[c])]
    /\ \E b \in BOOLEAN : lampOk' = [lampOk EXCEPT ![c] = b]
    /\ \E s \in {0, 1, 128} : status' = [status EXCEPT ![c] = s] /\ (p = "ack" => s = 1)
    /\ p \in InThread => todo' = todo
    /\ p = "loop" => todo' = [todo EXCEPT ![c] = Tail(todo[c])]
    /\ event' = event /\ work' = work /\ session' = session /\ opened' = opened
    /\ lock' = lock /\ stream' = stream /\ events' = events

ServiceStep(c) == Balloon(c) \/ Table(c) \/ Cache(c) \/ Report(c)

LEMMA ServedBy ==
    ASSUME LoopOK, NEW c \in Conns, ServiceStep(c)
    PROVE  \E p \in {"table", "queue", "report", "loop", "ack"} : Served(c, p)
<1>1. ASSUME NEW b \in BOOLEAN, Result(c, b), pc[c] \in InThread,
             work' = work, session' = session, opened' = opened, lock' = lock,
             stream' = stream, events' = events
      PROVE  Served(c, "loop")
  <2>1. lampOk' = [lampOk EXCEPT ![c] = lampOk[c] \/ b] /\ (lampOk[c] \/ b) \in BOOLEAN
    BY <1>1 DEF Result, LoopOK
  <2>2. status' = [status EXCEPT ![c] = status[c]] /\ status[c] \in {0, 1, 128}
    BY <1>1 DEF Result, LoopOK
  <2> QED BY <1>1, <2>1, <2>2 DEF Result, Served, Go, InThread
<1>2. ASSUME Abort(c), pc[c] \in InThread,
             work' = work, session' = session, opened' = opened, lock' = lock,
             stream' = stream, events' = events
      PROVE  Served(c, "ack")
  <2>1. lampOk' = [lampOk EXCEPT ![c] = lampOk[c]] /\ lampOk[c] \in BOOLEAN
    BY <1>2 DEF Abort, LoopOK
  <2> QED BY <1>2, <2>1 DEF Abort, Served, Go, InThread
<1>3. ASSUME NEW p \in {"table", "queue", "report"}, Go(c, p), pc[c] \in InThread,
             event' = event, todo' = todo, lampOk' = lampOk, status' = status,
             work' = work, session' = session, opened' = opened, lock' = lock,
             stream' = stream, events' = events
      PROVE  Served(c, p)
  <2>1. lampOk' = [lampOk EXCEPT ![c] = lampOk[c]] /\ lampOk[c] \in BOOLEAN
    BY <1>3 DEF LoopOK
  <2>2. status' = [status EXCEPT ![c] = status[c]] /\ status[c] \in {0, 1, 128}
    BY <1>3 DEF LoopOK
  <2> QED BY <1>3, <2>1, <2>2 DEF Served, Go
<1>4. ASSUME NEW services, Continue(c, services), pc[c] \in InThread,
             work' = work, session' = session, opened' = opened, lock' = lock,
             stream' = stream, events' = events
      PROVE  \E p \in {"queue", "report", "loop"} : Served(c, p)
  <2>1. CASE services = {}
    BY <1>1, <1>4, <2>1 DEF Continue
  <2>2. CASE services # {}
    BY <1>3, <1>4, <2>2 DEF Continue
  <2> QED BY <2>1, <2>2
<1>5. /\ work' = work /\ session' = session /\ opened' = opened /\ lock' = lock
      /\ stream' = stream /\ events' = events /\ pc[c] \in InThread
  BY DEF ServiceStep, Balloon, Table, Cache, Report, sessionVars, InThread
<1>6. CASE Balloon(c)
  BY <1>1, <1>2, <1>3, <1>5, <1>6 DEF Balloon
<1>7. CASE Table(c)
  BY <1>1, <1>4, <1>5, <1>7 DEF Table
<1>8. CASE Cache(c)
  BY <1>1, <1>4, <1>5, <1>8 DEF Cache
<1>9. CASE Report(c)
  BY <1>1, <1>2, <1>5, <1>9 DEF Report
<1> QED BY <1>6, <1>7, <1>8, <1>9 DEF ServiceStep

\* A step towards the command: where the coroutine goes, the lock it takes or waits for
\* and the connection it reads from.
Commanded(c, p, l, s) ==
    /\ pc' = [pc EXCEPT ![c] = p]
    /\ lock' = [lock EXCEPT ![c] = l] /\ stream' = [stream EXCEPT ![c] = s]
    /\ todo[c] = <<>> /\ todo' = todo
    /\ \E a \in {0, 1, 128} : status' = [status EXCEPT ![c] = a]
    /\ event' = event /\ lampOk' = lampOk /\ rowOf' = rowOf /\ work' = work
    /\ passes' = passes /\ queue' = queue /\ events' = events

CommandStep(c) == Indicate(c) \/ Connect(c) \/ TakeLock(c)

LEMMA CommandedBy ==
    ASSUME Inv, NEW c \in Conns, CommandStep(c)
    PROVE  \E p \in {"connecting", "waiting", "answer", "ack"}, l, s \in 0..opened' :
               Commanded(c, p, l, s)
<1>1. todo[c] = <<>>
  BY DEF CommandStep, Indicate, Connect, TakeLock, Woken, Inv, TodoFits, Idle
<1>2. /\ event' = event /\ lampOk' = lampOk /\ rowOf' = rowOf /\ todo' = todo /\ work' = work
      /\ passes' = passes /\ queue' = queue /\ events' = events
  BY DEF CommandStep, Indicate, Connect, TakeLock, Write, Abort, loopVars, sessionVars, dbVars
<1>3. \E a \in {0, 1, 128} : status' = [status EXCEPT ![c] = a]
  <2>1. status' = status \/ status' = [status EXCEPT ![c] = 1]
    BY DEF CommandStep, Indicate, Connect, TakeLock, Write, Abort, loopVars, sessionVars, dbVars
  <2>2. status = [status EXCEPT ![c] = status[c]] /\ status[c] \in {0, 1, 128}
    BY DEF Inv, LoopOK
  <2> QED BY <2>1, <2>2
<1>4. \E p \in {"connecting", "waiting", "answer", "ack"} : pc' = [pc EXCEPT ![c] = p]
  BY DEF CommandStep, Indicate, Connect, TakeLock, Write, Abort, Go
<1>5. opened' >= opened /\ opened' \in Nat /\ session' \in 0..opened'
  BY DEF CommandStep, Indicate, Connect, TakeLock, sessionVars, Inv, SessionOK
<1>6. /\ lock = [lock EXCEPT ![c] = lock[c]] /\ lock[c] \in 0..opened'
      /\ stream = [stream EXCEPT ![c] = stream[c]] /\ stream[c] \in 0..opened'
  BY <1>5 DEF Inv, SessionOK
<1>7. \E l \in 0..opened' : lock' = [lock EXCEPT ![c] = l]
  BY <1>5, <1>6 DEF CommandStep, Indicate, Connect, TakeLock, sessionVars, Inv, SessionOK
<1>8. \E s \in 0..opened' : stream' = [stream EXCEPT ![c] = s]
  BY <1>5, <1>6 DEF CommandStep, Indicate, Connect, TakeLock, Write, Abort, sessionVars, Inv, SessionOK
<1> QED BY <1>1, <1>2, <1>3, <1>4, <1>7, <1>8 DEF Commanded

\* The reader's last connection and its current one.
LEMMA TwoConns ==
    ASSUME NEW a \in Conns, NEW b \in Conns, NEW d \in Conns, a # b, a # d, b # d
    PROVE  FALSE
<1> DEFINE A == {a}
           B == A \cup {b}
           D == B \cup {d}
<1>1. b \notin A /\ d \notin B /\ D \subseteq Conns
  OBVIOUS
<1>2. Cardinality(A) = 1 /\ IsFiniteSet(A)
  BY FS_Singleton
<1> HIDE DEF A
<1>3. IsFiniteSet(B) /\ Cardinality(B) = IF b \in A THEN Cardinality(A) ELSE Cardinality(A) + 1
  BY Zenon, <1>2, FS_AddElement
<1> HIDE DEF B
<1>4. IsFiniteSet(D) /\ Cardinality(D) = IF d \in B THEN Cardinality(B) ELSE Cardinality(B) + 1
  BY Zenon, <1>3, FS_AddElement
<1> HIDE DEF D
<1>5. IsFiniteSet(Conns) /\ Cardinality(Conns) <= 2
  BY RfidAssumption
<1>6. Cardinality(Conns) \in Nat /\ Cardinality(D) <= Cardinality(Conns)
  BY Zenon, <1>1, <1>5, FS_CardinalityType, FS_Subset
<1>7. Cardinality(D) = 3
  BY <1>1, <1>2, <1>3, <1>4
<1> QED BY <1>5, <1>6, <1>7

\* No other coroutine waits for a lock while the session connects anew.
LEMMA NobodyWaits ==
    ASSUME LocksFit, LoopOK, NEW c \in Conns, Connect(c), NEW d \in Conns
    PROVE  pc[d] # "waiting"
<1> SUFFICES ASSUME pc[d] = "waiting" PROVE FALSE
  OBVIOUS
<1>1. pc[c] = "connecting" /\ d # c
  BY DEF Connect
<1>2. ~LockFree(lock[d])
  BY <1>1 DEF Connect, OthersRan, Woken
<1>3. PICK e \in Conns : pc[e] = "answer"
  BY <1>2 DEF LockFree
<1> QED BY <1>1, <1>3, TwoConns

\* Only a tag event changes what the filter remembers.
LEMMA FilterStep ==
    ASSUME Inv, NEW c \in Conns, Reader(c) \/ Work(c)
    PROVE  FilterOK'
<1> USE RfidAssumption DEF Inv
<1>1. CASE Open(c)
  BY <1>1 DEF Open, Go, FilterOK, loopVars, dbVars, sessionVars
<1>2. CASE Close(c)
  BY <1>2 DEF Close, Go, FilterOK, loopVars, dbVars, sessionVars
<1>3. ASSUME NEW tags \in TagEvents[events + 1], events < MaxEvents, TagEvent(c, tags)
      PROVE  FilterOK'
  <2>1. tags \in Seq(Tags \cup Noise) /\ tags \in Handled
    BY <1>3 DEF SessionOK, Handled
  <2>2. Filter(tags) \in Filtered
    BY <2>1, FilterType DEF FilterOK
  <2>3. recent' = Filter(tags).recent
    BY <1>3 DEF TagEvent
  <2> QED BY <2>2, <2>3 DEF Filtered, FilterOK
<1>4. CASE InputEvent(c)
  BY <1>4 DEF InputEvent, Receive, Submit, Go, FilterOK, loopVars, dbVars, sessionVars
<1>5. CASE OtherEvent(c)
  BY <1>5 DEF OtherEvent, Receive, Go, FilterOK, loopVars, dbVars, sessionVars
<1>6. CASE Sensor(c)
  BY <1>6 DEF Sensor, Turn, Go, FilterOK, loopVars, dbVars, sessionVars
<1>7. CASE Start(c)
  BY <1>7 DEF Start, Turn, Go, FilterOK, loopVars, dbVars, sessionVars
<1>8. CASE NextTag(c)
  BY <1>8 DEF NextTag, Submit, Go, FilterOK, loopVars, dbVars, sessionVars
<1>9. CASE ServiceStep(c)
  <2>1. recent' = recent
    BY <1>9 DEF ServiceStep, Balloon, Table, Cache, Report
  <2> QED BY <2>1 DEF FilterOK
<1>10. CASE CommandStep(c)
  <2>1. recent' = recent
    BY <1>10 DEF CommandStep, Indicate, Connect, TakeLock
  <2> QED BY <2>1 DEF FilterOK
<1>11. CASE Answer(c)
  BY <1>11 DEF Answer, Go, FilterOK, loopVars, dbVars, sessionVars
<1>12. CASE Ack(c)
  BY <1>12 DEF Ack, Forget, Go, FilterOK, loopVars, dbVars, sessionVars
<1> QED BY <1>1, <1>2, <1>3, <1>4, <1>5, <1>6, <1>7, <1>8, <1>9, <1>10, <1>11, <1>12 DEF Reader, Work, ServiceStep, CommandStep

\* The state of the coroutines keeps its types.
LEMMA LoopStep ==
    ASSUME Inv, NEW c \in Conns, Reader(c) \/ Work(c)
    PROVE  LoopOK'
<1> USE RfidAssumption DEF Inv
<1>1. CASE Open(c)
  BY <1>1 DEF Open, Go, LoopOK, TodoFits, Busy, InThread, Places, loopVars, dbVars, sessionVars
<1>2. CASE Close(c)
  BY <1>2 DEF Close, Go, LoopOK, TodoFits, Busy, InThread, Places, loopVars, dbVars, sessionVars
<1>3. ASSUME NEW tags \in TagEvents[events + 1], events < MaxEvents, TagEvent(c, tags)
      PROVE  LoopOK'
  <2>1. tags \in Seq(Tags \cup Noise) /\ tags \in Handled
    BY <1>3 DEF SessionOK, Handled
  <2>2. Filter(tags) \in Filtered
    BY <2>1, FilterType DEF FilterOK
  <2> DEFINE new == Filter(tags).new
  <2>3. new \in Seq(Tags)
    BY <2>2 DEF Filtered
  <2> HIDE DEF new
  <2>4. todo' = [todo EXCEPT ![c] = new] /\ event' = [event EXCEPT ![c] = tags]
    BY <1>3 DEF TagEvent, new
  <2>5. \E b \in BOOLEAN : lampOk' = [lampOk EXCEPT ![c] = b]
    BY <1>3 DEF TagEvent
  <2>6. status' = [status EXCEPT ![c] = 0]
    BY <1>3 DEF TagEvent
  <2>7. \E p \in {"loop", "submitted"} : pc' = [pc EXCEPT ![c] = p]
    BY <1>3 DEF TagEvent, Go, Submit
  <2>8. work' = work \/ work' = Append(work, c)
    BY <1>3 DEF TagEvent, Submit
  <2>9. work' \in Seq(Conns)
    <3>1. work \in Seq(Conns)
      BY DEF LoopOK
    <3> QED BY <2>8, <3>1
  <2> QED BY <2>1, <2>3, <2>4, <2>5, <2>6, <2>7, <2>9 DEF LoopOK, Places
<1>4. CASE InputEvent(c)
  BY <1>4 DEF InputEvent, Receive, Submit, Go, LoopOK, TodoFits, Busy, InThread, Places, loopVars, dbVars, sessionVars
<1>5. CASE OtherEvent(c)
  BY <1>5 DEF OtherEvent, Receive, Go, LoopOK, TodoFits, Busy, InThread, Places, loopVars, dbVars, sessionVars
<1>6. CASE Sensor(c)
  BY <1>6 DEF Sensor, Turn, Go, LoopOK, TodoFits, Busy, InThread, Places, loopVars, dbVars, sessionVars
<1>7. CASE Start(c)
  BY <1>7 DEF Start, Turn, Go, LoopOK, TodoFits, Busy, InThread, Places, loopVars, dbVars, sessionVars
<1>8. CASE NextTag(c)
  BY <1>8 DEF NextTag, Submit, Go, LoopOK, TodoFits, Busy, InThread, Places, loopVars, dbVars, sessionVars
<1>9. CASE ServiceStep(c)
  <2>1. PICK p \in {"table", "queue", "report", "loop", "ack"} : Served(c, p)
    BY <1>9, ServedBy
  <2>2. pc' \in [Conns -> Places]
    BY <2>1 DEF Served, LoopOK, InThread, Places
  <2>3. todo[c] # <<>> /\ Tail(todo[c]) \in Seq(Tags)
    BY <2>1 DEF Served, LoopOK, TodoFits, Busy
  <2>4. todo' \in [Conns -> Seq(Tags)]
    <3>1. todo \in [Conns -> Seq(Tags)]
      BY DEF LoopOK
    <3>2. todo' = todo \/ todo' = [todo EXCEPT ![c] = Tail(todo[c])]
      BY <2>1 DEF Served
    <3> QED BY <2>3, <3>1, <3>2
  <2>5. lampOk' \in [Conns -> BOOLEAN] /\ status' \in [Conns -> {0, 1, 128}]
    BY <2>1 DEF Served, LoopOK
  <2> QED BY <2>1, <2>2, <2>4, <2>5 DEF Served, LoopOK
<1>10. CASE CommandStep(c)
  <2>1. PICK p \in {"connecting", "waiting", "answer", "ack"}, l, s \in 0..opened' : Commanded(c, p, l, s)
    BY <1>10, CommandedBy
  <2> QED BY <1>10, <2>1 DEF Commanded, LoopOK, TodoFits, Busy, InThread, Places
<1>11. CASE Answer(c)
  BY <1>11 DEF Answer, Go, LoopOK, TodoFits, Busy, InThread, Places, loopVars, dbVars, sessionVars
<1>12. CASE Ack(c)
  <2>1. \E p \in {"read", "closed"} : pc' = [pc EXCEPT ![c] = p]
    BY <1>12 DEF Ack, Go
  <2>2. pc' \in [Conns -> Places]
    BY <2>1 DEF LoopOK, Places
  <2>3. work' = work
    BY <1>12 DEF Ack
  <2>4. event' = [event EXCEPT ![c] = <<>>] /\ todo' = [todo EXCEPT ![c] = <<>>]
    BY <1>12 DEF Ack, Forget
  <2>5. lampOk' = [lampOk EXCEPT ![c] = FALSE] /\ status' = [status EXCEPT ![c] = 0]
    BY <1>12 DEF Ack, Forget
  <2>6. event' \in [Conns -> Handled]
    BY <2>4 DEF LoopOK, Handled
  <2> QED BY <2>2, <2>3, <2>4, <2>5, <2>6 DEF LoopOK
<1> QED BY <1>1, <1>2, <1>3, <1>4, <1>5, <1>6, <1>7, <1>8, <1>9, <1>10, <1>11, <1>12 DEF Reader, Work, ServiceStep, CommandStep

\* A coroutine has tags to process as long as it is with the services.
LEMMA TodoStep ==
    ASSUME Inv, NEW c \in Conns, Reader(c) \/ Work(c)
    PROVE  TodoFits'
<1> USE RfidAssumption DEF Inv
<1>1. CASE Open(c)
  BY <1>1 DEF Open, Go, LoopOK, TodoFits, Busy, Idle, InThread, Places, loopVars, dbVars, sessionVars
<1>2. CASE Close(c)
  BY <1>2 DEF Close, Go, LoopOK, TodoFits, Busy, Idle, InThread, Places, loopVars, dbVars, sessionVars
<1>3. ASSUME NEW tags \in TagEvents[events + 1], events < MaxEvents, TagEvent(c, tags)
      PROVE  TodoFits'
  BY <1>3 DEF TagEvent, Receive, Submit, Go, LoopOK, TodoFits, Busy, Idle, InThread, Places, loopVars, dbVars, sessionVars
<1>4. CASE InputEvent(c)
  BY <1>4 DEF InputEvent, Receive, Submit, Go, LoopOK, TodoFits, Busy, Idle, InThread, Places, loopVars, dbVars, sessionVars
<1>5. CASE OtherEvent(c)
  BY <1>5 DEF OtherEvent, Receive, Go, LoopOK, TodoFits, Busy, Idle, InThread, Places, loopVars, dbVars, sessionVars
<1>6. CASE Sensor(c)
  BY <1>6 DEF Sensor, Turn, Go, LoopOK, TodoFits, Busy, Idle, InThread, Places, loopVars, dbVars, sessionVars
<1>7. CASE Start(c)
  BY <1>7 DEF Start, Turn, Go, LoopOK, TodoFits, Busy, Idle, InThread, Places, loopVars, dbVars, sessionVars
<1>8. CASE NextTag(c)
  BY <1>8 DEF NextTag, Submit, Go, LoopOK, TodoFits, Busy, Idle, InThread, Places, loopVars, dbVars, sessionVars
<1>9. CASE ServiceStep(c)
  <2>1. PICK p \in {"table", "queue", "report", "loop", "ack"} : Served(c, p)
    BY <1>9, ServedBy
  <2> QED BY <2>1 DEF Served, LoopOK, TodoFits, Busy, Idle, InThread, Places
<1>10. CASE CommandStep(c)
  <2>1. PICK p \in {"connecting", "waiting", "answer", "ack"}, l, s \in 0..opened' : Commanded(c, p, l, s)
    BY <1>10, CommandedBy
  <2> QED BY <1>10, <2>1 DEF Commanded, LoopOK, TodoFits, Busy, Idle, InThread, Places
<1>11. CASE Answer(c)
  BY <1>11 DEF Answer, Go, LoopOK, TodoFits, Busy, Idle, InThread, Places, loopVars, dbVars, sessionVars
<1>12. CASE Ack(c)
  BY <1>12 DEF Ack, Forget, Go, LoopOK, TodoFits, Busy, Idle, InThread, Places, loopVars, dbVars, sessionVars
<1> QED BY <1>1, <1>2, <1>3, <1>4, <1>5, <1>6, <1>7, <1>8, <1>9, <1>10, <1>11, <1>12 DEF Reader, Work, ServiceStep, CommandStep

\* One coroutine at most is with the services.
LEMMA ThreadStep ==
    ASSUME Inv, NEW c \in Conns, Reader(c) \/ Work(c)
    PROVE  OneInThread'
<1> USE RfidAssumption DEF Inv
<1>1. CASE Open(c)
  BY <1>1 DEF Open, Go, LoopOK, RowsInv, OneInThread, InThread, loopVars, dbVars, sessionVars
<1>2. CASE Close(c)
  BY <1>2 DEF Close, Go, LoopOK, RowsInv, OneInThread, InThread, loopVars, dbVars, sessionVars
<1>3. ASSUME NEW tags \in TagEvents[events + 1], events < MaxEvents, TagEvent(c, tags)
      PROVE  OneInThread'
  <2>1. \E p \in {"loop", "submitted"} : pc' = [pc EXCEPT ![c] = p]
    BY <1>3 DEF TagEvent, Go, Submit
  <2> QED BY <2>1 DEF LoopOK, RowsInv, OneInThread, InThread
<1>4. CASE InputEvent(c)
  BY <1>4 DEF InputEvent, Receive, Submit, Go, LoopOK, RowsInv, OneInThread, InThread, loopVars, dbVars, sessionVars
<1>5. CASE OtherEvent(c)
  BY <1>5 DEF OtherEvent, Receive, Go, LoopOK, RowsInv, OneInThread, InThread, loopVars, dbVars, sessionVars
<1>6. CASE Sensor(c)
  BY <1>6 DEF Sensor, Turn, Go, LoopOK, RowsInv, OneInThread, InThread, loopVars, dbVars, sessionVars
<1>7. CASE Start(c)
  BY <1>7 DEF Start, Turn, Go, LoopOK, RowsInv, OneInThread, InThread, loopVars, dbVars, sessionVars
<1>8. CASE NextTag(c)
  BY <1>8 DEF NextTag, Submit, Go, LoopOK, RowsInv, OneInThread, InThread, loopVars, dbVars, sessionVars
<1>9. CASE ServiceStep(c)
  <2>1. PICK p \in {"table", "queue", "report", "loop", "ack"} : Served(c, p)
    BY <1>9, ServedBy
  <2> QED BY <2>1 DEF Served, LoopOK, RowsInv, OneInThread, InThread
<1>10. CASE CommandStep(c)
  <2>1. PICK p \in {"connecting", "waiting", "answer", "ack"}, l, s \in 0..opened' : Commanded(c, p, l, s)
    BY <1>10, CommandedBy
  <2> QED BY <1>10, <2>1 DEF Commanded, LoopOK, RowsInv, OneInThread, InThread
<1>11. CASE Answer(c)
  BY <1>11 DEF Answer, Go, LoopOK, RowsInv, OneInThread, InThread, loopVars, dbVars, sessionVars
<1>12. CASE Ack(c)
  <2>1. \E p \in {"read", "closed"} : pc' = [pc EXCEPT ![c] = p]
    BY <1>12 DEF Ack, Go
  <2> QED BY <2>1 DEF LoopOK, RowsInv, OneInThread, InThread
<1> QED BY <1>1, <1>2, <1>3, <1>4, <1>5, <1>6, <1>7, <1>8, <1>9, <1>10, <1>11, <1>12 DEF Reader, Work, ServiceStep, CommandStep

\* The command connections are numbered in the order of their opening.
LEMMA SessionStep ==
    ASSUME Inv, NEW c \in Conns, Reader(c) \/ Work(c)
    PROVE  SessionOK'
<1> USE RfidAssumption DEF Inv
<1>1. CASE Open(c)
  BY <1>1 DEF Open, Go, LoopOK, SessionOK, loopVars, dbVars, sessionVars
<1>2. CASE Close(c)
  BY <1>2 DEF Close, Go, LoopOK, SessionOK, loopVars, dbVars, sessionVars
<1>3. ASSUME NEW tags \in TagEvents[events + 1], events < MaxEvents, TagEvent(c, tags)
      PROVE  SessionOK'
  BY <1>3 DEF TagEvent, Receive, Submit, Go, LoopOK, SessionOK, loopVars, dbVars, sessionVars
<1>4. CASE InputEvent(c)
  BY <1>4 DEF InputEvent, Receive, Submit, Go, LoopOK, SessionOK, loopVars, dbVars, sessionVars
<1>5. CASE OtherEvent(c)
  BY <1>5 DEF OtherEvent, Receive, Go, LoopOK, SessionOK, loopVars, dbVars, sessionVars
<1>6. CASE Sensor(c)
  BY <1>6 DEF Sensor, Turn, Go, LoopOK, SessionOK, loopVars, dbVars, sessionVars
<1>7. CASE Start(c)
  BY <1>7 DEF Start, Turn, Go, LoopOK, SessionOK, loopVars, dbVars, sessionVars
<1>8. CASE NextTag(c)
  BY <1>8 DEF NextTag, Submit, Go, LoopOK, SessionOK, loopVars, dbVars, sessionVars
<1>9. CASE ServiceStep(c)
  <2>1. PICK p \in {"table", "queue", "report", "loop", "ack"} : Served(c, p)
    BY <1>9, ServedBy
  <2> QED BY <2>1 DEF Served, LoopOK, SessionOK
<1>10. CASE CommandStep(c)
  <2>1. PICK p \in {"connecting", "waiting", "answer", "ack"}, l, s \in 0..opened' : Commanded(c, p, l, s)
    BY <1>10, CommandedBy
  <2>2. opened' \in 0..MaxSessions /\ session' \in 0..opened' /\ opened' >= opened
    BY <1>10 DEF CommandStep, Indicate, Connect, TakeLock, sessionVars, SessionOK
  <2>3. lock \in [Conns -> 0..opened'] /\ stream \in [Conns -> 0..opened']
    BY <2>2 DEF SessionOK
  <2> QED BY <2>1, <2>2, <2>3 DEF Commanded, SessionOK
<1>11. CASE Answer(c)
  BY <1>11 DEF Answer, Go, LoopOK, SessionOK, loopVars, dbVars, sessionVars
<1>12. CASE Ack(c)
  BY <1>12 DEF Ack, Forget, Go, LoopOK, SessionOK, loopVars, dbVars, sessionVars
<1> QED BY <1>1, <1>2, <1>3, <1>4, <1>5, <1>6, <1>7, <1>8, <1>9, <1>10, <1>11, <1>12 DEF Reader, Work, ServiceStep, CommandStep

\* Who reads an answer holds the lock of the connection.
LEMMA LocksStep ==
    ASSUME Inv, NEW c \in Conns, Reader(c) \/ Work(c)
    PROVE  LocksFit'
<1> USE RfidAssumption DEF Inv
<1>1. CASE Open(c)
  BY <1>1 DEF Open, Go, LoopOK, SessionOK, LocksFit, loopVars, dbVars, sessionVars
<1>2. CASE Close(c)
  BY <1>2 DEF Close, Go, LoopOK, SessionOK, LocksFit, loopVars, dbVars, sessionVars
<1>3. ASSUME NEW tags \in TagEvents[events + 1], events < MaxEvents, TagEvent(c, tags)
      PROVE  LocksFit'
  <2>1. \E p \in {"loop", "submitted"} : pc' = [pc EXCEPT ![c] = p]
    BY <1>3 DEF TagEvent, Go, Submit
  <2>2. session' = session /\ lock' = lock /\ stream' = stream
    BY <1>3 DEF TagEvent, sessionVars
  <2> QED BY <2>1, <2>2 DEF LoopOK, LocksFit
<1>4. CASE InputEvent(c)
  BY <1>4 DEF InputEvent, Receive, Submit, Go, LoopOK, SessionOK, LocksFit, loopVars, dbVars, sessionVars
<1>5. CASE OtherEvent(c)
  BY <1>5 DEF OtherEvent, Receive, Go, LoopOK, SessionOK, LocksFit, loopVars, dbVars, sessionVars
<1>6. CASE Sensor(c)
  BY <1>6 DEF Sensor, Turn, Go, LoopOK, SessionOK, LocksFit, loopVars, dbVars, sessionVars
<1>7. CASE Start(c)
  BY <1>7 DEF Start, Turn, Go, LoopOK, SessionOK, LocksFit, loopVars, dbVars, sessionVars
<1>8. CASE NextTag(c)
  BY <1>8 DEF NextTag, Submit, Go, LoopOK, SessionOK, LocksFit, loopVars, dbVars, sessionVars
<1>9. CASE ServiceStep(c)
  <2>1. PICK p \in {"table", "queue", "report", "loop", "ack"} : Served(c, p)
    BY <1>9, ServedBy
  <2> QED BY <2>1 DEF Served, LoopOK, SessionOK, LocksFit
<1>10. CASE CommandStep(c)
  <2>1. PICK p \in {"connecting", "waiting", "answer", "ack"}, l, s \in 0..opened' : Commanded(c, p, l, s)
    BY <1>10, CommandedBy
  <2>2. pc'[c] = p /\ lock'[c] = l /\ stream'[c] = s
    BY <2>1 DEF Commanded, LoopOK, SessionOK
  <2>3. \A d \in Conns \ {c} : pc'[d] = pc[d] /\ lock'[d] = lock[d] /\ stream'[d] = stream[d]
    BY <2>1 DEF Commanded, LoopOK, SessionOK
  <2>4. ASSUME p = "answer" PROVE l = s /\ \A d \in Conns \ {c} : pc[d] = "answer" => lock[d] # l
    <3>1. CASE Indicate(c)
      BY <2>1, <2>2, <2>4, <3>1 DEF Indicate, Write, Abort, Go, LockFree, LoopOK, SessionOK
    <3>2. CASE Connect(c)
      <4>1. l = opened + 1 /\ s = opened + 1
        BY <2>2, <2>4, <3>2 DEF Connect, Write, Abort, Go, LoopOK, SessionOK
      <4> QED BY <4>1 DEF SessionOK
    <3>3. CASE TakeLock(c)
      <4>1. l = lock[c] /\ s = session /\ session # 0 /\ pc[c] = "waiting" /\ LockFree(lock[c])
        BY <2>2, <2>4, <3>3 DEF TakeLock, Woken, Write, Abort, Go, LoopOK, SessionOK
      <4> QED BY <4>1 DEF LocksFit, LockFree
    <3> QED BY <1>10, <3>1, <3>2, <3>3 DEF CommandStep
  <2>5. ASSUME p = "waiting" PROVE session' = l
    <3>1. Indicate(c)
      BY <1>10, <2>2, <2>5 DEF CommandStep, Connect, TakeLock, Write, Abort, Go, LoopOK
    <3> QED BY <2>2, <2>5, <3>1 DEF Indicate, Write, Abort, Go, LoopOK, SessionOK
  <2>6. ASSUME NEW d \in Conns \ {c}, pc[d] = "waiting" PROVE session' = session
    <3>1. ~Connect(c)
      BY <2>6, NobodyWaits
    <3> QED BY <1>10, <3>1 DEF CommandStep, Indicate, TakeLock
  <2>7. \A d \in Conns : pc'[d] = "answer" => lock'[d] = stream'[d]
    BY <2>2, <2>3, <2>4 DEF LocksFit
  <2>8. \A d, e \in Conns : d # e /\ pc'[d] = "answer" /\ pc'[e] = "answer" => lock'[d] # lock'[e]
    BY <2>2, <2>3, <2>4 DEF LocksFit
  <2>9. \A d \in Conns : pc'[d] = "waiting" => session' \in {0, lock'[d]}
    BY <2>2, <2>3, <2>5, <2>6 DEF LocksFit
  <2> QED BY <2>7, <2>8, <2>9 DEF LocksFit
<1>11. CASE Answer(c)
  BY <1>11 DEF Answer, Go, LoopOK, SessionOK, LocksFit, loopVars, dbVars, sessionVars
<1>12. CASE Ack(c)
  BY <1>12 DEF Ack, Forget, Go, LoopOK, SessionOK, LocksFit, loopVars, dbVars, sessionVars
<1> QED BY <1>1, <1>2, <1>3, <1>4, <1>5, <1>6, <1>7, <1>8, <1>9, <1>10, <1>11, <1>12 DEF Reader, Work, ServiceStep, CommandStep

\* A step that neither records a pass nor queues one.
RowsLeft(c) ==
    /\ passes' = passes /\ queue' = queue
    /\ rowOf' = rowOf \/ rowOf' = [rowOf EXCEPT ![c] = 0]
    /\ \E p \in Places \ {"queue"} : pc' = [pc EXCEPT ![c] = p]

LEMMA RowsLeftBy ==
    ASSUME Inv, NEW c \in Conns, Reader(c) \/ Work(c), ~Table(c), ~Cache(c)
    PROVE  RowsLeft(c)
<1> USE DEF Places, RowsLeft
<1>1. CASE Open(c) \/ Close(c)
  BY <1>1 DEF Open, Close, Go, loopVars, dbVars
<1>2. ASSUME NEW tags \in TagEvents[events + 1], TagEvent(c, tags) PROVE RowsLeft(c)
  <2>1. \E p \in {"loop", "submitted"} : pc' = [pc EXCEPT ![c] = p]
    BY <1>2 DEF TagEvent, Go, Submit
  <2>2. rowOf' = rowOf /\ passes' = passes /\ queue' = queue
    BY <1>2 DEF TagEvent, dbVars
  <2> QED BY <2>1, <2>2
<1>3. CASE InputEvent(c) \/ OtherEvent(c)
  BY <1>3 DEF InputEvent, OtherEvent, Submit, Go, dbVars
<1>4. CASE Sensor(c) \/ Start(c) \/ NextTag(c)
  BY <1>4 DEF Sensor, Start, NextTag, Submit, Go, loopVars, dbVars, InThread
<1>5. CASE Balloon(c) \/ Report(c)
  <2>1. rowOf' = rowOf /\ passes' = passes /\ queue' = queue
    BY <1>5 DEF Balloon, Report
  <2>2. \E p \in {"table", "loop", "ack"} : pc' = [pc EXCEPT ![c] = p]
    BY <1>5 DEF Balloon, Report, Result, Abort, Go
  <2> QED BY <2>1, <2>2 DEF InThread
<1>6. CASE CommandStep(c)
  BY <1>6, CommandedBy DEF Commanded
<1>7. CASE Answer(c)
  BY <1>7 DEF Answer, Go, loopVars, dbVars
<1>8. CASE Ack(c)
  <2>1. rowOf' = [rowOf EXCEPT ![c] = 0] /\ passes' = passes /\ queue' = queue
    BY <1>8 DEF Ack, Forget, dbVars
  <2>2. \E p \in {"read", "closed"} : pc' = [pc EXCEPT ![c] = p]
    BY <1>8 DEF Ack, Go
  <2> QED BY <2>1, <2>2
<1> QED BY <1>1, <1>2, <1>3, <1>4, <1>5, <1>6, <1>7, <1>8 DEF Reader, Work, CommandStep

RowsFollow == RowsOK /\ RowAhead /\ QueueFollowsPasses

\* Passes are queued in the order of their rows: the row that is queued next is the last
\* of the table, and newer than all that are queued.
LEMMA RowsStep ==
    ASSUME Inv, NEW c \in Conns, Reader(c) \/ Work(c)
    PROVE  RowsFollow'
<1>1. RowsOK /\ RowAhead /\ QueueFollowsPasses /\ OneInThread /\ pc \in [Conns -> Places]
  BY DEF Inv, RowsInv, LoopOK
<1>2. CASE RowsLeft(c)
  <2>1. RowsOK'
    BY <1>1, <1>2 DEF RowsLeft, RowsOK
  <2>2. ASSUME NEW d \in Conns, pc'[d] = "queue"
        PROVE  rowOf'[d] # 0 /\ \A i \in DOMAIN queue' : queue'[i] < rowOf'[d]
    <3>1. d # c /\ pc[d] = "queue"
      BY <1>1, <1>2, <2>2 DEF RowsLeft
    <3>2. rowOf'[d] = rowOf[d] /\ queue' = queue
      BY <1>1, <1>2, <3>1 DEF RowsLeft, RowsOK
    <3> QED BY <1>1, <3>1, <3>2 DEF RowAhead
  <2>3. QueueFollowsPasses'
    BY <1>1, <1>2 DEF RowsLeft, QueueFollowsPasses
  <2> QED BY <2>1, <2>2, <2>3 DEF RowsFollow, RowAhead
<1>3. CASE Table(c)
  <2>1. queue' = queue /\ pc[c] = "table"
    BY <1>3 DEF Table
  <2>2. \A d \in Conns \ {c} : pc'[d] = pc[d] /\ pc[d] # "queue"
    BY <1>1, <1>3 DEF Table, Continue, Result, Go, OneInThread, InThread
  <2>3. CASE passes' = passes /\ rowOf' = rowOf /\ Result(c, FALSE)
    <3>1. RowsOK'
      BY <1>1, <2>1, <2>3 DEF RowsOK
    <3>2. pc'[c] # "queue"
      BY <1>1, <2>3 DEF Result, Go
    <3> QED BY <1>1, <2>1, <2>2, <3>1, <3>2 DEF RowsFollow, RowAhead, QueueFollowsPasses
  <2>4. CASE passes' = Append(passes, Head(todo[c])) /\ rowOf' = [rowOf EXCEPT ![c] = Len(passes')]
    <3>1. Head(todo[c]) \in Tags
      BY <2>1 DEF Inv, LoopOK, TodoFits, Busy, InThread
    <3>2. passes' \in Seq(Tags) /\ Len(passes') = Len(passes) + 1 /\ Len(passes) \in Nat
      BY <1>1, <2>4, <3>1 DEF RowsOK
    <3>3. rowOf' \in [Conns -> 0..Len(passes')]
      BY <1>1, <2>4, <3>2 DEF RowsOK
    <3>4. \A i \in DOMAIN queue : queue[i] \in 1..Len(passes)
      BY <1>1 DEF RowsOK
    <3>5. queue' \in Seq(1..Len(passes'))
      <4>1. queue \in Seq(1..Len(passes)) /\ 1..Len(passes) \subseteq 1..Len(passes')
        BY <1>1, <3>2 DEF RowsOK
      <4> QED BY <2>1, <4>1, SeqWider
    <3>6. rowOf'[c] = Len(passes) + 1
      BY <1>1, <2>4, <3>2 DEF RowsOK
    <3>7. RowAhead'
      BY <2>1, <2>2, <3>2, <3>4, <3>6 DEF RowAhead
    <3> QED BY <1>1, <2>1, <3>2, <3>3, <3>5, <3>7 DEF RowsFollow, RowsOK, QueueFollowsPasses
  <2> QED BY <1>3, <2>3, <2>4 DEF Table
<1>4. CASE Cache(c)
  <2>1. passes' = passes /\ rowOf' = rowOf /\ pc[c] = "queue"
    BY <1>4 DEF Cache
  <2>2. \A d \in Conns : pc'[d] # "queue"
    <3>1. \E p \in Places \ {"queue"} : pc' = [pc EXCEPT ![c] = p]
      BY <1>4 DEF Cache, Continue, Result, Go, Reporting, Places, InThread
    <3> QED BY <1>1, <2>1, <3>1 DEF OneInThread, InThread
  <2>3. queue' = queue \/ queue' = Append(queue, rowOf[c])
    BY <1>4 DEF Cache
  <2>4. rowOf[c] \in 1..Len(passes) /\ \A i \in DOMAIN queue : queue[i] < rowOf[c]
    BY <1>1, <2>1 DEF RowAhead, RowsOK
  <2>5. queue' \in Seq(1..Len(passes))
    <3>1. queue \in Seq(1..Len(passes))
      BY <1>1 DEF RowsOK
    <3> QED BY <2>3, <2>4, <3>1
  <2>6. QueueFollowsPasses'
    <3>1. CASE queue' = queue
      BY <1>1, <3>1 DEF QueueFollowsPasses
    <3>2. CASE queue' = Append(queue, rowOf[c])
      <4>1. queue \in Seq(1..Len(passes))
        BY <1>1 DEF RowsOK
      <4>2. \A i \in 1..(Len(queue) + 1) :
                queue'[i] = IF i = Len(queue) + 1 THEN rowOf[c] ELSE queue[i]
        BY <3>2, <4>1
      <4>3. DOMAIN queue' = 1..(Len(queue) + 1) /\ DOMAIN queue = 1..Len(queue) /\ Len(queue) \in Nat
        BY <3>2, <4>1
      <4> QED BY <1>1, <2>4, <4>2, <4>3 DEF QueueFollowsPasses
    <3> QED BY <2>3, <3>1, <3>2
  <2> QED BY <1>1, <2>1, <2>2, <2>5, <2>6 DEF RowsFollow, RowsOK, RowAhead
<1> QED BY <1>2, <1>3, <1>4, RowsLeftBy

\* The invariant is inductive.
LEMMA InvStep == Inv /\ [Next]_vars => Inv'
<1> SUFFICES ASSUME Inv, [Next]_vars PROVE Inv'
  OBVIOUS
<1>1. CASE Next
  <2>1. PICK c \in Conns : Reader(c) \/ Work(c)
    BY <1>1 DEF Next
  <2>2. FilterOK' /\ LoopOK' /\ TodoFits' /\ OneInThread' /\ SessionOK' /\ LocksFit'
    BY <2>1, FilterStep, LoopStep, TodoStep, ThreadStep, SessionStep, LocksStep
  <2>3. RowsOK' /\ RowAhead' /\ QueueFollowsPasses'
    BY <2>1, RowsStep DEF RowsFollow
  <2> QED BY <2>2, <2>3 DEF Inv, RowsInv
<1>2. CASE UNCHANGED vars
  <2>1. FilterOK' /\ LoopOK' /\ TodoFits'
    BY <1>2 DEF vars, loopVars, Inv, FilterOK, LoopOK, TodoFits
  <2>2. RowsInv'
    BY <1>2 DEF vars, loopVars, dbVars, Inv, RowsInv, RowsOK, OneInThread, RowAhead, QueueFollowsPasses
  <2>3. SessionOK' /\ LocksFit'
    BY <1>2 DEF vars, sessionVars, Inv, SessionOK, LocksFit
  <2> QED BY <2>1, <2>2, <2>3 DEF Inv
<1> QED BY <1>1, <1>2

(***************************************************************************)
(* The theorems.                                                           *)
(***************************************************************************)

\* A sequence that repeats nothing has as many members as places.
LEMMA DistinctCardinality ==
    ASSUME NEW S, NEW s \in Seq(S), Distinct(s)
    PROVE  Cardinality(SeqToSet(s)) = Len(s)
<1>1. s \in Bijection(1..Len(s), SeqToSet(s))
  BY DEF Bijection, Injection, Surjection, IsInjective, SeqToSet, Distinct
<1> QED BY <1>1, FS_CountingElements DEF ExistsBijection

\* The invariant implies the types.
LEMMA InvTypes == Inv => TypeOK
<1> SUFFICES ASSUME Inv PROVE TypeOK
  OBVIOUS
<1>1. Cardinality(SeqToSet(recent)) = Len(recent)
  BY DistinctCardinality DEF Inv, FilterOK
<1> QED BY <1>1 DEF Inv, FilterOK, LoopOK, RowsInv, RowsOK, SessionOK, TypeOK, Places, Handled

\* Type correctness: the deque of remembered tags never exceeds maxlen and holds no tag
\* twice, and the coroutines, the Reader table, the queue and the command sessions of
\* the notification server keep the types the code gives them.
THEOREM RfidTypeCorrect == Spec => []TypeOK
<1> QED BY InitInv, InvStep, InvTypes, PTL DEF Spec

\* add_balloon_to_cache pushes the passports in the order in which the tags passed and
\* were inserted into the Reader table, whichever coroutine of the old or the new
\* connection processed them.
THEOREM QueueInOrder == Spec => []QueueFollowsPasses
<1>1. Inv => QueueFollowsPasses
  BY DEF Inv, RowsInv
<1> QED BY InitInv, InvStep, <1>1, PTL DEF Spec

\* The lock of FeigReaderSession: two coroutines are never between sending a lamp command
\* and reading its answer on one command connection, also when the session connects anew.
THEOREM CommandsApart == Spec => []OneCommandPerStream
<1>1. Inv => OneCommandPerStream
  BY DEF Inv, LocksFit, OneCommandPerStream
<1> QED BY InitInv, InvStep, <1>1, PTL DEF Spec

\* The reader gets a good acknowledgement only for an event whose new tags have all been
\* through the services, and whose lamp command did not fail.
THEOREM AcksHonest == Spec => []AckHonest
<1>1. Inv => AckHonest
  BY DEF Inv, TodoFits, AckHonest
<1> QED BY InitInv, InvStep, <1>1, PTL DEF Spec

(***************************************************************************)
(* No tag is processed twice.                                              *)
(*                                                                         *)
(* The filter forgets: the deque has maxlen places.  A tag some coroutine  *)
(* has still to process is safe only while the other one cannot bring      *)
(* enough new tags.  It cannot, because the thread serves them in turn and *)
(* an acknowledgement waits for whoever is ready: for each tag of its own  *)
(* a coroutine sees at most one further event of the other one.            *)
(***************************************************************************)

\* y is among the last n + 1 tags of s.
Lags(s, y, n) == \E p \in 1..Len(s) : s[p] = y /\ Len(s) - p <= n

\* It may be allowed to be further behind.
LEMMA LagsMore ==
    ASSUME NEW s \in Seq(Tags), NEW y, NEW n \in Int, NEW k \in Int, n <= k, Lags(s, y, n)
    PROVE  Lags(s, y, k)
BY DEF Lags

\* A new tag sends the others one place back, and none out that is not at the end.
LEMMA RememberLags ==
    ASSUME NEW s \in Seq(Tags), Len(s) <= Depth, NEW t \in Tags
    PROVE  /\ Lags(Remember(s, t), t, 0)
           /\ \A y \in Tags, n \in Nat :
                 Lags(s, y, n) /\ n + 1 < Depth => Lags(Remember(s, t), y, n + 1)
<1> USE RfidAssumption
<1>1. CASE Len(s) = Depth
  <2> DEFINE r == Append(Tail(s), t)
  <2>1. Remember(s, t) = r
    BY <1>1 DEF Remember
  <2>2. /\ r \in Seq(Tags) /\ Len(r) = Len(s) /\ Len(s) \in Nat \ {0}
        /\ \A i \in 1..Len(s) : r[i] = IF i = Len(s) THEN t ELSE s[i + 1]
    BY <1>1
  <2> HIDE DEF r
  <2>3. Lags(r, t, 0)
    BY <2>2 DEF Lags
  <2>4. ASSUME NEW y \in Tags, NEW n \in Nat, Lags(s, y, n), n + 1 < Depth
        PROVE  Lags(r, y, n + 1)
    <3>1. PICK p \in 1..Len(s) : s[p] = y /\ Len(s) - p <= n
      BY <2>4 DEF Lags
    <3>2. p - 1 \in 1..Len(s) /\ p - 1 # Len(s) /\ (p - 1) + 1 = p /\ Len(s) - (p - 1) <= n + 1
      BY <1>1, <2>4, <3>1
    <3>3. r[p - 1] = y
      BY <2>2, <3>1, <3>2
    <3> QED BY <2>2, <3>2, <3>3 DEF Lags
  <2> QED BY <2>1, <2>3, <2>4
<1>2. CASE Len(s) < Depth
  <2> DEFINE r == Append(s, t)
  <2>1. Remember(s, t) = r
    BY <1>2 DEF Remember
  <2>2. /\ r \in Seq(Tags) /\ Len(r) = Len(s) + 1 /\ Len(s) \in Nat
        /\ \A i \in 1..(Len(s) + 1) : r[i] = IF i = Len(s) + 1 THEN t ELSE s[i]
    OBVIOUS
  <2> HIDE DEF r
  <2>3. Lags(r, t, 0)
    BY <2>2 DEF Lags
  <2>4. ASSUME NEW y \in Tags, NEW n \in Nat, Lags(s, y, n), n + 1 < Depth
        PROVE  Lags(r, y, n + 1)
    <3>1. PICK p \in 1..Len(s) : s[p] = y /\ Len(s) - p <= n
      BY <2>4 DEF Lags
    <3>2. p \in 1..Len(r) /\ p # Len(s) + 1 /\ Len(r) - p <= n + 1
      BY <2>2, <3>1
    <3>3. r[p] = y
      BY <2>2, <3>1, <3>2
    <3> QED BY <3>2, <3>3 DEF Lags
  <2> QED BY <2>1, <2>3, <2>4
<1> QED BY <1>1, <1>2

\* What a filter has done to the deque after i tags: as many new ones at its end, and
\* what was there as much further behind, and not among the new ones.
Grown(i, x) ==
    /\ Len(x.new) <= i
    /\ \A y \in Tags, n \in Nat : Lags(recent, y, n) /\ n + Len(x.new) < Depth
          => Lags(x.recent, y, n + Len(x.new)) /\ y \notin SeqToSet(x.new)
    /\ \A j \in 1..Len(x.new) :
          Len(x.new) - j < Depth => Lags(x.recent, x.new[j], Len(x.new) - j)

\* One tag more.
LEMMA GrownMore ==
    ASSUME NEW x \in Filtered, NEW i \in Nat, Grown(i, x), NEW t \in Tags
    PROVE  Grown(i + 1, filter_duplicate_tag(x, t))
<1> USE RfidAssumption
<1>1. /\ x.recent \in Seq(Tags) /\ x.new \in Seq(Tags) /\ Len(x.recent) <= Depth
      /\ Len(x.new) \in Nat /\ Len(x.recent) \in Nat
  BY DEF Filtered
<1>2. CASE t \in SeqToSet(x.recent)
  <2>1. filter_duplicate_tag(x, t) = x
    BY <1>2 DEF filter_duplicate_tag
  <2>2. Len(x.new) <= i + 1
    BY <1>1 DEF Grown
  <2> QED BY <2>1, <2>2 DEF Grown
<1>3. CASE t \notin SeqToSet(x.recent)
  <2> DEFINE r == Remember(x.recent, t)
             w == Append(x.new, t)
             k == Len(x.new)
  <2>1. filter_duplicate_tag(x, t) = [recent |-> r, new |-> w]
    BY <1>3 DEF filter_duplicate_tag
  <2>2. /\ w \in Seq(Tags) /\ Len(w) = k + 1
        /\ \A j \in 1..(k + 1) : w[j] = IF j = k + 1 THEN t ELSE x.new[j]
    BY <1>1
  <2>3. /\ Lags(r, t, 0)
        /\ \A y \in Tags, n \in Nat : Lags(x.recent, y, n) /\ n + 1 < Depth => Lags(r, y, n + 1)
    BY <1>1, RememberLags
  <2> HIDE DEF r, w
  <2>4. Len(w) <= i + 1
    BY <1>1, <2>2 DEF Grown
  <2>5. ASSUME NEW y \in Tags, NEW n \in Nat, Lags(recent, y, n), n + Len(w) < Depth
        PROVE  Lags(r, y, n + Len(w)) /\ y \notin SeqToSet(w)
    <3>1. n + k \in Nat /\ n + k < Depth /\ (n + k) + 1 < Depth /\ (n + k) + 1 = n + Len(w)
      BY <1>1, <2>2, <2>5
    <3>2. Lags(x.recent, y, n + k) /\ y \notin SeqToSet(x.new)
      BY <2>5, <3>1 DEF Grown
    <3>3. Lags(r, y, n + Len(w))
      BY <2>3, <3>1, <3>2
    <3>4. y # t
      BY <1>1, <1>3, <3>2 DEF Lags, SeqToSet
    <3>5. y \notin SeqToSet(w)
      <4> SUFFICES ASSUME NEW j \in DOMAIN w PROVE w[j] # y
        BY DEF SeqToSet
      <4>1. j \in 1..(k + 1) /\ k \in Nat
        BY <1>1, <2>2
      <4>2. CASE j = k + 1
        BY <2>2, <3>4, <4>1, <4>2
      <4>3. CASE j # k + 1
        <5>1. j \in 1..k /\ j \in DOMAIN x.new
          BY <1>1, <4>1, <4>3
        <5> QED BY <2>2, <3>2, <4>1, <4>3, <5>1 DEF SeqToSet
      <4> QED BY <4>2, <4>3
    <3> QED BY <3>3, <3>5
  <2>6. ASSUME NEW j \in 1..Len(w), Len(w) - j < Depth
        PROVE  Lags(r, w[j], Len(w) - j)
    <3>1. CASE j = k + 1
      BY <2>2, <2>3, <3>1
    <3>2. CASE j # k + 1
      <4>1. j \in 1..k /\ w[j] = x.new[j] /\ x.new[j] \in Tags
        BY <1>1, <2>2, <3>2
      <4>2. k - j \in Nat /\ k - j < Depth /\ (k - j) + 1 < Depth /\ (k - j) + 1 = Len(w) - j
        BY <1>1, <2>2, <2>6, <4>1
      <4>3. Lags(x.recent, x.new[j], k - j)
        BY <4>1, <4>2 DEF Grown
      <4> QED BY <2>3, <4>1, <4>2, <4>3
    <3> QED BY <3>1, <3>2
  <2> HIDE DEF k
  <2> QED BY <2>1, <2>4, <2>5, <2>6 DEF Grown
<1> QED BY <1>2, <1>3

\* All the tags of an event.
LEMMA FilterGrows ==
    ASSUME recent \in Seq(Tags), Len(recent) <= Depth, Distinct(recent),
           NEW tags \in Seq(Tags \cup Noise)
    PROVE  Grown(Len(tags), Filter(tags))
<1>1. PICK after \in [0..Len(tags) -> Filtered] : Looked(tags, after)
  BY FilterRuns
<1> DEFINE T == {n \in Nat : n \in 0..Len(tags) => Grown(n, after[n])}
<1>2. 0 \in T
  <2>1. after[0] = [recent |-> recent, new |-> <<>>]
    BY <1>1 DEF Looked
  <2>2. Grown(0, [recent |-> recent, new |-> <<>>])
    BY DEF Grown, SeqToSet
  <2> QED BY <2>1, <2>2
<1>3. ASSUME NEW n \in Nat, n \in T PROVE n + 1 \in T
  <2> SUFFICES ASSUME n + 1 \in 0..Len(tags) PROVE Grown(n + 1, after[n + 1])
    OBVIOUS
  <2>1. n \in 0..Len(tags) /\ n + 1 \in 1..Len(tags) /\ (n + 1) - 1 = n
    OBVIOUS
  <2>2. Grown(n, after[n]) /\ after[n] \in Filtered
    BY <1>3, <2>1
  <2>3. after[n + 1] = IF is_balloon_nfc_tag(tags[n + 1])
                       THEN filter_duplicate_tag(after[n], tags[n + 1]) ELSE after[n]
    BY <1>1, <2>1 DEF Looked
  <2>4. CASE is_balloon_nfc_tag(tags[n + 1])
    <3>1. tags[n + 1] \in Tags
      BY <2>4 DEF is_balloon_nfc_tag
    <3> QED BY <2>2, <2>3, <2>4, <3>1, GrownMore
  <2>5. CASE ~is_balloon_nfc_tag(tags[n + 1])
    <3>1. Len(after[n].new) <= n + 1
      BY <2>2 DEF Grown, Filtered
    <3> QED BY <2>2, <2>3, <2>5, <3>1 DEF Grown
  <2> QED BY <2>4, <2>5
<1>4. Nat \subseteq T
  <2> HIDE DEF T
  <2> QED BY <1>2, <1>3, SetInduction
<1>5. Len(tags) \in Nat /\ Len(tags) \in 0..Len(tags)
  OBVIOUS
<1>6. Grown(Len(tags), after[Len(tags)])
  BY <1>4, <1>5
<1> QED BY <1>1, <1>6 DEF Looked

\* Those that wait for the thread are the coroutines that have submitted a call, each once.
Submitted == {"submitted", "sensor"}
WorkOK ==
    /\ \A i \in DOMAIN work : pc[work[i]] \in Submitted
    /\ \A c \in Conns : pc[c] \in Submitted => \E i \in DOMAIN work : work[i] = c
    /\ Distinct(work)

\* The steps of a coroutine, by what they do to its tags and to those who wait.
Arrives(c) ==
    \E tags \in TagEvents[events + 1] :
        /\ events < MaxEvents /\ pc[c] = "read" /\ recent' = Filter(tags).recent
        /\ todo' = [todo EXCEPT ![c] = Filter(tags).new]
        /\ IF Filter(tags).new = <<>> THEN pc' = [pc EXCEPT ![c] = "loop"] /\ work' = work
           ELSE pc' = [pc EXCEPT ![c] = "submitted"] /\ work' = Append(work, c)

Submits(c) ==
    /\ recent' = recent /\ todo' = todo /\ work' = Append(work, c)
    /\ \/ pc[c] = "read" /\ pc' = [pc EXCEPT ![c] = "sensor"]
       \/ pc[c] = "loop" /\ pc' = [pc EXCEPT ![c] = "submitted"]

Begins(c) ==
    /\ recent' = recent /\ todo' = todo /\ Turn(c) /\ work' = Tail(work)
    /\ \/ pc[c] = "submitted" /\ pc' = [pc EXCEPT ![c] = "balloon"]
       \/ pc[c] = "sensor" /\ pc' = [pc EXCEPT ![c] = "ack"]

\* From p to q, with the tags t, while nobody is kept waiting by it.
Goes(c, p, q, t) ==
    /\ recent' = recent /\ work' = work
    /\ pc[c] = p /\ pc' = [pc EXCEPT ![c] = q] /\ todo' = [todo EXCEPT ![c] = t]

Passes(c) ==
    \/ \E p \in {"read", "closed"}, q \in {"read", "closed", "ack"} : Goes(c, p, q, todo[c])
    \/ \E p, q \in InThread : Goes(c, p, q, todo[c])
    \/ \E p \in InThread : Goes(c, p, "loop", Tail(todo[c]))
    \/ \E p \in InThread, t \in Seq(Tags) : Goes(c, p, "ack", t)
    \/ \E p \in {"loop", "connecting", "waiting", "answer"},
          q \in {"connecting", "waiting", "answer", "ack"} : Goes(c, p, q, <<>>)
    \/ OthersRan(c) /\ \E q \in {"read", "closed"} : Goes(c, "ack", q, <<>>)

\* Every step is one of these.
LEMMA Kinds ==
    ASSUME Inv, NEW c \in Conns, Reader(c) \/ Work(c)
    PROVE  Arrives(c) \/ Submits(c) \/ Begins(c) \/ Passes(c)
<1>0. todo \in [Conns -> Seq(Tags)] /\ todo = [todo EXCEPT ![c] = todo[c]]
  BY DEF Inv, LoopOK
<1>1. CASE Open(c) \/ Close(c) \/ OtherEvent(c)
  <2>1. \E p \in {"read", "closed"}, q \in {"read", "closed", "ack"} : Goes(c, p, q, todo[c])
    BY <1>0, <1>1 DEF Open, Close, OtherEvent, Receive, Go, Goes, loopVars
  <2> QED BY <2>1 DEF Passes
<1>2. CASE events < MaxEvents /\ \E tags \in TagEvents[events + 1] : TagEvent(c, tags)
  <2>1. PICK tags \in TagEvents[events + 1] : TagEvent(c, tags)
    BY <1>2
  <2>2. /\ pc[c] = "read" /\ recent' = Filter(tags).recent
        /\ todo' = [todo EXCEPT ![c] = Filter(tags).new]
        /\ IF Filter(tags).new = <<>> THEN pc' = [pc EXCEPT ![c] = "loop"] /\ work' = work
           ELSE pc' = [pc EXCEPT ![c] = "submitted"] /\ work' = Append(work, c)
    BY <2>1 DEF TagEvent, Receive, Go, Submit
  <2> QED BY <1>2, <2>2 DEF Arrives
<1>3. CASE InputEvent(c) \/ NextTag(c)
  BY <1>3 DEF InputEvent, NextTag, Receive, Submit, Go, Submits, loopVars
<1>4. CASE Sensor(c) \/ Start(c)
  BY <1>4 DEF Sensor, Start, Go, Begins, loopVars
<1>5. CASE ServiceStep(c)
  <2>1. PICK p \in {"table", "queue", "report", "loop", "ack"} : Served(c, p)
    BY <1>5, ServedBy DEF Inv
  <2>2. recent' = recent
    BY <1>5 DEF ServiceStep, Balloon, Table, Cache, Report
  <2>3. /\ pc[c] \in InThread /\ pc' = [pc EXCEPT ![c] = p] /\ work' = work
        /\ todo' = todo \/ todo' = [todo EXCEPT ![c] = Tail(todo[c])]
        /\ p \in InThread => todo' = todo
        /\ p = "loop" => todo' = [todo EXCEPT ![c] = Tail(todo[c])]
    BY <2>1 DEF Served
  <2>4. CASE p \in InThread
    BY <1>0, <2>2, <2>3, <2>4 DEF Goes, Passes
  <2>5. CASE p = "loop"
    BY <2>2, <2>3, <2>5 DEF Goes, Passes
  <2>6. CASE p = "ack"
    <3>1. todo[c] # <<>>
      BY <2>3 DEF Inv, TodoFits, Busy
    <3>2. todo[c] \in Seq(Tags) /\ Tail(todo[c]) \in Seq(Tags)
      BY <1>0, <3>1
    <3>3. \E t \in Seq(Tags) : todo' = [todo EXCEPT ![c] = t]
      BY <1>0, <2>3, <3>2
    <3> QED BY <2>2, <2>3, <2>6, <3>3 DEF Goes, Passes
  <2> QED BY <2>4, <2>5, <2>6 DEF InThread
<1>6. CASE CommandStep(c)
  <2>1. PICK p \in {"connecting", "waiting", "answer", "ack"}, l, s \in 0..opened' :
             Commanded(c, p, l, s)
    BY <1>6, CommandedBy
  <2>2. pc[c] \in {"loop", "connecting", "waiting"} /\ recent' = recent
    BY <1>6 DEF CommandStep, Indicate, Connect, TakeLock, Woken
  <2>3. Goes(c, pc[c], p, <<>>)
    BY <1>0, <2>1, <2>2 DEF Commanded, Goes
  <2> QED BY <2>2, <2>3 DEF Passes
<1>7. CASE Answer(c)
  <2>1. todo[c] = <<>>
    BY <1>7 DEF Answer, Inv, TodoFits, Idle
  <2>2. Goes(c, "answer", "ack", <<>>)
    BY <1>0, <1>7, <2>1 DEF Answer, Go, Goes, loopVars
  <2> QED BY <2>2 DEF Passes
<1>8. CASE Ack(c)
  <2>1. \E q \in {"read", "closed"} : Goes(c, "ack", q, <<>>)
    BY <1>8 DEF Ack, Go, Goes, Forget
  <2> QED BY <1>8, <2>1 DEF Ack, Passes
<1> QED BY <1>1, <1>2, <1>3, <1>4, <1>5, <1>6, <1>7, <1>8
        DEF Reader, Work, ServiceStep, CommandStep

\* Only who submits joins the queue, and only its first leaves it.
LEMMA WorkStep ==
    ASSUME Inv, WorkOK, NEW c \in Conns, Arrives(c) \/ Submits(c) \/ Begins(c) \/ Passes(c)
    PROVE  WorkOK'
<1>0. pc \in [Conns -> Places] /\ work \in Seq(Conns)
  BY DEF Inv, LoopOK
<1>1. ASSUME pc[c] \notin Submitted, NEW p \in Submitted,
             pc' = [pc EXCEPT ![c] = p], work' = Append(work, c)
      PROVE  WorkOK'
  <2> DEFINE w == Append(work, c)
             n == Len(work)
  <2>1. /\ n \in Nat /\ DOMAIN work = 1..n /\ DOMAIN w = 1..(n + 1)
        /\ \A i \in 1..n : w[i] = work[i] /\ w[i] \in Conns
        /\ w[n + 1] = c
    BY <1>0
  <2> HIDE DEF w, n
  <2>2. \A i \in 1..n : work[i] # c
    BY <1>1, <2>1 DEF WorkOK
  <2>3. \A i \in DOMAIN w : pc'[w[i]] \in Submitted
    BY <1>0, <1>1, <2>1, <2>2 DEF WorkOK
  <2>4. \A d \in Conns : pc'[d] \in Submitted => \E i \in DOMAIN w : w[i] = d
    BY <1>0, <1>1, <2>1 DEF WorkOK
  <2>5. Distinct(w)
    BY <2>1, <2>2 DEF WorkOK, Distinct
  <2>6. work' = w
    BY <1>1 DEF w
  <2> QED BY <2>3, <2>4, <2>5, <2>6 DEF WorkOK
<1>2. ASSUME pc[c] \in Submitted, NEW p, p \notin Submitted,
             pc' = [pc EXCEPT ![c] = p], Turn(c), work' = Tail(work)
      PROVE  WorkOK'
  <2> DEFINE w == Tail(work)
             n == Len(work)
  <2>1. /\ n \in Nat \ {0} /\ DOMAIN work = 1..n /\ DOMAIN w = 1..(n - 1)
        /\ \A i \in 1..(n - 1) : w[i] = work[i + 1] /\ w[i] \in Conns
        /\ work[1] = c
    BY <1>0, <1>2 DEF Turn
  <2> HIDE DEF w, n
  <2>2. \A i \in 1..(n - 1) : w[i] # c
    BY <2>1 DEF WorkOK, Distinct
  <2>3. \A i \in DOMAIN w : pc'[w[i]] \in Submitted
    BY <1>0, <1>2, <2>1, <2>2 DEF WorkOK
  <2>4. \A d \in Conns : pc'[d] \in Submitted => \E i \in DOMAIN w : w[i] = d
    <3> SUFFICES ASSUME NEW d \in Conns, pc'[d] \in Submitted
                 PROVE  \E i \in DOMAIN w : w[i] = d
      OBVIOUS
    <3>1. d # c /\ pc[d] \in Submitted
      BY <1>0, <1>2
    <3>2. PICK k \in 1..n : work[k] = d
      BY <2>1, <3>1 DEF WorkOK
    <3>3. k - 1 \in 1..(n - 1) /\ (k - 1) + 1 = k
      BY <2>1, <3>1, <3>2
    <3> QED BY <2>1, <3>2, <3>3
  <2>5. Distinct(w)
    <3> SUFFICES ASSUME NEW i \in 1..(n - 1), NEW j \in 1..(n - 1), w[i] = w[j]
                 PROVE  i = j
      BY <2>1 DEF Distinct
    <3>1. i + 1 \in DOMAIN work /\ j + 1 \in DOMAIN work /\ work[i + 1] = work[j + 1]
      BY <2>1
    <3>2. i + 1 = j + 1
      BY <3>1 DEF WorkOK, Distinct
    <3> QED BY <3>2
  <2>6. work' = w
    BY <1>2 DEF w
  <2> QED BY <2>3, <2>4, <2>5, <2>6 DEF WorkOK
<1>3. ASSUME pc[c] \notin Submitted, NEW p, p \notin Submitted,
             pc' = [pc EXCEPT ![c] = p], work' = work
      PROVE  WorkOK'
  BY <1>0, <1>3 DEF WorkOK
<1>4. CASE Arrives(c)
  BY <1>1, <1>3, <1>4 DEF Arrives, Submitted
<1>5. CASE Submits(c)
  BY <1>1, <1>5 DEF Submits, Submitted
<1>6. CASE Begins(c)
  BY <1>2, <1>6 DEF Begins, Submitted
<1>7. CASE Passes(c)
  BY <1>3, <1>7 DEF Passes, Goes, Submitted, InThread
<1> QED BY <1>4, <1>5, <1>6, <1>7

\* d has submitted a call that the thread serves after the one of c.
Waits(d, c) == pc[d] = "submitted" /\ (pc[c] \in InThread \/ Head(work) = c)

\* How many events with new tags d can have brought since that of c, if no event has more
\* than m tags: one for each tag c has done with, and perhaps one for the next, unless the
\* last of them has not come yet.
Late(c, d) ==
    IF pc[c] = "loop" THEN IF pc[d] \in {"read", "closed"} THEN -1 ELSE 0
    ELSE IF Waits(d, c) THEN 1 ELSE 0
Rounds(m, c, d) == m - Len(todo[c]) + Late(c, d)

\* The tags c has still to process are that little behind.
Lag(m, c, d) ==
    pc[c] # "ack" /\ todo[c] # <<>> =>
        /\ Len(todo[c]) <= m
        /\ \A j \in 1..Len(todo[c]) :
              Lags(recent, todo[c][j], m * Rounds(m, c, d) + Len(todo[c]) - j)

\* No event has more than m tags.
Few(m) == \A n \in 1..MaxEvents : \A tags \in TagEvents[n] : Len(tags) <= m

\* The products of the bound.
LEMMA Products ==
    ASSUME NEW m \in Nat, NEW k \in Int
    PROVE  /\ m * k \in Int /\ m * (k + 1) = m * k + m /\ m * (k - 1) = m * k - m
           /\ k >= 0 => m * k >= 0
OBVIOUS

\* More rounds, a greater bound.
LEMMA MoreRounds ==
    ASSUME NEW m \in Nat, NEW k \in Int, NEW l \in Int, k <= l
    PROVE  m * k <= m * l
<1>1. m * (l - k) >= 0
  OBVIOUS
<1>2. m * (l - k) = m * l - m * k
  OBVIOUS
<1> QED BY <1>1, <1>2

\* The bound itself never exceeds m * m.
LEMMA RoundsBound ==
    ASSUME NEW m \in Nat, NEW n \in 1..m, NEW j \in 1..n
    PROVE  m * (m - n + 1) + n - j <= m * m
<1>1. m * (m - n + 1) = m * m - m * n + m
  OBVIOUS
<1>2. (m - 1) * (n - 1) >= 0
  OBVIOUS
<1>3. (m - 1) * (n - 1) = m * n - m - n + 1
  OBVIOUS
<1> QED BY <1>1, <1>2, <1>3

\* One round more or less.
LEMMA LateType ==
    ASSUME NEW c, NEW d
    PROVE  Late(c, d) \in {-1, 0, 1} /\ Late(c, d)' \in {-1, 0, 1}
<1>1. Late(c, d) \in {-1, 0, 1}
  BY DEF Late
<1>2. Late(c, d)' \in {-1, 0, 1}
  BY DEF Late
<1> QED BY <1>1, <1>2

\* Nothing brought, no tag done, no fewer rounds: the lag stays within its bound.
LEMMA LagKept ==
    ASSUME Inv, NEW m \in Nat, NEW c \in Conns, NEW d \in Conns, Lag(m, c, d),
           recent' = recent, todo'[c] = todo[c], pc'[c] # "ack" => pc[c] # "ack",
           todo[c] # <<>> => Late(c, d) <= Late(c, d)'
    PROVE  Lag(m, c, d)'
<1> SUFFICES ASSUME pc'[c] # "ack", todo[c] # <<>>
             PROVE  /\ Len(todo[c]) <= m
                    /\ \A j \in 1..Len(todo[c]) :
                          Lags(recent, todo[c][j], m * Rounds(m, c, d)' + Len(todo[c]) - j)
  BY DEF Lag
<1> DEFINE n == Len(todo[c])
           e == Late(c, d)
           f == Late(c, d)'
           a == m * (m - n + e)
           b == m * (m - n + f)
<1>1. e \in {-1, 0, 1} /\ f \in {-1, 0, 1} /\ e <= f
  BY LateType
<1>2. n \in Nat
  BY DEF Inv, LoopOK
<1>3. n <= m /\ \A j \in 1..n : Lags(recent, todo[c][j], a + n - j)
  BY DEF Lag, Rounds
<1>4. Rounds(m, c, d)' = m - n + f
  BY DEF Rounds
<1> HIDE DEF n, e, f
<1>5. m - n + e \in Int /\ m - n + f \in Int /\ m - n + e <= m - n + f
  BY <1>1, <1>2
<1>6. a \in Int /\ b \in Int /\ a <= b
  BY <1>5, Products, MoreRounds
<1> HIDE DEF a, b
<1>7. recent \in Seq(Tags)
  BY DEF Inv, FilterOK
<1>8. ASSUME NEW j \in 1..n PROVE Lags(recent, todo[c][j], b + n - j)
  <2>1. a + n - j \in Int /\ b + n - j \in Int /\ a + n - j <= b + n - j
    BY <1>2, <1>6
  <2>2. Lags(recent, todo[c][j], a + n - j)
    BY <1>3
  <2> QED BY <1>7, <2>1, <2>2, LagsMore
<1> QED BY <1>3, <1>4, <1>8 DEF n, b

\* An event with tags brings a few new ones, which are the last of the deque then; what was
\* not about to be forgotten is that much further behind, and not among them.
Brought(c, new) ==
    /\ todo' = [todo EXCEPT ![c] = new]
    /\ IF new = <<>> THEN pc' = [pc EXCEPT ![c] = "loop"] /\ work' = work
       ELSE pc' = [pc EXCEPT ![c] = "submitted"] /\ work' = Append(work, c)
    /\ \A y \in Tags, n \in Nat : Lags(recent, y, n) /\ n + Len(new) < Depth
          => Lags(recent', y, n + Len(new)) /\ y \notin SeqToSet(new)
    /\ \A j \in 1..Len(new) : Len(new) - j < Depth => Lags(recent', new[j], Len(new) - j)

LEMMA Arrival ==
    ASSUME Inv, NEW m \in Nat, Few(m), NEW c \in Conns, Arrives(c)
    PROVE  /\ pc[c] = "read" /\ recent' \in Seq(Tags)
           /\ \E new \in Seq(Tags) : Len(new) \in 0..m /\ Brought(c, new)
<1> USE RfidAssumption
<1>1. PICK tags \in TagEvents[events + 1] :
          /\ events < MaxEvents /\ pc[c] = "read" /\ recent' = Filter(tags).recent
          /\ todo' = [todo EXCEPT ![c] = Filter(tags).new]
          /\ IF Filter(tags).new = <<>> THEN pc' = [pc EXCEPT ![c] = "loop"] /\ work' = work
             ELSE pc' = [pc EXCEPT ![c] = "submitted"] /\ work' = Append(work, c)
  BY DEF Arrives
<1> DEFINE new == Filter(tags).new
<1>2. events + 1 \in 1..MaxEvents
  <2>1. events \in 0..MaxEvents
    BY DEF Inv, SessionOK
  <2> QED BY <1>1, <2>1
<1>3. tags \in Seq(Tags \cup Noise) /\ Len(tags) <= m
  BY <1>1, <1>2 DEF Few
<1>4. Grown(Len(tags), Filter(tags)) /\ Filter(tags) \in Filtered
  BY <1>3, FilterGrows, FilterType DEF Inv, FilterOK
<1>5. new \in Seq(Tags) /\ Len(new) \in Nat /\ Len(new) <= m /\ recent' \in Seq(Tags)
  BY <1>1, <1>3, <1>4 DEF Filtered, Grown
<1>6. Brought(c, new)
  <2>1. \A y \in Tags, n \in Nat : Lags(recent, y, n) /\ n + Len(new) < Depth
            => Lags(recent', y, n + Len(new)) /\ y \notin SeqToSet(new)
    BY <1>1, <1>4 DEF Grown
  <2>2. \A j \in 1..Len(new) : Len(new) - j < Depth => Lags(recent', new[j], Len(new) - j)
    BY <1>1, <1>4 DEF Grown
  <2>3. /\ todo' = [todo EXCEPT ![c] = new]
        /\ IF new = <<>> THEN pc' = [pc EXCEPT ![c] = "loop"] /\ work' = work
           ELSE pc' = [pc EXCEPT ![c] = "submitted"] /\ work' = Append(work, c)
    BY <1>1
  <2> HIDE DEF new
  <2> QED BY <2>1, <2>2, <2>3 DEF Brought
<1> HIDE DEF new
<1> QED BY <1>1, <1>5, <1>6

\* A step of c itself keeps its own lag within the bound.
LEMMA OwnLag ==
    ASSUME Inv, Inv', WorkOK, NEW m \in Nat, m * m < Depth, Few(m),
           NEW c \in Conns, NEW d \in Conns, c # d, Lag(m, c, d),
           Arrives(c) \/ Submits(c) \/ Begins(c) \/ Passes(c)
    PROVE  Lag(m, c, d)'
<1> USE RfidAssumption
<1>0. /\ pc \in [Conns -> Places] /\ todo \in [Conns -> Seq(Tags)] /\ work \in Seq(Conns)
      /\ pc'[d] = pc[d]
  <2>1. /\ pc \in [Conns -> Places] /\ todo \in [Conns -> Seq(Tags)] /\ work \in Seq(Conns)
    BY DEF Inv, LoopOK
  <2>2. \E q : pc' = [pc EXCEPT ![c] = q]
    BY DEF Arrives, Submits, Begins, Passes, Goes
  <2> QED BY <2>1, <2>2
<1>1. CASE Arrives(c)
  <2>1. PICK new \in Seq(Tags) : Len(new) \in 0..m /\ Brought(c, new)
    BY <1>1, Arrival
  <2>2. pc[c] = "read" /\ recent' \in Seq(Tags)
    BY <1>1, Arrival
  <2>5. Len(new) \in Nat /\ Len(new) <= m
    BY <2>1
  <2>6. \A j \in 1..Len(new) : Len(new) - j < Depth => Lags(recent', new[j], Len(new) - j)
    BY <2>1 DEF Brought
  <2>7. todo'[c] = new
    BY <1>0, <2>1 DEF Brought
  <2>8. CASE new # <<>>
    <3>1. pc'[c] = "submitted" /\ work' = Append(work, c)
      BY <1>0, <2>1, <2>8 DEF Brought
    <3>2. ~Waits(d, c)'
      <4> SUFFICES ASSUME pc[d] = "submitted", Head(work') = c PROVE FALSE
        BY <1>0, <3>1 DEF Waits, InThread
      <4>1. PICK i \in DOMAIN work : work[i] = d
        BY DEF WorkOK, Submitted
      <4>2. work # <<>> /\ Head(work') = work[1] /\ 1 \in DOMAIN work
        BY <1>0, <3>1, <4>1
      <4> QED BY <2>2, <4>2 DEF WorkOK, Submitted
    <3>3. Rounds(m, c, d)' = m - Len(new)
      <4>1. Late(c, d)' = 0
        BY <3>1, <3>2 DEF Late
      <4> QED BY <2>5, <2>7, <4>1 DEF Rounds
    <3> DEFINE k == m - Len(new)
    <3>4. k \in Int /\ k >= 0
      BY <2>5
    <3> HIDE DEF k
    <3>5. m * k \in Int /\ m * k >= 0
      BY <3>4, Products
    <3>6. ASSUME NEW j \in 1..Len(new)
          PROVE  Lags(recent', new[j], m * k + Len(new) - j)
      <4>1. m * 1 <= m * m
        <5>1. 1 <= m
          BY <2>5
        <5> QED BY <5>1, MoreRounds
      <4>2. Len(new) - j < Depth /\ Len(new) - j \in Int
        BY <2>5, <4>1
      <4>3. m * k + Len(new) - j \in Int /\ Len(new) - j <= m * k + Len(new) - j
        BY <2>5, <3>5
      <4> QED BY <2>2, <2>5, <2>6, <4>2, <4>3, LagsMore
    <3> QED BY <2>5, <2>7, <3>3, <3>6 DEF Lag, k
  <2>9. CASE new = <<>>
    BY <2>7, <2>9 DEF Lag
  <2> QED BY <2>8, <2>9
<1>2. CASE Submits(c)
  <2>1. recent' = recent /\ todo' = todo /\ pc[c] # "ack" /\ work' = Append(work, c)
    BY <1>2 DEF Submits
  <2>2. ASSUME todo[c] # <<>> PROVE Late(c, d) <= Late(c, d)'
    <3>1. pc[c] = "loop" /\ pc'[c] = "submitted"
      BY <1>0, <1>2, <2>2 DEF Submits, Inv, TodoFits, Idle
    <3>2. ~Waits(d, c)'
      <4> SUFFICES ASSUME pc[d] = "submitted", Head(work') = c PROVE FALSE
        BY <1>0, <3>1 DEF Waits, InThread
      <4>1. PICK i \in DOMAIN work : work[i] = d
        BY DEF WorkOK, Submitted
      <4>2. work # <<>> /\ Head(work') = work[1] /\ 1 \in DOMAIN work
        BY <1>0, <2>1, <4>1
      <4> QED BY <3>1, <4>2 DEF WorkOK, Submitted
    <3>3. Late(c, d) \in {-1, 0} /\ Late(c, d)' = 0
      BY <3>1, <3>2 DEF Late
    <3> QED BY <3>3
  <2> QED BY <2>1, <2>2, LagKept
<1>3. CASE Begins(c)
  <2>1. recent' = recent /\ todo' = todo /\ pc[c] # "ack"
    BY <1>3 DEF Begins
  <2>2. ASSUME todo[c] # <<>> PROVE Late(c, d) <= Late(c, d)'
    <3>1. pc[c] = "submitted" /\ pc'[c] = "balloon" /\ Head(work) = c
      BY <1>0, <1>3, <2>2 DEF Begins, Turn, Inv, TodoFits, Idle
    <3>2. Waits(d, c)' <=> Waits(d, c)
      BY <1>0, <3>1 DEF Waits, InThread
    <3>3. Late(c, d)' = Late(c, d)
      BY <3>1, <3>2 DEF Late
    <3>4. Late(c, d) \in {-1, 0, 1}
      BY LateType
    <3> QED BY <3>3, <3>4
  <2> QED BY <2>1, <2>2, LagKept
<1>4. ASSUME NEW p, NEW q, NEW t \in Seq(Tags), Goes(c, p, q, t), q = "ack" \/ t = <<>>
      PROVE  Lag(m, c, d)'
  BY <1>0, <1>4 DEF Goes, Lag
<1>5. ASSUME NEW p \in InThread, NEW q \in InThread, Goes(c, p, q, todo[c])
      PROVE  Lag(m, c, d)'
  <2>1. /\ recent' = recent /\ todo' = todo /\ pc[c] = p /\ pc'[c] = q /\ work' = work
    BY <1>0, <1>5 DEF Goes
  <2>2. Late(c, d) <= Late(c, d)'
    <3>1. Waits(d, c)' <=> Waits(d, c)
      BY <1>0, <2>1 DEF Waits
    <3>2. p # "loop" /\ q # "loop"
      BY DEF InThread
    <3>3. Late(c, d)' = Late(c, d)
      BY <2>1, <3>1, <3>2 DEF Late
    <3>4. Late(c, d) \in {-1, 0, 1}
      BY LateType
    <3> QED BY <3>3, <3>4
  <2>3. pc[c] # "ack"
    BY <2>1 DEF InThread
  <2> QED BY <2>1, <2>2, <2>3, LagKept
<1>6. ASSUME NEW p \in InThread, Goes(c, p, "loop", Tail(todo[c]))
      PROVE  Lag(m, c, d)'
  <2> DEFINE s == todo[c]
             n == Len(s)
  <2>1. /\ recent' = recent /\ todo'[c] = Tail(s) /\ pc[c] = p /\ pc'[c] = "loop"
        /\ p # "ack" /\ p # "loop" /\ s # <<>> /\ s \in Seq(Tags)
    BY <1>0, <1>6 DEF Goes, InThread, Inv, TodoFits, Busy
  <2>2. /\ n \in Nat \ {0} /\ Tail(s) \in Seq(Tags) /\ Len(Tail(s)) = n - 1
        /\ \A j \in 1..(n - 1) : Tail(s)[j] = s[j + 1]
    BY <2>1
  <2>3. n <= m /\ \A j \in 1..n : Lags(recent, s[j], m * Rounds(m, c, d) + n - j)
    BY <2>1 DEF Lag
  <2>4. Late(c, d) <= Late(c, d)' + 1
    <3>1. Late(c, d) = IF Waits(d, c) THEN 1 ELSE 0
      BY <2>1 DEF Late
    <3>2. Late(c, d)' = IF pc[d] \in {"read", "closed"} THEN -1 ELSE 0
      BY <1>0, <2>1 DEF Late
    <3>3. Waits(d, c) => pc[d] \notin {"read", "closed"}
      BY DEF Waits
    <3> QED BY <3>1, <3>2, <3>3
  <2> DEFINE e == Late(c, d)
             f == Late(c, d)'
             a == m * (m - n + e)
             b == m * (m - (n - 1) + f)
  <2>5. Rounds(m, c, d) = m - n + e /\ Rounds(m, c, d)' = m - (n - 1) + f
    BY <2>1, <2>2 DEF Rounds
  <2>6. e \in {-1, 0, 1} /\ f \in {-1, 0, 1}
    BY LateType
  <2>20. e <= f + 1
    BY <2>4
  <2> HIDE DEF s, n, e, f
  <2>21. /\ m - n + e \in Int /\ m - (n - 1) + f \in Int
         /\ m - n + e <= m - (n - 1) + f
    BY <2>2, <2>6, <2>20
  <2>22. a \in Int /\ b \in Int /\ a <= b
    BY <2>21, Products, MoreRounds
  <2> HIDE DEF a, b
  <2>7. ASSUME NEW j \in 1..(n - 1)
        PROVE  Lags(recent, Tail(s)[j], b + (n - 1) - j)
    <3> DEFINE lo == a + n - (j + 1)
               hi == b + (n - 1) - j
    <3>1. j + 1 \in 1..n /\ Tail(s)[j] = s[j + 1]
      BY <2>2
    <3>2. Lags(recent, s[j + 1], lo)
      BY <2>3, <2>5, <3>1 DEF a
    <3>3. lo \in Int /\ hi \in Int /\ lo <= hi
      BY <2>2, <2>22
    <3>4. recent \in Seq(Tags)
      BY DEF Inv, FilterOK
    <3> HIDE DEF lo, hi
    <3>5. Lags(recent, s[j + 1], hi)
      BY <3>2, <3>3, <3>4, LagsMore
    <3> QED BY <3>1, <3>5 DEF hi
  <2>8. Len(todo'[c]) = n - 1 /\ n - 1 <= m
    BY <2>1, <2>2, <2>3
  <2>9. \A j \in 1..Len(todo'[c]) :
            Lags(recent', todo'[c][j], m * Rounds(m, c, d)' + Len(todo'[c]) - j)
    BY <2>1, <2>5, <2>7, <2>8 DEF b
  <2> QED BY <2>8, <2>9 DEF Lag
<1>7. CASE Passes(c)
  <2>1. todo[c] \in Seq(Tags) /\ <<>> \in Seq(Tags)
    BY <1>0
  <2>2. CASE \E p \in {"read", "closed"}, q \in {"read", "closed", "ack"} : Goes(c, p, q, todo[c])
    <3>1. PICK p \in {"read", "closed"}, q \in {"read", "closed", "ack"} : Goes(c, p, q, todo[c])
      BY <2>2
    <3>2. todo[c] = <<>>
      BY <3>1 DEF Goes, Inv, TodoFits, Idle
    <3> QED BY <1>4, <2>1, <3>1, <3>2
  <2> QED BY <1>4, <1>5, <1>6, <1>7, <2>1, <2>2 DEF Passes
<1> QED BY <1>1, <1>2, <1>3, <1>7

\* New tags of the other one: those c has still to process are not pushed out, nor brought
\* again.
LEMMA OtherArrival ==
    ASSUME Inv, WorkOK, NEW m \in Nat, m * m < Depth, Few(m),
           NEW c \in Conns, NEW d \in Conns, c # d, Lag(m, c, d), Arrives(d), pc[c] # "ack"
    PROVE  /\ Lag(m, c, d)'
           /\ todo'[c] = todo[c] /\ SeqToSet(todo[c]) \cap SeqToSet(todo'[d]) = {}
<1> USE RfidAssumption
<1>1. /\ pc \in [Conns -> Places] /\ todo \in [Conns -> Seq(Tags)] /\ work \in Seq(Conns)
      /\ recent \in Seq(Tags)
  BY DEF Inv, LoopOK, FilterOK
<1>2. PICK new \in Seq(Tags) : Len(new) \in 0..m /\ Brought(d, new)
  BY Arrival
<1>3. pc[d] = "read" /\ recent' \in Seq(Tags)
  BY Arrival
<1>4. pc'[c] = pc[c] /\ todo'[c] = todo[c] /\ todo'[d] = new
  BY <1>1, <1>2 DEF Brought
<1>5. CASE todo[c] = <<>>
  BY <1>4, <1>5 DEF Lag, SeqToSet
<1>6. CASE todo[c] # <<>>
  <2> DEFINE n == Len(todo[c])
             w == Len(new)
             e == Late(c, d)
             f == Late(c, d)'
             a == m * (m - n + e)
             b == m * (m - n + f)
  <2>1. n \in Nat \ {0} /\ w \in Nat /\ w <= m
    BY <1>1, <1>2, <1>6
  <2>2. n <= m /\ \A j \in 1..n : Lags(recent, todo[c][j], a + n - j)
    BY <1>6 DEF Lag, Rounds
  <2>3. e \in {-1, 0} /\ f \in {-1, 0, 1}
    <3>1. ~Waits(d, c)
      BY <1>3 DEF Waits
    <3> QED BY <3>1, LateType DEF Late
  <2>4. w = 0 => e <= f
    <3>1. SUFFICES ASSUME w = 0 PROVE e <= f
      OBVIOUS
    <3>2. new = <<>>
      BY <3>1
    <3>3. pc'[d] = "loop"
      BY <1>1, <1>2, <3>2 DEF Brought
    <3>4. ~Waits(d, c) /\ ~Waits(d, c)'
      BY <1>3, <3>3 DEF Waits
    <3>5. CASE pc[c] = "loop"
      <4>1. e = -1
        BY <1>3, <3>5 DEF Late
      <4> QED BY <2>3, <4>1
    <3>6. CASE pc[c] # "loop"
      <4>1. e = 0 /\ f = 0
        BY <1>4, <3>4, <3>6 DEF Late
      <4> QED BY <4>1
    <3> QED BY <3>5, <3>6
  <2>5. w # 0 => e + 1 <= f
    <3>1. SUFFICES ASSUME w # 0 PROVE e + 1 <= f
      OBVIOUS
    <3>2. new # <<>>
      BY <3>1
    <3>3. pc'[d] = "submitted" /\ work' = Append(work, d)
      BY <1>1, <1>2, <3>2 DEF Brought
    <3>4. CASE pc[c] = "loop"
      <4>1. e = -1 /\ f = 0
        BY <1>3, <1>4, <3>3, <3>4 DEF Late
      <4> QED BY <4>1
    <3>5. CASE pc[c] # "loop"
      <4>1. Waits(d, c)'
        <5>1. CASE pc[c] \in InThread
          BY <1>4, <3>3, <5>1 DEF Waits
        <5>2. CASE pc[c] \notin InThread
          <6>1. pc[c] = "submitted"
            BY <1>1, <1>6, <3>5, <5>2 DEF Inv, TodoFits, Idle, Places
          <6>2. PICK i \in DOMAIN work : work[i] = c
            BY <6>1 DEF WorkOK, Submitted
          <6>3. work # <<>> /\ 1 \in DOMAIN work /\ work[1] \in Conns /\ Head(work') = work[1]
            BY <1>1, <3>3, <6>2
          <6>4. work[1] # d
            BY <1>3, <6>3 DEF WorkOK, Submitted
          <6>5. work[1] = c
            BY <6>3, <6>4, TwoConns
          <6> QED BY <3>3, <6>3, <6>5 DEF Waits
        <5> QED BY <5>1, <5>2
      <4>2. e = 0
        BY <1>3, <3>5 DEF Late, Waits
      <4>3. f = 1
        BY <1>4, <3>5, <4>1 DEF Late
      <4> QED BY <4>2, <4>3
    <3> QED BY <3>4, <3>5
  <2>6. Rounds(m, c, d)' = m - n + f
    BY <1>4 DEF Rounds
  <2> HIDE DEF n, w, e, f
  <2>7. m - n + e \in Int /\ m - n + f \in Int /\ (m - n + e) + 1 \in Int /\ m - n + 1 \in Int
    BY <2>1, <2>3
  <2>8. a \in Int /\ b \in Int /\ a + w <= b
    <3>1. a \in Int /\ b \in Int /\ m * ((m - n + e) + 1) = a + m
      BY <2>7, Products
    <3>2. CASE w = 0
      <4>1. a <= b
        <5>1. m - n + e <= m - n + f
          BY <2>1, <2>3, <2>4, <3>2
        <5> QED BY <2>7, <5>1, MoreRounds
      <4> QED BY <3>1, <3>2, <4>1
    <3>3. CASE w # 0
      <4>1. m * ((m - n + e) + 1) <= b
        <5>1. (m - n + e) + 1 <= m - n + f
          BY <2>1, <2>3, <2>5, <3>3
        <5> QED BY <2>7, <5>1, MoreRounds
      <4> HIDE DEF a, b
      <4> QED BY <2>1, <3>1, <4>1
    <3> QED BY <3>2, <3>3
  <2>9. ASSUME NEW j \in 1..n PROVE a + n - j + w < Depth
    <3>1. m * (m - n + 1) + n - j <= m * m
      <4>1. n \in 1..m
        BY <2>1, <2>2
      <4> QED BY <4>1, RoundsBound
    <3>2. m * ((m - n + e) + 1) <= m * (m - n + 1)
      <4>1. (m - n + e) + 1 <= m - n + 1
        BY <2>1, <2>3
      <4> QED BY <2>7, <4>1, MoreRounds
    <3>3. m * ((m - n + e) + 1) = a + m
      BY <2>7, Products
    <3>4. m * (m - n + 1) \in Int /\ m * m \in Int
      BY <2>7, Products
    <3> DEFINE u == m * (m - n + 1)
               v == m * m
    <3> HIDE DEF a, u, v
    <3>5. u + n - j <= v /\ a + m <= u /\ u \in Int /\ v \in Int /\ v < Depth
      BY <3>1, <3>2, <3>3, <3>4 DEF u, v
    <3> QED BY <2>1, <2>8, <3>5
  <2> HIDE DEF a, b
  <2>10. ASSUME NEW j \in 1..n
         PROVE  Lags(recent', todo[c][j], b + n - j) /\ todo[c][j] \notin SeqToSet(new)
    <3> DEFINE y == todo[c][j]
               k == a + n - j
    <3>1. y \in Tags
      BY <1>1 DEF n
    <3>2. Lags(recent, y, k)
      BY <2>2
    <3>3. k \in Nat
      <4>1. k \in Int
        BY <2>1, <2>8
      <4> HIDE DEF k
      <4> QED BY <1>1, <3>2, <4>1 DEF Lags
    <3>4. k + w < Depth
      BY <2>9
    <3> HIDE DEF y, k
    <3>5. Lags(recent', y, k + w) /\ y \notin SeqToSet(new)
      BY <1>2, <3>1, <3>2, <3>3, <3>4 DEF Brought, w
    <3> DEFINE h == b + n - j
    <3>6. h \in Int /\ k + w \in Int /\ k + w <= h
      BY <2>1, <2>8, <3>3 DEF k
    <3> HIDE DEF h
    <3>7. Lags(recent', y, h)
      BY <1>3, <3>5, <3>6, LagsMore
    <3> QED BY <3>5, <3>7 DEF y, h
  <2>11. Lag(m, c, d)'
    BY <1>4, <2>2, <2>6, <2>10 DEF Lag, n, b
  <2>12. SeqToSet(todo[c]) \cap SeqToSet(new) = {}
    <3>1. DOMAIN todo[c] = 1..n
      BY <1>1 DEF n
    <3> QED BY <2>10, <3>1 DEF SeqToSet
  <2> QED BY <1>4, <2>11, <2>12
<1> QED BY <1>5, <1>6

\* No other step of the other one brings it further behind.
LEMMA OtherLag ==
    ASSUME Inv, WorkOK, NEW m \in Nat, NEW c \in Conns, NEW d \in Conns, c # d, Lag(m, c, d),
           Submits(d) \/ Begins(d) \/ Passes(d)
    PROVE  Lag(m, c, d)'
<1>1. /\ pc \in [Conns -> Places] /\ todo \in [Conns -> Seq(Tags)] /\ work \in Seq(Conns)
  BY DEF Inv, LoopOK
<1>2. recent' = recent /\ pc'[c] = pc[c] /\ todo'[c] = todo[c]
  BY <1>1 DEF Submits, Begins, Passes, Goes
<1>3. CASE pc[c] = "ack" \/ todo[c] = <<>>
  BY <1>2, <1>3 DEF Lag
<1>4. CASE pc[c] # "ack" /\ todo[c] # <<>>
  <2>1. pc[c] \in {"loop", "submitted"} \cup InThread
    BY <1>1, <1>4 DEF Inv, TodoFits, Idle, Places
  <2>2. ASSUME pc[d] # "submitted",
               pc[c] = "loop" /\ pc'[d] \in {"read", "closed"} => pc[d] \in {"read", "closed"}
        PROVE  Late(c, d) <= Late(c, d)'
    <3>1. CASE pc[c] = "loop"
      <4>1. Late(c, d) \in {-1, 0} /\ Late(c, d)' \in {-1, 0}
        BY <1>2, <3>1 DEF Late
      <4>2. Late(c, d)' = -1 => Late(c, d) = -1
        BY <1>2, <2>2, <3>1 DEF Late
      <4> QED BY <4>1, <4>2
    <3>2. CASE pc[c] # "loop"
      <4>1. Late(c, d) = 0 /\ Late(c, d)' \in {0, 1}
        BY <1>2, <2>2, <3>2 DEF Late, Waits
      <4> QED BY <4>1
    <3> QED BY <3>1, <3>2
  <2>3. CASE Submits(d)
    <3>1. pc[d] # "submitted" /\ pc'[d] \notin {"read", "closed"}
      BY <1>1, <2>3 DEF Submits
    <3>2. Late(c, d) <= Late(c, d)'
      BY <2>2, <3>1
    <3> QED BY <1>2, <3>2, LagKept
  <2>4. CASE Begins(d)
    <3>1. pc[c] \notin InThread /\ Head(work) = d
      BY <2>4 DEF Begins, Turn
    <3>2. pc[d] \in {"submitted", "sensor"} /\ pc'[d] \in {"balloon", "ack"}
      BY <1>1, <2>4 DEF Begins
    <3>3. ~Waits(d, c) /\ ~Waits(d, c)'
      BY <1>2, <3>1, <3>2 DEF Waits
    <3>4. Late(c, d) = 0 /\ Late(c, d)' = 0
      BY <3>2, <3>3 DEF Late
    <3>5. Late(c, d) <= Late(c, d)'
      BY <3>4
    <3> QED BY <1>2, <3>5, LagKept
  <2>5. CASE Passes(d)
    <3>1. \/ pc[d] \in {"read", "closed"}
          \/ pc[d] # "submitted" /\ pc'[d] \notin {"read", "closed"}
          \/ pc[d] = "ack" /\ pc[c] # "loop"
      BY <1>1, <2>5 DEF Passes, Goes, InThread, OthersRan
    <3>2. Late(c, d) <= Late(c, d)'
      BY <2>2, <3>1
    <3> QED BY <1>2, <3>2, LagKept
  <2> QED BY <2>3, <2>4, <2>5
<1> QED BY <1>3, <1>4

\* A coroutine that brings no tags has no others to process than before.
LEMMA PendingShrinks ==
    ASSUME Inv, NEW c \in Conns, Submits(c) \/ Begins(c) \/ Passes(c)
    PROVE  Pending(c)' \subseteq Pending(c)
<1>1. pc \in [Conns -> Places] /\ todo \in [Conns -> Seq(Tags)]
  BY DEF Inv, LoopOK
<1>2. CASE Submits(c) \/ Begins(c)
  <2>1. pc[c] # "ack" /\ todo' = todo
    BY <1>2 DEF Submits, Begins
  <2> QED BY <2>1 DEF Pending
<1>3. ASSUME NEW p, NEW q, NEW t \in Seq(Tags), Goes(c, p, q, t), q = "ack" \/ t = <<>>
      PROVE  Pending(c)' \subseteq Pending(c)
  <2>1. pc'[c] = q /\ todo'[c] = t
    BY <1>1, <1>3 DEF Goes
  <2>2. Pending(c)' = {}
    BY <1>3, <2>1 DEF Pending, SeqToSet
  <2> QED BY <2>2
<1>4. ASSUME NEW p \in InThread, NEW q, Goes(c, p, q, todo[c])
      PROVE  Pending(c)' \subseteq Pending(c)
  <2>1. pc[c] # "ack" /\ todo'[c] = todo[c]
    BY <1>1, <1>4 DEF Goes, InThread
  <2> QED BY <2>1 DEF Pending
<1>5. ASSUME NEW p \in InThread, Goes(c, p, "loop", Tail(todo[c]))
      PROVE  Pending(c)' \subseteq Pending(c)
  <2> DEFINE s == todo[c]
  <2>1. /\ todo'[c] = Tail(s) /\ pc[c] # "ack" /\ s # <<>> /\ s \in Seq(Tags)
    BY <1>1, <1>5 DEF Goes, InThread, Inv, TodoFits, Busy
  <2>2. \A j \in DOMAIN Tail(s) : j + 1 \in DOMAIN s /\ Tail(s)[j] = s[j + 1]
    BY <2>1
  <2> HIDE DEF s
  <2>3. SeqToSet(Tail(s)) \subseteq SeqToSet(s)
    BY <2>2 DEF SeqToSet
  <2>4. Pending(c) = SeqToSet(s)
    BY <2>1 DEF Pending, s
  <2> QED BY <2>1, <2>3, <2>4 DEF Pending
<1>6. CASE Passes(c)
  <2>1. todo[c] \in Seq(Tags) /\ <<>> \in Seq(Tags)
    BY <1>1
  <2>2. CASE \E p \in {"read", "closed"}, q \in {"read", "closed", "ack"} : Goes(c, p, q, todo[c])
    <3>1. PICK p \in {"read", "closed"}, q \in {"read", "closed", "ack"} : Goes(c, p, q, todo[c])
      BY <2>2
    <3>2. todo[c] = <<>>
      BY <3>1 DEF Goes, Inv, TodoFits, Idle
    <3> QED BY <1>3, <2>1, <3>1, <3>2
  <2> QED BY <1>3, <1>4, <1>5, <1>6, <2>1, <2>2 DEF Passes
<1> QED BY <1>2, <1>6

\* The invariant for events of at most m tags.
ApartInv(m) ==
    /\ WorkOK /\ NoDoubleProcessing
    /\ \A c, d \in Conns : c # d => Lag(m, c, d)

LEMMA InitApart ==
    ASSUME NEW m, Init
    PROVE  ApartInv(m)
<1>1. WorkOK
  BY DEF Init, WorkOK, Submitted, Distinct
<1>2. NoDoubleProcessing
  BY DEF Init, NoDoubleProcessing, Pending, SeqToSet
<1>3. \A c, d \in Conns : Lag(m, c, d)
  BY DEF Init, Lag
<1> QED BY <1>1, <1>2, <1>3 DEF ApartInv

LEMMA ApartStep ==
    ASSUME NEW m \in Nat, m * m < Depth, Few(m), Inv, Inv', ApartInv(m), [Next]_vars
    PROVE  ApartInv(m)'
<1> USE DEF ApartInv
<1>1. CASE Next
  <2>1. PICK e \in Conns : Reader(e) \/ Work(e)
    BY <1>1 DEF Next
  <2>2. Arrives(e) \/ Submits(e) \/ Begins(e) \/ Passes(e)
    BY <2>1, Kinds
  <2>3. WorkOK'
    BY <2>2, WorkStep
  <2>4. ASSUME NEW c \in Conns, NEW d \in Conns, c # d PROVE Lag(m, c, d)'
    <3>1. Lag(m, c, d)
      BY <2>4
    <3>2. CASE e = c
      BY <2>2, <2>4, <3>1, <3>2, OwnLag
    <3>3. CASE e = d
      <4>1. CASE Arrives(e)
        <5>1. CASE pc[c] = "ack"
          <6>1. pc \in [Conns -> Places] /\ c # e
            BY <2>4, <3>3 DEF Inv, LoopOK
          <6>2. pc'[c] = pc[c]
            BY <4>1, <6>1 DEF Arrives
          <6> QED BY <5>1, <6>2 DEF Lag
        <5> QED BY <2>4, <3>1, <3>3, <4>1, <5>1, OtherArrival
      <4> QED BY <2>2, <2>4, <3>1, <3>3, <4>1, OtherLag
    <3> QED BY <2>4, <3>2, <3>3, TwoConns
  <2>5. ASSUME NEW o \in Conns, o # e PROVE Pending(o)' \cap Pending(e)' = {}
    <3>1. pc \in [Conns -> Places] /\ todo \in [Conns -> Seq(Tags)]
      BY DEF Inv, LoopOK
    <3>2. pc'[o] = pc[o] /\ todo'[o] = todo[o]
      BY <2>2, <2>5, <3>1 DEF Arrives, Submits, Begins, Passes, Goes
    <3>3. Pending(o)' = Pending(o)
      BY <3>2 DEF Pending
    <3>4. CASE Arrives(e)
      <4>1. CASE pc[o] = "ack"
        BY <3>3, <4>1 DEF Pending
      <4>2. CASE pc[o] # "ack"
        <5>1. Lag(m, o, e)
          BY <2>5
        <5>2. SeqToSet(todo[o]) \cap SeqToSet(todo'[e]) = {}
          BY <2>5, <3>4, <4>2, <5>1, OtherArrival
        <5> QED BY <3>3, <4>2, <5>2 DEF Pending
      <4> QED BY <4>1, <4>2
    <3>5. CASE Submits(e) \/ Begins(e) \/ Passes(e)
      <4>1. Pending(e)' \subseteq Pending(e)
        BY <3>5, PendingShrinks
      <4>2. Pending(o) \cap Pending(e) = {}
        BY <2>5 DEF NoDoubleProcessing
      <4> QED BY <3>3, <4>1, <4>2
    <3> QED BY <2>2, <3>4, <3>5
  <2>6. NoDoubleProcessing'
    <3> SUFFICES ASSUME NEW c \in Conns, NEW d \in Conns, c # d
                 PROVE  Pending(c)' \cap Pending(d)' = {}
      BY DEF NoDoubleProcessing
    <3>1. e = c \/ e = d
      BY TwoConns
    <3> QED BY <2>5, <3>1
  <2> QED BY <2>3, <2>4, <2>6
<1>2. CASE UNCHANGED vars
  <2>1. UNCHANGED <<pc, work, todo, recent>>
    BY <1>2 DEF vars, loopVars
  <2>2. WorkOK'
    BY <2>1 DEF WorkOK
  <2>3. NoDoubleProcessing'
    BY <2>1 DEF NoDoubleProcessing, Pending
  <2>4. \A c, d \in Conns : c # d => Lag(m, c, d)'
    BY <2>1 DEF Lag, Rounds, Late, Waits
  <2> QED BY <2>2, <2>3, <2>4
<1> QED BY <1>1, <1>2

\* process_tag_event never has a tag in hand that the coroutine of the other connection
\* still has to process, when the deque has more places than the square of the number of
\* tags in an event: maxlen 5 does for events of up to two tags.
THEOREM TagsApart == (\E m \in Nat : m * m < Depth /\ Few(m)) => (Spec => []NoDoubleProcessing)
<1> SUFFICES ASSUME NEW m \in Nat, m * m < Depth, Few(m) PROVE Spec => []NoDoubleProcessing
  OBVIOUS
<1>1. Init => Inv /\ ApartInv(m)
  BY InitInv, InitApart
<1>2. (Inv /\ ApartInv(m)) /\ [Next]_vars => (Inv /\ ApartInv(m))'
  BY InvStep, ApartStep
<1>3. Inv /\ ApartInv(m) => NoDoubleProcessing
  BY DEF ApartInv
<1> QED BY <1>1, <1>2, <1>3, PTL DEF Spec
=============================================================================
