----------------------------- MODULE ListenerProofs ---------------------------
(***************************************************************************)
(* Theorems about the carousel listener, for any posts, balloons and number *)
(* of repetitions: type correctness, and that the passports, answers and full *)
(* weights reach the right balloons although no frame names one.           *)
(*                                                                         *)
(* Prompt, that frames are handled before a cached result expires, is a    *)
(* hypothesis of the theorems about passports and answers; a run shows that *)
(* the code does not ensure it and what happens without it.                *)
(*                                                                         *)
(* The properties speak of records, which come last.  The invariants follow *)
(* a balloon on its way there: what is at a post (on it, on the wire, in   *)
(* hand) belongs to one balloon (Apart); after the weighing nothing asks for *)
(* the target weight any more (Late); a balloon for which a passport was   *)
(* taken is closed (Closed): no request of it will be handled again, as each *)
(* finds the cached result; and while nothing has gone wrong, the requests *)
(* not yet served are those of the balloons whose passports are still in the *)
(* queue, in the same order (Orderly).                                     *)
(***************************************************************************)
EXTENDS CarouselListener, DataInduction, TLAPS

(***************************************************************************)
(* The inductive invariants.                                               *)
(***************************************************************************)

\* The steps with a frame in hand, the rows and the cached results.
Handling == {"process", "answer", "persist"}
Rows == [post : Posts, balloon : Balloons, passport : 0..pushed, full : 0..arrived]
Results == [type : Types, post : Posts, reply : 0..pushed]

\* The parts of the type invariant, and what ties pc to the variables of the coroutine.
PostsOK ==
    /\ arrived \in 0..MaxBalloons
    /\ balloon \in [Posts -> 0..arrived]
    /\ phase \in [Posts -> {"free", "asking", "filling", "weighing", "done"}]
    /\ sends \in [Posts -> 0..MaxSends]
    /\ \A p \in Posts : balloon[p] = 0 <=> phase[p] = "free"

QueueOK ==
    /\ pushed \in 0..MaxBalloons
    /\ queue \in Seq(1..pushed)
    /\ \A i, j \in DOMAIN queue : i < j => queue[i] < queue[j]

WireOK ==
    /\ wire \in Seq(Frames)
    /\ pc \in {"down", "read"} \cup Handling
    /\ frame \in Frames \cup {NoFrame}
    /\ passport \in 0..pushed /\ reply \in {0, passport}
    /\ pc \in Handling <=> frame \in Frames
    /\ pc = "down" => wire = <<>>
    /\ (pc \in {"answer", "persist"} /\ frame.type = "fill") \/ passport = 0
    /\ pc = "answer" => reply # 0

StoreOK ==
    /\ cache \subseteq Results
    /\ records \in Seq(Rows)
    /\ told \in [Balloons -> SUBSET (1..pushed)]
    /\ taken \in [Balloons -> Nat]
    /\ mishap \in BOOLEAN

Types1 == PostsOK /\ QueueOK /\ WireOK /\ StoreOK

\* The frames on the wire or in hand.
Live == {f \in Frames : f = frame \/ \E i \in DOMAIN wire : wire[i] = f}
\* The balloons at a post: on it, or in a frame that it has sent.
At(p) == {b \in Balloons : b = balloon[p] \/ \E f \in Live : f.post = p /\ f.balloon = b}

\* One balloon at a post, and a balloon at one post.
Apart ==
    /\ \A p, q \in Posts : \A b \in At(p), c \in At(q) : p = q <=> b = c
    /\ \A p \in Posts : \A b \in At(p) : b <= arrived

\* Nothing asks for the target weight any more.
Late(p) ==
    /\ phase[p] \in {"weighing", "done", "free"}
    /\ \A f \in Live : f.post = p => f.type = "full"

\* Whatever is weighed, or has a full weight under way, is late.
Weighed ==
    /\ \A p \in Posts : phase[p] \in {"weighing", "done"} => Late(p)
    /\ \A f \in Live : f.type = "full" => Late(f.post)

\* The rows of a post are in the order of the balloons, and before what is at the post;
\* the rows of a balloon are of one post.
RowOrder ==
    /\ \A i, j \in DOMAIN records : i < j /\ records[i].post = records[j].post =>
           records[i].balloon <= records[j].balloon
    /\ \A i \in DOMAIN records :
        /\ records[i].balloon <= arrived
        /\ \A p \in Posts : \A b \in At(p) :
             /\ records[i].post = p => records[i].balloon <= b
             /\ records[i].balloon = b => records[i].post = p
    /\ \A i, j \in DOMAIN records : records[i].balloon = records[j].balloon =>
           records[i].post = records[j].post

\* A balloon that has no row and will get none.
Lone(c) == /\ \A j \in DOMAIN records : records[j].balloon # c
           /\ \A p \in Posts : c \in At(p) => Late(p)
\* A full weight is that of the row's balloon, or of a balloon without rows.
FullsOK ==
    \A i \in DOMAIN records, c \in Balloons :
        records[i].full = c => records[i].balloon = c \/ Lone(c)

\* A request of the post is on the wire, or may still be sent; its result is cached; it is
\* being handled.
Asks(p) == OnWire(p, "fill") \/ (phase[p] = "asking" /\ sends[p] < MaxSends)
Entry(p) == \E e \in cache : e.type = "fill" /\ e.post = p
InProcess(p) == pc = "process" /\ frame.type = "fill" /\ frame.post = p
\* No request of the balloon will be handled any more.
Closed(b) ==
    /\ b <= arrived
    /\ \A p \in Posts : b \in At(p) =>
        /\ ~InProcess(p)
        /\ Asks(p) => Entry(p) /\ pc # "down"

\* A passport was taken for closed balloons only, and one for each.
TakenOnce == \A b \in Balloons : taken[b] \in {0, 1} /\ (taken[b] = 1 => Closed(b))

\* The passport r belongs to the balloon b: in an answer, in hand, cached or recorded.
Given(b, r) ==
    \/ r \in told[b]
    \/ (pc \in {"answer", "persist"} /\ frame.type = "fill" /\ b = frame.balloon /\ r = passport)
    \/ \E e \in cache : e.type = "fill" /\ e.reply # 0 /\ b \in At(e.post) /\ r = e.reply
    \/ \E i \in DOMAIN records : b = records[i].balloon /\ r = records[i].passport

\* It is older than all in the queue, and belongs to no other balloon.
GivenOnce ==
    /\ \A e \in cache : e.type = "full" => e.reply = 0
    /\ \A b \in Balloons, r \in 0..MaxBalloons : Given(b, r) =>
         Closed(b) /\ r <= pushed /\ \A i \in DOMAIN queue : r < queue[i]
    /\ \A b, c \in Balloons, r, s \in 0..MaxBalloons :
         Given(b, r) /\ Given(c, s) => (b = c => r = s) /\ (r = s /\ r # 0 => b = c)

\* The request of a balloon is being handled, is the i-th on the wire, is before the n-th.
InHand(b) == pc = "process" /\ frame.type = "fill" /\ frame.balloon = b
Asking(i, b) == wire[i].type = "fill" /\ wire[i].balloon = b
Pending(b, n) == InHand(b) \/ \E j \in 1..n : Asking(j, b)

\* The balloons up to k have their passports, all their own; the others still ask for
\* theirs, in the order of the queue.
TakesTo(k) ==
    /\ \A b \in Balloons : taken[b] = IF b <= k THEN 1 ELSE 0
    /\ Len(queue) = pushed - k /\ \A i \in DOMAIN queue : queue[i] = k + i
FramesTo(k) ==
    /\ \A b \in Balloons : k < b /\ b <= arrived => Pending(b, Len(wire))
    /\ \A i \in DOMAIN wire : \A b, c \in Balloons :
          k < b /\ b < c /\ Asking(i, c) => Pending(b, i - 1)
    /\ \A b \in Balloons : InHand(b) => b = k + 1
ResultsTo(k) ==
    /\ pc \in {"answer", "persist"} /\ frame.type = "fill" => passport = frame.balloon
    /\ \A e \in cache : e.type = "fill" => \A b \in At(e.post) : b <= k
    /\ \A i \in DOMAIN records : records[i].passport = records[i].balloon
Orderly ==
    mishap \/ \E k \in 0..MaxBalloons : k <= pushed /\ TakesTo(k) /\ FramesTo(k) /\ ResultsTo(k)

(***************************************************************************)
(* Types.                                                                  *)
(***************************************************************************)

\* put_carousel_data finds the last row of the post, or none.
LEMMA LastRow ==
    ASSUME NEW S, records \in Seq(S), NEW p
    PROVE  /\ LastOf(p) \in 0..Len(records)
           /\ LastOf(p) = 0 => \A i \in DOMAIN records : records[i].post # p
           /\ LastOf(p) # 0 => /\ records[LastOf(p)].post = p
                               /\ \A i \in DOMAIN records : records[i].post = p => i <= LastOf(p)
<1> DEFINE I == {i \in 1..Len(records) : records[i].post = p}
<1>1. LastOf(p) = IF I # {} THEN Max(I) ELSE 0
  BY DEF LastOf, SelectLastInSeq
<1>2. CASE I = {}
  BY <1>1, <1>2
<1>3. CASE I # {}
  <2>1. Len(records) \in Nat /\ I \subseteq 0..Len(records)
    OBVIOUS
  <2>2. \E x \in I : \A y \in I : x >= y
    <3> HIDE DEF I
    <3> QED BY <1>3, <2>1, GreatestElement
  <2>3. Max(I) \in I /\ \A y \in I : Max(I) >= y
    <3> HIDE DEF I
    <3> QED BY <2>2 DEF Max
  <2>4. LastOf(p) \in I /\ \A y \in I : LastOf(p) >= y
    <3> HIDE DEF I
    <3> QED BY <1>1, <1>3, <2>3
  <2> QED BY <2>1, <2>4
<1> QED BY <1>2, <1>3

\* The initial state.
LEMMA InitTypes == Init => Types1
<1> SUFFICES ASSUME Init PROVE Types1
  OBVIOUS
<1> USE ListenerAssumption DEF Init
<1>1. PostsOK
  BY DEF PostsOK
<1>2. QueueOK
  BY DEF QueueOK
<1>3. WireOK
  <2>1. NoFrame \notin Frames
    BY DEF NoFrame, Frames, Types
  <2> QED BY <2>1 DEF WireOK, Handling
<1>4. StoreOK
  <2>1. told \in [Balloons -> SUBSET (1..pushed)] /\ taken \in [Balloons -> Nat]
    OBVIOUS
  <2>2. records \in Seq(Rows) /\ cache \subseteq Results
    OBVIOUS
  <2> QED BY <2>1, <2>2 DEF StoreOK
<1> QED BY <1>1, <1>2, <1>3, <1>4 DEF Types1

\* A post is free exactly when no balloon is on it.
LEMMA PostsStep ==
    ASSUME Types1, Next
    PROVE  PostsOK'
<1> USE ListenerAssumption DEF Types1
<1>1. CASE UNCHANGED postVars
  BY <1>1 DEF PostsOK, postVars
<1>2. CASE GoDown /\ UNCHANGED <<arrived, balloon, phase>>
  BY <1>2 DEF PostsOK, GoDown
<1>3. ASSUME NEW p \in Posts, Arrive(p) PROVE PostsOK'
  BY <1>3 DEF PostsOK, Arrive
<1>4. ASSUME NEW p \in Posts, Weigh(p) PROVE PostsOK'
  BY <1>4 DEF PostsOK, Weigh
<1>5. ASSUME NEW p \in Posts, Repeat(p) PROVE PostsOK'
  BY <1>5 DEF PostsOK, Repeat
<1>6. ASSUME NEW p \in Posts, Quiet(p) PROVE PostsOK'
  BY <1>6 DEF PostsOK, Quiet
<1>7. ASSUME NEW p \in Posts, Leave(p) PROVE PostsOK'
  BY <1>7 DEF PostsOK, Leave
<1>8. UNCHANGED postVars \/ (GoDown /\ UNCHANGED <<arrived, balloon, phase>>)
      \/ \E p \in Posts : Post(p)
  <2>1. CASE Push \/ Miss \/ QueueExpires
    BY <2>1 DEF Push, Miss, QueueExpires
  <2>2. CASE Listener
    BY <2>2 DEF Listener, Connect, Drop, BadCrc, Duplicate, Read, ProcessFill, ProcessFull,
                ProcessFails, Answer, AnswerFails, PersistFill, PersistFull, Expire, postVars
  <2> QED BY <2>1, <2>2 DEF Next
<1> QED BY <1>1, <1>2, <1>3, <1>4, <1>5, <1>6, <1>7, <1>8 DEF Post

\* The queue loses its first passports or gains a new last one.
LEMMA QueueStep ==
    ASSUME Types1, Next
    PROVE  QueueOK'
<1> USE DEF Types1
<1>1. CASE Push
  <2>1. queue' = Append(queue, pushed + 1) /\ pushed' = pushed + 1 /\ pushed < MaxBalloons
    BY <1>1 DEF Push
  <2>2. queue \in Seq(1..pushed') /\ pushed' \in 0..MaxBalloons
    <3>1. 1..pushed \subseteq 1..pushed' /\ queue \in Seq(1..pushed)
      BY <2>1 DEF QueueOK
    <3> QED BY <2>1, <3>1, SeqWider, ListenerAssumption DEF QueueOK
  <2>3. queue' \in Seq(1..pushed') /\ Len(queue') = Len(queue) + 1
    BY <2>1, <2>2 DEF QueueOK
  <2>4. \A i \in 1..Len(queue') : queue'[i] = IF i = Len(queue) + 1 THEN pushed + 1 ELSE queue[i]
    BY <2>1, <2>2
  <2>5. \A i \in 1..Len(queue) : queue[i] <= pushed
    BY DEF QueueOK
  <2>6. ASSUME NEW i \in 1..Len(queue'), NEW j \in 1..Len(queue'), i < j
        PROVE  queue'[i] < queue'[j]
    <3>1. i \in DOMAIN queue /\ queue'[i] = queue[i]
      BY <2>1, <2>3, <2>4, <2>6 DEF QueueOK
    <3>2. CASE j = Len(queue) + 1
      BY <2>4, <2>5, <3>1, <3>2 DEF QueueOK
    <3>3. CASE j # Len(queue) + 1
      BY <2>3, <2>4, <2>6, <3>1, <3>3 DEF QueueOK
    <3> QED BY <3>2, <3>3
  <2> QED BY <2>2, <2>3, <2>6 DEF QueueOK
<1>2. CASE Miss
  <2>1. queue' = queue /\ pushed' = pushed + 1 /\ pushed < MaxBalloons
    BY <1>2 DEF Miss
  <2>2. 1..pushed \subseteq 1..pushed' /\ queue \in Seq(1..pushed)
    BY <2>1 DEF QueueOK
  <2> QED BY <2>1, <2>2, SeqWider, ListenerAssumption DEF QueueOK
<1>3. CASE queue' = <<>> /\ pushed' = pushed
  BY <1>3 DEF QueueOK
<1>4. CASE queue # <<>> /\ queue' = Tail(queue) /\ pushed' = pushed
  <2>1. queue' \in Seq(1..pushed) /\ Len(queue') = Len(queue) - 1
    BY <1>4 DEF QueueOK
  <2>2. \A i \in 1..Len(queue') : queue'[i] = queue[i + 1]
    BY <1>4 DEF QueueOK
  <2>3. \A i \in 1..Len(queue') : i + 1 \in DOMAIN queue
    BY <2>1 DEF QueueOK
  <2> QED BY <1>4, <2>1, <2>2, <2>3 DEF QueueOK
<1>5. CASE queue' = queue /\ pushed' = pushed
  BY <1>5 DEF QueueOK
<1>6. \/ Push
      \/ Miss
      \/ queue' = <<>> /\ pushed' = pushed
      \/ queue # <<>> /\ queue' = Tail(queue) /\ pushed' = pushed
      \/ queue' = queue /\ pushed' = pushed
  <2>1. CASE Listener
    BY <2>1 DEF Listener, Connect, Drop, BadCrc, Duplicate, Read, ProcessFill, ProcessFull,
                ProcessFails, Answer, AnswerFails, PersistFill, PersistFull, Expire, Pop, PopFails, Taken
  <2>2. CASE \E p \in Posts : Post(p)
    BY <2>2 DEF Post, Arrive, Weigh, Repeat, Quiet, Leave
  <2>3. CASE QueueExpires
    BY <2>3 DEF QueueExpires
  <2> QED BY <2>1, <2>2, <2>3 DEF Next
<1> QED BY <1>1, <1>2, <1>3, <1>4, <1>5, <1>6

\* The frame a post sends joins the wire, if there is a connection.
LEMMA Transmitted ==
    ASSUME WireOK, NEW p \in Posts, NEW type \in Types, NEW b \in Balloons, Transmit(p, type, b)
    PROVE  LET f == [type |-> type, post |-> p, balloon |-> b]
           IN /\ f \in Frames
              /\ \/ pc = "down" /\ wire' = wire /\ mishap'
                 \/ pc # "down" /\ wire' = Append(wire, f) /\ mishap' = mishap
              /\ wire' \in Seq(Frames)
<1> DEFINE f == [type |-> type, post |-> p, balloon |-> b]
<1>1. f \in Frames
  BY DEF Frames
<1>2. \/ pc = "down" /\ wire' = wire /\ mishap'
      \/ pc # "down" /\ wire' = Append(wire, f) /\ mishap' = mishap
  BY DEF Transmit
<1>3. wire' \in Seq(Frames)
  <2> HIDE DEF f
  <2> QED BY <1>1, <1>2 DEF WireOK
<1> QED BY <1>1, <1>2, <1>3

\* The frames that posts send.
LEMMA PostFrames ==
    ASSUME Types1, NEW p \in Posts
    PROVE  /\ Arrive(p) => arrived + 1 \in Balloons
           /\ Weigh(p) \/ Repeat(p) => balloon[p] \in Balloons
           /\ Repeat(p) => TypeOf(phase[p]) \in Types
BY ListenerAssumption DEF Types1, PostsOK, Arrive, Weigh, Repeat, Balloons, TypeOf, Types

\* The state after an exception.
LEMMA DownOK ==
    ASSUME Types1, GoDown, pushed' = pushed
    PROVE  WireOK'
<1>1. NoFrame \notin Frames
  BY DEF NoFrame, Frames, Types
<1>2. pushed \in 0..MaxBalloons
  BY DEF Types1, QueueOK
<1> QED BY <1>1, <1>2, ListenerAssumption DEF GoDown, WireOK, Handling

\* A frame is in hand exactly while it is handled.
LEMMA WireStep ==
    ASSUME Types1, Next
    PROVE  WireOK'
<1> USE ListenerAssumption
<1>1. WireOK /\ pushed \in 0..MaxBalloons /\ queue \in Seq(1..pushed)
  BY DEF Types1, QueueOK
<1>2. NoFrame \notin Frames /\ NoFrame.type = "none"
  BY DEF NoFrame, Frames, Types
<1>3. CASE Push \/ Miss \/ QueueExpires
  BY <1>1, <1>3 DEF Push, Miss, QueueExpires, WireOK, listenerVars
<1>4. CASE Connect
  BY <1>1, <1>4 DEF Connect, WireOK, Handling
<1>5. CASE Drop
  BY <1>5, DownOK DEF Drop
<1>6. CASE BadCrc
  BY <1>1, <1>6 DEF BadCrc, WireOK, listenerVars, Handling
<1>7. CASE Duplicate
  <2>1. CASE GoDown
    BY <1>7, <2>1, DownOK DEF Duplicate
  <2>2. CASE wire' = Tail(wire) /\ UNCHANGED listenerVars
    BY <1>1, <1>7, <2>2 DEF Duplicate, WireOK, listenerVars, Handling
  <2> QED BY <1>7, <2>1, <2>2 DEF Duplicate
<1>8. CASE Read
  BY <1>1, <1>8 DEF Read, WireOK, Handling
<1>9. CASE ProcessFill
  <2>1. pushed' = pushed /\ wire' = wire /\ frame' = frame /\ pc = "process" /\ frame.type = "fill"
    BY <1>9 DEF ProcessFill
  <2>2. passport' \in 0..pushed /\ reply' \in {0, passport'}
    BY <1>1, <1>9 DEF ProcessFill, Pop, PopFails, WireOK
  <2>3. pc' = IF reply' # 0 THEN "answer" ELSE "persist"
    BY <1>9 DEF ProcessFill
  <2> QED BY <1>1, <2>1, <2>2, <2>3 DEF WireOK, Handling
<1>10. CASE ProcessFull
  BY <1>1, <1>10 DEF ProcessFull, WireOK, Handling
<1>11. CASE ProcessFails \/ AnswerFails
  BY <1>11, DownOK DEF ProcessFails, AnswerFails
<1>12. CASE Answer
  BY <1>1, <1>12 DEF Answer, WireOK, Handling
<1>13. CASE PersistFill \/ PersistFull
  BY <1>1, <1>2, <1>13 DEF PersistFill, PersistFull, BackToRead, WireOK, Handling
<1>14. ASSUME NEW e \in cache, Expire(e) PROVE WireOK'
  BY <1>1, <1>14 DEF Expire, WireOK, listenerVars
<1>15. ASSUME NEW p \in Posts, Arrive(p) \/ Weigh(p) \/ Repeat(p) PROVE WireOK'
  <2>1. wire' \in Seq(Frames) /\ (pc = "down" => wire' = wire)
    <3>1. "fill" \in Types /\ "full" \in Types
      BY DEF Types
    <3> QED BY <1>1, <1>15, <3>1, Transmitted, PostFrames DEF Arrive, Weigh, Repeat
  <2>2. UNCHANGED listenerVars /\ pushed' = pushed
    BY <1>15 DEF Arrive, Weigh, Repeat
  <2> QED BY <1>1, <2>1, <2>2 DEF WireOK, listenerVars
<1>16. ASSUME NEW p \in Posts, Quiet(p) \/ Leave(p) PROVE WireOK'
  BY <1>1, <1>16 DEF Quiet, Leave, WireOK, listenerVars
<1> QED BY <1>3, <1>4, <1>5, <1>6, <1>7, <1>8, <1>9, <1>10, <1>11, <1>12, <1>13, <1>14, <1>15,
           <1>16 DEF Next, Listener, Post

\* The cache, the records and the histories keep their types.
LEMMA StoreStep ==
    ASSUME Types1, Apart, Next
    PROVE  StoreOK'
<1> USE ListenerAssumption
<1>1. /\ pushed \in 0..MaxBalloons /\ queue \in Seq(1..pushed) /\ arrived \in 0..MaxBalloons
      /\ StoreOK /\ WireOK
  BY DEF Types1, QueueOK, PostsOK
<1>2. frame \in Frames => frame.balloon \in Balloons /\ frame.post \in Posts /\ frame.type \in Types
  BY DEF Frames
<1>3. CASE pushed' \in {pushed, pushed + 1} /\ arrived' \in {arrived, arrived + 1}
           /\ cache' \subseteq cache /\ records' = records
           /\ told' = told /\ taken' = taken /\ mishap' \in BOOLEAN
  <2>1. 1..pushed \subseteq 1..pushed' /\ 0..pushed \subseteq 0..pushed' /\ 0..arrived \subseteq 0..arrived'
    BY <1>1, <1>3
  <2>2. Results \subseteq Results' /\ Rows \subseteq Rows'
    BY <2>1 DEF Results, Rows
  <2>3. cache' \subseteq Results' /\ records' \in Seq(Rows')
    BY <1>1, <1>3, <2>2, SeqWider DEF StoreOK
  <2>4. told' \in [Balloons -> SUBSET (1..pushed')]
    BY <1>1, <1>3, <2>1 DEF StoreOK
  <2> QED BY <1>1, <1>3, <2>3, <2>4 DEF StoreOK
<1>4. CASE Push \/ Miss \/ QueueExpires
  BY <1>1, <1>3, <1>4 DEF Push, Miss, QueueExpires, postVars, StoreOK
<1>5. CASE Connect \/ Drop \/ BadCrc \/ Read \/ AnswerFails
  BY <1>1, <1>3, <1>5 DEF Connect, Drop, BadCrc, Read, AnswerFails, GoDown, postVars, StoreOK
<1>6. CASE Duplicate
  <2>1. pushed' = pushed /\ arrived' = arrived /\ cache' = cache /\ records' = records /\ taken' = taken
    BY <1>6 DEF Duplicate
  <2>2. mishap' \in BOOLEAN
    BY <1>1, <1>6 DEF Duplicate, GoDown, StoreOK
  <2>3. CASE told' = told
    BY <1>3, <2>1, <2>2, <2>3
  <2>4. CASE told' # told
    <3>1. PICK e \in cache : e.reply # 0 /\ Tell(Head(wire).balloon, e.reply)
      BY <1>6, <2>4 DEF Duplicate
    <3>2. e.reply \in 1..pushed
      BY <1>1, <3>1 DEF StoreOK, Results
    <3>3. told' \in [Balloons -> SUBSET (1..pushed)]
      BY <1>1, <3>1, <3>2 DEF Tell, StoreOK
    <3> QED BY <1>1, <2>1, <2>2, <3>3 DEF StoreOK, Results, Rows
  <2> QED BY <2>3, <2>4
<1>7. ASSUME NEW r \in 0..pushed, Remember(frame, r), frame \in Frames PROVE cache' \subseteq Results
  BY <1>1, <1>2, <1>7 DEF Remember, StoreOK, Results
<1>8. CASE ProcessFill
  <2>1. pushed' = pushed /\ arrived' = arrived /\ records' = records /\ told' = told /\ frame \in Frames
    BY <1>1, <1>8 DEF ProcessFill, postVars, WireOK, Handling
  <2>2. reply' \in 0..pushed /\ mishap' \in BOOLEAN
    <3>1. CASE Pop /\ reply' \in {0, passport'} /\ UNCHANGED mishap
      <4>1. passport' \in 0..pushed
        BY <1>1, <3>1 DEF Pop
      <4> QED BY <1>1, <3>1, <4>1 DEF StoreOK
    <3>2. CASE reply' = 0 /\ mishap' = TRUE
      BY <1>1, <3>2
    <3> QED BY <1>8, <3>1, <3>2 DEF ProcessFill
  <2>3. cache' \subseteq Results
    BY <1>7, <1>8, <2>1, <2>2 DEF ProcessFill
  <2>4. taken' = taken \/ taken' = [taken EXCEPT ![frame.balloon] = taken[frame.balloon] + 1]
    BY <1>8 DEF ProcessFill, Pop, PopFails, Taken
  <2>5. taken' \in [Balloons -> Nat]
    <3>1. taken \in [Balloons -> Nat] /\ frame.balloon \in Balloons
      BY <1>1, <1>2, <2>1 DEF StoreOK
    <3> QED BY <2>4, <3>1
  <2> QED BY <1>1, <2>1, <2>2, <2>3, <2>5 DEF StoreOK, Results, Rows
<1>9. CASE ProcessFull
  <2>1. pushed' = pushed /\ arrived' = arrived /\ records' = records /\ told' = told /\ frame \in Frames
        /\ taken' = taken /\ mishap' = mishap
    BY <1>1, <1>9 DEF ProcessFull, postVars, WireOK, Handling
  <2>2. cache' \subseteq Results
    BY <1>1, <1>7, <1>9, <2>1 DEF ProcessFull
  <2> QED BY <1>1, <2>1, <2>2 DEF StoreOK, Results, Rows
<1>10. CASE ProcessFails
  <2>1. /\ pushed' = pushed /\ arrived' = arrived /\ records' = records /\ told' = told
        /\ frame \in Frames /\ mishap' \in BOOLEAN /\ cache' = cache
    BY <1>1, <1>10 DEF ProcessFails, GoDown, WireOK, Handling
  <2>2. taken' = taken \/ taken' = [taken EXCEPT ![frame.balloon] = taken[frame.balloon] + 1]
    BY <1>10 DEF ProcessFails, Taken
  <2>3. taken' \in [Balloons -> Nat]
    <3>1. taken \in [Balloons -> Nat] /\ frame.balloon \in Balloons
      BY <1>1, <1>2, <2>1 DEF StoreOK
    <3> QED BY <2>2, <3>1
  <2> QED BY <1>1, <2>1, <2>3 DEF StoreOK, Results, Rows
<1>11. CASE Answer
  <2>1. /\ pushed' = pushed /\ arrived' = arrived /\ records' = records /\ cache' = cache
        /\ taken' = taken /\ mishap' = mishap /\ frame \in Frames /\ reply \in 1..pushed
    BY <1>1, <1>11 DEF Answer, postVars, WireOK, Handling
  <2>2. told' \in [Balloons -> SUBSET (1..pushed)]
    BY <1>1, <1>2, <1>11, <2>1 DEF Answer, Tell, StoreOK
  <2> QED BY <1>1, <2>1, <2>2 DEF StoreOK, Results, Rows
<1>12. CASE PersistFill
  <2>1. /\ pushed' = pushed /\ arrived' = arrived /\ cache' = cache /\ told' = told
        /\ taken' = taken /\ mishap' = mishap /\ frame \in Frames
    BY <1>1, <1>12 DEF PersistFill, postVars, WireOK, Handling
  <2> DEFINE row == [post |-> frame.post, balloon |-> frame.balloon, passport |-> passport, full |-> 0]
  <2>2. row \in Rows
    BY <1>1, <1>2, <2>1 DEF Rows, WireOK
  <2>3. records' = records \/ records' = Append(records, row)
    BY <1>12 DEF PersistFill
  <2>4. records' \in Seq(Rows)
    <3>1. records \in Seq(Rows)
      BY <1>1 DEF StoreOK
    <3> HIDE DEF row
    <3> QED BY <2>2, <2>3, <3>1
  <2> QED BY <1>1, <2>1, <2>4 DEF StoreOK, Results, Rows
<1>13. CASE PersistFull
  <2>1. /\ pushed' = pushed /\ arrived' = arrived /\ cache' = cache /\ told' = told
        /\ taken' = taken /\ mishap' = mishap /\ frame \in Frames
    BY <1>1, <1>13 DEF PersistFull, postVars, WireOK, Handling
  <2>2. frame.balloon \in 0..arrived
    <3>1. frame \in Live /\ frame.balloon \in At(frame.post) /\ frame.post \in Posts
      BY <1>2, <2>1 DEF Live, At
    <3>2. frame.balloon <= arrived /\ frame.balloon \in Nat /\ arrived \in Nat
      BY <1>1, <1>2, <2>1, <3>1 DEF Apart, Balloons
    <3> QED BY <3>2
  <2>3. records \in Seq(Rows)
    BY <1>1 DEF StoreOK
  <2> DEFINE i == LastOf(frame.post)
  <2>4. records' = records \/ (i # 0 /\ records' = [records EXCEPT ![i].full = frame.balloon])
    BY <1>13 DEF PersistFull
  <2>5. i \in 0..Len(records)
    BY <2>3, LastRow
  <2>6. records' \in Seq(Rows)
    <3>1. CASE i # 0
      <4>1. records[i] \in Rows /\ [records[i] EXCEPT !.full = frame.balloon] \in Rows
        <5>1. i \in DOMAIN records
          <6> HIDE DEF i
          <6> QED BY <2>3, <2>5, <3>1
        <5>2. records[i] \in Rows
          <6> HIDE DEF i
          <6> QED BY <2>3, <5>1
        <5> DEFINE r == records[i]
        <5>3. [r EXCEPT !.full = frame.balloon] \in Rows
          <6> HIDE DEF r
          <6>1. r \in Rows
            BY <5>2 DEF r
          <6> QED BY <2>2, <6>1 DEF Rows
        <5> QED BY <5>2, <5>3
      <4>2. records' = records \/ records' = [records EXCEPT ![i] = [records[i] EXCEPT !.full = frame.balloon]]
        <5> HIDE DEF i
        <5> QED BY <2>4
      <4> HIDE DEF i
      <4> QED BY <2>3, <2>5, <3>1, <4>1, <4>2
    <3> HIDE DEF i
    <3> QED BY <2>3, <2>4, <3>1
  <2> QED BY <1>1, <2>1, <2>6 DEF StoreOK, Results, Rows
<1>14. ASSUME NEW e \in cache, Expire(e) PROVE StoreOK'
  BY <1>1, <1>3, <1>14 DEF Expire, postVars, StoreOK
<1>15. ASSUME NEW p \in Posts, Post(p) PROVE StoreOK'
  <2>1. mishap' \in BOOLEAN
    BY <1>1, <1>15 DEF Post, Arrive, Weigh, Repeat, Quiet, Leave, Transmit, StoreOK
  <2> QED BY <1>1, <1>3, <1>15, <2>1 DEF Post, Arrive, Weigh, Repeat, Quiet, Leave
<1> QED BY <1>4, <1>5, <1>6, <1>8, <1>9, <1>10, <1>11, <1>12, <1>13, <1>14, <1>15 DEF Next, Listener

(***************************************************************************)
(* What is at the posts.                                                   *)
(***************************************************************************)

\* The steps that send no frame.
Silent ==
    \/ Push \/ Miss \/ QueueExpires \/ Listener
    \/ \E p \in Posts : Quiet(p) \/ Leave(p)

\* The steps in which a post sends a frame.
Sending(p) == Arrive(p) \/ Weigh(p) \/ Repeat(p)

\* There are no others.
LEMMA NextKinds == Next => Silent \/ \E p \in Posts : Sending(p)
BY DEF Next, Silent, Sending, Post

\* Frames leave the wire at its head, or all at once; what is handled came from its head.
LEMMA WireMoves ==
    ASSUME Types1, Silent
    PROVE  /\ \/ wire' = wire
              \/ wire # <<>> /\ wire' = Tail(wire)
              \/ wire' = <<>>
           /\ \/ frame' = frame \/ frame' = NoFrame
              \/ wire # <<>> /\ frame' = Head(wire)
           /\ \A p \in Posts : balloon'[p] \in {0, balloon[p]}
           /\ arrived' = arrived
<1>1. CASE Push \/ Miss \/ QueueExpires
  BY <1>1 DEF Push, Miss, QueueExpires, postVars, listenerVars
<1>2. CASE Connect \/ Drop \/ BadCrc
  BY <1>2 DEF Connect, Drop, BadCrc, GoDown, postVars, listenerVars
<1>3. CASE Duplicate \/ Read
  BY <1>3 DEF Duplicate, Read, GoDown, postVars, listenerVars
<1>4. CASE ProcessFill \/ ProcessFull \/ ProcessFails
  BY <1>4 DEF ProcessFill, ProcessFull, ProcessFails, GoDown, postVars
<1>5. CASE Answer \/ AnswerFails \/ PersistFill \/ PersistFull
  BY <1>5 DEF Answer, AnswerFails, PersistFill, PersistFull, GoDown, BackToRead, postVars
<1>6. ASSUME NEW e \in cache, Expire(e)
      PROVE  UNCHANGED <<wire, frame, balloon, arrived>>
  BY <1>6 DEF Expire, postVars, listenerVars
<1>7. ASSUME NEW p \in Posts, Quiet(p) \/ Leave(p)
      PROVE  /\ UNCHANGED <<wire, frame, arrived>>
             /\ \A q \in Posts : balloon'[q] \in {0, balloon[q]}
  BY <1>7 DEF Quiet, Leave, listenerVars, Types1, PostsOK
<1> QED BY <1>1, <1>2, <1>3, <1>4, <1>5, <1>6, <1>7 DEF Silent, Listener

\* Without sending, nothing new is on the wire or at a post.
LEMMA SilentLive ==
    ASSUME Types1, Silent
    PROVE  Live' \subseteq Live /\ \A p \in Posts : At(p)' \subseteq At(p)
<1>1. wire \in Seq(Frames) /\ NoFrame \notin Frames
  BY DEF Types1, WireOK, NoFrame, Frames, Types
<1>2. Live' \subseteq Live
  <2> SUFFICES ASSUME NEW f \in Live' PROVE f \in Live
    OBVIOUS
  <2>1. f \in Frames /\ (f = frame' \/ \E i \in DOMAIN wire' : wire'[i] = f)
    BY DEF Live
  <2>2. CASE f = frame'
    <3>1. f = frame \/ (wire # <<>> /\ f = wire[1])
      BY <1>1, <2>1, <2>2, WireMoves
    <3> QED BY <1>1, <2>1, <3>1 DEF Live
  <2>3. ASSUME NEW i \in DOMAIN wire', wire'[i] = f PROVE \E j \in DOMAIN wire : wire[j] = f
    <3>1. CASE wire # <<>> /\ wire' = Tail(wire)
      <4>1. i + 1 \in DOMAIN wire /\ wire[i + 1] = f
        BY <1>1, <2>3, <3>1
      <4> QED BY <4>1
    <3>2. CASE wire' = <<>>
      BY <2>3, <3>2
    <3> QED BY <2>3, <3>1, <3>2, WireMoves
  <2> QED BY <2>1, <2>2, <2>3 DEF Live
<1>3. \A p \in Posts : balloon'[p] \in {0, balloon[p]}
  BY WireMoves
<1> QED BY <1>2, <1>3 DEF At, Balloons

\* The frame a post sends.
FrameOf(p) ==
    [type |-> TypeOf(phase'[p]), post |-> p, balloon |-> balloon'[p]]

\* A post that sends adds its frame to the wire, unless there is no connection.
LEMMA Sent ==
    ASSUME Types1, NEW p \in Posts, Sending(p)
    PROVE  /\ FrameOf(p) \in Frames
           /\ wire' = wire \/ wire' = Append(wire, FrameOf(p))
           /\ pc = "down" => wire' = wire /\ mishap'
           /\ pc # "down" => wire' = Append(wire, FrameOf(p)) /\ mishap' = mishap
           /\ Live' \subseteq Live \cup {FrameOf(p)}
           /\ UNCHANGED listenerVars /\ pushed' = pushed /\ queue' = queue /\ cache' = cache
           /\ records' = records /\ told' = told /\ taken' = taken
<1> DEFINE f == FrameOf(p)
<1>1. /\ balloon'[p] \in Balloons /\ TypeOf(phase'[p]) \in Types
      /\ Transmit(p, TypeOf(phase'[p]), balloon'[p])
  <2>1. CASE Arrive(p)
    BY <2>1, PostFrames DEF Arrive, Types1, PostsOK, TypeOf, Types
  <2>2. CASE Weigh(p)
    BY <2>2, PostFrames DEF Weigh, Types1, PostsOK, TypeOf, Types
  <2>3. CASE Repeat(p)
    BY <2>3, PostFrames DEF Repeat, Types1, PostsOK, TypeOf, Types
  <2> QED BY <2>1, <2>2, <2>3 DEF Sending
<1>2. /\ f \in Frames
      /\ \/ pc = "down" /\ wire' = wire /\ mishap'
         \/ pc # "down" /\ wire' = Append(wire, f) /\ mishap' = mishap
  BY <1>1, Transmitted DEF Types1, FrameOf
<1>3. /\ UNCHANGED listenerVars /\ pushed' = pushed /\ queue' = queue /\ cache' = cache
      /\ records' = records /\ told' = told /\ taken' = taken
  BY DEF Sending, Arrive, Weigh, Repeat
<1>4. wire \in Seq(Frames) /\ frame' = frame
  BY <1>3 DEF Types1, WireOK, listenerVars
<1>5. Live' \subseteq Live \cup {f}
  <2> HIDE DEF f
  <2> SUFFICES ASSUME NEW g \in Live', g # f PROVE g \in Live
    OBVIOUS
  <2>1. g \in Frames /\ (g = frame \/ \E i \in DOMAIN wire' : wire'[i] = g)
    BY <1>4 DEF Live
  <2>2. ASSUME NEW i \in DOMAIN wire', wire'[i] = g PROVE \E j \in DOMAIN wire : wire[j] = g
    <3>1. CASE wire' = wire
      BY <2>2, <3>1
    <3>2. CASE wire' = Append(wire, f)
      <4>1. i \in DOMAIN wire /\ wire[i] = g
        BY <1>4, <2>2, <3>2
      <4> QED BY <4>1
    <3> QED BY <1>2, <3>1, <3>2
  <2> QED BY <2>1, <2>2 DEF Live
<1> QED BY <1>2, <1>3, <1>5

\* A post that a balloon may leave or reach: nothing of the last one is on its way.
LEMMA SettledPost ==
    ASSUME Types1, NEW p \in Posts, Settled(p)
    PROVE  /\ \A f \in Live : f.post # p
           /\ \A b \in At(p) : b = balloon[p]
           /\ ~Entry(p)
BY DEF Settled, Live, At, OnWire, Frames, Entry

\* A post that sends gets a balloon only when one arrives, and then had none.
LEMMA SendingAt ==
    ASSUME Types1, NEW p \in Posts, Sending(p)
    PROVE  /\ \A q \in Posts \ {p} : At(q)' \subseteq At(q)
           /\ Arrive(p) => At(p) = {} /\ At(p)' \subseteq {arrived + 1} /\ arrived' = arrived + 1
           /\ ~Arrive(p) => At(p)' \subseteq At(p) /\ arrived' = arrived
<1>1. Live' \subseteq Live \cup {FrameOf(p)} /\ FrameOf(p).post = p
      /\ FrameOf(p).balloon = balloon'[p]
  BY Sent DEF FrameOf
<1>2. \A q \in Posts \ {p} : balloon'[q] = balloon[q]
  BY DEF Sending, Arrive, Weigh, Repeat, Types1, PostsOK
<1>3. \A q \in Posts \ {p} : At(q)' \subseteq At(q)
  BY <1>1, <1>2 DEF At
<1>4. CASE Arrive(p)
  <2>1. balloon'[p] = arrived + 1 /\ arrived' = arrived + 1 /\ balloon[p] = 0
    BY <1>4 DEF Arrive, Types1, PostsOK
  <2>2. At(p) = {} /\ \A f \in Live : f.post # p
    BY <1>4, <2>1, SettledPost DEF Arrive, At, Balloons
  <2>3. At(p)' \subseteq {arrived + 1}
    BY <1>1, <2>1, <2>2 DEF At
  <2> QED BY <1>3, <1>4, <2>1, <2>2, <2>3
<1>5. CASE ~Arrive(p)
  <2>1. balloon' = balloon /\ arrived' = arrived
    BY <1>5 DEF Sending, Weigh, Repeat
  <2>2. At(p)' \subseteq At(p)
    BY <1>1, <2>1 DEF At
  <2> QED BY <1>3, <1>5, <2>1, <2>2
<1> QED BY <1>4, <1>5

\* Balloons and posts are never mixed up.
LEMMA ApartStep ==
    ASSUME Types1, Apart, Next
    PROVE  Apart'
<1>1. CASE Silent
  <2>1. arrived' = arrived /\ \A p \in Posts : At(p)' \subseteq At(p)
    BY <1>1, WireMoves, SilentLive
  <2> QED BY <2>1 DEF Apart
<1>2. ASSUME NEW p \in Posts, Sending(p) PROVE Apart'
  <2>1. CASE Arrive(p)
    BY <1>2, <2>1, SendingAt DEF Apart, Types1, PostsOK, At, Balloons
  <2>2. CASE ~Arrive(p)
    BY <1>2, <2>2, SendingAt DEF Apart
  <2> QED BY <2>1, <2>2
<1> QED BY <1>1, <1>2, NextKinds

\* The initial state.
LEMMA InitApart == Init => Apart /\ Weighed /\ RowOrder /\ FullsOK
<1> SUFFICES ASSUME Init PROVE Apart /\ Weighed /\ RowOrder /\ FullsOK
  OBVIOUS
<1> USE DEF Init
<1>1. Live = {}
  BY DEF Live, NoFrame, Frames, Types
<1>2. \A p \in Posts : At(p) = {}
  BY <1>1 DEF At, Balloons
<1> QED BY <1>1, <1>2 DEF Apart, Weighed, RowOrder, FullsOK

\* Once a balloon is weighed, or a post without frames of it is free, no request for its
\* target weight is under way.
LEMMA LateStep ==
    ASSUME Types1, Next, NEW p \in Posts, Late(p), ~Arrive(p)
    PROVE  Late(p)'
<1>1. phase'[p] \in {"weighing", "done", "free"}
  <2>1. CASE phase' = phase
    BY <2>1 DEF Late
  <2>2. ASSUME NEW q \in Posts, Post(q) PROVE phase'[p] \in {"weighing", "done", "free"}
    BY <2>2 DEF Post, Arrive, Weigh, Repeat, Quiet, Leave, Late, Types1, PostsOK
  <2>3. phase' = phase \/ \E q \in Posts : Post(q)
    <3>1. CASE Push \/ Miss \/ QueueExpires
      BY <3>1 DEF Push, Miss, QueueExpires, postVars
    <3>2. CASE Listener
      BY <3>2 DEF Listener, Connect, Drop, BadCrc, Duplicate, Read, ProcessFill, ProcessFull,
                  ProcessFails, Answer, AnswerFails, PersistFill, PersistFull, Expire, postVars
    <3> QED BY <3>1, <3>2 DEF Next
  <2> QED BY <2>1, <2>2, <2>3
<1>2. CASE Silent
  BY <1>1, <1>2, SilentLive DEF Late
<1>3. ASSUME NEW q \in Posts, Sending(q) PROVE \A f \in Live' : f.post = p => f.type = "full"
  <2>1. Live' \subseteq Live \cup {FrameOf(q)} /\ FrameOf(q).post = q
        /\ FrameOf(q).type = TypeOf(phase'[q])
    BY <1>3, Sent DEF FrameOf
  <2>2. q = p => phase'[p] # "asking"
    BY <1>1
  <2> QED BY <2>1, <2>2 DEF Late, TypeOf
<1> QED BY <1>1, <1>2, <1>3, NextKinds DEF Late

\* A post weighs after its requests have been handled.
LEMMA WeighedStep ==
    ASSUME Types1, Weighed, Next
    PROVE  Weighed'
<1>1. ASSUME NEW p \in Posts, phase'[p] \in {"weighing", "done"} PROVE Late(p)'
  <2>1. CASE phase[p] \in {"weighing", "done"}
    <3>1. ~Arrive(p)
      BY <2>1 DEF Arrive
    <3> QED BY <2>1, <3>1, LateStep DEF Weighed
  <2>2. CASE phase[p] \notin {"weighing", "done"}
    <3>1. Weigh(p)
      <4>1. CASE Silent
        <5>1. phase' # phase
          BY <1>1, <2>2
        <5>2. PICK q \in Posts : Quiet(q) \/ Leave(q)
          BY <4>1, <5>1 DEF Silent, Push, Miss, QueueExpires, Listener, Connect, Drop, BadCrc,
             Duplicate, Read, ProcessFill, ProcessFull, ProcessFails, Answer, AnswerFails,
             PersistFill, PersistFull, Expire, postVars
        <5> QED BY <1>1, <2>2, <5>2 DEF Quiet, Leave, Types1, PostsOK
      <4>2. ASSUME NEW q \in Posts, Sending(q) PROVE Weigh(p)
        BY <1>1, <2>2, <4>2 DEF Sending, Arrive, Weigh, Repeat, Types1, PostsOK
      <4> QED BY <4>1, <4>2, NextKinds
    <3>2. \A f \in Live : f.post # p
      BY <3>1, SettledPost DEF Weigh
    <3>3. Live' \subseteq Live \cup {FrameOf(p)} /\ FrameOf(p).type = "full"
      BY <1>1, <3>1, Sent DEF Sending, FrameOf, TypeOf
    <3> QED BY <1>1, <3>2, <3>3 DEF Late
  <2> QED BY <2>1, <2>2
<1>2. ASSUME NEW f \in Live', f.type = "full" PROVE Late(f.post)'
  <2>1. CASE f \in Live
    <3>1. f.post \in Posts /\ Late(f.post)
      BY <1>2, <2>1 DEF Weighed, Live, Frames
    <3>2. ~Arrive(f.post)
      BY <2>1, <3>1, SettledPost DEF Arrive
    <3> QED BY <3>1, <3>2, LateStep
  <2>2. CASE f \notin Live
    <3>1. PICK p \in Posts : Sending(p) /\ f = FrameOf(p)
      BY <1>2, <2>2, NextKinds, SilentLive, Sent
    <3>2. f.post = p /\ phase'[p] # "asking"
      BY <1>2, <3>1 DEF FrameOf, TypeOf
    <3>3. phase'[p] = "weighing"
      BY <3>1, <3>2 DEF Sending, Arrive, Weigh, Repeat, Types1, PostsOK
    <3> QED BY <1>1, <3>2, <3>3
  <2> QED BY <2>1, <2>2
<1> QED BY <1>1, <1>2 DEF Weighed

(***************************************************************************)
(* The records.                                                            *)
(***************************************************************************)

\* A record is created, or its full weight is set, or nothing changes.
NewRow == [post |-> frame.post, balloon |-> frame.balloon, passport |-> passport, full |-> 0]

\* The three ways in which the table can change.
LEMMA RowKinds ==
    ASSUME Types1, Next
    PROVE  \/ records' = records
           \/ /\ PersistFill /\ frame \in Frames /\ records' = Append(records, NewRow)
              /\ NewRow \in Rows
           \/ /\ PersistFull /\ frame \in Frames /\ LastOf(frame.post) \in DOMAIN records
              /\ records' = [records EXCEPT ![LastOf(frame.post)].full = frame.balloon]
<1>1. CASE Push \/ Miss \/ QueueExpires
  BY <1>1 DEF Push, Miss, QueueExpires
<1>2. CASE Connect \/ Drop \/ BadCrc \/ Duplicate \/ Read
  BY <1>2 DEF Connect, Drop, BadCrc, Duplicate, Read
<1>3. CASE ProcessFill \/ ProcessFull \/ ProcessFails \/ Answer \/ AnswerFails
  BY <1>3 DEF ProcessFill, ProcessFull, ProcessFails, Answer, AnswerFails
<1>4. ASSUME NEW e \in cache, Expire(e) PROVE records' = records
  BY <1>4 DEF Expire
<1>5. ASSUME NEW p \in Posts, Post(p) PROVE records' = records
  BY <1>5 DEF Post, Arrive, Weigh, Repeat, Quiet, Leave
<1>6. CASE PersistFill
  <2>1. frame \in Frames
    BY <1>6 DEF PersistFill, Types1, WireOK, Handling
  <2>2. NewRow \in Rows
    BY <2>1 DEF NewRow, Frames, Rows, Types1, WireOK, PostsOK
  <2> QED BY <1>6, <2>1, <2>2 DEF PersistFill, NewRow
<1>7. CASE PersistFull
  <2>1. frame \in Frames
    BY <1>7 DEF PersistFull, Types1, WireOK, Handling
  <2>2. LastOf(frame.post) \in 0..Len(records) /\ DOMAIN records = 1..Len(records) /\ Len(records) \in Nat
    BY LastRow DEF Types1, StoreOK
  <2>3. CASE LastOf(frame.post) # 0
    <3>1. LastOf(frame.post) \in DOMAIN records
      BY <2>2, <2>3
    <3> QED BY <1>7, <2>1, <3>1 DEF PersistFull
  <2>4. CASE LastOf(frame.post) = 0
    BY <1>7, <2>4 DEF PersistFull
  <2> QED BY <2>3, <2>4
<1> QED BY <1>1, <1>2, <1>3, <1>4, <1>5, <1>6, <1>7 DEF Next, Listener

\* Setting a full weight leaves the rest of the rows alone.
LEMMA FullSet ==
    ASSUME Types1, PersistFull, LastOf(frame.post) \in DOMAIN records,
           records' = [records EXCEPT ![LastOf(frame.post)].full = frame.balloon]
    PROVE  /\ DOMAIN records' = DOMAIN records
           /\ \A i \in DOMAIN records :
                /\ records'[i].post = records[i].post
                /\ records'[i].balloon = records[i].balloon
                /\ records'[i].passport = records[i].passport
                /\ records'[i].full = IF i = LastOf(frame.post) THEN frame.balloon ELSE records[i].full
<1>1. records \in Seq(Rows)
  BY DEF Types1, StoreOK
<1> DEFINE k == LastOf(frame.post)
           row == [records[k] EXCEPT !.full = frame.balloon]
<1>2. records' = [records EXCEPT ![k] = row]
  OBVIOUS
<1>3. records[k] \in Rows
  BY <1>1
<1>4. /\ row.post = records[k].post /\ row.balloon = records[k].balloon
      /\ row.passport = records[k].passport /\ row.full = frame.balloon
  <2> HIDE DEF k
  <2> QED BY <1>3 DEF Rows
<1> HIDE DEF row, k
<1>5. \A i \in DOMAIN records : records'[i] = IF i = k THEN row ELSE records[i]
  BY <1>1, <1>2
<1>6. DOMAIN records' = DOMAIN records
  BY <1>1, <1>2
<1> QED BY <1>4, <1>5, <1>6 DEF k

\* A new row is the last one.
LEMMA RowAdded ==
    ASSUME Types1, records' = Append(records, NewRow)
    PROVE  /\ DOMAIN records' = 1..(Len(records) + 1) /\ Len(records) \in Nat
           /\ DOMAIN records = 1..Len(records)
           /\ \A i \in 1..(Len(records) + 1) :
                records'[i] = IF i = Len(records) + 1 THEN NewRow ELSE records[i]
<1>1. records \in Seq(Rows)
  BY DEF Types1, StoreOK
<1> QED BY <1>1

\* What is at a post after a step was there before it, or has just arrived.
LEMMA AtKinds ==
    ASSUME Types1, Next
    PROVE  /\ arrived' \in {arrived, arrived + 1}
           /\ \A p \in Posts : \A b \in At(p)' :
                \/ b \in At(p)
                \/ b = arrived + 1 /\ arrived' = arrived + 1 /\ Arrive(p)
<1>1. CASE Silent
  BY <1>1, SilentLive, WireMoves
<1>2. ASSUME NEW p \in Posts, Sending(p)
      PROVE  /\ arrived' \in {arrived, arrived + 1}
             /\ \A q \in Posts : \A b \in At(q)' :
                  b \in At(q) \/ (b = arrived + 1 /\ arrived' = arrived + 1 /\ Arrive(q))
  BY <1>2, SendingAt
<1> QED BY <1>1, <1>2, NextKinds

\* The frame in hand is of a balloon at its post.
LEMMA InHandAt ==
    ASSUME Types1, frame \in Frames
    PROVE  /\ frame \in Live /\ frame.post \in Posts /\ frame.balloon \in Balloons
           /\ frame.balloon \in At(frame.post)
BY DEF Live, At, Frames

\* The fields of the rows.
LEMMA RowTypes ==
    ASSUME Types1
    PROVE  /\ arrived \in Nat /\ records \in Seq(Rows)
           /\ \A i \in DOMAIN records : records[i] \in Rows
           /\ \A i \in DOMAIN records :
                /\ records[i].post \in Posts /\ records[i].balloon \in Balloons
                /\ records[i].balloon \in Nat /\ records[i].full \in 0..arrived
<1>1. records \in Seq(Rows) /\ arrived \in Nat
  BY ListenerAssumption DEF Types1, PostsOK, StoreOK
<1>2. \A i \in DOMAIN records : records[i] \in Rows
  BY <1>1
<1>3. \A r \in Rows : /\ r.post \in Posts /\ r.balloon \in Balloons
                      /\ r.balloon \in Nat /\ r.full \in 0..arrived
  BY DEF Rows, Balloons
<1> QED BY <1>1, <1>2, <1>3

\* A new row is of a balloon that came to the post after those of the other rows.
LEMMA RowOrderStep ==
    ASSUME Types1, Apart, RowOrder, Next
    PROVE  RowOrder'
<1>1. arrived \in Nat /\ \A i \in DOMAIN records : records[i].balloon \in Nat /\ records[i].post \in Posts
  BY RowTypes
<1>2. ASSUME NEW i \in DOMAIN records
      PROVE  /\ records[i].balloon <= arrived'
             /\ \A p \in Posts : \A b \in At(p)' :
                  /\ records[i].post = p => records[i].balloon <= b
                  /\ records[i].balloon = b => records[i].post = p
  <2>1. records[i].balloon <= arrived /\ records[i].balloon \in Nat
    BY <1>1 DEF RowOrder
  <2>2. records[i].balloon <= arrived'
    BY <1>1, <2>1, AtKinds
  <2>3. ASSUME NEW p \in Posts, NEW b \in At(p)'
        PROVE  /\ records[i].post = p => records[i].balloon <= b
               /\ records[i].balloon = b => records[i].post = p
    <3>1. CASE b \in At(p)
      BY <3>1 DEF RowOrder
    <3>2. CASE b = arrived + 1
      BY <1>1, <2>1, <3>2
    <3> QED BY <3>1, <3>2, AtKinds
  <2> QED BY <2>2, <2>3
<1>3. CASE records' = records
  BY <1>2, <1>3 DEF RowOrder
<1>4. CASE PersistFull /\ frame \in Frames /\ LastOf(frame.post) \in DOMAIN records
           /\ records' = [records EXCEPT ![LastOf(frame.post)].full = frame.balloon]
  <2>1. /\ DOMAIN records' = DOMAIN records
        /\ \A i \in DOMAIN records : /\ records'[i].post = records[i].post
                                     /\ records'[i].balloon = records[i].balloon
    BY <1>4, FullSet
  <2> QED BY <1>2, <2>1 DEF RowOrder
<1>5. CASE PersistFill /\ frame \in Frames /\ records' = Append(records, NewRow)
  <2> DEFINE n == Len(records) + 1
  <2>1. /\ DOMAIN records' = 1..n /\ n \in Nat /\ DOMAIN records = 1..(n - 1)
        /\ \A i \in 1..n : records'[i] = IF i = n THEN NewRow ELSE records[i]
    BY <1>5, RowAdded
  <2> HIDE DEF n
  <2>2. NewRow.post = frame.post /\ NewRow.balloon = frame.balloon
    BY DEF NewRow
  <2>3. /\ frame.post \in Posts /\ frame.balloon \in At(frame.post) /\ frame.balloon \in Nat
        /\ frame.balloon <= arrived
    BY <1>5, InHandAt DEF Apart, Balloons
  <2>4. arrived' = arrived /\ \A p \in Posts : At(p)' \subseteq At(p)
    BY <1>5, WireMoves, SilentLive DEF Silent, Listener
  <2>5. ASSUME NEW i \in 1..n
        PROVE  /\ records'[i].balloon <= arrived'
               /\ \A p \in Posts : \A b \in At(p)' :
                    /\ records'[i].post = p => records'[i].balloon <= b
                    /\ records'[i].balloon = b => records'[i].post = p
    <3>1. CASE i = n
      <4>1. records'[i].post = frame.post /\ records'[i].balloon = frame.balloon
        BY <2>1, <2>2, <3>1
      <4>2. ASSUME NEW p \in Posts, NEW b \in At(p)'
            PROVE  /\ frame.post = p => frame.balloon <= b
                   /\ frame.balloon = b => frame.post = p
        <5>1. b \in At(p) /\ b \in Nat
          BY <2>4, <4>2 DEF At, Balloons
        <5> QED BY <2>3, <4>2, <5>1 DEF Apart
      <4> QED BY <2>3, <2>4, <4>1, <4>2
    <3>2. CASE i # n
      <4>1. i \in DOMAIN records /\ records'[i] = records[i]
        BY <2>1, <3>2
      <4> QED BY <1>2, <4>1
    <3> QED BY <3>1, <3>2
  <2>6. ASSUME NEW i \in 1..(n - 1)
        PROVE  /\ records[i].post = frame.post => records[i].balloon <= frame.balloon
               /\ records[i].balloon = frame.balloon => records[i].post = frame.post
    BY <2>1, <2>3, <2>6 DEF RowOrder
  <2>7. \A i, j \in DOMAIN records' : i < j /\ records'[i].post = records'[j].post =>
            records'[i].balloon <= records'[j].balloon
    BY <2>1, <2>2, <2>6 DEF RowOrder
  <2>8. \A i, j \in DOMAIN records' : records'[i].balloon = records'[j].balloon =>
            records'[i].post = records'[j].post
    BY <2>1, <2>2, <2>6 DEF RowOrder
  <2>9. \A i \in DOMAIN records' :
           /\ records'[i].balloon <= arrived'
           /\ \A p \in Posts : \A b \in At(p)' :
                /\ records'[i].post = p => records'[i].balloon <= b
                /\ records'[i].balloon = b => records'[i].post = p
    BY <2>1, <2>5
  <2> QED BY <2>7, <2>8, <2>9 DEF RowOrder
<1> QED BY <1>3, <1>4, <1>5, RowKinds

\* The last row of the post is that of the weighed balloon, if it has a row.
LEMMA FullsStep ==
    ASSUME Types1, Apart, Weighed, RowOrder, FullsOK, Next
    PROVE  FullsOK'
<1>1. /\ arrived \in Nat /\ records \in Seq(Rows)
      /\ \A i \in DOMAIN records : /\ records[i].balloon \in Nat /\ records[i].post \in Posts
                                   /\ records[i].full \in 0..arrived
  BY RowTypes
<1>2. ASSUME NEW c \in 0..arrived, Lone(c)
      PROVE  \A p \in Posts : c \in At(p)' => Late(p)'
  <2> SUFFICES ASSUME NEW p \in Posts, c \in At(p)' PROVE Late(p)'
    OBVIOUS
  <2>1. c \in At(p)
    BY <1>1, <1>2, AtKinds
  <2>2. ~Arrive(p)
    BY <2>1, SendingAt DEF Sending
  <2> QED BY <1>2, <2>1, <2>2, LateStep DEF Lone
<1>3. CASE records' = records
  <2>1. ASSUME NEW i \in DOMAIN records, NEW c \in Balloons, records[i].full = c
        PROVE  records[i].balloon = c \/ Lone(c)'
    <3>1. CASE Lone(c)
      BY <1>1, <1>2, <1>3, <2>1, <3>1 DEF Lone
    <3> QED BY <2>1, <3>1 DEF FullsOK
  <2> QED BY <1>3, <2>1 DEF FullsOK
<1>4. CASE PersistFull /\ frame \in Frames /\ LastOf(frame.post) \in DOMAIN records
           /\ records' = [records EXCEPT ![LastOf(frame.post)].full = frame.balloon]
  <2> DEFINE k == LastOf(frame.post)
  <2>1. /\ DOMAIN records' = DOMAIN records
        /\ \A i \in DOMAIN records : /\ records'[i].post = records[i].post
                                     /\ records'[i].balloon = records[i].balloon
                                     /\ records'[i].full = IF i = k THEN frame.balloon ELSE records[i].full
    BY <1>4, FullSet
  <2>2. /\ frame.post \in Posts /\ frame.balloon \in At(frame.post) /\ frame.balloon \in 0..arrived
        /\ Late(frame.post) /\ frame.balloon \in Balloons
    BY <1>1, <1>4, InHandAt DEF Apart, Weighed, PersistFull, Balloons
  <2>3. frame.balloon = records[k].balloon \/ Lone(frame.balloon)
    <3> SUFFICES ASSUME NEW j \in DOMAIN records, records[j].balloon = frame.balloon
                 PROVE  frame.balloon = records[k].balloon
      BY <2>2 DEF Lone, Apart
    <3>1. records[j].post = frame.post
      BY <2>2 DEF RowOrder
    <3>2. records[k].post = frame.post /\ k \in DOMAIN records /\ j <= k /\ k # 0
      BY <1>1, <1>4, <3>1, LastRow
    <3>3. records[j].balloon <= records[k].balloon
      <4>1. CASE j = k
        BY <1>1, <4>1
      <4>2. CASE j # k
        <5>1. j < k
          BY <1>1, <3>2, <4>2
        <5> QED BY <3>1, <3>2, <5>1 DEF RowOrder
      <4> QED BY <4>1, <4>2
    <3>4. records[k].balloon <= frame.balloon
      BY <2>2, <3>2 DEF RowOrder
    <3> QED BY <1>1, <2>2, <3>2, <3>3, <3>4
  <2> HIDE DEF k
  <2>4. ASSUME NEW c \in 0..arrived, Lone(c) PROVE Lone(c)'
    BY <1>2, <2>1, <2>4 DEF Lone
  <2>5. ASSUME NEW i \in DOMAIN records, NEW c \in Balloons, records'[i].full = c
        PROVE  records[i].balloon = c \/ Lone(c)'
    <3>1. CASE i = k
      BY <2>1, <2>2, <2>3, <2>4, <2>5, <3>1
    <3>2. CASE i # k
      <4>1. records[i].full = c /\ c \in 0..arrived
        BY <1>1, <2>1, <2>5, <3>2
      <4> QED BY <2>4, <4>1 DEF FullsOK
    <3> QED BY <3>1, <3>2
  <2> QED BY <2>1, <2>5 DEF FullsOK
<1>5. CASE PersistFill /\ frame \in Frames /\ records' = Append(records, NewRow)
  <2> DEFINE n == Len(records) + 1
  <2>1. /\ DOMAIN records' = 1..n /\ n \in Nat /\ DOMAIN records = 1..(n - 1)
        /\ \A i \in 1..n : records'[i] = IF i = n THEN NewRow ELSE records[i]
    BY <1>5, RowAdded
  <2> HIDE DEF n
  <2>2. NewRow.balloon = frame.balloon /\ NewRow.full = 0
    BY DEF NewRow
  <2>3. /\ frame.post \in Posts /\ frame.balloon \in At(frame.post) /\ frame \in Live
        /\ frame.type = "fill"
    BY <1>5, InHandAt DEF PersistFill
  <2>4. ASSUME NEW c \in 0..arrived, Lone(c) PROVE Lone(c)'
    <3>1. c # frame.balloon
      BY <2>3, <2>4 DEF Lone, Late
    <3> QED BY <1>2, <2>1, <2>2, <2>4, <3>1 DEF Lone
  <2>5. ASSUME NEW i \in 1..n, NEW c \in Balloons, records'[i].full = c
        PROVE  records'[i].balloon = c \/ Lone(c)'
    <3>1. CASE i = n
      BY <2>1, <2>2, <2>5, <3>1 DEF Balloons
    <3>2. CASE i # n
      <4>1. i \in DOMAIN records /\ records'[i] = records[i]
        BY <2>1, <3>2
      <4>2. c \in 0..arrived /\ records[i].full = c
        BY <1>1, <2>5, <4>1
      <4> QED BY <2>4, <4>1, <4>2 DEF FullsOK
    <3> QED BY <3>1, <3>2
  <2> QED BY <2>1, <2>5 DEF FullsOK
<1> QED BY <1>3, <1>4, <1>5, RowKinds

\* The invariant that needs no hypothesis.
BaseInv == Types1 /\ Apart /\ Weighed /\ RowOrder /\ FullsOK

\* It is inductive.
LEMMA BaseStep == BaseInv /\ [Next]_vars => BaseInv'
<1> SUFFICES ASSUME BaseInv, [Next]_vars PROVE BaseInv'
  OBVIOUS
<1>1. CASE Next
  <2>1. Types1'
    BY <1>1, PostsStep, QueueStep, WireStep, StoreStep DEF BaseInv, Types1
  <2> QED BY <1>1, <2>1, ApartStep, WeighedStep, RowOrderStep, FullsStep DEF BaseInv
<1>2. CASE UNCHANGED vars
  <2>1. Types1'
    BY <1>2 DEF BaseInv, vars, postVars, listenerVars, Types1, PostsOK, QueueOK, WireOK, StoreOK,
                Rows, Results
  <2>2. Live' = Live
    BY <1>2 DEF vars, listenerVars, Live
  <2>3. \A p \in Posts : At(p)' = At(p)
    BY <1>2, <2>2 DEF vars, postVars, At
  <2>4. \A p : Late(p)' <=> Late(p)
    BY <1>2, <2>2 DEF vars, postVars, Late
  <2>5. Apart' /\ Weighed'
    BY <1>2, <2>2, <2>3, <2>4 DEF BaseInv, vars, postVars, Apart, Weighed
  <2>6. RowOrder'
    BY <1>2, <2>3 DEF BaseInv, vars, postVars, RowOrder
  <2>7. \A c : Lone(c)' <=> Lone(c)
    BY <1>2, <2>3, <2>4 DEF vars, Lone
  <2>8. FullsOK'
    BY <1>2, <2>7 DEF BaseInv, vars, FullsOK
  <2> QED BY <2>1, <2>5, <2>6, <2>8 DEF BaseInv
<1> QED BY <1>1, <1>2

\* It holds initially.
LEMMA BaseInit == Init => BaseInv
BY InitTypes, InitApart DEF BaseInv

\* Type correctness of the listener; in particular the passport queue stays in the order
\* in which the balloons passed the reader, however its elements are pushed, popped,
\* lost in failures or expire.
THEOREM ListenerTypeCorrect == Spec => []TypeOK
<1>1. BaseInv => TypeOK
  BY DEF BaseInv, Types1, PostsOK, QueueOK, WireOK, StoreOK, Handling, Rows, Results, TypeOK
<1> QED BY BaseInit, BaseStep, <1>1, PTL DEF Spec

\* put_carousel_data stores the full weight of a 0x70 frame in the row that the post
\* changed last; that row is the weighed balloon's own if the balloon has a row at all.
THEOREM FullWeightsOwn == Spec => []FullWeightOwn
<1>1. BaseInv => FullWeightOwn
  <2> SUFFICES ASSUME BaseInv, NEW i \in DOMAIN records, records[i].full \notin {0, records[i].balloon}
               PROVE  \A j \in DOMAIN records : records[j].balloon # records[i].full
    BY DEF FullWeightOwn
  <2>1. records[i].full \in Balloons
    <3>1. records[i].full \in 0..arrived /\ arrived \in 0..MaxBalloons /\ MaxBalloons \in Nat
      BY RowTypes, ListenerAssumption DEF BaseInv, Types1, PostsOK
    <3> QED BY <3>1 DEF Balloons
  <2> QED BY <2>1 DEF BaseInv, FullsOK, Lone
<1> QED BY BaseInit, BaseStep, <1>1, PTL DEF Spec

(***************************************************************************)
(* One passport for each balloon.                                          *)
(***************************************************************************)

\* A post that does not ask any more asks again only for the next balloon.
LEMMA AsksStep ==
    ASSUME Types1, Next, NEW p \in Posts, ~Arrive(p), Asks(p)'
    PROVE  Asks(p)
<1>1. wire \in Seq(Frames) /\ sends \in [Posts -> 0..MaxSends] /\ phase \in [Posts -> {"free", "asking", "filling", "weighing", "done"}]
  BY DEF Types1, WireOK, PostsOK
<1>2. CASE Silent
  <2>1. OnWire(p, "fill")' => OnWire(p, "fill")
    <3>1. CASE wire # <<>> /\ wire' = Tail(wire)
      <4>1. \A i \in DOMAIN wire' : i + 1 \in DOMAIN wire /\ wire'[i] = wire[i + 1]
        BY <1>1, <3>1
      <4> QED BY <4>1 DEF OnWire
    <3> QED BY <1>2, <3>1, WireMoves DEF OnWire
  <2>2. phase'[p] = "asking" => phase[p] = "asking" /\ (sends'[p] < MaxSends => sends[p] < MaxSends)
    <3>1. CASE phase' = phase /\ sends' = sends
      BY <3>1
    <3>2. CASE GoDown /\ phase' = phase
      BY <1>1, <3>2, ListenerAssumption DEF GoDown
    <3>3. ASSUME NEW q \in Posts, Quiet(q) \/ Leave(q)
          PROVE  phase'[p] = "asking" => phase[p] = "asking" /\ (sends'[p] < MaxSends => sends[p] < MaxSends)
      BY <1>1, <3>3 DEF Quiet, Leave
    <3>4. \/ phase' = phase /\ sends' = sends
          \/ GoDown /\ phase' = phase
          \/ \E q \in Posts : Quiet(q) \/ Leave(q)
      <4>1. CASE Push \/ Miss \/ QueueExpires
        BY <4>1 DEF Push, Miss, QueueExpires, postVars
      <4>2. CASE Listener
        BY <4>2 DEF Listener, Connect, Drop, BadCrc, Duplicate, Read, ProcessFill, ProcessFull,
                    ProcessFails, Answer, AnswerFails, PersistFill, PersistFull, Expire, postVars
      <4> QED BY <1>2, <4>1, <4>2 DEF Silent
    <3> QED BY <3>1, <3>2, <3>3, <3>4
  <2> QED BY <2>1, <2>2 DEF Asks
<1>3. ASSUME NEW q \in Posts, Sending(q) PROVE Asks(p)
  <2>1. /\ FrameOf(q) \in Frames /\ FrameOf(q).post = q /\ FrameOf(q).type = TypeOf(phase'[q])
        /\ wire' = wire \/ wire' = Append(wire, FrameOf(q))
    BY <1>3, Sent DEF FrameOf
  <2>2. OnWire(p, "fill")' => OnWire(p, "fill") \/ (q = p /\ phase'[p] = "asking")
    <3>1. CASE wire' = Append(wire, FrameOf(q))
      <4> DEFINE f == FrameOf(q)
      <4>1. \A i \in DOMAIN wire' : wire'[i] = f \/ (i \in DOMAIN wire /\ wire'[i] = wire[i])
        <5> HIDE DEF f
        <5> QED BY <1>1, <2>1, <3>1 DEF f
      <4> QED BY <2>1, <4>1 DEF OnWire, TypeOf
    <3> QED BY <2>1, <3>1 DEF OnWire
  <2>3. CASE q = p
    <3>1. CASE phase'[p] = "asking"
      <4>1. Repeat(p)
        BY <1>1, <1>3, <2>3, <3>1 DEF Sending, Weigh
      <4> QED BY <1>1, <3>1, <4>1 DEF Repeat, Asks
    <3>2. CASE phase'[p] # "asking"
      BY <2>2, <3>2 DEF Asks
    <3> QED BY <3>1, <3>2
  <2>4. CASE q # p
    <3>1. phase'[p] = phase[p] /\ sends'[p] = sends[p]
      BY <1>1, <1>3, <2>4 DEF Sending, Arrive, Weigh, Repeat
    <3> QED BY <2>2, <2>4, <3>1 DEF Asks
  <2> QED BY <2>3, <2>4
<1> QED BY <1>2, <1>3, NextKinds

\* A cached result stays until it expires or the connection is made anew.
LEMMA EntryStep ==
    ASSUME Types1, Next, ~Connect, NEW p \in Posts, Entry(p),
           \A e \in cache : Expire(e) => ~(e.type = "fill" /\ e.post = p)
    PROVE  Entry(p)'
<1>1. CASE cache' = cache
  BY <1>1 DEF Entry
<1>2. ASSUME NEW r, Remember(frame, r) PROVE Entry(p)'
  BY <1>2 DEF Remember, Entry, IsEntryOf
<1>3. CASE Push \/ Miss \/ QueueExpires
  BY <1>1, <1>3 DEF Push, Miss, QueueExpires
<1>4. CASE Drop \/ BadCrc \/ Duplicate \/ Read
  BY <1>1, <1>4 DEF Drop, BadCrc, Duplicate, Read
<1>5. CASE ProcessFill \/ ProcessFull
  BY <1>2, <1>5 DEF ProcessFill, ProcessFull
<1>6. CASE ProcessFails \/ Answer \/ AnswerFails \/ PersistFill \/ PersistFull
  BY <1>1, <1>6 DEF ProcessFails, Answer, AnswerFails, PersistFill, PersistFull
<1>7. ASSUME NEW e \in cache, Expire(e) PROVE Entry(p)'
  BY <1>7 DEF Expire, Entry
<1>8. ASSUME NEW q \in Posts, Post(q) PROVE Entry(p)'
  BY <1>1, <1>8 DEF Post, Arrive, Weigh, Repeat, Quiet, Leave
<1> QED BY <1>3, <1>4, <1>5, <1>6, <1>7, <1>8 DEF Next, Listener

\* The connection goes down in GoDown only.
LEMMA DownKinds ==
    ASSUME Types1, Next, pc' = "down"
    PROVE  (GoDown /\ phase' = phase /\ arrived' = arrived) \/ (pc = "down" /\ ~Connect)
<1>1. CASE Push \/ Miss \/ QueueExpires
  BY <1>1 DEF Push, Miss, QueueExpires, listenerVars, Connect
<1>2. CASE Connect \/ Drop \/ BadCrc \/ Duplicate \/ Read
  BY <1>2 DEF Connect, Drop, BadCrc, Duplicate, Read, listenerVars
<1>3. CASE ProcessFill \/ ProcessFull \/ ProcessFails \/ Answer \/ AnswerFails \/ PersistFill \/ PersistFull
  BY <1>3 DEF ProcessFill, ProcessFull, ProcessFails, Answer, AnswerFails, PersistFill, PersistFull, BackToRead
<1>4. ASSUME NEW e \in cache, Expire(e) PROVE pc = "down" /\ ~Connect
  BY <1>4 DEF Expire, listenerVars, Connect
<1>5. ASSUME NEW q \in Posts, Post(q) PROVE pc = "down" /\ ~Connect
  BY <1>5 DEF Post, Arrive, Weigh, Repeat, Quiet, Leave, listenerVars, Connect
<1> QED BY <1>1, <1>2, <1>3, <1>4, <1>5 DEF Next, Listener

\* After the connection has gone nobody repeats a request.
LEMMA DownAsks ==
    ASSUME Types1, GoDown, phase' = phase, NEW p \in Posts
    PROVE  ~Asks(p)' /\ ~InProcess(p)' /\ wire' = <<>>
BY ListenerAssumption DEF Types1, PostsOK, GoDown, Asks, InProcess, OnWire

\* A request is handled when it has no cached result.
LEMMA InProcessStep ==
    ASSUME Types1, Next, NEW p \in Posts, InProcess(p)', ~InProcess(p)
    PROVE  Read /\ OnWire(p, "fill") /\ ~Entry(p)
<1>1. pc' = "process" /\ frame'.type = "fill" /\ frame'.post = p
  BY DEF InProcess
<1>2. CASE Push \/ Miss \/ QueueExpires
  BY <1>1, <1>2 DEF Push, Miss, QueueExpires, listenerVars, InProcess
<1>3. CASE Connect \/ Drop \/ BadCrc \/ Duplicate
  BY <1>1, <1>3 DEF Connect, Drop, BadCrc, Duplicate, GoDown, listenerVars, InProcess
<1>4. CASE ProcessFill \/ ProcessFull \/ ProcessFails \/ Answer \/ AnswerFails \/ PersistFill \/ PersistFull
  BY <1>1, <1>4 DEF ProcessFill, ProcessFull, ProcessFails, Answer, AnswerFails, PersistFill, PersistFull, BackToRead, GoDown
<1>5. ASSUME NEW e \in cache, Expire(e) PROVE FALSE
  BY <1>1, <1>5 DEF Expire, listenerVars, InProcess
<1>6. ASSUME NEW q \in Posts, Post(q) PROVE FALSE
  BY <1>1, <1>6 DEF Post, Arrive, Weigh, Repeat, Quiet, Leave, listenerVars, InProcess
<1>7. Read
  BY <1>2, <1>3, <1>4, <1>5, <1>6 DEF Next, Listener
<1>8. wire \in Seq(Frames) /\ wire # <<>> /\ frame' = wire[1] /\ ~Known(wire[1])
  BY <1>7 DEF Read, Types1, WireOK
<1>9. 1 \in DOMAIN wire
  BY <1>8
<1> QED BY <1>1, <1>7, <1>8, <1>9 DEF OnWire, Entry, Known, IsEntryOf

\* Once closed, always closed: a repeated request finds what was cached for the first.
LEMMA ClosedStep ==
    ASSUME Prompt, Types1, Next, NEW b \in Balloons, Closed(b)
    PROVE  Closed(b)'
<1>1. b <= arrived' /\ arrived \in Nat
  BY ListenerAssumption, AtKinds DEF Closed, Types1, PostsOK, Balloons
<1> SUFFICES ASSUME NEW p \in Posts, b \in At(p)'
             PROVE  ~InProcess(p)' /\ (Asks(p)' => Entry(p)' /\ pc' # "down")
  BY <1>1 DEF Closed
<1>2. b \in At(p)
  BY <1>1, AtKinds DEF Closed, Balloons
<1>3. ~InProcess(p) /\ (Asks(p) => Entry(p) /\ pc # "down")
  BY <1>2 DEF Closed
<1>4. ~Arrive(p)
  BY <1>2, SendingAt DEF Sending
<1>5. ~InProcess(p)'
  BY <1>3, InProcessStep DEF Asks
<1>6. ASSUME Asks(p)' PROVE Entry(p)' /\ pc' # "down"
  <2>1. Asks(p) /\ Entry(p) /\ pc # "down"
    BY <1>3, <1>4, <1>6, AsksStep
  <2>2. pc' # "down"
    BY <1>6, <2>1, DownKinds, DownAsks
  <2>3. ~Connect
    BY <2>1 DEF Connect
  <2>4. ASSUME NEW e \in cache, Expire(e), e.type = "fill", e.post = p PROVE FALSE
    BY <2>1, <2>4 DEF Expire, Asks, TypeOf
  <2> QED BY <2>1, <2>2, <2>3, <2>4, EntryStep
<1> QED BY <1>5, <1>6

\* A passport is taken while the listener handles a request for the target weight.
LEMMA TakenKinds ==
    ASSUME Types1, Next
    PROVE  \/ taken' = taken
           \/ /\ ProcessFill \/ ProcessFails
              /\ frame \in Frames /\ InProcess(frame.post)
              /\ taken' = [taken EXCEPT ![frame.balloon] = taken[frame.balloon] + 1]
<1>1. CASE Push \/ Miss \/ QueueExpires
  BY <1>1 DEF Push, Miss, QueueExpires
<1>2. CASE Connect \/ Drop \/ BadCrc \/ Duplicate \/ Read
  BY <1>2 DEF Connect, Drop, BadCrc, Duplicate, Read
<1>3. CASE ProcessFill \/ ProcessFails
  <2>1. frame \in Frames
    BY <1>3 DEF ProcessFill, ProcessFails, Types1, WireOK, Handling
  <2> QED BY <1>3, <2>1 DEF ProcessFill, ProcessFails, Pop, PopFails, Taken, InProcess
<1>4. CASE ProcessFull \/ Answer \/ AnswerFails \/ PersistFill \/ PersistFull
  BY <1>4 DEF ProcessFull, Answer, AnswerFails, PersistFill, PersistFull
<1>5. ASSUME NEW e \in cache, Expire(e) PROVE taken' = taken
  BY <1>5 DEF Expire
<1>6. ASSUME NEW p \in Posts, Post(p) PROVE taken' = taken
  BY <1>6 DEF Post, Arrive, Weigh, Repeat, Quiet, Leave
<1> QED BY <1>1, <1>2, <1>3, <1>4, <1>5, <1>6 DEF Next, Listener

\* A request for the target weight that has been handled, or was lost, is not handled again.
LEMMA ServedClosed ==
    ASSUME Types1, Apart, ProcessFill \/ ProcessFails, frame.type = "fill",
           NEW b, b = frame.balloon
    PROVE  frame \in Frames /\ b \in Balloons /\ Closed(b)'
<1>1. frame \in Frames /\ pc = "process" /\ arrived' = arrived
  BY DEF ProcessFill, ProcessFails, Types1, WireOK, Handling, postVars
<1>2. /\ frame.post \in Posts /\ b \in At(frame.post) /\ b \in Balloons
      /\ b <= arrived
  BY <1>1, InHandAt DEF Apart
<1>3. \A p \in Posts : At(p)' \subseteq At(p)
  BY SilentLive DEF Silent, Listener
<1>4. ASSUME NEW p \in Posts, b \in At(p)'
      PROVE  ~InProcess(p)' /\ (Asks(p)' => Entry(p)' /\ pc' # "down")
  <2>1. p = frame.post
    BY <1>2, <1>3, <1>4 DEF Apart
  <2>2. CASE ProcessFill
    <3>1. Remember(frame, reply') /\ pc' \in {"answer", "persist"}
      BY <2>2 DEF ProcessFill
    <3>2. [type |-> frame.type, post |-> frame.post, reply |-> reply'] \in cache'
      BY <3>1 DEF Remember
    <3>3. Entry(p)'
      BY <2>1, <3>2 DEF Entry
    <3> QED BY <3>1, <3>3 DEF InProcess
  <2>3. CASE ProcessFails
    BY <1>1, <2>3, DownAsks DEF ProcessFails
  <2> QED BY <2>2, <2>3
<1> QED BY <1>1, <1>2, <1>4 DEF Closed

\* A passport is taken for a balloon that is not closed, which closes it.
LEMMA TakenStep ==
    ASSUME Prompt, Types1, Apart, TakenOnce, Next
    PROVE  TakenOnce'
<1> SUFFICES ASSUME NEW b \in Balloons
             PROVE  taken'[b] \in {0, 1} /\ (taken'[b] = 1 => Closed(b)')
  BY DEF TakenOnce
<1>1. taken \in [Balloons -> Nat] /\ taken[b] \in {0, 1} /\ (taken[b] = 1 => Closed(b)')
  BY ClosedStep DEF Types1, StoreOK, TakenOnce
<1>2. CASE taken'[b] = taken[b]
  BY <1>1, <1>2
<1>3. CASE taken'[b] # taken[b]
  <2>1. /\ ProcessFill \/ ProcessFails
        /\ frame \in Frames /\ InProcess(frame.post)
        /\ taken' = [taken EXCEPT ![frame.balloon] = taken[frame.balloon] + 1]
    BY <1>3, TakenKinds
  <2>2. b = frame.balloon /\ taken'[b] = taken[b] + 1
    BY <1>1, <1>3, <2>1
  <2>3. frame.post \in Posts /\ b \in At(frame.post)
    BY <2>1, <2>2, InHandAt
  <2>4. ~Closed(b)
    BY <2>1, <2>3 DEF Closed
  <2>5. taken[b] = 0
    BY <1>1, <2>4 DEF TakenOnce
  <2>6. Closed(b)'
    BY <2>1, <2>2, ServedClosed DEF InProcess
  <2> QED BY <2>2, <2>5, <2>6
<1> QED BY <1>2, <1>3

(***************************************************************************)
(* The passport in the answer, in the cache and in the record.             *)
(***************************************************************************)

\* The passport a balloon is given, through the answer, the cache or the record, was taken
\* from the queue for it.
LEMMA ToldKinds ==
    ASSUME Types1, GivenOnce, Next, NEW b \in Balloons, NEW r \in told'[b]
    PROVE  Given(b, r)
<1>1. CASE told' = told
  BY <1>1 DEF Given
<1>2. CASE told' # told
  <2>1. told \in [Balloons -> SUBSET (1..pushed)]
    BY DEF Types1, StoreOK
  <2>2. Duplicate \/ Answer
    <3>1. CASE Push \/ Miss \/ QueueExpires
      BY <1>2, <3>1 DEF Push, Miss, QueueExpires
    <3>2. CASE Connect \/ Drop \/ BadCrc \/ Read
      BY <1>2, <3>2 DEF Connect, Drop, BadCrc, Read
    <3>3. CASE ProcessFill \/ ProcessFails \/ ProcessFull \/ AnswerFails \/ PersistFill \/ PersistFull
      BY <1>2, <3>3 DEF ProcessFill, ProcessFails, ProcessFull, AnswerFails, PersistFill, PersistFull
    <3>4. ASSUME NEW e \in cache, Expire(e) PROVE told' = told
      BY <3>4 DEF Expire
    <3>5. ASSUME NEW p \in Posts, Post(p) PROVE told' = told
      BY <3>5 DEF Post, Arrive, Weigh, Repeat, Quiet, Leave
    <3> QED BY <1>2, <3>1, <3>2, <3>3, <3>4, <3>5 DEF Next, Listener
  <2>3. CASE Duplicate
    <3>1. PICK e \in cache : /\ wire # <<>> /\ IsEntryOf(e, Head(wire)) /\ e.reply # 0
                             /\ Tell(Head(wire).balloon, e.reply)
      BY <1>2, <2>3 DEF Duplicate
    <3>2. CASE r \in told[b]
      BY <3>2 DEF Given
    <3>3. CASE r \notin told[b]
      <4>1. b = Head(wire).balloon /\ r = e.reply
        BY <2>1, <3>1, <3>3 DEF Tell
      <4>2. e.type = "fill"
        BY <3>1 DEF GivenOnce, Types1, StoreOK, Results, Types
      <4>3. Head(wire) \in Live /\ e.post = Head(wire).post
        <5>1. wire \in Seq(Frames) /\ 1 \in DOMAIN wire /\ Head(wire) = wire[1] /\ wire[1] \in Frames
          BY <3>1 DEF Types1, WireOK
        <5> QED BY <3>1, <5>1 DEF Live, IsEntryOf
      <4>4. b \in At(e.post)
        BY <4>1, <4>3 DEF At
      <4> QED BY <3>1, <4>1, <4>2, <4>4 DEF Given
    <3> QED BY <3>2, <3>3
  <2>4. CASE Answer
    <3>1. pc = "answer" /\ reply # 0 /\ reply = passport /\ frame.type = "fill"
      BY <2>4 DEF Answer, Types1, WireOK
    <3>2. r \in told[b] \/ (b = frame.balloon /\ r = reply)
      BY <2>1, <2>4 DEF Answer, Tell
    <3> QED BY <3>1, <3>2 DEF Given
  <2> QED BY <2>2, <2>3, <2>4
<1> QED BY <1>1, <1>2

\* The passport in hand was taken by ProcessFill.
LEMMA HandKinds ==
    ASSUME Types1, Next, pc' \in {"answer", "persist"}, frame'.type = "fill"
    PROVE  /\ frame' = frame
           /\ \/ pc \in {"answer", "persist"} /\ passport' = passport
              \/ ProcessFill
<1>1. CASE Push \/ Miss \/ QueueExpires
  BY <1>1 DEF Push, Miss, QueueExpires, listenerVars
<1>2. CASE Connect \/ Drop \/ BadCrc \/ Duplicate \/ Read
  BY <1>2 DEF Connect, Drop, BadCrc, Duplicate, Read, GoDown, listenerVars
<1>3. CASE ProcessFill \/ ProcessFull \/ ProcessFails
  BY <1>3 DEF ProcessFill, ProcessFull, ProcessFails, GoDown
<1>4. CASE Answer \/ AnswerFails \/ PersistFill \/ PersistFull
  BY <1>4 DEF Answer, AnswerFails, PersistFill, PersistFull, BackToRead, GoDown
<1>5. ASSUME NEW e \in cache, Expire(e) PROVE UNCHANGED listenerVars
  BY <1>5 DEF Expire
<1>6. ASSUME NEW p \in Posts, Post(p) PROVE UNCHANGED listenerVars
  BY <1>6 DEF Post, Arrive, Weigh, Repeat, Quiet, Leave
<1> QED BY <1>1, <1>2, <1>3, <1>4, <1>5, <1>6 DEF Next, Listener, listenerVars

\* A result is cached for the frame in hand.
LEMMA CacheKinds ==
    ASSUME Types1, Next, NEW e \in cache', e \notin cache
    PROVE  /\ frame \in Frames /\ frame' = frame /\ e.type = frame.type /\ e.post = frame.post
           /\ \/ ProcessFill /\ frame.type = "fill" /\ e.reply = reply'
              \/ ProcessFull /\ frame.type = "full" /\ e.reply = 0
<1>1. CASE Push \/ Miss \/ QueueExpires
  BY <1>1 DEF Push, Miss, QueueExpires
<1>2. CASE Connect \/ Drop \/ BadCrc \/ Duplicate \/ Read
  BY <1>2 DEF Connect, Drop, BadCrc, Duplicate, Read
<1>3. CASE ProcessFill \/ ProcessFull
  <2>1. frame \in Frames /\ frame' = frame
    BY <1>3 DEF ProcessFill, ProcessFull, Types1, WireOK, Handling
  <2> QED BY <1>3, <2>1 DEF ProcessFill, ProcessFull, Remember
<1>4. CASE ProcessFails \/ Answer \/ AnswerFails \/ PersistFill \/ PersistFull
  BY <1>4 DEF ProcessFails, Answer, AnswerFails, PersistFill, PersistFull
<1>5. ASSUME NEW f \in cache, Expire(f) PROVE cache' \subseteq cache
  BY <1>5 DEF Expire
<1>6. ASSUME NEW p \in Posts, Post(p) PROVE cache' = cache
  BY <1>6 DEF Post, Arrive, Weigh, Repeat, Quiet, Leave
<1> QED BY <1>1, <1>2, <1>3, <1>4, <1>5, <1>6 DEF Next, Listener

\* A balloon is given a passport when ProcessFill takes it.
LEMMA GivenKinds ==
    ASSUME Types1, Apart, GivenOnce, Next, NEW b \in Balloons, NEW r, Given(b, r)'
    PROVE  \/ Given(b, r)
           \/ ProcessFill /\ frame.type = "fill" /\ b = frame.balloon /\ r = passport'
<1>1. CASE r \in told'[b]
  BY <1>1, ToldKinds
<1>2. CASE pc' \in {"answer", "persist"} /\ frame'.type = "fill" /\ b = frame'.balloon /\ r = passport'
  BY <1>2, HandKinds DEF Given
<1>3. ASSUME NEW e \in cache', e.type = "fill", e.reply # 0, b \in At(e.post)', r = e.reply
      PROVE  \/ Given(b, r)
             \/ ProcessFill /\ frame.type = "fill" /\ b = frame.balloon /\ r = passport'
  <2>1. CASE e \in cache
    <3>1. e.post \in Posts
      BY <2>1 DEF Types1, StoreOK, Results
    <3>2. ~Arrive(e.post)
      BY <2>1 DEF Arrive, Settled
    <3>3. b \in At(e.post)
      BY <1>3, <3>1, <3>2, AtKinds
    <3> QED BY <1>3, <2>1, <3>3 DEF Given
  <2>2. CASE e \notin cache
    <3>1. ProcessFill /\ frame \in Frames /\ frame.type = "fill" /\ e.post = frame.post /\ e.reply = reply'
      BY <1>3, <2>2, CacheKinds
    <3>2. reply' \in {0, passport'}
      BY <3>1 DEF ProcessFill
    <3>3. frame.balloon \in At(frame.post) /\ frame.post \in Posts
      BY <3>1, InHandAt
    <3>4. b \in At(frame.post)
      BY <1>3, <3>1, <3>3, SilentLive DEF Silent, Listener
    <3>5. b = frame.balloon
      BY <3>3, <3>4 DEF Apart
    <3> QED BY <1>3, <3>1, <3>2, <3>5
  <2> QED BY <2>1, <2>2
<1>4. ASSUME NEW i \in DOMAIN records', b = records'[i].balloon, r = records'[i].passport
      PROVE  Given(b, r)
  <2>1. CASE records' = records
    BY <1>4, <2>1 DEF Given
  <2>2. CASE PersistFill /\ records' = Append(records, NewRow)
    <3>1. (i \in DOMAIN records /\ records'[i] = records[i]) \/ records'[i] = NewRow
      BY <1>4, <2>2, RowAdded
    <3> QED BY <1>4, <2>2, <3>1 DEF Given, NewRow, PersistFill
  <2>3. CASE PersistFull /\ LastOf(frame.post) \in DOMAIN records
             /\ records' = [records EXCEPT ![LastOf(frame.post)].full = frame.balloon]
    BY <1>4, <2>3, FullSet DEF Given
  <2> QED BY <2>1, <2>2, <2>3, RowKinds
<1> QED BY <1>1, <1>2, <1>3, <1>4 DEF Given

\* The queue holds what it held, and the balloon that has just passed.
LEMMA QueueKinds ==
    ASSUME Types1, Next
    PROVE  /\ queue \in Seq(1..pushed) /\ pushed \in 0..MaxBalloons /\ pushed' \in {pushed, pushed + 1}
           /\ \A i \in DOMAIN queue : queue[i] \in 1..pushed
           /\ \A i \in DOMAIN queue' :
                \/ \E j \in DOMAIN queue : queue'[i] = queue[j]
                \/ queue'[i] = pushed + 1
<1>1. queue \in Seq(1..pushed) /\ pushed \in 0..MaxBalloons
  BY DEF Types1, QueueOK
<1>2. \A i \in DOMAIN queue : queue[i] \in 1..pushed
  BY <1>1
<1>3. CASE Push
  <2>1. queue' = Append(queue, pushed + 1) /\ pushed' = pushed + 1
    BY <1>3 DEF Push
  <2>2. \A i \in DOMAIN queue' : queue'[i] = pushed + 1 \/ (i \in DOMAIN queue /\ queue'[i] = queue[i])
    BY <1>1, <2>1
  <2> QED BY <1>1, <1>2, <2>1, <2>2
<1>4. CASE queue' = queue /\ pushed' \in {pushed, pushed + 1}
  BY <1>1, <1>2, <1>4
<1>5. CASE queue' = <<>> /\ pushed' = pushed
  BY <1>1, <1>2, <1>5
<1>6. CASE queue # <<>> /\ queue' = Tail(queue) /\ pushed' = pushed
  <2>1. \A i \in DOMAIN queue' : i + 1 \in DOMAIN queue /\ queue'[i] = queue[i + 1]
    BY <1>1, <1>6
  <2> QED BY <1>1, <1>2, <1>6, <2>1
<1>7. \/ Push
      \/ queue' = <<>> /\ pushed' = pushed
      \/ queue # <<>> /\ queue' = Tail(queue) /\ pushed' = pushed
      \/ queue' = queue /\ pushed' \in {pushed, pushed + 1}
  <2>1. CASE Listener
    BY <2>1 DEF Listener, Connect, Drop, BadCrc, Duplicate, Read, ProcessFill, ProcessFull,
                ProcessFails, Answer, AnswerFails, PersistFill, PersistFull, Expire, Pop, PopFails, Taken
  <2>2. CASE \E p \in Posts : Post(p)
    BY <2>2 DEF Post, Arrive, Weigh, Repeat, Quiet, Leave
  <2>3. CASE Miss \/ QueueExpires
    BY <2>3 DEF Miss, QueueExpires
  <2> QED BY <2>1, <2>2, <2>3 DEF Next
<1> QED BY <1>1, <1>2, <1>3, <1>4, <1>5, <1>6, <1>7

\* The passport that ProcessFill takes is older than all that stay.
LEMMA Popped ==
    ASSUME Types1, ProcessFill
    PROVE  /\ passport' \in 0..pushed /\ pushed' = pushed
           /\ passport' # 0 => queue # <<>> /\ passport' = queue[1] /\ 1 \in DOMAIN queue
           /\ \A i \in DOMAIN queue' : passport' < queue'[i]
<1>1. /\ queue \in Seq(1..pushed) /\ pushed \in 0..MaxBalloons
      /\ \A i, j \in DOMAIN queue : i < j => queue[i] < queue[j]
      /\ passport = 0 /\ pushed' = pushed
  BY DEF Types1, QueueOK, WireOK, ProcessFill
<1>2. \A i \in DOMAIN queue : queue[i] \in 1..pushed
  BY <1>1
<1>3. CASE Pop
  <2>1. queue # <<>> /\ passport' = Head(queue) /\ queue' = Tail(queue)
    BY <1>3 DEF Pop, Taken
  <2>2. 1 \in DOMAIN queue /\ passport' = queue[1]
    BY <1>1, <2>1
  <2>3. \A i \in DOMAIN queue' : i + 1 \in DOMAIN queue /\ queue'[i] = queue[i + 1] /\ 1 < i + 1
    BY <1>1, <2>1
  <2> QED BY <1>1, <1>2, <2>1, <2>2, <2>3
<1>4. CASE passport' = 0 /\ queue' \in {queue, Tail(queue)} /\ (queue' = queue \/ queue # <<>>)
  <2>1. \A i \in DOMAIN queue' : \E j \in DOMAIN queue : queue'[i] = queue[j]
    <3>1. CASE queue' = Tail(queue) /\ queue # <<>>
      <4>1. \A i \in DOMAIN queue' : i + 1 \in DOMAIN queue /\ queue'[i] = queue[i + 1]
        BY <1>1, <3>1
      <4> QED BY <4>1
    <3> QED BY <1>4, <3>1
  <2> QED BY <1>1, <1>2, <1>4, <2>1
<1> QED BY <1>1, <1>3, <1>4 DEF ProcessFill, PopFails, Taken

\* The passport taken is older than the others, and the balloon had none.
LEMMA GivenStep ==
    ASSUME Prompt, Types1, Apart, GivenOnce, Next
    PROVE  GivenOnce'
<1>1. \A e \in cache' : e.type = "full" => e.reply = 0
  BY CacheKinds DEF GivenOnce
<1>2. MaxBalloons \in Nat
  BY ListenerAssumption
<1>3. ASSUME NEW b \in Balloons, NEW r \in 0..MaxBalloons, Given(b, r)'
      PROVE  Closed(b)' /\ r <= pushed' /\ \A i \in DOMAIN queue' : r < queue'[i]
  <2>1. CASE Given(b, r)
    <3>1. Closed(b) /\ r <= pushed /\ \A i \in DOMAIN queue : r < queue[i]
      BY <2>1 DEF GivenOnce
    <3>2. Closed(b)'
      BY <3>1, ClosedStep
    <3>3. r <= pushed' /\ \A i \in DOMAIN queue' : r < queue'[i]
      BY <1>2, <3>1, QueueKinds
    <3> QED BY <3>2, <3>3
  <2>2. CASE ProcessFill /\ frame.type = "fill" /\ b = frame.balloon /\ r = passport'
    <3>1. Closed(b)'
      BY <2>2, ServedClosed
    <3> QED BY <1>2, <2>2, <3>1, Popped, QueueKinds
  <2> QED BY <1>3, <2>1, <2>2, GivenKinds
<1>4. ASSUME NEW b \in Balloons, NEW c \in Balloons, NEW r \in 0..MaxBalloons, NEW s \in 0..MaxBalloons,
             Given(b, r), ProcessFill, frame.type = "fill", c = frame.balloon, s = passport'
      PROVE  b # c /\ (r = s => r = 0)
  <2>1. Closed(b) /\ \A i \in DOMAIN queue : r < queue[i]
    BY <1>4 DEF GivenOnce
  <2>2. frame \in Frames /\ InProcess(frame.post)
    BY <1>4 DEF ProcessFill, InProcess, Types1, WireOK, Handling
  <2>3. b # c
    BY <1>4, <2>1, <2>2, InHandAt DEF Closed
  <2>4. r = s => r = 0
    BY <1>2, <1>4, <2>1, Popped, QueueKinds
  <2> QED BY <2>3, <2>4
<1>5. ASSUME NEW b \in Balloons, NEW c \in Balloons, NEW r \in 0..MaxBalloons, NEW s \in 0..MaxBalloons,
             Given(b, r)', Given(c, s)'
      PROVE  (b = c => r = s) /\ (r = s /\ r # 0 => b = c)
  <2>1. CASE Given(b, r) /\ Given(c, s)
    BY <2>1 DEF GivenOnce
  <2>2. CASE Given(b, r) /\ ~Given(c, s)
    <3>1. ProcessFill /\ frame.type = "fill" /\ c = frame.balloon /\ s = passport'
      BY <1>5, <2>2, GivenKinds
    <3> QED BY <1>4, <2>2, <3>1
  <2>3. CASE ~Given(b, r) /\ Given(c, s)
    <3>1. ProcessFill /\ frame.type = "fill" /\ b = frame.balloon /\ r = passport'
      BY <1>5, <2>3, GivenKinds
    <3>2. c # b /\ (s = r => s = 0)
      BY <1>4, <2>3, <3>1
    <3> QED BY <3>2
  <2>4. CASE ~Given(b, r) /\ ~Given(c, s)
    <3>1. b = frame.balloon /\ r = passport' /\ c = frame.balloon /\ s = passport'
      BY <1>5, <2>4, GivenKinds
    <3> QED BY <3>1
  <2> QED BY <2>1, <2>2, <2>3, <2>4
<1> QED BY <1>1, <1>3, <1>5 DEF GivenOnce

(***************************************************************************)
(* The theorems about answers.                                             *)
(***************************************************************************)

\* A stuttering step changes nothing of this.
LEMMA StillClosed ==
    ASSUME UNCHANGED vars
    PROVE  /\ \A b \in Balloons : Closed(b)' <=> Closed(b)
           /\ \A b \in Balloons : \A r : Given(b, r)' <=> Given(b, r)
<1>1. UNCHANGED <<pushed, queue, arrived, balloon, phase, sends, wire, pc, frame, passport, reply,
                  cache, records, told, taken, mishap>>
  BY DEF vars, postVars, listenerVars
<1>2. Live' = Live
  BY <1>1 DEF Live
<1>3. \A p : At(p)' = At(p)
  BY <1>1, <1>2 DEF At
<1>4. \A p : (Asks(p)' <=> Asks(p)) /\ (Entry(p)' <=> Entry(p)) /\ (InProcess(p)' <=> InProcess(p))
  BY <1>1 DEF Asks, Entry, InProcess, OnWire
<1>5. \A b \in Balloons : Closed(b)' <=> Closed(b)
  BY <1>1, <1>3, <1>4 DEF Closed
<1>6. \A b \in Balloons : \A r : Given(b, r)' <=> Given(b, r)
  BY <1>1, <1>3 DEF Given
<1> QED BY <1>5, <1>6

\* The inductive invariant of OneTakePerRequest.
TakeInv == BaseInv /\ TakenOnce

\* It is inductive.
LEMMA TakeStep == ASSUME Prompt PROVE TakeInv /\ [Next]_vars => TakeInv'
<1> SUFFICES ASSUME TakeInv, [Next]_vars PROVE TakeInv'
  OBVIOUS
<1>1. BaseInv' /\ Types1 /\ Apart /\ TakenOnce
  BY BaseStep DEF TakeInv, BaseInv
<1>2. CASE Next
  BY <1>1, <1>2, TakenStep DEF TakeInv
<1>3. CASE UNCHANGED vars
  <2>1. taken' = taken
    BY <1>3 DEF vars
  <2> QED BY <1>1, <1>3, <2>1, StillClosed DEF TakeInv, TakenOnce
<1> QED BY <1>2, <1>3

\* However often a post repeats a 0x7A frame, and whatever fails, request_processing pops
\* one passport at most for the balloon on it, if frames are handled before the cached
\* result expires.
THEOREM TakesOnce == ASSUME Prompt PROVE Spec => []OneTakePerRequest
<1>1. Init => TakeInv
  BY BaseInit DEF TakeInv, TakenOnce, Init
<1>2. TakeInv /\ [Next]_vars => TakeInv'
  BY TakeStep
<1>3. TakeInv => OneTakePerRequest
  BY DEF TakeInv, TakenOnce, OneTakePerRequest
<1> QED BY <1>1, <1>2, <1>3, PTL DEF Spec

\* The inductive invariant of AnswerMatchesRecord.
GivenInv == BaseInv /\ GivenOnce

\* All the answers a post gets for a balloon, fresh or from recent_requests, carry the
\* weight of one passport, the one that put_carousel_data records for the balloon, and no
\* other balloon gets it; under the same hypothesis.
THEOREM AnswersMatchRecords == ASSUME Prompt PROVE Spec => []AnswerMatchesRecord
<1>1. Init => GivenInv
  BY BaseInit DEF GivenInv, GivenOnce, Given, Init
<1>2. GivenInv /\ [Next]_vars => GivenInv'
  <2> SUFFICES ASSUME GivenInv, [Next]_vars PROVE GivenInv'
    OBVIOUS
  <2>1. BaseInv' /\ Types1 /\ Apart /\ GivenOnce
    BY BaseStep DEF GivenInv, BaseInv
  <2>2. CASE Next
    BY <2>1, <2>2, GivenStep DEF GivenInv
  <2>3. CASE UNCHANGED vars
    <3>1. cache' = cache /\ queue' = queue /\ pushed' = pushed
      BY <2>3 DEF vars
    <3> QED BY <2>1, <2>3, <3>1, StillClosed DEF GivenInv, GivenOnce
  <2> QED BY <2>2, <2>3
<1>3. GivenInv => AnswerMatchesRecord
  <2> SUFFICES ASSUME GivenInv PROVE AnswerMatchesRecord
    OBVIOUS
  <2>1. /\ told \in [Balloons -> SUBSET (1..pushed)] /\ pushed \in 0..MaxBalloons
        /\ records \in Seq(Rows) /\ MaxBalloons \in Nat
    BY ListenerAssumption DEF GivenInv, BaseInv, Types1, StoreOK, QueueOK
  <2>2. \A b \in Balloons : \A r \in told[b] : r \in 1..MaxBalloons /\ Given(b, r)
    BY <2>1 DEF Given
  <2>3. \A i \in DOMAIN records : /\ records[i].balloon \in Balloons /\ records[i].passport \in 0..MaxBalloons
                                  /\ Given(records[i].balloon, records[i].passport)
    <3>1. \A i \in DOMAIN records : records[i] \in Rows
      BY <2>1
    <3>2. \A i \in DOMAIN records : records[i].balloon \in Balloons /\ records[i].passport \in 0..MaxBalloons
      BY <2>1, <3>1 DEF Rows
    <3> QED BY <3>2 DEF Given
  <2>4. \A b, c \in Balloons, r, s \in 0..MaxBalloons :
          Given(b, r) /\ Given(c, s) => (b = c => r = s) /\ (r = s /\ r # 0 => b = c)
    BY DEF GivenInv, GivenOnce
  <2>5. \A b, c \in Balloons : \A r \in told[b], s \in told[c] : (b = c) <=> (r = s)
    BY <2>1, <2>2, <2>4
  <2>6. \A i \in DOMAIN records : told[records[i].balloon] \subseteq {records[i].passport}
    BY <2>1, <2>2, <2>3, <2>4
  <2> QED BY <2>5, <2>6 DEF AnswerMatchesRecord
<1> QED BY <1>1, <1>2, <1>3, PTL DEF Spec

(***************************************************************************)
(* The order of requests and passports while nothing goes wrong.           *)
(***************************************************************************)

\* The steps after which nothing has gone wrong yet.
LEMMA CleanKinds ==
    ASSUME Types1, Next, ~mishap'
    PROVE  /\ ~mishap
           /\ \/ Push \/ Connect \/ Read \/ ProcessFull \/ Answer \/ PersistFill \/ PersistFull
              \/ /\ Duplicate /\ wire # <<>> /\ wire' = Tail(wire) /\ UNCHANGED listenerVars
                 /\ \E e \in cache : IsEntryOf(e, Head(wire))
              \/ ProcessFill /\ Pop
              \/ \E e \in cache : Expire(e)
              \/ \E p \in Posts : Sending(p) /\ pc # "down"
              \/ \E p \in Posts : Quiet(p) \/ Leave(p)
<1>1. CASE Push \/ Miss \/ QueueExpires
  BY <1>1 DEF Push, Miss, QueueExpires
<1>2. CASE Connect \/ Drop \/ BadCrc \/ Read
  BY <1>2 DEF Connect, Drop, BadCrc, Read, GoDown
<1>3. CASE Duplicate
  BY <1>3 DEF Duplicate, GoDown
<1>4. CASE ProcessFill \/ ProcessFull \/ ProcessFails
  BY <1>4 DEF ProcessFill, ProcessFull, ProcessFails, GoDown
<1>5. CASE Answer \/ AnswerFails \/ PersistFill \/ PersistFull
  BY <1>5 DEF Answer, AnswerFails, PersistFill, PersistFull, GoDown
<1>6. ASSUME NEW e \in cache, Expire(e) PROVE ~mishap
  BY <1>6 DEF Expire
<1>7. ASSUME NEW p \in Posts, Sending(p) PROVE ~mishap /\ pc # "down"
  BY <1>7, Sent
<1>8. ASSUME NEW p \in Posts, Quiet(p) \/ Leave(p) PROVE ~mishap
  BY <1>8 DEF Quiet, Leave
<1> QED BY <1>1, <1>2, <1>3, <1>4, <1>5, <1>6, <1>7, <1>8 DEF Next, Listener, Post, Sending

\* A push keeps the queue consecutive.
LEMMA TakesStep ==
    ASSUME Types1, NEW k \in 0..MaxBalloons, TakesTo(k), taken' = taken,
           UNCHANGED <<queue, pushed>> \/ Push
    PROVE  TakesTo(k)'
<1>1. queue \in Seq(1..pushed) /\ pushed \in 0..MaxBalloons /\ MaxBalloons \in Nat
  BY ListenerAssumption DEF Types1, QueueOK
<1>2. CASE UNCHANGED <<queue, pushed>>
  BY <1>2 DEF TakesTo
<1>3. CASE Push
  <2>1. queue' = Append(queue, pushed + 1) /\ pushed' = pushed + 1
    BY <1>3 DEF Push
  <2>2. Len(queue') = pushed' - k /\ \A i \in DOMAIN queue' : queue'[i] = k + i
    BY <1>1, <2>1 DEF TakesTo
  <2> QED BY <2>2 DEF TakesTo
<1> QED BY <1>2, <1>3

\* The request in hand takes the passport of its own balloon.
LEMMA TakesNext ==
    ASSUME Types1, NEW k \in 0..MaxBalloons, k <= pushed, TakesTo(k), FramesTo(k), ProcessFill, Pop
    PROVE  /\ k + 1 \in 0..MaxBalloons /\ k + 1 <= pushed /\ TakesTo(k + 1)'
           /\ frame \in Frames /\ frame.balloon = k + 1 /\ passport' = k + 1
<1>1. /\ queue \in Seq(1..pushed) /\ pushed \in 0..MaxBalloons /\ MaxBalloons \in Nat
      /\ taken \in [Balloons -> Nat]
  BY ListenerAssumption DEF Types1, QueueOK, StoreOK
<1>2. /\ queue # <<>> /\ queue' = Tail(queue) /\ passport' = Head(queue) /\ pushed' = pushed
      /\ taken' = [taken EXCEPT ![frame.balloon] = taken[frame.balloon] + 1]
      /\ pc = "process" /\ frame.type = "fill"
  BY DEF ProcessFill, Pop, Taken
<1>3. frame \in Frames /\ frame.balloon \in Balloons
  BY <1>2, InHandAt DEF Types1, WireOK, Handling
<1>4. frame.balloon = k + 1
  BY <1>2, <1>3 DEF FramesTo, InHand
<1>5. passport' = k + 1 /\ k + 1 <= pushed
  BY <1>1, <1>2 DEF TakesTo
<1>6. \A b \in Balloons : taken'[b] = IF b <= k + 1 THEN 1 ELSE 0
  BY <1>1, <1>2, <1>3, <1>4 DEF TakesTo, Balloons
<1>7. Len(queue') = pushed' - (k + 1) /\ \A i \in DOMAIN queue' : queue'[i] = k + 1 + i
  <2>1. Len(queue') = Len(queue) - 1 /\ \A i \in DOMAIN queue' : i + 1 \in DOMAIN queue /\ queue'[i] = queue[i + 1]
    BY <1>1, <1>2
  <2>2. \A i \in DOMAIN queue' : i \in Nat
    BY <1>1, <1>2
  <2> QED BY <1>1, <1>2, <2>1, <2>2 DEF TakesTo
<1> QED BY <1>1, <1>3, <1>4, <1>5, <1>6, <1>7 DEF TakesTo

\* Requests on the wire and in hand when its head leaves it.
LEMMA HeadLeaves ==
    ASSUME Types1, NEW k \in 0..MaxBalloons, FramesTo(k), wire # <<>>, wire' = Tail(wire),
           arrived' = arrived,
           \A b \in Balloons : k < b /\ (InHand(b) \/ Asking(1, b)) => InHand(b)',
           \A b \in Balloons : InHand(b)' => b = k + 1
    PROVE  FramesTo(k)'
<1>1. wire \in Seq(Frames) /\ arrived \in Nat /\ MaxBalloons \in Nat
  BY ListenerAssumption DEF Types1, WireOK, PostsOK
<1>2. /\ Len(wire) \in Nat \ {0} /\ Len(wire') = Len(wire) - 1
      /\ DOMAIN wire' = 1..Len(wire') /\ DOMAIN wire = 1..Len(wire)
      /\ \A i \in 1..Len(wire') : wire'[i] = wire[i + 1]
  BY <1>1
<1>3. \A i \in 1..Len(wire'), b \in Balloons : Asking(i, b)' <=> Asking(i + 1, b)
  BY <1>2 DEF Asking
<1>4. ASSUME NEW b \in Balloons, k < b, NEW n \in 0..Len(wire'), Pending(b, n + 1) PROVE Pending(b, n)'
  <2>1. CASE InHand(b) \/ Asking(1, b)
    BY <1>4, <2>1 DEF Pending
  <2>2. ASSUME NEW j \in 1..(n + 1), Asking(j, b), j # 1 PROVE \E i \in 1..n : Asking(i, b)'
    <3>1. j - 1 \in 1..n /\ j - 1 \in 1..Len(wire') /\ j - 1 + 1 = j
      BY <1>2, <2>2
    <3>2. Asking(j - 1, b)'
      BY <1>3, <2>2, <3>1
    <3> QED BY <3>1, <3>2
  <2> QED BY <1>4, <2>1, <2>2 DEF Pending
<1>5. ASSUME NEW b \in Balloons, k < b, b <= arrived PROVE Pending(b, Len(wire))
  BY <1>5 DEF FramesTo
<1>6. ASSUME NEW b \in Balloons, k < b, b <= arrived' PROVE Pending(b, Len(wire))'
  <2>1. Pending(b, Len(wire))
    BY <1>6 DEF FramesTo
  <2>2. PICK n \in 0..Len(wire') : n = Len(wire') /\ n + 1 = Len(wire)
    <3>1. Len(wire') \in 0..Len(wire') /\ Len(wire') + 1 = Len(wire)
      BY <1>2
    <3> QED BY <3>1
  <2>3. Pending(b, n)'
    BY <1>4, <1>6, <2>1, <2>2
  <2> QED BY <2>2, <2>3 DEF Pending
<1>7. ASSUME NEW i \in DOMAIN wire', NEW b \in Balloons, NEW c \in Balloons, k < b, b < c, Asking(i, c)'
      PROVE  Pending(b, i - 1)'
  <2>1. i + 1 \in DOMAIN wire /\ Asking(i + 1, c)
    BY <1>2, <1>3, <1>7
  <2>2. PICK n \in 0..Len(wire') : n = i - 1 /\ n + 1 = i + 1 - 1
    BY <1>2, <1>7
  <2>3. Pending(b, n + 1)
    BY <1>7, <2>1, <2>2 DEF FramesTo
  <2>4. Pending(b, n)'
    BY <1>4, <1>7, <2>3
  <2> QED BY <2>2, <2>4 DEF Pending
<1> QED BY <1>6, <1>7 DEF FramesTo

\* Requests on the wire and in hand when a post sends one more.
LEMMA RequestJoins ==
    ASSUME Types1, Apart, NEW k \in 0..MaxBalloons, FramesTo(k), NEW p \in Posts, Sending(p), pc # "down"
    PROVE  FramesTo(k)'
<1> DEFINE f == FrameOf(p)
<1>1. /\ wire \in Seq(Frames) /\ arrived \in Nat /\ MaxBalloons \in Nat
      /\ balloon \in [Posts -> 0..arrived]
  BY ListenerAssumption DEF Types1, WireOK, PostsOK
<1>2. wire' = Append(wire, f) /\ pc' = pc /\ frame' = frame
  BY Sent DEF listenerVars
<1>3. \A b : InHand(b)' <=> InHand(b)
  BY <1>2 DEF InHand
<1>4. /\ f.balloon = balloon'[p]
      /\ IF Arrive(p) THEN f.type = "fill" /\ f.balloon = arrived + 1 /\ arrived' = arrived + 1
         ELSE arrived' = arrived /\ f.balloon \in 0..arrived
  BY <1>1 DEF FrameOf, Sending, Arrive, Weigh, Repeat, TypeOf, Types1, PostsOK
<1> HIDE DEF f
<1>5. PICK n \in Nat : n = Len(wire)
  BY <1>1
<1>6. /\ DOMAIN wire = 1..n /\ DOMAIN wire' = 1..(n + 1) /\ Len(wire') = n + 1
      /\ \A i \in 1..n : wire'[i] = wire[i]
      /\ wire'[n + 1] = f
  BY <1>1, <1>2, <1>5
<1>7. /\ \A i \in 1..n, b \in Balloons : Asking(i, b)' <=> Asking(i, b)
      /\ \A b \in Balloons : Asking(n + 1, b)' <=> (f.type = "fill" /\ f.balloon = b)
  BY <1>6 DEF Asking
<1>8. ASSUME NEW b \in Balloons, NEW m \in 0..n, Pending(b, m) PROVE Pending(b, m)'
  BY <1>3, <1>7, <1>8 DEF Pending
<1>9. ASSUME NEW b \in Balloons, k < b, b <= arrived
      PROVE  Pending(b, n)
  BY <1>5, <1>9 DEF FramesTo
<1>10. ASSUME NEW b \in Balloons, k < b, b <= arrived'
       PROVE  Pending(b, n + 1)'
  <2>1. CASE b <= arrived
    <3>1. Pending(b, n)'
      BY <1>8, <1>9, <1>10, <2>1
    <3> QED BY <3>1 DEF Pending
  <2>2. CASE ~(b <= arrived)
    <3>1. Asking(n + 1, b)' /\ n + 1 \in 1..(n + 1)
      BY <1>1, <1>4, <1>7, <1>10, <2>2 DEF Balloons
    <3> QED BY <3>1 DEF Pending
  <2> QED BY <2>1, <2>2
<1>11. ASSUME NEW i \in 1..(n + 1), NEW b \in Balloons, NEW c \in Balloons, k < b, b < c, Asking(i, c)'
       PROVE  Pending(b, i - 1)'
  <2>1. CASE i \in 1..n
    <3>1. Asking(i, c) /\ i \in DOMAIN wire
      BY <1>6, <1>7, <1>11, <2>1
    <3>2. Pending(b, i - 1) /\ i - 1 \in 0..n
      BY <1>11, <3>1, <2>1 DEF FramesTo
    <3> QED BY <1>8, <3>2
  <2>2. CASE i = n + 1
    <3>1. b <= arrived
      BY <1>1, <1>4, <1>7, <1>11, <2>2 DEF Balloons
    <3>2. Pending(b, n)' /\ n = i - 1
      BY <1>8, <1>9, <1>11, <2>2, <3>1
    <3> QED BY <3>2
  <2> QED BY <2>1, <2>2
<1>12. \A b \in Balloons : InHand(b)' => b = k + 1
  BY <1>3 DEF FramesTo
<1>13. \A b \in Balloons : k < b /\ b <= arrived' => Pending(b, Len(wire))'
  BY <1>6, <1>10 DEF Pending
<1> QED BY <1>6, <1>11, <1>12, <1>13 DEF FramesTo

\* Steps that touch neither the wire nor the frame in hand.
LEMMA FramesStay ==
    ASSUME NEW k, FramesTo(k), UNCHANGED <<wire, arrived>>, \A b \in Balloons : InHand(b)' <=> InHand(b)
    PROVE  FramesTo(k)'
BY DEF FramesTo, Pending, Asking

\* The frame read is the request of the next balloon that has not got its passport.
LEMMA ReadNext ==
    ASSUME Types1, Apart, TakenOnce, NEW k \in 0..MaxBalloons, TakesTo(k), FramesTo(k), Read
    PROVE  FramesTo(k)'
<1>1. /\ wire \in Seq(Frames) /\ MaxBalloons \in Nat /\ pc = "read" /\ wire # <<>>
      /\ wire' = Tail(wire) /\ frame' = Head(wire) /\ pc' = "process" /\ ~Known(Head(wire))
      /\ arrived' = arrived
  BY ListenerAssumption DEF Types1, WireOK, Read, postVars
<1>2. 1 \in DOMAIN wire /\ Head(wire) = wire[1] /\ wire[1] \in Frames
  BY <1>1
<1>3. \A b \in Balloons : ~InHand(b) /\ (InHand(b)' <=> Asking(1, b))
  BY <1>1, <1>2 DEF InHand, Asking
<1>4. ASSUME NEW c \in Balloons, Asking(1, c) PROVE c = k + 1
  <2>1. wire[1].type = "fill" /\ wire[1].balloon = c /\ wire[1].post \in Posts
    BY <1>2, <1>4 DEF Asking, Frames
  <2> DEFINE p == wire[1].post
  <2>2. c \in At(p)
    BY <1>2, <2>1 DEF At, Live
  <2>3. Asks(p) /\ ~Entry(p)
    BY <1>1, <1>2, <2>1 DEF Asks, OnWire, Known, IsEntryOf, Entry
  <2>4. ~Closed(c)
    BY <2>1, <2>2, <2>3 DEF Closed
  <2>5. k < c
    BY <2>4 DEF TakenOnce, TakesTo, Balloons
  <2>6. CASE k + 1 < c
    <3>1. k + 1 \in Balloons /\ k < k + 1
      BY <1>1, <2>6 DEF Balloons
    <3>2. Pending(k + 1, 1 - 1)
      BY <1>2, <1>4, <2>6, <3>1 DEF FramesTo
    <3> QED BY <1>3, <3>1, <3>2 DEF Pending
  <2> QED BY <2>5, <2>6 DEF Balloons
<1> QED BY <1>1, <1>3, <1>4, HeadLeaves

\* A repeated request is one of a balloon that has its passport.
LEMMA RepeatLeaves ==
    ASSUME Types1, NEW k \in 0..MaxBalloons, FramesTo(k), ResultsTo(k),
           Duplicate, wire # <<>>, wire' = Tail(wire), UNCHANGED listenerVars,
           \E e \in cache : IsEntryOf(e, Head(wire))
    PROVE  FramesTo(k)'
<1>1. wire \in Seq(Frames) /\ MaxBalloons \in Nat /\ pc = "read" /\ arrived' = arrived /\ pc' = pc
  BY ListenerAssumption DEF Types1, WireOK, Duplicate, listenerVars
<1>2. 1 \in DOMAIN wire /\ Head(wire) = wire[1] /\ wire[1] \in Frames
  BY <1>1
<1>3. \A b \in Balloons : ~InHand(b) /\ ~InHand(b)'
  BY <1>1 DEF InHand
<1>4. ASSUME NEW b \in Balloons, Asking(1, b) PROVE ~(k < b)
  <2>1. PICK e \in cache : e.type = "fill" /\ e.post = wire[1].post
    BY <1>2, <1>4 DEF IsEntryOf, Asking
  <2>2. b \in At(e.post)
    BY <1>2, <1>4, <2>1 DEF Asking, At, Live
  <2>3. b <= k
    BY <2>1, <2>2 DEF ResultsTo
  <2>4. b \in Int /\ k \in Int
    BY <1>1, <1>4 DEF Balloons
  <2> QED BY <2>3, <2>4
<1> QED BY <1>1, <1>3, <1>4, HeadLeaves

\* What was cached and recorded when no new request is served.
LEMMA ResultsStep ==
    ASSUME Types1, Next, NEW k \in 0..MaxBalloons, ResultsTo(k), ~ProcessFill
    PROVE  ResultsTo(k)'
<1>1. ASSUME pc' \in {"answer", "persist"}, frame'.type = "fill" PROVE passport' = frame'.balloon
  BY <1>1, HandKinds DEF ResultsTo
<1>2. ASSUME NEW e \in cache', e.type = "fill", NEW b \in At(e.post)' PROVE b <= k
  <2>1. e \in cache
    BY <1>2, CacheKinds
  <2>2. e.post \in Posts /\ ~Arrive(e.post)
    BY <2>1 DEF Types1, StoreOK, Results, Arrive, Settled
  <2>3. b \in At(e.post)
    BY <1>2, <2>2, AtKinds
  <2> QED BY <1>2, <2>1, <2>3 DEF ResultsTo
<1>3. ASSUME NEW i \in DOMAIN records' PROVE records'[i].passport = records'[i].balloon
  <2>1. CASE records' = records
    BY <1>3, <2>1 DEF ResultsTo
  <2>2. CASE PersistFill /\ records' = Append(records, NewRow)
    <3>1. NewRow.passport = NewRow.balloon
      BY <2>2 DEF NewRow, PersistFill, ResultsTo
    <3>2. (i \in DOMAIN records /\ records'[i] = records[i]) \/ records'[i] = NewRow
      BY <1>3, <2>2, RowAdded
    <3> QED BY <3>1, <3>2 DEF ResultsTo
  <2>3. CASE PersistFull /\ LastOf(frame.post) \in DOMAIN records
             /\ records' = [records EXCEPT ![LastOf(frame.post)].full = frame.balloon]
    BY <1>3, <2>3, FullSet DEF ResultsTo
  <2> QED BY <2>1, <2>2, <2>3, RowKinds
<1> QED BY <1>1, <1>2, <1>3 DEF ResultsTo

\* The request served adds its own passport.
LEMMA ResultsNext ==
    ASSUME Types1, Apart, Next, NEW k \in 0..MaxBalloons, ResultsTo(k), ProcessFill,
           frame \in Frames, frame.balloon = k + 1, passport' = k + 1
    PROVE  ResultsTo(k + 1)'
<1>1. MaxBalloons \in Nat /\ frame' = frame /\ records' = records
  BY ListenerAssumption DEF ProcessFill
<1>2. frame.post \in Posts /\ frame.balloon \in At(frame.post)
  BY InHandAt
<1>3. \A p \in Posts : At(p)' \subseteq At(p)
  BY SilentLive DEF Silent, Listener
<1>4. ASSUME NEW e \in cache', e.type = "fill", NEW b \in At(e.post)' PROVE b <= k + 1
  <2>1. CASE e \in cache
    <3>1. e.post \in Posts
      BY <2>1 DEF Types1, StoreOK, Results
    <3>2. b \in At(e.post)
      BY <1>3, <1>4, <3>1
    <3>3. b <= k /\ b \in Balloons
      BY <1>4, <2>1, <3>2 DEF ResultsTo, At
    <3> QED BY <1>1, <3>3 DEF Balloons
  <2>2. CASE e \notin cache
    <3>1. e.post = frame.post
      BY <2>2, CacheKinds
    <3>2. b \in At(frame.post)
      BY <1>2, <1>3, <1>4, <3>1
    <3>3. b = k + 1
      BY <1>2, <3>2 DEF Apart
    <3> QED BY <3>3
  <2> QED BY <2>1, <2>2
<1> QED BY <1>1, <1>4 DEF ResultsTo

\* Requests and passports stay in step.
LEMMA OrderlyStep ==
    ASSUME Prompt, Types1, Apart, TakenOnce, Orderly, Next
    PROVE  Orderly'
<1> SUFFICES ASSUME ~mishap' PROVE Orderly'
  BY DEF Orderly
<1>1. ~mishap
  BY CleanKinds
<1>2. PICK k \in 0..MaxBalloons : k <= pushed /\ TakesTo(k) /\ FramesTo(k) /\ ResultsTo(k)
  BY <1>1 DEF Orderly
<1>3. MaxBalloons \in Nat /\ pushed \in 0..MaxBalloons /\ pushed' \in {pushed, pushed + 1} /\ k <= pushed'
  BY <1>2, QueueKinds, ListenerAssumption
<1>4. CASE ProcessFill /\ Pop
  <2>1. /\ k + 1 \in 0..MaxBalloons /\ k + 1 <= pushed /\ TakesTo(k + 1)'
        /\ frame \in Frames /\ frame.balloon = k + 1 /\ passport' = k + 1
    BY <1>2, <1>4, TakesNext
  <2>2. ResultsTo(k + 1)'
    BY <1>2, <1>4, <2>1, ResultsNext
  <2>3. wire' = wire /\ arrived' = arrived /\ pc = "process" /\ pc' # "process" /\ pushed' = pushed
    BY <1>4 DEF ProcessFill, postVars
  <2>4. FramesTo(k + 1)'
    <3>1. \A b \in Balloons : ~InHand(b)' /\ (InHand(b) => b = k + 1)
      BY <2>1, <2>3 DEF InHand
    <3>2. \A b \in Balloons : k + 1 < b => k < b
      BY <1>3 DEF Balloons
    <3>3. \A b \in Balloons : \A n : k + 1 < b /\ Pending(b, n) => Pending(b, n)'
      BY <1>3, <2>3, <3>1 DEF Pending, Asking, Balloons
    <3>4. \A b \in Balloons : k + 1 < b /\ b <= arrived => Pending(b, Len(wire))'
      BY <1>2, <2>3, <3>1, <3>2, <3>3 DEF FramesTo, Pending, Asking, Balloons
    <3>5. ASSUME NEW i \in DOMAIN wire', NEW b \in Balloons, NEW c \in Balloons, k + 1 < b, b < c, Asking(i, c)'
          PROVE  Pending(b, i - 1)'
      <4>1. Pending(b, i - 1)
        BY <1>2, <2>3, <3>2, <3>5 DEF FramesTo, Asking
      <4>2. PICK n : n = i - 1
        OBVIOUS
      <4> QED BY <3>3, <3>5, <4>1, <4>2 DEF Pending
    <3> QED BY <2>3, <3>1, <3>4, <3>5 DEF FramesTo
  <2> QED BY <2>1, <2>2, <2>3, <2>4 DEF Orderly
<1>5. CASE ~ProcessFill
  <2>1. ResultsTo(k)'
    BY <1>2, <1>5, ResultsStep
  <2>2. TakesTo(k)'
    <3>1. taken' = taken /\ (Push \/ UNCHANGED <<queue, pushed>>)
      BY <1>5, CleanKinds DEF Push, Connect, Read, ProcessFull, Answer, PersistFill, PersistFull,
         Duplicate, Expire, Sending, Arrive, Weigh, Repeat, Quiet, Leave
    <3> QED BY <1>2, <3>1, TakesStep
  <2>3. FramesTo(k)'
    <3>1. CASE Read
      BY <1>2, <3>1, ReadNext
    <3>2. CASE /\ Duplicate /\ wire # <<>> /\ wire' = Tail(wire) /\ UNCHANGED listenerVars
               /\ \E e \in cache : IsEntryOf(e, Head(wire))
      BY <1>2, <3>2, RepeatLeaves
    <3>3. ASSUME NEW p \in Posts, Sending(p), pc # "down" PROVE FramesTo(k)'
      BY <1>2, <3>3, RequestJoins
    <3>4. CASE Push \/ Connect \/ ProcessFull \/ Answer \/ PersistFill \/ PersistFull
      <4>1. UNCHANGED <<wire, arrived>> /\ \A b \in Balloons : InHand(b)' <=> InHand(b)
        BY <3>4 DEF Push, Connect, ProcessFull, Answer, PersistFill, PersistFull, BackToRead,
           postVars, listenerVars, InHand
      <4> QED BY <1>2, <4>1, FramesStay
    <3>5. ASSUME NEW e \in cache, Expire(e) PROVE FramesTo(k)'
      BY <1>2, <3>5, FramesStay DEF Expire, postVars, listenerVars, InHand
    <3>6. ASSUME NEW p \in Posts, Quiet(p) \/ Leave(p) PROVE FramesTo(k)'
      BY <1>2, <3>6, FramesStay DEF Quiet, Leave, listenerVars, InHand
    <3> QED BY <1>5, <3>1, <3>2, <3>3, <3>4, <3>5, <3>6, CleanKinds
  <2> QED BY <1>3, <2>1, <2>2, <2>3 DEF Orderly
<1> QED BY <1>4, <1>5 DEF ProcessFill

\* The inductive invariant of OwnPassport.
OrderInv == TakeInv /\ Orderly

\* While every tag was read, every frame arrived and every call succeeded, taking the
\* oldest passport for each request gives every record of the carousel the passport of
\* its own balloon, however the posts interleave and repeat their requests.
THEOREM OwnPassports == ASSUME Prompt PROVE Spec => []OwnPassport
<1>1. Init => OrderInv
  <2> SUFFICES ASSUME Init PROVE OrderInv
    OBVIOUS
  <2>1. MaxBalloons \in Nat /\ pushed = 0 /\ 0 \in 0..MaxBalloons
    BY ListenerAssumption DEF Init
  <2>2. TakesTo(0) /\ FramesTo(0) /\ ResultsTo(0)
    BY <2>1 DEF Init, TakesTo, FramesTo, ResultsTo, Balloons, InHand
  <2>3. BaseInv /\ TakenOnce
    BY BaseInit DEF TakenOnce, Init
  <2> QED BY <2>1, <2>2, <2>3 DEF OrderInv, TakeInv, Orderly
<1>2. OrderInv /\ [Next]_vars => OrderInv'
  <2> SUFFICES ASSUME OrderInv, [Next]_vars PROVE OrderInv'
    OBVIOUS
  <2>1. TakeInv' /\ Types1 /\ Apart /\ TakenOnce /\ Orderly
    BY TakeStep DEF OrderInv, TakeInv, BaseInv
  <2>2. CASE Next
    BY <2>1, <2>2, OrderlyStep DEF OrderInv
  <2>3. CASE UNCHANGED vars
    <3>1. UNCHANGED <<pushed, queue, arrived, balloon, wire, pc, frame, passport, cache, records, taken, mishap>>
      BY <2>3 DEF vars, postVars, listenerVars
    <3>2. Live' = Live
      BY <3>1 DEF Live
    <3>3. \A p : At(p)' = At(p)
      BY <3>1, <3>2 DEF At
    <3>4. \A k : (TakesTo(k)' <=> TakesTo(k)) /\ (FramesTo(k)' <=> FramesTo(k))
      BY <3>1 DEF TakesTo, FramesTo, Pending, InHand, Asking
    <3>5. \A k : ResultsTo(k)' <=> ResultsTo(k)
      BY <3>1, <3>3 DEF ResultsTo
    <3> QED BY <2>1, <3>1, <3>4, <3>5 DEF OrderInv, Orderly
  <2> QED BY <2>2, <2>3
<1>3. OrderInv => OwnPassport
  BY DEF OrderInv, Orderly, ResultsTo, OwnPassport
<1> QED BY <1>1, <1>2, <1>3, PTL DEF Spec
=============================================================================
