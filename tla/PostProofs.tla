----------------------------- MODULE PostProofs -----------------------------
(***************************************************************************)
(* The posting of a batch's statuses, for any number of balloons, threads  *)
(* and retries.                                                            *)
(***************************************************************************)
EXTENDS PostStatuses, TLAPS

USE PostAssumption DEF Jobs

(***************************************************************************)
(* The inductive invariant.  ResultIsTrue says nothing of a call that has  *)
(* not returned; what makes it true is that a collected job is settled,    *)
(* that nothing is cancelled before an error, and that an error has a      *)
(* failed job behind it.                                                   *)
(***************************************************************************)

\* Miriada records a status at most once per attempt.
Attempts(j) ==
    /\ received[j] <= attempt[j] + IF job[j] \in {"ok", "failed"} THEN 1 ELSE 0
    /\ job[j] \in {"new", "queued", "cancelled", "dropped"}
          => received[j] = 0 /\ attempt[j] = 0
    /\ job[j] = "ok" => received[j] > 0

CallerInv ==
    /\ phase \in {"submit", "cancel"} => cursor \in Jobs
    /\ phase = "submit" => ~error /\ \A i \in Jobs : i >= cursor => job[i] = "new"
    /\ error => \E j \in Jobs : job[j] = "failed"
    /\ ~error => \A j \in Jobs : job[j] \notin {"cancelled", "dropped"}
    /\ ~error => \A j \in collected : job[j] # "failed"
    /\ phase = "cancel" => error
    /\ \A j \in collected : job[j] \in Settled
    /\ phase = "done" => collected = Jobs

PostTypes ==
    /\ job \in [Jobs -> JobStates]
    /\ attempt \in [Jobs -> 0..Retries]
    /\ received \in [Jobs -> Nat]
    /\ phase \in {"submit", "collect", "cancel", "done"}
    /\ cursor \in 1..(NJobs + 1)
    /\ collected \subseteq Jobs
    /\ error \in BOOLEAN

PostInv == PostTypes /\ (\A j \in Jobs : Attempts(j)) /\ CallerInv

LEMMA PostInit == Init => PostInv
<1> SUFFICES ASSUME Init PROVE PostInv
  OBVIOUS
<1>1. PostTypes
  <2>1. 0 \in 0..Retries /\ 1 \in 1..(NJobs + 1) /\ 0 \in Nat
    OBVIOUS
  <2>2. error \in BOOLEAN
    BY DEF Init
  <2> QED BY <2>1, <2>2 DEF Init, PostTypes, JobStates
<1>2. \A j \in Jobs : Attempts(j)
  BY DEF Init, Attempts
<1>3. CallerInv
  <2>1. 1 \in Jobs /\ \A j \in Jobs : job[j] = "new"
    BY DEF Init
  <2> QED BY <2>1 DEF Init, CallerInv
<1> QED BY <1>1, <1>2, <1>3 DEF PostInv

\* A thread of the pool.
LEMMA PoolStep ==
  ASSUME PostInv, NEW j \in Jobs, Pool(j)
  PROVE  PostInv'
<1> USE DEF PostInv, callerVars
<1>1. PostTypes'
  <2> USE DEF PostTypes, JobStates
  <2>1. CASE Take(j) \/ Wake(j)
    BY <2>1 DEF Take, Wake
  <2>2. CASE Accepted(j)
    BY <2>2 DEF Accepted
  <2>3. CASE AttemptFails(j)
    <3>1. received' \in [Jobs -> Nat]
      <4>1. CASE received' = received
        BY <4>1
      <4>2. CASE received' = [received EXCEPT ![j] = @ + 1]
        BY <4>2
      <4> QED BY <2>3, <4>1, <4>2 DEF AttemptFails
    <3>2. CASE attempt[j] < Retries
      <4>1. attempt[j] + 1 \in 0..Retries
        BY <3>2
      <4> QED BY <2>3, <3>1, <3>2, <4>1 DEF AttemptFails
    <3>3. CASE ~(attempt[j] < Retries)
      BY <2>3, <3>1, <3>3 DEF AttemptFails
    <3> QED BY <3>2, <3>3
  <2> QED BY <2>1, <2>2, <2>3 DEF Pool
<1>2. ASSUME NEW i \in Jobs  PROVE Attempts(i)'
  <2>1. CASE i # j
    BY <2>1 DEF Pool, Take, Accepted, AttemptFails, Wake, PostTypes, Attempts
  <2>2. CASE i = j /\ (Take(j) \/ Wake(j))
    BY <2>2 DEF Take, Wake, IsNext, PostTypes, Attempts
  <2>3. CASE i = j /\ Accepted(j)
    <3>1. Attempts(j) /\ job[j] = "sending" /\ received[j] \in Nat /\ attempt[j] \in 0..Retries
      BY <2>3 DEF Accepted, PostTypes
    <3>2. job'[j] = "ok" /\ received'[j] = received[j] + 1 /\ attempt'[j] = attempt[j]
      BY <2>3 DEF Accepted, PostTypes
    <3> QED BY <2>3, <3>1, <3>2 DEF Attempts
  <2>4. CASE i = j /\ AttemptFails(j)
    <3>1. Attempts(j) /\ job[j] = "sending" /\ received[j] \in Nat /\ attempt[j] \in 0..Retries
      BY <2>4 DEF AttemptFails, PostTypes
    <3>2. received'[j] \in {received[j], received[j] + 1}
      <4>1. CASE received' = received
        BY <4>1
      <4>2. CASE received' = [received EXCEPT ![j] = @ + 1]
        BY <4>2 DEF PostTypes
      <4> QED BY <2>4, <4>1, <4>2 DEF AttemptFails
    <3>3. CASE attempt[j] < Retries
      <4>1. job'[j] = "sleeping" /\ attempt'[j] = attempt[j] + 1
        BY <2>4, <3>3 DEF AttemptFails, PostTypes
      <4> QED BY <2>4, <3>1, <3>2, <4>1 DEF Attempts
    <3>4. CASE ~(attempt[j] < Retries)
      <4>1. job'[j] = "failed" /\ attempt'[j] = attempt[j]
        BY <2>4, <3>4 DEF AttemptFails, PostTypes
      <4> QED BY <2>4, <3>1, <3>2, <4>1 DEF Attempts
    <3> QED BY <3>3, <3>4
  <2> QED BY <2>1, <2>2, <2>3, <2>4 DEF Pool
<1>3. CallerInv'
  <2>1. /\ job[j] \in {"queued", "cancelled", "sending", "sleeping"}
        /\ job[j] # "cancelled" => job'[j] # "dropped"
        /\ job'[j] # "cancelled"
        /\ \A i \in Jobs \ {j} : job'[i] = job[i]
        /\ UNCHANGED callerVars
    <3> USE DEF PostTypes
    <3>1. CASE Take(j)
      BY <3>1 DEF Take, IsNext
    <3>2. CASE Accepted(j) \/ Wake(j)
      BY <3>2 DEF Accepted, Wake
    <3>3. CASE AttemptFails(j)
      BY <3>3 DEF AttemptFails
    <3> QED BY <3>1, <3>2, <3>3 DEF Pool
  <2>2. j \notin collected
    BY <2>1 DEF CallerInv, Settled
  <2>3. error => \E i \in Jobs : job'[i] = "failed"
    BY <2>1 DEF CallerInv
  <2>4. phase = "submit" => \A i \in Jobs : i >= cursor => job'[i] = "new"
    BY <2>1 DEF CallerInv
  <2> QED BY <2>1, <2>2, <2>3, <2>4 DEF CallerInv, PostTypes
<1> QED BY <1>1, <1>2, <1>3

\* The calling thread.
LEMMA CallerStep ==
  ASSUME PostInv, Caller
  PROVE  PostInv'
<1> USE DEF PostInv
<1>1. CASE Submit
  <2>1. cursor \in Jobs /\ job[cursor] = "new" /\ ~error
    BY <1>1 DEF Submit, CallerInv
  <2>2. PostTypes'
    BY <1>1, <2>1 DEF Submit, PostTypes, JobStates
  <2>3. ASSUME NEW i \in Jobs  PROVE Attempts(i)'
    BY <1>1, <2>1 DEF Submit, PostTypes, Attempts
  <2>4. CallerInv'
    BY <1>1, <2>1 DEF Submit, PostTypes, CallerInv, Settled
  <2> QED BY <2>2, <2>3, <2>4
<1>2. ASSUME NEW j \in Jobs, Collect(j)  PROVE PostInv'
  <2>1. PostTypes'
    <3>1. error' \in BOOLEAN
      BY <1>2, Zenon DEF Collect, PostTypes
    <3>2. cursor' \in 1..(NJobs + 1) /\ phase' \in {"submit", "collect", "cancel", "done"}
      BY <1>2 DEF Collect, PostTypes
    <3>3. collected' \subseteq Jobs /\ UNCHANGED <<job, attempt, received>>
      BY <1>2 DEF Collect, PostTypes
    <3> QED BY <3>1, <3>2, <3>3 DEF PostTypes
  <2>2. ASSUME NEW i \in Jobs  PROVE Attempts(i)'
    BY <1>2 DEF Collect, Attempts
  <2>3. CallerInv'
    BY <1>2 DEF Collect, PostTypes, CallerInv, Settled
  <2> QED BY <2>1, <2>2, <2>3
<1>3. CASE Cancel
  <2>1. cursor \in Jobs /\ error
    BY <1>3 DEF Cancel, CallerInv
  <2>2. PostTypes'
    BY <1>3, <2>1 DEF Cancel, PostTypes, JobStates
  <2>3. ASSUME NEW i \in Jobs  PROVE Attempts(i)'
    BY <1>3, <2>1 DEF Cancel, PostTypes, Attempts
  <2>4. CallerInv'
    <3>1. \A i \in Jobs : job[i] \in Settled => job'[i] = job[i]
      BY <1>3 DEF Cancel, PostTypes, Settled
    <3>2. \E i \in Jobs : job'[i] = "failed"
      BY <2>1, <3>1 DEF CallerInv, Settled
    <3> QED BY <1>3, <2>1, <3>1, <3>2 DEF Cancel, PostTypes, CallerInv
  <2> QED BY <2>2, <2>3, <2>4
<1>4. CASE Return
  BY <1>4 DEF Return, PostTypes, Attempts, CallerInv
<1> QED BY <1>1, <1>2, <1>3, <1>4 DEF Caller

LEMMA PostStep == PostInv /\ [Next]_vars => PostInv'
<1> SUFFICES ASSUME PostInv, [Next]_vars PROVE PostInv'
  OBVIOUS
<1>1. CASE UNCHANGED vars
  BY <1>1 DEF vars, PostInv, PostTypes, Attempts, CallerInv
<1> QED BY <1>1, PoolStep, CallerStep DEF Next

LEMMA PostInvariant == Spec => []PostInv
  BY PostInit, PostStep, PTL DEF Spec

\* Every variable keeps its type and no status is recorded more often than the
\* retries allow.
THEOREM PostTypeCorrect == Spec => []TypeOK
<1>1. PostInv => TypeOK
  <2> SUFFICES ASSUME PostInv PROVE TypeOK
    OBVIOUS
  <2>1. ASSUME NEW j \in Jobs  PROVE received[j] \in 0..(Retries + 1)
    <3>1. received[j] \in Nat /\ attempt[j] \in 0..Retries /\ Attempts(j)
      BY DEF PostInv, PostTypes
    <3> QED BY <3>1 DEF Attempts
  <2>2. received \in [Jobs -> 0..(Retries + 1)]
    BY <2>1 DEF PostInv, PostTypes
  <2> QED BY <2>2 DEF PostInv, PostTypes, TypeOK
<1> QED BY <1>1, PostInvariant, PTL

\* A pass reported as sent was recorded in full by Miriada; one reported as failed
\* has a status whose attempts were used up.
THEOREM ResultCorrect == Spec => []ResultIsTrue
<1>1. PostInv => ResultIsTrue
  <2> SUFFICES ASSUME PostInv, phase = "done", ~error, NEW j \in Jobs
               PROVE  received[j] > 0
    BY DEF PostInv, CallerInv, ResultIsTrue
  <2>1. job[j] = "ok"
    BY DEF PostInv, CallerInv, Settled
  <2> QED BY <2>1 DEF PostInv, Attempts
<1> QED BY <1>1, PostInvariant, PTL

\* A cancelled job is never posted.
THEOREM CancelledCorrect == Spec => []CancelledNeverPosted
<1>1. PostInv => CancelledNeverPosted
  BY DEF PostInv, Attempts, CancelledNeverPosted
<1> QED BY <1>1, PostInvariant, PTL

\* After the call has returned no thread posts.
THEOREM QuietCorrect == Spec => QuietAfterReturn
<1>1. PostInv /\ [Next]_vars => [phase = "done" => UNCHANGED received]_vars
  <2> SUFFICES ASSUME PostInv, Next, phase = "done"
               PROVE  UNCHANGED received
    OBVIOUS
  <2>1. ASSUME NEW j \in Jobs, Pool(j)  PROVE UNCHANGED received
    <3>1. job[j] \in Settled
      BY DEF PostInv, CallerInv
    <3> QED BY <2>1, <3>1 DEF Pool, Take, Accepted, AttemptFails, Wake, IsNext, Settled
  <2> QED BY <2>1 DEF Next, Caller, Submit, Collect, Cancel, Return
<1> QED BY <1>1, PostInvariant, PTL DEF Spec, QuietAfterReturn

\* The pool implements one pass: every step of a thread or of the caller records
\* statuses, ends the pass, or is invisible.
THEOREM PassRefinement == Spec => ImplementsPass
<1> USE DEF Pass!vars
<1>1. Init => Pass!Init
  BY DEF Init, Pass!Init
<1>2. PostInv /\ [Next]_vars => [Pass!Next]_(Pass!vars)
  <2> SUFFICES ASSUME PostInv, Next  PROVE [Pass!Next]_(Pass!vars)
    BY DEF vars
  <2> DEFINE Recorded == {j \in Jobs : received[j] > 0}
             Acked == {j \in Jobs : job[j] = "ok"}
  <2>1. ASSUME NEW j \in Jobs, Accepted(j)  PROVE Pass!Record(j)
    <3>1. phase # "done" /\ UNCHANGED callerVars
      BY <2>1 DEF Accepted, PostInv, CallerInv, Settled
    <3>2. Recorded' = Recorded \cup {j} /\ Acked' = Acked \cup {j}
      BY <2>1 DEF Accepted, PostInv, PostTypes
    <3> QED BY <3>1, <3>2 DEF Pass!Record, callerVars
  <2>2. ASSUME NEW j \in Jobs, AttemptFails(j)
        PROVE  Pass!Record(j) \/ UNCHANGED Pass!vars
    <3>1. phase # "done" /\ UNCHANGED callerVars
      BY <2>2 DEF AttemptFails, PostInv, CallerInv, Settled
    <3>2. Acked' = Acked
      BY <2>2 DEF AttemptFails, PostInv, PostTypes
    <3>3. Recorded' = Recorded \/ Recorded' = Recorded \cup {j}
      <4>1. CASE UNCHANGED received
        BY <4>1
      <4>2. CASE received' = [received EXCEPT ![j] = @ + 1]
        <5>1. \A i \in Jobs : received'[i] > 0 <=> received[i] > 0 \/ i = j
          BY <4>2 DEF PostInv, PostTypes
        <5> QED BY <5>1
      <4> QED BY <2>2, <4>1, <4>2 DEF AttemptFails
    <3> QED BY <3>1, <3>2, <3>3 DEF Pass!Record, callerVars
  <2>3. ASSUME NEW j \in Jobs, Take(j) \/ Wake(j)  PROVE UNCHANGED Pass!vars
    <3>1. CASE Take(j)
      <4>1. Acked' = Acked
        BY <3>1 DEF Take, IsNext, PostInv, PostTypes
      <4> QED BY <3>1, <4>1 DEF Take, callerVars
    <3>2. CASE Wake(j)
      <4>1. Acked' = Acked
        BY <3>2 DEF Wake, PostInv, PostTypes
      <4> QED BY <3>2, <4>1 DEF Wake, callerVars
    <3> QED BY <2>3, <3>1, <3>2
  <2>4. CASE Submit \/ Cancel
    <3>1. \/ cursor \in Jobs /\ job[cursor] # "ok"
          \/ job' = [job EXCEPT ![cursor] = job[cursor]]
      BY <2>4 DEF Submit, Cancel, PostInv, CallerInv
    <3>2. Acked' = Acked
      BY <2>4, <3>1 DEF Submit, Cancel, PostInv, PostTypes
    <3>3. phase # "done" /\ phase' # "done" /\ UNCHANGED received
      BY <2>4 DEF Submit, Cancel
    <3> QED BY <3>2, <3>3
  <2>5. ASSUME NEW j \in Jobs, Collect(j)  PROVE UNCHANGED Pass!vars
    BY <2>5 DEF Collect
  <2>6. CASE Return
    <3>1. Acked = Jobs <=> ~error
      BY <2>6 DEF Return, PostInv, CallerInv, Settled
    <3> QED BY <2>6, <3>1 DEF Return, Pass!Finish, Pass!Next
  <2> QED BY <2>1, <2>2, <2>3, <2>4, <2>5, <2>6 DEF Next, Caller, Pool, Pass!Next
<1> QED BY <1>1, <1>2, PostInvariant, PTL DEF Spec, ImplementsPass, Pass!Spec
=============================================================================
