---------------------------- MODULE BatchProofs ----------------------------
(***************************************************************************)
(* Theorems about BalloonsBatch for any number of batches, sessions and    *)
(* tags.  First type correctness and the invariants that survive every     *)
(* interleaving of stale copies, partial writes and crashes; then what     *)
(* holds of handlers that do not overlap, up to the refinement of          *)
(* BatchLedger.                                                            *)
(***************************************************************************)
EXTENDS BalloonsBatch, FiniteSetTheorems, TLAPS

USE BatchAssumption DEF Batches

LEMMA AnyChannelType == AnyChannel \in Channels
  BY DEF AnyChannel

LEMMA BlankRowType == ASSUME NEW c \in Channels PROVE BlankRow(c) \in Row
  BY DEF BlankRow, Row

LEMMA WithFlagType == ASSUME NEW r \in Row PROVE WithFlag(r) \in Row
  BY DEF WithFlag, Row

LEMMA ApplyType ==
  ASSUME NEW e \in Edits, NEW r \in Row PROVE Apply(e, r) \in Row
  BY DEF Apply, Row, IsEdit

LEMMA ApplyKeeps ==
  ASSUME NEW e \in Edits, NEW r \in Row
  PROVE  /\ Apply(e, r).chan = r.chan
         /\ Apply(e, r).sent = r.sent
         /\ Apply(e, r).status = r.status
  BY DEF Apply, Row

LEMMA BeginTypes ==
  ASSUME SessionTypes, NEW s \in Sessions, NEW b \in Batches, NEW label \in Labels,
         NEW r \in Row, NEW w \in SUBSET Tags, Begin(s, b, label, r, w)
  PROVE  SessionTypes'
  BY DEF SessionTypes, Begin

LEMMA EndTypes ==
  ASSUME SessionTypes, NEW s \in Sessions, End(s)
  PROVE  SessionTypes'
  BY BlankRowType, AnyChannelType DEF SessionTypes, End, Goto, Labels

LEMMA SaveAllTypes ==
  ASSUME DbTypes, SessionTypes, NEW s \in Sessions, SaveAll(s)
  PROVE  DbTypes'
  BY WithFlagType DEF DbTypes, SessionTypes, SaveAll

LEMMA WithStatusType ==
  ASSUME DbTypes, NEW bs, NEW st \in Statuses
  PROVE  WithStatus(bs, st) \in [Batches -> Row]
  <1> SUFFICES ASSUME NEW x \in Batches
               PROVE  (IF x \in bs THEN [db[x] EXCEPT !.status = st] ELSE db[x]) \in Row
    BY DEF WithStatus
  <1> QED BY DEF DbTypes, Row

(***************************************************************************)
(* Type correctness.                                                       *)
(***************************************************************************)

LEMMA InitTypes == Init => TypeOK
  BY BlankRowType, AnyChannelType
  DEF Init, TypeOK, DbTypes, SessionTypes, MiriadaTypes, Labels

LEMMA RequestTypes ==
  ASSUME TypeOK, NEW s \in Sessions, Request(s)
  PROVE  TypeOK'
<1> USE DEF TypeOK, dbVars, miriadaVars, sessionVars
<1>1. ASSUME NEW c \in Channels, NEW e \in Edits, NEW st \in CreateStatuses,
             Create(s, c, e, st)
      PROVE  TypeOK'
  <2> DEFINE r == WithFlag([Apply(e, BlankRow(c)) EXCEPT !.status = st])
  <2>1. [Apply(e, BlankRow(c)) EXCEPT !.status = st] \in Row
    <3>1. Apply(e, BlankRow(c)) \in Row  BY BlankRowType, ApplyType
    <3> QED BY <3>1 DEF Row
  <2>2. r \in Row  BY <2>1, WithFlagType
  <2>3. born + 1 \in Batches  BY <1>1 DEF Create
  <2>4. DbTypes'
    BY <1>1, <2>2, <2>3 DEF Create, DbTypes
  <2>5. SessionTypes'
    <3>1. CASE st = "active"
      <4>1. Begin(s, born + 1, "create_pause", r, {})
        BY <1>1, <3>1 DEF Create
      <4>2. "create_pause" \in Labels /\ {} \in SUBSET Tags  BY DEF Labels
      <4> HIDE DEF r
      <4> QED BY <4>1, <4>2, <2>2, <2>3, BeginTypes
    <3>2. CASE st # "active"
      BY <1>1, <3>2 DEF Create, SessionTypes
    <3> QED BY <3>1, <3>2
  <2>6. MiriadaTypes'  BY <1>1 DEF Create, MiriadaTypes
  <2> QED BY <2>4, <2>5, <2>6
<1>2. ASSUME NEW b \in Batches, NEW e \in Edits, NEW st \in Statuses, Patch(s, b, e, st)
      PROVE  TypeOK'
  <2>1. [Apply(e, db[b]) EXCEPT !.status = st] \in Row
    <3>1. Apply(e, db[b]) \in Row  BY ApplyType DEF DbTypes
    <3> QED BY <3>1 DEF Row
  <2>2. SessionTypes'
    <3>1. "save" \in Labels  BY DEF Labels
    <3> QED BY <1>2, <2>1, <3>1, BeginTypes DEF Patch
  <2> QED BY <1>2, <2>2 DEF Patch, DbTypes, MiriadaTypes
<1>3. ASSUME NEW b \in Batches, NEW label \in Labels, NEW w \in SUBSET Tags,
             NEW r \in Row, Begin(s, b, label, r, w), UNCHANGED <<dbVars, miriadaVars>>
      PROVE  TypeOK'
  <2>1. SessionTypes'  BY <1>3, BeginTypes
  <2> QED BY <1>3, <2>1 DEF DbTypes, MiriadaTypes
<1>4. \A b \in Batches : db[b] \in Row  BY DEF DbTypes
<1>5. ASSUME NEW b \in Batches, NEW t \in Tags, AddManual(s, b, t) \/ Remove(s, b, t)
      PROVE  TypeOK'
  BY <1>3, <1>4, <1>5 DEF AddManual, Remove, Labels
<1>6. ASSUME NEW b \in Batches, NEW c \in Channels, NEW t \in Tags, AddRfid(s, c, b, t)
      PROVE  TypeOK'
  BY <1>3, <1>4, <1>6 DEF AddRfid, Labels
<1>7. ASSUME NEW b \in Batches, NEW c \in Channels, AddSensor(s, c, b)
      PROVE  TypeOK'
  <2>1. [db[b] EXCEPT !.sensor = @ + 1] \in Row
    BY <1>4 DEF Row
  <2> QED BY <1>3, <1>7, <2>1 DEF AddSensor, Labels
<1>8. ASSUME NEW b \in Batches, Pause(s, b) \/ Resume(s, b)
      PROVE  TypeOK'
  BY <1>3, <1>4, <1>8 DEF Pause, Resume, Labels
<1>9. ASSUME NEW b \in Batches, Delete(s, b)
      PROVE  TypeOK'
  BY <1>9, BlankRowType, AnyChannelType
  DEF Delete, DbTypes, SessionTypes, MiriadaTypes
<1>10. ASSUME NEW b \in Batches, NEW e \in Edits, Close(s, b, e)
       PROVE  TypeOK'
  <2>1. Apply(e, db[b]) \in Row  BY <1>4, ApplyType
  <2> QED BY <1>3, <1>10, <2>1 DEF Close, Labels
<1> QED BY <1>1, <1>2, <1>5, <1>6, <1>7, <1>8, <1>9, <1>10 DEF Request

LEMMA StepTypes ==
  ASSUME TypeOK, NEW s \in Sessions, Step(s)
  PROVE  TypeOK'
<1> USE DEF TypeOK, dbVars, miriadaVars, sessionVars
<1>1. ASSUME End(s)  PROVE SessionTypes'  BY <1>1, EndTypes
<1>2. ASSUME SaveAll(s)  PROVE DbTypes'  BY <1>2, SaveAllTypes
<1>3. ASSUME NEW label \in Labels, Goto(s, label), UNCHANGED <<on, inst, todo, held>>
      PROVE  SessionTypes'
  BY <1>3 DEF Goto, SessionTypes
<1>f. /\ on[s] \in Batches /\ inst[s] \in Row /\ todo[s] \in SUBSET Tags
      /\ db[on[s]] \in Row /\ list[on[s]] \in SUBSET Tags
      /\ posted[on[s]] \in SUBSET Tags
  BY DEF DbTypes, SessionTypes, MiriadaTypes
<1>4. CASE CreatePause(s)
  BY <1>4, <1>1, WithStatusType DEF CreatePause, DbTypes, MiriadaTypes, Statuses
<1>5. CASE Save(s)
  BY <1>5, <1>1, <1>2 DEF Save, MiriadaTypes
<1>6. CASE AddCheck(s)
  <2>1. SessionTypes'  BY <1>6, <1>1, <1>3 DEF AddCheck, Labels
  <2> QED BY <1>6, <2>1 DEF AddCheck, DbTypes, MiriadaTypes
<1>7. CASE AddLink(s)
  <2>1. CASE Exists(on[s])
    <3>1. DbTypes'
      <4>1. list[on[s]] \cup todo[s] \in SUBSET Tags  BY <1>f
      <4> QED BY <1>7, <2>1, <4>1 DEF AddLink, DbTypes
    <3>2. [inst[s] EXCEPT !.rfid = @ + 1] \in Row  BY <1>f DEF Row
    <3>3. SessionTypes'
      BY <1>7, <2>1, <3>2 DEF AddLink, Goto, SessionTypes, Labels
    <3> QED BY <1>7, <2>1, <3>1, <3>3 DEF AddLink, MiriadaTypes
  <2>2. CASE ~Exists(on[s])
    BY <1>7, <2>2, <1>1 DEF AddLink, DbTypes, MiriadaTypes
  <2> QED BY <2>1, <2>2
<1>8. CASE RemoveFind(s)
  <2>1. SessionTypes'  BY <1>8, <1>1, <1>3 DEF RemoveFind, Labels
  <2> QED BY <1>8, <2>1 DEF RemoveFind, DbTypes, MiriadaTypes
<1>9. CASE RemoveUnlink(s)
  <2>1. [inst[s] EXCEPT !.rfid = IF @ > 0 THEN @ - 1 ELSE 0] \in Row
    BY DEF SessionTypes, Row
  <2>2. DbTypes'  BY <1>9 DEF RemoveUnlink, DbTypes, SessionTypes
  <2>3. SessionTypes'
    BY <1>9, <2>1 DEF RemoveUnlink, Goto, SessionTypes, Labels
  <2> QED BY <1>9, <2>2, <2>3 DEF RemoveUnlink, MiriadaTypes
<1>10. CASE PauseSave(s)
  <2>1. DbTypes'  BY <1>10, WithStatusType DEF PauseSave, DbTypes, Statuses
  <2> QED BY <1>10, <1>1, <2>1 DEF PauseSave, MiriadaTypes
<1>11. CASE ResumePause(s)
  <2>1. OtherActive(on[s], inst[s].chan) \in SUBSET Batches
    BY DEF OtherActive, DbTypes
  <2> QED BY <1>11, <2>1
          DEF ResumePause, Goto, DbTypes, SessionTypes, MiriadaTypes, Labels
<1>12. CASE ResumeCommit(s)
  <2>1. WithStatus(held[s], "paused") \in [Batches -> Row]
    BY WithStatusType DEF Statuses
  <2>2. [db[on[s]] EXCEPT !.status = "active"] \in Row
    BY <1>f DEF Row, Statuses
  <2>3. DbTypes'  BY <1>12, <2>1, <2>2 DEF ResumeCommit, DbTypes
  <2> QED BY <1>12, <1>1, <2>3 DEF ResumeCommit, MiriadaTypes
<1>13. CASE CloseSave(s)
  BY <1>13, <1>2, <1>3 DEF CloseSave, MiriadaTypes, Labels
<1>14. CASE CloseRefresh(s)
  <2>1. SessionTypes'
    <3>1. CASE Exists(on[s])
      <4>1. inst' = [inst EXCEPT ![s] = db[on[s]]] /\ Goto(s, "close_check")
        BY <1>14, <3>1 DEF CloseRefresh
      <4> QED BY <1>14, <3>1, <4>1, <1>f DEF CloseRefresh, Goto, SessionTypes, Labels
    <3>2. CASE ~Exists(on[s])
      BY <1>14, <3>2, <1>1 DEF CloseRefresh
    <3> QED BY <3>1, <3>2
  <2> QED BY <1>14, <2>1 DEF CloseRefresh, DbTypes, MiriadaTypes
<1>15. CASE CloseCheck(s)
  <2>1. list[on[s]] \in SUBSET Tags /\ on[s] \in Batches  BY <1>f
  <2>2. SessionTypes'
    BY <1>15, <1>1, <2>1 DEF CloseCheck, Goto, SessionTypes, Labels
  <2>3. MiriadaTypes'  BY <1>15, <2>1 DEF CloseCheck, MiriadaTypes
  <2> QED BY <1>15, <2>2, <2>3 DEF CloseCheck, DbTypes
<1>16. ASSUME NEW t \in Tags, PostOk(s, t) \/ PostFail(s, t)
       PROVE  TypeOK'
  <2>1. SessionTypes'
    BY <1>16 DEF PostOk, PostFail, Goto, SessionTypes, Labels
  <2>2. MiriadaTypes'
    <3>1. posted[on[s]] \cup {t} \in SUBSET Tags  BY <1>f
    <3>2. posted' \in {posted, [posted EXCEPT ![on[s]] = @ \cup {t}]}
      BY <1>16 DEF PostOk, PostFail
    <3>3. posted' \in [Batches -> SUBSET Tags]
      BY <3>1, <3>2 DEF MiriadaTypes
    <3> QED BY <1>16, <1>f, <3>3 DEF PostOk, PostFail, MiriadaTypes
  <2> QED BY <1>16, <2>1, <2>2 DEF PostOk, PostFail, DbTypes
<1>17. CASE MarkSent(s)
  <2>1. ASSUME NEW r \in Row  PROVE [r EXCEPT !.sent = TRUE] \in Row
    BY DEF Row
  <2>2. SessionTypes'
    BY <1>17, <1>1, <2>1 DEF MarkSent, Goto, SessionTypes, Labels
  <2>3. DbTypes'  BY <1>17, <2>1 DEF MarkSent, DbTypes
  <2> QED BY <1>17, <2>2, <2>3 DEF MarkSent, MiriadaTypes
<1>18. CASE CloseTtn(s)
  <2>1. SessionTypes'  BY <1>18, <1>3 DEF CloseTtn, Labels
  <2>2. MiriadaTypes'  BY <1>18 DEF CloseTtn, SessionTypes, MiriadaTypes
  <2> QED BY <1>18, <2>1, <2>2 DEF CloseTtn, DbTypes
<1>19. CASE Complete(s) \/ CloseFail(s)
  <2>1. PICK st \in Statuses : WriteOutcome(s, st)
    BY <1>19 DEF Complete, CloseFail, Statuses
  <2>2. ASSUME NEW f \in BOOLEAN
        PROVE  [db[on[s]] EXCEPT !.status = st, !.failed = f] \in Row
    BY <1>f DEF Row
  <2>3. DbTypes'
    <3>1. (st = "miriada_error") \in BOOLEAN  OBVIOUS
    <3>2. [db[on[s]] EXCEPT !.status = st, !.failed = (st = "miriada_error")] \in Row
      BY <2>2, <3>1
    <3> QED BY <2>1, <3>2, <1>f DEF WriteOutcome, DbTypes
  <2> QED BY <2>1, <1>1, <2>3 DEF WriteOutcome, MiriadaTypes
<1> QED
  BY <1>4, <1>5, <1>6, <1>7, <1>8, <1>9, <1>10, <1>11, <1>12, <1>13, <1>14, <1>15,
     <1>16, <1>17, <1>18, <1>19 DEF Step

LEMMA NextTypes == TypeOK /\ [Next]_vars => TypeOK'
<1> SUFFICES ASSUME TypeOK, [Next]_vars PROVE TypeOK'
  OBVIOUS
<1>1. ASSUME NEW s \in Sessions, Crash(s)  PROVE TypeOK'
  BY <1>1, EndTypes DEF Crash, TypeOK, DbTypes, MiriadaTypes, dbVars, miriadaVars
<1>2. CASE Midnight
  BY <1>2 DEF Midnight, TypeOK, DbTypes, SessionTypes, MiriadaTypes, sessionVars, miriadaVars
<1>3. CASE UNCHANGED vars
  BY <1>3 DEF vars, TypeOK, DbTypes, SessionTypes, MiriadaTypes, dbVars, sessionVars,
             miriadaVars
<1> QED BY <1>1, <1>2, <1>3, RequestTypes, StepTypes DEF Next

\* Tables, sessions and Miriada's records keep their types in every behaviour.
THEOREM TypeCorrect == Spec => []TypeOK
  BY InitTypes, NextTypes, PTL DEF Spec

(***************************************************************************)
(* The failure flag agrees with the status.  Full saves pass through       *)
(* WithFlag, the closing UPDATE writes both columns, and the writes of the *)
(* status alone write "active" or "paused": with the types, the property   *)
(* is inductive whatever the copies hold.                                  *)
(***************************************************************************)

FlagOK(r) == /\ r.status = "miriada_error" => r.failed
             /\ r.status = "completed" => ~r.failed

LEMMA WithFlagOK == ASSUME NEW r \in Row PROVE FlagOK(WithFlag(r))
<1>1. WithFlag(r).status = r.status  BY DEF WithFlag, Row
<1>2. WithFlag(r).failed = (r.status = "miriada_error" \/ (r.failed /\ r.status # "completed"))
  BY DEF WithFlag, Row
<1> QED BY <1>1, <1>2 DEF FlagOK

LEMMA FlagStep ==
  ASSUME TypeOK, CloseFlagAgrees, [Next]_vars
  PROVE  CloseFlagAgrees'
<1> SUFFICES ASSUME NEW b \in Batches PROVE FlagOK(db'[b])
  BY DEF CloseFlagAgrees, FlagOK
<1>1. db[b] \in Row /\ FlagOK(db[b])
  BY DEF CloseFlagAgrees, FlagOK, TypeOK, DbTypes
<1>2. ASSUME db' = db  PROVE FlagOK(db'[b])
  BY <1>1, <1>2
<1>3. ASSUME NEW bs, NEW st \in OpenStatuses, db' = WithStatus(bs, st)
      PROVE  FlagOK(db'[b])
  BY <1>1, <1>3 DEF WithStatus, OpenStatuses, FlagOK, Row
<1>4. ASSUME NEW s \in Sessions, SaveAll(s)  PROVE FlagOK(db'[b])
  BY <1>1, <1>4, WithFlagOK DEF SaveAll, TypeOK, DbTypes, SessionTypes
<1>5. ASSUME NEW s \in Sessions, Request(s)  PROVE FlagOK(db'[b])
  <2>1. ASSUME NEW c \in Channels, NEW e \in Edits, NEW st \in CreateStatuses,
               Create(s, c, e, st)
        PROVE  FlagOK(db'[b])
    <3>1. [Apply(e, BlankRow(c)) EXCEPT !.status = st] \in Row
      <4>1. Apply(e, BlankRow(c)) \in Row  BY BlankRowType, ApplyType
      <4> QED BY <4>1 DEF Row
    <3> QED BY <1>1, <2>1, <3>1, WithFlagOK DEF Create, TypeOK, DbTypes
  <2>2. ASSUME NEW x \in Batches, Delete(s, x)  PROVE FlagOK(db'[b])
    BY <1>1, <2>2 DEF Delete, BlankRow, FlagOK, TypeOK, DbTypes
  <2> QED BY <1>2, <1>5, <2>1, <2>2
          DEF Request, Patch, AddManual, Remove, AddRfid, AddSensor, Pause, Resume,
              Close, dbVars
<1>6. ASSUME NEW s \in Sessions, Step(s)  PROVE FlagOK(db'[b])
  <2>1. CASE ResumeCommit(s)
    <3>1. CASE Exists(on[s])
      <4>1. db' = [WithStatus(held[s], "paused") EXCEPT ![on[s]] =
                      [db[on[s]] EXCEPT !.status = "active"]]
        BY <2>1, <3>1 DEF ResumeCommit
      <4>2. FlagOK(WithStatus(held[s], "paused")[b])
        BY <1>1 DEF WithStatus, FlagOK, Row
      <4>3. FlagOK([db[b] EXCEPT !.status = "active"])
        BY <1>1 DEF FlagOK, Row
      <4> QED BY <4>1, <4>2, <4>3 DEF WithStatus
    <3>2. CASE ~Exists(on[s])
      BY <1>2, <2>1, <3>2 DEF ResumeCommit
    <3> QED BY <3>1, <3>2
  <2>2. CASE CreatePause(s) \/ PauseSave(s)
    BY <1>2, <1>3, <2>2 DEF CreatePause, PauseSave, OpenStatuses
  <2>3. CASE Save(s) \/ CloseSave(s)
    BY <1>4, <2>3 DEF Save, CloseSave
  <2>4. CASE MarkSent(s)
    BY <1>1, <2>4 DEF MarkSent, FlagOK, TypeOK, DbTypes, Row
  <2>5. CASE Complete(s) \/ CloseFail(s)
    <3>1. PICK st \in {"completed", "miriada_error"} : WriteOutcome(s, st)
      BY <2>5 DEF Complete, CloseFail
    <3>2. FlagOK([db[b] EXCEPT !.status = st, !.failed = (st = "miriada_error")])
      BY <1>1 DEF FlagOK, Row
    <3> QED BY <1>1, <3>1, <3>2 DEF WriteOutcome, TypeOK, DbTypes
  <2> QED BY <1>2, <1>6, <2>1, <2>2, <2>3, <2>4, <2>5
          DEF Step, AddCheck, AddLink, RemoveFind, RemoveUnlink, ResumePause,
              CloseRefresh, CloseCheck, PostOk, PostFail, CloseTtn, dbVars
<1> QED BY <1>2, <1>5, <1>6 DEF Next, Crash, Midnight, vars, dbVars

\* In every behaviour, with any clients, crashes and overlaps of handlers, a batch
\* in miriada_error has its failure flag up and a completed one has it down.
THEOREM FlagCorrect == Spec => []CloseFlagAgrees
<1>1. Init => CloseFlagAgrees
  BY DEF Init, CloseFlagAgrees, BlankRow
<1>2. TypeOK /\ CloseFlagAgrees /\ [Next]_vars => CloseFlagAgrees'
  BY FlagStep
<1> QED BY <1>1, <1>2, TypeCorrect, PTL DEF Spec

(***************************************************************************)
(* Row locks.  Only a transaction between its two statements holds rows,   *)
(* a row so held is not deleted under it, and no handler works on the copy *)
(* of a row that never existed.                                            *)
(***************************************************************************)

LockInv ==
    \A s \in Sessions :
        /\ held[s] # {} => pc[s] = "resume_commit" /\ \A b \in held[s] : Exists(b)
        /\ pc[s] # "idle" => inst[s].status \in Statuses

LEMMA LockInit == Init => LockInv
  BY DEF Init, LockInv

\* Steps that take no lock and delete nothing.
KeepsLocks ==
    /\ \A b \in Batches : Exists(b) => Exists(b)'
    /\ \A s \in Sessions :
          /\ \/ held'[s] = {}
             \/ held'[s] = held[s] /\ (pc'[s] = pc[s] \/ pc[s] # "resume_commit")
          /\ \/ pc'[s] = "idle"
             \/ inst'[s].status \in Statuses
             \/ pc[s] # "idle" /\ inst'[s].status = inst[s].status

LEMMA KeepsLocksStep == ASSUME TypeOK, LockInv, KeepsLocks PROVE LockInv'
  BY DEF LockInv, KeepsLocks, TypeOK, SessionTypes

LEMMA LockBegin ==
  ASSUME TypeOK, LockInv, NEW s \in Sessions, NEW b, NEW label, NEW r, NEW w,
         r.status \in Statuses, Begin(s, b, label, r, w),
         \A x \in Batches : Exists(x) => Exists(x)'
  PROVE  LockInv'
<1>1. KeepsLocks
  BY DEF Begin, KeepsLocks, TypeOK, SessionTypes
<1> QED BY <1>1, KeepsLocksStep

LEMMA LockRequest ==
  ASSUME TypeOK, LockInv, NEW s \in Sessions, Request(s)
  PROVE  LockInv'
<1> USE DEF dbVars, sessionVars, miriadaVars
<1>1. ASSUME NEW b \in Batches, Exists(b)  PROVE db[b].status \in Statuses
  BY <1>1 DEF TypeOK, DbTypes, Row, Exists
<1>2. ASSUME NEW c \in Channels, NEW e \in Edits, NEW st \in CreateStatuses,
             Create(s, c, e, st)
      PROVE  LockInv'
  <2> DEFINE q == [Apply(e, BlankRow(c)) EXCEPT !.status = st]
             r == WithFlag(q)
  <2>1. q \in Row /\ q.status = st
    <3>1. Apply(e, BlankRow(c)) \in Row  BY BlankRowType, ApplyType
    <3> QED BY <3>1 DEF Row
  <2>2. r \in Row /\ r.status = st /\ st \in Statuses
    BY <2>1, WithFlagType DEF WithFlag, Row
  <2>3. db' = [db EXCEPT ![born + 1] = r] /\ born + 1 \in Batches
    BY <1>2 DEF Create
  <2>4. \A x \in Batches : Exists(x) => Exists(x)'
    BY <2>2, <2>3 DEF Exists, TypeOK, DbTypes, Statuses
  <2>5. Begin(s, born + 1, "create_pause", r, {}) \/ UNCHANGED sessionVars
    BY <1>2 DEF Create
  <2> HIDE DEF r
  <2>6. CASE UNCHANGED sessionVars
    <3>1. KeepsLocks  BY <2>4, <2>6 DEF KeepsLocks, LockInv
    <3> QED BY <3>1, KeepsLocksStep
  <2> QED BY <2>2, <2>4, <2>5, <2>6, LockBegin
<1>3. ASSUME NEW b \in Batches, NEW e \in Edits, NEW st \in Statuses, Patch(s, b, e, st)
      PROVE  LockInv'
  <2> DEFINE r == [Apply(e, db[b]) EXCEPT !.status = st]
  <2>1. r.status = st
    <3>1. Apply(e, db[b]) \in Row  BY ApplyType DEF TypeOK, DbTypes
    <3> QED BY <3>1 DEF Row
  <2>2. Begin(s, b, "save", r, {}) /\ UNCHANGED db
    BY <1>3 DEF Patch
  <2> HIDE DEF r
  <2> QED BY <2>1, <2>2, LockBegin DEF Exists
<1>4. ASSUME NEW b \in Batches, NEW label, NEW w, db[b].status \in Statuses,
             Begin(s, b, label, db[b], w), UNCHANGED dbVars
      PROVE  LockInv'
  BY <1>4, LockBegin DEF Exists
<1>5. ASSUME NEW b \in Batches, NEW t \in Tags, AddManual(s, b, t) \/ Remove(s, b, t)
      PROVE  LockInv'
  BY <1>4, <1>5 DEF AddManual, Remove, Open, OpenStatuses, Statuses
<1>6. ASSUME NEW b \in Batches, NEW c \in Channels, NEW t \in Tags, AddRfid(s, c, b, t)
      PROVE  LockInv'
  BY <1>4, <1>6 DEF AddRfid, IsCurrent, Statuses
<1>7. ASSUME NEW b \in Batches, NEW c \in Channels, AddSensor(s, c, b)
      PROVE  LockInv'
  <2> DEFINE r == [db[b] EXCEPT !.sensor = @ + 1]
  <2>1. r.status = db[b].status  BY DEF TypeOK, DbTypes, Row
  <2>2. Begin(s, b, "save", r, {}) /\ UNCHANGED db /\ db[b].status \in Statuses
    BY <1>7 DEF AddSensor, IsCurrent, Statuses
  <2> HIDE DEF r
  <2> QED BY <2>1, <2>2, LockBegin DEF Exists
<1>8. ASSUME NEW b \in Batches, Pause(s, b) \/ Resume(s, b)
      PROVE  LockInv'
  BY <1>4, <1>8 DEF Pause, Resume, Statuses
<1>9. ASSUME NEW b \in Batches, Delete(s, b)
      PROVE  LockInv'
  BY <1>9 DEF Delete, Unlocked, LockInv, BlankRow, Exists, TypeOK, DbTypes, SessionTypes
<1>10. ASSUME NEW b \in Batches, NEW e \in Edits, Close(s, b, e)
       PROVE  LockInv'
  <2>1. db[b].status \in Statuses  BY <1>10 DEF Close, Open, OpenStatuses, Statuses
  <2>2. Apply(e, db[b]).status = db[b].status  BY ApplyKeeps DEF TypeOK, DbTypes
  <2>3. PICK label : Begin(s, b, label, Apply(e, db[b]), {}) /\ UNCHANGED db
    BY <1>10 DEF Close
  <2> QED BY <2>1, <2>2, <2>3, LockBegin DEF Exists
<1> QED BY <1>2, <1>3, <1>5, <1>6, <1>7, <1>8, <1>9, <1>10 DEF Request

\* A handler that ends, and one that goes on to another statement.
LEMMA LockEnd ==
  ASSUME TypeOK, LockInv, NEW s \in Sessions, End(s),
         \A x \in Batches : Exists(x) => Exists(x)'
  PROVE  LockInv'
<1>1. KeepsLocks
  BY DEF End, Goto, KeepsLocks, LockInv, TypeOK, SessionTypes
<1> QED BY <1>1, KeepsLocksStep

LEMMA LockGoto ==
  ASSUME TypeOK, LockInv, NEW s \in Sessions, NEW label, Goto(s, label),
         pc[s] \notin {"idle", "resume_commit"}, UNCHANGED held,
         \/ UNCHANGED inst
         \/ \E r : inst' = [inst EXCEPT ![s] = r] /\ r.status \in Statuses,
         \A x \in Batches : Exists(x) => Exists(x)'
  PROVE  LockInv'
<1>1. KeepsLocks
  BY DEF Goto, KeepsLocks, LockInv, TypeOK, SessionTypes
<1> QED BY <1>1, KeepsLocksStep

LEMMA LockStep ==
  ASSUME TypeOK, LockInv, NEW s \in Sessions, Step(s)
  PROVE  LockInv'
<1> USE DEF dbVars
<1> DEFINE Grows == \A x \in Batches : Exists(x) => Exists(x)'
<1>1. UNCHANGED db => Grows
  BY DEF Exists
<1>2. ASSUME NEW bs, NEW st \in Statuses, db' = WithStatus(bs, st)
      PROVE  Grows
  BY <1>2 DEF WithStatus, Exists, Statuses, TypeOK, DbTypes, Row
<1>3. pc[s] # "idle" => inst[s].status \in Statuses
  BY DEF LockInv
<1>4. ASSUME NEW r, pc[s] # "idle", inst' = [inst EXCEPT ![s] = r],
             r.status = inst[s].status
      PROVE  \E q : inst' = [inst EXCEPT ![s] = q] /\ q.status \in Statuses
  BY <1>3, <1>4
<1>5. on[s] \in Batches /\ inst[s] \in Row
  BY DEF TypeOK, SessionTypes
<1>6. CASE AddCheck(s)
  BY <1>1, <1>6, LockEnd, LockGoto DEF AddCheck
<1>7. CASE AddLink(s)
  <2>1. CASE Exists(on[s])
    <3> DEFINE r == [inst[s] EXCEPT !.rfid = @ + 1]
    <3>1. r.status = inst[s].status  BY <1>5 DEF Row
    <3>2. inst' = [inst EXCEPT ![s] = r]
      BY <1>7, <2>1 DEF AddLink
    <3> HIDE DEF r
    <3> QED BY <1>1, <1>4, <1>7, <2>1, <3>1, <3>2, LockGoto DEF AddLink
  <2>2. CASE ~Exists(on[s])
    BY <1>1, <1>7, <2>2, LockEnd DEF AddLink
  <2> QED BY <2>1, <2>2
<1>8. CASE RemoveFind(s)
  BY <1>1, <1>8, LockEnd, LockGoto DEF RemoveFind
<1>9. CASE RemoveUnlink(s)
  <2> DEFINE r == [inst[s] EXCEPT !.rfid = IF @ > 0 THEN @ - 1 ELSE 0]
  <2>1. r.status = inst[s].status  BY <1>5 DEF Row
  <2>2. inst' = [inst EXCEPT ![s] = r]
    BY <1>9 DEF RemoveUnlink
  <2> HIDE DEF r
  <2> QED BY <1>1, <1>4, <1>9, <2>1, <2>2, LockGoto DEF RemoveUnlink
<1>10. CASE CreatePause(s) \/ PauseSave(s)
  <2>1. Grows
    BY <1>1, <1>2, <1>10 DEF CreatePause, PauseSave, Statuses
  <2> QED BY <1>10, <2>1, LockEnd DEF CreatePause, PauseSave
<1>11. CASE Save(s) \/ CloseSave(s)
  <2>1. inst[s].status \in Statuses /\ pc[s] \in {"save", "close_save"}
    BY <1>3, <1>11 DEF Save, CloseSave
  <2>2. WithFlag(inst[s]).status = inst[s].status
    BY <1>5 DEF WithFlag, Row
  <2>3. Grows
    BY <1>5, <1>11, <2>1, <2>2 DEF Save, CloseSave, SaveAll, Exists, Statuses, TypeOK, DbTypes
  <2> QED BY <1>11, <2>1, <2>3, LockEnd, LockGoto DEF Save, CloseSave
<1>12. CASE ResumePause(s)
  <2>1. \A x \in OtherActive(on[s], inst[s].chan) : Exists(x)
    BY DEF OtherActive, Exists
  <2> QED BY <1>12, <2>1 DEF ResumePause, Goto, LockInv, Exists, TypeOK, SessionTypes
<1>13. CASE ResumeCommit(s)
  <2>1. CASE Exists(on[s])
    <3>1. db' = [WithStatus(held[s], "paused") EXCEPT ![on[s]] =
                    [db[on[s]] EXCEPT !.status = "active"]]
      BY <1>13, <2>1 DEF ResumeCommit
    <3>2. Grows
      BY <3>1 DEF WithStatus, Exists, TypeOK, DbTypes, Row
    <3> QED BY <1>13, <3>2, LockEnd DEF ResumeCommit
  <2>2. CASE ~Exists(on[s])
    BY <1>1, <1>13, <2>2, LockEnd DEF ResumeCommit
  <2> QED BY <2>1, <2>2
<1>14. CASE CloseRefresh(s)
  <2>1. Exists(on[s]) => db[on[s]].status \in Statuses
    BY DEF Exists, TypeOK, DbTypes, SessionTypes, Row
  <2> QED BY <1>1, <1>14, <2>1, LockEnd, LockGoto DEF CloseRefresh
<1>15. CASE CloseCheck(s)
  BY <1>1, <1>15, LockEnd, LockGoto DEF CloseCheck
<1>16. CASE \E t \in Tags : PostOk(s, t) \/ PostFail(s, t)
  <2>1. PICK t \in Tags : PostOk(s, t) \/ PostFail(s, t)
    BY <1>16
  <2>2. UNCHANGED <<pc, inst, held, db>> => LockInv'
    BY DEF LockInv, Exists
  <2> QED BY <1>1, <2>1, <2>2, LockGoto DEF PostOk, PostFail
<1>17. CASE MarkSent(s)
  <2>1. CASE Exists(on[s])
    <3> DEFINE r == [inst[s] EXCEPT !.sent = TRUE]
    <3>1. r.status = inst[s].status  BY <1>5 DEF Row
    <3>2. inst' = [inst EXCEPT ![s] = r]
      BY <1>17, <2>1 DEF MarkSent
    <3>3. Grows
      BY <1>17, <2>1 DEF MarkSent, Exists, TypeOK, DbTypes, Row
    <3> HIDE DEF r
    <3> QED BY <1>4, <1>17, <2>1, <3>1, <3>2, <3>3, LockGoto DEF MarkSent
  <2>2. CASE ~Exists(on[s])
    BY <1>1, <1>17, <2>2, LockEnd DEF MarkSent
  <2> QED BY <2>1, <2>2
<1>18. CASE CloseTtn(s)
  BY <1>1, <1>18, LockGoto DEF CloseTtn
<1>19. CASE Complete(s) \/ CloseFail(s)
  <2>1. PICK st \in Statuses : WriteOutcome(s, st)
    BY <1>19 DEF Complete, CloseFail, Statuses
  <2>2. CASE Exists(on[s])
    <3>1. Grows
      BY <2>1, <2>2 DEF WriteOutcome, Exists, Statuses, TypeOK, DbTypes, Row
    <3> QED BY <2>1, <3>1, LockEnd DEF WriteOutcome
  <2>3. CASE ~Exists(on[s])
    BY <1>1, <2>1, <2>3, LockEnd DEF WriteOutcome
  <2> QED BY <2>2, <2>3
<1> QED BY <1>6, <1>7, <1>8, <1>9, <1>10, <1>11, <1>12, <1>13, <1>14, <1>15, <1>16,
           <1>17, <1>18, <1>19 DEF Step

LEMMA LocksCorrect == Spec => []LockInv
<1>1. TypeOK /\ LockInv /\ [Next]_vars => LockInv'
  <2> SUFFICES ASSUME TypeOK, LockInv, [Next]_vars PROVE LockInv'
    OBVIOUS
  <2>1. CASE UNCHANGED vars \/ Midnight \/ \E s \in Sessions : Crash(s)
    <3>1. KeepsLocks
      BY <2>1 DEF vars, Midnight, Crash, End, Goto, dbVars, sessionVars, KeepsLocks, LockInv,
                  Exists, TypeOK, SessionTypes
    <3> QED BY <3>1, KeepsLocksStep
  <2> QED BY <2>1, LockRequest, LockStep DEF Next
<1> QED BY <1>1, LockInit, TypeCorrect, PTL DEF Spec

(***************************************************************************)
(* A TTN is closed only after a full pass.  The rows and all the copies of *)
(* a batch agree on its channel, and none of them carries the "sent" flag  *)
(* of a pass that did not happen.                                          *)
(***************************************************************************)

Busy(s) == pc[s] # "idle"

\* What a row or a copy r of batch b may say.
Covered(b, r) ==
    r.chan \in PostingChannels /\ (r.sent \/ b \in ttnClosed) => b \in passed

PassRow(b) == Exists(b) => b <= born /\ Covered(b, db[b])

PassSession(s) ==
    Busy(s) =>
        /\ on[s] <= born
        /\ Covered(on[s], inst[s])
        /\ Exists(on[s]) => inst[s].chan = db[on[s]].chan
        /\ pc[s] \in {"mark_sent", "close_ttn"} /\ inst[s].chan \in PostingChannels
              => on[s] \in passed

SameChannel(s, t) ==
    Busy(s) /\ Busy(t) /\ on[s] = on[t] => inst[s].chan = inst[t].chan

PassInv ==
    /\ \A b \in Batches : PassRow(b)
    /\ \A s \in Sessions : PassSession(s)
    /\ \A s, t \in Sessions : SameChannel(s, t)
    /\ \A b \in ttnClosed : b <= born

\* What a completed row or copy promises, and a session about to complete one.
Done(b, r) == b \in TtnBatches /\ r.status = "completed" => b \in ttnClosed

DoneInv ==
    /\ \A b \in Batches : Done(b, db[b])
    /\ \A s \in Sessions : Busy(s) => Done(on[s], inst[s])
    /\ \A s \in Sessions : pc[s] = "complete" /\ on[s] \in TtnBatches => on[s] \in ttnClosed

LEMMA PassInit == Init => PassInv
  BY AnyChannelType
  DEF Init, PassInv, PassRow, PassSession, SameChannel, Busy, Exists, BlankRow, Covered

\* Steps that start no handler and give no row or copy another channel or flag: rows
\* may change their other columns or disappear, handlers may go on or end, passes
\* may be completed.
Calm ==
    /\ \A b \in Batches :
        Exists(b)' => Exists(b) /\ db'[b].chan = db[b].chan /\ db'[b].sent = db[b].sent
    /\ \A s \in Sessions :
        Busy(s)' => /\ Busy(s) /\ on'[s] = on[s]
                    /\ inst'[s].chan = inst[s].chan /\ inst'[s].sent = inst[s].sent
                    /\ pc'[s] \in {"mark_sent", "close_ttn"} =>
                          pc'[s] = pc[s] \/
                          (inst[s].chan \in PostingChannels => on[s] \in passed')
    /\ passed \subseteq passed'
    /\ UNCHANGED <<ttnClosed, born>>

LEMMA CalmStep == ASSUME TypeOK, PassInv, Calm PROVE PassInv'
<1>1. ASSUME NEW b \in Batches PROVE PassRow(b)'
  BY <1>1 DEF PassInv, PassRow, Calm, Covered
<1>2. ASSUME NEW s \in Sessions PROVE PassSession(s)'
  <2> SUFFICES ASSUME Busy(s)'
      PROVE  /\ on'[s] <= born'
             /\ Covered(on[s], inst[s])'
             /\ Exists(on[s])' => inst'[s].chan = db'[on'[s]].chan
             /\ pc'[s] \in {"mark_sent", "close_ttn"} /\ inst'[s].chan \in PostingChannels
                   => on'[s] \in passed'
    BY DEF PassSession
  <2>1. /\ Busy(s) /\ on'[s] = on[s]
        /\ inst'[s].chan = inst[s].chan /\ inst'[s].sent = inst[s].sent
        /\ PassSession(s) /\ on[s] \in Batches
    BY DEF Calm, PassInv, TypeOK, SessionTypes
  <2>2. Covered(on[s], inst[s])'
    BY <2>1 DEF Calm, PassSession, Covered
  <2>3. Exists(on[s])' => inst'[s].chan = db'[on'[s]].chan
    BY <2>1 DEF Calm, PassSession, Exists
  <2>4. pc'[s] \in {"mark_sent", "close_ttn"} /\ inst'[s].chan \in PostingChannels
          => on'[s] \in passed'
    BY <2>1 DEF Calm, PassSession
  <2> QED BY <2>1, <2>2, <2>3, <2>4 DEF Calm, PassSession
<1>3. ASSUME NEW s \in Sessions, NEW t \in Sessions PROVE SameChannel(s, t)'
  BY <1>3 DEF PassInv, SameChannel, Calm
<1>4. \A b \in ttnClosed' : b <= born'
  BY DEF PassInv, Calm
<1> QED BY <1>1, <1>2, <1>3, <1>4 DEF PassInv

\* A handler starts on an existing batch with a copy of its channel and flag.
LEMMA BeginStep ==
  ASSUME TypeOK, PassInv, NEW s \in Sessions, NEW b \in Batches, NEW label, NEW r, NEW w,
         Exists(b), r.chan = db[b].chan, r.sent = db[b].sent,
         label \notin {"mark_sent", "close_ttn"},
         Begin(s, b, label, r, w), UNCHANGED <<dbVars, miriadaVars>>
  PROVE  PassInv'
<1> USE DEF dbVars, miriadaVars
<1>1. /\ pc'[s] = label /\ on'[s] = b /\ inst'[s] = r
      /\ \A t \in Sessions \ {s} : pc'[t] = pc[t] /\ on'[t] = on[t] /\ inst'[t] = inst[t]
  BY DEF Begin, TypeOK, SessionTypes
<1>2. \A x \in Batches : PassRow(x)'
  BY DEF PassInv, PassRow, Covered, Exists
<1>3. ASSUME NEW t \in Sessions PROVE PassSession(t)'
  <2>1. CASE t = s
    BY <1>1, <2>1 DEF PassInv, PassRow, PassSession, Covered, Exists
  <2>2. CASE t # s
    BY <1>1, <2>2 DEF PassInv, PassSession, Covered, Exists, Busy
  <2> QED BY <2>1, <2>2
<1>4. ASSUME NEW t \in Sessions, NEW u \in Sessions PROVE SameChannel(t, u)'
  <2>1. CASE t = s /\ u = s
    BY <2>1 DEF SameChannel
  <2>2. CASE t = s /\ u # s
    BY <1>1, <2>2 DEF PassInv, PassSession, SameChannel, Exists, Busy
  <2>3. CASE t # s /\ u = s
    BY <1>1, <2>3 DEF PassInv, PassSession, SameChannel, Exists, Busy
  <2>4. CASE t # s /\ u # s
    BY <1>1, <2>4 DEF PassInv, SameChannel, Busy
  <2> QED BY <2>1, <2>2, <2>3, <2>4
<1> QED BY <1>2, <1>3, <1>4 DEF PassInv

LEMMA CreateStep ==
  ASSUME TypeOK, PassInv, NEW s \in Sessions, NEW c \in Channels, NEW e \in Edits,
         NEW st \in CreateStatuses, Create(s, c, e, st)
  PROVE  PassInv'
<1> DEFINE b == born + 1
           r == WithFlag([Apply(e, BlankRow(c)) EXCEPT !.status = st])
<1>1. b \in Batches /\ born' = b /\ born \in Nat
  BY DEF Create, TypeOK, DbTypes
<1>2. r.sent = FALSE
  BY DEF WithFlag, Apply, BlankRow
<1>3. db'[b] = r /\ \A x \in Batches \ {b} : db'[x] = db[x]
  BY <1>1 DEF Create, TypeOK, DbTypes
<1>4. b \notin ttnClosed /\ \A t \in Sessions : Busy(t) => on[t] # b
  BY <1>1 DEF PassInv, PassSession
<1>5. UNCHANGED <<ttnClosed, passed>>
  BY DEF Create, miriadaVars
<1>6. \/ UNCHANGED <<pc, on, inst>>
      \/ /\ pc'[s] = "create_pause" /\ on'[s] = b /\ inst'[s] = r
         /\ \A t \in Sessions \ {s} :
               pc'[t] = pc[t] /\ on'[t] = on[t] /\ inst'[t] = inst[t]
  BY DEF Create, Begin, sessionVars, TypeOK, SessionTypes
<1> HIDE DEF r
<1>7. ASSUME NEW x \in Batches PROVE PassRow(x)'
  <2>1. CASE x = b
    BY <1>1, <1>2, <1>3, <1>4, <1>5, <2>1 DEF PassRow, Covered
  <2>2. CASE x # b
    BY <1>1, <1>3, <1>5, <2>2 DEF PassInv, PassRow, Covered, Exists
  <2> QED BY <2>1, <2>2
<1>8. ASSUME NEW t \in Sessions PROVE PassSession(t)'
  <2>1. CASE pc'[t] = pc[t] /\ on'[t] = on[t] /\ inst'[t] = inst[t]
    <3>1. Busy(t) => on[t] \in Batches \ {b}
      BY <1>4 DEF TypeOK, SessionTypes
    <3> QED BY <1>1, <1>3, <1>5, <2>1, <3>1
            DEF PassInv, PassSession, Covered, Exists, Busy
  <2>2. CASE pc'[t] = "create_pause" /\ on'[t] = b /\ inst'[t] = r
    BY <1>1, <1>2, <1>3, <1>4, <1>5, <2>2 DEF PassSession, Covered, Exists
  <2> QED BY <1>6, <2>1, <2>2
<1>9. ASSUME NEW t \in Sessions, NEW u \in Sessions PROVE SameChannel(t, u)'
  BY <1>4, <1>6 DEF PassInv, SameChannel, Busy
<1>10. \A x \in ttnClosed' : x <= born'
  BY <1>1, <1>5 DEF PassInv, TypeOK, MiriadaTypes
<1> QED BY <1>7, <1>8, <1>9, <1>10 DEF PassInv

\* The full save, before the handler ends or goes on to the refresh.
LEMMA SaveStep ==
  ASSUME TypeOK, PassInv, NEW s \in Sessions, Busy(s), SaveAll(s),
         pc'[s] \in {"idle", "close_refresh"},
         pc'[s] = "close_refresh" => on'[s] = on[s] /\ inst'[s] = inst[s],
         \A t \in Sessions \ {s} : pc'[t] = pc[t] /\ on'[t] = on[t] /\ inst'[t] = inst[t],
         UNCHANGED miriadaVars
  PROVE  PassInv'
<1> DEFINE b == on[s]
<1>1. b \in Batches /\ inst[s] \in Row /\ born' = born
  BY DEF TypeOK, SessionTypes, SaveAll
<1>2. /\ db'[b].chan = inst[s].chan /\ db'[b].sent = inst[s].sent
      /\ \A x \in Batches \ {b} : db'[x] = db[x]
  BY <1>1 DEF SaveAll, WithFlag, Row, TypeOK, DbTypes
<1>3. PassSession(s) /\ UNCHANGED <<ttnClosed, passed>>
  BY DEF PassInv, miriadaVars
<1>4. ASSUME NEW x \in Batches PROVE PassRow(x)'
  <2>1. CASE x = b
    BY <1>1, <1>2, <1>3, <2>1 DEF PassRow, PassSession, Covered
  <2>2. CASE x # b
    BY <1>1, <1>2, <1>3, <2>2 DEF PassInv, PassRow, Covered, Exists
  <2> QED BY <2>1, <2>2
<1>5. ASSUME NEW t \in Sessions, Busy(t)'
      PROVE  Busy(t) /\ on'[t] = on[t] /\ inst'[t] = inst[t]
             /\ (pc'[t] = pc[t] \/ pc'[t] = "close_refresh")
  BY <1>5 DEF Busy
<1>6. ASSUME NEW t \in Sessions PROVE PassSession(t)'
  <2> SUFFICES ASSUME Busy(t)' PROVE PassSession(t)'
    BY DEF PassSession
  <2>1. Busy(t) /\ on'[t] = on[t] /\ inst'[t] = inst[t] /\ PassSession(t)
        /\ (pc'[t] = pc[t] \/ pc'[t] = "close_refresh") /\ on[t] \in Batches
    BY <1>5 DEF PassInv, TypeOK, SessionTypes
  <2>2. CASE on[t] = b
    <3>1. inst[t].chan = inst[s].chan
      BY <2>1, <2>2 DEF PassInv, SameChannel
    <3> QED BY <1>1, <1>2, <1>3, <2>1, <2>2, <3>1 DEF PassSession, Covered
  <2>3. CASE on[t] # b
    BY <1>1, <1>2, <1>3, <2>1, <2>3 DEF PassSession, Covered, Exists
  <2> QED BY <2>2, <2>3
<1>7. ASSUME NEW t \in Sessions, NEW u \in Sessions PROVE SameChannel(t, u)'
  BY <1>5 DEF PassInv, SameChannel
<1> QED BY <1>1, <1>3, <1>4, <1>6, <1>7 DEF PassInv

LEMMA RefreshStep ==
  ASSUME TypeOK, PassInv, NEW s \in Sessions, CloseRefresh(s)
  PROVE  PassInv'
<1> USE DEF dbVars, miriadaVars
<1>1. CASE ~Exists(on[s])
  <2>1. Calm
    BY <1>1 DEF CloseRefresh, End, Goto, Calm, Busy, Exists, TypeOK, SessionTypes
  <2> QED BY <2>1, CalmStep
<1>2. CASE Exists(on[s])
  <2>1. /\ pc'[s] = "close_check" /\ inst'[s] = db[on[s]] /\ on' = on
        /\ \A t \in Sessions \ {s} : pc'[t] = pc[t] /\ inst'[t] = inst[t]
    BY <1>2 DEF CloseRefresh, Goto, TypeOK, SessionTypes
  <2>2. Busy(s) /\ on[s] \in Batches /\ UNCHANGED <<db, born, passed, ttnClosed>>
    BY DEF CloseRefresh, Busy, TypeOK, SessionTypes
  <2>3. inst[s].chan = db[on[s]].chan
    BY <1>2, <2>2 DEF PassInv, PassSession
  <2>4. ASSUME NEW t \in Sessions PROVE PassSession(t)'
    <3>1. CASE t = s
      BY <1>2, <2>1, <2>2, <3>1 DEF PassInv, PassRow, PassSession, Covered, Exists
    <3>2. CASE t # s
      BY <2>1, <2>2, <3>2 DEF PassInv, PassSession, Covered, Exists, Busy
    <3> QED BY <3>1, <3>2
  <2>5. ASSUME NEW t \in Sessions, NEW u \in Sessions PROVE SameChannel(t, u)'
    <3>1. \A v \in Sessions : inst'[v].chan = inst[v].chan /\ (Busy(v)' <=> Busy(v))
      BY <2>1, <2>2, <2>3 DEF Busy
    <3> QED BY <2>1, <3>1 DEF PassInv, SameChannel
  <2>6. \A b \in Batches : PassRow(b)'
    BY <2>2 DEF PassInv, PassRow, Covered, Exists
  <2> QED BY <2>2, <2>4, <2>5, <2>6 DEF PassInv
<1> QED BY <1>1, <1>2

LEMMA MarkSentStep ==
  ASSUME TypeOK, PassInv, NEW s \in Sessions, MarkSent(s)
  PROVE  PassInv'
<1>1. CASE ~Exists(on[s])
  <2>1. Calm
    BY <1>1 DEF MarkSent, End, Goto, Calm, Busy, Exists, miriadaVars, TypeOK, SessionTypes
  <2> QED BY <2>1, CalmStep
<1>2. CASE Exists(on[s])
  <2> DEFINE b == on[s]
  <2>1. /\ b \in Batches /\ Busy(s)
        /\ db'[b].chan = db[b].chan /\ Exists(b)'
        /\ \A x \in Batches \ {b} : db'[x] = db[x]
        /\ UNCHANGED <<on, born, passed, ttnClosed>>
        /\ pc'[s] = "close_ttn" /\ inst'[s].chan = inst[s].chan
        /\ \A t \in Sessions \ {s} : pc'[t] = pc[t] /\ inst'[t] = inst[t]
    BY <1>2 DEF MarkSent, Goto, Busy, Exists, miriadaVars, TypeOK, SessionTypes, DbTypes, Row
  <2>2. inst[s].chan \in PostingChannels => b \in passed
    BY <2>1 DEF MarkSent, PassInv, PassSession
  <2>3. inst[s].chan = db[b].chan
    BY <1>2, <2>1 DEF PassInv, PassSession
  <2>4. \A t \in Sessions : Busy(t) <=> Busy(t)'
    BY <2>1 DEF Busy
  <2>5. ASSUME NEW x \in Batches PROVE PassRow(x)'
    <3>1. CASE x = b
      BY <1>2, <2>1, <2>2, <2>3, <3>1 DEF PassInv, PassRow, Covered
    <3>2. CASE x # b
      BY <2>1, <3>2 DEF PassInv, PassRow, Covered, Exists
    <3> QED BY <3>1, <3>2
  <2>6. ASSUME NEW t \in Sessions PROVE PassSession(t)'
    <3>1. CASE t = s
      BY <1>2, <2>1, <2>2, <2>3, <3>1 DEF PassInv, PassSession, Covered
    <3>2. CASE t # s /\ on[t] = b
      BY <1>2, <2>1, <2>4, <3>2 DEF PassInv, PassSession, Covered
    <3>3. CASE t # s /\ on[t] # b
      BY <2>1, <2>4, <3>3 DEF PassInv, PassSession, Covered, Exists, TypeOK, SessionTypes
    <3> QED BY <3>1, <3>2, <3>3
  <2>7. ASSUME NEW t \in Sessions, NEW u \in Sessions PROVE SameChannel(t, u)'
    <3>1. \A v \in Sessions : inst'[v].chan = inst[v].chan
      BY <2>1
    <3> QED BY <2>1, <2>4, <3>1 DEF PassInv, SameChannel
  <2> QED BY <2>1, <2>5, <2>6, <2>7 DEF PassInv
<1> QED BY <1>1, <1>2

\* Closing a TTN: the session's own pass covers every row and copy of the batch,
\* for all of them have its channel.
LEMMA CloseTtnStep ==
  ASSUME TypeOK, PassInv, NEW s \in Sessions, CloseTtn(s)
  PROVE  PassInv'
<1> DEFINE b == on[s]
<1>1. /\ b \in Batches /\ Busy(s)
      /\ UNCHANGED <<db, born, on, inst, passed>>
      /\ ttnClosed' \subseteq ttnClosed \cup {b}
      /\ pc'[s] \in {"complete", "close_fail"}
      /\ \A t \in Sessions \ {s} : pc'[t] = pc[t]
  BY DEF CloseTtn, Goto, Busy, dbVars, TypeOK, SessionTypes
<1>2. inst[s].chan \in PostingChannels => b \in passed
  BY <1>1 DEF CloseTtn, PassInv, PassSession
<1>3. \A t \in Sessions : Busy(t) <=> Busy(t)'
  BY <1>1 DEF Busy
<1>4. ASSUME NEW x \in Batches PROVE PassRow(x)'
  <2>1. CASE x = b
    <3>1. Exists(b) => inst[s].chan = db[b].chan
      BY <1>1 DEF PassInv, PassSession
    <3> QED BY <1>1, <1>2, <2>1, <3>1 DEF PassInv, PassRow, Covered, Exists
  <2>2. CASE x # b
    BY <1>1, <2>2 DEF PassInv, PassRow, Covered, Exists
  <2> QED BY <2>1, <2>2
<1>5. ASSUME NEW t \in Sessions PROVE PassSession(t)'
  <2>1. CASE t = s
    BY <1>1, <1>2, <2>1 DEF PassInv, PassSession, Covered, Exists
  <2>2. CASE t # s /\ on[t] = b
    <3>1. Busy(t) => inst[t].chan = inst[s].chan
      BY <1>1, <2>2 DEF PassInv, SameChannel
    <3> QED BY <1>1, <1>2, <1>3, <2>2, <3>1 DEF PassInv, PassSession, Covered, Exists
  <2>3. CASE t # s /\ on[t] # b
    BY <1>1, <1>3, <2>3 DEF PassInv, PassSession, Covered, Exists
  <2> QED BY <2>1, <2>2, <2>3
<1>6. ASSUME NEW t \in Sessions, NEW u \in Sessions PROVE SameChannel(t, u)'
  BY <1>1, <1>3 DEF PassInv, SameChannel
<1>7. \A x \in ttnClosed' : x <= born'
  BY <1>1 DEF PassInv, PassSession
<1> QED BY <1>4, <1>5, <1>6, <1>7 DEF PassInv

LEMMA PassRequest ==
  ASSUME TypeOK, PassInv, NEW s \in Sessions, Request(s)
  PROVE  PassInv'
<1>1. ASSUME NEW e \in Edits, NEW b \in Batches
      PROVE  Apply(e, db[b]).chan = db[b].chan /\ Apply(e, db[b]).sent = db[b].sent
             /\ Apply(e, db[b]) \in Row
  BY ApplyType, ApplyKeeps DEF TypeOK, DbTypes
<1>2. ASSUME NEW c \in Channels, NEW e \in Edits, NEW st \in CreateStatuses,
             Create(s, c, e, st)
      PROVE  PassInv'
  BY <1>2, CreateStep
<1>3. ASSUME NEW b \in Batches, NEW e \in Edits, NEW st \in Statuses, Patch(s, b, e, st)
      PROVE  PassInv'
  <2> DEFINE r == [Apply(e, db[b]) EXCEPT !.status = st]
  <2>1. r.chan = db[b].chan /\ r.sent = db[b].sent  BY <1>1 DEF Row
  <2>2. Exists(b) /\ Begin(s, b, "save", r, {}) /\ UNCHANGED <<dbVars, miriadaVars>>
    BY <1>3 DEF Patch
  <2> HIDE DEF r
  <2> QED BY <2>1, <2>2, BeginStep
<1>4. ASSUME NEW b \in Batches, NEW t \in Tags, AddManual(s, b, t) \/ Remove(s, b, t)
      PROVE  PassInv'
  BY <1>4, BeginStep DEF AddManual, Remove, Open, OpenStatuses, Exists
<1>5. ASSUME NEW b \in Batches, NEW c \in Channels, NEW t \in Tags, AddRfid(s, c, b, t)
      PROVE  PassInv'
  BY <1>5, BeginStep DEF AddRfid, IsCurrent, Exists
<1>6. ASSUME NEW b \in Batches, NEW c \in Channels, AddSensor(s, c, b)
      PROVE  PassInv'
  <2> DEFINE r == [db[b] EXCEPT !.sensor = @ + 1]
  <2>1. r.chan = db[b].chan /\ r.sent = db[b].sent  BY DEF TypeOK, DbTypes, Row
  <2>2. Exists(b) /\ Begin(s, b, "save", r, {}) /\ UNCHANGED <<dbVars, miriadaVars>>
    BY <1>6 DEF AddSensor, IsCurrent, Exists
  <2> HIDE DEF r
  <2> QED BY <2>1, <2>2, BeginStep
<1>7. ASSUME NEW b \in Batches, Pause(s, b) \/ Resume(s, b)
      PROVE  PassInv'
  BY <1>7, BeginStep DEF Pause, Resume, Exists
<1>8. ASSUME NEW b \in Batches, Delete(s, b)
      PROVE  PassInv'
  <2>1. Calm
    BY <1>8 DEF Delete, Calm, BlankRow, Busy, Exists, sessionVars, miriadaVars, TypeOK, DbTypes
  <2> QED BY <2>1, CalmStep
<1>9. ASSUME NEW b \in Batches, NEW e \in Edits, Close(s, b, e)
      PROVE  PassInv'
  <2>1. Exists(b)  BY <1>9 DEF Close, Open, OpenStatuses, Exists
  <2>2. PICK label \in {"close_check", "close_save"} :
            Begin(s, b, label, Apply(e, db[b]), {}) /\ UNCHANGED <<dbVars, miriadaVars>>
    BY <1>9 DEF Close
  <2> QED BY <1>1, <2>1, <2>2, BeginStep
<1> QED BY <1>2, <1>3, <1>4, <1>5, <1>6, <1>7, <1>8, <1>9 DEF Request

LEMMA PassStep ==
  ASSUME TypeOK, LockInv, PassInv, [Next]_vars
  PROVE  PassInv'
<1> USE DEF dbVars, sessionVars, miriadaVars
<1>1. ASSUME NEW s \in Sessions, Step(s)  PROVE PassInv'
  <2>1. CASE AddCheck(s) \/ AddLink(s) \/ RemoveFind(s) \/ RemoveUnlink(s)
    <3>1. Calm
      BY <2>1 DEF AddCheck, AddLink, RemoveFind, RemoveUnlink, End, Goto, Calm, Busy,
                  Exists, TypeOK, SessionTypes, Row
    <3> QED BY <3>1, CalmStep
  <2>2. ASSUME NEW bs, NEW st \in Statuses, End(s), Busy(s), UNCHANGED <<born, miriadaVars>>,
               db' = WithStatus(bs, st), \A b \in bs : Exists(b)
        PROVE  PassInv'
    <3>1. Calm
      BY <2>2 DEF End, Goto, Calm, Busy, Exists, WithStatus, TypeOK, DbTypes, SessionTypes, Row
    <3> QED BY <3>1, CalmStep
  <2>3. ASSUME End(s), Busy(s), UNCHANGED <<db, born, miriadaVars>>
        PROVE  PassInv'
    <3>1. Calm
      BY <2>3 DEF End, Goto, Calm, Busy, Exists, TypeOK, SessionTypes
    <3> QED BY <3>1, CalmStep
  <2>4. CASE CreatePause(s)
    BY <2>2, <2>4 DEF CreatePause, OtherActive, Busy, Exists, Statuses
  <2>5. CASE PauseSave(s)
    BY <2>2, <2>3, <2>5 DEF PauseSave, Busy, Exists, Statuses
  <2>6. CASE Save(s)
    BY <2>6, SaveStep
    DEF Save, End, Goto, Busy, TypeOK, SessionTypes
  <2>7. CASE CloseSave(s)
    BY <2>7, SaveStep
    DEF CloseSave, Goto, Busy, TypeOK, SessionTypes
  <2>8. CASE ResumePause(s)
    <3>1. Calm
      BY <2>8 DEF ResumePause, Goto, Calm, Busy, Exists, TypeOK, SessionTypes
    <3> QED BY <3>1, CalmStep
  <2>9. CASE ResumeCommit(s)
    <3>1. CASE ~Exists(on[s])
      BY <2>3, <2>9, <3>1 DEF ResumeCommit, Busy
    <3>2. CASE Exists(on[s])
      <4>1. db' = [WithStatus(held[s], "paused") EXCEPT ![on[s]] =
                      [db[on[s]] EXCEPT !.status = "active"]]
        BY <2>9, <3>2 DEF ResumeCommit
      <4>2. ASSUME NEW b \in Batches
            PROVE  db'[b].chan = db[b].chan /\ db'[b].sent = db[b].sent
        BY <4>1 DEF WithStatus, TypeOK, DbTypes, Row
      <4>3. UNCHANGED <<born, miriadaVars>> /\ End(s) /\ Busy(s)
        BY <2>9 DEF ResumeCommit, Busy
      <4>4. ASSUME NEW b \in Batches, Exists(b)'  PROVE Exists(b)
        <5>1. CASE b = on[s]
          BY <3>2, <5>1
        <5>2. CASE b # on[s] /\ b \in held[s]
          BY <5>2 DEF LockInv
        <5>3. CASE b # on[s] /\ b \notin held[s]
          BY <4>1, <4>4, <5>3 DEF WithStatus, Exists
        <5> QED BY <5>1, <5>2, <5>3
      <4>5. Calm
        BY <4>2, <4>3, <4>4 DEF End, Goto, Calm, Busy, TypeOK, SessionTypes
      <4> QED BY <4>5, CalmStep
    <3> QED BY <3>1, <3>2
  <2>10. CASE CloseRefresh(s)
    BY <2>10, RefreshStep
  <2>11. CASE CloseCheck(s)
    <3>1. PassSession(s) /\ Busy(s)
      BY <2>11 DEF PassInv, CloseCheck, Busy
    <3>2. Calm
      BY <2>11, <3>1 DEF CloseCheck, End, Goto, Calm, PassSession, Covered, Busy, Exists,
                         TypeOK, SessionTypes, Row
    <3> QED BY <3>2, CalmStep
  <2>12. ASSUME NEW t \in Tags, PostOk(s, t) \/ PostFail(s, t)
         PROVE  PassInv'
    <3>1. Calm
      BY <2>12 DEF PostOk, PostFail, Goto, Calm, Busy, Exists, TypeOK, SessionTypes
    <3> QED BY <3>1, CalmStep
  <2>13. CASE MarkSent(s)
    BY <2>13, MarkSentStep
  <2>14. CASE CloseTtn(s)
    BY <2>14, CloseTtnStep
  <2>15. CASE Complete(s) \/ CloseFail(s)
    <3>1. PICK st \in Statuses : WriteOutcome(s, st)
      BY <2>15 DEF Complete, CloseFail, Statuses
    <3>2. Busy(s) /\ on[s] \in Batches
      BY <2>15 DEF Complete, CloseFail, Busy, TypeOK, SessionTypes
    <3>3. ASSUME NEW b \in Batches
          PROVE  /\ db'[b].chan = db[b].chan /\ db'[b].sent = db[b].sent
                 /\ Exists(b)' => Exists(b)
      <4>1. CASE b = on[s] /\ Exists(b)
        BY <3>1, <4>1 DEF WriteOutcome, TypeOK, DbTypes, Row
      <4>2. CASE b # on[s] \/ ~Exists(on[s])
        <5>1. db'[b] = db[b]  BY <3>1, <3>2, <4>2 DEF WriteOutcome, TypeOK, DbTypes
        <5> QED BY <5>1 DEF Exists
      <4> QED BY <4>1, <4>2
    <3>4. Calm
      BY <3>1, <3>2, <3>3 DEF WriteOutcome, End, Goto, Calm, Busy, TypeOK, SessionTypes
    <3> QED BY <3>4, CalmStep
  <2> QED BY <1>1, <2>1, <2>4, <2>5, <2>6, <2>7, <2>8, <2>9, <2>10, <2>11, <2>12, <2>13,
             <2>14, <2>15 DEF Step
<1>2. CASE UNCHANGED vars \/ Midnight \/ \E s \in Sessions : Crash(s)
  <2>1. Calm
    BY <1>2 DEF vars, Midnight, Crash, End, Goto, Calm, Busy, Exists, TypeOK, SessionTypes
  <2> QED BY <2>1, CalmStep
<1> QED BY <1>1, <1>2, PassRequest DEF Next

\* In every behaviour, with any overlap of closes, retries, saves and deletions, a
\* TTN has been closed only after a full pass over the balloons of its batch.
THEOREM PassCorrect == Spec => []TtnClosedAfterPass
<1>1. TypeOK /\ PassInv => TtnClosedAfterPass
  BY DEF PassInv, PassRow, Covered, TtnClosedAfterPass, TypeOK, MiriadaTypes
<1>2. TypeOK /\ LockInv /\ PassInv /\ [Next]_vars => PassInv'
  BY PassStep
<1> QED BY <1>1, <1>2, PassInit, TypeCorrect, LocksCorrect, PTL DEF Spec

(***************************************************************************)
(* A completed batch has its TTN closed, provided no client writes the     *)
(* status "completed" itself.                                              *)
(***************************************************************************)

DisciplinedClients == "completed" \notin CreateStatuses \cup PatchStatuses

\* Rows may be written as long as every completed one is covered.
LEMMA DoneEnd ==
  ASSUME TypeOK, DoneInv, NEW s \in Sessions, End(s), UNCHANGED ttnClosed,
         \A b \in Batches : Done(b, db'[b])
  PROVE  DoneInv'
  BY DEF End, Goto, DoneInv, Done, Busy, TypeOK, SessionTypes

LEMMA DoneGoto ==
  ASSUME TypeOK, DoneInv, NEW s \in Sessions, NEW label, Goto(s, label), Busy(s),
         UNCHANGED on, ttnClosed \subseteq ttnClosed',
         label = "complete" /\ on[s] \in TtnBatches => on[s] \in ttnClosed',
         \/ UNCHANGED inst
         \/ \E r : inst' = [inst EXCEPT ![s] = r] /\ Done(on[s], r),
         \A b \in Batches : Done(b, db'[b])
  PROVE  DoneInv'
<1>1. \A b \in Batches : Done(b, db[b])'
  BY DEF Done
<1>2. ASSUME NEW t \in Sessions, Busy(t)'  PROVE Done(on[t], inst[t])'
  <2>1. Busy(t) /\ on'[t] = on[t] /\ on[t] \in Batches
    BY <1>2 DEF Goto, Busy, TypeOK, SessionTypes
  <2>2. Done(on[t], inst'[t])
    BY <2>1 DEF DoneInv, TypeOK, SessionTypes
  <2> QED BY <2>1, <2>2 DEF Done
<1>3. ASSUME NEW t \in Sessions, pc'[t] = "complete", on'[t] \in TtnBatches
      PROVE  on'[t] \in ttnClosed'
  <2>1. CASE t = s
    BY <1>3, <2>1 DEF Goto, TypeOK, SessionTypes
  <2>2. CASE t # s
    BY <1>3, <2>2 DEF Goto, DoneInv, TypeOK, SessionTypes
  <2> QED BY <2>1, <2>2
<1> QED BY <1>1, <1>2, <1>3 DEF DoneInv

LEMMA DoneBegin ==
  ASSUME TypeOK, DoneInv, NEW s \in Sessions, NEW b \in Batches, NEW label, NEW r, NEW w,
         Begin(s, b, label, r, w), label # "complete", Done(b, r), UNCHANGED ttnClosed,
         \A x \in Batches : Done(x, db'[x])
  PROVE  DoneInv'
<1>1. \A x \in Batches : Done(x, db[x])'
  BY DEF Done
<1>2. ASSUME NEW t \in Sessions
      PROVE  /\ Busy(t)' => Done(on[t], inst[t])'
             /\ pc'[t] = "complete" /\ on'[t] \in TtnBatches => on'[t] \in ttnClosed'
  <2>1. CASE t = s
    BY <2>1 DEF Begin, Busy, Done, TypeOK, SessionTypes
  <2>2. CASE t # s
    BY <2>2 DEF Begin, Busy, Done, DoneInv, TypeOK, SessionTypes
  <2> QED BY <2>1, <2>2
<1> QED BY <1>1, <1>2 DEF DoneInv

LEMMA DoneRequest ==
  ASSUME DisciplinedClients, TypeOK, DoneInv, NEW s \in Sessions, Request(s)
  PROVE  DoneInv'
<1> USE DEF dbVars, sessionVars, miriadaVars
<1>1. \A x \in Batches : Done(x, db[x])
  BY DEF DoneInv
<1>2. ASSUME NEW c \in Channels, NEW e \in Edits, NEW st \in CreateStatuses,
             Create(s, c, e, st)
      PROVE  DoneInv'
  <2> DEFINE q == [Apply(e, BlankRow(c)) EXCEPT !.status = st]
             r == WithFlag(q)
  <2>1. q \in Row /\ q.status = st
    <3>1. Apply(e, BlankRow(c)) \in Row  BY BlankRowType, ApplyType
    <3> QED BY <3>1 DEF Row
  <2>2. r.status = st /\ st # "completed"
    BY <2>1 DEF WithFlag, Row, DisciplinedClients
  <2>3. /\ db' = [db EXCEPT ![born + 1] = r] /\ born + 1 \in Batches
        /\ UNCHANGED ttnClosed
        /\ Begin(s, born + 1, "create_pause", r, {}) \/ UNCHANGED sessionVars
    BY <1>2 DEF Create
  <2> HIDE DEF r
  <2>4. \A x \in Batches : Done(x, db'[x])
    BY <1>1, <2>2, <2>3 DEF Done, TypeOK, DbTypes
  <2>5. CASE UNCHANGED sessionVars
    BY <2>3, <2>4, <2>5 DEF DoneInv, Done, Busy
  <2>6. CASE Begin(s, born + 1, "create_pause", r, {})
    BY <2>2, <2>3, <2>4, <2>6, DoneBegin DEF Done
  <2> QED BY <2>3, <2>5, <2>6
<1>3. ASSUME NEW b \in Batches, NEW label, NEW r, NEW w, label # "complete",
             r.status = db[b].status \/ r.status # "completed",
             Begin(s, b, label, r, w), UNCHANGED <<db, ttnClosed>>
      PROVE  DoneInv'
  BY <1>1, <1>3, DoneBegin DEF Done
<1>4. ASSUME NEW b \in Batches, NEW e \in Edits, NEW st \in Statuses, Patch(s, b, e, st)
      PROVE  DoneInv'
  <2> DEFINE r == [Apply(e, db[b]) EXCEPT !.status = st]
  <2>1. r.status = st
    <3>1. Apply(e, db[b]) \in Row  BY ApplyType DEF TypeOK, DbTypes
    <3> QED BY <3>1 DEF Row
  <2>2. /\ Begin(s, b, "save", r, {}) /\ UNCHANGED <<db, ttnClosed>>
        /\ st = db[b].status \/ st # "completed"
    BY <1>4 DEF Patch, DisciplinedClients
  <2> HIDE DEF r
  <2> QED BY <1>3, <2>1, <2>2
<1>5. ASSUME NEW b \in Batches, NEW t \in Tags, AddManual(s, b, t) \/ Remove(s, b, t)
      PROVE  DoneInv'
  BY <1>3, <1>5 DEF AddManual, Remove
<1>6. ASSUME NEW b \in Batches, NEW c \in Channels, NEW t \in Tags, AddRfid(s, c, b, t)
      PROVE  DoneInv'
  BY <1>3, <1>6 DEF AddRfid
<1>7. ASSUME NEW b \in Batches, NEW c \in Channels, AddSensor(s, c, b)
      PROVE  DoneInv'
  <2> DEFINE r == [db[b] EXCEPT !.sensor = @ + 1]
  <2>1. r.status = db[b].status  BY DEF TypeOK, DbTypes, Row
  <2>2. Begin(s, b, "save", r, {}) /\ UNCHANGED <<db, ttnClosed>>
    BY <1>7 DEF AddSensor
  <2> HIDE DEF r
  <2> QED BY <1>3, <2>1, <2>2
<1>8. ASSUME NEW b \in Batches, Pause(s, b) \/ Resume(s, b)
      PROVE  DoneInv'
  BY <1>3, <1>8 DEF Pause, Resume
<1>9. ASSUME NEW b \in Batches, Delete(s, b)
      PROVE  DoneInv'
  <2>1. \A x \in Batches : Done(x, db'[x])
    BY <1>1, <1>9 DEF Delete, BlankRow, Done, TypeOK, DbTypes
  <2> QED BY <1>9, <2>1 DEF Delete, DoneInv, Done, Busy
<1>10. ASSUME NEW b \in Batches, NEW e \in Edits, Close(s, b, e)
       PROVE  DoneInv'
  <2>1. Apply(e, db[b]).status = db[b].status  BY ApplyKeeps DEF TypeOK, DbTypes
  <2>2. PICK label \in {"close_check", "close_save"} :
            Begin(s, b, label, Apply(e, db[b]), {}) /\ UNCHANGED <<db, ttnClosed>>
    BY <1>10 DEF Close
  <2> QED BY <1>3, <2>1, <2>2
<1> QED BY <1>2, <1>4, <1>5, <1>6, <1>7, <1>8, <1>9, <1>10 DEF Request

LEMMA DoneStep ==
  ASSUME TypeOK, DoneInv, NEW s \in Sessions, Step(s)
  PROVE  DoneInv'
<1> USE DEF dbVars, miriadaVars
<1> DEFINE Covers == \A b \in Batches : Done(b, db'[b])
<1>1. \A b \in Batches : Done(b, db[b])
  BY DEF DoneInv
<1>2. UNCHANGED db => Covers
  BY <1>1
<1>3. ASSUME NEW bs, NEW st, db' = WithStatus(bs, st), st # "completed"
      PROVE  Covers
  BY <1>1, <1>3 DEF WithStatus, Done, TypeOK, DbTypes, Row
<1>4. on[s] \in Batches /\ inst[s] \in Row /\ (Busy(s) => Done(on[s], inst[s]))
  BY DEF DoneInv, TypeOK, SessionTypes
<1>5. ASSUME NEW r, Busy(s), inst' = [inst EXCEPT ![s] = r], r.status = inst[s].status
      PROVE  \E q : inst' = [inst EXCEPT ![s] = q] /\ Done(on[s], q)
  BY <1>4, <1>5 DEF Done
<1>6. CASE AddCheck(s)
  BY <1>2, <1>6, DoneEnd, DoneGoto DEF AddCheck, Busy
<1>7. CASE AddLink(s)
  <2>1. CASE Exists(on[s])
    <3> DEFINE r == [inst[s] EXCEPT !.rfid = @ + 1]
    <3>1. r.status = inst[s].status /\ Busy(s)  BY <1>4, <1>7 DEF Row, AddLink, Busy
    <3>2. inst' = [inst EXCEPT ![s] = r]
      BY <1>7, <2>1 DEF AddLink
    <3> HIDE DEF r
    <3> QED BY <1>2, <1>5, <1>7, <2>1, <3>1, <3>2, DoneGoto DEF AddLink
  <2>2. CASE ~Exists(on[s])
    BY <1>2, <1>7, <2>2, DoneEnd DEF AddLink
  <2> QED BY <2>1, <2>2
<1>8. CASE RemoveFind(s)
  BY <1>2, <1>8, DoneEnd, DoneGoto DEF RemoveFind, Busy
<1>9. CASE RemoveUnlink(s)
  <2> DEFINE r == [inst[s] EXCEPT !.rfid = IF @ > 0 THEN @ - 1 ELSE 0]
  <2>1. r.status = inst[s].status /\ Busy(s)  BY <1>4, <1>9 DEF Row, RemoveUnlink, Busy
  <2>2. inst' = [inst EXCEPT ![s] = r]
    BY <1>9 DEF RemoveUnlink
  <2> HIDE DEF r
  <2> QED BY <1>2, <1>5, <1>9, <2>1, <2>2, DoneGoto DEF RemoveUnlink
<1>10. CASE CreatePause(s) \/ PauseSave(s)
  <2>1. Covers
    BY <1>2, <1>3, <1>10 DEF CreatePause, PauseSave
  <2> QED BY <1>10, <2>1, DoneEnd DEF CreatePause, PauseSave
<1>11. CASE Save(s) \/ CloseSave(s)
  <2>1. Busy(s)
    BY <1>11 DEF Save, CloseSave, Busy
  <2>2. WithFlag(inst[s]).status = inst[s].status
    BY <1>4 DEF WithFlag, Row
  <2>3. Covers
    BY <1>1, <1>4, <1>11, <2>1, <2>2 DEF Save, CloseSave, SaveAll, Done, TypeOK, DbTypes
  <2> QED BY <1>11, <2>1, <2>3, DoneEnd, DoneGoto DEF Save, CloseSave
<1>12. CASE ResumePause(s)
  <2>1. Covers BY <1>2, <1>12 DEF ResumePause
  <2> QED BY <1>12, <2>1, DoneGoto DEF ResumePause, Busy
<1>13. CASE ResumeCommit(s)
  <2>1. CASE Exists(on[s])
    <3>1. db' = [WithStatus(held[s], "paused") EXCEPT ![on[s]] =
                    [db[on[s]] EXCEPT !.status = "active"]]
      BY <1>13, <2>1 DEF ResumeCommit
    <3>2. Covers
      BY <1>1, <3>1 DEF WithStatus, Done, TypeOK, DbTypes, Row
    <3> QED BY <1>13, <3>2, DoneEnd DEF ResumeCommit
  <2>2. CASE ~Exists(on[s])
    BY <1>2, <1>13, <2>2, DoneEnd DEF ResumeCommit
  <2> QED BY <2>1, <2>2
<1>14. CASE CloseRefresh(s)
  BY <1>1, <1>2, <1>4, <1>14, DoneEnd, DoneGoto DEF CloseRefresh, Busy
<1>15. CASE CloseCheck(s)
  BY <1>2, <1>15, DoneEnd, DoneGoto DEF CloseCheck, Busy
<1>16. CASE \E t \in Tags : PostOk(s, t) \/ PostFail(s, t)
  <2>1. PICK t \in Tags : PostOk(s, t) \/ PostFail(s, t)
    BY <1>16
  <2>2. UNCHANGED <<pc, inst, on, db, ttnClosed>> => DoneInv'
    BY DEF DoneInv, Done, Busy
  <2> QED BY <1>2, <2>1, <2>2, DoneGoto DEF PostOk, PostFail, Busy
<1>17. CASE MarkSent(s)
  <2>1. CASE Exists(on[s])
    <3> DEFINE r == [inst[s] EXCEPT !.sent = TRUE]
    <3>1. r.status = inst[s].status /\ Busy(s)  BY <1>4, <1>17 DEF Row, MarkSent, Busy
    <3>2. inst' = [inst EXCEPT ![s] = r]
      BY <1>17, <2>1 DEF MarkSent
    <3>3. Covers
      BY <1>1, <1>17, <2>1 DEF MarkSent, Done, TypeOK, DbTypes, Row
    <3> HIDE DEF r
    <3> QED BY <1>5, <1>17, <2>1, <3>1, <3>2, <3>3, DoneGoto DEF MarkSent
  <2>2. CASE ~Exists(on[s])
    BY <1>2, <1>17, <2>2, DoneEnd DEF MarkSent
  <2> QED BY <2>1, <2>2
<1>18. CASE CloseTtn(s)
  <2>1. Busy(s) /\ Covers BY <1>2, <1>18 DEF CloseTtn, Busy
  <2> QED BY <1>18, <2>1, DoneGoto DEF CloseTtn
<1>19. CASE Complete(s) \/ CloseFail(s)
  <2>1. PICK st \in {"completed", "miriada_error"} :
            /\ WriteOutcome(s, st)
            /\ st = "completed" => pc[s] = "complete"
    BY <1>19 DEF Complete, CloseFail
  <2>2. Covers
    <3>1. st = "completed" /\ on[s] \in TtnBatches => on[s] \in ttnClosed
      BY <2>1 DEF DoneInv
    <3>2. ASSUME NEW b \in Batches, b = on[s], Exists(b)  PROVE db'[b].status = st
      BY <2>1, <3>2 DEF WriteOutcome, TypeOK, DbTypes, Row
    <3>3. ASSUME NEW b \in Batches, b # on[s] \/ ~Exists(b)  PROVE db'[b] = db[b]
      BY <2>1, <3>3 DEF WriteOutcome, TypeOK, DbTypes
    <3> QED BY <1>1, <3>1, <3>2, <3>3 DEF Done
  <2> QED BY <2>1, <2>2, DoneEnd DEF WriteOutcome
<1> QED BY <1>6, <1>7, <1>8, <1>9, <1>10, <1>11, <1>12, <1>13, <1>14, <1>15, <1>16,
           <1>17, <1>18, <1>19 DEF Step

\* With clients that leave the status "completed" to the server, a batch that shows
\* as completed has its TTN closed, whatever closes, retries, stale saves and
\* crashes overlapped on the way.
THEOREM CompletedCorrect ==
  ASSUME DisciplinedClients PROVE Spec => []CompletedMeansClosed
<1>1. Init => DoneInv
  BY DEF Init, DoneInv, Done, Busy, BlankRow
<1>2. TypeOK /\ DoneInv /\ [Next]_vars => DoneInv'
  <2> SUFFICES ASSUME TypeOK, DoneInv, [Next]_vars PROVE DoneInv'
    OBVIOUS
  <2>1. CASE UNCHANGED vars \/ Midnight
    BY <2>1 DEF vars, Midnight, dbVars, sessionVars, miriadaVars, DoneInv, Done, Busy
  <2>2. ASSUME NEW s \in Sessions, Crash(s)  PROVE DoneInv'
    BY <2>2, DoneEnd DEF Crash, dbVars, miriadaVars, DoneInv
  <2> QED BY <2>1, <2>2, DoneRequest, DoneStep DEF Next
<1>3. DoneInv => CompletedMeansClosed
  BY BatchAssumption DEF DoneInv, Done, CompletedMeansClosed
<1> QED BY <1>1, <1>2, <1>3, TypeCorrect, PTL DEF Spec

(***************************************************************************)
(* One handler at a time.  Handlers read and write a batch without locking *)
(* it, and where two of them overlap nothing of what follows holds.  Where *)
(* they do not, the invariant is that the copy a handler works on is not   *)
(* stale, and that what it has found out is still true at its next         *)
(* statement.                                                              *)
(***************************************************************************)

\* Handlers do not overlap, and each of them comes to its end.
NoOverlap == (\A s, t \in Sessions : s = t) /\ ~MayCrash

\* Clients leave the RFID counter to the handlers that change the list.
CountsOwned == \A e \in Edits : "rfid" \notin DOMAIN e

\* Clients open no batch with a PATCH: pausing and resuming have requests of their own.
StatusesOwned == PatchStatuses \cap OpenStatuses = {}

\* The statements of add_balloon and remove_balloon before their save(), and of a closing.
ListLabels == {"add_check", "add_link", "remove_find", "remove_unlink"}
CloseLabels == {"close_save", "close_refresh", "close_check", "post", "mark_sent",
                "close_ttn", "complete", "close_fail"}

\* Only keys that were handed out are in use, and nothing is left of a deleted batch.
RowsOK ==
    \A b \in Batches :
        IF Exists(b) THEN b <= born
        ELSE list[b] = {} /\ db[b] = BlankRow(AnyChannel) /\ b \notin today

\* r is a copy of row b that is not stale, but for a status that a PATCH is about to save.
Fresh(label, b, r) ==
    /\ Exists(b) /\ r.status # "absent"
    /\ r.chan = db[b].chan /\ r.sent = db[b].sent
    /\ r.status = db[b].status \/ (label = "save" /\ r.status \in PatchStatuses)

\* What is true of batch b, and of the tags w in hand, before a statement.
At(label, b, w) ==
    /\ label \in ListLabels => Open(db[b]) /\ \E t \in Tags : w = {t}
    /\ label = "add_link" => w \cap list[b] = {}
    /\ label = "remove_unlink" => w \subseteq list[b]
    /\ label = "create_pause" =>
            db[b].status = "active" /\ list[b] = {} /\ (b \in today \/ today = {})
    /\ label = "pause" => db[b].status = "active"
    /\ label \in {"resume_pause", "resume_commit"} => db[b].status = "paused"
    /\ label \in CloseLabels => Open(db[b]) \/ db[b].status = "miriada_error"
    /\ label \in {"post", "mark_sent"} => db[b].chan \in PostingChannels
    /\ label = "post" => w \subseteq list[b] /\ list[b] \subseteq posted[b] \cup w
    /\ label = "mark_sent" => list[b] \subseteq posted[b]
    /\ label \in {"close_ttn", "complete"} => db[b].sent \/ db[b].chan \notin PostingChannels
    /\ label = "complete" => (b \in TtnBatches => b \in ttnClosed)

\* What a handler relies on, and the inductive invariant of handlers that do not overlap.
Alone(s) == Fresh(pc[s], on[s], inst[s]) /\ At(pc[s], on[s], todo[s])

AloneInv == RowsOK /\ \A s \in Sessions : Busy(s) => Alone(s)

\* A request that reads row b, makes a copy r of it and does nothing else yet.
Reads(s, b, label, r, w) ==
    /\ Begin(s, b, label, r, w) /\ UNCHANGED <<dbVars, miriadaVars>>
    /\ r \in Row /\ Fresh(label, b, r) /\ At(label, b, w)
    /\ CountsOwned => r.rfid = db[b].rfid
    /\ label \in {"save", "add_check", "remove_find", "pause", "resume_pause", "close_save",
                  "close_check"}

\* Every request but creation and deletion begins by reading a row.
LEMMA Requests ==
  ASSUME TypeOK, NEW s \in Sessions, Request(s)
  PROVE  \/ \E c \in Channels, e \in Edits, st \in CreateStatuses : Create(s, c, e, st)
         \/ \E b \in Batches : Delete(s, b)
         \/ \E b \in Batches, label \in Labels, r \in Row, w \in SUBSET Tags :
                Reads(s, b, label, r, w)
<1>1. ASSUME NEW e \in Edits, NEW b \in Batches
      PROVE  /\ Apply(e, db[b]).chan = db[b].chan /\ Apply(e, db[b]).sent = db[b].sent
             /\ Apply(e, db[b]).status = db[b].status
             /\ CountsOwned => Apply(e, db[b]).rfid = db[b].rfid
             /\ Apply(e, db[b]) \in Row
  <2>1. db[b] \in Row
    BY DEF TypeOK, DbTypes
  <2>2. CountsOwned => Apply(e, db[b]).rfid = db[b].rfid
    BY <2>1 DEF Apply, Row, CountsOwned
  <2> QED BY <2>1, <2>2, ApplyType, ApplyKeeps
<1>2. ASSUME NEW b \in Batches PROVE db[b] \in Row
  BY DEF TypeOK, DbTypes
<1>3. ASSUME NEW b \in Batches, NEW e \in Edits, NEW st \in Statuses, Patch(s, b, e, st)
      PROVE  \E r \in Row : Reads(s, b, "save", r, {})
  <2> DEFINE a == Apply(e, db[b])
             r == [a EXCEPT !.status = st]
  <2>1. /\ r.chan = db[b].chan /\ r.sent = db[b].sent /\ r.status = st /\ r \in Row
        /\ CountsOwned => r.rfid = db[b].rfid
    <3>1. /\ a.chan = db[b].chan /\ a.sent = db[b].sent /\ a \in Row
          /\ CountsOwned => a.rfid = db[b].rfid
      BY <1>1
    <3> HIDE DEF a
    <3> QED BY <3>1 DEF Row
  <2>2. /\ Exists(b) /\ Begin(s, b, "save", r, {}) /\ UNCHANGED <<dbVars, miriadaVars>>
        /\ st \in PatchStatuses \cup {db[b].status}
    BY <1>3 DEF Patch
  <2> HIDE DEF r
  <2>3. st # "absent"
    BY DEF Statuses
  <2>4. Fresh("save", b, r)
    BY <2>1, <2>2, <2>3 DEF Fresh
  <2>5. At("save", b, {})
    BY DEF At, ListLabels, CloseLabels
  <2> QED BY <2>1, <2>2, <2>4, <2>5 DEF Reads
<1>4. ASSUME NEW b \in Batches, NEW t \in Tags, NEW label \in {"add_check", "remove_find"},
             Open(db[b]), Begin(s, b, label, db[b], {t}), UNCHANGED <<dbVars, miriadaVars>>
      PROVE  Reads(s, b, label, db[b], {t})
  <2>1. Fresh(label, b, db[b])
    BY <1>4 DEF Fresh, Open, OpenStatuses, Exists
  <2>2. At(label, b, {t})
    BY <1>4 DEF At, ListLabels, CloseLabels
  <2> QED BY <1>2, <1>4, <2>1, <2>2 DEF Reads
<1>5. ASSUME NEW b \in Batches, NEW c \in Channels, AddSensor(s, c, b)
      PROVE  \E r \in Row : Reads(s, b, "save", r, {})
  <2> DEFINE r == [db[b] EXCEPT !.sensor = @ + 1]
  <2>1. /\ r.chan = db[b].chan /\ r.sent = db[b].sent /\ r.status = db[b].status
        /\ r \in Row /\ r.rfid = db[b].rfid
    BY <1>2 DEF Row
  <2>2. db[b].status = "active" /\ Begin(s, b, "save", r, {}) /\ UNCHANGED <<dbVars, miriadaVars>>
    BY <1>5 DEF AddSensor, IsCurrent
  <2> HIDE DEF r
  <2>3. Fresh("save", b, r)
    BY <2>1, <2>2 DEF Fresh, Exists
  <2>4. At("save", b, {})
    BY DEF At, ListLabels, CloseLabels
  <2> QED BY <2>1, <2>2, <2>3, <2>4 DEF Reads
<1>6. ASSUME NEW b \in Batches, NEW label \in {"pause", "resume_pause"},
             db[b].status = (IF label = "pause" THEN "active" ELSE "paused"),
             Begin(s, b, label, db[b], {}), UNCHANGED <<dbVars, miriadaVars>>
      PROVE  Reads(s, b, label, db[b], {})
  <2>1. Fresh(label, b, db[b])
    BY <1>6 DEF Fresh, Exists
  <2>2. At(label, b, {})
    BY <1>6 DEF At, ListLabels, CloseLabels
  <2> QED BY <1>2, <1>6, <2>1, <2>2 DEF Reads
<1>7. ASSUME NEW b \in Batches, NEW e \in Edits, Close(s, b, e)
      PROVE  \E label \in Labels, r \in Row : Reads(s, b, label, r, {})
  <2> DEFINE r == Apply(e, db[b])
  <2>1. PICK label \in {"close_check", "close_save"} :
            Begin(s, b, label, r, {}) /\ UNCHANGED <<dbVars, miriadaVars>>
    BY <1>7 DEF Close
  <2>2. /\ r.chan = db[b].chan /\ r.sent = db[b].sent /\ r.status = db[b].status
        /\ CountsOwned => r.rfid = db[b].rfid
        /\ r \in Row
    BY <1>1
  <2> HIDE DEF r
  <2>3. Open(db[b]) \/ db[b].status = "miriada_error"
    BY <1>7 DEF Close
  <2>4. Fresh(label, b, r)
    BY <2>2, <2>3 DEF Fresh, Exists, Open, OpenStatuses
  <2>5. At(label, b, {})
    BY <2>3 DEF At, ListLabels, CloseLabels
  <2> QED BY <2>1, <2>2, <2>4, <2>5 DEF Reads, Labels
<1>8. CASE \E b \in Batches, c \in Channels, t \in Tags :
             AddManual(s, b, t) \/ Remove(s, b, t) \/ AddRfid(s, c, b, t)
  <2>1. PICK b \in Batches, c \in Channels, t \in Tags :
             AddManual(s, b, t) \/ Remove(s, b, t) \/ AddRfid(s, c, b, t)
    BY <1>8
  <2>2. PICK label \in {"add_check", "remove_find"} :
            Open(db[b]) /\ Begin(s, b, label, db[b], {t}) /\ UNCHANGED <<dbVars, miriadaVars>>
    <3>1. CASE AddManual(s, b, t)
      BY <3>1 DEF AddManual
    <3>2. CASE Remove(s, b, t)
      BY <3>2 DEF Remove
    <3>3. CASE AddRfid(s, c, b, t)
      BY <3>3 DEF AddRfid, IsCurrent, Open, OpenStatuses
    <3> QED BY <2>1, <3>1, <3>2, <3>3
  <2>3. Reads(s, b, label, db[b], {t})
    BY <1>4, <2>2
  <2>4. label \in Labels /\ db[b] \in Row /\ {t} \in SUBSET Tags
    BY <1>2 DEF Labels
  <2> QED BY <2>3, <2>4
<1>9. CASE \E b \in Batches : Pause(s, b) \/ Resume(s, b)
  BY <1>2, <1>6, <1>9 DEF Pause, Resume, Labels
<1>10. Channels # {}
  OBVIOUS
<1>11. "save" \in Labels /\ {} \in SUBSET Tags
  BY DEF Labels
<1> QED BY <1>3, <1>5, <1>7, <1>8, <1>9, <1>10, <1>11, Zenon DEF Request

\* The handler that reads stays the only one, so its copy is all there is to check.
LEMMA AloneBy ==
  ASSUME NoOverlap, NEW s \in Sessions, RowsOK', Busy(s)' => Alone(s)'
  PROVE  AloneInv'
BY DEF NoOverlap, AloneInv

\* Rows stay in use, and rows that are not in use stay blank.
LEMMA RowsKept ==
  ASSUME RowsOK, born' = born, today' \subseteq today,
         \A b \in Batches : /\ Exists(b)' <=> Exists(b)
                            /\ ~Exists(b) => db'[b] = db[b] /\ list'[b] = list[b]
  PROVE  RowsOK'
BY DEF RowsOK, BlankRow, AnyChannel

\* Every statement belongs to a handler in flight.
LEMMA StepBusy == ASSUME NEW s \in Sessions, Step(s) PROVE Busy(s)
  BY DEF Step, CreatePause, Save, AddCheck, AddLink, RemoveFind, RemoveUnlink, PauseSave,
         ResumePause, ResumeCommit, CloseSave, CloseRefresh, CloseCheck, PostOk, PostFail,
         MarkSent, CloseTtn, Complete, CloseFail, Busy

\* A request begins with a copy that is not stale, whatever it asks for.
LEMMA AloneRequest ==
  ASSUME TypeOK, NoOverlap, AloneInv, NEW s \in Sessions, Request(s)
  PROVE  AloneInv'
<1> USE DEF dbVars, sessionVars, miriadaVars
<1>1. ASSUME NEW c \in Channels, NEW e \in Edits, NEW st \in CreateStatuses, Create(s, c, e, st)
      PROVE  AloneInv'
  <2> DEFINE a == Apply(e, BlankRow(c))
  <2>0. PICK b, r : b = born + 1 /\ r = WithFlag([a EXCEPT !.status = st])
    OBVIOUS
  <2>1. /\ b \in Batches /\ db' = [db EXCEPT ![b] = r] /\ born' = b /\ today' = today \cup {b}
        /\ UNCHANGED <<list, miriadaVars>> /\ pc[s] = "idle"
        /\ IF st = "active" THEN Begin(s, b, "create_pause", r, {})
           ELSE UNCHANGED sessionVars
    BY <1>1, <2>0 DEF Create, Begin
  <2>2. a \in Row
    BY ApplyType, BlankRowType
  <2>3. r.status = st /\ r \in Row
    <3> HIDE DEF a
    <3> QED BY <2>0, <2>2, WithFlagType DEF WithFlag, Row, Statuses
  <2>4. ~Exists(b) /\ list[b] = {}
    BY <2>0, <2>1 DEF AloneInv, RowsOK, TypeOK, DbTypes
  <2>5. RowsOK'
    <3>1. \A x \in Batches \ {b} : db'[x] = db[x] /\ list'[x] = list[x]
      BY <2>1 DEF TypeOK, DbTypes
    <3>2. db'[b] = r /\ r.status # "absent"
      BY <2>1, <2>3 DEF TypeOK, DbTypes, Statuses
    <3>3. BlankRow(AnyChannel)' = BlankRow(AnyChannel)
      BY DEF BlankRow, AnyChannel
    <3> QED BY <2>0, <2>1, <3>1, <3>2, <3>3 DEF AloneInv, RowsOK, Exists, TypeOK, DbTypes
  <2>6. CASE st = "active"
    <3>1. /\ pc'[s] = "create_pause" /\ on'[s] = b /\ inst'[s] = r /\ todo'[s] = {}
      BY <2>1, <2>6 DEF Begin, TypeOK, SessionTypes
    <3>2. db'[b] = r /\ list'[b] = {} /\ b \in today'
      BY <2>1, <2>4 DEF TypeOK, DbTypes
    <3>3. Fresh("create_pause", b, r)'
      BY <2>3, <2>6, <3>2 DEF Fresh, Exists
    <3>4. At("create_pause", b, {})'
      BY <2>3, <2>6, <3>2 DEF At, ListLabels, CloseLabels
    <3>5. Alone(s)'
      BY <3>1, <3>3, <3>4 DEF Alone
    <3> QED BY <2>5, <3>5, AloneBy
  <2>7. CASE st # "active"
    <3>1. ~Busy(s)'
      BY <2>1, <2>7 DEF Busy
    <3> QED BY <2>5, <3>1, AloneBy
  <2> QED BY <2>6, <2>7
<1>2. ASSUME NEW b \in Batches, Delete(s, b)
      PROVE  AloneInv'
  <2>1. /\ db' = [db EXCEPT ![b] = BlankRow(AnyChannel)] /\ list' = [list EXCEPT ![b] = {}]
        /\ born' = born /\ today' = today \ {b} /\ pc' = pc /\ pc[s] = "idle"
    BY <1>2 DEF Delete
  <2>2. \A x \in Batches : IF x = b THEN db'[x] = BlankRow(AnyChannel) /\ list'[x] = {}
                                    ELSE db'[x] = db[x] /\ list'[x] = list[x]
    BY <2>1 DEF TypeOK, DbTypes
  <2>3. BlankRow(AnyChannel)' = BlankRow(AnyChannel) /\ BlankRow(AnyChannel).status = "absent"
    BY DEF BlankRow, AnyChannel
  <2>4. RowsOK'
    BY <2>1, <2>2, <2>3 DEF AloneInv, RowsOK, Exists
  <2>5. ~Busy(s)'
    BY <2>1 DEF Busy
  <2> QED BY <2>4, <2>5, AloneBy
<1>3. ASSUME NEW b \in Batches, NEW label \in Labels, NEW r \in Row, NEW w \in SUBSET Tags,
             Reads(s, b, label, r, w)
      PROVE  AloneInv'
  <2>1. /\ pc'[s] = label /\ on'[s] = b /\ inst'[s] = r /\ todo'[s] = w
        /\ UNCHANGED <<dbVars, miriadaVars>> /\ Fresh(label, b, r) /\ At(label, b, w)
    BY <1>3 DEF Reads, Begin, TypeOK, SessionTypes
  <2>2. Fresh(label, b, r)' /\ At(label, b, w)'
    BY <2>1 DEF Fresh, At, Exists, Open
  <2>3. Alone(s)'
    BY <2>1, <2>2 DEF Alone
  <2>4. RowsOK'
    BY <2>1, RowsKept DEF AloneInv, Exists
  <2> QED BY <2>3, <2>4, AloneBy
<1> QED BY <1>1, <1>2, <1>3, Requests

\* A statement leaves the copy as it found it, writes it whole, or ends the handler.
LEMMA AloneStep ==
  ASSUME TypeOK, LockInv, NoOverlap, AloneInv, NEW s \in Sessions, Step(s)
  PROVE  AloneInv'
<1> USE DEF dbVars, sessionVars, miriadaVars
<1>0. PICK b, r, w, r1, w1 :
         /\ b = on[s] /\ r = inst[s] /\ w = todo[s] /\ r1 = inst'[s] /\ w1 = todo'[s]
         /\ b \in Batches /\ r \in Row /\ db[b] \in Row /\ pc[s] \in Labels
         /\ w \in SUBSET Tags /\ Busy(s) /\ Fresh(pc[s], b, r) /\ At(pc[s], b, w)
  BY StepBusy DEF AloneInv, Alone, TypeOK, DbTypes, SessionTypes
\* A handler that ends leaves only rows.
<1>1. ASSUME End(s), UNCHANGED <<list, born, today>>,
             \A x \in Batches : /\ Exists(x)' <=> Exists(x)
                                /\ ~Exists(x) => db'[x] = db[x]
      PROVE  AloneInv'
  <2>1. ~Busy(s)'
    BY <1>0, <1>1 DEF End, Goto, Busy, TypeOK, SessionTypes
  <2>2. RowsOK'
    BY <1>0, <1>1, RowsKept DEF AloneInv
  <2> QED BY <1>0, <2>1, <2>2, AloneBy
<1>2. ASSUME End(s), UNCHANGED dbVars
      PROVE  AloneInv'
  BY <1>0, <1>1, <1>2 DEF Exists
<1>3. ASSUME NEW bs, NEW st \in Statuses, End(s), UNCHANGED <<list, born, today>>,
             db' = WithStatus(bs, st), \A x \in bs : Exists(x)
      PROVE  AloneInv'
  <2>1. ASSUME NEW x \in Batches
        PROVE  /\ x \in bs => Exists(x) /\ db'[x].status = st
               /\ x \notin bs => db'[x] = db[x]
    BY <1>0, <1>3 DEF WithStatus, TypeOK, DbTypes, Row
  <2>2. st # "absent"
    BY DEF Statuses
  <2> QED BY <1>0, <1>1, <1>3, <2>1, <2>2 DEF Exists
\* A handler that goes on changes at most its own row, and not its channel.
<1>4. ASSUME NEW label \in Labels, label # "save", Goto(s, label), on' = on,
             UNCHANGED <<born, today>>,
             \A x \in Batches \ {b} : db'[x] = db[x] /\ list'[x] = list[x],
             Exists(b)',
             inst'[s].status = db'[b].status, inst'[s].chan = db'[b].chan,
             inst'[s].sent = db'[b].sent, At(label, b, w1)'
      PROVE  AloneInv'
  <2>1. RowsOK'
    BY <1>0, <1>4, RowsKept DEF AloneInv, Fresh, Exists
  <2>2. pc'[s] = label /\ on'[s] = b
    BY <1>0, <1>4 DEF Goto, TypeOK, SessionTypes
  <2>3. Fresh(label, b, r1)'
    BY <1>0, <1>4 DEF Fresh, Exists
  <2>4. Alone(s)'
    BY <1>0, <1>4, <2>2, <2>3 DEF Alone
  <2> QED BY <1>0, <2>1, <2>4, AloneBy
\* ... and to its save() with a new counter in its copy.
<1>5. ASSUME Goto(s, "save"), UNCHANGED <<db, on, todo, born, today>>,
             \A x \in Batches \ {b} : list'[x] = list[x],
             inst'[s].status = r.status, inst'[s].chan = r.chan, inst'[s].sent = r.sent,
             pc[s] # "save"
      PROVE  AloneInv'
  <2>1. RowsOK'
    BY <1>0, <1>5, RowsKept DEF AloneInv, Fresh, Exists
  <2>2. pc'[s] = "save" /\ on'[s] = b
    BY <1>0, <1>5 DEF Goto, TypeOK, SessionTypes
  <2>3. Fresh("save", b, r1)'
    BY <1>0, <1>5 DEF Fresh, Exists
  <2>4. At("save", b, w1)'
    BY DEF At, ListLabels, CloseLabels
  <2>5. Alone(s)'
    BY <1>0, <2>2, <2>3, <2>4 DEF Alone
  <2> QED BY <1>0, <2>1, <2>5, AloneBy
\* save() of the copy.
<1>6. ASSUME SaveAll(s)
      PROVE  /\ UNCHANGED <<list, born, today>> /\ Exists(b)'
             /\ db'[b].status = r.status /\ db'[b].chan = r.chan /\ db'[b].sent = r.sent
             /\ \A x \in Batches \ {b} : db'[x] = db[x]
  <2>1. db' = [db EXCEPT ![b] = WithFlag(r)] /\ UNCHANGED <<list, born, today>>
    BY <1>0, <1>6 DEF SaveAll, Fresh
  <2>2. db'[b] = WithFlag(r)
    BY <1>0, <2>1 DEF TypeOK, DbTypes
  <2>3. WithFlag(r).status = r.status /\ WithFlag(r).chan = r.chan /\ WithFlag(r).sent = r.sent
    BY <1>0 DEF WithFlag, Row
  <2>4. \A x \in Batches \ {b} : db'[x] = db[x]
    BY <1>0, <2>1 DEF TypeOK, DbTypes
  <2> QED BY <1>0, <2>1, <2>2, <2>3, <2>4 DEF Fresh, Exists
<1>7. ASSUME NEW label, label \notin ListLabels \cup CloseLabels,
             label \notin {"create_pause", "pause", "resume_pause"},
             label = "resume_commit" => db'[b].status = "paused"
      PROVE  At(label, b, w1)'
  BY <1>7 DEF At, ListLabels, CloseLabels
<1>10. CASE CreatePause(s)
  BY <1>0, <1>3, <1>10 DEF CreatePause, OtherActive, Exists, Statuses
<1>11. CASE Save(s)
  <2>1. SaveAll(s) /\ End(s)
    BY <1>0, <1>11 DEF Save
  <2> QED BY <1>0, <1>1, <1>6, <2>1 DEF Fresh, Exists
<1>12. CASE AddCheck(s)
  <2>1. CASE End(s)
    BY <1>0, <1>2, <1>12, <2>1 DEF AddCheck
  <2>2. CASE ~(todo[s] \subseteq list[b])
    <3>1. /\ pc[s] = "add_check" /\ Goto(s, "add_link")
          /\ UNCHANGED <<dbVars, on, inst, todo, miriadaVars>>
      BY <1>0, <1>12, <2>2 DEF AddCheck
    <3>2. At("add_link", b, w1)'
      <4>1. Open(db[b]) /\ \E t \in Tags : todo[s] = {t}
        BY <1>0, <3>1 DEF At, ListLabels
      <4>2. todo[s] \cap list[b] = {}
        BY <1>0, <2>2, <4>1
      <4> QED BY <1>0, <3>1, <4>1, <4>2 DEF At, Open, ListLabels, CloseLabels
    <3> QED BY <1>0, <1>4, <3>1, <3>2 DEF Fresh, Exists, Labels
  <2> QED BY <1>0, <1>12, <2>1, <2>2 DEF AddCheck
<1>13. CASE AddLink(s)
  <2>1. /\ pc[s] = "add_link" /\ Goto(s, "save") /\ UNCHANGED <<db, born, today, on, todo>>
        /\ list' = [list EXCEPT ![b] = @ \cup todo[s]] /\ inst' = [inst EXCEPT ![s].rfid = @ + 1]
    BY <1>0, <1>13 DEF AddLink, Fresh
  <2>2. inst'[s] = [r EXCEPT !.rfid = @ + 1]
    BY <1>0, <2>1 DEF TypeOK, SessionTypes
  <2>3. inst'[s].status = r.status /\ inst'[s].chan = r.chan /\ inst'[s].sent = r.sent
    BY <1>0, <2>2 DEF Row
  <2>4. \A x \in Batches \ {b} : list'[x] = list[x]
    BY <1>0, <2>1 DEF TypeOK, DbTypes
  <2> QED BY <1>0, <1>5, <2>1, <2>3, <2>4
<1>14. CASE RemoveFind(s)
  <2>1. CASE End(s)
    BY <1>0, <1>2, <1>14, <2>1 DEF RemoveFind
  <2>2. CASE todo[s] \subseteq list[b]
    <3>1. /\ pc[s] = "remove_find" /\ Goto(s, "remove_unlink")
          /\ UNCHANGED <<dbVars, on, inst, todo, miriadaVars>>
      BY <1>0, <1>14, <2>2 DEF RemoveFind
    <3>2. At("remove_unlink", b, w1)'
      <4>1. Open(db[b]) /\ \E t \in Tags : todo[s] = {t}
        BY <1>0, <3>1 DEF At, ListLabels
      <4> QED BY <1>0, <2>2, <3>1, <4>1 DEF At, Open, ListLabels, CloseLabels
    <3> QED BY <1>0, <1>4, <3>1, <3>2 DEF Fresh, Exists, Labels
  <2> QED BY <1>0, <1>14, <2>1, <2>2 DEF RemoveFind
<1>15. CASE RemoveUnlink(s)
  <2>1. /\ pc[s] = "remove_unlink" /\ Goto(s, "save") /\ UNCHANGED <<db, born, today, on, todo>>
        /\ list' = [list EXCEPT ![b] = @ \ todo[s]]
        /\ inst' = [inst EXCEPT ![s].rfid = IF @ > 0 THEN @ - 1 ELSE 0]
    BY <1>0, <1>15 DEF RemoveUnlink
  <2>2. inst'[s] = [r EXCEPT !.rfid = IF @ > 0 THEN @ - 1 ELSE 0]
    BY <1>0, <2>1 DEF TypeOK, SessionTypes
  <2>3. inst'[s].status = r.status /\ inst'[s].chan = r.chan /\ inst'[s].sent = r.sent
    BY <1>0, <2>2 DEF Row
  <2>4. \A x \in Batches \ {b} : list'[x] = list[x]
    BY <1>0, <2>1 DEF TypeOK, DbTypes
  <2> QED BY <1>0, <1>5, <2>1, <2>3, <2>4
<1>16. CASE PauseSave(s)
  BY <1>0, <1>2, <1>3, <1>16 DEF PauseSave, Exists, Statuses
<1>17. CASE ResumePause(s)
  <2>1. pc[s] = "resume_pause" /\ Goto(s, "resume_commit") /\ UNCHANGED <<dbVars, on, inst, todo>>
    BY <1>0, <1>17 DEF ResumePause
  <2>2. db[b].status = "paused"
    BY <1>0, <2>1 DEF At
  <2>3. At("resume_commit", b, w1)'
    BY <1>0, <1>7, <2>1, <2>2 DEF ListLabels, CloseLabels
  <2> QED BY <1>0, <1>4, <2>1, <2>3 DEF Fresh, Exists, Labels
<1>18. CASE ResumeCommit(s)
  <2>1. /\ End(s) /\ UNCHANGED <<list, born, today>> /\ pc[s] = "resume_commit"
        /\ db' = [WithStatus(held[s], "paused") EXCEPT ![b] = [db[b] EXCEPT !.status = "active"]]
    BY <1>0, <1>18 DEF ResumeCommit, Fresh
  <2>2. ASSUME NEW x \in Batches
        PROVE  /\ x = b => db'[x].status = "active"
               /\ x # b /\ x \in held[s] => db'[x].status = "paused"
               /\ x # b /\ x \notin held[s] => db'[x] = db[x]
    BY <1>0, <2>1 DEF WithStatus, TypeOK, DbTypes, Row
  <2>3. \A x \in held[s] : Exists(x)
    BY DEF LockInv
  <2> QED BY <1>0, <1>1, <2>1, <2>2, <2>3 DEF Exists, Fresh
<1>19. CASE CloseSave(s)
  <2>1. /\ pc[s] = "close_save" /\ SaveAll(s) /\ Goto(s, "close_refresh")
        /\ UNCHANGED <<on, inst, todo>>
    BY <1>0, <1>19 DEF CloseSave
  <2>2. At("close_refresh", b, w1)'
    BY <1>0, <1>6, <2>1 DEF At, Fresh, Open, ListLabels, CloseLabels
  <2> QED BY <1>0, <1>4, <1>6, <2>1, <2>2 DEF Labels
<1>20. CASE CloseRefresh(s)
  <2>1. /\ pc[s] = "close_refresh" /\ inst' = [inst EXCEPT ![s] = db[b]]
        /\ Goto(s, "close_check") /\ UNCHANGED <<dbVars, on, todo>>
    BY <1>0, <1>20 DEF CloseRefresh, Fresh
  <2>2. inst'[s] = db[b]
    BY <1>0, <2>1 DEF TypeOK, SessionTypes
  <2>3. At("close_check", b, w1)'
    BY <1>0, <2>1 DEF At, Open, ListLabels, CloseLabels
  <2> QED BY <1>0, <1>4, <2>1, <2>2, <2>3 DEF Fresh, Exists, Labels
<1>21. CASE CloseCheck(s)
  <2> DEFINE mustPost == ~r.sent /\ r.chan \in PostingChannels
  <2>1. CASE End(s)
    BY <1>0, <1>2, <1>21, <2>1 DEF CloseCheck
  <2>2. CASE ~mustPost /\ Goto(s, "close_ttn") /\ UNCHANGED <<on, inst, todo>>
    <3>1. pc[s] = "close_check" /\ UNCHANGED <<dbVars, ttnClosed>>
      BY <1>0, <1>21 DEF CloseCheck
    <3>2. At("close_ttn", b, w1)'
      BY <1>0, <2>2, <3>1 DEF At, Fresh, Open, ListLabels, CloseLabels
    <3> QED BY <1>0, <1>4, <2>2, <3>1, <3>2 DEF Fresh, Exists, Labels
  <2>3. CASE /\ mustPost /\ todo' = [todo EXCEPT ![s] = list[b]] /\ UNCHANGED <<on, inst>>
             /\ Goto(s, IF list[b] = {} THEN "mark_sent"
                        ELSE IF r.chan \in MismatchedChannels THEN "close_fail" ELSE "post")
    <3>1. pc[s] = "close_check" /\ UNCHANGED <<dbVars, posted, ttnClosed>>
      BY <1>0, <1>21 DEF CloseCheck
    <3>2. todo'[s] = list[b]
      BY <1>0, <2>3 DEF TypeOK, SessionTypes
    <3>3. PICK label \in {"mark_sent", "close_fail", "post"} :
              Goto(s, label) /\ (label = "mark_sent" => list[b] = {})
      BY <1>0, <2>3
    <3>4. At(label, b, w1)'
      BY <1>0, <2>3, <3>1, <3>2, <3>3 DEF At, Fresh, Open, ListLabels, CloseLabels
    <3> QED BY <1>0, <1>4, <2>3, <3>1, <3>3, <3>4 DEF Fresh, Exists, Labels
  <2> QED BY <1>0, <1>21, <2>1, <2>2, <2>3 DEF CloseCheck
<1>22. CASE \E t \in Tags : PostOk(s, t)
  <2>1. PICK t \in Tags : PostOk(s, t)
    BY <1>0, <1>22
  <2>2. /\ pc[s] = "post" /\ t \in todo[s] /\ todo' = [todo EXCEPT ![s] = @ \ {t}]
        /\ posted' = [posted EXCEPT ![b] = @ \cup {t}] /\ UNCHANGED <<dbVars, on, inst, ttnClosed>>
    BY <1>0, <2>1 DEF PostOk
  <2>3. todo'[s] = todo[s] \ {t} /\ posted'[b] = posted[b] \cup {t}
    BY <1>0, <2>2 DEF TypeOK, SessionTypes, MiriadaTypes
  <2>4. todo[s] \subseteq list[b] /\ list[b] \subseteq posted[b] \cup todo[s]
    BY <1>0, <2>2 DEF At
  <2>5. PICK label \in {"post", "mark_sent"} :
            Goto(s, label) /\ (label = "mark_sent" => todo[s] = {t})
    BY <1>0, <2>1, <2>2 DEF PostOk, Goto, TypeOK, SessionTypes
  <2>6. At(label, b, w1)'
    BY <1>0, <2>2, <2>3, <2>4, <2>5 DEF At, Open, ListLabels, CloseLabels
  <2> QED BY <1>0, <1>4, <2>2, <2>5, <2>6 DEF Fresh, Exists, Labels
<1>23. CASE \E t \in Tags : PostFail(s, t)
  <2>1. pc[s] = "post" /\ Goto(s, "close_fail") /\ UNCHANGED <<dbVars, on, inst, todo>>
    BY <1>0, <1>23 DEF PostFail
  <2>2. At("close_fail", b, w1)'
    BY <1>0, <2>1 DEF At, Open, ListLabels, CloseLabels
  <2> QED BY <1>0, <1>4, <2>1, <2>2 DEF Fresh, Exists, Labels
<1>24. CASE MarkSent(s)
  <2>1. /\ pc[s] = "mark_sent" /\ db' = [db EXCEPT ![b].sent = TRUE]
        /\ inst' = [inst EXCEPT ![s].sent = TRUE]
        /\ Goto(s, "close_ttn") /\ UNCHANGED <<list, born, today, on, todo, miriadaVars>>
    BY <1>0, <1>24 DEF MarkSent, Fresh
  <2>2. db'[b] = [db[b] EXCEPT !.sent = TRUE] /\ inst'[s] = [r EXCEPT !.sent = TRUE]
    BY <1>0, <2>1 DEF TypeOK, DbTypes, SessionTypes
  <2>3. /\ db'[b].sent /\ db'[b].status = db[b].status /\ db'[b].chan = db[b].chan
        /\ inst'[s].sent = db'[b].sent /\ inst'[s].status = r.status /\ inst'[s].chan = r.chan
    BY <1>0, <2>2 DEF Row
  <2>4. \A x \in Batches \ {b} : db'[x] = db[x] /\ list'[x] = list[x]
    BY <1>0, <2>1 DEF TypeOK, DbTypes
  <2>5. At("close_ttn", b, w1)'
    BY <1>0, <2>1, <2>3 DEF At, Open, ListLabels, CloseLabels
  <2> QED BY <1>0, <1>4, <2>1, <2>3, <2>4, <2>5 DEF Fresh, Exists, Labels
<1>25. CASE CloseTtn(s)
  <2>1. PICK label \in {"complete", "close_fail"} :
            /\ pc[s] = "close_ttn" /\ Goto(s, label) /\ UNCHANGED <<dbVars, on, inst, todo, posted>>
            /\ label = "complete" => (b \in TtnBatches => b \in ttnClosed')
    BY <1>0, <1>25 DEF CloseTtn
  <2>2. At(label, b, w1)'
    BY <1>0, <2>1 DEF At, Open, ListLabels, CloseLabels
  <2> QED BY <1>0, <1>4, <2>1, <2>2 DEF Fresh, Exists, Labels
<1>26. CASE Complete(s) \/ CloseFail(s)
  <2>1. PICK st \in {"completed", "miriada_error"} : WriteOutcome(s, st)
    BY <1>0, <1>26 DEF Complete, CloseFail
  <2>2. /\ End(s) /\ UNCHANGED <<list, born, today>>
        /\ db' = [db EXCEPT ![b].status = st, ![b].failed = (st = "miriada_error")]
    BY <1>0, <2>1 DEF WriteOutcome, Fresh
  <2>3. db'[b].status = st /\ \A x \in Batches \ {b} : db'[x] = db[x]
    BY <1>0, <2>2 DEF TypeOK, DbTypes, Row
  <2> QED BY <1>0, <1>1, <2>2, <2>3 DEF Fresh, Exists
<1> QED BY <1>0, <1>10, <1>11, <1>12, <1>13, <1>14, <1>15, <1>16, <1>17, <1>18, <1>19, <1>20, <1>21,
           <1>22, <1>23, <1>24, <1>25, <1>26 DEF Step

(***************************************************************************)
(* The counter and the list.                                               *)
(***************************************************************************)

\* The counter of a row is the size of its list, but for the row whose new counter is still
\* in the copy of the handler that is about to save it.
CountInv ==
    /\ \A b \in Batches : IsFiniteSet(list[b])
    /\ \A b \in Batches :
         Exists(b) /\ (\A s \in Sessions : pc[s] = "save" => on[s] # b)
            => db[b].rfid = Cardinality(list[b])
    /\ \A s \in Sessions :
         /\ pc[s] = "save" => inst[s].rfid = Cardinality(list[on[s]])
         /\ Busy(s) /\ pc[s] # "save" => inst[s].rfid = db[on[s]].rfid

\* No request changes a list, and none sets the counter.
LEMMA CountRequest ==
  ASSUME TypeOK, NoOverlap, CountsOwned, AloneInv, CountInv, NEW s \in Sessions, Request(s)
  PROVE  CountInv'
<1> USE DEF dbVars, sessionVars, miriadaVars
<1>0. pc[s] = "idle" /\ \A t \in Sessions : t = s
  BY DEF NoOverlap, Request, Create, Patch, AddManual, Remove, AddRfid, AddSensor, Pause,
         Resume, Delete, Close, Begin
<1>1. \A x \in Batches : Exists(x) => db[x].rfid = Cardinality(list[x])
  BY <1>0 DEF CountInv
<1>2. ASSUME NEW c \in Channels, NEW e \in Edits, NEW st \in CreateStatuses, Create(s, c, e, st)
      PROVE  CountInv'
  <2> DEFINE a == Apply(e, BlankRow(c))
  <2>0. PICK b, r : b = born + 1 /\ r = WithFlag([a EXCEPT !.status = st])
    OBVIOUS
  <2>1. /\ b \in Batches /\ db' = [db EXCEPT ![b] = r] /\ UNCHANGED list
        /\ \/ Begin(s, b, "create_pause", r, {})
           \/ UNCHANGED sessionVars
    BY <1>2, <2>0 DEF Create
  <2>2. a \in Row /\ a.rfid = 0
    <3>1. BlankRow(c) \in Row /\ BlankRow(c).rfid = 0
      BY BlankRowType DEF BlankRow
    <3>2. Apply(e, BlankRow(c)).rfid = BlankRow(c).rfid
      BY <3>1 DEF Apply, Row, CountsOwned
    <3> QED BY <3>1, <3>2, ApplyType
  <2>3. r.rfid = 0
    <3> HIDE DEF a
    <3> QED BY <2>0, <2>2 DEF WithFlag, Row
  <2>4. list[b] = {} /\ Cardinality({}) = 0
    BY <2>0, <2>1, FS_EmptySet DEF AloneInv, RowsOK, TypeOK, DbTypes
  <2>5. db'[b] = r /\ \A x \in Batches \ {b} : db'[x] = db[x]
    BY <2>1 DEF TypeOK, DbTypes
  <2>6. \/ pc'[s] = "create_pause" /\ on'[s] = b /\ inst'[s] = r
        \/ pc'[s] = "idle"
    BY <1>0, <2>1 DEF Begin, TypeOK, SessionTypes
  <2> QED BY <1>0, <1>1, <2>1, <2>3, <2>4, <2>5, <2>6 DEF CountInv, Exists, Busy
<1>3. ASSUME NEW b \in Batches, Delete(s, b)
      PROVE  CountInv'
  <2>1. /\ db' = [db EXCEPT ![b] = BlankRow(AnyChannel)] /\ list' = [list EXCEPT ![b] = {}]
        /\ pc' = pc
    BY <1>3 DEF Delete
  <2>2. /\ db'[b].status = "absent" /\ list'[b] = {}
        /\ \A x \in Batches \ {b} : db'[x] = db[x] /\ list'[x] = list[x]
    BY <2>1 DEF TypeOK, DbTypes, BlankRow
  <2>3. IsFiniteSet({})
    BY FS_EmptySet
  <2> QED BY <1>0, <1>1, <2>1, <2>2, <2>3 DEF CountInv, Exists, Busy
<1>4. ASSUME NEW b \in Batches, NEW label \in Labels, NEW r \in Row, NEW w \in SUBSET Tags,
             Reads(s, b, label, r, w)
      PROVE  CountInv'
  <2>1. /\ pc'[s] = label /\ on'[s] = b /\ inst'[s] = r /\ UNCHANGED <<db, list>>
        /\ r.rfid = db[b].rfid /\ Exists(b)
    BY <1>4 DEF Reads, Begin, Fresh, TypeOK, SessionTypes
  <2> QED BY <1>0, <1>1, <2>1 DEF CountInv, Exists
<1> QED BY <1>2, <1>3, <1>4, Requests

\* AddLink and RemoveUnlink move the list and the copy's counter by one; save() follows.
LEMMA CountStep ==
  ASSUME TypeOK, LockInv, NoOverlap, AloneInv, CountInv, NEW s \in Sessions, Step(s)
  PROVE  CountInv'
<1> USE DEF dbVars, sessionVars, miriadaVars
<1>0. PICK b, r, w :
         /\ b = on[s] /\ r = inst[s] /\ w = todo[s]
         /\ b \in Batches /\ r \in Row /\ db[b] \in Row /\ w \in SUBSET Tags
         /\ Busy(s) /\ Exists(b) /\ r.status # "absent" /\ At(pc[s], b, w)
  BY StepBusy DEF AloneInv, Alone, Fresh, TypeOK, DbTypes, SessionTypes
<1>1. \A t \in Sessions : t = s
  BY DEF NoOverlap
<1>2. ASSUME pc[s] # "save"
      PROVE  /\ r.rfid = db[b].rfid
             /\ \A x \in Batches : Exists(x) => db[x].rfid = Cardinality(list[x])
  BY <1>0, <1>1, <1>2 DEF CountInv
\* Steps that leave lists and counters alone.
<1>3. ASSUME pc[s] # "save", list' = list,
             \A x \in Batches : Exists(x)' => Exists(x) /\ db'[x].rfid = db[x].rfid,
             ~Busy(s)' \/ (pc'[s] # "save" /\ on'[s] = b /\ db'[b].rfid = db[b].rfid
                             /\ inst'[s].rfid \in {r.rfid, db[b].rfid})
      PROVE  CountInv'
  BY <1>0, <1>1, <1>2, <1>3 DEF CountInv, Busy
<1>4. ASSUME End(s), pc[s] # "save", list' = list,
             \A x \in Batches : Exists(x)' => Exists(x) /\ db'[x].rfid = db[x].rfid
      PROVE  CountInv'
  <2>1. ~Busy(s)'
    BY <1>4 DEF End, Goto, Busy, TypeOK, SessionTypes
  <2> QED BY <1>3, <1>4, <2>1
<1>5. ASSUME NEW label, label # "save", pc[s] # "save", Goto(s, label),
             UNCHANGED <<db, list, on, inst>>
      PROVE  CountInv'
  <2>1. pc'[s] = label
    BY <1>5 DEF Goto, TypeOK, SessionTypes
  <2> QED BY <1>0, <1>3, <1>5, <2>1 DEF Exists
<1>6. ASSUME NEW bs, NEW st \in Statuses
      PROVE  \A x \in Batches : /\ WithStatus(bs, st)[x].rfid = db[x].rfid
                                /\ x \notin bs => WithStatus(bs, st)[x] = db[x]
  BY DEF WithStatus, TypeOK, DbTypes, Row
<1>7. ASSUME SaveAll(s)
      PROVE  /\ list' = list /\ db'[b].rfid = r.rfid /\ db'[b].status = r.status
             /\ \A x \in Batches \ {b} : db'[x] = db[x]
  <2>1. db' = [db EXCEPT ![b] = WithFlag(r)] /\ list' = list
    BY <1>0, <1>7 DEF SaveAll
  <2>2. WithFlag(r).rfid = r.rfid /\ WithFlag(r).status = r.status
    BY <1>0 DEF WithFlag, Row
  <2> QED BY <1>0, <2>1, <2>2 DEF TypeOK, DbTypes
<1>10. CASE CreatePause(s)
  <2>1. \A x \in OtherActive(on[s], inst[s].chan) : Exists(x)
    BY DEF OtherActive, Exists
  <2>2. /\ End(s) /\ list' = list /\ pc[s] = "create_pause"
        /\ db' = WithStatus(OtherActive(on[s], inst[s].chan), "paused")
    BY <1>10 DEF CreatePause
  <2> QED BY <1>4, <1>6, <2>1, <2>2 DEF Exists, Statuses
<1>11. CASE Save(s)
  <2>1. pc[s] = "save" /\ SaveAll(s) /\ End(s)
    BY <1>11 DEF Save
  <2>2. r.rfid = Cardinality(list[b])
    BY <1>0, <2>1 DEF CountInv
  <2>3. \A x \in Batches \ {b} : Exists(x) => db[x].rfid = Cardinality(list[x])
    BY <1>0, <1>1 DEF CountInv
  <2>4. pc'[s] = "idle"
    BY <2>1 DEF End, Goto, TypeOK, SessionTypes
  <2> QED BY <1>0, <1>1, <1>7, <2>1, <2>2, <2>3, <2>4 DEF CountInv, Exists, Busy
<1>12. CASE AddCheck(s) \/ RemoveFind(s)
  BY <1>4, <1>5, <1>12 DEF AddCheck, RemoveFind, Exists
<1>13. CASE AddLink(s)
  <2>1. /\ pc[s] = "add_link" /\ Goto(s, "save") /\ UNCHANGED <<db, on>>
        /\ list' = [list EXCEPT ![b] = @ \cup w] /\ inst' = [inst EXCEPT ![s].rfid = @ + 1]
    BY <1>0, <1>13 DEF AddLink
  <2>2. PICK t \in Tags : w = {t} /\ t \notin list[b]
    BY <1>0, <2>1 DEF At, ListLabels
  <2>3. inst'[s].rfid = r.rfid + 1 /\ pc'[s] = "save" /\ on'[s] = b
    BY <1>0, <2>1 DEF Goto, TypeOK, SessionTypes, Row
  <2>4. list'[b] = list[b] \cup {t} /\ \A x \in Batches \ {b} : list'[x] = list[x]
    BY <1>0, <2>1, <2>2 DEF TypeOK, DbTypes
  <2>5. IsFiniteSet(list'[b]) /\ Cardinality(list'[b]) = Cardinality(list[b]) + 1
    <3>1. IsFiniteSet(list[b])
      BY <1>0 DEF CountInv
    <3>2. /\ IsFiniteSet(list[b] \cup {t})
          /\ Cardinality(list[b] \cup {t}) = IF t \in list[b] THEN Cardinality(list[b])
                                             ELSE Cardinality(list[b]) + 1
      BY <3>1, FS_AddElement
    <3> QED BY <2>2, <2>4, <3>2
  <2> QED BY <1>0, <1>1, <1>2, <2>1, <2>3, <2>4, <2>5 DEF CountInv, Exists
<1>14. CASE RemoveUnlink(s)
  <2>1. /\ pc[s] = "remove_unlink" /\ Goto(s, "save") /\ UNCHANGED <<db, on>>
        /\ list' = [list EXCEPT ![b] = @ \ w]
        /\ inst' = [inst EXCEPT ![s].rfid = IF @ > 0 THEN @ - 1 ELSE 0]
    BY <1>0, <1>14 DEF RemoveUnlink
  <2>2. PICK t \in Tags : w = {t} /\ t \in list[b]
    BY <1>0, <2>1 DEF At, ListLabels
  <2>3. /\ inst'[s].rfid = (IF r.rfid > 0 THEN r.rfid - 1 ELSE 0)
        /\ pc'[s] = "save" /\ on'[s] = b
    BY <1>0, <2>1 DEF Goto, TypeOK, SessionTypes, Row
  <2>4. list'[b] = list[b] \ {t} /\ \A x \in Batches \ {b} : list'[x] = list[x]
    BY <1>0, <2>1, <2>2 DEF TypeOK, DbTypes
  <2>5. IsFiniteSet(list'[b]) /\ Cardinality(list'[b]) = Cardinality(list[b]) - 1
    <3>1. IsFiniteSet(list[b])
      BY <1>0 DEF CountInv
    <3>2. /\ IsFiniteSet(list[b] \ {t})
          /\ Cardinality(list[b] \ {t}) = IF t \in list[b] THEN Cardinality(list[b]) - 1
                                          ELSE Cardinality(list[b])
      BY <3>1, FS_RemoveElement
    <3> QED BY <2>2, <2>4, <3>2
  <2>6. Cardinality(list'[b]) \in Nat /\ Cardinality(list[b]) \in Nat
    BY <1>0, <2>5, FS_CardinalityType DEF CountInv
  <2>7. r.rfid = Cardinality(list[b])
    BY <1>0, <1>2, <2>1
  <2>8. inst'[s].rfid = Cardinality(list'[b])
    BY <2>3, <2>5, <2>6, <2>7
  <2> QED BY <1>0, <1>1, <1>2, <2>1, <2>3, <2>4, <2>5, <2>8 DEF CountInv, Exists
<1>15. CASE PauseSave(s)
  <2>1. /\ End(s) /\ list' = list /\ pc[s] = "pause" /\ db' = WithStatus({b}, "paused")
    BY <1>0, <1>15 DEF PauseSave
  <2> QED BY <1>0, <1>4, <1>6, <2>1 DEF Exists, Statuses
<1>16. CASE ResumePause(s)
  BY <1>5, <1>16 DEF ResumePause
<1>17. CASE ResumeCommit(s)
  <2>1. /\ End(s) /\ list' = list /\ pc[s] = "resume_commit"
        /\ db' = [WithStatus(held[s], "paused") EXCEPT ![b] = [db[b] EXCEPT !.status = "active"]]
    BY <1>0, <1>17 DEF ResumeCommit
  <2>2. \A x \in Batches : db'[x].rfid = db[x].rfid
    BY <1>0, <2>1 DEF WithStatus, TypeOK, DbTypes, Row
  <2>3. \A x \in Batches \ {b} : x \notin held[s] => db'[x] = db[x]
    BY <1>0, <1>6, <2>1 DEF WithStatus, TypeOK, DbTypes, Row
  <2>4. \A x \in held[s] : Exists(x)
    BY DEF LockInv
  <2> QED BY <1>0, <1>4, <2>1, <2>2, <2>3, <2>4 DEF Exists
<1>18. CASE CloseSave(s)
  <2>1. pc[s] = "close_save" /\ SaveAll(s) /\ Goto(s, "close_refresh") /\ UNCHANGED <<on, inst>>
    BY <1>18 DEF CloseSave
  <2>2. pc'[s] = "close_refresh" /\ on'[s] = b /\ inst'[s] = r
    BY <1>0, <2>1 DEF Goto, TypeOK, SessionTypes
  <2> QED BY <1>0, <1>2, <1>3, <1>7, <2>1, <2>2 DEF Exists
<1>19. CASE CloseRefresh(s)
  <2>1. /\ pc[s] = "close_refresh" /\ inst' = [inst EXCEPT ![s] = db[b]]
        /\ Goto(s, "close_check") /\ UNCHANGED <<db, list, on>>
    BY <1>0, <1>19 DEF CloseRefresh
  <2>2. pc'[s] = "close_check" /\ on'[s] = b /\ inst'[s] = db[b]
    BY <1>0, <2>1 DEF Goto, TypeOK, SessionTypes
  <2> QED BY <1>0, <1>3, <2>1, <2>2 DEF Exists
<1>20. CASE CloseCheck(s)
  <2>1. pc[s] = "close_check" /\ UNCHANGED <<db, list>>
    BY <1>20 DEF CloseCheck
  <2>2. CASE End(s)
    BY <1>4, <2>1, <2>2 DEF Exists
  <2>3. CASE \E label \in Labels \ {"save"} : Goto(s, label) /\ UNCHANGED <<on, inst>>
    BY <1>5, <2>1, <2>3
  <2> QED BY <1>20, <2>2, <2>3 DEF CloseCheck, Labels
<1>21. CASE \E t \in Tags : PostOk(s, t) \/ PostFail(s, t)
  <2>1. PICK label \in {"post", "mark_sent", "close_fail"} :
            pc[s] = "post" /\ Goto(s, label) /\ UNCHANGED <<db, list, on, inst>>
    BY <1>21 DEF PostOk, PostFail, Goto, TypeOK, SessionTypes
  <2> QED BY <1>5, <2>1
<1>22. CASE MarkSent(s)
  <2>1. /\ pc[s] = "mark_sent" /\ db' = [db EXCEPT ![b].sent = TRUE] /\ list' = list
        /\ inst' = [inst EXCEPT ![s].sent = TRUE] /\ Goto(s, "close_ttn") /\ on' = on
    BY <1>0, <1>22 DEF MarkSent
  <2>2. /\ db'[b] = [db[b] EXCEPT !.sent = TRUE] /\ \A x \in Batches \ {b} : db'[x] = db[x]
        /\ inst'[s] = [r EXCEPT !.sent = TRUE] /\ pc'[s] = "close_ttn" /\ on'[s] = b
    BY <1>0, <2>1 DEF Goto, TypeOK, DbTypes, SessionTypes
  <2>3. db'[b].rfid = db[b].rfid /\ inst'[s].rfid = r.rfid
    BY <1>0, <2>2 DEF Row
  <2> QED BY <1>0, <1>3, <2>1, <2>2, <2>3 DEF Exists
<1>23. CASE CloseTtn(s)
  <2>1. PICK label \in {"complete", "close_fail"} :
            pc[s] = "close_ttn" /\ Goto(s, label) /\ UNCHANGED <<db, list, on, inst>>
    BY <1>23 DEF CloseTtn
  <2> QED BY <1>5, <2>1
<1>24. CASE Complete(s) \/ CloseFail(s)
  <2>1. PICK st \in {"completed", "miriada_error"} : WriteOutcome(s, st) /\ pc[s] # "save"
    BY <1>24 DEF Complete, CloseFail
  <2>2. /\ End(s) /\ list' = list
        /\ db' = [db EXCEPT ![b].status = st, ![b].failed = (st = "miriada_error")]
    BY <1>0, <2>1 DEF WriteOutcome
  <2>3. /\ db'[b].rfid = db[b].rfid /\ \A x \in Batches \ {b} : db'[x] = db[x]
    BY <1>0, <2>2 DEF TypeOK, DbTypes, Row
  <2> QED BY <1>0, <1>4, <2>1, <2>2, <2>3 DEF Exists
<1> QED BY <1>10, <1>11, <1>12, <1>13, <1>14, <1>15, <1>16, <1>17, <1>18, <1>19, <1>20, <1>21,
           <1>22, <1>23, <1>24 DEF Step

(***************************************************************************)
(* The active batch of a channel.                                          *)
(***************************************************************************)

\* The batches that get_active_batch_for_reader and the pause of the others look for.
Active(b) == b \in today /\ db[b].status = "active"

\* A batch that is being created is not counted until it has paused the others; a resume
\* has the others locked from then on.
ActiveInv ==
    /\ \A x, y \in Batches :
         /\ Active(x) /\ Active(y) /\ db[x].chan = db[y].chan
         /\ \A s \in Sessions : pc[s] = "create_pause" => on[s] # x /\ on[s] # y
         => x = y
    /\ \A s \in Sessions, x \in Batches :
         pc[s] = "resume_commit" /\ Active(x) /\ x # on[s] /\ db[x].chan = db[on[s]].chan
         => x \in held[s]

\* No request makes a batch active but the creation, which has not paused the others yet.
LEMMA ActiveRequest ==
  ASSUME TypeOK, NoOverlap, AloneInv, ActiveInv, NEW s \in Sessions, Request(s)
  PROVE  ActiveInv'
<1> USE DEF dbVars, sessionVars, miriadaVars
<1>0. pc[s] = "idle" /\ \A t \in Sessions : t = s
  BY DEF NoOverlap, Request, Create, Patch, AddManual, Remove, AddRfid, AddSensor, Pause,
         Resume, Delete, Close, Begin
<1>1. \A x, y \in Batches : Active(x) /\ Active(y) /\ db[x].chan = db[y].chan => x = y
  BY <1>0 DEF ActiveInv
<1>2. ASSUME NEW c \in Channels, NEW e \in Edits, NEW st \in CreateStatuses, Create(s, c, e, st)
      PROVE  ActiveInv'
  <2> DEFINE a == Apply(e, BlankRow(c))
  <2>0. PICK b, r : b = born + 1 /\ r = WithFlag([a EXCEPT !.status = st])
    OBVIOUS
  <2>1. /\ b \in Batches /\ db' = [db EXCEPT ![b] = r] /\ today' = today \cup {b}
        /\ IF st = "active" THEN Begin(s, b, "create_pause", r, {}) ELSE UNCHANGED sessionVars
    BY <1>2, <2>0 DEF Create
  <2>2. r.status = st
    <3>1. a \in Row
      BY ApplyType, BlankRowType
    <3> HIDE DEF a
    <3> QED BY <2>0, <3>1 DEF WithFlag, Row, Statuses
  <2>3. db'[b] = r /\ \A x \in Batches \ {b} : db'[x] = db[x]
    BY <2>1 DEF TypeOK, DbTypes
  <2>4. \/ pc'[s] = "create_pause" /\ on'[s] = b
        \/ pc'[s] = "idle" /\ r.status # "active"
    BY <1>0, <2>1, <2>2 DEF Begin, TypeOK, SessionTypes
  <2> QED BY <1>0, <1>1, <2>1, <2>3, <2>4 DEF ActiveInv, Active
<1>3. ASSUME NEW b \in Batches, Delete(s, b)
      PROVE  ActiveInv'
  <2>1. /\ db' = [db EXCEPT ![b] = BlankRow(AnyChannel)] /\ today' = today \ {b} /\ pc' = pc
    BY <1>3 DEF Delete
  <2>2. \A x \in Batches \ {b} : db'[x] = db[x]
    BY <2>1 DEF TypeOK, DbTypes
  <2> QED BY <1>0, <1>1, <2>1, <2>2 DEF ActiveInv, Active
<1>4. ASSUME NEW b \in Batches, NEW label \in Labels, NEW r \in Row, NEW w \in SUBSET Tags,
             Reads(s, b, label, r, w)
      PROVE  ActiveInv'
  <2>1. pc'[s] = label /\ label # "resume_commit" /\ UNCHANGED <<db, today>>
    BY <1>4 DEF Reads, Begin, TypeOK, SessionTypes
  <2> QED BY <1>0, <1>1, <2>1 DEF ActiveInv, Active
<1> QED BY <1>2, <1>3, <1>4, Requests

\* CreatePause and ResumeCommit leave one active batch of their channel.
LEMMA ActiveStep ==
  ASSUME TypeOK, NoOverlap, StatusesOwned, AloneInv, ActiveInv, NEW s \in Sessions, Step(s)
  PROVE  ActiveInv'
<1> USE DEF dbVars, sessionVars, miriadaVars
<1>0. PICK b, r :
         /\ b = on[s] /\ r = inst[s] /\ b \in Batches /\ r \in Row /\ db[b] \in Row
         /\ Busy(s) /\ Fresh(pc[s], b, r)
  BY StepBusy DEF AloneInv, Alone, TypeOK, DbTypes, SessionTypes
<1>1. \A t \in Sessions : t = s
  BY DEF NoOverlap
<1>2. ASSUME pc[s] # "create_pause"
      PROVE  \A x, y \in Batches : Active(x) /\ Active(y) /\ db[x].chan = db[y].chan => x = y
  BY <1>1, <1>2 DEF ActiveInv
\* Steps that make no batch active.
<1>3. ASSUME pc[s] # "create_pause", pc'[s] # "resume_commit",
             \A x \in Batches : Active(x)' => Active(x) /\ db'[x].chan = db[x].chan
      PROVE  ActiveInv'
  BY <1>1, <1>2, <1>3 DEF ActiveInv
<1>4. ASSUME NEW label, label # "resume_commit", Goto(s, label), pc[s] # "create_pause",
             UNCHANGED <<db, today>>
      PROVE  ActiveInv'
  <2>1. pc'[s] = label
    BY <1>4 DEF Goto, TypeOK, SessionTypes
  <2> QED BY <1>3, <1>4, <2>1 DEF Active
<1>5. ASSUME NEW label, label # "resume_commit", Goto(s, label), pc[s] # "create_pause",
             today' = today, \A x \in Batches \ {b} : db'[x] = db[x],
             db'[b].status = "active" => db[b].status = "active", db'[b].chan = db[b].chan
      PROVE  ActiveInv'
  <2>1. pc'[s] = label
    BY <1>5 DEF Goto, TypeOK, SessionTypes
  <2> QED BY <1>0, <1>3, <1>5, <2>1 DEF Active
<1>6. ASSUME SaveAll(s)
      PROVE  /\ today' = today /\ \A x \in Batches \ {b} : db'[x] = db[x]
             /\ db'[b].status = "active" => db[b].status = "active"
             /\ db'[b].chan = db[b].chan
  <2>1. db' = [db EXCEPT ![b] = WithFlag(r)] /\ today' = today
    BY <1>0, <1>6 DEF SaveAll, Fresh
  <2>2. WithFlag(r).status = r.status /\ WithFlag(r).chan = r.chan
    BY <1>0 DEF WithFlag, Row
  <2>3. r.status = "active" => db[b].status = "active"
    BY <1>0 DEF Fresh, StatusesOwned, OpenStatuses
  <2> QED BY <1>0, <2>1, <2>2, <2>3 DEF Fresh, TypeOK, DbTypes
<1>10. CASE CreatePause(s)
  <2>1. /\ End(s) /\ today' = today /\ pc[s] = "create_pause"
        /\ db' = WithStatus(OtherActive(b, r.chan), "paused")
    BY <1>0, <1>10 DEF CreatePause
  <2>2. ASSUME NEW x \in Batches
        PROVE  /\ db'[x].chan = db[x].chan
               /\ db'[x].status = "active" => x \notin OtherActive(b, r.chan) /\ db'[x] = db[x]
    BY <2>1 DEF WithStatus, TypeOK, DbTypes, Row
  <2>3. ASSUME NEW x \in Batches, Active(x)'
        PROVE  Active(x) /\ (x = b \/ db[x].chan # db[b].chan)
    BY <1>0, <2>1, <2>2, <2>3 DEF Active, OtherActive, Fresh
  <2>4. pc'[s] = "idle"
    BY <2>1 DEF End, Goto, TypeOK, SessionTypes
  <2> QED BY <1>0, <1>1, <2>2, <2>3, <2>4 DEF ActiveInv
<1>11. CASE Save(s)
  BY <1>5, <1>6, <1>11 DEF Save, End
<1>12. CASE AddCheck(s) \/ RemoveFind(s) \/ AddLink(s) \/ RemoveUnlink(s)
  BY <1>4, <1>12 DEF AddCheck, RemoveFind, AddLink, RemoveUnlink, End
<1>13. CASE PauseSave(s)
  <2>1. /\ End(s) /\ pc[s] = "pause" /\ today' = today /\ db' = WithStatus({b}, "paused")
    BY <1>0, <1>13 DEF PauseSave, Fresh
  <2>2. /\ db'[b].status = "paused" /\ db'[b].chan = db[b].chan
        /\ \A x \in Batches \ {b} : db'[x] = db[x]
    BY <1>0, <2>1 DEF WithStatus, TypeOK, DbTypes, Row
  <2> QED BY <1>5, <2>1, <2>2 DEF End
<1>14. CASE ResumePause(s)
  <2>1. /\ pc[s] = "resume_pause" /\ held' = [held EXCEPT ![s] = OtherActive(b, r.chan)]
        /\ UNCHANGED <<db, today, on>>
    BY <1>0, <1>14 DEF ResumePause
  <2>2. held'[s] = OtherActive(b, db[b].chan) /\ on'[s] = b
    BY <1>0, <2>1 DEF Fresh, TypeOK, SessionTypes
  <2>3. \A x \in Batches : Active(x) /\ x # b /\ db[x].chan = db[b].chan => x \in held'[s]
    BY <2>2 DEF Active, OtherActive
  <2> QED BY <1>1, <1>2, <2>1, <2>2, <2>3 DEF ActiveInv, Active
<1>15. CASE ResumeCommit(s)
  <2>1. /\ End(s) /\ today' = today /\ pc[s] = "resume_commit"
        /\ db' = [WithStatus(held[s], "paused") EXCEPT ![b] = [db[b] EXCEPT !.status = "active"]]
    BY <1>0, <1>15 DEF ResumeCommit, Fresh
  <2>2. ASSUME NEW x \in Batches
        PROVE  /\ db'[x].chan = db[x].chan
               /\ x # b /\ db'[x].status = "active" => x \notin held[s] /\ db'[x] = db[x]
    BY <1>0, <2>1 DEF WithStatus, TypeOK, DbTypes, Row
  <2>3. ASSUME NEW x \in Batches, Active(x)', x # b
        PROVE  Active(x) /\ db[x].chan # db[b].chan
    BY <1>0, <2>1, <2>2, <2>3 DEF Active, ActiveInv
  <2>4. pc'[s] = "idle"
    BY <2>1 DEF End, Goto, TypeOK, SessionTypes
  <2> QED BY <1>0, <1>1, <1>2, <2>1, <2>2, <2>3, <2>4 DEF ActiveInv
<1>16. CASE CloseSave(s)
  BY <1>5, <1>6, <1>16 DEF CloseSave
<1>17. CASE CloseRefresh(s)
  BY <1>4, <1>17 DEF CloseRefresh, End
<1>18. CASE CloseCheck(s)
  <2>1. PICK label \in Labels \ {"resume_commit"} : Goto(s, label)
    BY <1>18 DEF CloseCheck, End, Labels
  <2> QED BY <1>4, <1>18, <2>1 DEF CloseCheck
<1>19. CASE \E t \in Tags : PostOk(s, t) \/ PostFail(s, t)
  <2>1. PICK label \in {"post", "mark_sent", "close_fail"} :
            pc[s] = "post" /\ Goto(s, label) /\ UNCHANGED <<db, today>>
    BY <1>19 DEF PostOk, PostFail, Goto, TypeOK, SessionTypes
  <2> QED BY <1>4, <2>1
<1>20. CASE MarkSent(s)
  <2>1. /\ pc[s] = "mark_sent" /\ db' = [db EXCEPT ![b].sent = TRUE] /\ today' = today
        /\ Goto(s, "close_ttn")
    BY <1>0, <1>20 DEF MarkSent, Fresh
  <2>2. /\ db'[b].status = db[b].status /\ db'[b].chan = db[b].chan
        /\ \A x \in Batches \ {b} : db'[x] = db[x]
    BY <1>0, <2>1 DEF TypeOK, DbTypes, Row
  <2> QED BY <1>5, <2>1, <2>2
<1>21. CASE CloseTtn(s)
  BY <1>4, <1>21 DEF CloseTtn
<1>22. CASE Complete(s) \/ CloseFail(s)
  <2>1. PICK st \in {"completed", "miriada_error"} :
            WriteOutcome(s, st) /\ pc[s] \in {"complete", "close_fail"}
    BY <1>22 DEF Complete, CloseFail
  <2>2. /\ End(s) /\ today' = today
        /\ db' = [db EXCEPT ![b].status = st, ![b].failed = (st = "miriada_error")]
    BY <1>0, <2>1 DEF WriteOutcome, Fresh
  <2>3. /\ db'[b].status = st /\ db'[b].chan = db[b].chan
        /\ \A x \in Batches \ {b} : db'[x] = db[x]
    BY <1>0, <2>2 DEF TypeOK, DbTypes, Row
  <2> QED BY <1>5, <2>1, <2>2, <2>3 DEF End
<1> QED BY <1>10, <1>11, <1>12, <1>13, <1>14, <1>15, <1>16, <1>17, <1>18, <1>19, <1>20, <1>21,
           <1>22 DEF Step

(***************************************************************************)
(* The "sent" flag.                                                        *)
(***************************************************************************)

\* A closing after its statuses were sent.
TailLabels == {"close_ttn", "complete", "close_fail"}

\* An open batch has the flag only while the closing that raised it goes on, so no balloon
\* joins a list that was sent; a resume opens nothing but the batch it was asked for.
SentInv ==
    /\ \A b \in Batches : db[b].sent /\ Open(db[b]) =>
            \E s \in Sessions : on[s] = b /\ pc[s] \in TailLabels
    /\ SentCoversList
    /\ \A s \in Sessions : \A x \in held[s] : Open(db[x])

\* No request touches a batch that has the flag, but to delete it.
LEMMA SentRequest ==
  ASSUME TypeOK, LockInv, NoOverlap, AloneInv, SentInv, NEW s \in Sessions, Request(s)
  PROVE  SentInv'
<1> USE DEF dbVars, sessionVars, miriadaVars
<1>0. pc[s] = "idle" /\ \A t \in Sessions : t = s
  BY DEF NoOverlap, Request, Create, Patch, AddManual, Remove, AddRfid, AddSensor, Pause,
         Resume, Delete, Close, Begin
<1>1. (\A x \in Batches : db[x].sent => ~Open(db[x])) /\ held[s] = {}
  BY <1>0 DEF SentInv, TailLabels, LockInv
\* What leaves every batch that has the flag as it was.
<1>2. ASSUME \A x \in Batches : db'[x].sent => db'[x] = db[x] /\ list'[x] = list[x],
             UNCHANGED <<held, posted>>
      PROVE  SentInv'
  <2>1. \A x \in Batches : ~(db'[x].sent /\ Open(db'[x]))
    BY <1>1, <1>2
  <2>2. SentCoversList'
    BY <1>2 DEF SentInv, SentCoversList
  <2>3. held'[s] = {}
    BY <1>1, <1>2
  <2> QED BY <1>0, <2>1, <2>2, <2>3 DEF SentInv
<1>3. ASSUME NEW c \in Channels, NEW e \in Edits, NEW st \in CreateStatuses, Create(s, c, e, st)
      PROVE  SentInv'
  <2> DEFINE a == Apply(e, BlankRow(c))
  <2>0. PICK b, r : b = born + 1 /\ r = WithFlag([a EXCEPT !.status = st])
    OBVIOUS
  <2>1. b \in Batches /\ db' = [db EXCEPT ![b] = r] /\ UNCHANGED <<list, held, posted>>
    BY <1>3, <2>0 DEF Create, Begin
  <2>2. ~r.sent
    <3>1. a \in Row /\ ~a.sent
      BY ApplyType, ApplyKeeps, BlankRowType DEF BlankRow
    <3> HIDE DEF a
    <3> QED BY <2>0, <3>1 DEF WithFlag, Row
  <2>3. db'[b] = r /\ \A x \in Batches \ {b} : db'[x] = db[x]
    BY <2>1 DEF TypeOK, DbTypes
  <2> QED BY <1>2, <2>1, <2>2, <2>3
<1>4. ASSUME NEW b \in Batches, Delete(s, b)
      PROVE  SentInv'
  <2>1. /\ db' = [db EXCEPT ![b] = BlankRow(AnyChannel)] /\ list' = [list EXCEPT ![b] = {}]
        /\ UNCHANGED <<held, posted>>
    BY <1>4 DEF Delete
  <2>2. /\ ~db'[b].sent
        /\ \A x \in Batches \ {b} : db'[x] = db[x] /\ list'[x] = list[x]
    BY <2>1 DEF TypeOK, DbTypes, BlankRow
  <2> QED BY <1>2, <2>1, <2>2
<1>5. ASSUME NEW b \in Batches, NEW label \in Labels, NEW r \in Row, NEW w \in SUBSET Tags,
             Reads(s, b, label, r, w)
      PROVE  SentInv'
  BY <1>2, <1>5 DEF Reads, Begin
<1> QED BY <1>3, <1>4, <1>5, Requests

\* The flag is raised at the end of a pass over a list that did not change since.
LEMMA SentStep ==
  ASSUME TypeOK, LockInv, NoOverlap, StatusesOwned, AloneInv, SentInv,
         NEW s \in Sessions, Step(s)
  PROVE  SentInv'
<1> USE DEF dbVars, sessionVars, miriadaVars
<1>0. PICK b, r :
         /\ b = on[s] /\ r = inst[s] /\ b \in Batches /\ r \in Row /\ db[b] \in Row
         /\ Busy(s) /\ Fresh(pc[s], b, r) /\ At(pc[s], b, todo[s])
  BY StepBusy DEF AloneInv, Alone, TypeOK, DbTypes, SessionTypes
<1>1. \A t \in Sessions : t = s
  BY DEF NoOverlap
<1>2. ASSUME pc[s] \notin TailLabels
      PROVE  \A x \in Batches : db[x].sent => ~Open(db[x])
  BY <1>1, <1>2 DEF SentInv
\* Steps that raise no flag, open no batch that has it and add nothing to its list.
<1>3. ASSUME pc[s] \notin TailLabels,
             UNCHANGED posted \/ \A x \in Batches : posted[x] \subseteq posted'[x],
             \A x \in held'[s] : Open(db'[x]),
             \A x \in Batches : db'[x].sent =>
                /\ db[x].sent /\ db'[x].chan = db[x].chan /\ list'[x] \subseteq list[x]
                /\ Open(db'[x]) => Open(db[x])
      PROVE  SentInv'
  <2>1. \A x \in Batches : ~(db'[x].sent /\ Open(db'[x]))
    BY <1>2, <1>3
  <2>2. SentCoversList'
    BY <1>3 DEF SentInv, SentCoversList
  <2> QED BY <1>1, <1>3, <2>1, <2>2 DEF SentInv
<1>4. ASSUME End(s)  PROVE held'[s] = {}
  BY <1>4 DEF End, TypeOK, SessionTypes
<1>5. ASSUME pc[s] # "resume_commit", UNCHANGED held  PROVE held'[s] = {}
  BY <1>5 DEF LockInv
<1>6. ASSUME pc[s] \notin TailLabels \cup {"resume_commit"}, UNCHANGED <<db, list>>,
             End(s) \/ UNCHANGED held,
             UNCHANGED posted \/ \A x \in Batches : posted[x] \subseteq posted'[x]
      PROVE  SentInv'
  BY <1>3, <1>4, <1>5, <1>6
<1>7. ASSUME pc[s] \notin TailLabels \cup {"resume_commit"}, End(s) \/ UNCHANGED held,
             UNCHANGED <<list, posted>>,
             \A x \in Batches : /\ db'[x].sent = db[x].sent /\ db'[x].chan = db[x].chan
                                /\ Open(db'[x]) => Open(db[x])
      PROVE  SentInv'
  BY <1>3, <1>4, <1>5, <1>7
<1>8. ASSUME SaveAll(s)
      PROVE  /\ list' = list
             /\ \A x \in Batches : /\ db'[x].sent = db[x].sent /\ db'[x].chan = db[x].chan
                                   /\ Open(db'[x]) => Open(db[x])
  <2>1. db' = [db EXCEPT ![b] = WithFlag(r)] /\ list' = list
    BY <1>0, <1>8 DEF SaveAll
  <2>2. WithFlag(r).status = r.status /\ WithFlag(r).chan = r.chan /\ WithFlag(r).sent = r.sent
    BY <1>0 DEF WithFlag, Row
  <2>3. r.status \in OpenStatuses => db[b].status \in OpenStatuses
    BY <1>0 DEF Fresh, StatusesOwned
  <2>4. db'[b] = WithFlag(r) /\ \A x \in Batches \ {b} : db'[x] = db[x]
    BY <1>0, <2>1 DEF TypeOK, DbTypes
  <2> QED BY <1>0, <2>1, <2>2, <2>3, <2>4 DEF Fresh, Open
<1>10. CASE CreatePause(s)
  <2>1. /\ End(s) /\ UNCHANGED <<list, posted>> /\ pc[s] = "create_pause"
        /\ db' = WithStatus(OtherActive(b, r.chan), "paused")
    BY <1>0, <1>10 DEF CreatePause
  <2>2. ASSUME NEW x \in Batches
        PROVE  /\ db'[x].sent = db[x].sent /\ db'[x].chan = db[x].chan
               /\ Open(db'[x]) => Open(db[x])
    BY <2>1 DEF WithStatus, OtherActive, Open, OpenStatuses, TypeOK, DbTypes, Row
  <2> QED BY <1>7, <2>1, <2>2 DEF TailLabels
<1>11. CASE Save(s)
  <2>1. pc[s] = "save" /\ SaveAll(s) /\ End(s) /\ UNCHANGED posted
    BY <1>11 DEF Save
  <2> QED BY <1>7, <1>8, <2>1 DEF TailLabels
<1>12. CASE AddCheck(s) \/ RemoveFind(s)
  BY <1>6, <1>12 DEF AddCheck, RemoveFind, TailLabels
<1>13. CASE AddLink(s)
  <2>1. /\ pc[s] = "add_link" /\ UNCHANGED <<db, posted, held>>
        /\ list' = [list EXCEPT ![b] = @ \cup todo[s]]
    BY <1>0, <1>13 DEF AddLink, Fresh
  <2>2. ~db[b].sent
    BY <1>0, <1>2, <2>1 DEF At, ListLabels, TailLabels
  <2>3. \A x \in Batches \ {b} : list'[x] = list[x]
    BY <1>0, <2>1 DEF TypeOK, DbTypes
  <2> QED BY <1>3, <1>5, <2>1, <2>2, <2>3 DEF TailLabels
<1>14. CASE RemoveUnlink(s)
  <2>1. /\ pc[s] = "remove_unlink" /\ UNCHANGED <<db, posted, held>>
        /\ list' = [list EXCEPT ![b] = @ \ todo[s]]
    BY <1>0, <1>14 DEF RemoveUnlink
  <2>2. \A x \in Batches : list'[x] \subseteq list[x]
    BY <1>0, <2>1 DEF TypeOK, DbTypes
  <2> QED BY <1>3, <1>5, <2>1, <2>2 DEF TailLabels
<1>15. CASE PauseSave(s)
  <2>1. /\ End(s) /\ UNCHANGED <<list, posted>> /\ pc[s] = "pause"
        /\ db' = WithStatus({b}, "paused")
    BY <1>0, <1>15 DEF PauseSave, Fresh
  <2>2. db[b].status = "active"
    BY <1>0, <2>1 DEF At
  <2>3. ASSUME NEW x \in Batches
        PROVE  /\ db'[x].sent = db[x].sent /\ db'[x].chan = db[x].chan
               /\ Open(db'[x]) => Open(db[x])
    BY <2>1, <2>2 DEF WithStatus, Open, OpenStatuses, TypeOK, DbTypes, Row
  <2> QED BY <1>7, <2>1, <2>3 DEF TailLabels
<1>16. CASE ResumePause(s)
  <2>1. /\ pc[s] = "resume_pause" /\ UNCHANGED <<db, list, posted>>
        /\ held' = [held EXCEPT ![s] = OtherActive(b, r.chan)]
    BY <1>0, <1>16 DEF ResumePause
  <2>2. \A x \in held'[s] : Open(db'[x])
    BY <2>1 DEF OtherActive, Open, OpenStatuses, TypeOK, SessionTypes
  <2> QED BY <1>3, <2>1, <2>2 DEF TailLabels
<1>17. CASE ResumeCommit(s)
  <2>1. /\ End(s) /\ UNCHANGED <<list, posted>> /\ pc[s] = "resume_commit"
        /\ db' = [WithStatus(held[s], "paused") EXCEPT ![b] = [db[b] EXCEPT !.status = "active"]]
    BY <1>0, <1>17 DEF ResumeCommit, Fresh
  <2>2. db[b].status = "paused" /\ \A x \in held[s] : Open(db[x])
    BY <1>0, <2>1 DEF At, SentInv
  <2>3. ASSUME NEW x \in Batches
        PROVE  /\ db'[x].sent = db[x].sent /\ db'[x].chan = db[x].chan
               /\ Open(db'[x]) => Open(db[x])
    <3>1. CASE x = b
      BY <1>0, <2>1, <2>2, <3>1 DEF WithStatus, Open, OpenStatuses, Row
    <3>2. CASE x # b /\ x \in held[s]
      BY <1>0, <2>1, <2>2, <3>2 DEF WithStatus, TypeOK, DbTypes, Row
    <3>3. CASE x # b /\ x \notin held[s]
      BY <1>0, <2>1, <3>3 DEF WithStatus
    <3> QED BY <3>1, <3>2, <3>3
  <2> QED BY <1>3, <1>4, <2>1, <2>3 DEF TailLabels
<1>18. CASE CloseSave(s)
  <2>1. pc[s] = "close_save" /\ SaveAll(s) /\ UNCHANGED <<held, posted>>
    BY <1>18 DEF CloseSave
  <2> QED BY <1>7, <1>8, <2>1 DEF TailLabels
<1>19. CASE CloseRefresh(s) \/ CloseCheck(s)
  BY <1>6, <1>19 DEF CloseRefresh, CloseCheck, TailLabels
<1>20. CASE \E t \in Tags : PostOk(s, t) \/ PostFail(s, t)
  <2>1. PICK t \in Tags : /\ pc[s] = "post" /\ UNCHANGED <<db, list, held>>
                          /\ \/ UNCHANGED posted
                             \/ posted' = [posted EXCEPT ![b] = @ \cup {t}]
    BY <1>0, <1>20 DEF PostOk, PostFail
  <2>2. \A x \in Batches : posted[x] \subseteq posted'[x]
    BY <2>1 DEF TypeOK, MiriadaTypes
  <2> QED BY <1>6, <2>1, <2>2 DEF TailLabels
<1>21. CASE MarkSent(s)
  <2>1. /\ pc[s] = "mark_sent" /\ db' = [db EXCEPT ![b].sent = TRUE]
        /\ Goto(s, "close_ttn") /\ UNCHANGED <<list, posted, held, on>>
    BY <1>0, <1>21 DEF MarkSent, Fresh
  <2>2. pc'[s] = "close_ttn" /\ on'[s] = b /\ held'[s] = {}
    BY <1>0, <1>5, <2>1 DEF Goto, TypeOK, SessionTypes
  <2>3. \A x \in Batches \ {b} : db'[x] = db[x]
    BY <2>1 DEF TypeOK, DbTypes
  <2>4. \A x \in Batches : db'[x].sent /\ Open(db'[x]) => x = b
    BY <1>2, <2>1, <2>3 DEF TailLabels
  <2>5. SentCoversList'
    BY <1>0, <2>1, <2>3 DEF SentInv, SentCoversList, At
  <2> QED BY <1>1, <2>2, <2>4, <2>5 DEF SentInv, TailLabels
<1>22. CASE CloseTtn(s)
  <2>1. PICK label \in {"complete", "close_fail"} :
            pc[s] = "close_ttn" /\ Goto(s, label) /\ UNCHANGED <<db, list, posted, held, on>>
    BY <1>22 DEF CloseTtn
  <2>2. pc'[s] \in TailLabels /\ held'[s] = {}
    BY <1>5, <2>1 DEF Goto, TypeOK, SessionTypes, TailLabels
  <2>3. SentCoversList'
    BY <2>1 DEF SentInv, SentCoversList
  <2>4. \A x \in Batches : db'[x].sent /\ Open(db'[x]) => on'[s] = x
    BY <1>1, <2>1 DEF SentInv
  <2> QED BY <1>1, <2>2, <2>3, <2>4 DEF SentInv
<1>23. CASE Complete(s) \/ CloseFail(s)
  <2>1. PICK st \in {"completed", "miriada_error"} : WriteOutcome(s, st) /\ UNCHANGED posted
    BY <1>23 DEF Complete, CloseFail, WriteOutcome
  <2>2. /\ End(s) /\ list' = list
        /\ db' = [db EXCEPT ![b].status = st, ![b].failed = (st = "miriada_error")]
    BY <1>0, <2>1 DEF WriteOutcome, Fresh
  <2>3. /\ db'[b].status = st /\ db'[b].sent = db[b].sent /\ db'[b].chan = db[b].chan
        /\ \A x \in Batches \ {b} : db'[x] = db[x]
    BY <1>0, <2>2 DEF TypeOK, DbTypes, Row
  <2>4. \A x \in Batches : db[x].sent /\ Open(db[x]) => x = b
    BY <1>0, <1>1 DEF SentInv
  <2>5. \A x \in Batches : ~(db'[x].sent /\ Open(db'[x]))
    BY <2>3, <2>4 DEF Open, OpenStatuses
  <2>6. SentCoversList'
    BY <1>0, <2>1, <2>2, <2>3 DEF SentInv, SentCoversList
  <2> QED BY <1>1, <1>4, <2>2, <2>5, <2>6 DEF SentInv
<1> QED BY <1>10, <1>11, <1>12, <1>13, <1>14, <1>15, <1>16, <1>17, <1>18, <1>19, <1>20, <1>21,
           <1>22, <1>23 DEF Step

(***************************************************************************)
(* The theorems.                                                           *)
(***************************************************************************)

\* Nothing but requests and their statements: no handler dies.
LEMMA SoloNext ==
  ASSUME NoOverlap, [Next]_vars
  PROVE  \/ \E s \in Sessions : Request(s) \/ Step(s)
         \/ UNCHANGED <<db, list, born, sessionVars, miriadaVars>> /\ today' \in {today, {}}
  BY DEF NoOverlap, Next, Crash, Midnight, vars, dbVars

\* Without overlap no copy is stale at any statement of any handler.
LEMMA AloneCorrect == ASSUME NoOverlap PROVE Spec => []AloneInv
<1>1. Init => AloneInv
  BY DEF Init, AloneInv, RowsOK, Exists, BlankRow, Busy
<1>2. TypeOK /\ LockInv /\ AloneInv /\ [Next]_vars => AloneInv'
  <2> SUFFICES ASSUME TypeOK, LockInv, AloneInv, [Next]_vars PROVE AloneInv'
    OBVIOUS
  <2>1. CASE /\ UNCHANGED <<db, list, born, sessionVars, miriadaVars>>
             /\ today' \in {today, {}}
    <3>1. RowsOK'
      BY <2>1, RowsKept DEF AloneInv, Exists
    <3>2. ASSUME NEW s \in Sessions, Busy(s)'  PROVE Alone(s)'
      <4>1. UNCHANGED <<pc, on, inst, todo>>
        BY <2>1 DEF sessionVars
      <4>2. Alone(s)
        BY <3>2, <4>1 DEF AloneInv, Busy
      <4>3. Fresh(pc[s], on[s], inst[s])'
        BY <2>1, <4>1, <4>2 DEF Alone, Fresh, Exists
      <4>4. At(pc[s], on[s], todo[s])'
        BY <2>1, <4>1, <4>2 DEF Alone, At, Open, miriadaVars
      <4> QED BY <4>3, <4>4 DEF Alone
    <3> QED BY <3>1, <3>2 DEF AloneInv
  <2> QED BY <2>1, SoloNext, AloneRequest, AloneStep
<1> QED BY <1>1, <1>2, TypeCorrect, LocksCorrect, PTL DEF Spec

\* One handler at a time keeps the RFID counter, which a handler adds up in its copy and
\* writes back with the whole row, equal to the number of links of the batch.
THEOREM CountCorrect ==
  ASSUME NoOverlap, CountsOwned PROVE Spec => []CountMatchesList
<1>1. Init => CountInv
  <2>1. IsFiniteSet({})
    BY FS_EmptySet
  <2> QED BY <2>1 DEF Init, CountInv, Exists, BlankRow, Busy
<1>2. TypeOK /\ LockInv /\ AloneInv /\ CountInv /\ [Next]_vars => CountInv'
  <2> SUFFICES ASSUME TypeOK, LockInv, AloneInv, CountInv, [Next]_vars PROVE CountInv'
    OBVIOUS
  <2>1. CASE UNCHANGED <<db, list, born, sessionVars, miriadaVars>>
    BY <2>1 DEF CountInv, Exists, Busy, sessionVars
  <2> QED BY <2>1, SoloNext, CountRequest, CountStep
<1>3. CountInv => CountMatchesList
  BY DEF CountInv, CountMatchesList
<1> QED BY <1>1, <1>2, <1>3, TypeCorrect, LocksCorrect, AloneCorrect, PTL DEF Spec

\* One handler at a time leaves at most one of today's batches of a reader active, although
\* create and resume read, pause the others and write in separate statements.
THEOREM ActiveCorrect ==
  ASSUME NoOverlap, StatusesOwned PROVE Spec => []OneActivePerChannel
<1>1. Init => ActiveInv
  BY DEF Init, ActiveInv, Active
<1>2. TypeOK /\ AloneInv /\ ActiveInv /\ [Next]_vars => ActiveInv'
  <2> SUFFICES ASSUME TypeOK, AloneInv, ActiveInv, [Next]_vars PROVE ActiveInv'
    OBVIOUS
  <2>1. CASE /\ UNCHANGED <<db, list, born, sessionVars, miriadaVars>>
             /\ today' \in {today, {}}
    BY <2>1 DEF ActiveInv, Active, sessionVars
  <2> QED BY <2>1, SoloNext, ActiveRequest, ActiveStep
<1>3. TypeOK /\ ActiveInv => OneActivePerChannel
  <2> SUFFICES ASSUME TypeOK, ActiveInv, \A s \in Sessions : pc[s] = "idle", NEW c \in Channels
               PROVE  Cardinality({b \in today : db[b].status = "active" /\ db[b].chan = c}) <= 1
    BY DEF OneActivePerChannel
  <2> DEFINE A == {b \in today : db[b].status = "active" /\ db[b].chan = c}
  <2>1. \A x, y \in A : x = y
    BY DEF ActiveInv, Active, TypeOK, DbTypes
  <2> HIDE DEF A
  <2>2. A = {} \/ \E x : A = {x}
    BY <2>1
  <2>3. Cardinality(A) \in {0, 1}
    BY <2>2, FS_EmptySet, FS_Singleton
  <2> QED BY <2>3 DEF A
<1> QED BY <1>1, <1>2, <1>3, TypeCorrect, AloneCorrect, PTL DEF Spec

\* One handler at a time never leaves the "sent" flag on a list with a balloon that Miriada
\* has not accepted: nothing is linked between the scan of the list and the flag.
THEOREM SentCorrect ==
  ASSUME NoOverlap, StatusesOwned PROVE Spec => []SentCoversList
<1>1. Init => SentInv
  BY DEF Init, SentInv, SentCoversList, BlankRow
<1>2. TypeOK /\ LockInv /\ AloneInv /\ SentInv /\ [Next]_vars => SentInv'
  <2> SUFFICES ASSUME TypeOK, LockInv, AloneInv, SentInv, [Next]_vars PROVE SentInv'
    OBVIOUS
  <2>1. CASE UNCHANGED <<db, list, born, sessionVars, miriadaVars>>
    BY <2>1 DEF SentInv, SentCoversList, Open, sessionVars, miriadaVars
  <2> QED BY <2>1, SoloNext, SentRequest, SentStep
<1>3. SentInv => SentCoversList
  BY DEF SentInv
<1> QED BY <1>1, <1>2, <1>3, TypeCorrect, LocksCorrect, AloneCorrect, PTL DEF Spec

(***************************************************************************)
(* Requests that do not overlap implement BatchLedger.                     *)
(***************************************************************************)

\* Clients create open batches and write no status but through the closing.
LedgerClients == PatchStatuses = {} /\ CreateStatuses \subseteq OpenStatuses

\* What the ledger sees: the rows, without a batch that is being created and with the
\* result of a resume that has chosen what it pauses.
Views ==
    /\ (\A s \in Sessions : pc[s] \notin {"create_pause", "resume_commit"}) =>
          /\ LedgerStatus = [b \in Batches |-> db[b].status]
          /\ LedgerChan = [b \in Batches |-> db[b].chan]
          /\ LedgerToday = today
    /\ \A s \in Sessions : pc[s] = "create_pause" =>
          /\ LedgerStatus = [b \in Batches |-> IF b = on[s] THEN "absent" ELSE db[b].status]
          /\ LedgerChan = [b \in Batches |-> IF b = on[s] THEN AnyChannel ELSE db[b].chan]
          /\ LedgerToday = today \ {on[s]}
    /\ \A s \in Sessions : pc[s] = "resume_commit" =>
          /\ LedgerStatus = [b \in Batches |-> IF b = on[s] THEN "active"
                                               ELSE IF b \in held[s] THEN "paused"
                                               ELSE db[b].status]
          /\ LedgerChan = [b \in Batches |-> db[b].chan]
          /\ LedgerToday = today

\* One handler at most is creating or resuming a batch.
LEMMA ViewsHold == ASSUME NoOverlap PROVE Spec => []Views
<1>1. TypeOK /\ LockInv => Views
  <2> SUFFICES ASSUME TypeOK, LockInv PROVE Views
    OBVIOUS
  <2>1. today \subseteq Batches
    BY DEF TypeOK, DbTypes
  <2>2. ASSUME \A s \in Sessions : pc[s] \notin {"create_pause", "resume_commit"}
        PROVE  \A b \in Batches : /\ ~BeingCreated(b) /\ ~BeingResumed(b)
                                  /\ ~(\E s \in Sessions : b \in held[s])
    BY <2>2 DEF BeingCreated, BeingResumed, LockInv
  <2>3. ASSUME NEW s \in Sessions, pc[s] = "create_pause"
        PROVE  \A b \in Batches : /\ BeingCreated(b) <=> b = on[s]
                                  /\ ~BeingResumed(b)
                                  /\ ~(\E t \in Sessions : b \in held[t])
    BY <2>3 DEF NoOverlap, BeingCreated, BeingResumed, LockInv
  <2>4. ASSUME NEW s \in Sessions, pc[s] = "resume_commit"
        PROVE  \A b \in Batches : /\ ~BeingCreated(b)
                                  /\ BeingResumed(b) <=> b = on[s]
                                  /\ (\E t \in Sessions : b \in held[t]) <=> b \in held[s]
    BY <2>4 DEF NoOverlap, BeingCreated, BeingResumed
  <2> QED BY <2>1, <2>2, <2>3, <2>4 DEF Views, LedgerStatus, LedgerChan, LedgerToday
<1> QED BY <1>1, TypeCorrect, LocksCorrect, PTL

\* Only the creation of a paused batch and a deletion show in the ledger at once.
LEMMA LedgerRequest ==
  ASSUME TypeOK, NoOverlap, LedgerClients, AloneInv, Views, Views',
         NEW s \in Sessions, Request(s)
  PROVE  [Ledger!Next]_(Ledger!vars)
<1> USE DEF dbVars, sessionVars, miriadaVars
<1>0. pc[s] = "idle" /\ \A t \in Sessions : t = s
  BY DEF NoOverlap, Request, Create, Patch, AddManual, Remove, AddRfid, AddSensor, Pause,
         Resume, Delete, Close, Begin
<1>1. /\ LedgerStatus = [x \in Batches |-> db[x].status]
      /\ LedgerChan = [x \in Batches |-> db[x].chan]
      /\ LedgerToday = today
  BY <1>0 DEF Views
<1>2. ASSUME pc'[s] \notin {"create_pause", "resume_commit"}
      PROVE  /\ LedgerStatus' = [x \in Batches |-> db'[x].status]
             /\ LedgerChan' = [x \in Batches |-> db'[x].chan]
             /\ LedgerToday' = today'
  BY <1>0, <1>2 DEF Views
<1>3. ASSUME NEW c \in Channels, NEW e \in Edits, NEW st \in CreateStatuses, Create(s, c, e, st)
      PROVE  [Ledger!Next]_(Ledger!vars)
  <2> DEFINE a == Apply(e, BlankRow(c))
  <2>0. PICK b, r : b = born + 1 /\ r = WithFlag([a EXCEPT !.status = st])
    OBVIOUS
  <2>1. /\ b \in Batches /\ db' = [db EXCEPT ![b] = r] /\ today' = today \cup {b}
        /\ UNCHANGED <<list, posted, ttnClosed>>
        /\ IF st = "active" THEN Begin(s, b, "create_pause", r, {}) ELSE UNCHANGED sessionVars
    BY <1>3, <2>0 DEF Create
  <2>2. r.status = st /\ r.chan = c
    <3>1. a \in Row /\ a.chan = c
      BY ApplyType, ApplyKeeps, BlankRowType DEF BlankRow
    <3> HIDE DEF a
    <3> QED BY <2>0, <3>1 DEF WithFlag, Row, Statuses
  <2>3. db'[b] = r /\ \A x \in Batches \ {b} : db'[x] = db[x]
    BY <2>1 DEF TypeOK, DbTypes
  <2>4. db[b].status = "absent" /\ db[b].chan = AnyChannel /\ b \notin today
    BY <2>0, <2>1 DEF AloneInv, RowsOK, Exists, BlankRow, TypeOK, DbTypes
  <2>5. CASE st = "active"
    <3>1. pc'[s] = "create_pause" /\ on'[s] = b
      BY <2>1, <2>5 DEF Begin, TypeOK, SessionTypes
    <3>2. /\ LedgerStatus' = [x \in Batches |-> IF x = b THEN "absent" ELSE db'[x].status]
          /\ LedgerChan' = [x \in Batches |-> IF x = b THEN AnyChannel ELSE db'[x].chan]
          /\ LedgerToday' = today' \ {b}
      BY <3>1 DEF Views
    <3>3. UNCHANGED <<LedgerStatus, LedgerChan, LedgerToday>>
      BY <1>1, <2>1, <2>3, <2>4, <3>2
    <3> QED BY <2>1, <3>3 DEF Ledger!vars
  <2>6. CASE st # "active"
    <3>1. st = "paused" /\ pc'[s] = "idle"
      BY <1>0, <2>1, <2>6 DEF LedgerClients, OpenStatuses
    <3>2. /\ LedgerStatus' = [x \in Batches |-> db'[x].status]
          /\ LedgerChan' = [x \in Batches |-> db'[x].chan]
          /\ LedgerToday' = today'
      BY <1>2, <3>1
    <3>3. LedgerStatus' = [LedgerStatus EXCEPT ![b] = "paused"]
      BY <1>1, <2>2, <2>3, <3>1, <3>2
    <3>4. LedgerChan' = [LedgerChan EXCEPT ![b] = c]
      BY <1>1, <2>2, <2>3, <3>2
    <3>5. Ledger!OpenBatch(b, c)
      BY <1>1, <2>1, <2>4, <3>2, <3>3, <3>4 DEF Ledger!OpenBatch
    <3> QED BY <2>1, <3>5 DEF Ledger!Next
  <2> QED BY <2>5, <2>6
<1>4. ASSUME NEW b \in Batches, Delete(s, b)
      PROVE  [Ledger!Next]_(Ledger!vars)
  <2>1. /\ db' = [db EXCEPT ![b] = BlankRow(AnyChannel)] /\ list' = [list EXCEPT ![b] = {}]
        /\ today' = today \ {b} /\ UNCHANGED <<pc, posted, ttnClosed>>
    BY <1>4 DEF Delete
  <2>2. /\ db'[b].status = "absent" /\ db'[b].chan = AnyChannel
        /\ \A x \in Batches \ {b} : db'[x] = db[x]
    BY <2>1 DEF TypeOK, DbTypes, BlankRow
  <2>3. /\ LedgerStatus' = [x \in Batches |-> db'[x].status]
        /\ LedgerChan' = [x \in Batches |-> db'[x].chan]
        /\ LedgerToday' = today'
    BY <1>0, <1>2, <2>1
  <2>4. LedgerStatus' = [LedgerStatus EXCEPT ![b] = "absent"]
    BY <1>1, <2>2, <2>3
  <2>5. LedgerChan' = [LedgerChan EXCEPT ![b] = AnyChannel]
    BY <1>1, <2>2, <2>3
  <2>6. Ledger!Delete(b)
    BY <1>1, <2>1, <2>3, <2>4, <2>5 DEF Ledger!Delete
  <2> QED BY <2>6 DEF Ledger!Next
<1>5. ASSUME NEW b \in Batches, NEW label \in Labels, NEW r \in Row, NEW w \in SUBSET Tags,
             Reads(s, b, label, r, w)
      PROVE  [Ledger!Next]_(Ledger!vars)
  <2>1. /\ pc'[s] = label /\ label \notin {"create_pause", "resume_commit"}
        /\ UNCHANGED <<db, today, list, posted, ttnClosed>>
    BY <1>5 DEF Reads, Begin, TypeOK, SessionTypes
  <2> QED BY <1>1, <1>2, <2>1 DEF Ledger!vars
<1> QED BY <1>3, <1>4, <1>5, Requests

\* Each statement is an action of the ledger or none.
LEMMA LedgerStep ==
  ASSUME TypeOK, NoOverlap, LedgerClients, AloneInv, SentCoversList, Views, Views',
         NEW s \in Sessions, Step(s)
  PROVE  [Ledger!Next]_(Ledger!vars)
<1> USE DEF dbVars, sessionVars, miriadaVars
<1>0. PICK b, r :
         /\ b = on[s] /\ r = inst[s] /\ b \in Batches /\ r \in Row /\ db[b] \in Row
         /\ todo[s] \in SUBSET Tags
         /\ Busy(s) /\ Fresh(pc[s], b, r) /\ At(pc[s], b, todo[s])
  BY StepBusy DEF AloneInv, Alone, TypeOK, DbTypes, SessionTypes
<1>1. \A t \in Sessions : t = s
  BY DEF NoOverlap
<1>2. ASSUME pc[s] \notin {"create_pause", "resume_commit"}
      PROVE  /\ LedgerStatus = [x \in Batches |-> db[x].status]
             /\ LedgerChan = [x \in Batches |-> db[x].chan]
             /\ LedgerToday = today
  BY <1>1, <1>2 DEF Views
<1>3. ASSUME pc'[s] \notin {"create_pause", "resume_commit"}
      PROVE  /\ LedgerStatus' = [x \in Batches |-> db'[x].status]
             /\ LedgerChan' = [x \in Batches |-> db'[x].chan]
             /\ LedgerToday' = today'
  BY <1>1, <1>3 DEF Views
<1>4. ASSUME NEW label, Goto(s, label)  PROVE pc'[s] = label
  BY <1>4 DEF Goto, TypeOK, SessionTypes
\* Statements that the ledger does not see ...
<1>5. ASSUME NEW label \in Labels \ {"create_pause", "resume_commit"}, Goto(s, label),
             pc[s] \notin {"create_pause", "resume_commit"},
             \A x \in Batches : db'[x].status = db[x].status /\ db'[x].chan = db[x].chan,
             today' = today
      PROVE  UNCHANGED <<LedgerStatus, LedgerChan, LedgerToday>>
  BY <1>2, <1>3, <1>4, <1>5
<1>6. ASSUME NEW label \in Labels \ {"create_pause", "resume_commit"}, Goto(s, label),
             pc[s] \notin {"create_pause", "resume_commit"}, UNCHANGED <<db, today>>
      PROVE  UNCHANGED <<LedgerStatus, LedgerChan, LedgerToday>>
  BY <1>5, <1>6
\* ... and those that change the status of one batch for it.
<1>7. ASSUME NEW st, End(s), pc[s] \notin {"create_pause", "resume_commit"}, today' = today,
             db'[b].status = st, db'[b].chan = db[b].chan,
             \A x \in Batches \ {b} : db'[x] = db[x]
      PROVE  /\ LedgerStatus' = [LedgerStatus EXCEPT ![b] = st]
             /\ UNCHANGED <<LedgerChan, LedgerToday>>
  <2>1. pc'[s] = "idle"
    BY <1>4, <1>7 DEF End
  <2>2. LedgerStatus' = [LedgerStatus EXCEPT ![b] = st]
    BY <1>0, <1>2, <1>3, <1>7, <2>1
  <2>3. LedgerChan' = LedgerChan
    BY <1>0, <1>2, <1>3, <1>7, <2>1
  <2> QED BY <1>2, <1>3, <1>7, <2>1, <2>2, <2>3
<1>8. ASSUME SaveAll(s)
      PROVE  /\ UNCHANGED <<today, list>>
             /\ \A x \in Batches : db'[x].status = db[x].status /\ db'[x].chan = db[x].chan
  <2>1. db' = [db EXCEPT ![b] = WithFlag(r)] /\ UNCHANGED <<today, list>>
    BY <1>0, <1>8 DEF SaveAll, Fresh
  <2>2. WithFlag(r).status = r.status /\ WithFlag(r).chan = r.chan
    BY <1>0 DEF WithFlag, Row
  <2>3. r.status = db[b].status /\ r.chan = db[b].chan
    BY <1>0 DEF Fresh, LedgerClients
  <2> QED BY <1>0, <2>1, <2>2, <2>3 DEF TypeOK, DbTypes
\* What the ledger knows of the batch of a closing.
<1>9. ASSUME pc[s] \in CloseLabels
      PROVE  Ledger!IsClosing(b) /\ LedgerChan[b] = db[b].chan
  <2>1. LedgerStatus[b] = db[b].status /\ LedgerChan[b] = db[b].chan
    BY <1>0, <1>2, <1>9 DEF CloseLabels
  <2>2. Open(db[b]) \/ db[b].status = "miriada_error"
    BY <1>0, <1>9 DEF At
  <2> QED BY <2>1, <2>2 DEF Open, OpenStatuses, Ledger!IsClosing, Ledger!IsOpen
<1>10. ASSUME pc[s] \in {"close_ttn", "complete"}  PROVE Ledger!AllPosted(b)
  <2>1. LedgerChan[b] = db[b].chan
    BY <1>9, <1>10 DEF CloseLabels
  <2>2. db[b].sent \/ db[b].chan \notin PostingChannels
    BY <1>0, <1>10 DEF At
  <2> QED BY <1>0, <2>1, <2>2 DEF SentCoversList, Ledger!AllPosted
<1>11. ASSUME \E t \in Tags : Ledger!Add(b, t) \/ Ledger!Remove(b, t) \/ Ledger!Post(b, t)
       PROVE  Ledger!Next
  BY <1>0, <1>11 DEF Ledger!Next
<1>12. ASSUME Ledger!Pause(b) \/ Ledger!Resume(b) \/ Ledger!CloseTtn(b) \/ Ledger!Complete(b)
                \/ Ledger!Fail(b)
       PROVE  Ledger!Next
  BY <1>0, <1>12 DEF Ledger!Next
<1>20. CASE CreatePause(s)
  <2>1. /\ End(s) /\ UNCHANGED <<list, today, posted, ttnClosed>> /\ pc[s] = "create_pause"
        /\ db' = WithStatus(OtherActive(b, db[b].chan), "paused")
    BY <1>0, <1>20 DEF CreatePause, Fresh
  <2>2. /\ LedgerStatus = [x \in Batches |-> IF x = b THEN "absent" ELSE db[x].status]
        /\ LedgerChan = [x \in Batches |-> IF x = b THEN AnyChannel ELSE db[x].chan]
        /\ LedgerToday = today \ {b}
    BY <1>0, <2>1 DEF Views
  <2>3. /\ LedgerStatus' = [x \in Batches |-> db'[x].status]
        /\ LedgerChan' = [x \in Batches |-> db'[x].chan]
        /\ LedgerToday' = today
    BY <1>3, <1>4, <2>1 DEF End
  <2>4. db[b].status = "active" /\ (b \in today \/ today = {})
    BY <1>0, <2>1 DEF At
  <2>5. ASSUME NEW x \in Batches
        PROVE  /\ db'[x].chan = db[x].chan
               /\ db'[x].status = IF x \in OtherActive(b, db[b].chan) THEN "paused"
                                  ELSE db[x].status
    BY <2>1 DEF WithStatus, TypeOK, DbTypes, Row
  <2>6. LedgerStatus' = Ledger!Activated(b, db[b].chan)
    BY <1>0, <2>2, <2>3, <2>4, <2>5 DEF Ledger!Activated, OtherActive
  <2>7. LedgerChan' = [LedgerChan EXCEPT ![b] = db[b].chan]
    BY <1>0, <2>2, <2>3, <2>5
  <2>8. \/ LedgerToday' = LedgerToday \cup {b}
        \/ LedgerToday = {} /\ UNCHANGED LedgerToday
    BY <2>2, <2>3, <2>4
  <2>9. LedgerStatus[b] = "absent" /\ db[b].chan \in Channels
    BY <1>0, <2>2 DEF Row
  <2>10. Ledger!OpenBatch(b, db[b].chan)
    BY <2>1, <2>6, <2>7, <2>8, <2>9 DEF Ledger!OpenBatch
  <2> QED BY <1>0, <2>9, <2>10 DEF Ledger!Next
<1>21. CASE Save(s)
  <2>1. pc[s] = "save" /\ SaveAll(s) /\ Goto(s, "idle") /\ UNCHANGED <<posted, ttnClosed>>
    BY <1>21 DEF Save, End
  <2> QED BY <1>5, <1>8, <2>1 DEF Labels, Ledger!vars
<1>22. CASE AddCheck(s) \/ RemoveFind(s) \/ CloseRefresh(s)
  <2>1. PICK label \in {"idle", "add_link", "remove_unlink", "close_check"} :
            /\ Goto(s, label) /\ pc[s] \in {"add_check", "remove_find", "close_refresh"}
            /\ UNCHANGED <<db, today, list, posted, ttnClosed>>
    BY <1>22 DEF AddCheck, RemoveFind, CloseRefresh, End
  <2> QED BY <1>6, <2>1 DEF Labels, Ledger!vars
<1>23. CASE AddLink(s)
  <2>1. /\ pc[s] = "add_link" /\ Goto(s, "save") /\ UNCHANGED <<db, today, posted, ttnClosed>>
        /\ list' = [list EXCEPT ![b] = @ \cup todo[s]]
    BY <1>0, <1>23 DEF AddLink, Fresh
  <2>2. PICK t \in Tags : todo[s] = {t}
    BY <1>0, <2>1 DEF At, ListLabels
  <2>3. Open(db[b]) /\ LedgerStatus[b] = db[b].status
    BY <1>0, <1>2, <2>1 DEF At, ListLabels
  <2>4. list' = [list EXCEPT ![b] = list[b] \cup {t}]
    BY <1>0, <2>1, <2>2 DEF TypeOK, DbTypes
  <2>5. UNCHANGED <<LedgerStatus, LedgerChan, LedgerToday>>
    BY <1>6, <2>1 DEF Labels
  <2>6. Ledger!Add(b, t)
    BY <2>1, <2>3, <2>4, <2>5
       DEF Ledger!Add, Ledger!SetMembers, Ledger!IsOpen, Open, OpenStatuses
  <2> QED BY <1>11, <2>6
<1>24. CASE RemoveUnlink(s)
  <2>1. /\ pc[s] = "remove_unlink" /\ Goto(s, "save") /\ UNCHANGED <<db, today, posted, ttnClosed>>
        /\ list' = [list EXCEPT ![b] = @ \ todo[s]]
    BY <1>0, <1>24 DEF RemoveUnlink
  <2>2. PICK t \in Tags : todo[s] = {t}
    BY <1>0, <2>1 DEF At, ListLabels
  <2>3. Open(db[b]) /\ LedgerStatus[b] = db[b].status
    BY <1>0, <1>2, <2>1 DEF At, ListLabels
  <2>4. list' = [list EXCEPT ![b] = list[b] \ {t}]
    BY <1>0, <2>1, <2>2 DEF TypeOK, DbTypes
  <2>5. UNCHANGED <<LedgerStatus, LedgerChan, LedgerToday>>
    BY <1>6, <2>1 DEF Labels
  <2>6. Ledger!Remove(b, t)
    BY <2>1, <2>3, <2>4, <2>5
       DEF Ledger!Remove, Ledger!SetMembers, Ledger!IsOpen, Open, OpenStatuses
  <2> QED BY <1>11, <2>6
<1>25. CASE PauseSave(s)
  <2>1. /\ End(s) /\ UNCHANGED <<list, today, posted, ttnClosed>> /\ pc[s] = "pause"
        /\ db' = WithStatus({b}, "paused")
    BY <1>0, <1>25 DEF PauseSave, Fresh
  <2>2. /\ db'[b].status = "paused" /\ db'[b].chan = db[b].chan
        /\ \A x \in Batches \ {b} : db'[x] = db[x]
    BY <1>0, <2>1 DEF WithStatus, TypeOK, DbTypes, Row
  <2>3. LedgerStatus[b] = "active"
    BY <1>0, <1>2, <2>1 DEF At
  <2>4. Ledger!Pause(b)
    BY <1>7, <2>1, <2>2, <2>3 DEF Ledger!Pause
  <2> QED BY <1>12, <2>4
<1>26. CASE ResumePause(s)
  <2>1. /\ pc[s] = "resume_pause" /\ held' = [held EXCEPT ![s] = OtherActive(b, db[b].chan)]
        /\ Goto(s, "resume_commit") /\ UNCHANGED <<db, list, today, on, posted, ttnClosed>>
    BY <1>0, <1>26 DEF ResumePause, Fresh
  <2>2. pc'[s] = "resume_commit" /\ on'[s] = b /\ held'[s] = OtherActive(b, db[b].chan)
    BY <1>0, <1>4, <2>1 DEF TypeOK, SessionTypes
  <2>3. /\ LedgerStatus = [x \in Batches |-> db[x].status]
        /\ LedgerChan = [x \in Batches |-> db[x].chan]
        /\ LedgerToday = today
    BY <1>2, <2>1
  <2>4. /\ LedgerStatus' = [x \in Batches |-> IF x = b THEN "active"
                                              ELSE IF x \in OtherActive(b, db[b].chan) THEN "paused"
                                              ELSE db[x].status]
        /\ LedgerChan' = [x \in Batches |-> db[x].chan]
        /\ LedgerToday' = today
    BY <2>1, <2>2 DEF Views
  <2>5. LedgerStatus' = Ledger!Activated(b, LedgerChan[b])
    BY <1>0, <2>3, <2>4 DEF Ledger!Activated, OtherActive
  <2>6. LedgerStatus[b] = "paused"
    BY <1>0, <2>1, <2>3 DEF At
  <2>7. Ledger!Resume(b)
    BY <2>1, <2>3, <2>4, <2>5, <2>6 DEF Ledger!Resume
  <2> QED BY <1>12, <2>7
<1>27. CASE ResumeCommit(s)
  <2>1. /\ End(s) /\ UNCHANGED <<list, today, posted, ttnClosed>> /\ pc[s] = "resume_commit"
        /\ db' = [WithStatus(held[s], "paused") EXCEPT ![b] = [db[b] EXCEPT !.status = "active"]]
    BY <1>0, <1>27 DEF ResumeCommit, Fresh
  <2>2. /\ LedgerStatus = [x \in Batches |-> IF x = b THEN "active"
                                             ELSE IF x \in held[s] THEN "paused"
                                             ELSE db[x].status]
        /\ LedgerChan = [x \in Batches |-> db[x].chan]
        /\ LedgerToday = today
    BY <1>0, <2>1 DEF Views
  <2>3. /\ LedgerStatus' = [x \in Batches |-> db'[x].status]
        /\ LedgerChan' = [x \in Batches |-> db'[x].chan]
        /\ LedgerToday' = today'
    BY <1>3, <1>4, <2>1 DEF End
  <2>4. ASSUME NEW x \in Batches
        PROVE  /\ db'[x].chan = db[x].chan
               /\ db'[x].status = IF x = b THEN "active"
                                  ELSE IF x \in held[s] THEN "paused" ELSE db[x].status
    <3>1. CASE x = b
      BY <1>0, <2>1, <3>1 DEF WithStatus, Row
    <3>2. CASE x # b
      BY <1>0, <2>1, <3>2 DEF WithStatus, TypeOK, DbTypes, Row
    <3> QED BY <3>1, <3>2
  <2>5. LedgerStatus' = LedgerStatus
    BY <2>2, <2>3, <2>4
  <2>6. LedgerChan' = LedgerChan
    BY <2>2, <2>3, <2>4
  <2> QED BY <2>1, <2>2, <2>3, <2>5, <2>6 DEF Ledger!vars
<1>28. CASE CloseSave(s)
  <2>1. /\ pc[s] = "close_save" /\ SaveAll(s) /\ Goto(s, "close_refresh")
        /\ UNCHANGED <<posted, ttnClosed>>
    BY <1>28 DEF CloseSave
  <2> QED BY <1>5, <1>8, <2>1 DEF Labels, Ledger!vars
<1>29. CASE CloseCheck(s)
  <2>1. PICK label \in {"idle", "close_ttn", "mark_sent", "close_fail", "post"} :
            /\ Goto(s, label) /\ pc[s] = "close_check"
            /\ UNCHANGED <<db, today, list, posted, ttnClosed>>
    BY <1>29 DEF CloseCheck, End
  <2> QED BY <1>6, <2>1 DEF Labels, Ledger!vars
<1>30. CASE \E t \in Tags : PostOk(s, t) \/ PostFail(s, t)
  <2>1. PICK t \in Tags : PostOk(s, t) \/ PostFail(s, t)
    BY <1>30
  <2>2. /\ pc[s] = "post" /\ t \in todo[s] /\ UNCHANGED <<db, today, list, ttnClosed>>
        /\ \/ UNCHANGED posted
           \/ posted' = [posted EXCEPT ![b] = @ \cup {t}]
    BY <1>0, <2>1 DEF PostOk, PostFail
  <2>3. PICK label \in {"post", "mark_sent", "close_fail"} : Goto(s, label)
    BY <2>1, <2>2 DEF PostOk, PostFail, Goto, TypeOK, SessionTypes
  <2>4. UNCHANGED <<LedgerStatus, LedgerChan, LedgerToday>>
    BY <1>6, <2>2, <2>3 DEF Labels
  <2>5. CASE UNCHANGED posted
    BY <2>2, <2>4, <2>5 DEF Ledger!vars
  <2>6. CASE posted' = [posted EXCEPT ![b] = @ \cup {t}]
    <3>1. db[b].chan \in PostingChannels /\ t \in list[b]
      BY <1>0, <2>2 DEF At
    <3>2. Ledger!IsClosing(b) /\ LedgerChan[b] = db[b].chan
      BY <1>9, <2>2 DEF CloseLabels
    <3>3. Ledger!Post(b, t)
      BY <2>2, <2>4, <2>6, <3>1, <3>2 DEF Ledger!Post
    <3> QED BY <1>11, <3>3
  <2> QED BY <2>2, <2>5, <2>6
<1>31. CASE MarkSent(s)
  <2>1. /\ pc[s] = "mark_sent" /\ db' = [db EXCEPT ![b].sent = TRUE] /\ Goto(s, "close_ttn")
        /\ UNCHANGED <<list, today, posted, ttnClosed>>
    BY <1>0, <1>31 DEF MarkSent, Fresh
  <2>2. \A x \in Batches : db'[x].status = db[x].status /\ db'[x].chan = db[x].chan
    BY <1>0, <2>1 DEF TypeOK, DbTypes, Row
  <2> QED BY <1>5, <2>1, <2>2 DEF Labels, Ledger!vars
<1>32. CASE CloseTtn(s)
  <2>1. PICK label \in {"complete", "close_fail"} :
            /\ pc[s] = "close_ttn" /\ Goto(s, label) /\ UNCHANGED <<db, today, list, posted>>
            /\ \/ UNCHANGED ttnClosed
               \/ b \in TtnBatches /\ ttnClosed' = ttnClosed \cup {b}
    BY <1>0, <1>32 DEF CloseTtn
  <2>2. UNCHANGED <<LedgerStatus, LedgerChan, LedgerToday>>
    BY <1>6, <2>1 DEF Labels
  <2>3. CASE UNCHANGED ttnClosed
    BY <2>1, <2>2, <2>3 DEF Ledger!vars
  <2>4. CASE b \in TtnBatches /\ ttnClosed' = ttnClosed \cup {b}
    <3>1. Ledger!IsClosing(b) /\ Ledger!AllPosted(b)
      BY <1>9, <1>10, <2>1 DEF CloseLabels
    <3>2. Ledger!CloseTtn(b)
      BY <2>1, <2>2, <2>4, <3>1 DEF Ledger!CloseTtn
    <3> QED BY <1>12, <3>2
  <2> QED BY <2>1, <2>3, <2>4
<1>33. CASE Complete(s) \/ CloseFail(s)
  <2>1. PICK st \in {"completed", "miriada_error"} :
            /\ WriteOutcome(s, st) /\ UNCHANGED <<posted, ttnClosed>>
            /\ pc[s] = IF st = "completed" THEN "complete" ELSE "close_fail"
    BY <1>33 DEF Complete, CloseFail, WriteOutcome
  <2>2. /\ End(s) /\ UNCHANGED <<list, today>>
        /\ db' = [db EXCEPT ![b].status = st, ![b].failed = (st = "miriada_error")]
    BY <1>0, <2>1 DEF WriteOutcome, Fresh
  <2>3. /\ db'[b].status = st /\ db'[b].chan = db[b].chan
        /\ \A x \in Batches \ {b} : db'[x] = db[x]
    BY <1>0, <2>2 DEF TypeOK, DbTypes, Row
  <2>4. Ledger!IsClosing(b)
    BY <1>9, <2>1 DEF CloseLabels
  <2>5. /\ LedgerStatus' = [LedgerStatus EXCEPT ![b] = st]
        /\ UNCHANGED <<LedgerChan, LedgerToday>>
    BY <1>7, <2>1, <2>2, <2>3
  <2>6. CASE st = "completed"
    <3>1. Ledger!AllPosted(b) /\ (b \in TtnBatches => b \in ttnClosed)
      BY <1>0, <1>10, <2>1, <2>6 DEF At
    <3>2. Ledger!Complete(b)
      BY <2>1, <2>2, <2>4, <2>5, <2>6, <3>1 DEF Ledger!Complete
    <3> QED BY <1>12, <3>2
  <2>7. CASE st = "miriada_error"
    <3>1. Ledger!Fail(b)
      BY <2>1, <2>2, <2>4, <2>5, <2>7 DEF Ledger!Fail
    <3> QED BY <1>12, <3>1
  <2> QED BY <2>6, <2>7
<1> QED BY <1>20, <1>21, <1>22, <1>23, <1>24, <1>25, <1>26, <1>27, <1>28, <1>29, <1>30, <1>31,
           <1>32, <1>33 DEF Step

\* With clients that open batches and leave the other statuses to the handlers, every
\* request that does not overlap another takes effect at one of its statements, and is one
\* step of the ledger there, however often a closing fails and whenever the date changes.
THEOREM LedgerCorrect ==
  ASSUME NoOverlap, LedgerClients PROVE Spec => ImplementsLedger
<1>1. Init => Ledger!Init
  BY DEF Init, Ledger!Init, LedgerStatus, LedgerChan, LedgerToday, BeingCreated, BeingResumed,
         BlankRow
<1>2. /\ TypeOK /\ AloneInv /\ SentCoversList /\ Views /\ Views' /\ [Next]_vars
      => [Ledger!Next]_(Ledger!vars)
  <2> SUFFICES ASSUME TypeOK, AloneInv, SentCoversList, Views, Views', [Next]_vars
               PROVE  [Ledger!Next]_(Ledger!vars)
    OBVIOUS
  <2>1. CASE /\ UNCHANGED <<db, list, born, sessionVars, miriadaVars>>
             /\ today' \in {today, {}}
    <3>1. UNCHANGED <<LedgerStatus, LedgerChan, list, posted, ttnClosed>>
      BY <2>1 DEF LedgerStatus, LedgerChan, BeingCreated, BeingResumed, sessionVars, miriadaVars
    <3>2. LedgerToday' \in {LedgerToday, {}}
      BY <2>1 DEF LedgerToday, BeingCreated, sessionVars
    <3> QED BY <3>1, <3>2 DEF Ledger!Next, Ledger!Midnight, Ledger!vars
  <2> QED BY <2>1, SoloNext, LedgerRequest, LedgerStep
<1>3. StatusesOwned
  BY DEF LedgerClients, StatusesOwned
<1>4. Spec => []SentCoversList
  BY <1>3, SentCorrect
<1> QED BY <1>1, <1>2, <1>4, TypeCorrect, AloneCorrect, ViewsHold,
           PTL DEF Spec, ImplementsLedger, Ledger!Spec

============================================================================
