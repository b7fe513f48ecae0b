--------------------------- MODULE BalloonsBatch ---------------------------
(***************************************************************************)
(* Loading and unloading batches of balloons (BalloonsBatch rows and their *)
(* balloon_list), as the mobile API, the web pages and the RFID process    *)
(* work on them.                                                           *)
(*                                                                         *)
(* Every handler reads a row into a model instance, decides on that copy   *)
(* and writes it back: all columns with save(), some of them with          *)
(* save(update_fields=...).  Only resume runs several statements in one    *)
(* transaction; elsewhere each statement commits on its own.  A session is *)
(* one handler in flight (a request thread or a thread of the RFID         *)
(* process) and stops between any two statements or HTTP calls.            *)
(***************************************************************************)
EXTENDS Integers, FiniteSets

CONSTANTS
    MaxBatches,          \* bound: primary keys are 1..MaxBatches
    Tags,                \* NFC tags of registered balloons
    Channels,            \* pairs (batch_type, reader_number)
    PostingChannels,     \* those with a reader of MIRIADA_BATCH_STATUS_READERS
    MismatchedChannels,  \* those whose reader does not serve the batch type
    TtnBatches,          \* batches whose TTN is to be closed (not "Клетевоз")
    Sessions,            \* handlers that may be in flight together
    Edits,               \* counters a request may set: partial records
    CreateStatuses,      \* statuses a client creates batches with
    PatchStatuses,       \* statuses a client writes with a PATCH that does not close
    MayCrash,            \* whether a handler may die between two statements
    MaxCount,            \* bound on amount_of_rfid
    MaxSensor            \* bound on amount_of_sensor

Batches == 1..MaxBatches

Statuses == {"active", "paused", "completed", "miriada_error"}

\* accepts_manual_edits
OpenStatuses == {"active", "paused"}

\* A row of the table; "absent" when no row has the key.
Row == [status: Statuses \cup {"absent"}, chan: Channels, rfid: Nat, sensor: Nat,
        ttn: Nat, sent: BOOLEAN, failed: BOOLEAN]

IsEdit(e) == /\ DOMAIN e \subseteq {"rfid", "ttn"}
             /\ \A f \in DOMAIN e : e[f] \in Nat

ASSUME BatchAssumption ==
    /\ MaxBatches \in Nat \ {0}
    /\ Channels # {}
    /\ PostingChannels \subseteq Channels
    /\ MismatchedChannels \subseteq Channels
    /\ TtnBatches \subseteq Batches
    /\ \A e \in Edits : IsEdit(e)
    /\ CreateStatuses \subseteq Statuses
    /\ PatchStatuses \subseteq Statuses
    /\ MayCrash \in BOOLEAN
    /\ MaxCount \in Nat
    /\ MaxSensor \in Nat

VARIABLES
    db,         \* [Batches -> Row]: the committed rows
    list,       \* [Batches -> SUBSET Tags]: the many-to-many table balloon_list
    born,       \* number of primary keys handed out
    today,      \* batches whose started_at is of the current date
    pc,         \* [Sessions -> Labels]: the next statement of each session
    on,         \* [Sessions -> Batches]: the batch its instance stands for
    inst,       \* [Sessions -> Row]: the instance, a copy that may be stale
    todo,       \* [Sessions -> SUBSET Tags]: the tag or the post jobs in hand
    held,       \* [Sessions -> SUBSET Batches]: rows locked by its transaction
    posted,     \* [Batches -> SUBSET Tags]: statuses Miriada accepted
    ttnClosed,  \* batches whose TTN Miriada has closed
    passed      \* history: batches all of whose statuses were once acknowledged

dbVars == <<db, list, born, today>>
sessionVars == <<pc, on, inst, todo, held>>
miriadaVars == <<posted, ttnClosed, passed>>
vars == <<dbVars, sessionVars, miriadaVars>>

Labels == {"idle", "save", "add_check", "add_link", "remove_find", "remove_unlink",
           "pause", "resume_pause", "resume_commit", "create_pause",
           "close_save", "close_refresh", "close_check", "post", "mark_sent",
           "close_ttn", "complete", "close_fail"}

AnyChannel == CHOOSE c \in Channels : TRUE

BlankRow(c) == [status |-> "absent", chan |-> c, rfid |-> 0, sensor |-> 0,
                ttn |-> 0, sent |-> FALSE, failed |-> FALSE]

Init ==
    /\ db = [b \in Batches |-> BlankRow(AnyChannel)]
    /\ list = [b \in Batches |-> {}]
    /\ born = 0
    /\ today = {}
    /\ pc = [s \in Sessions |-> "idle"]
    /\ on = [s \in Sessions |-> 1]
    /\ inst = [s \in Sessions |-> BlankRow(AnyChannel)]
    /\ todo = [s \in Sessions |-> {}]
    /\ held = [s \in Sessions |-> {}]
    /\ posted = [b \in Batches |-> {}]
    /\ ttnClosed = {}
    /\ passed = {}

----------------------------------------------------------------------------
(* Sessions and statements.                                                *)

Exists(b) == db[b].status # "absent"

Open(r) == r.status \in OpenStatuses

\* No other transaction holds the row: an UPDATE or DELETE of it does not wait.
Unlocked(s, b) == \A t \in Sessions \ {s} : b \notin held[t]

\* get_object_or_404 and what the handler computes on the copy before its next
\* statement: r is the instance, w the tags in hand.
Begin(s, b, label, r, w) ==
    /\ pc[s] = "idle"
    /\ pc' = [pc EXCEPT ![s] = label]
    /\ on' = [on EXCEPT ![s] = b]
    /\ inst' = [inst EXCEPT ![s] = r]
    /\ todo' = [todo EXCEPT ![s] = w]
    /\ UNCHANGED held

Goto(s, label) == pc' = [pc EXCEPT ![s] = label]

\* The handler has answered: nothing of it is left.
End(s) ==
    /\ Goto(s, "idle")
    /\ on' = [on EXCEPT ![s] = 1]
    /\ inst' = [inst EXCEPT ![s] = BlankRow(AnyChannel)]
    /\ todo' = [todo EXCEPT ![s] = {}]
    /\ held' = [held EXCEPT ![s] = {}]

\* BalloonsBatch.save: the failure flag follows the status.
WithFlag(r) ==
    [r EXCEPT !.failed = r.status = "miriada_error" \/ (@ /\ r.status # "completed")]

\* save(): every column of the instance; a row deleted meanwhile is inserted again
\* and started_at (auto_now_add) becomes the current time.
SaveAll(s) ==
    /\ Unlocked(s, on[s])
    /\ db' = [db EXCEPT ![on[s]] = WithFlag(inst[s])]
    /\ today' = IF Exists(on[s]) THEN today ELSE today \cup {on[s]}
    /\ UNCHANGED <<list, born>>

Apply(e, r) == [r EXCEPT !.rfid = IF "rfid" \in DOMAIN e THEN e["rfid"] ELSE @,
                         !.ttn = IF "ttn" \in DOMAIN e THEN e["ttn"] ELSE @]

\* Seeded fault: only the batches older than b are paused.
OtherActive_Older(b, c) ==
    {x \in today : x < b /\ db[x].status = "active" /\ db[x].chan = c}

\* pause_other_active_batches_on_reader: what its UPDATE matches.
OtherActive(b, c) ==
    {x \in today \ {b} : db[x].status = "active" /\ db[x].chan = c}

WithStatus(bs, st) ==
    [x \in Batches |-> IF x \in bs THEN [db[x] EXCEPT !.status = st] ELSE db[x]]

----------------------------------------------------------------------------
(* Creation, editing and deletion.                                         *)

\* BalloonBatchViewSet.create: the INSERT.  A batch created active pauses the
\* others of its channel with a second statement.
Create(s, c, e, st) ==
    LET b == born + 1
        r == WithFlag([Apply(e, BlankRow(c)) EXCEPT !.status = st])
    IN
    /\ b \in Batches
    /\ "ttn" \in DOMAIN e
    /\ db' = [db EXCEPT ![b] = r]
    /\ born' = b
    /\ today' = today \cup {b}
    /\ IF st = "active"
       THEN Begin(s, b, "create_pause", r, {})
       ELSE pc[s] = "idle" /\ UNCHANGED sessionVars
    /\ UNCHANGED <<list, miriadaVars>>

CreatePause(s) ==
    LET others == OtherActive(on[s], inst[s].chan) IN
    /\ pc[s] = "create_pause"
    /\ \A x \in others : Unlocked(s, x)
    /\ db' = WithStatus(others, "paused")
    /\ End(s)
    /\ UNCHANGED <<list, born, today, miriadaVars>>

\* PATCH that does not close, and the web form (st is then the status read): the
\* serializer sets the fields on the instance and saves all of it.
Patch(s, b, e, st) ==
    /\ Exists(b)
    /\ st \in PatchStatuses \cup {db[b].status}
    /\ ~(st = "completed" /\ Open(db[b]))
    /\ Begin(s, b, "save", [Apply(e, db[b]) EXCEPT !.status = st], {})
    /\ UNCHANGED <<dbVars, miriadaVars>>

\* The save() that ends a PATCH, add_balloon or remove_balloon.
Save(s) ==
    /\ pc[s] = "save"
    /\ SaveAll(s)
    /\ End(s)
    /\ UNCHANGED miriadaVars

\* BalloonBatchDeleteView: the row and its links, in one transaction.
Delete(s, b) ==
    /\ pc[s] = "idle"
    /\ Exists(b)
    /\ Unlocked(s, b)
    /\ db' = [db EXCEPT ![b] = BlankRow(AnyChannel)]
    /\ list' = [list EXCEPT ![b] = {}]
    /\ today' = today \ {b}
    /\ UNCHANGED <<born, sessionVars, miriadaVars>>

----------------------------------------------------------------------------
(* Balloons of a batch.                                                    *)

\* Seeded fault: a batch whose closing failed still accepts balloons.
AddManual_AfterError(s, b, t) ==
    /\ Open(db[b]) \/ db[b].status = "miriada_error"
    /\ db[b].rfid < MaxCount
    /\ Begin(s, b, "add_check", db[b], {t})
    /\ UNCHANGED <<dbVars, miriadaVars>>

\* API add-balloon.
AddManual(s, b, t) ==
    /\ Open(db[b])
    /\ db[b].rfid < MaxCount
    /\ Begin(s, b, "add_check", db[b], {t})
    /\ UNCHANGED <<dbVars, miriadaVars>>

\* get_active_batch_for_reader: the newest active batch of today.
IsCurrent(b, c) ==
    LET active == {x \in today : db[x].status = "active" /\ db[x].chan = c}
    IN b \in active /\ \A x \in active : x <= b

\* add_balloon_to_batch: a tag read by the reader of the channel.
AddRfid(s, c, b, t) ==
    /\ IsCurrent(b, c)
    /\ db[b].rfid < MaxCount
    /\ Begin(s, b, "add_check", db[b], {t})
    /\ UNCHANGED <<dbVars, miriadaVars>>

\* add_sensor_count_to_batch.
AddSensor(s, c, b) ==
    /\ IsCurrent(b, c)
    /\ db[b].sensor < MaxSensor
    /\ Begin(s, b, "save", [db[b] EXCEPT !.sensor = @ + 1], {})
    /\ UNCHANGED <<dbVars, miriadaVars>>

\* Seeded fault: a balloon read twice is counted twice.
AddCheck_Missing(s) ==
    /\ pc[s] = "add_check"
    /\ Goto(s, "add_link")
    /\ UNCHANGED <<dbVars, on, inst, todo, held, miriadaVars>>

\* BalloonsBatch.add_balloon: balloon_list.filter(...).exists()
AddCheck(s) ==
    /\ pc[s] = "add_check"
    /\ IF todo[s] \subseteq list[on[s]]
       THEN End(s)
       ELSE Goto(s, "add_link") /\ UNCHANGED <<on, inst, todo, held>>
    /\ UNCHANGED <<dbVars, miriadaVars>>

\* balloon_list.add and the increment of the copy.  The link to a deleted batch
\* violates the foreign key: add_balloon reports the error and saves nothing.
AddLink(s) ==
    /\ pc[s] = "add_link"
    /\ IF Exists(on[s])
       THEN /\ list' = [list EXCEPT ![on[s]] = @ \cup todo[s]]
            /\ inst' = [inst EXCEPT ![s].rfid = @ + 1]
            /\ Goto(s, "save")
            /\ UNCHANGED <<on, todo, held>>
       ELSE End(s) /\ UNCHANGED list
    /\ UNCHANGED <<db, born, today, miriadaVars>>

\* API remove-balloon, then balloon_list.get and balloon_list.remove.
Remove(s, b, t) ==
    /\ Open(db[b])
    /\ Begin(s, b, "remove_find", db[b], {t})
    /\ UNCHANGED <<dbVars, miriadaVars>>

RemoveFind(s) ==
    /\ pc[s] = "remove_find"
    /\ IF todo[s] \subseteq list[on[s]]
       THEN Goto(s, "remove_unlink") /\ UNCHANGED <<on, inst, todo, held>>
       ELSE End(s)
    /\ UNCHANGED <<dbVars, miriadaVars>>

\* Seeded fault: the counter is decremented without a floor at zero.
RemoveUnlink_NoFloor(s) ==
    /\ pc[s] = "remove_unlink"
    /\ list' = [list EXCEPT ![on[s]] = @ \ todo[s]]
    /\ inst' = [inst EXCEPT ![s].rfid = @ - 1]
    /\ Goto(s, "save")
    /\ UNCHANGED <<db, born, today, on, todo, held, miriadaVars>>

RemoveUnlink(s) ==
    /\ pc[s] = "remove_unlink"
    /\ list' = [list EXCEPT ![on[s]] = @ \ todo[s]]
    /\ inst' = [inst EXCEPT ![s].rfid = IF @ > 0 THEN @ - 1 ELSE 0]
    /\ Goto(s, "save")
    /\ UNCHANGED <<db, born, today, on, todo, held, miriadaVars>>

----------------------------------------------------------------------------
(* Pause and resume.                                                       *)

Pause(s, b) ==
    /\ db[b].status = "active"
    /\ Begin(s, b, "pause", db[b], {})
    /\ UNCHANGED <<dbVars, miriadaVars>>

\* save(update_fields=['status']); it fails when the row is gone.
PauseSave(s) ==
    /\ pc[s] = "pause"
    /\ Unlocked(s, on[s])
    /\ db' = IF Exists(on[s]) THEN WithStatus({on[s]}, "paused") ELSE db
    /\ End(s)
    /\ UNCHANGED <<list, born, today, miriadaVars>>

Resume(s, b) ==
    /\ db[b].status = "paused"
    /\ Begin(s, b, "resume_pause", db[b], {})
    /\ UNCHANGED <<dbVars, miriadaVars>>

\* First statement of the transaction: the rows it updates stay locked, and other
\* sessions see them unchanged, until the commit.
ResumePause(s) ==
    LET others == OtherActive(on[s], inst[s].chan) IN
    /\ pc[s] = "resume_pause"
    /\ \A x \in others : Unlocked(s, x)
    /\ held' = [held EXCEPT ![s] = others]
    /\ Goto(s, "resume_commit")
    /\ UNCHANGED <<dbVars, on, inst, todo, miriadaVars>>

\* Second statement and commit, or rollback when the row is gone.
ResumeCommit(s) ==
    /\ pc[s] = "resume_commit"
    /\ Unlocked(s, on[s])
    /\ db' = IF Exists(on[s])
             THEN [WithStatus(held[s], "paused") EXCEPT ![on[s]] =
                      [db[on[s]] EXCEPT !.status = "active"]]
             ELSE db
    /\ End(s)
    /\ UNCHANGED <<list, born, today, miriadaVars>>

----------------------------------------------------------------------------
(* Closing: save_and_close_balloons_batch.                                 *)

\* PATCH with status 3 from an open batch (the closing status is not one of the
\* fields saved), retry-close from the API or, after an error, from the web page.
Close(s, b, e) ==
    /\ Open(db[b]) \/ db[b].status = "miriada_error"
    /\ Begin(s, b, IF DOMAIN e = {} THEN "close_check" ELSE "close_save",
             Apply(e, db[b]), {})
    /\ UNCHANGED <<dbVars, miriadaVars>>

CloseSave(s) ==
    /\ pc[s] = "close_save"
    /\ SaveAll(s)
    /\ Goto(s, "close_refresh")
    /\ UNCHANGED <<on, inst, todo, held, miriadaVars>>

CloseRefresh(s) ==
    /\ pc[s] = "close_refresh"
    /\ IF Exists(on[s])
       THEN /\ inst' = [inst EXCEPT ![s] = db[on[s]]]
            /\ Goto(s, "close_check")
            /\ UNCHANGED <<on, todo, held>>
       ELSE End(s)
    /\ UNCHANGED <<dbVars, miriadaVars>>

CountsDiffer(r) == r.ttn # 0 /\ r.rfid # r.ttn

\* The count check, then the start of send_batch_balloon_statuses_to_miriada: the
\* tags are read again from the database and all the payloads prepared.
CloseCheck(s) ==
    LET r == inst[s]
        b == on[s]
        mustPost == ~r.sent /\ r.chan \in PostingChannels
    IN
    /\ pc[s] = "close_check"
    /\ \/ /\ CountsDiffer(r) \/ (mustPost /\ ~Exists(b))
          /\ End(s)
          /\ UNCHANGED passed
       \/ /\ ~CountsDiffer(r)
          /\ ~mustPost
          /\ Goto(s, "close_ttn")
          /\ UNCHANGED <<on, inst, todo, held, passed>>
       \/ /\ ~CountsDiffer(r)
          /\ mustPost /\ Exists(b)
          /\ todo' = [todo EXCEPT ![s] = list[b]]
          /\ Goto(s, IF list[b] = {} THEN "mark_sent"
                     ELSE IF r.chan \in MismatchedChannels THEN "close_fail"
                     ELSE "post")
          /\ passed' = IF list[b] = {} THEN passed \cup {b} ELSE passed
          /\ UNCHANGED <<on, inst, held>>
    /\ UNCHANGED <<dbVars, posted, ttnClosed>>

\* Seeded fault: the first acknowledgement counts for all.
PostOk_FirstCompleted(s, t) ==
    /\ pc[s] = "post"
    /\ t \in todo[s]
    /\ todo' = [todo EXCEPT ![s] = @ \ {t}]
    /\ posted' = [posted EXCEPT ![on[s]] = @ \cup {t}]
    /\ Goto(s, "mark_sent")
    /\ passed' = IF todo[s] = {t} THEN passed \cup {on[s]} ELSE passed
    /\ UNCHANGED <<dbVars, on, inst, held, ttnClosed>>

\* Miriada accepts a status and the answer arrives.
PostOk(s, t) ==
    /\ pc[s] = "post"
    /\ t \in todo[s]
    /\ todo' = [todo EXCEPT ![s] = @ \ {t}]
    /\ posted' = [posted EXCEPT ![on[s]] = @ \cup {t}]
    /\ IF todo[s] = {t}
       THEN Goto(s, "mark_sent") /\ passed' = passed \cup {on[s]}
       ELSE UNCHANGED <<pc, passed>>
    /\ UNCHANGED <<dbVars, on, inst, held, ttnClosed>>

\* Seeded fault: the error of a worker thread is not collected.
PostFail_Swallowed(s, t) ==
    /\ pc[s] = "post"
    /\ t \in todo[s]
    /\ Goto(s, "mark_sent")
    /\ UNCHANGED <<dbVars, on, inst, todo, held, miriadaVars>>

\* The attempts for t are used up (Miriada may have accepted one of them all the
\* same): the statuses not sent yet are cancelled.
PostFail(s, t) ==
    /\ pc[s] = "post"
    /\ t \in todo[s]
    /\ \/ UNCHANGED posted
       \/ posted' = [posted EXCEPT ![on[s]] = @ \cup {t}]
    /\ Goto(s, "close_fail")
    /\ UNCHANGED <<dbVars, on, inst, todo, held, ttnClosed, passed>>

\* save(update_fields=['miriada_balloons_sent']).
MarkSent(s) ==
    /\ pc[s] = "mark_sent"
    /\ Unlocked(s, on[s])
    /\ IF Exists(on[s])
       THEN /\ db' = [db EXCEPT ![on[s]].sent = TRUE]
            /\ inst' = [inst EXCEPT ![s].sent = TRUE]
            /\ Goto(s, "close_ttn")
            /\ UNCHANGED <<on, todo, held>>
       ELSE End(s) /\ UNCHANGED db
    /\ UNCHANGED <<list, born, today, miriadaVars>>

\* Seeded fault: the result of close_ttn_in_miriada is ignored.
CloseTtn_ResultIgnored(s) ==
    /\ pc[s] = "close_ttn"
    /\ \/ on[s] \in TtnBatches /\ ttnClosed' = ttnClosed \cup {on[s]}
       \/ UNCHANGED ttnClosed
    /\ Goto(s, "complete")
    /\ UNCHANGED <<dbVars, on, inst, todo, held, posted, passed>>

\* close_ttn_in_miriada, skipped for a "Клетевоз" truck; after a failure the TTN
\* may be closed all the same.
CloseTtn(s) ==
    /\ pc[s] = "close_ttn"
    /\ \/ /\ on[s] \in TtnBatches
          /\ ttnClosed' = ttnClosed \cup {on[s]}
          /\ Goto(s, "complete")
       \/ /\ on[s] \in TtnBatches
          /\ ttnClosed' \in {ttnClosed, ttnClosed \cup {on[s]}}
          /\ Goto(s, "close_fail")
       \/ /\ on[s] \notin TtnBatches
          /\ Goto(s, "complete")
          /\ UNCHANGED ttnClosed
    /\ UNCHANGED <<dbVars, on, inst, todo, held, posted, passed>>

\* Seeded fault: miriada_close_failed is missing from update_fields.
WriteOutcome_NoFlag(s, st) ==
    /\ Unlocked(s, on[s])
    /\ db' = IF Exists(on[s]) THEN [db EXCEPT ![on[s]].status = st] ELSE db
    /\ End(s)
    /\ UNCHANGED <<list, born, today, miriadaVars>>

\* The closing UPDATE: status, completed_at, miriada_close_failed and the message.
WriteOutcome(s, st) ==
    /\ Unlocked(s, on[s])
    /\ db' = IF Exists(on[s])
             THEN [db EXCEPT ![on[s]].status = st,
                             ![on[s]].failed = (st = "miriada_error")]
             ELSE db
    /\ End(s)
    /\ UNCHANGED <<list, born, today, miriadaVars>>

Complete(s) == pc[s] = "complete" /\ WriteOutcome(s, "completed")

CloseFail(s) == pc[s] = "close_fail" /\ WriteOutcome(s, "miriada_error")

----------------------------------------------------------------------------
(* The environment.                                                        *)

\* The date changes: no batch has started today.
Midnight ==
    /\ today # {}
    /\ today' = {}
    /\ UNCHANGED <<db, list, born, sessionVars, miriadaVars>>

\* The process dies; an open transaction is rolled back.
Crash(s) ==
    /\ MayCrash
    /\ pc[s] # "idle"
    /\ End(s)
    /\ UNCHANGED <<dbVars, miriadaVars>>

Request(s) ==
    \/ \E c \in Channels, e \in Edits, st \in CreateStatuses : Create(s, c, e, st)
    \/ \E b \in Batches :
        \/ \E e \in Edits, st \in Statuses : Patch(s, b, e, st)
        \/ \E t \in Tags : AddManual(s, b, t) \/ Remove(s, b, t)
        \/ \E c \in Channels, t \in Tags : AddRfid(s, c, b, t)
        \/ \E c \in Channels : AddSensor(s, c, b)
        \/ Pause(s, b) \/ Resume(s, b) \/ Delete(s, b)
        \/ \E e \in Edits : Close(s, b, e)

Step(s) ==
    \/ CreatePause(s)
    \/ Save(s)
    \/ AddCheck(s) \/ AddLink(s)
    \/ RemoveFind(s) \/ RemoveUnlink(s)
    \/ PauseSave(s)
    \/ ResumePause(s) \/ ResumeCommit(s)
    \/ CloseSave(s) \/ CloseRefresh(s) \/ CloseCheck(s)
    \/ \E t \in Tags : PostOk(s, t) \/ PostFail(s, t)
    \/ MarkSent(s) \/ CloseTtn(s) \/ Complete(s) \/ CloseFail(s)

Next ==
    \/ \E s \in Sessions : Request(s) \/ Step(s) \/ Crash(s)
    \/ Midnight

Spec == Init /\ [][Next]_vars

----------------------------------------------------------------------------
(* Properties.                                                             *)

DbTypes ==
    /\ db \in [Batches -> Row]
    /\ list \in [Batches -> SUBSET Tags]
    /\ born \in 0..MaxBatches
    /\ today \in SUBSET Batches

SessionTypes ==
    /\ pc \in [Sessions -> Labels]
    /\ on \in [Sessions -> Batches]
    /\ inst \in [Sessions -> Row]
    /\ todo \in [Sessions -> SUBSET Tags]
    /\ held \in [Sessions -> SUBSET Batches]

MiriadaTypes ==
    /\ posted \in [Batches -> SUBSET Tags]
    /\ ttnClosed \in SUBSET Batches
    /\ passed \in SUBSET Batches

\* Types of the tables, the sessions and Miriada's records.
TypeOK == DbTypes /\ SessionTypes /\ MiriadaTypes

\* The failure flag of a finished batch says how it finished, although status and
\* flag are written by different column lists and by stale copies of the row.
CloseFlagAgrees ==
    \A b \in Batches :
        /\ db[b].status = "miriada_error" => db[b].failed
        /\ db[b].status = "completed" => ~db[b].failed

\* A TTN is closed only after Miriada acknowledged every balloon status of one
\* reading of the batch's list, whichever sessions sent the statuses and the TTN
\* and however often they failed in between.
TtnClosedAfterPass ==
    \A b \in ttnClosed :
        Exists(b) /\ db[b].chan \in PostingChannels => b \in passed

\* A batch shown as completed has its TTN closed, if it has one to close.
CompletedMeansClosed ==
    \A b \in TtnBatches : db[b].status = "completed" => b \in ttnClosed

\* Between requests the RFID counter is the number of balloons in the list: the
\* count compared with the TTN is the count of what is sent.
CountMatchesList ==
    \A b \in Batches :
        Exists(b) /\ (\A s \in Sessions : pc[s] = "idle")
            => db[b].rfid = Cardinality(list[b])

\* Between requests at most one of today's batches of a channel is active: the
\* one that the reader's tags go to.
OneActivePerChannel ==
    (\A s \in Sessions : pc[s] = "idle") =>
        \A c \in Channels : Cardinality(
            {b \in today : db[b].status = "active" /\ db[b].chan = c}) <= 1

\* The "sent" flag, which makes a retry skip the statuses, is never raised for a
\* list with a balloon whose status Miriada has not accepted.
SentCoversList ==
    \A b \in Batches :
        db[b].sent /\ db[b].chan \in PostingChannels => list[b] \subseteq posted[b]

\* Every balloon of a completed batch had its status accepted by Miriada.
CompletedListPosted ==
    \A b \in Batches :
        db[b].status = "completed" /\ db[b].chan \in PostingChannels
            => list[b] \subseteq posted[b]

\* Only a resume (or a client that writes the status itself) makes a paused batch
\* active again.
PauseSticks ==
    [][\A b \in Batches :
        db[b].status = "paused" /\ db'[b].status = "active" =>
            \E s \in Sessions : pc[s] = "resume_commit" /\ on[s] = b]_vars

----------------------------------------------------------------------------
(* Requests that do not overlap, as steps of BatchLedger.                  *)

\* A batch being created exists for the ledger once the others are paused.
BeingCreated(b) == \E s \in Sessions : pc[s] = "create_pause" /\ on[s] = b

\* A resume takes effect when it has chosen the batches it pauses.
BeingResumed(b) == \E s \in Sessions : pc[s] = "resume_commit" /\ on[s] = b

LedgerStatus ==
    [b \in Batches |->
        IF BeingCreated(b) THEN "absent"
        ELSE IF BeingResumed(b) THEN "active"
        ELSE IF \E s \in Sessions : b \in held[s] THEN "paused"
        ELSE db[b].status]

LedgerChan == [b \in Batches |-> IF BeingCreated(b) THEN AnyChannel ELSE db[b].chan]

LedgerToday == {b \in today : ~BeingCreated(b)}

Ledger == INSTANCE BatchLedger WITH
    status <- LedgerStatus, chan <- LedgerChan, today <- LedgerToday, members <- list

\* Requests that do not overlap are atomic: each behaves as one step of the ledger.
ImplementsLedger == Ledger!Spec
=============================================================================
