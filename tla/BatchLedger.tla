---------------------------- MODULE BatchLedger ----------------------------
(***************************************************************************)
(* What the batch handlers promise to an operator who issues one request   *)
(* at a time: every request takes effect at once or not at all.  Statuses, *)
(* lists and Miriada's records only; counters, flags and the copies that   *)
(* handlers work on do not exist here.  BalloonsBatch implements it when   *)
(* its sessions do not overlap.                                            *)
(***************************************************************************)
CONSTANTS Batches, Tags, Channels, PostingChannels, TtnBatches, AnyChannel

VARIABLES
    status,     \* [Batches -> LedgerStatuses]
    chan,       \* [Batches -> Channels]
    today,      \* batches started today
    members,    \* [Batches -> SUBSET Tags]
    posted,     \* [Batches -> SUBSET Tags]: statuses accepted by Miriada
    ttnClosed   \* batches whose TTN is closed

vars == <<status, chan, today, members, posted, ttnClosed>>

LedgerStatuses == {"absent", "active", "paused", "completed", "miriada_error"}

IsOpen(b) == status[b] \in {"active", "paused"}
IsClosing(b) == IsOpen(b) \/ status[b] = "miriada_error"

Init ==
    /\ status = [b \in Batches |-> "absent"]
    /\ chan = [b \in Batches |-> AnyChannel]
    /\ today = {}
    /\ members = [b \in Batches |-> {}]
    /\ posted = [b \in Batches |-> {}]
    /\ ttnClosed = {}

\* b becomes active and the other active batches of its channel are paused.
Activated(b, c) ==
    [x \in Batches |->
        IF x = b THEN "active"
        ELSE IF x \in today /\ status[x] = "active" /\ chan[x] = c THEN "paused"
        ELSE status[x]]

\* A batch created as the date changes belongs to the day before.
OpenBatch(b, c) ==
    /\ status[b] = "absent"
    /\ \/ status' = Activated(b, c)
       \/ status' = [status EXCEPT ![b] = "paused"]
    /\ chan' = [chan EXCEPT ![b] = c]
    /\ \/ today' = today \cup {b}
       \/ today = {} /\ UNCHANGED today
    /\ UNCHANGED <<members, posted, ttnClosed>>

Pause(b) ==
    /\ status[b] = "active"
    /\ status' = [status EXCEPT ![b] = "paused"]
    /\ UNCHANGED <<chan, today, members, posted, ttnClosed>>

Resume(b) ==
    /\ status[b] = "paused"
    /\ status' = Activated(b, chan[b])
    /\ UNCHANGED <<chan, today, members, posted, ttnClosed>>

SetMembers(b, tags) ==
    /\ IsOpen(b)
    /\ members' = [members EXCEPT ![b] = tags]
    /\ UNCHANGED <<status, chan, today, posted, ttnClosed>>

Add(b, t) == SetMembers(b, members[b] \cup {t})
Remove(b, t) == SetMembers(b, members[b] \ {t})

\* Only the balloons of a batch being closed are reported.
Post(b, t) ==
    /\ IsClosing(b) /\ chan[b] \in PostingChannels
    /\ t \in members[b]
    /\ posted' = [posted EXCEPT ![b] = @ \cup {t}]
    /\ UNCHANGED <<status, chan, today, members, ttnClosed>>

AllPosted(b) == chan[b] \in PostingChannels => members[b] \subseteq posted[b]

\* The TTN is closed after all the balloons were reported.
CloseTtn(b) ==
    /\ IsClosing(b) /\ b \in TtnBatches /\ AllPosted(b)
    /\ ttnClosed' = ttnClosed \cup {b}
    /\ UNCHANGED <<status, chan, today, members, posted>>

Complete(b) ==
    /\ IsClosing(b) /\ AllPosted(b)
    /\ b \in TtnBatches => b \in ttnClosed
    /\ status' = [status EXCEPT ![b] = "completed"]
    /\ UNCHANGED <<chan, today, members, posted, ttnClosed>>

Fail(b) ==
    /\ IsClosing(b)
    /\ status' = [status EXCEPT ![b] = "miriada_error"]
    /\ UNCHANGED <<chan, today, members, posted, ttnClosed>>

Delete(b) ==
    /\ status' = [status EXCEPT ![b] = "absent"]
    /\ chan' = [chan EXCEPT ![b] = AnyChannel]
    /\ today' = today \ {b}
    /\ members' = [members EXCEPT ![b] = {}]
    /\ UNCHANGED <<posted, ttnClosed>>

Midnight ==
    /\ today' = {}
    /\ UNCHANGED <<status, chan, members, posted, ttnClosed>>

Next ==
    \/ \E b \in Batches :
        \/ \E c \in Channels : OpenBatch(b, c)
        \/ Pause(b) \/ Resume(b)
        \/ \E t \in Tags : Add(b, t) \/ Remove(b, t) \/ Post(b, t)
        \/ CloseTtn(b) \/ Complete(b) \/ Fail(b) \/ Delete(b)
    \/ Midnight

Spec == Init /\ [][Next]_vars
=============================================================================
