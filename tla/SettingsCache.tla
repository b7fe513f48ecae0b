---------------------------- MODULE SettingsCache ----------------------------
(***************************************************************************)
(* carousel/settings_cache.py: the web process publishes every saved or    *)
(* deleted CarouselSettings row in a Redis hash and raises a revision; the *)
(* carousel listener keeps the hash in memory and reads it again when the  *)
(* revision is not the one it holds.  The listener runs one thread per     *)
(* request in progress of a carousel.  Each process has its own _lock.     *)
(*                                                                         *)
(* A snapshot is the number of the save that produced it, 0 for none.      *)
(***************************************************************************)
EXTENDS Integers, FiniteSets

CONSTANTS
    Numbers,        \* business numbers of carousels
    Existing,       \* those that have a row when the processes start
    WebThreads,     \* requests of the web process that may be in flight
    Readers,        \* threads of the listener that process a request
    Main,           \* the listener's start
    Kinds,          \* how rows are written: "api", "admin", "delete"
    MaxWrites,      \* bound: writes of rows
    MaxFailures     \* bound: Redis calls that fail

ASSUME SettingsAssumption ==
    /\ Numbers # {} /\ Existing \subseteq Numbers
    /\ Kinds \subseteq {"api", "admin", "delete"}
    /\ MaxWrites \in Nat
    /\ MaxFailures \in Nat
    /\ WebThreads \cap Readers = {} /\ Main \notin WebThreads \cup Readers

Threads == WebThreads \cup Readers \cup {Main}
Versions == 0..(MaxWrites + 1)
Maps == [Numbers -> Versions]
Nothing == [n \in Numbers |-> 0]
AnyNumber == CHOOSE n \in Numbers : TRUE

VARIABLES
    row,        \* the committed rows
    hash,       \* Redis: REDIS_HASH_KEY
    rev,        \* Redis: REDIS_REV_KEY
    store,      \* the listener's _store
    local,      \* the listener's _local_rev
    configured, \* carousels the listener serves
    pc,         \* next step of a thread
    num,        \* the carousel it works on
    snap,       \* the snapshots it has read or is about to publish
    seen,       \* remote_rev of a reader
    txn,        \* web threads inside a transaction of the admin site
    writes,     \* writes of rows so far
    failures,   \* failed calls so far
    unsure,     \* history: numbers whose last write nobody published cleanly
    lost,       \* history: a failed call may have changed the hash without an incr
    apart       \* history: the store did not come from the revision it carries

redisVars == <<hash, rev>>
localVars == <<store, local>>
threadVars == <<pc, num, snap, seen>>
bounds == <<writes, failures>>
historyVars == <<unsure, lost, apart>>
vars == <<row, redisVars, localVars, configured, threadVars, txn, bounds, historyVars>>

Init ==
    /\ row = [n \in Numbers |-> IF n \in Existing THEN 1 ELSE 0]
    /\ writes = 0 /\ failures = 0
    /\ hash = Nothing /\ rev = 0
    /\ store = Nothing /\ local = 0
    /\ configured = {}
    /\ pc = [t \in Threads |-> IF t = Main THEN "load" ELSE "idle"]
    /\ num = [t \in Threads |-> AnyNumber]
    /\ snap = [t \in Threads |-> Nothing]
    /\ seen = [r \in Readers |-> 0]
    /\ txn = {}
    /\ unsure = Numbers
    /\ lost = FALSE
    /\ apart = TRUE

----------------------------------------------------------------------------
(* Threads and locks.                                                      *)

Process(t) == IF t \in WebThreads THEN WebThreads ELSE Readers \cup {Main}

\* _lock is held from the call that changes the hash to the one that raises the
\* revision; every other use of it is a single step.
Free(t) == \A u \in Process(t) \ {t} : pc[u] # "bump"

Go(t, step) == pc' = [pc EXCEPT ![t] = step]

\* The thread is through; what it knew is forgotten.
Done(t) ==
    /\ Go(t, "idle")
    /\ num' = [num EXCEPT ![t] = AnyNumber]
    /\ snap' = [snap EXCEPT ![t] = Nothing]
    /\ seen' = [r \in Readers |-> IF r = t THEN 0 ELSE seen[r]]

\* Web threads in the middle of a write of n.
Writing(n) == {w \in WebThreads : pc[w] # "idle" /\ num[w] = n}

\* Threads that read the row of n and are about to publish what they read.
Republishing(n) ==
    {t \in Readers \cup {Main} :
        pc[t] = "load_publish" \/ (pc[t] = "upsert" /\ num[t] = n)}

Quiet == \A w \in WebThreads : pc[w] = "idle"

\* A Redis call fails.
Failure ==
    /\ failures < MaxFailures
    /\ failures' = failures + 1
    /\ UNCHANGED writes

----------------------------------------------------------------------------
(* The web process: post_save and post_delete.                             *)

\* An uncommitted write makes others' writes of the row wait.
Writable(n) == \A w \in txn : num[w] # n

\* The thread goes on to upsert_from_model or remove_number with the new value.
Write(w, n, value) ==
    /\ pc[w] = "idle"
    /\ writes < MaxWrites
    /\ Writable(n)
    /\ writes' = writes + 1
    /\ num' = [num EXCEPT ![w] = n]
    /\ Go(w, "publish")
    /\ snap' = [snap EXCEPT ![w] = [Nothing EXCEPT ![n] = value]]
    /\ unsure' = IF Writing(n) \cup Republishing(n) = {} THEN unsure \ {n}
                 ELSE unsure \cup {n}
    /\ UNCHANGED <<redisVars, localVars, configured, seen, failures, lost, apart>>

\* PATCH of the API: the row is committed before the signal.
ApiSave(w, n) ==
    /\ "api" \in Kinds
    /\ row[n] # 0
    /\ Write(w, n, writes + 2)
    /\ row' = [row EXCEPT ![n] = writes + 2]
    /\ UNCHANGED txn

\* The admin site creates, saves and deletes in a transaction that is committed
\* after the signal.
AdminSave(w, n) ==
    /\ "admin" \in Kinds
    /\ Write(w, n, writes + 2)
    /\ txn' = txn \cup {w}
    /\ UNCHANGED row

Delete(w, n) ==
    /\ "delete" \in Kinds
    /\ row[n] # 0
    /\ Write(w, n, 0)
    /\ txn' = txn \cup {w}
    /\ UNCHANGED row

\* The signal handler returns: to the commit, or to the end of the request.
Return(w) ==
    IF w \in txn THEN Go(w, "commit") /\ UNCHANGED <<num, snap, seen>> ELSE Done(w)

\* _publish_snapshot or _publish_remove.
Publish(w) ==
    /\ pc[w] = "publish" /\ Free(w)
    /\ hash' = [hash EXCEPT ![num[w]] = snap[w][num[w]]]
    /\ Go(w, "bump")
    /\ UNCHANGED <<row, rev, localVars, configured, num, snap, seen, txn, bounds,
                   historyVars>>

\* The call fails, before or after Redis has executed it; the handler logs a
\* warning and does not raise the revision.
PublishFails(w) ==
    /\ Failure
    /\ pc[w] = "publish" /\ Free(w)
    /\ \/ UNCHANGED hash
       \/ hash' = [hash EXCEPT ![num[w]] = snap[w][num[w]]]
    /\ lost' = TRUE
    /\ unsure' = unsure \cup {num[w]}
    /\ Return(w)
    /\ UNCHANGED <<row, rev, localVars, configured, txn,
                   apart>>

\* _bump_rev.
Bump(w) ==
    /\ pc[w] = "bump"
    /\ rev' = rev + 1
    /\ lost' = FALSE
    /\ Return(w)
    /\ UNCHANGED <<row, hash, localVars, configured, txn, bounds,
                   unsure, apart>>

BumpFails(w) ==
    /\ Failure
    /\ pc[w] = "bump"
    /\ \/ UNCHANGED rev /\ lost' = TRUE
       \/ rev' = rev + 1 /\ lost' = FALSE
    /\ Return(w)
    /\ UNCHANGED <<row, hash, localVars, configured, txn,
                   unsure, apart>>

Commit(w) ==
    /\ pc[w] = "commit"
    /\ row' = [row EXCEPT ![num[w]] = snap[w][num[w]]]
    /\ txn' = txn \ {w}
    /\ Done(w)
    /\ UNCHANGED <<redisVars, localVars, configured, bounds,
                   historyVars>>

----------------------------------------------------------------------------
(* load_from_db, at the start of the listener and by a reader that finds   *)
(* Redis empty.                                                            *)

\* Numbers whose row is being written while it is read.
BeingWritten == {n \in Numbers : Writing(n) # {}}

\* The rows are read before the lock is taken.
LoadRead(t) ==
    /\ pc[t] = "load"
    /\ snap' = [snap EXCEPT ![t] = row]
    /\ unsure' = unsure \cup BeingWritten
    /\ Go(t, "load_publish")
    /\ UNCHANGED <<row, redisVars, localVars, configured, num, seen, txn, bounds,
                   lost, apart>>

AfterLoad(t) ==
    /\ Go(t, IF t = Main THEN "configure" ELSE "lookup")
    /\ store' = snap[t]
    /\ UNCHANGED <<row, configured, num, snap, seen, txn>>

\* Numbers whose row was not written since t read it, nor is about to be
\* published by another thread.
Intact(t) ==
    {n \in Numbers : /\ row[n] = snap[t][n]
                     /\ Writing(n) \cup (Republishing(n) \ {t}) = {}}

\* Seeded fault: the hash is not deleted first.
LoadPublish_KeepsOld(t) ==
    /\ pc[t] = "load_publish" /\ Free(t)
    /\ hash' = [n \in Numbers |-> IF snap[t][n] = 0 THEN hash[n] ELSE snap[t][n]]
    /\ rev' = rev + 1
    /\ local' = rev + 1
    /\ unsure' = Numbers \ Intact(t)
    /\ lost' = FALSE
    /\ apart' = FALSE
    /\ AfterLoad(t)
    /\ UNCHANGED bounds

\* One MULTI/EXEC: delete, hset, incr.
LoadPublish(t) ==
    /\ pc[t] = "load_publish" /\ Free(t)
    /\ hash' = snap[t]
    /\ rev' = rev + 1
    /\ local' = rev + 1
    /\ unsure' = Numbers \ Intact(t)
    /\ lost' = FALSE
    /\ apart' = FALSE
    /\ AfterLoad(t)
    /\ UNCHANGED bounds

\* Seeded fault: the revision is counted here when Redis does not answer.
LoadPublishFails_CountsRev(t) ==
    /\ Failure
    /\ pc[t] = "load_publish" /\ Free(t)
    /\ UNCHANGED <<redisVars, unsure, lost>>
    /\ apart' = TRUE
    /\ local' = local + 1
    /\ AfterLoad(t)

\* The store is replaced all the same, under the old revision.
LoadPublishFails(t) ==
    /\ Failure
    /\ pc[t] = "load_publish" /\ Free(t)
    /\ \/ UNCHANGED <<redisVars, unsure, lost>>
       \/ /\ hash' = snap[t]
          /\ rev' = rev + 1
          /\ unsure' = Numbers \ Intact(t)
          /\ lost' = FALSE
    /\ apart' = TRUE
    /\ UNCHANGED local
    /\ AfterLoad(t)

\* load_carousel_configs; without a carousel the listener ends.
Configure ==
    /\ pc[Main] = "configure"
    /\ configured' = {n \in Numbers : row[n] # 0}
    /\ Done(Main)
    /\ UNCHANGED <<row, redisVars, localVars, txn, bounds, historyVars>>

----------------------------------------------------------------------------
(* get_settings_dict in the listener, for a request of carousel n.         *)

\* A carousel's requests are handled one after the other.
Begin(r, n) ==
    /\ pc[r] = "idle"
    /\ n \in configured
    /\ \A q \in Readers : pc[q] # "idle" => num[q] # n
    /\ num' = [num EXCEPT ![r] = n]
    /\ Go(r, "read_rev")
    /\ UNCHANGED <<row, redisVars, localVars, configured, snap, seen, txn, bounds,
                   unsure, lost, apart>>

\* _read_remote_rev and the comparison under the lock.
ReadRev(r) ==
    /\ pc[r] = "read_rev"
    /\ seen' = [seen EXCEPT ![r] = rev]
    /\ Go(r, "compare")
    /\ UNCHANGED <<row, redisVars, localVars, configured, num, snap, txn, bounds,
                   historyVars>>

Compare(r) ==
    /\ pc[r] = "compare" /\ Free(r)
    /\ Go(r, IF seen[r] = local THEN "lookup" ELSE "fetch")
    /\ UNCHANGED <<row, redisVars, localVars, configured, num, snap, seen, txn,
                   bounds, historyVars>>

\* hgetall.
Fetch(r) ==
    /\ pc[r] = "fetch"
    /\ IF hash = Nothing /\ seen[r] = 0
       THEN Go(r, "load") /\ UNCHANGED snap
       ELSE Go(r, "replace") /\ snap' = [snap EXCEPT ![r] = hash]
    /\ UNCHANGED <<row, redisVars, localVars, configured, num, seen, txn, bounds,
                   historyVars>>

\* Redis does not answer: the store stays as it is.
RedisDown(r) ==
    /\ Failure
    /\ pc[r] \in {"read_rev", "fetch"}
    /\ Go(r, "lookup")
    /\ UNCHANGED <<row, redisVars, localVars, configured, num, snap, seen, txn, historyVars>>

\* Seeded fault: the revision is read again when the store is replaced.
Replace_LatestRev(r) ==
    /\ pc[r] = "replace" /\ Free(r)
    /\ store' = snap[r]
    /\ local' = rev
    /\ apart' = FALSE
    /\ Go(r, "lookup")
    /\ UNCHANGED <<row, redisVars, configured, num, snap, seen, txn, bounds,
                   unsure, lost>>

\* _replace_store(snapshots, remote_rev).
Replace(r) ==
    /\ pc[r] = "replace" /\ Free(r)
    /\ store' = snap[r]
    /\ local' = seen[r]
    /\ apart' = FALSE
    /\ Go(r, "lookup")
    /\ UNCHANGED <<row, redisVars, configured, num, snap, seen, txn, bounds,
                   unsure, lost>>

\* check_settings syncs before get_settings_dict does.
Resync(r) ==
    /\ pc[r] = "lookup"
    /\ Go(r, "read_rev")
    /\ snap' = [snap EXCEPT ![r] = Nothing]
    /\ UNCHANGED <<row, redisVars, localVars, configured, num, seen, txn, bounds,
                   historyVars>>

\* A hit; otherwise the row itself is read.
Lookup(r) ==
    /\ pc[r] = "lookup" /\ Free(r)
    /\ IF store[num[r]] # 0
       THEN Done(r)
       ELSE Go(r, "fallback") /\ UNCHANGED <<num, snap, seen>>
    /\ UNCHANGED <<row, redisVars, localVars, configured, txn, bounds, historyVars>>

\* _orm_fallback: no row, or upsert_from_model of the row.
Fallback(r) ==
    /\ pc[r] = "fallback"
    /\ \/ /\ row[num[r]] = 0
          /\ Done(r)
          /\ UNCHANGED unsure
       \/ /\ row[num[r]] # 0
          /\ snap' = [snap EXCEPT ![r] = [Nothing EXCEPT ![num[r]] = row[num[r]]]]
          /\ unsure' = unsure \cup ({num[r]} \cap BeingWritten)
          /\ Go(r, "upsert")
          /\ UNCHANGED <<num, seen>>
    /\ UNCHANGED <<row, redisVars, localVars, configured, txn, bounds, lost, apart>>

Upsert(r) ==
    /\ pc[r] = "upsert" /\ Free(r)
    /\ store' = [store EXCEPT ![num[r]] = snap[r][num[r]]]
    /\ hash' = [hash EXCEPT ![num[r]] = snap[r][num[r]]]
    /\ Go(r, "bump")
    /\ UNCHANGED <<row, rev, local, configured, num, snap, seen, txn, bounds,
                   historyVars>>

UpsertFails(r) ==
    /\ Failure
    /\ pc[r] = "upsert" /\ Free(r)
    /\ store' = [store EXCEPT ![num[r]] = snap[r][num[r]]]
    /\ \/ UNCHANGED hash
       \/ hash' = [hash EXCEPT ![num[r]] = snap[r][num[r]]]
    /\ lost' = TRUE
    /\ apart' = TRUE
    /\ Done(r)
    /\ UNCHANGED <<row, rev, local, configured, txn, unsure>>

\* The listener adopts the revision it has produced, whatever others published
\* since the one it held.
UpsertBump(r) ==
    /\ pc[r] = "bump"
    /\ rev' = rev + 1
    /\ local' = rev + 1
    /\ apart' = (apart \/ lost \/ local # rev)
    /\ lost' = FALSE
    /\ Done(r)
    /\ UNCHANGED <<row, hash, store, configured, txn, bounds, unsure>>

UpsertBumpFails(r) ==
    /\ Failure
    /\ pc[r] = "bump"
    /\ \/ UNCHANGED rev
       \/ rev' = rev + 1
    /\ lost' = TRUE
    /\ apart' = TRUE
    /\ Done(r)
    /\ UNCHANGED <<row, hash, localVars, configured, txn, unsure>>

----------------------------------------------------------------------------

WebNext ==
    \E w \in WebThreads :
        \/ \E n \in Numbers : ApiSave(w, n) \/ AdminSave(w, n) \/ Delete(w, n)
        \/ Publish(w) \/ PublishFails(w)
        \/ Bump(w) \/ BumpFails(w)
        \/ Commit(w)

LoadNext ==
    \E t \in Readers \cup {Main} :
        LoadRead(t) \/ LoadPublish(t) \/ LoadPublishFails(t)

ReaderNext ==
    \E r \in Readers :
        \/ \E n \in Numbers : Begin(r, n)
        \/ ReadRev(r) \/ Compare(r) \/ Fetch(r) \/ RedisDown(r) \/ Replace(r)
        \/ Resync(r) \/ Lookup(r) \/ Fallback(r)
        \/ Upsert(r) \/ UpsertFails(r)
        \/ UpsertBump(r) \/ UpsertBumpFails(r)

Next == WebNext \/ LoadNext \/ Configure \/ ReaderNext

Spec == Init /\ [][Next]_vars

----------------------------------------------------------------------------
(* Properties.                                                             *)

\* Types; the listener never claims a revision Redis has not reached.
TypeOK ==
    /\ row \in Maps /\ hash \in Maps /\ store \in Maps
    /\ rev \in Nat /\ local \in 0..rev
    /\ configured \subseteq Numbers
    /\ pc \in [Threads -> {"idle", "publish", "bump", "commit", "load",
                           "load_publish", "configure", "read_rev", "compare",
                           "fetch", "replace", "lookup", "fallback", "upsert"}]
    /\ num \in [Threads -> Numbers]
    /\ snap \in [Threads -> Maps]
    /\ seen \in [Readers -> 0..rev]
    /\ txn \subseteq WebThreads
    /\ writes \in 0..MaxWrites /\ failures \in 0..MaxFailures
    /\ unsure \subseteq Numbers
    /\ lost \in BOOLEAN /\ apart \in BOOLEAN

\* Between two writes Redis holds the rows of the database, except those whose
\* last write was not published or met another thread publishing the same row.
HashFollowsRows ==
    Quiet => \A n \in Numbers \ unsure : hash[n] = row[n]

\* When the listener holds the current revision, its store is the hash, whatever
\* syncs, loads and upserts overlapped to bring it there, unless an upsert or a
\* failed load has put rows there without a revision of their own.
StoreFollowsHash ==
    (local = rev /\ ~lost /\ ~apart /\ \A t \in Threads : pc[t] # "bump")
        => store = hash
=============================================================================
