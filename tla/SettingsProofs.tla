--------------------------- MODULE SettingsProofs ---------------------------
(***************************************************************************)
(* Theorems about the cache of carousel settings, for any carousels,       *)
(* requests, listener threads, writes and failures: type correctness, the  *)
(* listener's store follows the hash, and the hash follows the rows.       *)
(*                                                                         *)
(* Neither of the two properties is inductive.  The store is the hash only *)
(* because a reader that holds the current revision has fetched the current *)
(* hash, and because nobody replaces the store between an upsert and its   *)
(* revision.  The hash is the row between two writes because, for a number *)
(* that nobody spoilt, either nobody writes it and all that are about to   *)
(* publish it hold its row, or one request writes it and nobody else is    *)
(* about to publish it.                                                    *)
(***************************************************************************)
EXTENDS SettingsCache, TLAPS

USE SettingsAssumption

\* The values of pc.
Steps == {"idle", "publish", "bump", "commit", "load", "load_publish", "configure",
          "read_rev", "compare", "fetch", "replace", "lookup", "fallback", "upsert"}

(***************************************************************************)
(* The inductive invariants.                                               *)
(***************************************************************************)

\* No request of the web process, and nobody at all, is between the change of the hash
\* and the revision.
NoWebBump == \A w \in WebThreads : pc[w] # "bump"
NoBump == \A t \in Threads : pc[t] # "bump"

\* The store of a listener that is up to date is the hash, also while one of its own
\* threads has changed both and not yet raised the revision.
StoreFresh == local = rev /\ ~lost /\ ~apart /\ NoWebBump => store = hash

\* What a reader has fetched under the current revision is the current hash.
ReadFresh ==
    \A r \in Readers :
        pc[r] = "replace" /\ seen[r] = rev /\ ~lost /\ NoBump => snap[r] = hash

Fresh == StoreFresh /\ ReadFresh

\* Nobody writes n: hash, row and what others are about to publish agree.  Somebody
\* does: it is one request, which nobody overtakes.
Agree(n) ==
    /\ Writing(n) = {} => /\ hash[n] = row[n]
                          /\ \A t \in Republishing(n) : snap[t][n] = row[n]
    /\ Writing(n) # {} =>
        /\ Republishing(n) = {}
        /\ \A v, w \in Writing(n) : v = w
        /\ \A w \in Writing(n) :
             /\ w \in txn \/ row[n] = snap[w][n]
             /\ pc[w] \in {"bump", "commit"} => hash[n] = snap[w][n]

Agreement == \A n \in Numbers \ unsure : Agree(n)

(***************************************************************************)
(* Types.                                                                  *)
(***************************************************************************)

\* The hash of settings and its fields.
LEMMA MapTypes ==
    /\ Nothing \in Maps /\ AnyNumber \in Numbers
    /\ MaxWrites \in Nat /\ MaxFailures \in Nat
    /\ \A m \in Maps, n \in Numbers, v \in Versions : [m EXCEPT ![n] = v] \in Maps
    /\ \A m \in Maps, n \in Numbers : m[n] \in Versions
BY DEF Nothing, AnyNumber, Maps, Versions

\* A thread that is through forgets what it knew.
LEMMA DoneTypes ==
    ASSUME TypeOK, NEW t \in Threads, Done(t)
    PROVE  /\ pc' \in [Threads -> Steps] /\ num' \in [Threads -> Numbers]
           /\ snap' \in [Threads -> Maps] /\ seen' \in [Readers -> 0..rev]
BY MapTypes DEF TypeOK, Done, Go, Steps

\* The start of both processes.
LEMMA InitTypes == Init => TypeOK
<1> SUFFICES ASSUME Init PROVE TypeOK
  OBVIOUS
<1>1. row \in Maps /\ hash \in Maps /\ store \in Maps /\ rev \in Nat /\ local \in 0..rev
  BY MapTypes DEF Init, Maps, Versions
<1>2. /\ num \in [Threads -> Numbers] /\ snap \in [Threads -> Maps] /\ seen \in [Readers -> 0..rev]
      /\ pc \in [Threads -> {"idle", "publish", "bump", "commit", "load",
                           "load_publish", "configure", "read_rev", "compare",
                           "fetch", "replace", "lookup", "fallback", "upsert"}]
  BY MapTypes DEF Init
<1>3. /\ configured \subseteq Numbers /\ txn \subseteq WebThreads
      /\ writes \in 0..MaxWrites /\ failures \in 0..MaxFailures
      /\ unsure \subseteq Numbers
  BY MapTypes DEF Init
<1>4. lost \in BOOLEAN /\ apart \in BOOLEAN
  BY DEF Init
<1> QED BY <1>1, <1>2, <1>3, <1>4 DEF TypeOK

\* The requests of the web process.
LEMMA WebTypes ==
    ASSUME TypeOK, WebNext
    PROVE  TypeOK'
<1> USE DEF TypeOK, redisVars, localVars, bounds, historyVars
<1>1. PICK w \in WebThreads :
        \/ \E n \in Numbers : ApiSave(w, n) \/ AdminSave(w, n) \/ Delete(w, n)
        \/ Publish(w) \/ PublishFails(w)
        \/ Bump(w) \/ BumpFails(w)
        \/ Commit(w)
  BY DEF WebNext
<1>2. w \in Threads
  BY DEF Threads
<1>3. ASSUME NEW n \in Numbers, NEW v \in Versions, Write(w, n, v)
      PROVE  /\ pc' \in [Threads -> Steps] /\ num' \in [Threads -> Numbers]
             /\ snap' \in [Threads -> Maps] /\ seen' = seen
             /\ unsure' \subseteq Numbers /\ writes' \in 0..MaxWrites
             /\ UNCHANGED <<hash, rev, store, local, configured, failures, lost, apart>>
  <2>1. [Nothing EXCEPT ![n] = v] \in Maps
    BY <1>3, MapTypes
  <2>2. pc' \in [Threads -> Steps] /\ num' \in [Threads -> Numbers]
    BY <1>2, <1>3 DEF Write, Go, Steps
  <2>3. snap' \in [Threads -> Maps]
    BY <1>2, <1>3, <2>1 DEF Write
  <2> QED BY <1>3, <2>2, <2>3, MapTypes DEF Write
<1>4. ASSUME NEW n \in Numbers, ApiSave(w, n) \/ AdminSave(w, n) \/ Delete(w, n)
      PROVE  TypeOK'
  <2>1. PICK v \in Versions : Write(w, n, v) /\ row' \in {row, [row EXCEPT ![n] = v]}
                              /\ txn' \in {txn, txn \cup {w}}
    <3>1. writes < MaxWrites => writes + 2 \in Versions
      BY MapTypes DEF Versions
    <3>2. 0 \in Versions
      BY MapTypes DEF Versions
    <3> QED BY <1>4, <3>1, <3>2 DEF ApiSave, AdminSave, Delete, Write
  <2>2. row' \in Maps /\ txn' \subseteq WebThreads
    BY <2>1, MapTypes
  <2> QED BY <1>3, <2>1, <2>2 DEF Steps
<1>5. ASSUME Return(w)
      PROVE  /\ pc' \in [Threads -> Steps] /\ num' \in [Threads -> Numbers]
             /\ snap' \in [Threads -> Maps] /\ seen' \in [Readers -> 0..rev]
  <2>1. CASE w \in txn
    BY <1>2, <1>5, <2>1 DEF Return, Go, Steps
  <2>2. CASE w \notin txn
    BY <1>2, <1>5, <2>2, DoneTypes DEF Return
  <2> QED BY <2>1, <2>2
<1>6. [hash EXCEPT ![num[w]] = snap[w][num[w]]] \in Maps /\ [row EXCEPT ![num[w]] = snap[w][num[w]]] \in Maps
  BY <1>2, MapTypes
<1>7. CASE Publish(w)
  BY <1>2, <1>6, <1>7 DEF Publish, Go
<1>8. CASE PublishFails(w)
  <2>1. failures' \in 0..MaxFailures /\ writes' = writes
    BY <1>8, MapTypes DEF PublishFails, Failure
  <2>2. hash' \in Maps /\ unsure' \subseteq Numbers
    BY <1>2, <1>6, <1>8 DEF PublishFails
  <2> QED BY <1>5, <1>8, <2>1, <2>2 DEF PublishFails, Steps
<1>9. CASE Bump(w)
  <2>1. seen' \in [Readers -> 0..rev'] /\ rev' \in Nat /\ local' \in 0..rev'
    BY <1>5, <1>9 DEF Bump
  <2> QED BY <1>5, <1>9, <2>1 DEF Bump, Steps
<1>10. CASE BumpFails(w)
  <2>1. seen' \in [Readers -> 0..rev'] /\ rev' \in Nat /\ local' \in 0..rev'
    BY <1>5, <1>10 DEF BumpFails
  <2>2. failures' \in 0..MaxFailures /\ writes' = writes
    BY <1>10, MapTypes DEF BumpFails, Failure
  <2>3. lost' \in BOOLEAN
    BY <1>10 DEF BumpFails
  <2> QED BY <1>5, <1>10, <2>1, <2>2, <2>3 DEF BumpFails, Steps
<1>11. CASE Commit(w)
  BY <1>2, <1>6, <1>11, DoneTypes DEF Commit, Steps
<1> QED BY <1>1, <1>4, <1>7, <1>8, <1>9, <1>10, <1>11

\* load_from_db and the start of the listener.
LEMMA LoadTypes ==
    ASSUME TypeOK, LoadNext \/ Configure
    PROVE  TypeOK'
<1> USE DEF TypeOK, redisVars, localVars, bounds, historyVars
<1>1. ASSUME NEW t \in Readers \cup {Main}, LoadRead(t) PROVE TypeOK'
  <2>1. t \in Threads
    BY DEF Threads
  <2>2. snap' \in [Threads -> Maps] /\ unsure' \subseteq Numbers
    BY <1>1, <2>1 DEF LoadRead, BeingWritten
  <2> QED BY <1>1, <2>1, <2>2 DEF LoadRead, Go
<1>2. ASSUME NEW t \in Readers \cup {Main}, LoadPublish(t) \/ LoadPublishFails(t) PROVE TypeOK'
  <2>1. t \in Threads
    BY DEF Threads
  <2>2. /\ store' \in Maps /\ pc' \in [Threads -> Steps]
        /\ UNCHANGED <<row, configured, num, snap, seen, txn>>
    BY <1>2, <2>1 DEF LoadPublish, LoadPublishFails, AfterLoad, Go, Steps
  <2>3. hash' \in Maps /\ unsure' \subseteq Numbers
    BY <1>2, <2>1 DEF LoadPublish, LoadPublishFails
  <2>4. rev' \in Nat /\ rev <= rev' /\ local' \in 0..rev'
    BY <1>2 DEF LoadPublish, LoadPublishFails
  <2>7. lost' \in BOOLEAN /\ apart' \in BOOLEAN
    BY <1>2 DEF LoadPublish, LoadPublishFails
  <2>5. seen' \in [Readers -> 0..rev']
    BY <2>2, <2>4
  <2>6. failures' \in 0..MaxFailures /\ writes' = writes
    BY <1>2, MapTypes DEF LoadPublish, LoadPublishFails, Failure
  <2> QED BY <2>2, <2>3, <2>4, <2>5, <2>6, <2>7 DEF Steps
<1>3. CASE Configure
  <2>1. Main \in Threads
    BY DEF Threads
  <2> QED BY <1>3, <2>1, DoneTypes DEF Configure, Steps
<1> QED BY <1>1, <1>2, <1>3 DEF LoadNext

\* The requests of the posts.
LEMMA ReaderTypes ==
    ASSUME TypeOK, ReaderNext
    PROVE  TypeOK'
<1> USE DEF TypeOK, redisVars, localVars, bounds, historyVars
<1>1. PICK r \in Readers :
        \/ \E n \in Numbers : Begin(r, n)
        \/ ReadRev(r) \/ Compare(r) \/ Fetch(r) \/ RedisDown(r) \/ Replace(r)
        \/ Resync(r) \/ Lookup(r) \/ Fallback(r)
        \/ Upsert(r) \/ UpsertFails(r)
        \/ UpsertBump(r) \/ UpsertBumpFails(r)
  BY DEF ReaderNext
<1>2. r \in Threads
  BY DEF Threads
<1>3. ASSUME NEW n \in Numbers, Begin(r, n) PROVE TypeOK'
  BY <1>2, <1>3 DEF Begin, Go
<1>4. CASE ReadRev(r) \/ Compare(r)
  BY <1>2, <1>4 DEF ReadRev, Compare, Go
<1>5. CASE Fetch(r)
  <2>1. snap' \in [Threads -> Maps]
    BY <1>2, <1>5 DEF Fetch
  <2> QED BY <1>2, <1>5, <2>1 DEF Fetch, Go
<1>6. CASE RedisDown(r)
  BY <1>2, <1>6, MapTypes DEF RedisDown, Failure, Go
<1>7. CASE Replace(r)
  BY <1>2, <1>7 DEF Replace, Go
<1>8. CASE Resync(r)
  <2>1. snap' \in [Threads -> Maps]
    BY <1>2, <1>8, MapTypes DEF Resync
  <2> QED BY <1>2, <1>8, <2>1 DEF Resync, Go
<1>9. CASE Lookup(r)
  <2>1. CASE Done(r)
    BY <1>2, <1>9, <2>1, DoneTypes DEF Lookup, Steps
  <2>2. CASE Go(r, "fallback") /\ UNCHANGED <<num, snap, seen>>
    BY <1>2, <1>9, <2>2 DEF Lookup, Go
  <2> QED BY <1>9, <2>1, <2>2 DEF Lookup
<1>10. CASE Fallback(r)
  <2>1. CASE Done(r) /\ UNCHANGED unsure
    BY <1>2, <1>10, <2>1, DoneTypes DEF Fallback, Steps
  <2>2. CASE /\ snap' = [snap EXCEPT ![r] = [Nothing EXCEPT ![num[r]] = row[num[r]]]]
             /\ unsure' = unsure \cup ({num[r]} \cap BeingWritten)
             /\ Go(r, "upsert")
             /\ UNCHANGED <<num, seen>>
    <3>1. [Nothing EXCEPT ![num[r]] = row[num[r]]] \in Maps
      BY <1>2, MapTypes
    <3>2. snap' \in [Threads -> Maps] /\ unsure' \subseteq Numbers
      BY <1>2, <2>2, <3>1 DEF BeingWritten
    <3> QED BY <1>2, <1>10, <2>2, <3>2 DEF Fallback, Go
  <2> QED BY <1>10, <2>1, <2>2 DEF Fallback
<1>11. /\ [store EXCEPT ![num[r]] = snap[r][num[r]]] \in Maps
       /\ [hash EXCEPT ![num[r]] = snap[r][num[r]]] \in Maps
  BY <1>2, MapTypes
<1>12. CASE Upsert(r)
  BY <1>2, <1>11, <1>12 DEF Upsert, Go
<1>13. CASE UpsertFails(r)
  <2>1. failures' \in 0..MaxFailures /\ writes' = writes
    BY <1>13, MapTypes DEF UpsertFails, Failure
  <2>2. hash' \in Maps /\ store' \in Maps
    BY <1>11, <1>13 DEF UpsertFails
  <2> QED BY <1>2, <1>13, <2>1, <2>2, DoneTypes DEF UpsertFails, Steps
<1>14. CASE UpsertBump(r)
  <2>1. seen' \in [Readers -> 0..rev'] /\ rev' \in Nat /\ local' \in 0..rev' /\ apart' \in BOOLEAN
    BY <1>2, <1>14, DoneTypes DEF UpsertBump
  <2> QED BY <1>2, <1>14, <2>1, DoneTypes DEF UpsertBump, Steps
<1>15. CASE UpsertBumpFails(r)
  <2>1. seen' \in [Readers -> 0..rev'] /\ rev' \in Nat /\ local' \in 0..rev'
    BY <1>2, <1>15, DoneTypes DEF UpsertBumpFails
  <2>2. failures' \in 0..MaxFailures /\ writes' = writes
    BY <1>15, MapTypes DEF UpsertBumpFails, Failure
  <2> QED BY <1>2, <1>15, <2>1, <2>2, DoneTypes DEF UpsertBumpFails, Steps
<1> QED BY <1>1, <1>3, <1>4, <1>5, <1>6, <1>7, <1>8, <1>9, <1>10, <1>12, <1>13, <1>14, <1>15

(***************************************************************************)
(* The store and the hash.                                                 *)
(***************************************************************************)

\* What a step that leaves Redis and the store alone must not do.
Calm ==
    /\ UNCHANGED <<hash, rev, store, local, lost, apart>>
    /\ \A t \in Threads : pc'[t] = "bump" <=> pc[t] = "bump"
    /\ \A r \in Readers : pc'[r] = "replace" =>
         \/ snap'[r] = hash
         \/ pc[r] = "replace" /\ snap'[r] = snap[r] /\ seen'[r] = seen[r]

\* Such a step preserves the invariant.
LEMMA CalmFresh ==
    ASSUME TypeOK, Fresh, Calm
    PROVE  Fresh'
<1>1. StoreFresh'
  <2>1. NoWebBump' => NoWebBump
    BY DEF Calm, NoWebBump, Threads
  <2> QED BY <2>1 DEF Fresh, StoreFresh, Calm
<1>2. ReadFresh'
  <2> SUFFICES ASSUME NEW r \in Readers, pc'[r] = "replace", seen'[r] = rev', ~lost', NoBump'
               PROVE  snap'[r] = hash'
    BY DEF ReadFresh
  <2>1. NoBump
    BY DEF Calm, NoBump
  <2> QED BY <2>1 DEF Fresh, ReadFresh, Calm
<1> QED BY <1>1, <1>2 DEF Fresh

\* A request that changes the hash raises the revision or is known to have lost it.
LEMMA WebFresh ==
    ASSUME TypeOK, Fresh, WebNext
    PROVE  Fresh'
<1> USE DEF redisVars, localVars, bounds, historyVars
<1>1. PICK w \in WebThreads :
        \/ \E n \in Numbers : ApiSave(w, n) \/ AdminSave(w, n) \/ Delete(w, n)
        \/ Publish(w) \/ PublishFails(w)
        \/ Bump(w) \/ BumpFails(w)
        \/ Commit(w)
  BY DEF WebNext
<1>2. w \in Threads /\ w \notin Readers
  BY DEF Threads
<1>3. ASSUME NEW n \in Numbers, ApiSave(w, n) \/ AdminSave(w, n) \/ Delete(w, n) PROVE Fresh'
  <2>1. PICK v \in Int : Write(w, n, v)
    BY <1>3 DEF ApiSave, AdminSave, Delete, TypeOK
  <2>2. Calm
    BY <1>2, <2>1 DEF Calm, Write, Go, TypeOK
  <2> QED BY <2>2, CalmFresh
<1>4. ASSUME Return(w)
      PROVE  /\ \A r \in Readers : pc'[r] = pc[r] /\ snap'[r] = snap[r] /\ seen'[r] = seen[r]
             /\ \A t \in Threads : t # w => pc'[t] = pc[t]
             /\ pc'[w] # "bump"
  <2>0. pc \in [Threads -> Steps] /\ snap \in [Threads -> Maps] /\ seen \in [Readers -> 0..rev]
    BY DEF TypeOK, Steps
  <2>1. pc' = [pc EXCEPT ![w] = "commit"] \/ pc' = [pc EXCEPT ![w] = "idle"]
    BY <1>4 DEF Return, Done, Go
  <2>2. snap' = snap \/ snap' = [snap EXCEPT ![w] = Nothing]
    BY <1>4 DEF Return, Done
  <2>3. seen' = seen \/ seen' = [r \in Readers |-> IF r = w THEN 0 ELSE seen[r]]
    BY <1>4 DEF Return, Done
  <2>4. \A r \in Readers : r \in Threads /\ r # w
    BY <1>2 DEF Threads
  <2>5. \A t \in Threads : t # w => pc'[t] = pc[t]
    BY <1>2, <2>0, <2>1
  <2>6. pc'[w] # "bump"
    BY <1>2, <2>0, <2>1
  <2>7. \A r \in Readers : snap'[r] = snap[r]
    BY <1>2, <2>0, <2>2, <2>4
  <2>8. \A r \in Readers : seen'[r] = seen[r]
    BY <2>0, <2>3, <2>4
  <2> QED BY <2>4, <2>5, <2>6, <2>7, <2>8
<1>5. CASE Publish(w)
  <2>1. pc'[w] = "bump"
    BY <1>2, <1>5 DEF Publish, Go, TypeOK
  <2> QED BY <1>2, <2>1 DEF Fresh, StoreFresh, ReadFresh, NoWebBump, NoBump
<1>6. CASE PublishFails(w)
  BY <1>6 DEF PublishFails, Fresh, StoreFresh, ReadFresh
<1>7. ASSUME rev' = rev + 1, local' = local, Return(w) PROVE Fresh'
  <2>1. local' # rev' /\ \A r \in Readers : seen'[r] # rev'
    BY <1>4, <1>7 DEF TypeOK
  <2> QED BY <2>1 DEF Fresh, StoreFresh, ReadFresh
<1>8. CASE Bump(w)
  BY <1>7, <1>8 DEF Bump
<1>9. CASE BumpFails(w)
  <2>1. CASE lost' = TRUE
    BY <2>1 DEF Fresh, StoreFresh, ReadFresh
  <2>2. CASE rev' = rev + 1
    BY <1>7, <1>9, <2>2 DEF BumpFails
  <2> QED BY <1>9, <2>1, <2>2 DEF BumpFails
<1>10. CASE Commit(w)
  <2>1. Calm
    BY <1>2, <1>10 DEF Calm, Commit, Done, Go, TypeOK
  <2> QED BY <2>1, CalmFresh
<1> QED BY <1>1, <1>3, <1>5, <1>6, <1>8, <1>9, <1>10

\* A load publishes and takes its own revision, or none.
LEMMA LoadFresh ==
    ASSUME TypeOK, Fresh, LoadNext \/ Configure
    PROVE  Fresh'
<1> USE DEF redisVars, localVars, bounds, historyVars
<1>1. ASSUME NEW t \in Readers \cup {Main}, LoadRead(t) PROVE Fresh'
  <2>1. Calm
    BY <1>1 DEF Calm, LoadRead, Go, TypeOK, Threads
  <2> QED BY <2>1, CalmFresh
<1>2. ASSUME NEW t \in Readers \cup {Main}, LoadPublish(t) \/ LoadPublishFails(t) PROVE Fresh'
  <2>1. /\ pc' = [pc EXCEPT ![t] = IF t = Main THEN "configure" ELSE "lookup"]
        /\ store' = snap[t] /\ snap' = snap /\ seen' = seen
    BY <1>2 DEF LoadPublish, LoadPublishFails, AfterLoad, Go
  <2>2. StoreFresh'
    BY <1>2, <2>1 DEF LoadPublish, LoadPublishFails, StoreFresh
  <2>3. CASE rev' = rev + 1
    <3>1. \A r \in Readers : seen'[r] # rev'
      BY <2>1, <2>3 DEF TypeOK
    <3> QED BY <2>2, <3>1 DEF Fresh, ReadFresh
  <2>4. CASE UNCHANGED <<redisVars, unsure, lost>>
    <3> SUFFICES ASSUME NEW r \in Readers, pc'[r] = "replace", seen'[r] = rev', ~lost', NoBump'
                 PROVE  snap'[r] = hash'
      BY <2>2 DEF Fresh, ReadFresh
    <3>1. NoBump /\ pc[r] = "replace"
      BY <1>2, <2>1 DEF NoBump, TypeOK, Threads, LoadPublish, LoadPublishFails
    <3> QED BY <2>1, <2>4, <3>1 DEF Fresh, ReadFresh
  <2> QED BY <1>2, <2>3, <2>4 DEF LoadPublish, LoadPublishFails
<1>3. CASE Configure
  <2>1. Calm
    BY <1>3 DEF Calm, Configure, Done, Go, TypeOK, Threads
  <2> QED BY <2>1, CalmFresh
<1> QED BY <1>1, <1>2, <1>3 DEF LoadNext

\* A reader replaces the store when nobody is between hash and revision.
LEMMA ReaderFresh ==
    ASSUME TypeOK, Fresh, ReaderNext
    PROVE  Fresh'
<1> USE DEF redisVars, localVars, bounds, historyVars
<1>1. PICK r \in Readers :
        \/ \E n \in Numbers : Begin(r, n)
        \/ ReadRev(r) \/ Compare(r) \/ Fetch(r) \/ RedisDown(r) \/ Replace(r)
        \/ Resync(r) \/ Lookup(r) \/ Fallback(r)
        \/ Upsert(r) \/ UpsertFails(r)
        \/ UpsertBump(r) \/ UpsertBumpFails(r)
  BY DEF ReaderNext
<1>2. r \in Threads
  BY DEF Threads
<1>3. CASE \E n \in Numbers : Begin(r, n)
  <2>1. Calm
    BY <1>2, <1>3 DEF Calm, Begin, Go, TypeOK, Threads
  <2> QED BY <2>1, CalmFresh
<1>4. CASE ReadRev(r) \/ Compare(r) \/ RedisDown(r) \/ Resync(r)
  <2>1. Calm
    BY <1>2, <1>4 DEF Calm, ReadRev, Compare, RedisDown, Resync, Go, TypeOK, Threads
  <2> QED BY <2>1, CalmFresh
<1>5. CASE Fetch(r)
  <2>1. Calm
    BY <1>2, <1>5 DEF Calm, Fetch, Go, TypeOK, Threads
  <2> QED BY <2>1, CalmFresh
<1>6. CASE Lookup(r) \/ Fallback(r)
  <2>1. Calm
    BY <1>2, <1>6 DEF Calm, Lookup, Fallback, Done, Go, TypeOK, Threads
  <2> QED BY <2>1, CalmFresh
<1>7. CASE Replace(r)
  <2>1. StoreFresh'
    <3> SUFFICES ASSUME local' = rev', ~lost', NoWebBump' PROVE store' = hash'
      BY DEF StoreFresh
    <3>1. seen[r] = rev /\ ~lost /\ pc[r] = "replace" /\ hash' = hash
      BY <1>7 DEF Replace
    <3>2. ASSUME NEW t \in Threads PROVE pc[t] # "bump"
      <4>1. CASE t \in WebThreads
        BY <1>2, <1>7, <4>1 DEF Replace, Go, NoWebBump, TypeOK
      <4>2. CASE t \in Process(r) \ {r}
        BY <1>7, <4>2 DEF Replace, Free
      <4> QED BY <3>1, <4>1, <4>2 DEF Process, Threads
    <3> QED BY <1>7, <3>1, <3>2 DEF Fresh, ReadFresh, NoBump, Replace
  <2>2. ReadFresh'
    <3> SUFFICES ASSUME NEW q \in Readers, pc'[q] = "replace", seen'[q] = rev', ~lost', NoBump'
                 PROVE  snap'[q] = hash'
      BY DEF ReadFresh
    <3>1. NoBump /\ pc[q] = "replace"
      BY <1>2, <1>7 DEF NoBump, TypeOK, Threads, Replace, Go
    <3> QED BY <1>7, <3>1 DEF Fresh, ReadFresh, Replace
  <2> QED BY <2>1, <2>2 DEF Fresh
<1>8. CASE Upsert(r)
  <2>1. pc' = [pc EXCEPT ![r] = "bump"] /\ pc'[r] = "bump"
    BY <1>2, <1>8 DEF Upsert, Go, TypeOK
  <2>2. ReadFresh'
    BY <1>2, <2>1 DEF ReadFresh, NoBump
  <2>3. NoWebBump' => NoWebBump
    BY <2>1 DEF NoWebBump, TypeOK, Threads
  <2>4. StoreFresh'
    BY <1>8, <2>3 DEF Fresh, StoreFresh, Upsert
  <2> QED BY <2>2, <2>4 DEF Fresh
<1>9. CASE UpsertFails(r) \/ UpsertBumpFails(r)
  BY <1>9 DEF UpsertFails, UpsertBumpFails, Fresh, StoreFresh, ReadFresh
<1>10. CASE UpsertBump(r)
  <2>1. \A q \in Readers : seen'[q] # rev'
    BY <1>2, <1>10 DEF UpsertBump, Done, TypeOK
  <2>2. NoWebBump' => NoWebBump
    BY <1>2, <1>10 DEF NoWebBump, TypeOK, Threads, UpsertBump, Done, Go
  <2>3. StoreFresh'
    BY <1>10, <2>2 DEF Fresh, StoreFresh, UpsertBump
  <2> QED BY <2>1, <2>3 DEF Fresh, ReadFresh
<1> QED BY <1>1, <1>3, <1>4, <1>5, <1>6, <1>7, <1>8, <1>9, <1>10

(***************************************************************************)
(* The hash and the rows.                                                  *)
(***************************************************************************)

\* Only thread t moves.
Touches(t) ==
    \A u \in Threads \ {t} : pc'[u] = pc[u] /\ num'[u] = num[u] /\ snap'[u] = snap[u]

\* The threads of the listener.
Loaders == Readers \cup {Main}

\* The threads of the two processes are different ones.
LEMMA ThreadSets ==
    /\ WebThreads \subseteq Threads /\ Loaders \subseteq Threads
    /\ \A w \in WebThreads : w \notin Loaders
BY DEF Threads, Loaders

\* A step of a request that is not about n, before or after.
LEMMA WebApart ==
    ASSUME NEW n \in Numbers, Agree(n), NEW w \in WebThreads, Touches(w),
           w \notin Writing(n), w \notin Writing(n)',
           hash'[n] = hash[n], row'[n] = row[n],
           \A v \in WebThreads \ {w} : v \in txn' <=> v \in txn
    PROVE  Agree(n)'
<1>1. Writing(n)' = Writing(n)
  BY ThreadSets DEF Touches, Writing
<1>2. Republishing(n)' = Republishing(n)
  BY ThreadSets DEF Touches, Republishing, Loaders
<1>3. \A t \in Republishing(n) : snap'[t] = snap[t]
  BY ThreadSets DEF Touches, Republishing, Loaders
<1>4. \A v \in Writing(n) : snap'[v] = snap[v] /\ pc'[v] = pc[v] /\ (v \in txn' <=> v \in txn)
  BY ThreadSets DEF Touches, Writing
<1> HIDE DEF Touches
<1>5. Writing(n) = {} => Agree(n)'
  BY <1>1, <1>2, <1>3 DEF Agree
<1>6. Writing(n) # {} => Agree(n)'
  BY <1>1, <1>2, <1>4 DEF Agree
<1> QED BY <1>5, <1>6

\* A thread of the listener that does not begin to publish the row of n.
LEMMA LoaderApart ==
    ASSUME NEW n \in Numbers, Agree(n), NEW t \in Loaders, Touches(t),
           t \in Republishing(n)' => t \in Republishing(n) /\ snap'[t] = snap[t],
           hash'[n] = hash[n], row' = row, txn' = txn
    PROVE  Agree(n)'
<1>1. Writing(n)' = Writing(n)
  BY ThreadSets DEF Touches, Writing
<1>2. /\ Republishing(n)' \subseteq Republishing(n)
      /\ \A u \in Republishing(n)' : snap'[u] = snap[u]
  BY ThreadSets DEF Touches, Republishing, Loaders
<1>4. \A v \in Writing(n) : snap'[v] = snap[v] /\ pc'[v] = pc[v]
  BY ThreadSets DEF Touches, Writing
<1>5. Writing(n) = {} => Agree(n)'
  BY <1>1, <1>2 DEF Agree
<1>6. Writing(n) # {} => Agree(n)'
  BY <1>1, <1>2, <1>4 DEF Agree
<1> QED BY <1>5, <1>6

\* The end of a thread concerns no other.
LEMMA DoneThread ==
    ASSUME TypeOK, NEW t \in Threads, Done(t)
    PROVE  Touches(t) /\ pc'[t] = "idle"
BY DEF TypeOK, Done, Go, Touches

\* A write of n makes n sure only if nobody else is about to publish it.
LEMMA WriteAgrees ==
    ASSUME TypeOK, Agreement, NEW w \in WebThreads, NEW m \in Numbers,
           ApiSave(w, m) \/ AdminSave(w, m) \/ Delete(w, m)
    PROVE  Agreement'
<1> USE DEF redisVars, localVars
<1>1. PICK v : /\ Write(w, m, v)
               /\ \/ row' = [row EXCEPT ![m] = v] /\ txn' = txn
                  \/ row' = row /\ txn' = txn \cup {w}
  BY DEF ApiSave, AdminSave, Delete
<1>2. /\ pc[w] = "idle" /\ pc'[w] = "publish" /\ num'[w] = m /\ Touches(w)
      /\ snap'[w] = [Nothing EXCEPT ![m] = v]
  BY <1>1, ThreadSets DEF Write, Go, TypeOK, Touches
<1>3. snap'[w][m] = v
  BY <1>2 DEF Nothing
<1> SUFFICES ASSUME NEW n \in Numbers, n \notin unsure' PROVE Agree(n)'
  BY DEF Agreement
<1>4. CASE n # m
  <2>1. Agree(n)
    BY <1>1, <1>4 DEF Write, Agreement
  <2>2. w \notin Writing(n) /\ w \notin Writing(n)'
    BY <1>2, <1>4 DEF Writing
  <2>3. hash'[n] = hash[n] /\ row'[n] = row[n]
    BY <1>1, <1>4 DEF Write, TypeOK, Maps
  <2>4. \A u \in WebThreads \ {w} : u \in txn' <=> u \in txn
    BY <1>1
  <2> QED BY <1>2, <2>1, <2>2, <2>3, <2>4, WebApart
<1>5. CASE n = m
  <2>1. Writing(n) = {} /\ Republishing(n) = {}
    BY <1>1, <1>5 DEF Write
  <2>2. Writing(n)' = {w}
    BY <1>2, <1>5, <2>1, ThreadSets DEF Writing, Touches
  <2>3. Republishing(n)' = {}
    BY <1>2, <2>1, ThreadSets DEF Republishing, Touches, Loaders
  <2>4. w \in txn' \/ row'[n] = snap'[w][n]
    BY <1>1, <1>3, <1>5 DEF TypeOK, Maps
  <2> QED BY <1>2, <2>2, <2>3, <2>4 DEF Agree
<1> QED BY <1>4, <1>5

\* The request that writes n publishes what it commits.
LEMMA WebAgrees ==
    ASSUME TypeOK, Agreement, WebNext
    PROVE  Agreement'
<1> USE DEF redisVars, localVars, bounds, historyVars
<1>1. PICK w \in WebThreads :
        \/ \E n \in Numbers : ApiSave(w, n) \/ AdminSave(w, n) \/ Delete(w, n)
        \/ Publish(w) \/ PublishFails(w)
        \/ Bump(w) \/ BumpFails(w)
        \/ Commit(w)
  BY DEF WebNext
<1>2. w \in Threads /\ num[w] \in Numbers
  BY ThreadSets DEF TypeOK
<1>3. CASE \E n \in Numbers : ApiSave(w, n) \/ AdminSave(w, n) \/ Delete(w, n)
  BY <1>3, WriteAgrees
<1> SUFFICES ASSUME NEW n \in Numbers, n \notin unsure',
                    Publish(w) \/ PublishFails(w) \/ Bump(w) \/ BumpFails(w) \/ Commit(w)
             PROVE  Agree(n)'
  BY <1>1, <1>3 DEF Agreement
<1>4. Agree(n)
  BY DEF Agreement, Publish, PublishFails, Bump, BumpFails, Commit
<1>5. Return(w) => /\ Touches(w)
                   /\ \/ w \in txn /\ pc'[w] = "commit" /\ num' = num /\ snap' = snap
                      \/ w \notin txn /\ pc'[w] = "idle"
  BY <1>2, DoneThread DEF Return, Go, Touches, TypeOK
<1>6. Touches(w) /\ (pc'[w] = "idle" \/ (num' = num /\ snap' = snap))
  <2>1. Publish(w) => Touches(w) /\ num' = num /\ snap' = snap
    BY <1>2 DEF Publish, Go, Touches, TypeOK
  <2>2. Commit(w) => Touches(w) /\ pc'[w] = "idle"
    BY <1>2, DoneThread DEF Commit
  <2> QED BY <1>5, <2>1, <2>2 DEF PublishFails, Bump, BumpFails
<1>7. pc[w] # "idle"
  BY DEF Publish, PublishFails, Bump, BumpFails, Commit
<1>8. CASE num[w] # n
  <2>1. w \notin Writing(n) /\ w \notin Writing(n)'
    BY <1>6, <1>8 DEF Writing
  <2>2. hash'[n] = hash[n] /\ row'[n] = row[n]
    BY <1>2, <1>8 DEF Publish, PublishFails, Bump, BumpFails, Commit, TypeOK, Maps
  <2>3. \A v \in WebThreads \ {w} : v \in txn' <=> v \in txn
    BY DEF Publish, PublishFails, Bump, BumpFails, Commit
  <2> QED BY <1>4, <1>6, <2>1, <2>2, <2>3, WebApart
<1>9. CASE num[w] = n
  <2>1. w \in Writing(n)
    BY <1>7, <1>9 DEF Writing
  <2>2. Writing(n) = {w} /\ Republishing(n) = {} /\ (w \in txn \/ row[n] = snap[w][n])
    BY <1>4, <2>1 DEF Agree
  <2>3. pc[w] \in {"bump", "commit"} => hash[n] = snap[w][n]
    BY <1>4, <2>1 DEF Agree
  <2>4. Writing(n)' \subseteq {w} /\ Republishing(n)' = {}
    BY <1>6, <2>2, ThreadSets DEF Touches, Writing, Republishing, Loaders
  <2>5. CASE Publish(w)
    <3>1. hash'[n] = snap[w][n] /\ row' = row /\ txn' = txn /\ snap' = snap
      BY <1>2, <1>9, <2>5 DEF Publish, TypeOK, Maps
    <3>2. Writing(n)' = {w}
      BY <1>2, <1>9, <2>4, <2>5 DEF Publish, Go, TypeOK, Writing
    <3> QED BY <2>2, <2>4, <3>1, <3>2 DEF Agree
  <2>6. CASE PublishFails(w)
    BY <1>9, <2>6 DEF PublishFails
  <2>7. CASE Bump(w) \/ BumpFails(w)
    <3>1. Return(w) /\ hash' = hash /\ row' = row /\ txn' = txn /\ hash[n] = snap[w][n]
      BY <2>3, <2>7 DEF Bump, BumpFails
    <3>2. CASE w \in txn /\ pc'[w] = "commit" /\ num' = num /\ snap' = snap
      <4>1. Writing(n)' = {w}
        BY <1>9, <2>4, <3>2 DEF Writing
      <4> QED BY <2>4, <3>1, <3>2, <4>1 DEF Agree
    <3>3. CASE pc'[w] = "idle" /\ w \notin txn
      <4>1. Writing(n)' = {}
        BY <2>4, <3>3 DEF Writing
      <4> QED BY <2>2, <2>4, <3>1, <3>3, <4>1 DEF Agree
    <3> QED BY <1>5, <3>1, <3>2, <3>3
  <2>8. CASE Commit(w)
    <3>1. hash' = hash /\ row'[n] = snap[w][n] /\ hash[n] = snap[w][n] /\ pc'[w] = "idle"
      BY <1>2, <1>9, <2>3, <2>8, DoneThread DEF Commit, TypeOK, Maps
    <3>2. Writing(n)' = {}
      BY <2>4, <3>1 DEF Writing
    <3> QED BY <2>4, <3>1, <3>2 DEF Agree
  <2> QED BY <2>5, <2>6, <2>7, <2>8
<1> QED BY <1>8, <1>9

\* A load reads and publishes the rows; the numbers written meanwhile are unsure.
LEMMA LoadAgrees ==
    ASSUME TypeOK, Agreement, LoadNext \/ Configure
    PROVE  Agreement'
<1> USE DEF redisVars, localVars, bounds, historyVars
<1>1. ASSUME NEW t \in Loaders, LoadRead(t), NEW n \in Numbers, n \notin unsure' PROVE Agree(n)'
  <2>1. Agree(n) /\ Writing(n) = {}
    BY <1>1 DEF LoadRead, Agreement, BeingWritten
  <2>2. Touches(t) /\ snap'[t] = row
    BY <1>1, ThreadSets DEF LoadRead, Go, Touches, TypeOK
  <2>3. Writing(n)' = {}
    BY <2>1, <2>2, ThreadSets DEF Touches, Writing
  <2>4. \A u \in Republishing(n)' \ {t} : u \in Republishing(n) /\ snap'[u] = snap[u]
    BY <2>2, ThreadSets DEF Touches, Republishing, Loaders
  <2>5. \A u \in Republishing(n)' : snap'[u][n] = row[n]
    BY <2>1, <2>2, <2>4 DEF Agree
  <2>6. hash' = hash /\ row' = row
    BY <1>1 DEF LoadRead
  <2> QED BY <2>1, <2>3, <2>5, <2>6 DEF Agree
<1>2. ASSUME NEW t \in Loaders, LoadPublish(t) \/ LoadPublishFails(t),
             NEW n \in Numbers, n \notin unsure'
      PROVE  Agree(n)'
  <2>1. Touches(t) /\ t \notin Republishing(n)' /\ row' = row /\ txn' = txn
    BY <1>2, ThreadSets DEF LoadPublish, LoadPublishFails, AfterLoad, Go, Touches, TypeOK, Republishing
  <2>2. CASE hash' = snap[t] /\ unsure' = Numbers \ Intact(t)
    <3>1. row[n] = snap[t][n] /\ Writing(n) = {} /\ Republishing(n) \subseteq {t}
      BY <1>2, <2>2 DEF Intact
    <3>2. Writing(n)' = {} /\ Republishing(n)' = {}
      BY <2>1, <3>1, ThreadSets DEF Touches, Writing, Republishing, Loaders
    <3> QED BY <2>1, <2>2, <3>1, <3>2 DEF Agree
  <2>3. CASE UNCHANGED <<hash, unsure>>
    <3>1. Agree(n)
      BY <1>2, <2>3 DEF Agreement
    <3> QED BY <2>1, <2>3, <3>1, LoaderApart
  <2> QED BY <1>2, <2>2, <2>3 DEF LoadPublish, LoadPublishFails
<1>3. ASSUME Configure, NEW n \in Numbers, n \notin unsure' PROVE Agree(n)'
  <2>1. Agree(n) /\ Main \in Loaders /\ Main \in Threads
    BY <1>3, ThreadSets DEF Configure, Agreement, Loaders
  <2>2. Touches(Main) /\ Main \notin Republishing(n)'
    BY <1>3, <2>1, DoneThread DEF Configure, Republishing
  <2>3. hash' = hash /\ row' = row /\ txn' = txn
    BY <1>3 DEF Configure
  <2> QED BY <2>1, <2>2, <2>3, LoaderApart
<1> QED BY <1>1, <1>2, <1>3 DEF LoadNext, Loaders, Agreement

\* The fallback publishes the row it has read.
LEMMA ReaderAgrees ==
    ASSUME TypeOK, Agreement, ReaderNext
    PROVE  Agreement'
<1> USE DEF redisVars, localVars, bounds, historyVars
<1>1. PICK r \in Readers :
        \/ \E n \in Numbers : Begin(r, n)
        \/ ReadRev(r) \/ Compare(r) \/ Fetch(r) \/ RedisDown(r) \/ Replace(r)
        \/ Resync(r) \/ Lookup(r) \/ Fallback(r)
        \/ Upsert(r) \/ UpsertFails(r)
        \/ UpsertBump(r) \/ UpsertBumpFails(r)
  BY DEF ReaderNext
<1>2. r \in Threads /\ r \in Loaders
  BY ThreadSets DEF Loaders
<1> SUFFICES ASSUME NEW n \in Numbers, n \notin unsure' PROVE Agree(n)'
  BY DEF Agreement
<1>3. Agree(n) /\ row' = row /\ txn' = txn
  BY <1>1 DEF Agreement, Begin, ReadRev, Compare, Fetch, RedisDown, Replace, Resync, Lookup,
              Fallback, Upsert, UpsertFails, UpsertBump, UpsertBumpFails
\* The steps that neither write the hash nor begin to publish.
<1>4. ASSUME Touches(r), hash' = hash, pc'[r] \notin {"load_publish", "upsert"} PROVE Agree(n)'
  <2>1. r \notin Republishing(n)'
    BY <1>4 DEF Republishing
  <2> QED BY <1>2, <1>3, <1>4, <2>1, LoaderApart
<1>5. CASE \E m \in Numbers : Begin(r, m)
  BY <1>2, <1>4, <1>5 DEF Begin, Go, Touches, TypeOK
<1>6. CASE ReadRev(r) \/ Compare(r)
  BY <1>2, <1>4, <1>6 DEF ReadRev, Compare, Go, Touches, TypeOK
<1>7. CASE Fetch(r) \/ RedisDown(r)
  BY <1>2, <1>4, <1>7 DEF Fetch, RedisDown, Go, Touches, TypeOK
<1>8. CASE Replace(r) \/ Resync(r)
  BY <1>2, <1>4, <1>8 DEF Replace, Resync, Go, Touches, TypeOK
<1>9. CASE Lookup(r)
  <2>1. Touches(r) /\ pc'[r] \in {"idle", "fallback"}
    BY <1>2, <1>9, DoneThread DEF Lookup, Go, Touches, TypeOK
  <2> QED BY <1>4, <1>9, <2>1 DEF Lookup
<1>10. CASE UpsertBump(r) \/ UpsertBumpFails(r)
  <2>1. Done(r) /\ hash' = hash
    BY <1>10 DEF UpsertBump, UpsertBumpFails
  <2> QED BY <1>2, <1>4, <2>1, DoneThread
<1>11. CASE Fallback(r)
  <2>1. CASE Done(r)
    BY <1>2, <1>4, <1>11, <2>1, DoneThread DEF Fallback
  <2>2. CASE /\ snap' = [snap EXCEPT ![r] = [Nothing EXCEPT ![num[r]] = row[num[r]]]]
             /\ unsure' = unsure \cup ({num[r]} \cap BeingWritten)
             /\ Go(r, "upsert") /\ num' = num
    <3>1. Touches(r) /\ pc'[r] = "upsert" /\ hash' = hash
      BY <1>2, <1>11, <2>2 DEF Fallback, Go, Touches, TypeOK
    <3>2. CASE num[r] # n
      <4>1. r \notin Republishing(n)'
        BY <2>2, <3>1, <3>2 DEF Republishing
      <4> QED BY <1>2, <1>3, <3>1, <4>1, LoaderApart
    <3>3. CASE num[r] = n
      <4>1. Writing(n) = {}
        BY <2>2, <3>3 DEF BeingWritten
      <4>2. Writing(n)' = {}
        BY <1>2, <3>1, <4>1, ThreadSets DEF Touches, Writing
      <4>3. snap'[r][n] = row[n]
        BY <1>2, <2>2, <3>3 DEF TypeOK, Nothing
      <4>4. \A u \in Republishing(n)' \ {r} : u \in Republishing(n) /\ snap'[u] = snap[u]
        BY <3>1, ThreadSets DEF Touches, Republishing, Loaders
      <4> QED BY <1>3, <3>1, <4>1, <4>2, <4>3, <4>4 DEF Agree
    <3> QED BY <3>2, <3>3
  <2> QED BY <1>11, <2>1, <2>2 DEF Fallback
<1>12. CASE Upsert(r) \/ UpsertFails(r)
  <2>1. Touches(r) /\ pc'[r] \in {"idle", "bump"} /\ pc[r] = "upsert"
    BY <1>2, <1>12, DoneThread DEF Upsert, UpsertFails, Go, Touches, TypeOK
  <2>2. hash' = hash \/ hash' = [hash EXCEPT ![num[r]] = snap[r][num[r]]]
    BY <1>12 DEF Upsert, UpsertFails
  <2>3. CASE num[r] # n \/ hash' = hash
    <3>1. hash'[n] = hash[n]
      BY <1>2, <2>2, <2>3 DEF TypeOK, Maps
    <3>2. r \notin Republishing(n)'
      BY <2>1 DEF Republishing
    <3> QED BY <1>2, <1>3, <2>1, <3>1, <3>2, LoaderApart
  <2>4. CASE num[r] = n /\ hash' # hash
    <3>1. r \in Republishing(n)
      BY <1>2, <2>1, <2>4 DEF Republishing, Loaders
    <3>2. Writing(n) = {} /\ snap[r][n] = row[n]
      BY <1>3, <3>1 DEF Agree
    <3>3. hash'[n] = row[n]
      BY <2>2, <2>4, <3>2 DEF TypeOK, Maps
    <3>4. Writing(n)' = {}
      BY <1>2, <2>1, <3>2, ThreadSets DEF Touches, Writing
    <3>5. \A u \in Republishing(n)' : u \in Republishing(n) /\ snap'[u] = snap[u]
      BY <2>1, ThreadSets DEF Touches, Republishing, Loaders
    <3> QED BY <1>3, <3>2, <3>3, <3>4, <3>5 DEF Agree
  <2> QED BY <2>3, <2>4
<1> QED BY <1>1, <1>5, <1>6, <1>7, <1>8, <1>9, <1>10, <1>11, <1>12

(***************************************************************************)
(* The theorems.                                                           *)
(***************************************************************************)

\* Type correctness: hash, store, snapshots and threads keep their types; the listener
\* never claims a revision that Redis has not reached, whatever fails.
THEOREM SettingsTypeCorrect == Spec => []TypeOK
<1>1. TypeOK /\ [Next]_vars => TypeOK'
  <2> SUFFICES ASSUME TypeOK, [Next]_vars PROVE TypeOK'
    OBVIOUS
  <2>1. CASE Next
    BY <2>1, WebTypes, LoadTypes, ReaderTypes DEF Next
  <2>2. CASE UNCHANGED vars
    BY <2>2 DEF vars, redisVars, localVars, threadVars, bounds, historyVars, TypeOK
  <2> QED BY <2>1, <2>2
<1> QED BY <1>1, InitTypes, PTL DEF Spec

\* sync_from_redis_if_needed: when the listener holds the current revision, its store is
\* the hash of Redis, whatever syncs, loads, upserts and web requests overlapped, unless
\* a failed call or an upsert of a listener that was behind has set them apart.
THEOREM StoreFollows == Spec => []StoreFollowsHash
<1>1. Init => Fresh
  BY DEF Init, Fresh, StoreFresh, ReadFresh, Threads
<1>2. TypeOK /\ Fresh /\ [Next]_vars => Fresh'
  <2> SUFFICES ASSUME TypeOK, Fresh, [Next]_vars PROVE Fresh'
    OBVIOUS
  <2>1. CASE Next
    BY <2>1, WebFresh, LoadFresh, ReaderFresh DEF Next
  <2>2. CASE UNCHANGED vars
    BY <2>2 DEF vars, redisVars, localVars, threadVars, bounds, historyVars,
                Fresh, StoreFresh, ReadFresh, NoWebBump, NoBump
  <2> QED BY <2>1, <2>2
<1>3. Fresh => StoreFollowsHash
  BY DEF Fresh, StoreFresh, StoreFollowsHash, NoWebBump, Threads
<1> QED BY <1>1, <1>2, <1>3, SettingsTypeCorrect, PTL DEF Spec

\* The signals of CarouselSettings: when no write is under way, the hash has the rows of
\* the database, except those whose last write failed to be published or met another
\* thread that published the same row.
THEOREM HashFollows == Spec => []HashFollowsRows
<1>1. Init => Agreement
  BY DEF Init, Agreement
<1>2. TypeOK /\ Agreement /\ [Next]_vars => Agreement'
  <2> SUFFICES ASSUME TypeOK, Agreement, [Next]_vars PROVE Agreement'
    OBVIOUS
  <2>1. CASE Next
    BY <2>1, WebAgrees, LoadAgrees, ReaderAgrees DEF Next
  <2>2. CASE UNCHANGED vars
    BY <2>2 DEF vars, redisVars, localVars, threadVars, bounds, historyVars,
                Agreement, Agree, Writing, Republishing
  <2> QED BY <2>1, <2>2
<1>3. Agreement => HashFollowsRows
  BY DEF Agreement, Agree, HashFollowsRows, Quiet, Writing
<1> QED BY <1>1, <1>2, <1>3, SettingsTypeCorrect, PTL DEF Spec
=============================================================================
