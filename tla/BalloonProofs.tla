---------------------------- MODULE BalloonProofs ----------------------------
(***************************************************************************)
(* Proofs about Balloons: types, passports, cached statistics, and the     *)
(* requests that do not overlap as steps of BalloonRegistry, for any       *)
(* number of tags, web requests and passes.                                *)
(*                                                                         *)
(* Most steps are of two kinds: Local leaves the tables alone, and Write   *)
(* changes them and is followed, or was preceded, by a signal.  The proof  *)
(* about the statistics is by kind, that about passports by the rows and   *)
(* copies a step writes.                                                   *)
(***************************************************************************)
EXTENDS OrderlyBalloons, FiniteSetTheorems, TLAPS

USE BalloonsAssumption

FieldTypes(f) ==
    /\ DOMAIN f \subseteq {"serial", "due", "kind"}
    /\ "serial" \in DOMAIN f => f.serial \in {NoSerial, Miriada} \cup Typed
    /\ "due" \in DOMAIN f => f.due \in BOOLEAN
    /\ "kind" \in DOMAIN f => f.kind \in Kinds

LEMMA BodyFields == ASSUME NEW b \in Bodies \cup {NoBody} PROVE FieldTypes(b.fields)
<1>1. CASE b \in Bodies
  BY <1>1 DEF FieldTypes, Typed
<1>2. CASE b = NoBody
  <2>1. b.fields = [c \in {} |-> TRUE]
    BY <1>2 DEF NoBody
  <2>2. DOMAIN b.fields = {}
    BY <2>1
  <2> QED BY <2>2 DEF FieldTypes
<1> QED BY <1>1, <1>2

LEMMA WithType ==
  ASSUME NEW row \in Rows, NEW f, FieldTypes(f)
  PROVE  With(row, f) \in Rows
<1>1. DOMAIN row = {"serial", "due", "kind"}
  BY DEF Rows
<1> DEFINE w == With(row, f)
<1>2. w = [c \in {"serial", "due", "kind"} |-> IF c \in DOMAIN f THEN f[c] ELSE row[c]]
  BY <1>1 DEF With
<1>3. w["serial"] \in {NoSerial, Miriada} \cup Typed /\ w["due"] \in BOOLEAN /\ w["kind"] \in Kinds
  BY <1>2 DEF FieldTypes, Rows
<1>4. w = [serial |-> w["serial"], due |-> w["due"], kind |-> w["kind"]]
  BY <1>2
<1> HIDE DEF w
<1>5. w \in Rows
  BY <1>3, <1>4 DEF Rows
<1> QED BY <1>5 DEF w

LEMMA DefaultType == Default \in Rows
  BY DEF Default, Rows, Kinds

LEMMA FilledType ==
  ASSUME NEW row \in Rows
  PROVE  [row EXCEPT !.serial = Miriada, !.due = FALSE] \in Rows
  BY DEF Rows

LEMMA BodyTag == ASSUME NEW b \in Bodies \cup {NoBody} PROVE b.tag \in Keys
  BY DEF NoBody, Keys

----------------------------------------------------------------------------
(* Handlers.                                                               *)

LEMMA BeginTypes ==
  ASSUME HandlerTypes, NEW s \in Sessions, NEW step \in Labels, Begin(s, step)
  PROVE  /\ pc' \in [Sessions -> Labels]
         /\ requests' \in 0..MaxRequests
  BY DEF HandlerTypes, Begin, Go

LEMMA EndTypes ==
  ASSUME HandlerTypes, NEW s \in Sessions, End(s)
  PROVE  /\ pc' \in [Sessions -> Labels]
         /\ on' \in [Sessions -> Keys]
         /\ body' \in [Sessions -> Bodies \cup {NoBody}]
         /\ copy' \in [Sessions -> Rows]
  BY DefaultType DEF HandlerTypes, End, Clear, Go, Labels, Keys

LEMMA GoTypes ==
  ASSUME HandlerTypes, NEW s \in Sessions, NEW step \in Labels, Go(s, step)
  PROVE  pc' \in [Sessions -> Labels]
  BY DEF HandlerTypes, Go

LEMMA PassTypes ==
  ASSUME TableTypes, HandlerTypes, Pass
  PROVE  HandlerTypes'
<1> USE DEF Labels, Computing, InTransaction, Unsignalled
<1>s. Scanner \in Sessions  BY DEF Sessions
<1>k. Tags \subseteq Keys  BY DEF Keys
<1>1. ASSUME NEW t \in Tags, NEW kind \in ReaderKinds, Scan(t, kind)
      PROVE  HandlerTypes'
  <2> DEFINE row == IF t \in DOMAIN balloons THEN balloons[t] ELSE Default
  <2>1. row \in Rows  BY DefaultType DEF TableTypes
  <2>2. FieldTypes([kind |-> kind])  BY DEF FieldTypes
  <2> HIDE DEF row
  <2>3. With(row, [kind |-> kind]) \in Rows  BY <2>1, <2>2, WithType
  <2>4. copy' = [copy EXCEPT ![Scanner] = With(row, [kind |-> kind])]
    BY <1>1 DEF Scan, row
  <2>5. pc' \in [Sessions -> Labels] /\ requests' \in 0..MaxRequests
    BY <1>1, <1>s, BeginTypes DEF Scan
  <2>6. on' = [on EXCEPT ![Scanner] = t] /\ body' = body /\ attempt' = attempt
    BY <1>1 DEF Scan
  <2> QED BY <1>s, <1>k, <2>3, <2>4, <2>5, <2>6 DEF HandlerTypes
<1>2. CASE Upserted
  BY <1>2, <1>s DEF Upserted, Go, HandlerTypes, handler
<1>3. CASE FetchFails
  <2>1. CASE attempt < Retries /\ attempt' = attempt + 1 /\ UNCHANGED <<pc, handler>>
    BY <1>3, <2>1 DEF FetchFails, HandlerTypes, handler
  <2>2. CASE attempt' = 0 /\ End(Scanner)
    BY <1>3, <2>2, <1>s, EndTypes DEF FetchFails, HandlerTypes
  <2> QED BY <1>3, <2>1, <2>2 DEF FetchFails
<1>4. CASE Fetched
  <2>1. [copy[Scanner] EXCEPT !.serial = Miriada, !.due = FALSE] \in Rows
    BY <1>s, FilledType DEF HandlerTypes
  <2>2. copy' = [copy EXCEPT ![Scanner] =
                    [copy[Scanner] EXCEPT !.serial = Miriada, !.due = FALSE]]
    BY <1>4, <1>s DEF Fetched, HandlerTypes
  <2> QED BY <1>4, <1>s, <2>1, <2>2 DEF Fetched, Go, HandlerTypes
<1>5. CASE SavePassport \/ Join \/ Record
  BY <1>5, <1>s DEF SavePassport, Join, Record, Go, HandlerTypes, handler
<1> QED BY <1>1, <1>2, <1>3, <1>4, <1>5 DEF Pass

LEMMA RequestTypes ==
  ASSUME TableTypes, HandlerTypes, NEW s \in Web, Request(s)
  PROVE  HandlerTypes'
<1> USE DEF Labels, Computing, InTransaction, Unsignalled
<1>s. s \in Sessions  BY DEF Sessions
<1>k. Tags \subseteq Keys  BY DEF Keys
<1>1. ASSUME NEW b \in Bodies, Create(s, b)
      PROVE  HandlerTypes'
  BY <1>1, <1>s, BeginTypes DEF Create, HandlerTypes
<1>2. ASSUME NEW t \in Tags, NEW b \in Bodies, Patch(s, t, b) \/ Form(s, t, b)
      PROVE  HandlerTypes'
  <2>1. pc' \in [Sessions -> Labels] /\ requests' \in 0..MaxRequests
    BY <1>2, <1>s, BeginTypes DEF Patch, Form
  <2> QED BY <1>2, <1>s, <1>k, <2>1 DEF Patch, Form, HandlerTypes, TableTypes
<1>3. ASSUME NEW t \in Tags, DeleteView(s, t)
      PROVE  HandlerTypes'
  BY <1>3, <1>s, <1>k, BeginTypes DEF DeleteView, HandlerTypes
<1>4. CASE SaveBatch(s)
  BY <1>4, <1>s, BeginTypes DEF SaveBatch, HandlerTypes, handler
<1>5. CASE CreateValidate(s) \/ PatchCheck(s) \/ PatchValidate(s)
  BY <1>5, <1>s, EndTypes DEF CreateValidate, PatchCheck, PatchValidate, Go, HandlerTypes, handler
<1>6. CASE Insert(s)
  <2>1. CASE body[s].tag \in DOMAIN balloons
    BY <1>6, <2>1, <1>s, EndTypes DEF Insert, HandlerTypes
  <2>2. CASE body[s].tag \notin DOMAIN balloons
    BY <1>6, <2>2, <1>s DEF Insert, Go, HandlerTypes, handler
  <2> QED BY <2>1, <2>2
<1>7. CASE PatchSave(s) \/ FormSave(s) \/ Delete(s)
  BY <1>7, <1>s DEF PatchSave, FormSave, Delete, Go, HandlerTypes, handler
<1>8. CASE Deleted(s)
  BY <1>8, <1>s, EndTypes DEF Deleted, Go, HandlerTypes, handler
<1> QED BY <1>1, <1>2, <1>3, <1>4, <1>5, <1>6, <1>7, <1>8 DEF Request

----------------------------------------------------------------------------
(* The table.                                                              *)

RowTypes == DOMAIN balloons \subseteq Keys /\ \A t \in DOMAIN balloons : balloons[t] \in Rows

LEMMA RequestWrites ==
  ASSUME NEW s \in Web, Request(s)
  PROVE  UNCHANGED balloons \/ Insert(s) \/ PatchSave(s) \/ FormSave(s) \/ Deleted(s)
  BY DEF Request, Create, Patch, Form, DeleteView, SaveBatch, CreateValidate, PatchCheck,
         Delete, PatchValidate, tables

LEMMA PassWrites ==
  ASSUME Pass
  PROVE  UNCHANGED balloons \/ Upserted \/ SavePassport
  BY DEF Pass, Scan, FetchFails, Fetched, Join, Record, tables

LEMMA OtherWrites ==
  ASSUME Next, ~Pass, ~\E s \in Web : Request(s)
  PROVE  UNCHANGED balloons
<1>1. ASSUME NEW s \in Web, Statistic(s)
      PROVE  UNCHANGED balloons
  BY <1>1 DEF Statistic, Miss, Compute, Query, Store, tables
<1>2. ASSUME NEW s \in Sessions, Signal(s) \/ Fail(s)
      PROVE  UNCHANGED balloons
  BY <1>2 DEF Signal, Fail, tables
<1>3. CASE Expire \/ ChangeSilently
  BY <1>3 DEF Expire, ChangeSilently, tables
<1> QED BY <1>1, <1>2, <1>3 DEF Next, Work

LEMMA PutTypes ==
  ASSUME RowTypes, NEW t \in Keys, NEW row \in Rows, Put(t, row)
  PROVE  RowTypes'
  BY DEF RowTypes, Put

LEMMA DiscardTypes ==
  ASSUME RowTypes, NEW t, Discard(t)
  PROVE  RowTypes'
  BY DEF RowTypes, Discard

LEMMA RowsKept ==
  ASSUME RowTypes, HandlerTypes, Next
  PROVE  RowTypes'
<1>s. Scanner \in Sessions /\ Web \subseteq Sessions  BY DEF Sessions
<1>0. CASE UNCHANGED balloons
  BY <1>0 DEF RowTypes
<1>1. CASE Upserted
  BY <1>1, <1>s, PutTypes DEF Upserted, HandlerTypes
<1>2. CASE SavePassport
  BY <1>2, <1>s, PutTypes DEF SavePassport, Save, HandlerTypes
<1>3. ASSUME NEW s \in Web, Insert(s)
      PROVE  RowTypes'
  <2>1. body[s] \in Bodies \cup {NoBody}  BY <1>s DEF HandlerTypes
  <2>2. With(Default, body[s].fields) \in Rows
    BY <2>1, BodyFields, DefaultType, WithType
  <2> QED BY <1>3, <1>0, <2>1, <2>2, BodyTag, PutTypes DEF Insert
<1>4. ASSUME NEW s \in Web, PatchSave(s) \/ FormSave(s)
      PROVE  RowTypes'
  <2>1. body[s] \in Bodies \cup {NoBody} /\ copy[s] \in Rows /\ on[s] \in Keys
    BY <1>s DEF HandlerTypes
  <2>2. With(copy[s], body[s].fields) \in Rows
    BY <2>1, BodyFields, WithType
  <2> QED BY <1>4, <2>1, <2>2, BodyTag, PutTypes DEF PatchSave, FormSave, Save
<1>5. ASSUME NEW s \in Web, Deleted(s)
      PROVE  RowTypes'
  BY <1>5, DiscardTypes DEF Deleted
<1>6. CASE Pass
  BY <1>6, <1>0, <1>1, <1>2, PassWrites
<1>7. CASE ~Pass /\ ~\E s \in Web : Request(s)
  BY <1>7, <1>0, OtherWrites
<1> QED BY <1>0, <1>3, <1>4, <1>5, <1>6, <1>7, RequestWrites

----------------------------------------------------------------------------
(* What a step does to the tables, the cache and the place of its session. *)

Counted == <<passes, batches, silent>>

\* A statement that leaves the tables alone.
Local(s, step) ==
    /\ Go(s, step)
    /\ step \notin Computing \ {"readers"}
    /\ \/ UNCHANGED cache /\ step \notin InTransaction \cup Unsignalled /\ pc[s] \notin Unsignalled
       \/ clear_balloon_statistic_cache
    /\ UNCHANGED <<tables, fill>>

\* A statement, or a commit, that changes them.
Write(s, step) ==
    /\ Go(s, step)
    /\ step \notin Computing \cup InTransaction
    /\ step \in Unsignalled \/ pc[s] \in InTransaction
    /\ Touch

LEMMA PassKinds ==
  ASSUME HandlerTypes, Pass
  PROVE  \E step \in Labels : Local(Scanner, step) \/ Write(Scanner, step)
<1> USE DEF Labels, Computing, InTransaction, Unsignalled, Local, Write, End, Begin
<1>1. ASSUME NEW t \in Tags, NEW kind \in ReaderKinds, Scan(t, kind)
      PROVE  Local(Scanner, "upsert")
  BY <1>1 DEF Scan
<1>2. CASE Upserted
  <2>1. Write(Scanner, "fetch") \/ Write(Scanner, "join")
    BY <1>2 DEF Upserted
  <2> QED BY <2>1
<1>3. CASE FetchFails
  <2>1. CASE attempt < Retries /\ attempt' = attempt + 1 /\ UNCHANGED <<pc, handler>>
    <3>1. pc' = [pc EXCEPT ![Scanner] = "fetch"]
      BY <1>3, <2>1 DEF FetchFails, HandlerTypes, Sessions
    <3>2. Local(Scanner, "fetch")
      BY <1>3, <2>1, <3>1 DEF FetchFails, Go
    <3> QED BY <3>2
  <2>2. CASE attempt' = 0 /\ End(Scanner)
    <3>1. Local(Scanner, "idle")
      BY <1>3, <2>2 DEF FetchFails
    <3> QED BY <3>1
  <2> QED BY <1>3, <2>1, <2>2 DEF FetchFails
<1>4. CASE Fetched
  <2>1. Local(Scanner, "passport")
    BY <1>4 DEF Fetched
  <2> QED BY <2>1
<1>5. CASE SavePassport
  <2>1. Write(Scanner, "passport_signal")
    BY <1>5 DEF SavePassport, Save
  <2> QED BY <2>1
<1>6. CASE Join
  <2>1. Local(Scanner, "record")
    BY <1>6 DEF Join
  <2> QED BY <2>1
<1>7. CASE Record
  <2>1. Write(Scanner, "record_signal")
    BY <1>7 DEF Record
  <2> QED BY <2>1
<1> QED BY <1>1, <1>2, <1>3, <1>4, <1>5, <1>6, <1>7 DEF Pass

LEMMA RequestKinds ==
  ASSUME NEW s \in Web, Request(s)
  PROVE  \E step \in Labels : Local(s, step) \/ Write(s, step)
<1> USE DEF Labels, Computing, InTransaction, Unsignalled, Local, Write, End, Begin
<1>1. ASSUME NEW b \in Bodies, Create(s, b)
      PROVE  Local(s, "create_validate")
  BY <1>1 DEF Create
<1>2. ASSUME NEW t \in Tags, NEW b \in Bodies, Patch(s, t, b)
      PROVE  Local(s, "patch_check") \/ Local(s, "patch_save")
  BY <1>2 DEF Patch
<1>3. ASSUME NEW t \in Tags, NEW b \in Bodies, Form(s, t, b)
      PROVE  Local(s, "form_save")
  BY <1>3 DEF Form
<1>4. ASSUME NEW t \in Tags, DeleteView(s, t)
      PROVE  Local(s, "delete")
  BY <1>4 DEF DeleteView
<1>5. CASE SaveBatch(s)
  <2>1. Write(s, "signal")
    BY <1>5 DEF SaveBatch
  <2> QED BY <2>1
<1>6. CASE CreateValidate(s)
  <2>1. Local(s, "create_insert") \/ Local(s, "idle")
    BY <1>6 DEF CreateValidate
  <2> QED BY <2>1
<1>7. CASE Insert(s)
  <2>1. CASE body[s].tag \in DOMAIN balloons
    <3>1. Local(s, "idle")
      BY <1>7, <2>1 DEF Insert, tables
    <3> QED BY <3>1
  <2>2. CASE body[s].tag \notin DOMAIN balloons
    <3>1. Write(s, "signal")
      BY <1>7, <2>2 DEF Insert
    <3> QED BY <3>1
  <2> QED BY <2>1, <2>2
<1>8. CASE PatchSave(s) \/ FormSave(s)
  <2>1. Write(s, "signal")
    BY <1>8 DEF PatchSave, FormSave, Save
  <2> QED BY <2>1
<1>9. CASE PatchCheck(s)
  <2>1. Local(s, "patch_delete") \/ Local(s, "idle")
    BY <1>9 DEF PatchCheck
  <2> QED BY <2>1
<1>10. CASE Delete(s)
  <2>1. Local(s, "delete_commit") \/ Local(s, "patch_commit")
    BY <1>10 DEF Delete
  <2> QED BY <2>1
<1>11. CASE Deleted(s)
  <2>1. Write(s, "idle") \/ Write(s, "patch_validate")
    BY <1>11 DEF Deleted
  <2> QED BY <2>1
<1>12. CASE PatchValidate(s)
  <2>1. Local(s, "patch_insert") \/ Local(s, "idle")
    BY <1>12 DEF PatchValidate
  <2> QED BY <2>1
<1> QED BY <1>1, <1>2, <1>3, <1>4, <1>5, <1>6, <1>7, <1>8, <1>9, <1>10, <1>11, <1>12 DEF Request

LEMMA SignalKind ==
  ASSUME NEW s \in Sessions, Signal(s)
  PROVE  \E step \in Labels : Local(s, step)
<1>1. Local(s, "join") \/ Local(s, "idle")
  BY DEF Signal, Local, End, Computing
<1> QED BY <1>1 DEF Labels

----------------------------------------------------------------------------
(* Statistics.                                                             *)

LEMMA CountTypes ==
  ASSUME RowTypes, NEW kind
  PROVE  /\ Count(kind) \in 0..Cardinality(Keys)
         /\ Cardinality(Keys) \in Nat
<1>1. IsFiniteSet(Keys)
  BY FS_AddElement DEF Keys
<1> DEFINE counted == {t \in DOMAIN balloons : balloons[t].kind = kind}
<1>2. counted \subseteq Keys
  BY DEF RowTypes
<1>3. IsFiniteSet(counted) /\ Cardinality(counted) <= Cardinality(Keys)
  BY <1>1, <1>2, FS_Subset
<1>4. Cardinality(counted) \in Nat /\ Cardinality(Keys) \in Nat
  BY <1>1, <1>3, FS_CardinalityType
<1> HIDE DEF counted
<1>5. Cardinality(counted) \in 0..Cardinality(Keys)
  BY <1>3, <1>4
<1> QED BY <1>4, <1>5 DEF Count, counted

LEMMA CurrentType ==
  ASSUME TableTypes
  PROVE  Current \in Statistics
<1>1. Count("full") \in 0..Cardinality(Keys) /\ Count("empty") \in 0..Cardinality(Keys)
  BY CountTypes DEF TableTypes, RowTypes
<1> QED BY <1>1 DEF Current, Statistics, TableTypes

LEMMA QueryTypes ==
  ASSUME TableTypes, CacheTypes, NEW s \in Sessions,
         NEW table \in {"readers", "batches", "full", "empty"},
         got' = [got EXCEPT ![s][table] = Current[table]]
  PROVE  got' \in [Sessions -> Statistics]
<1>1. Current \in Statistics
  BY CurrentType
<1> DEFINE g == [got[s] EXCEPT ![table] = Current[table]]
<1>2. got[s] \in Statistics
  BY DEF CacheTypes
<1>3. g \in Statistics
  BY <1>1, <1>2 DEF Statistics
<1>4. got \in [Sessions -> Statistics]
  BY DEF CacheTypes
<1>5. got' = [got EXCEPT ![s] = g]
  BY <1>4
<1> HIDE DEF g
<1>6. PICK h \in Statistics : h = g
  BY <1>3
<1>7. [got EXCEPT ![s] = h] \in [Sessions -> Statistics]
  BY <1>4, <1>6
<1> QED BY <1>5, <1>6, <1>7

----------------------------------------------------------------------------
(* Counters: a pass is a request that has not written its record, or has.  *)

BeforeRecord == {"upsert", "fetch", "passport", "passport_signal", "join", "record"}

CounterInv ==
    /\ passes \in Nat /\ batches \in Nat /\ silent \in 0..MaxSilent
    /\ passes + batches + (IF pc[Scanner] \in BeforeRecord THEN 1 ELSE 0) <= requests

LEMMA WebCounters ==
  ASSUME HandlerTypes, NEW s \in Web, Request(s) \/ Statistic(s)
  PROVE  /\ pc'[Scanner] = pc[Scanner] /\ passes' = passes /\ silent' = silent
         /\ \/ batches' = batches /\ requests' \in {requests, requests + 1}
            \/ batches' = batches + 1 /\ requests' = requests + 1
<1>s. s \in Sessions /\ Scanner \in Sessions /\ s # Scanner
  BY DEF Sessions
<1>1. ASSUME NEW step, Go(s, step)
      PROVE  pc'[Scanner] = pc[Scanner]
  BY <1>1, <1>s DEF Go, HandlerTypes
<1>2. ASSUME NEW b \in Bodies, Create(s, b)
      PROVE  pc'[Scanner] = pc[Scanner] /\ UNCHANGED tables /\ requests' = requests + 1
  BY <1>1, <1>2 DEF Create, Begin
<1>3. ASSUME NEW t \in Tags, NEW b \in Bodies, Patch(s, t, b) \/ Form(s, t, b)
      PROVE  pc'[Scanner] = pc[Scanner] /\ UNCHANGED tables /\ requests' = requests + 1
  BY <1>1, <1>3 DEF Patch, Form, Begin
<1>4. ASSUME NEW t \in Tags, DeleteView(s, t)
      PROVE  pc'[Scanner] = pc[Scanner] /\ UNCHANGED tables /\ requests' = requests + 1
  BY <1>1, <1>4 DEF DeleteView, Begin
<1>5. CASE SaveBatch(s)
  BY <1>1, <1>5 DEF SaveBatch, Begin
<1>6. CASE CreateValidate(s) \/ Insert(s) \/ PatchSave(s) \/ PatchCheck(s) \/ Delete(s)
           \/ Deleted(s) \/ PatchValidate(s) \/ FormSave(s)
  BY <1>1, <1>6 DEF CreateValidate, Insert, PatchSave, PatchCheck, Delete, Deleted,
                    PatchValidate, FormSave, End, tables
<1>7. CASE Statistic(s)
  BY <1>1, <1>7 DEF Statistic, Miss, Begin, Compute, Query, Store, tables
<1> QED BY <1>2, <1>3, <1>4, <1>5, <1>6, <1>7 DEF Request, tables

LEMMA CountersKept ==
  ASSUME CounterInv, HandlerTypes, HandlerTypes', Next
  PROVE  CounterInv'
<1>s. Scanner \in Sessions /\ pc \in [Sessions -> Labels] /\ requests \in Nat
  BY DEF HandlerTypes, Sessions
<1>p. ASSUME NEW step, Go(Scanner, step)
      PROVE  pc'[Scanner] = step
  BY <1>p, <1>s DEF Go
<1>1. CASE Pass
  <2>1. ASSUME NEW t \in Tags, NEW kind \in ReaderKinds, Scan(t, kind)
        PROVE  CounterInv'
    <3>1. /\ pc[Scanner] = "idle" /\ pc'[Scanner] = "upsert"
          /\ requests' = requests + 1 /\ UNCHANGED Counted
      BY <1>p, <2>1 DEF Scan, Begin, tables, Counted
    <3> QED BY <1>s, <3>1 DEF CounterInv, BeforeRecord, Counted
  <2>2. CASE Upserted \/ Fetched \/ SavePassport \/ Join
    <3>1. pc[Scanner] \in BeforeRecord /\ UNCHANGED <<Counted, requests>>
      BY <2>2 DEF Upserted, Fetched, SavePassport, Join, tables, Counted, BeforeRecord
    <3> QED BY <1>s, <3>1 DEF CounterInv, Counted
  <2>3. CASE FetchFails
    <3>1. pc[Scanner] \in BeforeRecord /\ UNCHANGED <<Counted, requests>>
      BY <2>3 DEF FetchFails, tables, Counted, BeforeRecord
    <3> QED BY <1>s, <3>1 DEF CounterInv, Counted
  <2>4. CASE Record
    <3>1. /\ pc[Scanner] = "record" /\ pc'[Scanner] = "record_signal"
          /\ passes' = passes + 1 /\ UNCHANGED <<batches, silent, requests>>
      BY <1>p, <2>4 DEF Record
    <3> QED BY <1>s, <3>1 DEF CounterInv, BeforeRecord
  <2> QED BY <1>1, <2>1, <2>2, <2>3, <2>4 DEF Pass
<1>2. ASSUME NEW s \in Web, Request(s) \/ Statistic(s)
      PROVE  CounterInv'
  BY <1>2, <1>s, WebCounters DEF CounterInv
<1>3. ASSUME NEW s \in Sessions, Signal(s) \/ Fail(s)
      PROVE  CounterInv'
  <2>1. /\ pc'[Scanner] \in BeforeRecord => pc[Scanner] \in BeforeRecord
        /\ UNCHANGED <<Counted, requests>>
    BY <1>3, <1>s DEF Signal, Fail, End, Go, tables, Counted, BeforeRecord
  <2> QED BY <1>s, <2>1 DEF CounterInv, Counted
<1>4. CASE Expire
  BY <1>4 DEF Expire, tables, CounterInv
<1>5. CASE ChangeSilently
  BY <1>5 DEF ChangeSilently, CounterInv
<1> QED BY <1>1, <1>2, <1>3, <1>4, <1>5 DEF Next, Work

----------------------------------------------------------------------------
(* Types.                                                                  *)

TypeInv == RowTypes /\ CacheTypes /\ HandlerTypes /\ CounterInv

LEMMA TypeInvTables ==
  ASSUME TypeInv
  PROVE  TableTypes
  BY DEF TypeInv, RowTypes, HandlerTypes, CounterInv, TableTypes

LEMMA HandlersKept ==
  ASSUME TypeInv, Next
  PROVE  HandlerTypes'
<1> USE DEF Labels, Computing, InTransaction, Unsignalled
<1>t. TableTypes /\ HandlerTypes
  BY TypeInvTables DEF TypeInv
<1>1. CASE Pass
  BY <1>1, <1>t, PassTypes
<1>2. ASSUME NEW s \in Web, Request(s)
      PROVE  HandlerTypes'
  BY <1>2, <1>t, RequestTypes
<1>3. ASSUME NEW s \in Web, Statistic(s)
      PROVE  HandlerTypes'
  <2>s. s \in Sessions  BY DEF Sessions
  <2>1. CASE Miss(s)
    BY <1>t, <2>s, <2>1, BeginTypes DEF Miss, handler, HandlerTypes
  <2>2. CASE Compute(s)
    BY <1>t, <2>s, <2>2 DEF Compute, Query, Go, handler, HandlerTypes
  <2>3. CASE Store(s)
    BY <1>t, <2>s, <2>3 DEF Store, Go, handler, HandlerTypes
  <2> QED BY <1>3, <2>1, <2>2, <2>3 DEF Statistic
<1>4. ASSUME NEW s \in Sessions, Signal(s)
      PROVE  HandlerTypes'
  <2>1. CASE pc[s] = "passport_signal"
    BY <1>4, <1>t, <2>1 DEF Signal, Go, handler, HandlerTypes
  <2>2. CASE pc[s] # "passport_signal"
    BY <1>4, <1>t, <2>2, EndTypes DEF Signal, HandlerTypes
  <2> QED BY <2>1, <2>2
<1>5. ASSUME NEW s \in Sessions, Fail(s)
      PROVE  HandlerTypes'
  BY <1>5, <1>t, EndTypes DEF Fail, HandlerTypes
<1>6. CASE Expire \/ ChangeSilently
  BY <1>6, <1>t DEF Expire, ChangeSilently, handler, HandlerTypes
<1> QED BY <1>1, <1>2, <1>3, <1>4, <1>5, <1>6 DEF Next, Work

LEMMA Zeros == Nothing \in Statistics
<1>1. Cardinality(Keys) \in Nat
  BY FS_AddElement, FS_CardinalityType DEF Keys
<1> QED BY <1>1 DEF Nothing, Statistics

LEMMA EmptyOrOne ==
  /\ \A S : S = {} => Cardinality(S) = 0
  /\ \A S, x : S = {x} => Cardinality(S) = 1
<1>1. Cardinality({}) = 0
  BY FS_EmptySet
<1>2. \A x : Cardinality({x}) = 1
  BY FS_Singleton
<1> QED BY <1>1, <1>2, Zenon

LEMMA ClearTypes ==
  ASSUME clear_balloon_statistic_cache
  PROVE  statistic' \subseteq Statistics /\ Cardinality(statistic') <= 1 /\ outdated' \in BOOLEAN
<1>1. statistic' = {} /\ outdated' \in BOOLEAN
  BY DEF clear_balloon_statistic_cache
<1>2. Cardinality(statistic') = 0
  BY <1>1, EmptyOrOne
<1> QED BY <1>1, <1>2

LEMMA CacheKept ==
  ASSUME TypeInv, Next
  PROVE  CacheTypes'
<1>c. CacheTypes
  BY DEF TypeInv
<1>1. ASSUME NEW s \in Sessions, NEW step \in Labels, Local(s, step)
      PROVE  CacheTypes'
  BY <1>1, <1>c, ClearTypes DEF Local, CacheTypes, fill, cache
<1>2. ASSUME NEW s \in Sessions, NEW step \in Labels, Write(s, step)
      PROVE  CacheTypes'
  BY <1>2, <1>c DEF Write, Touch, CacheTypes, cache
<1>3. ASSUME NEW s \in Web, Statistic(s)
      PROVE  CacheTypes'
  <2>s. s \in Sessions  BY DEF Sessions
  <2>1. CASE Miss(s)
    BY <2>1, <1>c DEF Miss, CacheTypes, cache, fill
  <2>2. CASE Compute(s)
    <3>1. PICK table \in {"readers", "batches", "full", "empty"} :
             got' = [got EXCEPT ![s][table] = Current[table]] /\ UNCHANGED <<cache, raced>>
      BY <2>2 DEF Compute, Query
    <3>2. got' \in [Sessions -> Statistics]
      BY <1>c, <2>s, <3>1, TypeInvTables, QueryTypes
    <3> QED BY <1>c, <3>1, <3>2 DEF CacheTypes, cache
  <2>3. CASE Store(s)
    <3>1. got[s] \in Statistics /\ raced[s] \in BOOLEAN
      BY <1>c, <2>s DEF CacheTypes
    <3>2. statistic' = {got[s]}
      BY <2>3 DEF Store
    <3>5. Cardinality(statistic') = 1
      BY <3>2, EmptyOrOne
    <3>3. outdated' \in BOOLEAN
      BY <2>3, <3>1 DEF Store
    <3>4. got' \in [Sessions -> Statistics] /\ raced' \in [Sessions -> BOOLEAN]
      BY <2>3, <1>c, Zeros DEF Store, CacheTypes
    <3> QED BY <3>1, <3>2, <3>3, <3>4, <3>5 DEF CacheTypes
  <2> QED BY <1>3, <2>1, <2>2, <2>3 DEF Statistic
<1>4. ASSUME NEW s \in Sessions, Fail(s)
      PROVE  CacheTypes'
  <2>1. got' \in [Sessions -> Statistics] /\ raced' \in [Sessions -> BOOLEAN]
    BY <1>4, <1>c, Zeros DEF Fail, CacheTypes
  <2>2. statistic' = statistic /\ outdated' \in BOOLEAN
    BY <1>4, <1>c DEF Fail, CacheTypes
  <2> QED BY <1>c, <2>1, <2>2 DEF CacheTypes
<1>5. CASE Expire
  BY <1>5, <1>c, ClearTypes DEF Expire, CacheTypes, fill
<1>6. CASE ChangeSilently
  BY <1>6, <1>c DEF ChangeSilently, CacheTypes
<1>7. CASE Pass
  BY <1>1, <1>2, <1>7, PassKinds DEF TypeInv, Sessions
<1>8. ASSUME NEW s \in Web, Request(s)
      PROVE  CacheTypes'
  BY <1>1, <1>2, <1>8, RequestKinds DEF Sessions
<1>9. ASSUME NEW s \in Sessions, Signal(s)
      PROVE  CacheTypes'
  BY <1>1, <1>9, SignalKind
<1> QED BY <1>3, <1>4, <1>5, <1>6, <1>7, <1>8, <1>9 DEF Next, Work

LEMMA TypeInit == Init => TypeInv
<1> SUFFICES ASSUME Init PROVE TypeInv  OBVIOUS
<1>1. RowTypes
  BY DEF Init, RowTypes, Rows, Keys, Kinds
<1>2. CacheTypes
  <2>1. statistic = {}
    BY DEF Init
  <2>2. Cardinality(statistic) = 0
    BY <2>1, EmptyOrOne
  <2>3. got \in [Sessions -> Statistics]
    BY Zeros DEF Init
  <2>4. raced \in [Sessions -> BOOLEAN] /\ outdated \in BOOLEAN
    BY DEF Init
  <2> QED BY <2>1, <2>2, <2>3, <2>4 DEF CacheTypes
<1>3. HandlerTypes
  BY DefaultType DEF Init, HandlerTypes, Labels, Keys
<1>4. CounterInv
  BY DEF Init, CounterInv, BeforeRecord, Sessions
<1> QED BY <1>1, <1>2, <1>3, <1>4 DEF TypeInv

LEMMA TypeStep == TypeInv /\ [Next]_vars => TypeInv'
<1> SUFFICES ASSUME TypeInv, [Next]_vars PROVE TypeInv'  OBVIOUS
<1>1. CASE Next
  <2>1. HandlerTypes'
    BY <1>1, HandlersKept
  <2> QED BY <1>1, <2>1, RowsKept, CacheKept, CountersKept DEF TypeInv
<1>2. CASE UNCHANGED vars
  BY <1>2 DEF vars, tables, cache, handler, fill, TypeInv, RowTypes, CacheTypes, HandlerTypes,
              CounterInv
<1> QED BY <1>1, <1>2

LEMMA TypeInvariant == Spec => []TypeInv
  BY TypeInit, TypeStep, PTL DEF Spec

\* Whatever requests, passes and failures interleave, rows, copies and statistics have the
\* columns the code gives them, counters stay in their bounds, and a pass fetches its
\* passport at most Retries + 1 times.
THEOREM BalloonTypeCorrect == Spec => []TypeOK
<1>1. TypeInv => TypeOK
  BY TypeInvTables DEF TypeInv, TypeOK
<1> QED BY <1>1, TypeInvariant, PTL

----------------------------------------------------------------------------
(* Passports.                                                              *)

\* Miriada and clients: a passport has a number, and only a client that sends one says
\* that it is up to date.
HonestClients ==
    /\ Miriada # NoSerial
    /\ \A b \in Bodies :
          /\ "serial" \in DOMAIN b.fields => b.fields.serial # NoSerial
          /\ "due" \in DOMAIN b.fields /\ ~b.fields.due => "serial" \in DOMAIN b.fields

Honest(row) == ~row.due => row.serial # NoSerial

HonestFields(f) ==
    /\ "serial" \in DOMAIN f => f.serial # NoSerial
    /\ "due" \in DOMAIN f /\ ~f.due => "serial" \in DOMAIN f

\* Not only the rows: every copy that may still be saved.
HonestInv ==
    /\ \A t \in DOMAIN balloons : Honest(balloons[t])
    /\ \A s \in Sessions : Honest(copy[s])

LEMMA HonestBody ==
  ASSUME HonestClients, NEW b \in Bodies \cup {NoBody}
  PROVE  HonestFields(b.fields)
<1>1. CASE b \in Bodies
  BY <1>1 DEF HonestClients, HonestFields
<1>2. CASE b = NoBody
  <2>1. b.fields = [c \in {} |-> TRUE]
    BY <1>2 DEF NoBody
  <2>2. DOMAIN b.fields = {}
    BY <2>1
  <2> QED BY <2>2 DEF HonestFields
<1> QED BY <1>1, <1>2

LEMMA HonestWith ==
  ASSUME NEW row \in Rows, Honest(row), NEW f, HonestFields(f)
  PROVE  Honest(With(row, f))
<1>1. DOMAIN row = {"serial", "due", "kind"}
  BY DEF Rows
<1>2. With(row, f) =
        [c \in {"serial", "due", "kind"} |-> IF c \in DOMAIN f THEN f[c] ELSE row[c]]
  BY <1>1 DEF With
<1> QED BY <1>2 DEF Honest, HonestFields

LEMMA HonestDefault == Honest(Default)
  BY DEF Honest, Default

LEMMA HonestPut ==
  ASSUME HonestInv, NEW t, NEW row, Honest(row), Put(t, row)
  PROVE  \A u \in DOMAIN balloons' : Honest(balloons'[u])
  BY DEF HonestInv, Put

LEMMA HonestCopy ==
  ASSUME TypeInv, HonestInv, NEW s \in Sessions, NEW row, Honest(row),
         copy' = [copy EXCEPT ![s] = row]
  PROVE  \A r \in Sessions : Honest(copy'[r])
  BY DEF HonestInv, TypeInv, HandlerTypes

LEMMA HonestRows ==
  ASSUME HonestClients, TypeInv, HonestInv, Next
  PROVE  \A t \in DOMAIN balloons' : Honest(balloons'[t])
<1> DEFINE Goal == \A t \in DOMAIN balloons' : Honest(balloons'[t])
<1>s. Scanner \in Sessions /\ Web \subseteq Sessions  BY DEF Sessions
<1>c. \A s \in Sessions : Honest(copy[s]) /\ copy[s] \in Rows /\ body[s] \in Bodies \cup {NoBody}
  BY DEF HonestInv, TypeInv, HandlerTypes
<1>0. CASE UNCHANGED balloons
  BY <1>0 DEF HonestInv
<1>1. CASE Upserted \/ SavePassport
  BY <1>1, <1>s, <1>c, HonestPut DEF Upserted, SavePassport, Save
<1>2. ASSUME NEW s \in Web, Insert(s)
      PROVE  Goal
  <2>1. Honest(With(Default, body[s].fields))
    BY <1>s, <1>c, HonestBody, DefaultType, HonestDefault, HonestWith
  <2> QED BY <1>2, <1>0, <2>1, HonestPut DEF Insert
<1>3. ASSUME NEW s \in Web, PatchSave(s) \/ FormSave(s)
      PROVE  Goal
  <2>1. Honest(With(copy[s], body[s].fields))
    BY <1>s, <1>c, HonestBody, HonestWith
  <2> QED BY <1>3, <2>1, HonestPut DEF PatchSave, FormSave, Save
<1>4. ASSUME NEW s \in Web, Deleted(s)
      PROVE  Goal
  BY <1>4 DEF Deleted, Discard, HonestInv
<1>5. ASSUME NEW s \in Web, Request(s)
      PROVE  UNCHANGED balloons \/ Insert(s) \/ PatchSave(s) \/ FormSave(s) \/ Deleted(s)
  BY <1>5, RequestWrites
<1>6. CASE Pass
  BY <1>6, <1>0, <1>1, PassWrites
<1>7. CASE ~Pass /\ ~\E s \in Web : Request(s)
  BY <1>7, <1>0, OtherWrites
<1> QED BY <1>2, <1>3, <1>4, <1>5, <1>6, <1>7, <1>0

LEMMA HonestEnd ==
  ASSUME TypeInv, HonestInv, NEW s \in Sessions, End(s) \/ UNCHANGED handler
  PROVE  \A r \in Sessions : Honest(copy'[r])
<1>1. CASE End(s)
  BY <1>1, HonestCopy, HonestDefault DEF End, Clear
<1>2. CASE UNCHANGED handler
  BY <1>2 DEF handler, HonestInv
<1> QED BY <1>1, <1>2

LEMMA HonestCopies ==
  ASSUME HonestClients, TypeInv, HonestInv, Next
  PROVE  \A s \in Sessions : Honest(copy'[s])
<1> DEFINE Goal == \A s \in Sessions : Honest(copy'[s])
<1>s. Scanner \in Sessions /\ Web \subseteq Sessions  BY DEF Sessions
<1>0. CASE UNCHANGED copy
  BY <1>0 DEF HonestInv
<1>1. CASE Pass
  <2>1. ASSUME NEW t \in Tags, NEW kind \in ReaderKinds, Scan(t, kind)
        PROVE  Goal
    <3> DEFINE row == IF t \in DOMAIN balloons THEN balloons[t] ELSE Default
    <3>1. row \in Rows /\ Honest(row)
      BY DefaultType, HonestDefault DEF TypeInv, RowTypes, HonestInv
    <3>2. HonestFields([kind |-> kind])
      BY DEF HonestFields
    <3> HIDE DEF row
    <3>3. Honest(With(row, [kind |-> kind]))
      BY <3>1, <3>2, HonestWith
    <3>4. copy' = [copy EXCEPT ![Scanner] = With(row, [kind |-> kind])]
      BY <2>1 DEF Scan, row
    <3> QED BY <1>s, <3>3, <3>4, HonestCopy
  <2>2. CASE Fetched
    <3>1. copy[Scanner] \in Rows
      BY <1>s DEF TypeInv, HandlerTypes
    <3>2. copy' = [copy EXCEPT ![Scanner] =
                     [copy[Scanner] EXCEPT !.serial = Miriada, !.due = FALSE]]
      BY <2>2, <1>s DEF Fetched, TypeInv, HandlerTypes
    <3>3. Honest([copy[Scanner] EXCEPT !.serial = Miriada, !.due = FALSE])
      BY <3>1 DEF Honest, HonestClients, Rows
    <3> QED BY <1>s, <3>2, <3>3, HonestCopy
  <2>3. CASE Upserted \/ FetchFails \/ SavePassport \/ Join \/ Record
    BY <2>3, <1>s, HonestEnd DEF Upserted, FetchFails, SavePassport, Join, Record
  <2> QED BY <1>1, <2>1, <2>2, <2>3 DEF Pass
<1>2. ASSUME NEW s \in Web, Request(s)
      PROVE  Goal
  <2>1. ASSUME NEW b \in Bodies, Create(s, b)
        PROVE  Goal
    BY <2>1, <1>0 DEF Create
  <2>2. ASSUME NEW t \in Tags, NEW b \in Bodies, Patch(s, t, b) \/ Form(s, t, b)
        PROVE  Goal
    <3>1. Honest(balloons[t]) /\ copy' = [copy EXCEPT ![s] = balloons[t]]
      BY <2>2 DEF Patch, Form, HonestInv
    <3> QED BY <1>s, <3>1, HonestCopy
  <2>3. ASSUME NEW t \in Tags, DeleteView(s, t)
        PROVE  Goal
    BY <2>3, <1>0 DEF DeleteView
  <2>4. CASE SaveBatch(s) \/ CreateValidate(s) \/ Insert(s) \/ PatchSave(s) \/ PatchCheck(s)
             \/ Delete(s) \/ Deleted(s) \/ PatchValidate(s) \/ FormSave(s)
    BY <2>4, <1>s, HonestEnd
       DEF SaveBatch, CreateValidate, Insert, PatchSave, PatchCheck, Delete, Deleted,
           PatchValidate, FormSave
  <2> QED BY <1>2, <2>1, <2>2, <2>3, <2>4 DEF Request
<1>3. ASSUME NEW s \in Web, Statistic(s)
      PROVE  Goal
  BY <1>3, <1>0 DEF Statistic, Miss, Compute, Query, Store, handler
<1>4. ASSUME NEW s \in Sessions, Signal(s) \/ Fail(s)
      PROVE  Goal
  BY <1>4, HonestEnd DEF Signal, Fail
<1>5. CASE Expire \/ ChangeSilently
  BY <1>5, <1>0 DEF Expire, ChangeSilently, handler
<1> QED BY <1>1, <1>2, <1>3, <1>4, <1>5 DEF Next, Work

\* When Miriada and clients name a number wherever they call a passport up to date, no
\* interleaving of saves of old copies, fetches, deletions and insertions, and no failure
\* between two of them, leaves a row that is marked up to date without its passport.
THEOREM PassportCorrect ==
  ASSUME HonestClients PROVE Spec => []FlagHonest
<1>1. Init => HonestInv
  BY DEF Init, HonestInv, Honest, Default, HonestClients
<1>2. TypeInv /\ HonestInv /\ [Next]_vars => HonestInv'
  <2> SUFFICES ASSUME TypeInv, HonestInv, [Next]_vars PROVE HonestInv'  OBVIOUS
  <2>1. CASE Next
    BY <2>1, HonestRows, HonestCopies DEF HonestInv
  <2>2. CASE UNCHANGED vars
    BY <2>2 DEF vars, tables, handler, HonestInv
  <2> QED BY <2>1, <2>2
<1>3. HonestInv => FlagHonest
  BY DEF HonestInv, Honest, FlagHonest
<1> QED BY <1>1, <1>2, <1>3, TypeInvariant, PTL DEF Spec

----------------------------------------------------------------------------
(* The cached statistics.                                                  *)

\* Columns a computation has already read when it is at a step.
Ready ==
    [step \in Computing |->
        CASE step = "readers" -> {}
          [] step = "batches" -> {"readers"}
          [] step = "full" -> {"readers", "batches"}
          [] step = "empty" -> {"readers", "batches", "full"}
          [] step = "store" -> {"readers", "batches", "full", "empty"}]

\* A computation that nothing has overlapped read what the tables still say.
FreshInv ==
    \A s \in Sessions : pc[s] \in Computing /\ ~raced[s] =>
        \A column \in Ready[pc[s]] : got[s][column] = Current[column]

\* The signal sent inside a transaction dropped the value, and one stored before the
\* commit is known to be outdated.
OpenInv ==
    \A s \in Sessions : pc[s] \in InTransaction /\ ~outdated => statistic = {}

StaleInv == FreshInv /\ OpenInv /\ StaleOnlyByOverlap

LEMMA LocalFresh ==
  ASSUME TypeInv, FreshInv, NEW s \in Sessions, NEW step \in Labels, Local(s, step)
  PROVE  FreshInv'
<1>1. Current' = Current
  BY DEF Local, tables, Current, Count
<1>2. \A r \in Sessions : pc'[r] = IF r = s THEN step ELSE pc[r]
  BY DEF Local, Go, TypeInv, HandlerTypes
<1>3. Ready["readers"] = {}
  BY DEF Ready, Computing
<1>4. UNCHANGED <<got, raced>>
  BY DEF Local, fill
<1> SUFFICES ASSUME NEW r \in Sessions, pc'[r] \in Computing, ~raced'[r],
                    NEW column \in Ready[pc'[r]]
             PROVE  got'[r][column] = Current'[column]
  BY DEF FreshInv
<1>5. CASE r = s
  <2>1. step = "readers"
    BY <1>2, <1>5 DEF Local
  <2> QED BY <1>2, <1>3, <1>5, <2>1
<1>6. CASE r # s
  BY <1>1, <1>2, <1>4, <1>6 DEF FreshInv
<1> QED BY <1>5, <1>6

LEMMA WriteFresh ==
  ASSUME TypeInv, NEW s \in Sessions, NEW step \in Labels, Write(s, step)
  PROVE  FreshInv'
<1>1. \A r \in Sessions : pc'[r] = IF r = s THEN step ELSE pc[r]
  BY DEF Write, Go, TypeInv, HandlerTypes
<1>2. \A r \in Sessions : pc'[r] \in Computing => raced'[r]
  BY <1>1 DEF Write, Touch
<1> QED BY <1>2 DEF FreshInv

LEMMA LocalStale ==
  ASSUME TypeInv, StaleInv, NEW s \in Sessions, NEW step \in Labels, Local(s, step)
  PROVE  StaleInv'
<1>1. FreshInv'
  BY LocalFresh DEF StaleInv
<1>2. \A r \in Sessions : pc'[r] = IF r = s THEN step ELSE pc[r]
  BY DEF Local, Go, TypeInv, HandlerTypes
<1>3. CASE clear_balloon_statistic_cache
  BY <1>1, <1>3 DEF clear_balloon_statistic_cache, StaleInv, OpenInv, StaleOnlyByOverlap
<1>4. CASE UNCHANGED cache /\ step \notin InTransaction \cup Unsignalled /\ pc[s] \notin Unsignalled
  <2>1. Current' = Current
    BY DEF Local, tables, Current, Count
  <2>2. OpenInv'
    BY <1>2, <1>4 DEF cache, StaleInv, OpenInv
  <2>3. StaleOnlyByOverlap'
    BY <1>2, <1>4, <2>1 DEF cache, StaleInv, StaleOnlyByOverlap
  <2> QED BY <1>1, <2>2, <2>3 DEF StaleInv
<1> QED BY <1>3, <1>4 DEF Local

LEMMA WriteStale ==
  ASSUME TypeInv, StaleInv, NEW s \in Sessions, NEW step \in Labels, Write(s, step)
  PROVE  StaleInv'
<1>1. FreshInv'
  BY WriteFresh
<1>2. \A r \in Sessions : pc'[r] = IF r = s THEN step ELSE pc[r]
  BY DEF Write, Go, TypeInv, HandlerTypes
<1>3. UNCHANGED <<statistic, outdated>>
  BY DEF Write, Touch, cache
<1>4. OpenInv'
  BY <1>2, <1>3 DEF Write, StaleInv, OpenInv
<1>5. StaleOnlyByOverlap'
  <2>1. CASE step \in Unsignalled
    BY <1>2, <2>1 DEF StaleOnlyByOverlap
  <2>2. CASE pc[s] \in InTransaction
    BY <1>3, <2>2 DEF StaleInv, OpenInv, StaleOnlyByOverlap
  <2> QED BY <2>1, <2>2 DEF Write
<1> QED BY <1>1, <1>4, <1>5 DEF StaleInv

LEMMA QueryStale ==
  ASSUME TypeInv, StaleInv, NEW s \in Sessions, NEW table, NEW next \in Computing,
         table \in Computing \ {"store"}, Ready[next] = Ready[table] \cup {table},
         Query(s, table, next)
  PROVE  StaleInv'
<1>1. Current' = Current
  BY DEF Query, tables, Current, Count
<1>2. \A r \in Sessions : pc'[r] = IF r = s THEN next ELSE pc[r]
  BY DEF Query, Go, TypeInv, HandlerTypes
<1>3. UNCHANGED <<statistic, outdated, raced>>
  BY DEF Query, cache
<1>4. table \in {"readers", "batches", "full", "empty"} /\ got \in [Sessions -> Statistics]
  BY DEF Computing, TypeInv, CacheTypes
<1>5. got' = [got EXCEPT ![s] = [got[s] EXCEPT ![table] = Current[table]]]
  BY <1>4 DEF Query
<1>6. \A column \in Ready[table] \cup {table} : column \in {"readers", "batches", "full", "empty"}
  BY <1>4 DEF Ready, Computing
<1>7. FreshInv'
  <2> SUFFICES ASSUME NEW r \in Sessions, pc'[r] \in Computing, ~raced'[r],
                      NEW column \in Ready[pc'[r]]
               PROVE  got'[r][column] = Current'[column]
    BY DEF FreshInv
  <2>1. CASE r # s
    BY <1>1, <1>2, <1>3, <1>4, <1>5, <2>1 DEF StaleInv, FreshInv
  <2>2. CASE r = s /\ column = table
    BY <1>1, <1>4, <1>5, <2>2 DEF Statistics
  <2>3. CASE r = s /\ column # table
    <3>1. column \in Ready[table]
      BY <1>2, <2>3
    <3>2. got[s][column] = Current[column]
      BY <1>3, <2>3, <3>1 DEF Query, StaleInv, FreshInv
    <3>3. got'[s][column] = got[s][column]
      BY <1>4, <1>5, <1>6, <2>3, <3>1 DEF Statistics
    <3> QED BY <1>1, <2>3, <3>2, <3>3
  <2> QED BY <2>1, <2>2, <2>3
<1>8. OpenInv'
  BY <1>2, <1>3 DEF StaleInv, OpenInv, Computing, InTransaction
<1>9. StaleOnlyByOverlap'
  BY <1>1, <1>2, <1>3 DEF Query, StaleInv, StaleOnlyByOverlap, Computing, Unsignalled
<1> QED BY <1>7, <1>8, <1>9 DEF StaleInv

LEMMA StoreStale ==
  ASSUME TypeInv, StaleInv, NEW s \in Sessions, Store(s)
  PROVE  StaleInv'
<1>1. Current' = Current
  BY DEF Store, tables, Current, Count
<1>2. \A r \in Sessions : pc'[r] = IF r = s THEN "idle" ELSE pc[r]
  BY DEF Store, Go, TypeInv, HandlerTypes
<1>3. \A r \in Sessions \ {s} : got'[r] = got[r] /\ raced'[r] = raced[r]
  BY DEF Store, TypeInv, CacheTypes
<1>4. FreshInv'
  BY <1>1, <1>2, <1>3 DEF StaleInv, FreshInv, Computing
<1>5. OpenInv'
  BY <1>2 DEF Store, OpenInv, InTransaction
<1>6. ASSUME ~raced[s]
      PROVE  got[s] = Current
  <2>1. pc[s] = "store" /\ "store" \in Computing
    BY DEF Store, Computing
  <2>2. Ready["store"] = {"readers", "batches", "full", "empty"}
    BY DEF Ready, Computing
  <2>3. \A column \in {"readers", "batches", "full", "empty"} : got[s][column] = Current[column]
    BY <1>6, <2>1, <2>2 DEF StaleInv, FreshInv
  <2>4. got[s] \in Statistics /\ Current \in Statistics
    BY TypeInvTables, CurrentType DEF TypeInv, CacheTypes
  <2> QED BY <2>3, <2>4 DEF Statistics
<1>7. StaleOnlyByOverlap'
  BY <1>1, <1>6 DEF Store, StaleOnlyByOverlap
<1> QED BY <1>4, <1>5, <1>7 DEF StaleInv

LEMMA MissLocal ==
  ASSUME NEW s \in Web, Miss(s)
  PROVE  Local(s, "readers")
  BY DEF Miss, Begin, Local, Computing, InTransaction, Unsignalled

LEMMA StatisticStale ==
  ASSUME TypeInv, StaleInv, NEW s \in Web, Statistic(s)
  PROVE  StaleInv'
<1>s. s \in Sessions  BY DEF Sessions
<1>r. /\ Ready["readers"] = {} /\ Ready["batches"] = {"readers"}
      /\ Ready["full"] = {"readers", "batches"}
      /\ Ready["empty"] = {"readers", "batches", "full"}
      /\ Ready["store"] = {"readers", "batches", "full", "empty"}
  BY DEF Ready, Computing
<1>1. CASE Miss(s)
  BY <1>s, <1>1, MissLocal, LocalStale DEF Labels, Computing
<1>2. CASE Query(s, "readers", "batches")
  BY <1>s, <1>r, <1>2, QueryStale DEF Computing
<1>3. CASE Query(s, "batches", "full")
  BY <1>s, <1>r, <1>3, QueryStale DEF Computing
<1>4. CASE Query(s, "full", "empty")
  BY <1>s, <1>r, <1>4, QueryStale DEF Computing
<1>5. CASE Query(s, "empty", "store")
  BY <1>s, <1>r, <1>5, QueryStale DEF Computing
<1>6. CASE Store(s)
  BY <1>s, <1>6, StoreStale
<1> QED BY <1>1, <1>2, <1>3, <1>4, <1>5, <1>6 DEF Statistic, Compute

LEMMA FailStale ==
  ASSUME TypeInv, StaleInv, NEW s \in Sessions, Fail(s)
  PROVE  StaleInv'
<1>1. Current' = Current
  BY DEF Fail, tables, Current, Count
<1>2. \A r \in Sessions : pc'[r] = IF r = s THEN "idle" ELSE pc[r]
  BY DEF Fail, End, Go, TypeInv, HandlerTypes
<1>3. \A r \in Sessions \ {s} : got'[r] = got[r] /\ raced'[r] = raced[r]
  BY DEF Fail, TypeInv, CacheTypes
<1>4. statistic' = statistic /\ (~outdated' => ~outdated)
  BY DEF Fail
<1>5. FreshInv'
  BY <1>1, <1>2, <1>3 DEF StaleInv, FreshInv, Computing
<1>6. OpenInv'
  BY <1>2, <1>4 DEF StaleInv, OpenInv, InTransaction
<1>7. StaleOnlyByOverlap'
  <2>1. CASE pc[s] \in Unsignalled
    BY <1>4, <2>1 DEF Fail, StaleOnlyByOverlap
  <2>2. CASE pc[s] \notin Unsignalled
    BY <1>1, <1>2, <1>4, <2>2 DEF StaleInv, StaleOnlyByOverlap
  <2> QED BY <2>1, <2>2
<1> QED BY <1>5, <1>6, <1>7 DEF StaleInv

LEMMA ClockStale ==
  ASSUME TypeInv, StaleInv, Expire \/ ChangeSilently
  PROVE  StaleInv'
<1>1. CASE Expire
  <2>1. Current' = Current
    BY <1>1 DEF Expire, tables, Current, Count
  <2>2. statistic' = {} /\ UNCHANGED <<pc, got, raced>>
    BY <1>1 DEF Expire, clear_balloon_statistic_cache, fill
  <2> QED BY <2>1, <2>2 DEF StaleInv, FreshInv, OpenInv, StaleOnlyByOverlap
<1>2. CASE ChangeSilently
  <2>1. FreshInv'
    BY <1>2 DEF ChangeSilently, FreshInv
  <2>2. ~outdated' => statistic' = {}
    BY <1>2 DEF ChangeSilently
  <2> QED BY <2>1, <2>2 DEF StaleInv, OpenInv, StaleOnlyByOverlap
<1> QED BY <1>1, <1>2

LEMMA StaleStep == TypeInv /\ StaleInv /\ [Next]_vars => StaleInv'
<1> SUFFICES ASSUME TypeInv, StaleInv, [Next]_vars PROVE StaleInv'  OBVIOUS
<1>s. Scanner \in Sessions /\ Web \subseteq Sessions  BY DEF Sessions
<1>1. CASE Pass
  BY <1>1, <1>s, PassKinds, LocalStale, WriteStale DEF TypeInv
<1>2. ASSUME NEW s \in Web, Request(s)
      PROVE  StaleInv'
  BY <1>2, <1>s, RequestKinds, LocalStale, WriteStale
<1>3. ASSUME NEW s \in Web, Statistic(s)
      PROVE  StaleInv'
  BY <1>3, StatisticStale
<1>4. ASSUME NEW s \in Sessions, Signal(s)
      PROVE  StaleInv'
  BY <1>4, SignalKind, LocalStale
<1>5. ASSUME NEW s \in Sessions, Fail(s)
      PROVE  StaleInv'
  BY <1>5, FailStale
<1>6. CASE Expire \/ ChangeSilently
  BY <1>6, ClockStale
<1>7. CASE UNCHANGED vars
  <2>1. Current' = Current
    BY <1>7 DEF vars, tables, Current, Count
  <2> QED BY <1>7, <2>1
          DEF vars, cache, fill, StaleInv, FreshInv, OpenInv, StaleOnlyByOverlap
<1> QED BY <1>1, <1>2, <1>3, <1>4, <1>5, <1>6, <1>7 DEF Next, Work

\* Whatever handlers overlap and wherever they fail, a cached value that no write overlapped
\* and no lost signal concerns is what the tables say once the signals are sent: the
\* receivers clear the key after every save, and inside every transaction that locks.
THEOREM StatisticCorrect == Spec => []StaleOnlyByOverlap
<1>1. Init => StaleInv
  BY DEF Init, StaleInv, FreshInv, OpenInv, StaleOnlyByOverlap, Computing, InTransaction
<1>2. StaleInv => StaleOnlyByOverlap
  BY DEF StaleInv
<1> QED BY <1>1, <1>2, StaleStep, TypeInvariant, PTL DEF Spec

----------------------------------------------------------------------------
(* Requests that do not overlap.                                           *)
(*                                                                         *)
(* The steps of an orderly behaviour are those of one handler, and what    *)
(* the registry shows can be told from the place this handler is at.       *)

\* The row a request on a tag starts from.
RowOf(t) == IF t \in DOMAIN balloons THEN balloons[t] ELSE Default

\* What a handler has found out and holds while no other runs: its instance is the row it
\* read, and the tags are taken or free as it saw them.
InPlace(s) ==
    /\ pc[s] = "upsert" =>
         \E kind \in Kinds : copy[s] = With(RowOf(on[s]), [kind |-> kind])
    /\ pc[s] \in {"fetch", "patch_save", "form_save", "patch_check", "patch_delete",
                  "patch_commit"} =>
         on[s] \in DOMAIN balloons /\ copy[s] = balloons[on[s]]
    /\ pc[s] = "passport" =>
         /\ on[s] \in DOMAIN balloons
         /\ copy[s] = With(balloons[on[s]], [serial |-> Miriada, due |-> FALSE])
    /\ pc[s] \in {"patch_check", "patch_delete", "patch_commit"} \cup Moving =>
         body[s].valid /\ body[s].tag \notin {NoTag, on[s]}
    /\ pc[s] \in {"patch_delete", "patch_commit"} \cup Moving =>
         body[s].tag \notin DOMAIN balloons
    /\ pc[s] \in Moving => on[s] \notin DOMAIN balloons

Alone(s) == \A r \in Sessions \ {s} : ~Handling(r)

OrderlyInv == orderly => OneWellFormed /\ \A s \in Sessions : InPlace(s)

\* A table, and the row of a balloon that is on its way to another tag.
WithOld(table, old, row) ==
    [t \in DOMAIN table \cup {old} |-> IF t \in DOMAIN table THEN table[t] ELSE row]

\* What the registry shows while at most one handler runs.
Views ==
    \A s \in Sessions : Alone(s) =>
        /\ Served = IF Op(s) = "none" THEN {} ELSE {Asked(s)}
        /\ pc[s] \notin Moving => Listed = [t \in DOMAIN balloons |-> balloons[t]]
        /\ pc[s] \in Moving =>
             Listed = WithOld(balloons, on[s], copy[s])
        /\ InPlace(s) => \A r \in Sessions : InPlace(r)

\* Only a handler that runs is served, and only its row can be on the way.
LEMMA ViewsHold == Views
<1> SUFFICES ASSUME NEW s \in Sessions, Alone(s)
             PROVE  /\ Served = IF Op(s) = "none" THEN {} ELSE {Asked(s)}
                    /\ pc[s] \notin Moving => Listed = [t \in DOMAIN balloons |-> balloons[t]]
                    /\ pc[s] \in Moving =>
                         Listed = WithOld(balloons, on[s], copy[s])
                    /\ InPlace(s) => \A r \in Sessions : InPlace(r)
  BY DEF Views
<1>1. \A r \in Sessions \ {s} : Op(r) = "none" /\ pc[r] \notin Moving
  BY DEF Alone, Handling, Op, Moving, Computing
<1>2. Served = IF Op(s) = "none" THEN {} ELSE {Asked(s)}
  BY <1>1 DEF Served
<1>3. BeingRetagged = IF pc[s] \in Moving THEN {s} ELSE {}
  BY <1>1 DEF BeingRetagged
<1>4. ASSUME pc[s] \notin Moving
      PROVE  Listed = [t \in DOMAIN balloons |-> balloons[t]]
  <2>1. {on[r] : r \in BeingRetagged} = {}
    BY <1>3, <1>4
  <2>2. DOMAIN balloons \cup {on[r] : r \in BeingRetagged} = DOMAIN balloons
    BY <2>1
  <2> QED BY <2>2 DEF Listed
<1>5. ASSUME pc[s] \in Moving
      PROVE  Listed = WithOld(balloons, on[s], copy[s])
  <2>1. BeingRetagged = {s}
    BY <1>3, <1>5
  <2>2. {on[r] : r \in BeingRetagged} = {on[s]}
    BY <2>1
  <2>3. (CHOOSE r \in BeingRetagged : on[r] = on[s]) = s
    BY <2>1
  <2>4. Listed = [t \in DOMAIN balloons \cup {on[s]} |->
                    IF t \in DOMAIN balloons THEN balloons[t]
                    ELSE copy[CHOOSE r \in BeingRetagged : on[r] = t]]
    BY <2>2 DEF Listed
  <2>5. \A t \in DOMAIN balloons \cup {on[s]} : t \notin DOMAIN balloons => t = on[s]
    OBVIOUS
  <2> QED BY <2>3, <2>4, <2>5 DEF WithOld
<1>6. ASSUME InPlace(s), NEW r \in Sessions
      PROVE  InPlace(r)
  BY <1>6 DEF Alone, Handling, InPlace, Moving, Computing
<1> QED BY <1>2, <1>4, <1>5, <1>6

----------------------------------------------------------------------------
(* Steps of the registry.                                                  *)

\* The row of a balloon is written.
Writes(t, row) ==
    Listed' = [u \in DOMAIN Listed \cup {t} |-> IF u = t THEN row ELSE Listed[u]]

\* A step of the registry, or none.
Registered == Registry!Next \/ UNCHANGED <<Listed, Served>>

\* A request comes; the table is as it was.
LEMMA AskedStep ==
  ASSUME orderly, orderly', Served = {}, Listed' = Listed
  PROVE  Registered
<1>1. CASE Served' = {}
  BY <1>1 DEF Registered
<1>2. CASE Served' # {}
  BY <1>2 DEF Registered, Registry!Next, Registry!Ask
<1> QED BY <1>1, <1>2

\* A request is refused.
LEMMA RefusedStep ==
  ASSUME orderly, orderly', Served' = {}, Listed' = Listed
  PROVE  Registered
  BY DEF Registered, Registry!Next, Registry!Refuse

\* A balloon is registered, ...
LEMMA CreatedStep ==
  ASSUME orderly, orderly', NEW r, Served = {r}, Served' = {},
         r.op = "create", r.tag \notin DOMAIN Listed,
         NEW row, row = With(Default, r.fields),
         Writes(r.tag, row)
  PROVE  Registered
<1>1. Registry!Create(r)
  BY DEF Writes, Registry!Create, Registry!Set, Registry!With, With
<1> QED BY <1>1 DEF Registered, Registry!Next, Registry!Serve

\* ... edited, ...
LEMMA EditedStep ==
  ASSUME orderly, orderly', NEW r, Served = {r}, Served' = {},
         r.op = "edit", r.tag \in DOMAIN Listed,
         NEW row, row = With(Listed[r.tag], r.fields),
         Writes(r.tag, row)
  PROVE  Registered
<1>1. Registry!Edit(r)
  BY DEF Writes, Registry!Edit, Registry!Set, Registry!With, With
<1> QED BY <1>1 DEF Registered, Registry!Next, Registry!Serve

\* ... gets another tag, ...
LEMMA RetaggedStep ==
  ASSUME orderly, orderly', NEW r, Served = {r}, Served' = {},
         r.op = "retag", r.tag \in DOMAIN Listed, r.to \notin DOMAIN Listed,
         NEW row, row = With(Default, r.fields),
         Listed' = [u \in (DOMAIN Listed \ {r.tag}) \cup {r.to} |->
                      IF u = r.to THEN row ELSE Listed[u]]
  PROVE  Registered
<1>1. Registry!Retag(r)
  BY DEF Registry!Retag, Registry!With, With
<1> QED BY <1>1 DEF Registered, Registry!Next, Registry!Serve

\* ... is deleted, ...
LEMMA DeletedStep ==
  ASSUME orderly, orderly', NEW r, Served = {r}, Served' = {},
         r.op = "delete",
         Listed' = [u \in DOMAIN Listed \ {r.tag} |-> Listed[u]]
  PROVE  Registered
<1>1. Registry!Delete(r)
  BY DEF Registry!Delete
<1> QED BY <1>1 DEF Registered, Registry!Next, Registry!Serve

\* ... passes a reader, ...
LEMMA ScannedStep ==
  ASSUME orderly, orderly', NEW r, Served = {r}, Served' = {} \/ Served' = {r},
         r.op = "scan", NEW kind \in Kinds,
         NEW old, old = IF r.tag \in DOMAIN Listed THEN Listed[r.tag] ELSE Default,
         NEW row, row = With(old, [kind |-> kind]),
         Writes(r.tag, row)
  PROVE  Registered
<1>1. Registry!Scan(r)
  BY DEF Writes, Registry!Scan, Registry!Set, Registry!With, With
<1> QED BY <1>1 DEF Registered, Registry!Next, Registry!Serve

\* ... or gets its passport from Miriada.
LEMMA UpdatedStep ==
  ASSUME orderly, orderly', NEW r, Served = {r}, Served' = {},
         r.op = "scan", r.tag \in DOMAIN Listed,
         NEW row, row = With(Listed[r.tag], [serial |-> Miriada, due |-> FALSE]),
         Writes(r.tag, row)
  PROVE  Registered
<1>1. Registry!Update(r)
  BY DEF Writes, Registry!Update, Registry!Set, Registry!With, With
<1> QED BY <1>1 DEF Registered, Registry!Next, Registry!Serve

----------------------------------------------------------------------------
(* The handler that runs.                                                  *)

\* A handler starts: no other runs.
LEMMA Started ==
  ASSUME orderly, orderly', HandlerTypes, Views, Views', OneWellFormed', NEW s \in Sessions,
         NEW step \in Labels \ ({"idle"} \cup Computing \cup Moving),
         pc[s] = "idle", Go(s, step), balloons' = balloons
  PROVE  Registered /\ (InPlace(s)' => \A r \in Sessions : InPlace(r)')
<1>1. pc'[s] = step /\ \A r \in Sessions \ {s} : pc'[r] = pc[r]
  BY DEF Go, HandlerTypes
<1>2. Alone(s)'
  BY <1>1 DEF OneWellFormed, Handling, Alone
<1>3. Alone(s)
  BY <1>1, <1>2 DEF Alone, Handling
<1>4. Op(s) = "none"
  BY DEF Op, Moving
<1>5. Served = {}
  BY <1>3, <1>4 DEF Views
<1>6. Listed' = Listed
  BY <1>1, <1>2, <1>3 DEF Views, Moving
<1> QED BY <1>2, <1>5, <1>6, AskedStep DEF Views

\* The one that runs is alone before and after its step.
LEMMA Runs ==
  ASSUME HandlerTypes, OneWellFormed, NEW s \in Sessions, Handling(s),
         NEW step \in Labels, Go(s, step)
  PROVE  /\ Alone(s) /\ Alone(s)' /\ WellFormed(s)
         /\ pc'[s] = step
  BY DEF HandlerTypes, OneWellFormed, Alone, Handling, Go

\* Nothing but computations of the statistics goes on.
LEMMA Quiet ==
  ASSUME HandlerTypes, Views, Views', OneWellFormed, \A s \in Sessions : InPlace(s),
         balloons' = balloons, handler' = handler,
         \A s \in Sessions :
            pc'[s] = pc[s] \/ {pc[s], pc'[s]} \subseteq {"idle"} \cup Computing
  PROVE  Registered /\ \A s \in Sessions : InPlace(s)'
<1>1. PICK s \in Sessions : Alone(s)
  BY DEF OneWellFormed, Alone, Sessions
<1>2. Alone(s)'
  BY <1>1 DEF Alone, Handling
<1>3. on' = on /\ body' = body /\ copy' = copy
  BY DEF handler
<1>4. CASE pc'[s] = pc[s]
  <2>1. Op(s)' = Op(s) /\ Asked(s)' = Asked(s)
    BY <1>3, <1>4 DEF Op, Asked
  <2>2. Served' = Served
    BY <1>1, <1>2, <2>1 DEF Views
  <2>3. Listed' = Listed
    <3>1. CASE pc[s] \in Moving
      BY <1>1, <1>2, <1>3, <1>4, <3>1 DEF Views
    <3>2. CASE pc[s] \notin Moving
      BY <1>1, <1>2, <1>4, <3>2 DEF Views
    <3> QED BY <3>1, <3>2
  <2>4. InPlace(s)'
    BY <1>3, <1>4 DEF InPlace, RowOf
  <2> QED BY <1>2, <2>2, <2>3, <2>4 DEF Views, Registered
<1>5. CASE {pc[s], pc'[s]} \subseteq {"idle"} \cup Computing
  <2>1. Op(s)' = "none" /\ Op(s) = "none"
    BY <1>5 DEF Op, Moving, Computing
  <2>2. Served' = Served
    BY <1>1, <1>2, <2>1 DEF Views
  <2>3. Listed' = Listed
    BY <1>1, <1>2, <1>5 DEF Views, Moving, Computing
  <2>4. InPlace(s)'
    BY <1>5 DEF InPlace, Moving, Computing
  <2> QED BY <1>2, <2>2, <2>3, <2>4 DEF Views, Registered
<1> QED BY <1>4, <1>5

\* A handler that runs goes on without an effect, or with nothing left to do.
LEMMA Continued ==
  ASSUME HandlerTypes, Views, Views', OneWellFormed, NEW s \in Sessions, Handling(s),
         NEW step \in Labels, Go(s, step), balloons' = balloons, UNCHANGED handler,
         Op(s)' = Op(s), pc[s] \in Moving <=> step \in Moving
  PROVE  Registered /\ (InPlace(s)' => \A r \in Sessions : InPlace(r)')
<1>1. Alone(s) /\ Alone(s)' /\ pc'[s] = step
  BY Runs
<1>2. Asked(s)' = Asked(s)
  BY DEF Asked, handler
<1>3. Served' = Served
  <2>1. CASE Op(s) = "none"
    BY <1>1, <2>1 DEF Views
  <2>2. CASE Op(s) # "none"
    BY <1>1, <1>2, <2>2 DEF Views
  <2> QED BY <2>1, <2>2
<1>4. copy' = copy /\ on' = on
  BY DEF handler
<1>5. Listed' = Listed
  <2>1. CASE step \in Moving
    BY <1>1, <1>4, <2>1 DEF Views
  <2>2. CASE step \notin Moving
    BY <1>1, <2>2 DEF Views
  <2> QED BY <2>1, <2>2
<1> QED BY <1>1, <1>3, <1>5 DEF Views, Registered

\* A handler ends, and what it was asked for is not done.
LEMMA Refused ==
  ASSUME orderly, orderly', HandlerTypes, Views, Views', OneWellFormed, NEW s \in Sessions,
         Handling(s), pc[s] \notin Moving, End(s), balloons' = balloons
  PROVE  Registered /\ \A r \in Sessions : InPlace(r)'
<1>1. Alone(s) /\ Alone(s)' /\ pc'[s] = "idle"
  BY Runs DEF End, Labels
<1>2. Op(s)' = "none" /\ pc'[s] \notin Moving /\ InPlace(s)'
  BY <1>1 DEF Op, Moving, InPlace
<1>3. Served' = {}
  BY <1>1, <1>2 DEF Views
<1>4. Listed' = Listed
  BY <1>1, <1>2 DEF Views
<1> QED BY <1>1, <1>2, <1>3, <1>4, RefusedStep DEF Views

----------------------------------------------------------------------------
(* The actions.                                                            *)

\* What is known of the state before and after a step of an orderly behaviour.
Ordered == orderly /\ HandlerTypes /\ Views /\ OneWellFormed

\* What is written to the table is written to the list.
LEMMA PutListed ==
  ASSUME NEW t, NEW row, Put(t, row),
         Listed = [u \in DOMAIN balloons |-> balloons[u]],
         Listed' = [u \in DOMAIN balloons' |-> balloons'[u]]
  PROVE  /\ DOMAIN Listed = DOMAIN balloons
         /\ \A u \in DOMAIN balloons : Listed[u] = balloons[u]
         /\ Writes(t, row)
<1>1. balloons' = [u \in DOMAIN balloons \cup {t} |-> IF u = t THEN row ELSE balloons[u]]
  BY DEF Put
<1>2. DOMAIN balloons' = DOMAIN balloons \cup {t}
  BY <1>1
<1>3. \A u \in DOMAIN balloons' : balloons'[u] = IF u = t THEN row ELSE balloons[u]
  BY <1>1
<1>4. DOMAIN Listed = DOMAIN balloons /\ \A u \in DOMAIN balloons : Listed[u] = balloons[u]
  OBVIOUS
<1>5. Listed' = [u \in DOMAIN Listed \cup {t} |-> IF u = t THEN row ELSE Listed[u]]
  BY <1>2, <1>3, <1>4
<1> QED BY <1>4, <1>5 DEF Writes

\* update_balloon_passport fills two columns.
LEMMA FilledIsWith ==
  ASSUME NEW row \in Rows
  PROVE  [row EXCEPT !.serial = Miriada, !.due = FALSE]
           = With(row, [serial |-> Miriada, due |-> FALSE])
<1> DEFINE e == [row EXCEPT !.serial = Miriada, !.due = FALSE]
           f == [serial |-> Miriada, due |-> FALSE]
           w == With(row, f)
<1>1. DOMAIN row = {"serial", "due", "kind"}
  BY DEF Rows
<1>2. e = [serial |-> e.serial, due |-> e.due, kind |-> e.kind]
  <2>1. e \in Rows
    BY FilledType
  <2> HIDE DEF e
  <2> QED BY <2>1 DEF Rows
<1>3. e.serial = Miriada /\ e.due = FALSE /\ e.kind = row.kind
  BY DEF Rows
<1>4. w = [d \in {"serial", "due", "kind"} |-> IF d \in DOMAIN f THEN f[d] ELSE row[d]]
  BY <1>1 DEF With
<1>5. w = [serial |-> w.serial, due |-> w.due, kind |-> w.kind]
  BY <1>4
<1>6. w.serial = Miriada /\ w.due = FALSE /\ w.kind = row.kind
  BY <1>4
<1> HIDE DEF e, w
<1>7. e = w
  BY <1>2, <1>3, <1>5, <1>6
<1> QED BY <1>7 DEF e, w

\* The steps of a pass: the first commit is the scan, the second the update.
LEMMA PassRegistered ==
  ASSUME Ordered, Ordered', \A s \in Sessions : InPlace(s), Pass
  PROVE  Registered /\ \A s \in Sessions : InPlace(s)'
<1> USE DEF Ordered
<1>0. PICK t, row : t = on[Scanner] /\ row = copy[Scanner]
  OBVIOUS
<1>s. Scanner \in Sessions
  BY DEF Sessions
<1>1. ASSUME NEW u \in Tags, NEW kind \in ReaderKinds, Scan(u, kind)
      PROVE  Registered /\ \A s \in Sessions : InPlace(s)'
  <2>1. /\ pc[Scanner] = "idle" /\ Go(Scanner, "upsert") /\ balloons' = balloons
        /\ on' = [on EXCEPT ![Scanner] = u]
        /\ copy' = [copy EXCEPT ![Scanner] = With(RowOf(u), [kind |-> kind])]
    BY <1>1 DEF Scan, Begin, tables, RowOf
  <2>2. "upsert" \in Labels \ ({"idle"} \cup Computing \cup Moving)
    BY DEF Labels, Computing, InTransaction, Moving
  <2>3. pc'[Scanner] = "upsert" /\ on'[Scanner] = u /\ RowOf(u)' = RowOf(u)
    BY <1>s, <2>1 DEF HandlerTypes, Go, RowOf
  <2>4. copy'[Scanner] = With(RowOf(u), [kind |-> kind])
    BY <1>s, <2>1 DEF HandlerTypes
  <2>5. InPlace(Scanner)'
    BY <2>3, <2>4 DEF InPlace, Moving, RowOf
  <2> QED BY <1>s, <2>1, <2>2, <2>5, Started
<1>2. CASE Upserted
  <2>1. /\ pc[Scanner] = "upsert" /\ Put(t, row) /\ UNCHANGED handler
        /\ Go(Scanner, "fetch") \/ Go(Scanner, "join")
    BY <1>0, <1>2 DEF Upserted
  <2>2. PICK step \in {"fetch", "join"} : Go(Scanner, step)
    BY <2>1
  <2>3. Handling(Scanner) /\ step \in Labels
    BY <2>1, <2>2 DEF Handling, Computing, Labels
  <2>4. Alone(Scanner) /\ Alone(Scanner)' /\ pc'[Scanner] = step
    BY <1>s, <2>2, <2>3, Runs
  <2>5. on' = on /\ body' = body /\ copy' = copy
    BY <2>1 DEF handler
  <2>6. Op(Scanner) = "scan" /\ Op(Scanner)' \in {"scan", "none"}
    BY <2>1, <2>4 DEF Op, Moving
  <2>7. PICK r : r = Asked(Scanner)
    OBVIOUS
  <2>8. r.op = "scan" /\ r.tag = t /\ (Op(Scanner)' = "scan" => Asked(Scanner)' = r)
    BY <1>0, <2>5, <2>6, <2>7 DEF Asked
  <2>9. Served = {r} /\ (Served' = {} \/ Served' = {r})
    BY <1>s, <2>4, <2>6, <2>7, <2>8 DEF Views
  <2>10. /\ Listed = [u \in DOMAIN balloons |-> balloons[u]]
         /\ Listed' = [u \in DOMAIN balloons' |-> balloons'[u]]
    BY <1>s, <2>1, <2>4 DEF Views, Moving
  <2>11. PICK kind \in Kinds : row = With(RowOf(t), [kind |-> kind])
    BY <1>0, <1>s, <2>1 DEF InPlace
  <2>12. PICK old : old = RowOf(t)
    OBVIOUS
  <2>13. old = IF r.tag \in DOMAIN Listed THEN Listed[r.tag] ELSE Default
    BY <2>1, <2>8, <2>10, <2>12, PutListed DEF RowOf
  <2>14. Writes(r.tag, row)
    BY <2>1, <2>8, <2>10, PutListed
  <2>15. Registered
    BY <2>8, <2>9, <2>11, <2>12, <2>13, <2>14, ScannedStep
  <2>16. t \in DOMAIN balloons' /\ balloons'[t] = row
    BY <2>1 DEF Put
  <2>17. InPlace(Scanner)'
    BY <1>0, <2>4, <2>5, <2>16 DEF InPlace, Moving
  <2> QED BY <1>s, <2>4, <2>15, <2>17 DEF Views
<1>3. CASE FetchFails
  <2>1. pc[Scanner] = "fetch" /\ balloons' = balloons /\ Handling(Scanner)
    BY <1>3 DEF FetchFails, tables, Handling, Computing
  <2>2. CASE UNCHANGED <<pc, handler>>
    BY <2>1, <2>2, Quiet
  <2>3. CASE End(Scanner)
    BY <1>s, <2>1, <2>3, Refused DEF Moving
  <2> QED BY <1>3, <2>2, <2>3 DEF FetchFails
<1>4. CASE Fetched
  <2>1. /\ pc[Scanner] = "fetch" /\ Go(Scanner, "passport")
        /\ balloons' = balloons /\ on' = on /\ body' = body
    BY <1>4 DEF Fetched, tables
  <2>2. Handling(Scanner) /\ "passport" \in Labels
    BY <2>1 DEF Handling, Computing, Labels
  <2>3. Alone(Scanner) /\ Alone(Scanner)' /\ pc'[Scanner] = "passport"
    BY <1>s, <2>1, <2>2, Runs
  <2>4. copy' = [copy EXCEPT ![Scanner] = [row EXCEPT !.serial = Miriada, !.due = FALSE]]
    BY <1>0, <1>4, <1>s DEF Fetched, HandlerTypes
  <2>5. row \in Rows
    BY <1>0, <1>s DEF HandlerTypes
  <2>6. copy'[Scanner] = With(row, [serial |-> Miriada, due |-> FALSE])
    BY <1>s, <2>4, <2>5, FilledIsWith DEF HandlerTypes
  <2>7. t \in DOMAIN balloons /\ row = balloons[t]
    BY <1>0, <1>s, <2>1 DEF InPlace
  <2>8. InPlace(Scanner)'
    BY <1>0, <2>1, <2>3, <2>6, <2>7 DEF InPlace, Moving
  <2>9. Op(Scanner) = "scan" /\ Op(Scanner)' = "scan"
    BY <2>1, <2>3 DEF Op, Moving
  <2>10. Asked(Scanner)' = Asked(Scanner)
    BY <2>1, <2>9 DEF Asked
  <2>11. Served = {Asked(Scanner)} /\ Served' = {Asked(Scanner)'}
    BY <1>s, <2>3, <2>9 DEF Views
  <2>12. Listed' = Listed
    BY <1>s, <2>1, <2>3 DEF Views, Moving
  <2> QED BY <1>s, <2>3, <2>8, <2>10, <2>11, <2>12 DEF Views, Registered
<1>5. CASE SavePassport
  <2>1. /\ pc[Scanner] = "passport" /\ Put(t, row) /\ Go(Scanner, "passport_signal")
    BY <1>0, <1>5 DEF SavePassport, Save
  <2>2. Handling(Scanner) /\ "passport_signal" \in Labels
    BY <2>1 DEF Handling, Computing, Labels, Unsignalled
  <2>3. Alone(Scanner) /\ Alone(Scanner)' /\ pc'[Scanner] = "passport_signal"
    BY <1>s, <2>1, <2>2, Runs
  <2>4. Op(Scanner) = "scan" /\ Op(Scanner)' = "none"
    BY <2>1, <2>3 DEF Op, Moving
  <2>5. PICK r : r = Asked(Scanner)
    OBVIOUS
  <2>6. r.op = "scan" /\ r.tag = t
    BY <1>0, <2>4, <2>5 DEF Asked
  <2>7. Served = {r} /\ Served' = {}
    BY <1>s, <2>3, <2>4, <2>5 DEF Views
  <2>8. /\ Listed = [u \in DOMAIN balloons |-> balloons[u]]
        /\ Listed' = [u \in DOMAIN balloons' |-> balloons'[u]]
    BY <1>s, <2>1, <2>3 DEF Views, Moving
  <2>9. t \in DOMAIN balloons /\ row = With(balloons[t], [serial |-> Miriada, due |-> FALSE])
    BY <1>0, <1>s, <2>1 DEF InPlace
  <2>10. /\ r.tag \in DOMAIN Listed
         /\ row = With(Listed[r.tag], [serial |-> Miriada, due |-> FALSE])
         /\ Writes(r.tag, row)
    BY <2>1, <2>6, <2>8, <2>9, PutListed
  <2>11. Registered
    BY <2>6, <2>7, <2>10, UpdatedStep
  <2>12. InPlace(Scanner)'
    BY <2>3 DEF InPlace, Moving
  <2> QED BY <1>s, <2>3, <2>11, <2>12 DEF Views
<1>6. CASE Join \/ Record
  <2>1. PICK step \in {"record", "record_signal"} :
          /\ pc[Scanner] \in {"join", "record"} /\ Go(Scanner, step)
          /\ balloons' = balloons /\ UNCHANGED handler
    BY <1>6 DEF Join, Record, tables
  <2>2. Handling(Scanner) /\ step \in Labels
    BY <2>1 DEF Handling, Computing, Labels, Unsignalled
  <2>3. pc'[Scanner] = step
    BY <1>s, <2>1 DEF Go, HandlerTypes
  <2>4. Op(Scanner)' = Op(Scanner)
    BY <2>1, <2>3 DEF Op, Moving
  <2>5. InPlace(Scanner)'
    BY <2>3 DEF InPlace, Moving
  <2>6. pc[Scanner] \notin Moving /\ step \notin Moving
    BY <2>1 DEF Moving
  <2> QED BY <1>s, <2>1, <2>2, <2>4, <2>5, <2>6, Continued
<1> QED BY <1>1, <1>2, <1>3, <1>4, <1>5, <1>6 DEF Pass

\* The first step of a request.
LEMMA BegunRegistered ==
  ASSUME Ordered, Ordered', \A s \in Sessions : InPlace(s), NEW s \in Web,
         \/ \E b \in Bodies : Create(s, b)
         \/ \E t \in Tags, b \in Bodies : Patch(s, t, b) \/ Form(s, t, b)
         \/ \E t \in Tags : DeleteView(s, t)
         \/ SaveBatch(s)
  PROVE  Registered /\ \A r \in Sessions : InPlace(r)'
<1> USE DEF Ordered
<1>s. s \in Sessions
  BY DEF Sessions
<1>1. CASE \E b \in Bodies : Create(s, b)
  <2>1. pc[s] = "idle" /\ Go(s, "create_validate") /\ balloons' = balloons
    BY <1>1 DEF Create, Begin, tables
  <2>2. "create_validate" \in Labels \ ({"idle"} \cup Computing \cup Moving)
    BY DEF Labels, Computing, Moving
  <2>3. InPlace(s)'
    BY <1>s, <2>1 DEF InPlace, Moving, HandlerTypes, Go
  <2> QED BY <1>s, <2>1, <2>2, <2>3, Started
<1>2. ASSUME NEW t \in Tags, NEW b \in Bodies, Patch(s, t, b)
      PROVE  Registered /\ \A r \in Sessions : InPlace(r)'
  <2>1. PICK step \in {"patch_check", "patch_save"} :
          /\ pc[s] = "idle" /\ Go(s, step) /\ balloons' = balloons
          /\ step = "patch_check" => b.tag # t
    BY <1>2 DEF Patch, Begin, tables
  <2>2. step \in Labels \ ({"idle"} \cup Computing \cup Moving)
    BY DEF Labels, Computing, Moving
  <2>3. pc'[s] = step /\ on'[s] = t /\ body'[s] = b /\ copy'[s] = balloons[t]
    BY <1>2, <1>s, <2>1 DEF Patch, HandlerTypes, Go
  <2>4. t \in DOMAIN balloons
    BY <1>2 DEF Patch
  <2>5. step = "patch_check" => b.valid /\ b.tag # NoTag
    BY <1>s, <2>2, <2>3 DEF OneWellFormed, WellFormed, Handling
  <2>6. InPlace(s)'
    BY <2>1, <2>3, <2>4, <2>5 DEF InPlace, Moving
  <2> QED BY <1>s, <2>1, <2>2, <2>6, Started
<1>3. ASSUME NEW t \in Tags, NEW b \in Bodies, Form(s, t, b)
      PROVE  Registered /\ \A r \in Sessions : InPlace(r)'
  <2>1. pc[s] = "idle" /\ Go(s, "form_save") /\ balloons' = balloons
    BY <1>3 DEF Form, Begin, tables
  <2>2. "form_save" \in Labels \ ({"idle"} \cup Computing \cup Moving)
    BY DEF Labels, Computing, Moving
  <2>3. pc'[s] = "form_save" /\ on'[s] = t /\ copy'[s] = balloons[t]
    BY <1>3, <1>s, <2>1 DEF Form, HandlerTypes, Go
  <2>4. t \in DOMAIN balloons
    BY <1>3 DEF Form
  <2>5. InPlace(s)'
    BY <2>1, <2>3, <2>4 DEF InPlace, Moving
  <2> QED BY <1>s, <2>1, <2>2, <2>5, Started
<1>4. CASE (\E t \in Tags : DeleteView(s, t)) \/ SaveBatch(s)
  <2>1. PICK step \in {"delete", "signal"} :
          pc[s] = "idle" /\ Go(s, step) /\ balloons' = balloons
    BY <1>4 DEF DeleteView, SaveBatch, Begin, tables
  <2>2. step \in Labels \ ({"idle"} \cup Computing \cup Moving)
    BY DEF Labels, Computing, Moving, Unsignalled
  <2>3. InPlace(s)'
    BY <1>s, <2>1 DEF InPlace, Moving, HandlerTypes, Go
  <2> QED BY <1>s, <2>1, <2>2, <2>3, Started
<1> QED BY <1>1, <1>2, <1>3, <1>4

\* Lookups, validations, and a deletion before its commit.
LEMMA CheckRegistered ==
  ASSUME Ordered, Ordered', \A s \in Sessions : InPlace(s), NEW s \in Web,
         CreateValidate(s) \/ PatchCheck(s) \/ Delete(s) \/ PatchValidate(s)
  PROVE  Registered /\ \A r \in Sessions : InPlace(r)'
<1> USE DEF Ordered
<1>s. s \in Sessions
  BY DEF Sessions
<1>p. InPlace(s)
  BY <1>s
<1>b. balloons' = balloons
  BY DEF CreateValidate, PatchCheck, Delete, PatchValidate, tables
<1>1. CASE CreateValidate(s)
  <2>1. pc[s] = "create_validate" /\ Handling(s)
    BY <1>1 DEF CreateValidate, Handling, Computing
  <2>2. CASE Go(s, "create_insert") /\ UNCHANGED handler
    <3>1. pc'[s] = "create_insert" /\ "create_insert" \in Labels
      BY <1>s, <2>2 DEF Go, HandlerTypes, Labels
    <3>2. Op(s)' = Op(s) /\ InPlace(s)'
      BY <2>1, <3>1 DEF Op, InPlace, Moving
    <3>3. pc[s] \in Moving <=> "create_insert" \in Moving
      BY <2>1 DEF Moving
    <3> QED BY <1>s, <1>b, <2>1, <2>2, <3>1, <3>2, <3>3, Continued
  <2>3. CASE End(s)
    BY <1>s, <1>b, <2>1, <2>3, Refused DEF Moving
  <2> QED BY <1>1, <2>2, <2>3 DEF CreateValidate
<1>2. CASE PatchCheck(s)
  <2>1. pc[s] = "patch_check" /\ Handling(s)
    BY <1>2 DEF PatchCheck, Handling, Computing
  <2>2. CASE End(s)
    BY <1>s, <1>b, <2>1, <2>2, Refused DEF Moving
  <2>3. CASE Go(s, "patch_delete") /\ UNCHANGED handler /\ body[s].tag \notin DOMAIN balloons
    <3>1. pc'[s] = "patch_delete" /\ "patch_delete" \in Labels
      BY <1>s, <2>3 DEF Go, HandlerTypes, Labels
    <3>2. Op(s)' = Op(s)
      BY <2>1, <3>1 DEF Op, Moving
    <3>3. InPlace(s)'
      BY <1>b, <1>p, <2>1, <2>3, <3>1 DEF InPlace, Moving, handler
    <3>4. pc[s] \in Moving <=> "patch_delete" \in Moving
      BY <2>1 DEF Moving
    <3> QED BY <1>s, <1>b, <2>1, <2>3, <3>1, <3>2, <3>3, <3>4, Continued
  <2>4. body[s].tag # NoTag
    BY <1>p, <2>1 DEF InPlace
  <2> QED BY <1>2, <2>2, <2>3, <2>4 DEF PatchCheck
<1>3. CASE Delete(s)
  <2>1. PICK step \in {"delete_commit", "patch_commit"} :
          /\ pc[s] = (IF step = "delete_commit" THEN "delete" ELSE "patch_delete")
          /\ Go(s, step) /\ UNCHANGED handler
    BY <1>3 DEF Delete
  <2>2. Handling(s) /\ step \in Labels /\ pc[s] \notin Moving /\ step \notin Moving
    BY <2>1 DEF Handling, Computing, Labels, InTransaction, Moving
  <2>3. pc'[s] = step
    BY <1>s, <2>1 DEF Go, HandlerTypes
  <2>4. Op(s)' = Op(s)
    BY <2>1, <2>3 DEF Op, Moving
  <2>5. InPlace(s)'
    BY <1>b, <1>p, <2>1, <2>3 DEF InPlace, Moving, handler
  <2> QED BY <1>s, <1>b, <2>1, <2>2, <2>4, <2>5, Continued
<1>4. CASE PatchValidate(s)
  <2>1. pc[s] = "patch_validate" /\ Handling(s)
    BY <1>4 DEF PatchValidate, Handling, Computing
  <2>2. body[s].valid /\ body[s].tag \notin DOMAIN balloons
    BY <1>p, <2>1 DEF InPlace, Moving
  <2>3. Go(s, "patch_insert") /\ UNCHANGED handler
    BY <1>4, <2>2 DEF PatchValidate
  <2>4. pc'[s] = "patch_insert" /\ "patch_insert" \in Labels
    BY <1>s, <2>3 DEF Go, HandlerTypes, Labels
  <2>5. Op(s)' = Op(s)
    BY <2>1, <2>4 DEF Op, Moving
  <2>6. InPlace(s)'
    BY <1>b, <1>p, <2>1, <2>3, <2>4 DEF InPlace, Moving, handler
  <2>7. pc[s] \in Moving <=> "patch_insert" \in Moving
    BY <2>1 DEF Moving
  <2> QED BY <1>s, <1>b, <2>1, <2>3, <2>4, <2>5, <2>6, <2>7, Continued
<1> QED BY <1>1, <1>2, <1>3, <1>4

\* Insertions and saves.
LEMMA SaveRegistered ==
  ASSUME Ordered, Ordered', \A s \in Sessions : InPlace(s), NEW s \in Web,
         Insert(s) \/ PatchSave(s) \/ FormSave(s)
  PROVE  Registered /\ \A r \in Sessions : InPlace(r)'
<1> USE DEF Ordered
<1>s. s \in Sessions
  BY DEF Sessions
<1>p. InPlace(s)
  BY <1>s
<1>h. Handling(s)
  BY DEF Insert, PatchSave, FormSave, Handling, Computing
<1>0. PICK t, to, fields, row, r :
        /\ t = on[s] /\ to = body[s].tag /\ fields = body[s].fields /\ row = copy[s]
        /\ r = Asked(s)
  OBVIOUS
<1>1. CASE Insert(s) /\ to \in DOMAIN balloons
  <2>1. pc[s] = "create_insert"
    BY <1>0, <1>1, <1>p DEF Insert, InPlace, Moving
  <2>2. End(s) /\ balloons' = balloons
    BY <1>0, <1>1 DEF Insert
  <2> QED BY <1>s, <1>h, <2>1, <2>2, Refused DEF Moving
<1> DEFINE new == IF pc[s] \in {"create_insert", "patch_insert"}
                  THEN With(Default, fields) ELSE With(row, fields)
           place == IF pc[s] \in {"create_insert", "patch_insert"} THEN to ELSE t
<1>2. ASSUME ~(Insert(s) /\ to \in DOMAIN balloons)
      PROVE  /\ pc[s] \in {"create_insert", "patch_insert", "patch_save", "form_save"}
             /\ pc[s] \in {"create_insert", "patch_insert"} => to \notin DOMAIN balloons
             /\ Put(place, new) /\ Go(s, "signal")
  <2>1. CASE Insert(s)
    BY <1>0, <1>2, <2>1 DEF Insert
  <2>2. CASE PatchSave(s)
    BY <1>0, <2>2 DEF PatchSave, Save
  <2>3. CASE FormSave(s)
    <3>1. pc[s] = "form_save"
      BY <2>3 DEF FormSave
    <3>2. to = t
      BY <1>0, <1>h, <1>s, <3>1 DEF OneWellFormed, WellFormed
    <3> QED BY <1>0, <2>3, <3>1, <3>2 DEF FormSave, Save
  <2> QED BY <2>1, <2>2, <2>3
<1> HIDE DEF new, place
<1>3. ASSUME ~(Insert(s) /\ to \in DOMAIN balloons)
      PROVE  Registered /\ \A q \in Sessions : InPlace(q)'
  <2>1. Alone(s) /\ Alone(s)' /\ pc'[s] = "signal"
    BY <1>2, <1>3, <1>h, <1>s, Runs DEF Labels, Unsignalled
  <2>2. Op(s)' = "none" /\ pc'[s] \notin Moving /\ InPlace(s)'
    BY <2>1 DEF Op, Moving, InPlace
  <2>3. Served' = {} /\ Listed' = [u \in DOMAIN balloons' |-> balloons'[u]]
    BY <1>s, <2>1, <2>2 DEF Views
  <2>4. \A q \in Sessions : InPlace(q)'
    BY <1>s, <2>1, <2>2 DEF Views
  <2>5. Op(s) # "none"
    BY <1>2, <1>3 DEF Op, Moving
  <2>6. Served = {r}
    BY <1>0, <1>s, <2>1, <2>5 DEF Views
  <2>7. r.fields = fields /\ r.to = to
    BY <1>0 DEF Asked
  <2>8. CASE pc[s] = "create_insert"
    <3>1. r.op = "create" /\ r.tag = to
      BY <1>0, <2>8 DEF Asked, Op, Moving
    <3>2. Listed = [u \in DOMAIN balloons |-> balloons[u]]
      BY <1>s, <2>1, <2>8 DEF Views, Moving
    <3>3. Put(to, new) /\ new = With(Default, r.fields) /\ to \notin DOMAIN balloons
      BY <1>2, <1>3, <2>7, <2>8 DEF new, place
    <3>4. r.tag \notin DOMAIN Listed /\ Writes(r.tag, new)
      BY <2>3, <3>1, <3>2, <3>3, PutListed
    <3>5. Registered
      BY <2>3, <2>6, <3>1, <3>3, <3>4, CreatedStep
    <3> QED BY <2>4, <3>5
  <2>9. CASE pc[s] \in {"patch_save", "form_save"}
    <3>1. r.op = "edit" /\ r.tag = t
      BY <1>0, <2>9 DEF Asked, Op, Moving
    <3>2. Listed = [u \in DOMAIN balloons |-> balloons[u]]
      BY <1>s, <2>1, <2>9 DEF Views, Moving
    <3>3. t \in DOMAIN balloons /\ row = balloons[t]
      BY <1>0, <1>p, <2>9 DEF InPlace
    <3>4. Put(t, new) /\ new = With(row, r.fields)
      BY <1>2, <1>3, <2>7, <2>9 DEF new, place
    <3>5. r.tag \in DOMAIN Listed /\ row = Listed[r.tag] /\ Writes(r.tag, new)
      BY <2>3, <3>1, <3>2, <3>3, <3>4, PutListed
    <3>6. Registered
      BY <2>3, <2>6, <3>1, <3>4, <3>5, EditedStep
    <3> QED BY <2>4, <3>6
  <2>10. CASE pc[s] = "patch_insert"
    <3>1. r.op = "retag" /\ r.tag = t
      BY <1>0, <2>10 DEF Asked, Op, Moving
    <3>2. Listed = WithOld(balloons, t, row)
      BY <1>0, <1>s, <2>1, <2>10 DEF Views, Moving
    <3>3. t \notin DOMAIN balloons /\ to \notin DOMAIN balloons /\ to # t
      BY <1>0, <1>p, <2>10 DEF InPlace, Moving
    <3>4. Put(to, new) /\ new = With(Default, r.fields)
      BY <1>2, <1>3, <2>7, <2>10 DEF new, place
    <3>5. /\ DOMAIN Listed = DOMAIN balloons \cup {t}
          /\ \A u \in DOMAIN balloons : Listed[u] = balloons[u]
      BY <3>2 DEF WithOld
    <3>6. (DOMAIN Listed \ {t}) \cup {to} = DOMAIN balloons \cup {to}
      BY <3>3, <3>5
    <3>7. balloons' = [u \in DOMAIN balloons \cup {to} |-> IF u = to THEN new ELSE balloons[u]]
      BY <3>4 DEF Put
    <3>8. Listed' = [u \in DOMAIN balloons \cup {to} |-> IF u = to THEN new ELSE balloons[u]]
      BY <2>3, <3>7
    <3>9. Listed' = [u \in (DOMAIN Listed \ {r.tag}) \cup {r.to} |->
                       IF u = r.to THEN new ELSE Listed[u]]
      BY <2>7, <3>1, <3>5, <3>6, <3>8
    <3>10. r.tag \in DOMAIN Listed /\ r.to \notin DOMAIN Listed
      BY <2>7, <3>1, <3>3, <3>5
    <3>11. Registered
      BY <2>3, <2>6, <3>1, <3>4, <3>9, <3>10, RetaggedStep
    <3> QED BY <2>4, <3>11
  <2> QED BY <1>2, <1>3, <2>8, <2>9, <2>10
<1> QED BY <1>1, <1>3

\* The commit of a deletion takes the balloon off the list, or begins its change of tag.
LEMMA DeletedRegistered ==
  ASSUME Ordered, Ordered', \A s \in Sessions : InPlace(s), NEW s \in Web, Deleted(s)
  PROVE  Registered /\ \A r \in Sessions : InPlace(r)'
<1> USE DEF Ordered
<1>s. s \in Sessions
  BY DEF Sessions
<1>p. InPlace(s)
  BY <1>s
<1>h. Handling(s)
  BY DEF Deleted, Handling, Computing
<1>0. PICK t, row, r : t = on[s] /\ row = copy[s] /\ r = Asked(s)
  OBVIOUS
<1>1. balloons' = [u \in DOMAIN balloons \ {t} |-> balloons[u]]
  BY <1>0 DEF Deleted, Discard
<1>2. pc[s] \notin Moving
  BY DEF Deleted, Moving
<1>3. CASE pc[s] = "delete_commit"
  <2>1. End(s)
    BY <1>3 DEF Deleted
  <2>2. Alone(s) /\ Alone(s)' /\ pc'[s] = "idle"
    BY <1>h, <1>s, <2>1, Runs DEF End, Labels
  <2>3. Op(s) = "delete" /\ Op(s)' = "none" /\ pc'[s] \notin Moving /\ InPlace(s)'
    BY <1>3, <2>2 DEF Op, Moving, InPlace
  <2>4. Served = {r} /\ Served' = {} /\ \A q \in Sessions : InPlace(q)'
    BY <1>0, <1>s, <2>2, <2>3 DEF Views
  <2>5. /\ Listed = [u \in DOMAIN balloons |-> balloons[u]]
        /\ Listed' = [u \in DOMAIN balloons' |-> balloons'[u]]
    BY <1>2, <1>s, <2>2, <2>3 DEF Views
  <2>6. r.op = "delete" /\ r.tag = t
    BY <1>0, <2>3 DEF Asked
  <2>7. Listed' = [u \in DOMAIN Listed \ {r.tag} |-> Listed[u]]
    <3>1. DOMAIN Listed = DOMAIN balloons /\ \A u \in DOMAIN balloons : Listed[u] = balloons[u]
      BY <2>5
    <3>2. DOMAIN balloons' = DOMAIN Listed \ {r.tag}
      BY <1>1, <2>6, <3>1
    <3>3. \A u \in DOMAIN balloons' : balloons'[u] = Listed[u]
      BY <1>1, <3>1
    <3> QED BY <2>5, <3>2, <3>3
  <2>8. Registered
    BY <2>4, <2>6, <2>7, DeletedStep
  <2> QED BY <2>4, <2>8
<1>4. CASE pc[s] = "patch_commit"
  <2>1. Go(s, "patch_validate") /\ UNCHANGED handler
    BY <1>4 DEF Deleted
  <2>2. Alone(s) /\ Alone(s)' /\ pc'[s] = "patch_validate"
    BY <1>h, <1>s, <2>1, Runs DEF Labels
  <2>3. Op(s) = "retag" /\ Op(s)' = "retag"
    BY <1>4, <2>2 DEF Op, Moving
  <2>4. on' = on /\ body' = body /\ copy' = copy
    BY <2>1 DEF handler
  <2>5. Asked(s)' = Asked(s)
    BY <2>3, <2>4 DEF Asked
  <2>6. Served = {Asked(s)} /\ Served' = {Asked(s)'}
    BY <1>s, <2>2, <2>3 DEF Views
  <2>7. t \in DOMAIN balloons /\ row = balloons[t]
    BY <1>0, <1>4, <1>p DEF InPlace
  <2>8. Listed = [u \in DOMAIN balloons |-> balloons[u]]
    BY <1>2, <1>s, <2>2 DEF Views
  <2>9. pc'[s] \in Moving /\ t = on'[s] /\ row = copy'[s]
    BY <1>0, <2>2, <2>4 DEF Moving
  <2>10. Listed' = WithOld(balloons', t, row)
    BY <1>s, <2>2, <2>9 DEF Views
  <2>11. Listed' = Listed
    <3>1. DOMAIN balloons' = DOMAIN balloons \ {t}
      BY <1>1
    <3>2. DOMAIN balloons' \cup {t} = DOMAIN balloons
      BY <2>7, <3>1
    <3>3. \A u \in DOMAIN balloons :
             (IF u \in DOMAIN balloons' THEN balloons'[u] ELSE row) = balloons[u]
      BY <1>1, <2>7, <3>1
    <3> QED BY <2>8, <2>10, <3>2, <3>3 DEF WithOld
  <2>12. /\ body[s].valid /\ body[s].tag \notin {NoTag, on[s]}
         /\ body[s].tag \notin DOMAIN balloons
    BY <1>4, <1>p DEF InPlace
  <2>13. /\ body'[s].valid /\ body'[s].tag \notin {NoTag, on'[s]}
         /\ body'[s].tag \notin DOMAIN balloons' /\ on'[s] \notin DOMAIN balloons'
    BY <1>0, <1>1, <2>4, <2>12
  <2>14. InPlace(s)'
    BY <2>2, <2>13 DEF InPlace
  <2> QED BY <1>s, <2>2, <2>5, <2>6, <2>11, <2>14 DEF Views, Registered
<1> QED BY <1>3, <1>4 DEF Deleted

\* A signal changes no row.
LEMMA SignalRegistered ==
  ASSUME Ordered, Ordered', \A s \in Sessions : InPlace(s), NEW s \in Sessions, Signal(s)
  PROVE  Registered /\ \A r \in Sessions : InPlace(r)'
<1> USE DEF Ordered
<1>1. /\ pc[s] \in Unsignalled /\ Handling(s) /\ pc[s] \notin Moving
      /\ balloons' = balloons
  BY DEF Signal, Unsignalled, Handling, Computing, Moving, tables
<1>2. CASE Go(s, "join") /\ UNCHANGED handler
  <2>1. pc'[s] = "join" /\ "join" \in Labels
    BY <1>2 DEF Go, HandlerTypes, Labels
  <2>2. Op(s)' = Op(s) /\ InPlace(s)'
    BY <1>1, <2>1 DEF Op, InPlace, Moving, Unsignalled
  <2>3. pc[s] \in Moving <=> "join" \in Moving
    BY <1>1 DEF Moving
  <2> QED BY <1>1, <1>2, <2>1, <2>2, <2>3, Continued
<1>3. CASE End(s)
  BY <1>1, <1>3, Refused
<1> QED BY <1>2, <1>3 DEF Signal

\* Every step of an orderly behaviour is one of the registry or changes nothing there.
LEMMA RegistryStep ==
  ASSUME TypeInv, OrderlyInv, Views, Views', [OrderlyNext]_<<vars, orderly>>
  PROVE  OrderlyInv' /\ [Registry!Next]_<<IF orderly THEN Listed ELSE <<>>,
                                          IF orderly THEN Served ELSE {}>>
<1>t. HandlerTypes /\ HandlerTypes'
  <2>1. CASE OrderlyNext /\ Work
    BY <2>1, HandlersKept DEF TypeInv, Next
  <2>2. CASE OrderlyNext /\ Next
    BY <2>2, HandlersKept DEF TypeInv
  <2>3. CASE UNCHANGED vars
    BY <2>3 DEF TypeInv, vars, handler, HandlerTypes
  <2> QED BY <2>1, <2>2, <2>3 DEF OrderlyNext, TypeInv
<1>1. CASE ~orderly
  <2>1. orderly' = orderly
    BY DEF OrderlyNext
  <2> QED BY <1>1, <2>1 DEF OrderlyInv
<1>2. CASE orderly /\ UNCHANGED <<vars, orderly>>
  <2>1. OneWellFormed' /\ \A s \in Sessions : InPlace(s)'
    BY <1>2 DEF OrderlyInv, OneWellFormed, WellFormed, Handling, InPlace, RowOf, vars, tables,
                handler
  <2>2. Registered
    BY <1>2, <2>1, <1>t, Quiet DEF OrderlyInv, vars, tables
  <2> QED BY <1>2, <2>1, <2>2 DEF OrderlyInv, Registered
<1>3. CASE orderly /\ OrderlyNext
  <2>1. Work /\ OneWellFormed' /\ orderly'
    BY <1>3 DEF OrderlyNext
  <2>2. Ordered /\ Ordered' /\ \A s \in Sessions : InPlace(s)
    BY <1>3, <1>t, <2>1 DEF Ordered, OrderlyInv
  <2>3. ASSUME NEW s \in Web, Request(s)
        PROVE  Registered /\ \A r \in Sessions : InPlace(r)'
    BY <2>2, <2>3, BegunRegistered, CheckRegistered, SaveRegistered, DeletedRegistered
       DEF Request
  <2>4. ASSUME (\E s \in Web : Statistic(s)) \/ Expire \/ ChangeSilently
        PROVE  Registered /\ \A r \in Sessions : InPlace(r)'
    <3>1. /\ balloons' = balloons /\ handler' = handler
      BY <2>4 DEF Statistic, Miss, Compute, Query, Store, Expire, ChangeSilently, tables
    <3>2. ASSUME NEW s \in Web, Statistic(s), NEW r \in Sessions
          PROVE  pc'[r] = pc[r] \/ {pc[r], pc'[r]} \subseteq {"idle"} \cup Computing
      BY <1>t, <3>2 DEF Statistic, Miss, Begin, Compute, Query, Store, Go, Computing,
                        HandlerTypes
    <3>3. \A r \in Sessions :
             pc'[r] = pc[r] \/ {pc[r], pc'[r]} \subseteq {"idle"} \cup Computing
      <4>1. CASE \E s \in Web : Statistic(s)
        BY <3>2, <4>1
      <4>2. CASE Expire \/ ChangeSilently
        <5>1. pc' = pc
          BY <4>2 DEF Expire, ChangeSilently
        <5> QED BY <5>1
      <4> QED BY <2>4, <4>1, <4>2
    <3> QED BY <2>2, <3>1, <3>3, Quiet DEF Ordered
  <2>5. ASSUME Pass
        PROVE  Registered /\ \A r \in Sessions : InPlace(r)'
    BY <2>2, <2>5, PassRegistered
  <2>6. ASSUME NEW s \in Sessions, Signal(s)
        PROVE  Registered /\ \A r \in Sessions : InPlace(r)'
    BY <2>2, <2>6, SignalRegistered
  <2>7. Registered /\ \A r \in Sessions : InPlace(r)'
    BY <2>1, <2>3, <2>4, <2>5, <2>6 DEF Work
  <2> QED BY <1>3, <2>1, <2>7 DEF OrderlyInv, Registered
<1> QED BY <1>1, <1>2, <1>3

\* Requests on balloons that do not overlap are atomic: whatever statements a creation, an
\* edit, a change of tag, a deletion or a pass is made of, it takes effect at once, on the
\* balloon it names and as the client said, or is refused without a trace.
THEOREM RegistryCorrect == OrderlySpec => ImplementsRegistry
<1>1. OrderlySpec => Spec
  <2>1. OrderlyInit => Init
    BY DEF OrderlyInit
  <2>2. [OrderlyNext]_<<vars, orderly>> => [Next]_vars
    BY DEF OrderlyNext, Next
  <2> QED BY <2>1, <2>2, PTL DEF OrderlySpec, Spec
<1>2. OrderlyInit => OrderlyInv /\ Registry!Init
  <2> SUFFICES ASSUME OrderlyInit PROVE OrderlyInv /\ Registry!Init
    OBVIOUS
  <2>1. \A s \in Sessions : pc[s] = "idle" /\ Op(s) = "none"
    BY DEF OrderlyInit, Init, Op, Moving
  <2>2. Served = {}
    BY <2>1 DEF Served
  <2>3. OrderlyInv
    BY <2>1 DEF OrderlyInv, OneWellFormed, Handling, InPlace, Moving
  <2> QED BY <2>2, <2>3 DEF Registry!Init
<1>3. TypeInv /\ OrderlyInv /\ Views /\ Views' /\ [OrderlyNext]_<<vars, orderly>>
        => OrderlyInv' /\ [Registry!Next]_<<IF orderly THEN Listed ELSE <<>>,
                                            IF orderly THEN Served ELSE {}>>
  BY RegistryStep
<1> QED BY <1>1, <1>2, <1>3, TypeInvariant, ViewsHold, PTL
        DEF OrderlySpec, ImplementsRegistry, Registry!Spec
=============================================================================
