------------------------------ MODULE Balloons ------------------------------
(***************************************************************************)
(* The table of balloons and the cached statistics of the station: the     *)
(* handlers of the balloon API and of the web pages, the RFID pass that    *)
(* fetches a passport from Miriada, and the signals that drop the          *)
(* statistics.  One step is one statement of a handler that reads or       *)
(* writes PostgreSQL, Redis or Miriada.                                    *)
(*                                                                         *)
(* save() and create() are committed before their signal; the signal of    *)
(* update_or_create and of delete() runs inside their transaction.         *)
(***************************************************************************)
EXTENDS Integers, FiniteSets

CONSTANTS
    Tags,           \* NFC tags
    NoTag,          \* the tag of a request that sends none, and of the row it makes
    NoSerial,       \* the passport columns are empty
    Miriada,        \* what Miriada knows of a balloon
    Web,            \* web requests served at a time
    Scanner,        \* the service thread of the RFID server
    Known,          \* bound: balloons in the table at the start
    Bodies,         \* bound: bodies of requests
    ReaderKinds,    \* bound: kinds of status the readers set
    Retries,        \* MIRIADA_REQUEST_RETRIES
    MaxRequests,    \* bound: requests and passes
    MaxSilent       \* bound: changes no signal tells of

Sessions == Web \cup {Scanner}
Keys == Tags \cup {NoTag}
Kinds == {"full", "empty", "other"}     \* what get_balloons_stats tells apart

ASSUME BalloonsAssumption ==
    /\ NoTag \notin Tags /\ Scanner \notin Web
    /\ Known \subseteq SUBSET Tags /\ ReaderKinds \subseteq Kinds
    /\ Retries \in Nat /\ MaxRequests \in Nat /\ MaxSilent \in Nat
    /\ IsFiniteSet(Tags)
    /\ \A b \in Bodies :
          /\ b.tag \in Keys /\ b.valid \in BOOLEAN
          /\ DOMAIN b.fields \subseteq {"serial", "due", "kind"}
          /\ "due" \in DOMAIN b.fields => b.fields.due \in BOOLEAN
          /\ "kind" \in DOMAIN b.fields => b.fields.kind \in Kinds

VARIABLES
    balloons,   \* the table: a function of the tags that have a row
    passes,     \* rows of the reader table
    batches,    \* batches of balloons
    silent,     \* changes of the day and of ReaderSettings
    statistic,  \* the key get_balloon_statistic: a set with at most one value
    outdated,   \* whether it may differ from the tables (history)
    pc, on, body, copy,     \* of a handler: its place, tag, request and instance
    got, raced,             \* the statistics it computes, and whether something changed
    attempt,    \* request to Miriada
    requests

tables == <<balloons, passes, batches, silent>>
cache == <<statistic, outdated>>
handler == <<on, body, copy>>
fill == <<got, raced>>
vars == <<tables, cache, pc, handler, fill, attempt, requests>>

\* Values of the columns left alone by a request; update_passport_required is due.
Default == [serial |-> NoSerial, due |-> TRUE, kind |-> "other"]

With(row, fields) ==
    [c \in DOMAIN row |-> IF c \in DOMAIN fields THEN fields[c] ELSE row[c]]

NoBody == [tag |-> NoTag, fields |-> [c \in {} |-> TRUE], valid |-> TRUE]
Nothing == [readers |-> <<0, 0>>, batches |-> 0, full |-> 0, empty |-> 0]

Init ==
    /\ \E known \in Known :
         balloons = [t \in known |-> [serial |-> Miriada, due |-> FALSE, kind |-> "full"]]
    /\ passes = 0 /\ batches = 0 /\ silent = 0
    /\ statistic = {} /\ outdated = FALSE
    /\ pc = [s \in Sessions |-> "idle"]
    /\ on = [s \in Sessions |-> NoTag]
    /\ body = [s \in Sessions |-> NoBody]
    /\ copy = [s \in Sessions |-> Default]
    /\ got = [s \in Sessions |-> Nothing]
    /\ raced = [s \in Sessions |-> FALSE]
    /\ attempt = 0 /\ requests = 0

----------------------------------------------------------------------------
(* Statements.                                                             *)

Go(s, step) == pc' = [pc EXCEPT ![s] = step]

Begin(s, step) ==
    /\ pc[s] = "idle"
    /\ requests < MaxRequests
    /\ requests' = requests + 1
    /\ Go(s, step)

\* The end of a handler, with whatever answer; its local variables are gone.
Clear(s) ==
    /\ on' = [on EXCEPT ![s] = NoTag]
    /\ body' = [body EXCEPT ![s] = NoBody]
    /\ copy' = [copy EXCEPT ![s] = Default]

End(s) == Go(s, "idle") /\ Clear(s)

Computing == {"readers", "batches", "full", "empty", "store"}
InTransaction == {"upsert", "delete_commit", "patch_commit"}
Unsignalled == {"signal", "passport_signal", "record_signal"}
Labels == {"idle", "fetch", "passport", "join", "record", "form_save", "create_validate",
           "create_insert", "delete", "patch_check", "patch_delete", "patch_validate",
           "patch_insert", "patch_save"} \cup Computing \cup InTransaction \cup Unsignalled

\* A row written in a transaction that is not committed; others that write it wait.
Free(t) == \A s \in Sessions : ~(pc[s] \in InTransaction /\ on[s] = t)

\* A change of the tables while statistics are computed.
Touch ==
    /\ raced' = [s \in Sessions |-> raced[s] \/ pc[s] \in Computing]
    /\ UNCHANGED <<got, cache>>

Put(t, row) ==
    balloons' = [u \in DOMAIN balloons \cup {t} |-> IF u = t THEN row ELSE balloons[u]]

Discard(t) == balloons' = [u \in DOMAIN balloons \ {t} |-> balloons[u]]

\* Model.save: UPDATE, and INSERT when the row is gone.
Save(t, row) == Free(t) /\ Put(t, row) /\ Touch

\* clear_balloon_statistic_cache.
clear_balloon_statistic_cache == statistic' = {} /\ outdated' = FALSE

----------------------------------------------------------------------------
(* Signals and failures.                                                   *)

\* Seeded fault: the reader table has no receiver.
Signal_NotOfReader(s) ==
    /\ pc[s] \in Unsignalled
    /\ IF pc[s] = "record_signal" THEN UNCHANGED cache ELSE clear_balloon_statistic_cache
    /\ IF pc[s] = "passport_signal" THEN Go(s, "join") /\ UNCHANGED handler ELSE End(s)
    /\ UNCHANGED <<tables, fill, attempt, requests>>

\* post_save of save() and create().
Signal(s) ==
    /\ pc[s] \in Unsignalled
    /\ clear_balloon_statistic_cache
    /\ IF pc[s] = "passport_signal" THEN Go(s, "join") /\ UNCHANGED handler ELSE End(s)
    /\ UNCHANGED <<tables, fill, attempt, requests>>

\* An error of PostgreSQL or Redis, or the end of the process: a transaction is rolled
\* back, a signal not sent.
Fail(s) ==
    /\ pc[s] # "idle"
    /\ End(s)
    /\ outdated' = (outdated \/ (pc[s] \in Unsignalled /\ statistic # {}))
    /\ got' = [got EXCEPT ![s] = Nothing] /\ raced' = [raced EXCEPT ![s] = FALSE]
    /\ attempt' = IF s = Scanner THEN 0 ELSE attempt
    /\ UNCHANGED <<tables, statistic, requests>>

----------------------------------------------------------------------------
(* processing_request_with_nfc, the part that touches balloons.            *)

\* update_or_create locks the row, writes the status and sends the signal.
Scan(t, kind) ==
    LET row == IF t \in DOMAIN balloons THEN balloons[t] ELSE Default
    IN /\ Begin(Scanner, "upsert")
       /\ Free(t)
       /\ on' = [on EXCEPT ![Scanner] = t]
       /\ copy' = [copy EXCEPT ![Scanner] = With(row, [kind |-> kind])]
       /\ clear_balloon_statistic_cache
       /\ UNCHANGED <<tables, body, fill, attempt>>

\* Its commit; readers 1, 6, 7 and 8 fetch the passport whether it is due or not.
Upserted ==
    /\ pc[Scanner] = "upsert"
    /\ Put(on[Scanner], copy[Scanner])
    /\ Touch
    /\ Go(Scanner, "fetch") \/ (~copy[Scanner].due /\ Go(Scanner, "join"))
    /\ UNCHANGED <<passes, batches, silent, handler, attempt, requests>>

\* Seeded fault: the flag is lowered whether Miriada answered or not.
FetchFails_FlagLowered ==
    /\ pc[Scanner] = "fetch"
    /\ Go(Scanner, "passport")
    /\ copy' = [copy EXCEPT ![Scanner].due = FALSE]
    /\ attempt' = 0
    /\ UNCHANGED <<tables, cache, on, body, fill, requests>>

\* Seeded fault: the attempts are counted from one too far.
FetchFails_OneMore ==
    /\ pc[Scanner] = "fetch"
    /\ \/ attempt <= Retries /\ attempt' = attempt + 1 /\ UNCHANGED <<pc, handler>>
       \/ attempt' = 0 /\ End(Scanner)
    /\ UNCHANGED <<tables, cache, fill, requests>>

\* get_balloon_data_from_miriada: another attempt, or an error of the last one or one
\* of a kind that is not retried; it ends the pass before the batch.
FetchFails ==
    /\ pc[Scanner] = "fetch"
    /\ \/ attempt < Retries /\ attempt' = attempt + 1 /\ UNCHANGED <<pc, handler>>
       \/ attempt' = 0 /\ End(Scanner)
    /\ UNCHANGED <<tables, cache, fill, requests>>

\* update_balloon_passport fills the instance read by update_or_create ...
Fetched ==
    /\ pc[Scanner] = "fetch"
    /\ copy' = [copy EXCEPT ![Scanner].serial = Miriada, ![Scanner].due = FALSE]
    /\ attempt' = 0
    /\ Go(Scanner, "passport")
    /\ UNCHANGED <<tables, cache, on, body, fill, requests>>

\* ... and saves all of its columns.
SavePassport ==
    /\ pc[Scanner] = "passport"
    /\ Save(on[Scanner], copy[Scanner])
    /\ Go(Scanner, "passport_signal")
    /\ UNCHANGED <<passes, batches, silent, handler, attempt, requests>>

\* add_balloon_to_batch: a batch that takes the balloon is saved, with its signal.
Join ==
    /\ pc[Scanner] = "join"
    /\ UNCHANGED cache \/ clear_balloon_statistic_cache
    /\ Go(Scanner, "record")
    /\ UNCHANGED <<tables, handler, fill, attempt, requests>>

\* add_balloon_to_reader_table.
Record ==
    /\ pc[Scanner] = "record"
    /\ passes' = passes + 1 /\ Touch
    /\ Go(Scanner, "record_signal")
    /\ UNCHANGED <<balloons, batches, silent, handler, attempt, requests>>

----------------------------------------------------------------------------
(* The balloon API and the web pages.                                      *)

\* create: the tag is looked up (409), ...
Create(s, b) ==
    /\ Begin(s, "create_validate")
    /\ b.tag \notin DOMAIN balloons
    /\ body' = [body EXCEPT ![s] = b]
    /\ UNCHANGED <<tables, cache, on, copy, fill, attempt>>

\* ... looked up again by the validation, which also asks for a tag (400), ...
CreateValidate(s) ==
    /\ pc[s] = "create_validate"
    /\ IF body[s].valid /\ body[s].tag \notin DOMAIN balloons \cup {NoTag}
       THEN Go(s, "create_insert") /\ UNCHANGED handler
       ELSE End(s)
    /\ UNCHANGED <<tables, cache, fill, attempt, requests>>

\* INSERT, or an IntegrityError when another handler was faster.
Insert(s) ==
    LET t == body[s].tag
    IN /\ pc[s] \in {"create_insert", "patch_insert"}
       /\ Free(t)
       /\ IF t \in DOMAIN balloons
          THEN End(s) /\ UNCHANGED <<balloons, fill, cache>>
          ELSE /\ Put(t, With(Default, body[s].fields)) /\ Touch
               /\ Go(s, "signal") /\ UNCHANGED handler
       /\ UNCHANGED <<passes, batches, silent, attempt, requests>>

\* partial_update: the balloon is read; a body with its own tag edits it (400 when it is
\* not valid).
Patch(s, t, b) ==
    /\ t \in DOMAIN balloons
    /\ Begin(s, IF b.tag # t THEN "patch_check" ELSE "patch_save")
    /\ b.tag = t => b.valid
    /\ on' = [on EXCEPT ![s] = t]
    /\ body' = [body EXCEPT ![s] = b]
    /\ copy' = [copy EXCEPT ![s] = balloons[t]]
    /\ UNCHANGED <<tables, cache, fill, attempt>>

\* All columns of the instance are saved.
PatchSave(s) ==
    /\ pc[s] = "patch_save"
    /\ Save(on[s], With(copy[s], body[s].fields))
    /\ Go(s, "signal")
    /\ UNCHANGED <<passes, batches, silent, handler, attempt, requests>>

\* Seeded fault: the balloon is deleted before the new tag is looked up.
PatchCheck_AfterDelete(s) ==
    /\ pc[s] = "patch_check"
    /\ Discard(on[s]) /\ Touch
    /\ IF body[s].tag \in DOMAIN balloons THEN End(s)
       ELSE Go(s, "patch_validate") /\ UNCHANGED handler
    /\ UNCHANGED <<passes, batches, silent, attempt, requests>>

\* Another tag: it must have no row (400); the lookup of a tag that was not sent finds
\* none.
PatchCheck(s) ==
    /\ pc[s] = "patch_check"
    /\ IF body[s].tag \in DOMAIN balloons /\ body[s].tag # NoTag THEN End(s)
       ELSE Go(s, "patch_delete") /\ UNCHANGED handler
    /\ UNCHANGED <<tables, cache, fill, attempt, requests>>

\* delete(): the row, its place in the batches, and the signal; then the commit.
Delete(s) ==
    /\ pc[s] \in {"delete", "patch_delete"}
    /\ Free(on[s])
    /\ Go(s, IF pc[s] = "delete" THEN "delete_commit" ELSE "patch_commit")
    /\ clear_balloon_statistic_cache
    /\ UNCHANGED <<tables, handler, fill, attempt, requests>>

\* The deletion takes effect; a change of tag goes on with the new row.
Deleted(s) ==
    /\ pc[s] \in {"delete_commit", "patch_commit"}
    /\ Discard(on[s]) /\ Touch
    /\ IF pc[s] = "delete_commit" THEN End(s)
       ELSE Go(s, "patch_validate") /\ UNCHANGED handler
    /\ UNCHANGED <<passes, batches, silent, attempt, requests>>

\* The body is validated when the old row is gone; no tag is asked for.
PatchValidate(s) ==
    /\ pc[s] = "patch_validate"
    /\ IF body[s].valid /\ (body[s].tag = NoTag \/ body[s].tag \notin DOMAIN balloons)
       THEN Go(s, "patch_insert") /\ UNCHANGED handler
       ELSE End(s)
    /\ UNCHANGED <<tables, cache, fill, attempt, requests>>

\* BalloonUpdateView: the form sends every column, the tag included, ...
Form(s, t, b) ==
    /\ t \in DOMAIN balloons
    /\ b.tag # NoTag /\ b.valid /\ DOMAIN b.fields = DOMAIN Default
    /\ Begin(s, "form_save")
    /\ on' = [on EXCEPT ![s] = t]
    /\ body' = [body EXCEPT ![s] = b]
    /\ copy' = [copy EXCEPT ![s] = balloons[t]]
    /\ UNCHANGED <<tables, cache, fill, attempt>>

\* ... and saves it under the tag it has by then; the old row stays.
FormSave(s) ==
    /\ pc[s] = "form_save"
    /\ Save(body[s].tag, With(copy[s], body[s].fields))
    /\ Go(s, "signal")
    /\ UNCHANGED <<passes, batches, silent, handler, attempt, requests>>

\* BalloonDeleteView.
DeleteView(s, t) ==
    /\ t \in DOMAIN balloons
    /\ Begin(s, "delete")
    /\ on' = [on EXCEPT ![s] = t]
    /\ UNCHANGED <<tables, cache, body, copy, fill, attempt>>

\* A batch is created.
SaveBatch(s) ==
    /\ Begin(s, "signal")
    /\ batches' = batches + 1 /\ Touch
    /\ UNCHANGED <<balloons, passes, silent, handler, attempt>>

----------------------------------------------------------------------------
(* get_statistic.                                                          *)

Count(kind) == Cardinality({t \in DOMAIN balloons : balloons[t].kind = kind})

\* What the tables say.
Current == [readers |-> <<passes, silent>>, batches |-> batches,
            full |-> Count("full"), empty |-> Count("empty")]

\* The key is missing: the statistics are computed, table by table.
Miss(s) ==
    /\ Begin(s, "readers")
    /\ statistic = {}
    /\ UNCHANGED <<tables, cache, handler, fill, attempt>>

Query(s, table, next) ==
    /\ pc[s] = table
    /\ got' = [got EXCEPT ![s][table] = Current[table]]
    /\ Go(s, next)
    /\ UNCHANGED <<tables, cache, handler, raced, attempt, requests>>

Compute(s) ==
    \/ Query(s, "readers", "batches") \/ Query(s, "batches", "full")
    \/ Query(s, "full", "empty") \/ Query(s, "empty", "store")

\* cache.set, for ten minutes.
Store(s) ==
    /\ pc[s] = "store"
    /\ statistic' = {got[s]}
    /\ outdated' = (raced[s] \/ \E r \in Sessions : pc[r] \in InTransaction)
    /\ got' = [got EXCEPT ![s] = Nothing] /\ raced' = [raced EXCEPT ![s] = FALSE]
    /\ Go(s, "idle")
    /\ UNCHANGED <<tables, handler, attempt, requests>>

Expire ==
    /\ statistic # {}
    /\ clear_balloon_statistic_cache
    /\ UNCHANGED <<tables, pc, handler, fill, attempt, requests>>

\* Midnight, or an edit of ReaderSettings: no signal is connected to either.
ChangeSilently ==
    /\ silent < MaxSilent
    /\ silent' = silent + 1
    /\ raced' = [s \in Sessions |-> raced[s] \/ pc[s] \in Computing]
    /\ outdated' = (outdated \/ statistic # {})
    /\ UNCHANGED <<balloons, passes, batches, statistic, pc, handler, got, attempt, requests>>

----------------------------------------------------------------------------

Pass ==
    \/ \E t \in Tags, kind \in ReaderKinds : Scan(t, kind)
    \/ Upserted \/ FetchFails \/ Fetched \/ SavePassport \/ Join \/ Record

Request(s) ==
    \/ \E b \in Bodies : Create(s, b)
    \/ \E t \in Tags, b \in Bodies : Patch(s, t, b) \/ Form(s, t, b)
    \/ \E t \in Tags : DeleteView(s, t)
    \/ SaveBatch(s)
    \/ CreateValidate(s) \/ Insert(s) \/ PatchSave(s) \/ PatchCheck(s)
    \/ Delete(s) \/ Deleted(s) \/ PatchValidate(s) \/ FormSave(s)

Statistic(s) == Miss(s) \/ Compute(s) \/ Store(s)

Work ==
    \/ Pass
    \/ \E s \in Web : Request(s) \/ Statistic(s)
    \/ \E s \in Sessions : Signal(s)
    \/ Expire \/ ChangeSilently

Next == Work \/ \E s \in Sessions : Fail(s)

Spec == Init /\ [][Next]_vars

----------------------------------------------------------------------------
(* Properties.                                                             *)

Typed == {b.fields.serial : b \in {b \in Bodies : "serial" \in DOMAIN b.fields}}
Rows == [serial : {NoSerial, Miriada} \cup Typed, due : BOOLEAN, kind : Kinds]
Statistics == [readers : (0..MaxRequests) \X (0..MaxSilent), batches : 0..MaxRequests,
               full : 0..Cardinality(Keys), empty : 0..Cardinality(Keys)]

TableTypes ==
    /\ DOMAIN balloons \subseteq Keys /\ \A t \in DOMAIN balloons : balloons[t] \in Rows
    /\ passes \in 0..MaxRequests /\ batches \in 0..MaxRequests /\ silent \in 0..MaxSilent

CacheTypes ==
    /\ statistic \subseteq Statistics /\ Cardinality(statistic) <= 1 /\ outdated \in BOOLEAN
    /\ got \in [Sessions -> Statistics] /\ raced \in [Sessions -> BOOLEAN]

HandlerTypes ==
    /\ pc \in [Sessions -> Labels]
    /\ on \in [Sessions -> Keys] /\ copy \in [Sessions -> Rows]
    /\ body \in [Sessions -> Bodies \cup {NoBody}]
    /\ attempt \in 0..Retries /\ requests \in 0..MaxRequests

\* Types; a passport is fetched no more than Retries + 1 times in a pass.
TypeOK == TableTypes /\ CacheTypes /\ HandlerTypes

\* A passport is marked as up to date only when its columns are there, however saves of
\* old copies, deletions and new rows under the same tag follow each other.
FlagHonest ==
    \A t \in DOMAIN balloons : ~balloons[t].due => balloons[t].serial # NoSerial

\* Once every signal is sent, cached statistics are those of the tables, unless a write,
\* committed or not, overlapped their computation, a signal was lost, or what changed
\* sends none.
StaleOnlyByOverlap ==
    (~outdated /\ \A s \in Sessions : pc[s] \notin Unsignalled) => statistic \subseteq {Current}

\* A PATCH that is answered with success leaves the balloon in the table, under its tag
\* or under the one that was sent: it is an update of single fields.
PatchKeepsBalloon ==
    [][\A s \in Web :
         (pc[s] \in {"patch_insert", "patch_save"} /\ pc'[s] = "signal")
         => {on[s], body[s].tag} \cap (DOMAIN balloons' \ {NoTag}) # {}]_vars
=============================================================================
