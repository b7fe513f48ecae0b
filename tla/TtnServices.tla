---------------------------- MODULE TtnServices ----------------------------
(***************************************************************************)
(* The exchanges with Miriada about delivery notes (TTN): the closing of   *)
(* one with its retries, and the import of the current ones.  Both are     *)
(* functions of what comes of their attempts; the attempts after the one   *)
(* that ends the exchange are not made.                                    *)
(***************************************************************************)
EXTENDS Integers, Sequences

LOCAL INSTANCE FiniteSetsExt
LOCAL INSTANCE SequencesExt

\* An attempt to close: "ok" is an answer 200 with result ok, "refused" another 4xx than
\* 408 and 429, "again" any other answer, "lost" none (an exception).
Attempts == [answer : {"ok", "refused", "again", "lost"}, closes : BOOLEAN]

\* What Miriada does with it: it closes what it acknowledges and nothing it refuses.
Possible(a) ==
    /\ a.answer = "ok" => a.closes
    /\ a.answer = "refused" => ~a.closes

\* The attempt close_ttn_in_miriada ends with.
Final(attempts) ==
    Min({i \in DOMAIN attempts : attempts[i].answer \in {"ok", "refused"}} \cup {Len(attempts)})

\* Its result, and whether the TTN has been closed by it.
close_ttn_in_miriada(attempts) ==
    [result |-> attempts[Final(attempts)].answer = "ok",
     closed |-> \E i \in 1..Final(attempts) : attempts[i].closes]

----------------------------------------------------------------------------
(* An item of the answer: id (0 when there is none), and the other columns; an item *)
(* whose date cannot be read is dropped.                                            *)

Normalized(items) == SelectSeq(items, LAMBDA item : item.dated)

\* The first attempt that brings a list; an empty list when none does.
get_current_ttn_from_miriada(attempts) ==
    LET lists == {i \in DOMAIN attempts : attempts[i].answered}
    IN IF lists = {} THEN <<>> ELSE Normalized(attempts[Min(lists)].items)

\* update_or_create by id; the other rows stay.
UpdateOrCreate(rows, item) ==
    [id \in DOMAIN rows \cup {item.id} |-> IF id = item.id THEN item.row ELSE rows[id]]

sync_current_ttn_from_miriada(rows, attempts) ==
    FoldLeft(LAMBDA table, item : IF item.id = 0 THEN table ELSE UpdateOrCreate(table, item),
             rows, get_current_ttn_from_miriada(attempts))
=============================================================================
