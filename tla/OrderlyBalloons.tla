-------------------------- MODULE OrderlyBalloons --------------------------
(***************************************************************************)
(* Requests on balloons that do not overlap, as steps of BalloonRegistry.  *)
(*                                                                         *)
(* Half of the behaviours are orderly: a handler starts when no other      *)
(* runs, none fails midway, forms leave the tag alone, and a change of tag *)
(* sends a valid body.  The others are all of Balloons.                    *)
(***************************************************************************)
EXTENDS Balloons

VARIABLE orderly

Handling(s) == pc[s] \notin {"idle"} \cup Computing

WellFormed(s) ==
    /\ pc[s] = "form_save" => body[s].tag = on[s]
    /\ pc[s] = "patch_check" => body[s].valid /\ body[s].tag # NoTag

OneWellFormed ==
    \A s \in Sessions : Handling(s) =>
        WellFormed(s) /\ \A r \in Sessions \ {s} : ~Handling(r)

OrderlyInit == Init /\ orderly \in BOOLEAN

OrderlyNext ==
    /\ UNCHANGED orderly
    /\ IF orderly THEN Work /\ OneWellFormed' ELSE Next

OrderlySpec == OrderlyInit /\ [][OrderlyNext]_<<vars, orderly>>

----------------------------------------------------------------------------
(* What the registry shows of a state.                                     *)

Moving == {"patch_validate", "patch_insert"}

\* A request is being served until its effect is in the table.
Op(s) ==
    CASE pc[s] \in {"create_validate", "create_insert"} -> "create"
      [] pc[s] \in {"patch_save", "form_save"} -> "edit"
      [] pc[s] \in {"patch_check", "patch_delete", "patch_commit"} \cup Moving -> "retag"
      [] pc[s] \in {"delete", "delete_commit"} -> "delete"
      [] pc[s] \in {"upsert", "fetch", "passport"} -> "scan"
      [] OTHER -> "none"

Asked(s) ==
    [op |-> Op(s), tag |-> IF Op(s) = "create" THEN body[s].tag ELSE on[s],
     to |-> body[s].tag, fields |-> body[s].fields]

Served == {Asked(s) : s \in {s \in Sessions : Op(s) # "none"}}

\* A balloon whose old row is gone and whose new one is not there yet is still listed.
BeingRetagged == {s \in Sessions : pc[s] \in Moving}

Listed ==
    [t \in DOMAIN balloons \cup {on[s] : s \in BeingRetagged} |->
        IF t \in DOMAIN balloons THEN balloons[t]
        ELSE copy[CHOOSE s \in BeingRetagged : on[s] = t]]

Registry == INSTANCE BalloonRegistry WITH
    registry <- IF orderly THEN Listed ELSE <<>>,
    request <- IF orderly THEN Served ELSE {}

\* Orderly requests are atomic and do to the balloon they name what they say.
ImplementsRegistry == Registry!Spec
=============================================================================
