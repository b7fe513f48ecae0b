----------------------------- MODULE MCBalloons -----------------------------
(* Instances of OrderlyBalloons for TLC. *)
EXTENDS OrderlyBalloons, TLC

CONSTANTS t1, t2, w1, w2, operator

WebSymmetry == Permutations({w1, w2})

All(due) == [serial |-> operator, due |-> due, kind |-> "empty"]
Body(tag, fields) == [tag |-> tag, fields |-> fields, valid |-> TRUE]

\* Complete passports, edits of single columns, and requests without a tag or with a
\* value that is refused.
MCBodies ==
    {Body(t2, All(FALSE)), Body(t1, All(TRUE)), Body(t1, [kind |-> "empty"]),
     Body(t2, [due |-> TRUE]), Body(NoTag, [kind |-> "other"]),
     [Body(t2, [kind |-> "other"]) EXCEPT !.valid = FALSE]}

\* The documented example of a PATCH, and one that names the balloon.
DocumentedBodies == {Body(NoTag, [kind |-> "other"]), Body(t1, [kind |-> "other"])}

=============================================================================
