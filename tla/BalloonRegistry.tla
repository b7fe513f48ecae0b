-------------------------- MODULE BalloonRegistry --------------------------
(***************************************************************************)
(* What the table of balloons promises to requests that do not overlap:    *)
(* each is one step, changes the balloon it names and nothing else of it   *)
(* than it says, or is refused and changes nothing.                        *)
(***************************************************************************)
CONSTANTS Tags, Kinds, Miriada, Default

VARIABLES
    registry,   \* the balloons by tag
    request     \* the requests being served: a set with at most one

With(row, fields) ==
    [c \in DOMAIN row |-> IF c \in DOMAIN fields THEN fields[c] ELSE row[c]]

Set(t, row) ==
    registry' = [u \in DOMAIN registry \cup {t} |-> IF u = t THEN row ELSE registry[u]]

Init == request = {}

Ask == request = {} /\ request' # {} /\ UNCHANGED registry

Refuse == request' = {} /\ UNCHANGED registry

\* A balloon nobody knew is registered with what is said of it.
Create(r) ==
    /\ r.op = "create" /\ r.tag \notin DOMAIN registry
    /\ Set(r.tag, With(Default, r.fields))

\* The columns that are sent are changed.
Edit(r) ==
    /\ r.op = "edit" /\ r.tag \in DOMAIN registry
    /\ Set(r.tag, With(registry[r.tag], r.fields))

\* The balloon gets a tag nobody has; its passport is what is sent with the tag.
Retag(r) ==
    /\ r.op = "retag" /\ r.tag \in DOMAIN registry /\ r.to \notin DOMAIN registry
    /\ registry' = [u \in (DOMAIN registry \ {r.tag}) \cup {r.to} |->
                      IF u = r.to THEN With(Default, r.fields) ELSE registry[u]]

Delete(r) ==
    /\ r.op = "delete"
    /\ registry' = [u \in DOMAIN registry \ {r.tag} |-> registry[u]]

\* A pass of a balloon changes its status, and registers it if need be.
Scan(r) ==
    /\ r.op = "scan"
    /\ \E kind \in Kinds :
         Set(r.tag, With(IF r.tag \in DOMAIN registry THEN registry[r.tag] ELSE Default,
                         [kind |-> kind]))

\* It may bring the passport up to date.
Update(r) ==
    /\ r.op = "scan" /\ r.tag \in DOMAIN registry
    /\ Set(r.tag, With(registry[r.tag], [serial |-> Miriada, due |-> FALSE]))

Serve(r) ==
    \/ (Create(r) \/ Edit(r) \/ Retag(r) \/ Delete(r)) /\ request' = {}
    \/ Scan(r) /\ request' \in {{}, request}
    \/ Update(r) /\ request' = {}

Next == Ask \/ Refuse \/ \E r \in request : Serve(r)

Spec == Init /\ [][Next]_<<registry, request>>
=============================================================================
