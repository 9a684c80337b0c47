----------------------------- MODULE ProfileMap -----------------------------
(***************************************************************************)
(* What the profile endpoints do for one client after another: they keep a *)
(* map from ids to profiles, and a request changes the entry it names      *)
(* ("upsert overwrites by id", "remove by id").  An entry that no request  *)
(* names is never added and never altered; it goes only with a save that   *)
(* stops half way, or when a request could not read what there was.        *)
(***************************************************************************)

CONSTANT Requests    \* [op |-> "put", id, profile] and [op |-> "remove", id]

VARIABLES map, stage, request

vars == <<map, stage, request>>

Empty == [i \in {} |-> {}]

Init == map = Empty /\ stage = "idle"

Ask(r) ==
    /\ stage = "idle" /\ stage' = "truncate"
    /\ request' = r
    /\ UNCHANGED map

Answer(m) ==
    IF request.op = "put"
    THEN [i \in DOMAIN m \cup {request.id} |-> IF i = request.id THEN request.profile ELSE m[i]]
    ELSE [i \in DOMAIN m \ {request.id} |-> m[i]]

Save ==
    /\ stage = "truncate" /\ stage' = "write"
    /\ map' \in {Answer(map), Answer(Empty)}
    /\ UNCHANGED request

Done ==
    /\ stage = "write" /\ stage' = "idle"
    /\ UNCHANGED <<map, request>>

\* Some of the entries, one of which may be without the last of its fields.
Part(m, kept, hurt) ==
    [i \in kept |-> IF i \in hurt THEN [m[i] EXCEPT !.whole = FALSE] ELSE m[i]]

Remains(m) == {Part(m, kept, hurt) : kept \in SUBSET DOMAIN m,
                                     hurt \in {{}} \cup {{i} : i \in DOMAIN m}}

Fail ==
    /\ stage # "idle" /\ stage' = "idle"
    /\ map' \in IF stage = "write" THEN Remains(map) ELSE {map}
    /\ UNCHANGED request

Next == Save \/ Done \/ Fail \/ \E r \in Requests : Ask(r)

Spec == Init /\ [][Next]_vars
=============================================================================
