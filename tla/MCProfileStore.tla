--------------------------- MODULE MCProfileStore ---------------------------
(***************************************************************************)
(* Instances of ProfileStore for TLC: three names, two of which have the   *)
(* same slug and one of which has none ("???").                            *)
(***************************************************************************)
EXTENDS ProfileStore

CONSTANTS Fast, FastBang, Marks, FastId

SlugOf == [n \in {Fast, FastBang, Marks} |-> IF n = Marks THEN NoId ELSE FastId]
=============================================================================
