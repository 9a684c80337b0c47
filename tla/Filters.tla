------------------------------- MODULE Filters -------------------------------
(***************************************************************************)
(* Iterator::filter and Vec::retain.  They are SelectSeq, written as a     *)
(* recursive function over the positions that pass because the prover has  *)
(* no definition of SelectSeq.                                             *)
(***************************************************************************)
LOCAL INSTANCE Naturals
LOCAL INSTANCE Sequences

\* What s holds at the positions I, in order.
Picked(s, I) ==
    LET upTo[i \in 0..Len(s)] ==
            IF i = 0 THEN <<>>
            ELSE IF i \in I THEN Append(upTo[i - 1], s[i]) ELSE upTo[i - 1]
    IN  upTo[Len(s)]

Retain(s, keep(_)) == Picked(s, {i \in DOMAIN s : keep(s[i])})
=============================================================================
