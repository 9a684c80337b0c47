------------------------------- MODULE Slugify -------------------------------
(***************************************************************************)
(* slugify (airpcez-core/src/profile.rs): the id a profile gets from its   *)
(* name.  A character is what the function tells apart: an ASCII letter in *)
(* either case, or anything else, of which the dash is the one it writes.  *)
(***************************************************************************)
INSTANCE FiniteSets
LOCAL INSTANCE Naturals
LOCAL INSTANCE Sequences

Chars  == {"a", "A", "b", "-", "!"}
Alnums == {"a", "A", "b"}

Lower(ch) == IF ch = "A" THEN "a" ELSE ch

\* One character: `out` so far, and `dashed` for prev_dash.
Push(r, ch) ==
    IF ch \in Alnums THEN [out |-> Append(r.out, Lower(ch)), dashed |-> FALSE]
    ELSE IF r.out # <<>> /\ ~r.dashed THEN [out |-> Append(r.out, "-"), dashed |-> TRUE]
    ELSE r

Dashed(s) ==
    LET after[i \in 0..Len(s)] ==
            IF i = 0 THEN [out |-> <<>>, dashed |-> FALSE] ELSE Push(after[i - 1], s[i])
    IN  after[Len(s)].out

\* Mutant: nothing is popped.
TrimNothing(s) == s

\* The trailing dashes are popped.
Trim(s) ==
    SubSeq(s, 1, CHOOSE n \in 0..Len(s) : /\ n > 0 => s[n] # "-"
                                          /\ \A i \in (n + 1)..Len(s) : s[i] = "-")

Slug(s) == Trim(Dashed(s))

-----------------------------------------------------------------------------
\* The letters among the first k characters, and those that begin a word
\* after another.
Letters(s, k) == {i \in 1..k : s[i] \in Alnums}
Begins(s, k) == {i \in Letters(s, k) : Letters(s, i - 1) # {} /\ s[i - 1] \notin Alnums}

\* Where letter k goes: after the letters before it, and a dash for each
\* word that ends before it.
Place(s, k) == Cardinality(Letters(s, k)) + Cardinality(Begins(s, k))

\* A slug is the words of the name in lower case, in order, joined by single
\* dashes: so many characters, every letter and every dash in its place.
JoinsWords(s) ==
    LET slug == Slug(s)
    IN  /\ Len(slug) = Place(s, Len(s))
        /\ \A i \in Letters(s, Len(s)) :
              /\ slug[Place(s, i)] = Lower(s[i])
              /\ i \in Begins(s, Len(s)) => slug[Place(s, i) - 1] = "-"
=============================================================================
