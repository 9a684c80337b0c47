--------------------------- MODULE ProfileProofs ----------------------------
(***************************************************************************)
(* Proofs about ProfileStore: types whatever the clients do, and, one      *)
(* request at a time, that ids stay unique, that saves are fresh and that  *)
(* the endpoints are a map, for any names, ids, models and slugs.          *)
(***************************************************************************)
EXTENDS ProfileStore, DataLemmas

Unique(ps) == \A i, j \in 1..Len(ps) : ps[i].id = ps[j].id => i = j

-----------------------------------------------------------------------------
(* The operations of the store.                                            *)

\* upsert appends, or replaces one profile of the same id.
LEMMA UpsertIs ==
  ASSUME NEW ps \in Seq(Profiles), NEW p \in Profiles
  PROVE  \/ /\ \A i \in 1..Len(ps) : ps[i].id # p.id
            /\ Upsert(ps, p) = Append(ps, p)
         \/ \E i \in 1..Len(ps) : ps[i].id = p.id /\ Upsert(ps, p) = [ps EXCEPT ![i] = p]
<1> DEFINE same == {i \in 1..Len(ps) : ps[i].id = p.id}
<1>1. CASE same = {}
  BY <1>1 DEF Upsert
<1>2. CASE same # {}
  <2> DEFINE first == CHOOSE i \in same : \A j \in same : i <= j
  <2>1. same \in SUBSET Nat
    OBVIOUS
  <2>2. \E i \in same : \A j \in same : i <= j
    <3> HIDE DEF same
    <3> QED
      BY <1>2, <2>1, SmallestNat
  <2>3. first \in same
    BY <2>2
  <2>4. Upsert(ps, p) = [ps EXCEPT ![first] = p]
    BY <1>2 DEF Upsert
  <2> HIDE DEF first
  <2> QED
    BY <2>3, <2>4
<1> QED
  BY <1>1, <1>2

LEMMA UpsertType ==
  ASSUME NEW ps \in Seq(Profiles), NEW p \in Profiles
  PROVE  Upsert(ps, p) \in Seq(Profiles)
<1>1. Append(ps, p) \in Seq(Profiles)
  OBVIOUS
<1>2. ASSUME NEW i \in 1..Len(ps) PROVE [ps EXCEPT ![i] = p] \in Seq(Profiles)
  OBVIOUS
<1> QED
  BY <1>1, <1>2, UpsertIs

LEMMA UpsertKeepsUnique ==
  ASSUME NEW ps \in Seq(Profiles), NEW p \in Profiles, Unique(ps)
  PROVE  Unique(Upsert(ps, p))
<1>1. CASE /\ \A i \in 1..Len(ps) : ps[i].id # p.id
           /\ Upsert(ps, p) = Append(ps, p)
  <2> DEFINE qs == Append(ps, p)
  <2>1. Len(qs) = Len(ps) + 1 /\ qs[Len(ps) + 1] = p /\ Len(ps) \in Nat
    OBVIOUS
  <2>2. \A i \in 1..Len(ps) : qs[i] = ps[i]
    OBVIOUS
  <2> HIDE DEF qs
  <2>3. Unique(qs)
    BY <1>1, <2>1, <2>2 DEF Unique
  <2> QED
    BY <1>1, <2>3 DEF qs
<1>2. ASSUME NEW i \in 1..Len(ps), ps[i].id = p.id, Upsert(ps, p) = [ps EXCEPT ![i] = p]
      PROVE  Unique(Upsert(ps, p))
  BY <1>2 DEF Unique
<1> QED
  BY <1>1, <1>2, UpsertIs

\* remove keeps the profiles with another id, and only those.
LEMMA RemoveIs ==
  ASSUME NEW ps \in Seq(Profiles), NEW id
  PROVE  /\ RemoveId(ps, id) \in Seq(Profiles)
         /\ \A k \in 1..Len(RemoveId(ps, id)) : \E i \in 1..Len(ps) :
               ps[i].id # id /\ RemoveId(ps, id)[k] = ps[i]
         /\ \A i \in 1..Len(ps) : ps[i].id # id =>
               \E k \in 1..Len(RemoveId(ps, id)) : RemoveId(ps, id)[k] = ps[i]
<1> DEFINE I == {i \in DOMAIN ps : ps[i].id # id}
<1>1. RemoveId(ps, id) = Picked(ps, I)
  BY DEF RemoveId, Retain
<1>2. \A i \in 1..Len(ps) : i \in I <=> ps[i].id # id
  OBVIOUS
<1> HIDE DEF I
<1>3. /\ \A k \in 1..Len(Picked(ps, I)) : \E i \in 1..Len(ps) : i \in I /\ Picked(ps, I)[k] = ps[i]
      /\ \A i \in 1..Len(ps) : i \in I => \E k \in 1..Len(Picked(ps, I)) : Picked(ps, I)[k] = ps[i]
  BY PickedElements
<1>4. Picked(ps, I) \in Seq(Profiles)
  BY PickedSelects
<1> QED
  BY <1>1, <1>2, <1>3, <1>4

LEMMA RemoveKeepsUnique ==
  ASSUME NEW ps \in Seq(Profiles), NEW id, Unique(ps)
  PROVE  Unique(RemoveId(ps, id))
<1> DEFINE I == {i \in DOMAIN ps : ps[i].id # id}
           qs == Picked(ps, I)
<1>1. RemoveId(ps, id) = qs
  BY DEF RemoveId, Retain
<1>2. ASSUME NEW j \in 1..Len(qs), NEW k \in 1..Len(qs), j # k PROVE qs[j].id # qs[k].id
  <2> HIDE DEF I
  <2>1. PICK i, l \in 1..Len(ps) :
          i # l /\ i \in I /\ l \in I /\ Picked(ps, I)[j] = ps[i] /\ Picked(ps, I)[k] = ps[l]
    BY <1>2, PickedDistinct
  <2> QED
    BY <2>1 DEF Unique
<1> HIDE DEF qs
<1> QED
  BY <1>1, <1>2 DEF Unique

-----------------------------------------------------------------------------
(* Cut text, and text over other text.                                     *)

LEMMA KeptIs ==
  ASSUME NEW ps \in Seq(Profiles), NEW k \in 0..Len(ps), NEW whole \in BOOLEAN
  PROVE  /\ Kept(ps, k, whole) \in Seq(Profiles)
         /\ Len(Kept(ps, k, whole)) = k
         /\ \A i \in 1..k : /\ Kept(ps, k, whole)[i].id = ps[i].id
                            /\ Kept(ps, k, whole)[i] \in {ps[i], [ps[i] EXCEPT !.whole = FALSE]}
<1>1. ASSUME NEW i \in 1..k
      PROVE  /\ ps[i] \in Profiles
             /\ [ps[i] EXCEPT !.whole = FALSE] \in Profiles
             /\ [ps[i] EXCEPT !.whole = FALSE].id = ps[i].id
  <2>1. i \in 1..Len(ps)
    OBVIOUS
  <2>2. ps[i] \in Profiles
    BY <2>1
  <2> QED
    BY <2>2 DEF Profiles
<1>2. k \in Nat
  OBVIOUS
<1> QED
  BY <1>1, <1>2 DEF Kept

LEMMA KeptKeepsUnique ==
  ASSUME NEW ps \in Seq(Profiles), NEW k \in 0..Len(ps), NEW whole \in BOOLEAN, Unique(ps)
  PROVE  Unique(Kept(ps, k, whole))
<1>1. 1..k \subseteq 1..Len(ps)
  OBVIOUS
<1> QED
  BY <1>1, KeptIs DEF Unique

LEMMA WrittenTypes ==
  ASSUME NEW new \in Seq(Profiles), NEW old, IsFile(old), NEW f \in Written(new, old)
  PROVE  IsFile(f)
<1>1. CASE f = Toml(new)
  BY <1>1 DEF IsFile, Toml
<1>2. CASE f = Garbled
  BY <1>2 DEF IsFile, Garbled
<1>3. ASSUME NEW whole \in BOOLEAN, NEW k \in 2..Len(old.profiles) + 1,
             f = Toml(Kept(new, Len(new), whole) \o SubSeq(old.profiles, k, Len(old.profiles)))
      PROVE  IsFile(f)
  <2>1. old.profiles \in Seq(Profiles)
    BY DEF IsFile
  <2>2. SubSeq(old.profiles, k, Len(old.profiles)) \in Seq(Profiles)
    BY <2>1
  <2>3. Kept(new, Len(new), whole) \in Seq(Profiles)
    BY KeptIs
  <2> QED
    BY <1>3, <2>2, <2>3 DEF IsFile, Toml
<1> QED
  BY <1>1, <1>2, <1>3 DEF Written

LEMMA HalfWrittenTypes ==
  ASSUME TypeOK, NEW c \in Clients, NEW f \in HalfWritten(c)
  PROVE  IsFile(f)
<1>1. IsFile(file) /\ IsFile(Garbled) /\ store[c] \in Seq(Profiles)
  BY DEF TypeOK, IsFile, Garbled
<1>2. ASSUME NEW k \in 0..Len(store[c]), NEW whole \in BOOLEAN,
             f \in Written(Kept(store[c], k, whole), file)
      PROVE  IsFile(f)
  BY <1>1, <1>2, KeptIs, WrittenTypes
<1> QED
  BY <1>1, <1>2 DEF HalfWritten

-----------------------------------------------------------------------------
(* Types, for any number of clients.                                       *)

LEMMA TypesInit == ASSUME IsFile(InitialFile), Init PROVE TypeOK
<1>1. ToRemove(NoId) \in Requests
  BY ProfileStoreAssumption DEF Requests
<1> QED
  BY <1>1 DEF Init, TypeOK, IsFile

\* A request puts a profile, or removes an id.
LEMMA RequestIs ==
  ASSUME NEW r \in Requests
  PROVE  \/ r.op = "put" /\ r.profile \in Profiles /\ r.id = r.profile.id
         \/ r.op = "remove" /\ r.id \in Ids
  BY DEF Requests, ToPut, ToRemove

LEMMA AnswerTypes ==
  ASSUME NEW ps \in Seq(Profiles), NEW r \in Requests
  PROVE  Answer(ps, r) \in Seq(Profiles)
  BY RequestIs, UpsertType, RemoveIs DEF Answer

LEMMA LoadTypes == ASSUME TypeOK, NEW ps \in Load PROVE ps \in Seq(Profiles)
<1>1. file.profiles \in Seq(Profiles) /\ <<>> \in Seq(Profiles)
  BY DEF TypeOK, IsFile
<1> QED
  BY <1>1 DEF Load

\* Both handlers serve a request.
LEMMA Served ==
  ASSUME NEW c, UpsertProfile(c) \/ DeleteProfile(c)
  PROVE  \E r \in Requests : Serve(c, r)
<1>1. CASE UpsertProfile(c)
  <2>1. PICK name \in Names, model \in Models, given \in Ids :
          LET id == IF given = NoId THEN Slug[name] ELSE given
          IN  Serve(c, ToPut([id |-> id, name |-> name, model |-> model, whole |-> TRUE]))
    BY <1>1 DEF UpsertProfile
  <2> DEFINE id == IF given = NoId THEN Slug[name] ELSE given
             p == [id |-> id, name |-> name, model |-> model, whole |-> TRUE]
  <2>2. id \in Ids
    BY ProfileStoreAssumption
  <2>3. p \in Profiles /\ p.whole
    BY <2>2 DEF Profiles
  <2>4. Serve(c, ToPut(p))
    BY <2>1
  <2> HIDE DEF p
  <2> QED
    BY <2>3, <2>4 DEF Requests
<1>2. CASE DeleteProfile(c)
  BY <1>2 DEF DeleteProfile, Requests
<1> QED
  BY <1>1, <1>2

LEMMA TypesStep == ASSUME TypeOK, [Next]_vars PROVE TypeOK'
<1>1. ASSUME NEW c \in Clients, UpsertProfile(c) \/ DeleteProfile(c) PROVE TypeOK'
  <2>1. PICK r \in Requests : Serve(c, r)
    BY <1>1, Served
  <2>2. PICK ps \in Load : store' = [store EXCEPT ![c] = Answer(ps, r)]
    BY <2>1 DEF Serve
  <2>3. Answer(ps, r) \in Seq(Profiles)
    BY LoadTypes, AnswerTypes
  <2> QED
    BY <2>1, <2>2, <2>3 DEF TypeOK, Serve, IsFile
<1>2. ASSUME NEW c \in Clients, Truncate(c) PROVE TypeOK'
  BY <1>2 DEF TypeOK, Truncate, IsFile, Empty, Toml
<1>3. ASSUME NEW c \in Clients, Write(c) PROVE TypeOK'
  <2>1. IsFile(file')
    BY <1>3, WrittenTypes DEF Write, TypeOK
  <2> QED
    BY <1>3, <2>1 DEF TypeOK, Write, IsFile
<1>4. ASSUME NEW c \in Clients, SaveFails(c) PROVE TypeOK'
  <2>1. file' = file \/ file' \in HalfWritten(c)
    BY <1>4 DEF SaveFails
  <2>2. IsFile(file')
    BY <2>1, HalfWrittenTypes DEF TypeOK
  <2> QED
    BY <1>4, <2>2 DEF TypeOK, SaveFails
<1>5. CASE Crash
  <2>1. file' = file \/ \E c \in Clients : file' \in HalfWritten(c)
    BY <1>5 DEF Crash
  <2>2. IsFile(file')
    BY <2>1, HalfWrittenTypes DEF TypeOK
  <2> QED
    BY <1>5, <2>2 DEF TypeOK, Crash
<1>6. CASE UNCHANGED vars
  BY <1>6 DEF TypeOK, vars, IsFile
<1> QED
  BY <1>1, <1>2, <1>3, <1>4, <1>5, <1>6 DEF Next

\* The file and what the requests have loaded are always profiles, whatever
\* the interleaving of their loads, truncations and writes, and whatever
\* fails (profile.rs, load and save).
THEOREM ProfileTypes ==
  ASSUME IsFile(InitialFile)
  PROVE  Spec => []TypeOK
<1>1. Init => TypeOK
  BY TypesInit
<1>2. TypeOK /\ [Next]_vars => TypeOK'
  BY TypesStep
<1> QED
  BY <1>1, <1>2, PTL DEF Spec
-----------------------------------------------------------------------------
(* One request at a time.                                                  *)

OneClient == \E c : Clients = {c}

\* A change that waits for its truncation is the request's change to what the
\* file holds, or to nothing; and the file it has truncated is empty.
Waiting(c) ==
    /\ pc[c] = "truncate" => \E ps \in Load : store[c] = Answer(ps, request[c])
    /\ pc[c] = "write" => file = Empty

AloneInv ==
    /\ TypeOK
    /\ Unique(file.profiles)
    /\ \A c \in Clients : Unique(store[c]) /\ Waiting(c)

LEMMA AloneInit ==
  ASSUME IsFile(InitialFile), Unique(InitialFile.profiles), Init
  PROVE  AloneInv
  BY TypesInit DEF Init, AloneInv, Waiting

LEMMA AnswerKeepsUnique ==
  ASSUME NEW ps \in Seq(Profiles), NEW r \in Requests, Unique(ps)
  PROVE  Unique(Answer(ps, r))
  BY RequestIs, UpsertKeepsUnique, RemoveKeepsUnique DEF Answer

LEMMA LoadUnique == ASSUME AloneInv, NEW ps \in Load PROVE Unique(ps)
  BY DEF AloneInv, Load, Unique

\* Text written over an empty file is the text, or a part of it.
LEMMA AloneWritten ==
  ASSUME NEW ps PROVE Written(ps, Empty) = {Toml(ps)}
  BY DEF Written

LEMMA AloneHalfWritten ==
  ASSUME AloneInv, NEW c \in Clients, pc[c] = "write", NEW f \in HalfWritten(c)
  PROVE  \E k \in 0..Len(store[c]), whole \in BOOLEAN : f.profiles = Kept(store[c], k, whole)
<1>1. file = Empty /\ store[c] \in Seq(Profiles)
  BY DEF AloneInv, Waiting, TypeOK
<1>2. CASE f.profiles = <<>>
  <2>1. 0 \in 0..Len(store[c]) /\ TRUE \in BOOLEAN
    BY <1>1
  <2>2. Kept(store[c], 0, TRUE) = <<>>
    <3>1. Kept(store[c], 0, TRUE) \in Seq(Profiles) /\ Len(Kept(store[c], 0, TRUE)) = 0
      BY <1>1, <2>1, KeptIs
    <3>2. \A ps \in Seq(Profiles) : Len(ps) = 0 => ps = <<>>
      OBVIOUS
    <3> QED
      BY <3>1, <3>2
  <2> QED
    BY <1>2, <2>1, <2>2
<1>3. ASSUME NEW k \in 0..Len(store[c]), NEW whole \in BOOLEAN,
             f \in Written(Kept(store[c], k, whole), file)
      PROVE  f.profiles = Kept(store[c], k, whole)
  BY <1>1, <1>3, AloneWritten DEF Toml
<1>4. Empty.profiles = <<>> /\ Garbled.profiles = <<>>
  BY DEF Empty, Toml, Garbled
<1> QED
  BY <1>1, <1>2, <1>3, <1>4 DEF HalfWritten

LEMMA AloneStep == ASSUME OneClient, AloneInv, [Next]_vars PROVE AloneInv'
<1>1. TypeOK' /\ \A c, d \in Clients : d = c
  BY TypesStep DEF AloneInv, OneClient
<1>2. ASSUME NEW c \in Clients, UpsertProfile(c) \/ DeleteProfile(c) PROVE AloneInv'
  <2>1. PICK r \in Requests : Serve(c, r)
    BY <1>2, Served
  <2>2. PICK ps \in Load : store' = [store EXCEPT ![c] = Answer(ps, r)]
    BY <2>1 DEF Serve
  <2>3. store'[c] = Answer(ps, r) /\ request'[c] = r /\ pc'[c] = "truncate" /\ file' = file
    BY <2>1, <2>2 DEF AloneInv, TypeOK, Serve
  <2>4. Unique(Answer(ps, r))
    BY LoadTypes, LoadUnique, AnswerKeepsUnique DEF AloneInv
  <2>5. Waiting(c)'
    BY <2>3 DEF Waiting, Load
  <2> QED
    BY <1>1, <2>3, <2>4, <2>5 DEF AloneInv
<1>3. ASSUME NEW c \in Clients, Truncate(c) PROVE AloneInv'
  <2>1. file' = Empty /\ pc'[c] = "write" /\ UNCHANGED <<store, request>>
    BY <1>3 DEF Truncate, AloneInv, TypeOK
  <2>2. Unique(Empty.profiles)
    BY DEF Empty, Toml, Unique
  <2> QED
    BY <1>1, <2>1, <2>2 DEF AloneInv, Waiting
<1>4. ASSUME NEW c \in Clients, Write(c) PROVE AloneInv'
  <2>1. file = Empty
    BY <1>4 DEF Write, AloneInv, Waiting
  <2>2. file' = Toml(store[c]) /\ pc'[c] = "idle" /\ UNCHANGED <<store, request>>
    BY <1>4, <2>1, AloneWritten DEF Write, AloneInv, TypeOK
  <2>3. Unique(Toml(store[c]).profiles)
    BY DEF AloneInv, Toml
  <2> QED
    BY <1>1, <2>2, <2>3 DEF AloneInv, Waiting
<1>5. ASSUME NEW c \in Clients, file' = file \/ (pc[c] = "write" /\ file' \in HalfWritten(c))
      PROVE  Unique(file'.profiles)
  <2>1. CASE pc[c] = "write" /\ file' \in HalfWritten(c)
    <3>1. PICK k \in 0..Len(store[c]), whole \in BOOLEAN :
            file'.profiles = Kept(store[c], k, whole)
      BY <2>1, AloneHalfWritten
    <3> QED
      BY <3>1, KeptKeepsUnique DEF AloneInv, TypeOK
  <2> QED
    BY <1>5, <2>1 DEF AloneInv
<1>6. ASSUME NEW c \in Clients, SaveFails(c) PROVE AloneInv'
  <2>1. pc'[c] = "idle" /\ UNCHANGED <<store, request>>
    BY <1>6 DEF SaveFails, AloneInv, TypeOK
  <2>2. Unique(file'.profiles)
    BY <1>5, <1>6 DEF SaveFails
  <2> QED
    BY <1>1, <2>1, <2>2 DEF AloneInv, Waiting
<1>7. CASE Crash
  <2>1. ASSUME NEW c \in Clients PROVE store'[c] = <<>> /\ pc'[c] = "idle"
    BY <1>7 DEF Crash
  <2>2. Unique(file'.profiles)
    BY <1>5, <1>7 DEF Crash, AloneInv
  <2>3. Unique(<<>>)
    BY DEF Unique
  <2> QED
    BY <1>1, <2>1, <2>2, <2>3 DEF AloneInv, Waiting
<1>8. CASE UNCHANGED vars
  BY <1>1, <1>8 DEF vars, AloneInv, Waiting, Load
<1> QED
  BY <1>2, <1>3, <1>4, <1>6, <1>7, <1>8 DEF Next

LEMMA Alone ==
  ASSUME OneClient, IsFile(InitialFile), Unique(InitialFile.profiles)
  PROVE  Spec => []AloneInv
<1>1. Init => AloneInv
  BY AloneInit
<1>2. AloneInv /\ [Next]_vars => AloneInv'
  BY AloneStep
<1> QED
  BY <1>1, <1>2, PTL DEF Spec

\* One request at a time, no two profiles in the file ever share an id,
\* though names may share a slug, reads and writes may fail, and the program
\* may die in a save (profile.rs, upsert, remove and save).
THEOREM IdsStayUnique ==
  ASSUME OneClient, IsFile(InitialFile), Unique(InitialFile.profiles)
  PROVE  Spec => []UniqueIds
<1>1. AloneInv => UniqueIds
  BY DEF AloneInv, Unique, UniqueIds
<1> QED
  BY <1>1, Alone, PTL

-----------------------------------------------------------------------------
(* What a change does to the other profiles.                               *)

LEMMA LookupIs ==
  ASSUME NEW ps, NEW id, NEW q
  PROVE  q \in Lookup(ps, id) <=> \E i \in 1..Len(ps) : ps[i].id = id /\ q = ps[i]
  BY DEF Lookup

LEMMA LookupUpsert ==
  ASSUME NEW ps \in Seq(Profiles), NEW p \in Profiles, NEW id, id # p.id
  PROVE  Lookup(Upsert(ps, p), id) = Lookup(ps, id)
<1>1. CASE Upsert(ps, p) = Append(ps, p)
  <2> DEFINE qs == Append(ps, p)
  <2>1. Len(qs) = Len(ps) + 1 /\ qs[Len(ps) + 1] = p /\ Len(ps) \in Nat
    OBVIOUS
  <2>2. \A i \in 1..Len(ps) : qs[i] = ps[i]
    OBVIOUS
  <2> HIDE DEF qs
  <2>3. Lookup(qs, id) = Lookup(ps, id)
    BY <2>1, <2>2 DEF Lookup
  <2> QED
    BY <1>1, <2>3 DEF qs
<1>2. ASSUME NEW i \in 1..Len(ps), ps[i].id = p.id, Upsert(ps, p) = [ps EXCEPT ![i] = p]
      PROVE  Lookup(Upsert(ps, p), id) = Lookup(ps, id)
  <2> DEFINE qs == [ps EXCEPT ![i] = p]
  <2>1. Len(qs) = Len(ps) /\ qs[i] = p /\ \A j \in 1..Len(ps) : j # i => qs[j] = ps[j]
    OBVIOUS
  <2> HIDE DEF qs
  <2>2. Lookup(qs, id) = Lookup(ps, id)
    BY <1>2, <2>1 DEF Lookup
  <2> QED
    BY <1>2, <2>2 DEF qs
<1> QED
  BY <1>1, <1>2, UpsertIs

LEMMA LookupRemove ==
  ASSUME NEW ps \in Seq(Profiles), NEW gone, NEW id, id # gone
  PROVE  Lookup(RemoveId(ps, gone), id) = Lookup(ps, id)
<1> DEFINE qs == RemoveId(ps, gone)
<1>1. /\ \A k \in 1..Len(qs) : \E i \in 1..Len(ps) : ps[i].id # gone /\ qs[k] = ps[i]
      /\ \A i \in 1..Len(ps) : ps[i].id # gone => \E k \in 1..Len(qs) : qs[k] = ps[i]
  BY RemoveIs
<1> HIDE DEF qs
<1>2. ASSUME NEW q PROVE q \in Lookup(qs, id) <=> q \in Lookup(ps, id)
  <2>1. CASE q \in Lookup(qs, id)
    <3>1. PICK k \in 1..Len(qs) : qs[k].id = id /\ q = qs[k]
      BY <2>1, LookupIs
    <3>2. \E i \in 1..Len(ps) : ps[i].id = id /\ q = ps[i]
      BY <1>1, <3>1
    <3> QED
      BY <2>1, <3>2, LookupIs
  <2>2. CASE q \in Lookup(ps, id)
    <3>1. PICK i \in 1..Len(ps) : ps[i].id = id /\ q = ps[i]
      BY <2>2, LookupIs
    <3>2. \E k \in 1..Len(qs) : qs[k].id = id /\ q = qs[k]
      BY <1>1, <3>1
    <3> QED
      BY <2>2, <3>2, LookupIs
  <2> QED
    BY <2>1, <2>2
<1> QED
  BY <1>2 DEF qs

LEMMA LookupAnswer ==
  ASSUME NEW ps \in Seq(Profiles), NEW r \in Requests, NEW id, id # r.id
  PROVE  Lookup(Answer(ps, r), id) = Lookup(ps, id)
  BY RequestIs, LookupUpsert, LookupRemove DEF Answer

\* One request at a time, and while the file can be read, "load -> mutate ->
\* save per request" does avoid staleness: what a save is about to write
\* differs from what the file holds at most in the profile the request names.
\* With several requests it does not (the run that refutes SavesAreFresh has
\* two).
THEOREM SavesAreFreshAlone ==
  ASSUME OneClient, "read" \notin Faults, IsFile(InitialFile), Unique(InitialFile.profiles)
  PROVE  Spec => SavesAreFresh
<1> DEFINE Fresh == \A c \in Clients : Truncate(c) /\ (\A d \in Clients : pc[d] # "write") =>
              \A id \in Ids \ {request[c].id} : Lookup(store[c], id) = Lookup(file.profiles, id)
<1>1. AloneInv => Fresh
  <2> SUFFICES ASSUME AloneInv, NEW c \in Clients, Truncate(c), NEW id \in Ids \ {request[c].id}
               PROVE  Lookup(store[c], id) = Lookup(file.profiles, id)
    OBVIOUS
  <2>1. file.profiles \in Seq(Profiles) /\ request[c] \in Requests
    BY DEF AloneInv, TypeOK, IsFile
  <2>2. store[c] = Answer(file.profiles, request[c])
    BY DEF AloneInv, Waiting, Truncate, Load
  <2> QED
    BY <2>1, <2>2, LookupAnswer
<1>2. Spec => []AloneInv
  BY Alone
<1>3. AloneInv /\ [Next]_vars => [Fresh]_vars
  BY <1>1
<1>4. Spec => [][Fresh]_vars
  BY <1>2, <1>3, PTL DEF Spec
<1> QED
  BY <1>4 DEF SavesAreFresh

-----------------------------------------------------------------------------
(* The refinement of ProfileMap.                                           *)

LEMMA AsMapIs ==
  ASSUME NEW ps \in Seq(Profiles), Unique(ps), NEW i \in 1..Len(ps)
  PROVE  AsMap(ps)[ps[i].id] = ps[i]
<1>1. Lookup(ps, ps[i].id) = {ps[i]}
  BY DEF Lookup, Unique
<1>2. (CHOOSE q \in {ps[i]} : TRUE) = ps[i]
  OBVIOUS
<1> QED
  BY <1>1, <1>2 DEF AsMap

\* The map f, with the ids D, has the ids of the list ps and, at each, its content.
Shows(f, D, ps) ==
    /\ f = [d \in D |-> f[d]]
    /\ \A i \in 1..Len(ps) : ps[i].id \in D /\ f[ps[i].id] = ps[i]
    /\ \A d \in D : \E i \in 1..Len(ps) : ps[i].id = d

LEMMA AsMapEquals ==
  ASSUME NEW ps \in Seq(Profiles), Unique(ps), NEW D, NEW f, Shows(f, D, ps)
  PROVE  AsMap(ps) = f
<1> DEFINE E == {ps[i].id : i \in 1..Len(ps)}
<1>1. E = D
  BY DEF Shows
<1>2. ASSUME NEW d \in D PROVE AsMap(ps)[d] = f[d]
  <2>1. PICK i \in 1..Len(ps) : ps[i].id = d
    BY DEF Shows
  <2> QED
    BY <2>1, AsMapIs DEF Shows
<1>3. AsMap(ps) = [d \in E |-> AsMap(ps)[d]]
  <2> DEFINE content(d) == CHOOSE p \in Lookup(ps, d) : TRUE
  <2>1. AsMap(ps) = [d \in E |-> content(d)]
    BY Zenon DEF AsMap
  <2> HIDE DEF E, content
  <2> QED
    BY <2>1
<1>4. f = [d \in D |-> f[d]]
  BY DEF Shows
<1> HIDE DEF E
<1> QED
  BY <1>1, <1>2, <1>3, <1>4

\* upsert puts one entry into the map ...
LEMMA UpsertPuts ==
  ASSUME NEW ps \in Seq(Profiles), NEW p \in Profiles, Unique(ps)
  PROVE  AsMap(Upsert(ps, p)) =
            [d \in DOMAIN AsMap(ps) \cup {p.id} |->
                IF d = p.id THEN p ELSE AsMap(ps)[d]]
<1> DEFINE D == {ps[i].id : i \in 1..Len(ps)} \cup {p.id}
           f == [d \in D |-> IF d = p.id THEN p ELSE AsMap(ps)[d]]
           qs == Upsert(ps, p)
<1>1. DOMAIN AsMap(ps) \cup {p.id} = D
  BY DEF AsMap
<1>2. qs \in Seq(Profiles) /\ Unique(qs)
  BY UpsertType, UpsertKeepsUnique
<1>3. /\ \A k \in 1..Len(qs) : qs[k] = p \/ \E i \in 1..Len(ps) : qs[k] = ps[i] /\ ps[i].id # p.id
      /\ \A i \in 1..Len(ps) : ps[i].id # p.id => \E k \in 1..Len(qs) : qs[k] = ps[i]
      /\ \E k \in 1..Len(qs) : qs[k] = p
  <2>1. CASE (\A i \in 1..Len(ps) : ps[i].id # p.id) /\ qs = Append(ps, p)
    <3> HIDE DEF qs
    <3>1. Len(qs) = Len(ps) + 1 /\ qs[Len(ps) + 1] = p /\ Len(ps) \in Nat
      BY <2>1
    <3>2. \A i \in 1..Len(ps) : qs[i] = ps[i]
      BY <2>1
    <3> QED
      BY <2>1, <3>1, <3>2
  <2>2. ASSUME NEW i \in 1..Len(ps), ps[i].id = p.id, qs = [ps EXCEPT ![i] = p]
        PROVE  <1>3!:
    <3> HIDE DEF qs
    <3>1. Len(qs) = Len(ps) /\ qs[i] = p /\ \A j \in 1..Len(ps) : j # i => qs[j] = ps[j]
      BY <2>2
    <3>2. \A j \in 1..Len(ps) : j # i => ps[j].id # p.id
      BY <2>2 DEF Unique
    <3> QED
      BY <2>2, <3>1, <3>2
  <2> QED
    BY <2>1, <2>2, UpsertIs
<1> HIDE DEF qs
<1>4. ASSUME NEW k \in 1..Len(qs) PROVE qs[k].id \in D /\ f[qs[k].id] = qs[k]
  <2>1. CASE qs[k] = p
    BY <2>1
  <2>2. ASSUME NEW i \in 1..Len(ps), qs[k] = ps[i], ps[i].id # p.id
        PROVE  qs[k].id \in D /\ f[qs[k].id] = qs[k]
    <3>1. AsMap(ps)[ps[i].id] = ps[i]
      BY AsMapIs
    <3> QED
      BY <2>2, <3>1
  <2> QED
    BY <1>3, <2>1, <2>2
<1>5. ASSUME NEW d \in D PROVE \E k \in 1..Len(qs) : qs[k].id = d
  <2>1. CASE d = p.id
    BY <1>3, <2>1
  <2>2. CASE d # p.id
    BY <1>3, <2>2
  <2> QED
    BY <2>1, <2>2
<1>6. f = [d \in D |-> f[d]]
  OBVIOUS
<1> HIDE DEF f, D
<1>7. AsMap(qs) = f
  <2>1. Shows(f, D, qs)
    BY <1>4, <1>5, <1>6 DEF Shows
  <2> QED
    BY <1>2, <2>1, AsMapEquals
<1> QED
  BY <1>1, <1>7 DEF f, qs

\* ... and remove takes one out.
LEMMA RemoveRemoves ==
  ASSUME NEW ps \in Seq(Profiles), NEW id, Unique(ps)
  PROVE  AsMap(RemoveId(ps, id)) = [d \in DOMAIN AsMap(ps) \ {id} |-> AsMap(ps)[d]]
<1> DEFINE D == {ps[i].id : i \in 1..Len(ps)} \ {id}
           f == [d \in D |-> AsMap(ps)[d]]
           qs == RemoveId(ps, id)
<1>1. DOMAIN AsMap(ps) \ {id} = D
  BY DEF AsMap
<1>2. qs \in Seq(Profiles) /\ Unique(qs)
  BY RemoveIs, RemoveKeepsUnique
<1>3. /\ \A k \in 1..Len(qs) : \E i \in 1..Len(ps) : ps[i].id # id /\ qs[k] = ps[i]
      /\ \A i \in 1..Len(ps) : ps[i].id # id => \E k \in 1..Len(qs) : qs[k] = ps[i]
  BY RemoveIs
<1> HIDE DEF qs
<1>4. ASSUME NEW k \in 1..Len(qs) PROVE qs[k].id \in D /\ f[qs[k].id] = qs[k]
  <2>1. PICK i \in 1..Len(ps) : ps[i].id # id /\ qs[k] = ps[i]
    BY <1>3
  <2>2. AsMap(ps)[ps[i].id] = ps[i]
    BY AsMapIs
  <2> QED
    BY <2>1, <2>2
<1>5. ASSUME NEW d \in D PROVE \E k \in 1..Len(qs) : qs[k].id = d
  BY <1>3
<1>6. f = [d \in D |-> f[d]]
  OBVIOUS
<1> HIDE DEF f, D
<1>7. AsMap(qs) = f
  <2>1. Shows(f, D, qs)
    BY <1>4, <1>5, <1>6 DEF Shows
  <2> QED
    BY <1>2, <2>1, AsMapEquals
<1> QED
  BY <1>1, <1>7 DEF f, qs

\* Text cut short shows some of the entries, and at most one of them hurt.
LEMMA KeptRemains ==
  ASSUME NEW ps \in Seq(Profiles), NEW k \in 0..Len(ps), NEW whole \in BOOLEAN, Unique(ps)
  PROVE  AsMap(Kept(ps, k, whole)) \in Map!Remains(AsMap(ps))
<1> DEFINE m == AsMap(ps)
           qs == Kept(ps, k, whole)
           D == {ps[i].id : i \in 1..k}
           hurt == IF ~whole /\ k # 0 THEN {ps[k].id} ELSE {}
           f == [d \in D |-> IF d \in hurt THEN [m[d] EXCEPT !.whole = FALSE] ELSE m[d]]
<1>1. 1..k \subseteq 1..Len(ps) /\ (k # 0 => k \in 1..k)
  OBVIOUS
<1>2. DOMAIN m = {ps[i].id : i \in 1..Len(ps)}
  BY DEF AsMap
<1>3. D \in SUBSET DOMAIN m
  BY <1>1, <1>2
<1>4. hurt \in {{}} \cup {{i} : i \in DOMAIN m}
  BY <1>1, <1>2
<1>5. f \in Map!Remains(m)
  <2>1. f = Map!Part(m, D, hurt)
    BY DEF Map!Part
  <2> HIDE DEF f, D, hurt, m
  <2> QED
    BY <1>3, <1>4, <2>1 DEF Map!Remains
<1>6. qs \in Seq(Profiles) /\ Len(qs) = k /\ Unique(qs) /\ \A i \in 1..k : qs[i].id = ps[i].id
  BY KeptIs, KeptKeepsUnique
<1>7. ASSUME NEW i \in 1..k PROVE f[ps[i].id] = qs[i]
  <2>1. ps[i].id \in D /\ m[ps[i].id] = ps[i]
    BY <1>1, AsMapIs
  <2>2. qs[i] = IF i = k /\ ~whole THEN [ps[i] EXCEPT !.whole = FALSE] ELSE ps[i]
    BY DEF Kept
  <2>3. ps[i].id \in hurt <=> i = k /\ ~whole
    BY <1>1 DEF Unique
  <2>4. f[ps[i].id] = IF ps[i].id \in hurt THEN [m[ps[i].id] EXCEPT !.whole = FALSE]
                      ELSE m[ps[i].id]
    BY <2>1
  <2> HIDE DEF f, m, hurt, qs
  <2>5. CASE i = k /\ ~whole
    BY <2>1, <2>2, <2>3, <2>4, <2>5
  <2>6. CASE ~(i = k /\ ~whole)
    BY <2>1, <2>2, <2>3, <2>4, <2>6
  <2> QED
    BY <2>5, <2>6
<1>8. Shows(f, D, qs)
  <2>1. f = [d \in D |-> f[d]]
    OBVIOUS
  <2> HIDE DEF f, qs
  <2> QED
    BY <1>6, <1>7, <2>1 DEF Shows
<1> HIDE DEF f, qs, D, m
<1>9. AsMap(qs) = f
  BY <1>6, <1>8, AsMapEquals
<1> QED
  BY <1>5, <1>9 DEF qs, m

LEMMA NothingIsEmpty == AsMap(<<>>) = Map!Empty
<1>1. Shows(Map!Empty, {}, <<>>)
  BY DEF Shows, Map!Empty
<1>2. Unique(<<>>) /\ <<>> \in Seq(Profiles)
  BY DEF Unique
<1> QED
  BY <1>1, <1>2, AsMapEquals

\* What a request does to the list, it does to the map.
LEMMA AnswerShows ==
  ASSUME NEW ps \in Seq(Profiles), Unique(ps), NEW c \in Clients, c = Only,
         request[c] \in Requests
  PROVE  AsMap(Answer(ps, request[c])) = Map!Answer(AsMap(ps))
<1> DEFINE r == request[c]
           m == AsMap(ps)
<1>1. request[Only] = r
  OBVIOUS
<1>2. CASE r.op = "put" /\ r.profile \in Profiles /\ r.id = r.profile.id
  <2>1. AsMap(Upsert(ps, r.profile)) = [d \in DOMAIN m \cup {r.profile.id} |->
                                          IF d = r.profile.id THEN r.profile ELSE m[d]]
    BY <1>2, UpsertPuts
  <2>2. Answer(ps, r) = Upsert(ps, r.profile)
    BY <1>2 DEF Answer
  <2>3. Map!Answer(m) = [d \in DOMAIN m \cup {r.id} |-> IF d = r.id THEN r.profile ELSE m[d]]
    BY <1>1, <1>2, Zenon DEF Map!Answer
  <2> HIDE DEF m, r
  <2>4. AsMap(Answer(ps, r)) = Map!Answer(m)
    BY <1>2, <2>1, <2>2, <2>3
  <2> QED
    BY <2>4 DEF m, r
<1>3. CASE r.op = "remove"
  <2>1. AsMap(RemoveId(ps, r.id)) = [d \in DOMAIN m \ {r.id} |-> m[d]]
    BY RemoveRemoves
  <2>2. r.op # "put" /\ Answer(ps, r) = RemoveId(ps, r.id)
    BY <1>3 DEF Answer
  <2>3. Map!Answer(m) = [d \in DOMAIN m \ {r.id} |-> m[d]]
    BY <1>1, <2>2, Zenon DEF Map!Answer
  <2> HIDE DEF m, r
  <2>4. AsMap(Answer(ps, r)) = Map!Answer(m)
    BY <2>1, <2>2, <2>3
  <2> QED
    BY <2>4 DEF m, r
<1> QED
  BY <1>2, <1>3, RequestIs

\* A request asks; the truncation carries it out, on the map or on nothing; a
\* write is done; what fails before the truncation changes nothing, and what
\* fails after it leaves a part.
LEMMA MapStep ==
  ASSUME OneClient, AloneInv, AloneInv', [Next]_vars
  PROVE  [Map!Next]_(Map!vars)
<1>1. PICK c : Clients = {c}
  BY DEF OneClient
<1>2. c \in Clients /\ Only = c /\ \A d \in Clients : d = c
  BY <1>1 DEF Only
<1>3. /\ file.profiles \in Seq(Profiles)
      /\ store[c] \in Seq(Profiles)
      /\ request[c] \in Requests
      /\ pc \in [Clients -> {"idle", "truncate", "write"}]
      /\ Unique(file.profiles) /\ Unique(store[c])
      /\ store \in [Clients -> Seq(Profiles)]
      /\ request \in [Clients -> Requests]
  BY <1>2 DEF AloneInv, TypeOK, IsFile
<1>4. /\ pc[c] = "write" => Visible = AsMap(store[c])
      /\ pc[c] # "write" => Visible = AsMap(file.profiles)
      /\ pc'[c] = "write" => Visible' = AsMap(store'[c])
      /\ pc'[c] # "write" => Visible' = AsMap(file'.profiles)
  BY <1>2 DEF Visible
<1>5. ASSUME NEW r \in Requests, Serve(c, r) PROVE Map!Next
  <2>1. /\ pc[c] = "idle" /\ pc'[c] = "truncate"
        /\ request'[c] = r
        /\ file' = file
    BY <1>2, <1>3, <1>5 DEF Serve
  <2>2. Visible' = Visible
    BY <1>4, <2>1
  <2>3. Map!Ask(r)
    BY <1>2, <2>1, <2>2 DEF Map!Ask
  <2> QED
    BY <2>3 DEF Map!Next
<1>6. ASSUME Truncate(c) PROVE Map!Next
  <2>1. pc[c] = "truncate" /\ pc'[c] = "write" /\ UNCHANGED <<store, request>>
    BY <1>2, <1>3, <1>6 DEF Truncate
  <2>2. Visible = AsMap(file.profiles) /\ Visible' = AsMap(store[c])
    BY <1>4, <2>1
  <2>3. PICK ps \in Load : store[c] = Answer(ps, request[c])
    BY <1>2, <2>1 DEF AloneInv, Waiting
  <2>4. ps \in Seq(Profiles) /\ Unique(ps)
    BY LoadTypes, LoadUnique DEF AloneInv
  <2>5. AsMap(store[c]) = Map!Answer(AsMap(ps))
    BY <1>2, <1>3, <2>3, <2>4, AnswerShows
  <2>6. ps = file.profiles \/ ps = <<>>
    BY <2>3 DEF Load
  <2>7. AsMap(ps) = Visible \/ AsMap(ps) = Map!Empty
    BY <2>2, <2>6, NothingIsEmpty
  <2>8. Visible' \in {Map!Answer(Visible), Map!Answer(Map!Empty)}
    BY <2>2, <2>5, <2>7
  <2>9. Map!Save
    BY <1>2, <2>1, <2>8 DEF Map!Save
  <2> QED
    BY <2>9 DEF Map!Next
<1>7. ASSUME Write(c) PROVE Map!Next
  <2>1. pc[c] = "write" /\ pc'[c] = "idle" /\ UNCHANGED <<store, request>>
    BY <1>2, <1>3, <1>7 DEF Write
  <2>2. file' = Toml(store[c])
    <3>1. file = Empty
      BY <1>2, <2>1 DEF AloneInv, Waiting
    <3> QED
      BY <1>7, <3>1, AloneWritten DEF Write
  <2>3. Visible' = Visible
    BY <1>4, <2>1, <2>2 DEF Toml
  <2>4. Map!Done
    BY <1>2, <2>1, <2>3 DEF Map!Done
  <2> QED
    BY <2>4 DEF Map!Next
<1>8. ASSUME pc[c] # "idle", pc'[c] = "idle", request' = request,
             file' = file \/ (pc[c] = "write" /\ file' \in HalfWritten(c))
      PROVE  Map!Next
  <2>1. Visible' = AsMap(file'.profiles)
    BY <1>4, <1>8
  <2>2. CASE pc[c] = "write"
    <3>1. file \in HalfWritten(c)
      BY DEF HalfWritten
    <3>2. PICK k \in 0..Len(store[c]), whole \in BOOLEAN :
            file'.profiles = Kept(store[c], k, whole)
      BY <1>2, <1>8, <2>2, <3>1, AloneHalfWritten
    <3>3. Visible' \in Map!Remains(Visible)
      BY <1>3, <1>4, <2>1, <2>2, <3>2, KeptRemains
    <3> QED
      BY <1>2, <1>8, <2>2, <3>3 DEF Map!Fail, Map!Next
  <2>3. CASE pc[c] # "write"
    <3>1. Visible' = Visible
      BY <1>4, <1>8, <2>1, <2>3
    <3> QED
      BY <1>2, <1>8, <2>3, <3>1 DEF Map!Fail, Map!Next
  <2> QED
    BY <2>2, <2>3
<1>9. ASSUME SaveFails(c) PROVE Map!Next
  BY <1>2, <1>3, <1>8, <1>9 DEF SaveFails
<1>10. ASSUME Crash PROVE Map!Next \/ UNCHANGED Map!vars
  <2>1. pc'[c] = "idle" /\ request' = request
    BY <1>2, <1>10 DEF Crash
  <2>2. file' = file \/ (pc[c] = "write" /\ file' \in HalfWritten(c))
    BY <1>2, <1>10 DEF Crash
  <2>3. CASE pc[c] = "idle"
    BY <1>2, <1>4, <2>1, <2>2, <2>3 DEF Map!vars
  <2> QED
    BY <1>8, <2>1, <2>2, <2>3
<1>11. ASSUME UNCHANGED vars PROVE UNCHANGED Map!vars
  BY <1>4, <1>11 DEF vars, Map!vars
<1>12. ASSUME UpsertProfile(c) \/ DeleteProfile(c) PROVE Map!Next
  BY <1>5, <1>12, Served
<1> QED
  BY <1>2, <1>6, <1>7, <1>9, <1>10, <1>11, <1>12 DEF Next

\* One request at a time, and from a store without profiles, the endpoints
\* are a map from ids to profiles in which only the entry a request names is
\* ever written.  A read or a save that fails, and a crash, lose entries, and
\* may leave one without the last of its fields, but they add none.
THEOREM ImplementsProfileMap ==
  ASSUME OneClient, IsFile(InitialFile), InitialFile.profiles = <<>>
  PROVE  Spec => ImplementsMap
<1>1. Unique(InitialFile.profiles)
  BY DEF Unique
<1>2. Init => Map!Init
  <2> SUFFICES ASSUME Init PROVE Visible = Map!Empty /\ pc[Only] = "idle"
    BY DEF Map!Init
  <2>1. Only \in Clients
    BY DEF Only, OneClient
  <2>2. pc[Only] = "idle"
    BY <2>1 DEF Init
  <2>3. Visible = AsMap(<<>>)
    BY <2>2 DEF Visible, Init
  <2> QED
    BY <2>2, <2>3, NothingIsEmpty
<1>3. Spec => []AloneInv
  BY <1>1, Alone
<1>4. AloneInv /\ AloneInv' /\ [Next]_vars => [Map!Next]_(Map!vars)
  BY MapStep
<1> QED
  BY <1>2, <1>3, <1>4, PTL DEF Spec, ImplementsMap, Map!Spec
=============================================================================
