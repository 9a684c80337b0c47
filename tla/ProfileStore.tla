---------------------------- MODULE ProfileStore ----------------------------
(***************************************************************************)
(* The profile store: airpcez-profiles.toml, the operations of             *)
(* ProfileStore (airpcez-core/src/profile.rs) and the handlers of          *)
(* /profiles (airpcez/src/server.rs).  Every request loads the file, and a *)
(* change writes all of it back, with no lock: std::fs::write first        *)
(* truncates the file and then fills it, and other requests run between    *)
(* the load, the truncation and the write.                                 *)
(***************************************************************************)
EXTENDS Naturals, Sequences, Filters

CONSTANTS
    Clients,      \* requests that can be in progress at once
    Names,        \* display names
    Models,       \* model references; with the name, a profile's content
    Ids,          \* profile ids
    NoId,         \* the blank id
    Slug,         \* slugify, as a function from names to ids
    InitialFile,  \* what is in the file at the start
    Faults        \* what may fail: a read, a write, the program

ASSUME ProfileStoreAssumption ==
    /\ NoId \in Ids
    /\ Slug \in [Names -> Ids]
    /\ Faults \subseteq {"read", "write", "crash"}

VARIABLES file,     \* the file: no file, TOML that parses, or anything else
          pc,       \* where each request is
          store,    \* the ProfileStore each client has last loaded (and changed)
          request   \* what each client asks for

vars == <<file, pc, store, request>>

\* The fields after the model (profile.rs:11-29) are one: whole, when they are
\* as they were posted.
Profiles == [id : Ids, name : Names, model : Models, whole : BOOLEAN]
Absent   == [kind |-> "absent",  profiles |-> <<>>]
Garbled  == [kind |-> "garbled", profiles |-> <<>>]
Toml(ps) == [kind |-> "toml",    profiles |-> ps]
Empty    == Toml(<<>>)     \* zero bytes parse as a store without profiles

ToPut(p)     == [op |-> "put",    id |-> p.id, profile |-> p]
ToRemove(id) == [op |-> "remove", id |-> id]
Requests == {ToPut(p) : p \in {q \in Profiles : q.whole}} \cup {ToRemove(id) : id \in Ids}

IsFile(f) == f.kind \in {"absent", "garbled", "toml"} /\ f.profiles \in Seq(Profiles)

TypeOK ==
    /\ IsFile(file)
    /\ pc \in [Clients -> {"idle", "truncate", "write"}]
    /\ store \in [Clients -> Seq(Profiles)]
    /\ request \in [Clients -> Requests]

Init ==
    /\ file = InitialFile
    /\ pc = [c \in Clients |-> "idle"]
    /\ store = [c \in Clients |-> InitialFile.profiles]
    /\ request = [c \in Clients |-> ToRemove(NoId)]

-----------------------------------------------------------------------------
(* The operations of ProfileStore.                                         *)

\* load: a missing or a garbled file counts as an empty store, and so does a
\* file that cannot be read.
Load == {file.profiles} \cup IF "read" \in Faults THEN {<<>>} ELSE {}

\* Mutant: every profile is appended.
UpsertAppends(ps, p) == Append(ps, p)

\* upsert: replace the first profile with the same id, else append.
Upsert(ps, p) ==
    LET same == {i \in 1..Len(ps) : ps[i].id = p.id}
    IN  IF same = {} THEN Append(ps, p)
        ELSE [ps EXCEPT ![CHOOSE i \in same : \A j \in same : i <= j] = p]

\* Mutant: retain the wrong way round.
RetainId(ps, id) == Retain(ps, LAMBDA p : p.id = id)

\* remove: retain every other profile.
RemoveId(ps, id) == Retain(ps, LAMBDA p : p.id # id)

-----------------------------------------------------------------------------
(* The handlers.  A POST with a blank name is refused (400) and changes    *)
(* nothing; GET, apply and launch only load.                               *)

Answer(ps, r) == IF r.op = "put" THEN Upsert(ps, r.profile) ELSE RemoveId(ps, r.id)

Serve(c, r) ==
    /\ pc[c] = "idle"
    /\ pc' = [pc EXCEPT ![c] = "truncate"]
    /\ request' = [request EXCEPT ![c] = r]
    /\ \E ps \in Load : store' = [store EXCEPT ![c] = Answer(ps, r)]
    /\ UNCHANGED file

\* upsert_profile: a blank id is derived from the name.
UpsertProfile(c) ==
    \E name \in Names, model \in Models, given \in Ids :
        LET id == IF given = NoId THEN Slug[name] ELSE given
        IN  Serve(c, ToPut([id |-> id, name |-> name, model |-> model, whole |-> TRUE]))

\* delete_profile saves whether or not it removed anything.
DeleteProfile(c) == \E id \in Ids : Serve(c, ToRemove(id))

\* save: fs::write opens the file and truncates it.
Truncate(c) ==
    /\ pc[c] = "truncate"
    /\ file' = Empty
    /\ pc' = [pc EXCEPT ![c] = "write"]
    /\ UNCHANGED <<store, request>>

\* Text cut short parses as the first k profiles, the last of which may have
\* lost fields after its model; or it does not parse.
Kept(ps, k, whole) ==
    [i \in 1..k |-> IF i = k /\ ~whole THEN [ps[i] EXCEPT !.whole = FALSE] ELSE ps[i]]

\* fs::write writes from the start of the file.  When another request has
\* filled the file in the meantime and its text is longer, the tail of that
\* text survives: the mixture does not parse, or parses as the new profiles,
\* whose last may have caught some of the old fields, and the last of the old.
Written(ps, old) ==
    {Toml(ps)} \cup
    IF old = Empty THEN {}
    ELSE {Garbled} \cup
         {Toml(Kept(ps, Len(ps), whole) \o SubSeq(old.profiles, k, Len(old.profiles))) :
              whole \in BOOLEAN, k \in 2..Len(old.profiles) + 1}

Write(c) ==
    /\ pc[c] = "write"
    /\ file' \in Written(store[c], file)
    /\ pc' = [pc EXCEPT ![c] = "idle"]
    /\ UNCHANGED <<store, request>>

\* What is in the file when c's save stops half way.
HalfWritten(c) ==
    {file, Garbled} \cup
    UNION {Written(Kept(store[c], k, whole), file) : k \in 0..Len(store[c]), whole \in BOOLEAN}

\* The file cannot be opened, or the disk is full: 500 to the client.
SaveFails(c) ==
    /\ "write" \in Faults
    /\ pc[c] \in {"truncate", "write"}
    /\ file' \in IF pc[c] = "truncate" THEN {file} ELSE HalfWritten(c)
    /\ pc' = [pc EXCEPT ![c] = "idle"]
    /\ UNCHANGED <<store, request>>

\* The program dies, perhaps in a save, and is started again.
Crash ==
    /\ "crash" \in Faults
    /\ file' \in {file} \cup UNION {HalfWritten(c) : c \in {d \in Clients : pc[d] = "write"}}
    /\ pc' = [c \in Clients |-> "idle"]
    /\ store' = [c \in Clients |-> <<>>]
    /\ UNCHANGED request

Next ==
    \/ \E c \in Clients :
          UpsertProfile(c) \/ DeleteProfile(c) \/ Truncate(c) \/ Write(c) \/ SaveFails(c)
    \/ Crash

Spec == Init /\ [][Next]_vars

-----------------------------------------------------------------------------
\* No two profiles in the file share an id, whatever fails and wherever the
\* program dies: apply, launch and delete by id mean one profile.
UniqueIds ==
    \A i, j \in 1..Len(file.profiles) :
        file.profiles[i].id = file.profiles[j].id => i = j

Lookup(ps, id) == {ps[i] : i \in {j \in 1..Len(ps) : ps[j].id = id}}

\* "load -> mutate -> save per request ... avoids ... any staleness" (the
\* design of the store): when no other save is half done, what a request is
\* about to write differs from what the file holds at most in the one profile
\* the request names.
SavesAreFresh ==
    [][\A c \in Clients : Truncate(c) /\ (\A d \in Clients : pc[d] # "write") =>
          \A id \in Ids \ {request[c].id} :
             Lookup(store[c], id) = Lookup(file.profiles, id)]_vars

-----------------------------------------------------------------------------
(* One request at a time: the refinement of ProfileMap, with a save taking *)
(* effect when it truncates.                                               *)

Only == CHOOSE c \in Clients : TRUE

AsMap(ps) ==
    [id \in {ps[i].id : i \in 1..Len(ps)} |-> CHOOSE p \in Lookup(ps, id) : TRUE]

Visible == AsMap(IF pc[Only] = "write" THEN store[Only] ELSE file.profiles)

Map == INSTANCE ProfileMap WITH
          map <- Visible, stage <- pc[Only], request <- request[Only]

\* One request at a time, the endpoints are that map, whatever fails.
ImplementsMap == Map!Spec
=============================================================================
