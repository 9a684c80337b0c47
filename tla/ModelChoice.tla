---------------------------- MODULE ModelChoice ----------------------------
(***************************************************************************)
(* Which file a launch loads (airpcez/src/server.rs): resolve_launch_model *)
(* and what it calls.  A directory is its listing, in the order read_dir   *)
(* happens to give (of a cached repository: the listing of its newest      *)
(* snapshot); a file is told apart by whether it is a GGUF, by its quant   *)
(* and by its shard.                                                       *)
(***************************************************************************)
LOCAL INSTANCE Naturals
LOCAL INSTANCE Sequences
INSTANCE Filters

Q4 == {"q4.gguf", "q4-00001-of-00002.gguf", "q4-00002-of-00002.gguf"}
Q8 == {"q8.gguf", "q8-00001-of-00002.gguf"}
Files == Q4 \cup Q8 \cup {"README.md"}

Quants  == {"q4", "q8"}
NoQuant == "any"
NoFile  == "none"

IsGguf(f)       == f # "README.md"
HasQuant(f, q)  == f \in CASE q = "q4" -> Q4 [] q = "q8" -> Q8 [] OTHER -> {}
IsFirstShard(f) == f \in {"q4-00001-of-00002.gguf", "q8-00001-of-00002.gguf"}

\* Mutant: the quant is never looked at.
NarrowNothing(ggufs, q) == ggufs

\* A quant narrows the listing, unless nothing in it matches.
Narrow(ggufs, q) ==
    LET matched == Retain(ggufs, LAMBDA f : HasQuant(f, q))
    IN  IF matched = <<>> THEN ggufs ELSE matched

\* pick_gguf: the first shard there is, else the only file there is.
PickGguf(names, q) ==
    LET left   == Narrow(Retain(names, IsGguf), q)
        shards == Retain(left, IsFirstShard)
    IN  CASE shards # <<>>                   -> Head(shards)
          [] shards = <<>> /\ Len(left) = 1  -> Head(left)
          [] OTHER                           -> NoFile

\* What becomes of a model reference: a file for -m, a repository for -hf,
\* or a refused request.
Local(file) == [kind |-> "-m", ref |-> file]
Hf(hf)      == [kind |-> "-hf", ref |-> hf]
Refused     == [kind |-> "error", ref |-> NoFile]

\* resolve_model_path: a file is itself, a directory what is picked in it.
ResolveModelPath(path, disk) ==
    LET picked == IF <<"", path>> \in DOMAIN disk.dirs
                  THEN PickGguf(disk.dirs[<<"", path>>], NoQuant) ELSE NoFile
    IN  CASE path \in disk.files                        -> Local(path)
          [] path \notin disk.files /\ picked # NoFile  -> Local(picked)
          [] OTHER                                      -> Refused

\* resolve_hf_in_cache, under a cache directory that may lack the repository.
ResolveHfInCache(cache, hf, disk) ==
    IF <<cache, hf.repo>> \in DOMAIN disk.dirs
    THEN PickGguf(disk.dirs[<<cache, hf.repo>>], hf.quant) ELSE NoFile

-----------------------------------------------------------------------------
Elements(names) == {names[i] : i \in 1..Len(names)}

\* A launch never loads another quant than the one asked for while the
\* directory holds the one asked for; what it loads is a model, and if a
\* model is split the launch loads it from its first shard.  The order of
\* the listing decides only between two split models.
PickIsRight(names, q) ==
    LET files  == {f \in Elements(names) : IsGguf(f)}
        wanted == {f \in files : HasQuant(f, q)}
        left   == IF wanted = {} THEN files ELSE wanted
        firsts == {f \in left : IsFirstShard(f)}
        f      == PickGguf(names, q)
    IN  /\ f # NoFile => f \in left
        /\ firsts # {} => f \in firsts
        /\ f = NoFile <=> firsts = {} /\ \A g \in left : left # {g}
=============================================================================
