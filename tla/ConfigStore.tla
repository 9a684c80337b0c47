----------------------------- MODULE ConfigStore -----------------------------
(***************************************************************************)
(* The configuration of an airpcez instance (airpcez/src/config.rs), the   *)
(* handlers that change it (airpcez/src/server.rs) and its start-up        *)
(* (airpcez/src/main.rs).  The program reads airpcez.toml once, applies    *)
(* the command line, and from then on changes the copy in memory; every    *)
(* change writes the whole copy back before it releases the config mutex,  *)
(* so handlers never see each other half done.  Of the settings, ui_port   *)
(* (needed to decide on a restart), role (changed by --worker) and         *)
(* node_name (protected from blanks) are kept; the others behave as        *)
(* ui_port does.                                                           *)
(***************************************************************************)
EXTENDS Naturals, Sequences, SequencesExt, Filters

CONSTANTS
    Tabs,           \* open cockpits
    Ports,          \* values of ui_port
    DefaultPort,
    NodeName,       \* node_name; the host name by default
    Blank,          \* a node_name of blanks
    Hosts,          \* host names or addresses of nodes
    ProfileNodes,   \* the node lists a profile can hold: any that is posted
    WrittenNodes,   \* the node lists a user may have written into airpcez.toml
    MaxNodes,       \* a bound for TLC on config.nodes
    None,           \* a flag not given
    Unreadable      \* a file that does not parse, or no file

\* A node's address is a host with or without a port.
Addrs == Hosts \X {"bare", "port"}

ASSUME ConfigStoreAssumption ==
    /\ DefaultPort \in Ports
    /\ None \notin Ports
    /\ NodeName # Blank
    /\ \A l \in ProfileNodes \cup WrittenNodes : l \in Seq(Addrs)

VARIABLES
    mem,      \* the Config under the mutex
    disk,     \* airpcez.toml: a Config or Unreadable
    up,       \* the program runs
    flags,    \* the command line it was started with
    stash,    \* the node list in each tab's _stashedConfig
    failed    \* history: the last save of this run failed

vars == <<mem, disk, up, flags, stash, failed>>

NodeLists == BoundedSeq(Addrs, MaxNodes)
Configs == [port : Ports, role : {"host", "worker"}, name : {NodeName, Blank}, nodes : NodeLists]
Flags == [port : Ports \cup {None}, worker : BOOLEAN]
NoFlags == [port |-> None, worker |-> FALSE]

Default == [port |-> DefaultPort, role |-> "worker", name |-> NodeName, nodes |-> <<>>]

TypeOK ==
    /\ mem \in Configs
    /\ disk = Unreadable \/ disk \in Configs
    /\ up \in BOOLEAN
    /\ flags \in Flags
    /\ stash \in [Tabs -> NodeLists]
    /\ failed \in BOOLEAN

\* Mutant: load looks for the file where save does not put it.
LoadElsewhere == Default

\* Config::load: whatever does not parse counts as the defaults.
Load == IF disk = Unreadable THEN Default ELSE disk

\* apply_cli_overrides, then --worker.
Override(config, f) ==
    [config EXCEPT !.port = IF f.port = None THEN @ ELSE f.port,
                   !.role = IF f.worker THEN "worker" ELSE @]

Init ==
    /\ disk \in {Unreadable} \cup {[Default EXCEPT !.nodes = l] : l \in WrittenNodes}
    /\ mem = Load
    /\ up = FALSE
    /\ flags = NoFlags
    /\ stash = [t \in Tabs |-> <<>>]
    /\ failed = FALSE

\* main, up to binding the listener to the port it has just loaded.
Boot(f) ==
    /\ ~up
    /\ up' = TRUE
    /\ flags' = f
    /\ mem' = Override(Load, f)
    /\ failed' = FALSE
    /\ UNCHANGED <<disk, stash>>

\* The program is stopped between two requests.
Quit ==
    /\ up
    /\ up' = FALSE
    /\ UNCHANGED <<mem, disk, flags, stash, failed>>

\* Text cut short parses too: the fields it does not reach are the defaults,
\* a port it ends in may be another one, and the nodes come last.
CutShort(config) ==
    {[Default EXCEPT !.port = p] : p \in Ports} \cup
    {[Default EXCEPT !.port = config.port, !.role = config.role]} \cup
    {[config EXCEPT !.nodes = SubSeq(@, 1, k)] : k \in 0..Len(config.nodes)}

\* Config::save under the mutex.  It can fail to open the file, or, once it
\* has truncated it, before all is written.  (To die in it is to fail, then
\* Quit.)
Save(config) ==
    \/ disk' = config /\ failed' = FALSE
    \/ disk' \in {disk, Unreadable} \cup CutShort(config) /\ failed' = TRUE

\* Mutant: the change stays in memory.
ChangeUnsaved(config) ==
    /\ up
    /\ mem' = config
    /\ UNCHANGED <<disk, up, flags, failed>>

Change(config) ==
    /\ up
    /\ mem' = config
    /\ Save(config)
    /\ UNCHANGED <<up, flags>>

NormalizeNodeAddr(addr) == <<addr[1], "port">>

\* Mutant: a node is added whether or not it is listed.
AddAgain(addr) ==
    /\ Len(mem.nodes) < MaxNodes
    /\ Change([mem EXCEPT !.nodes = Append(@, NormalizeNodeAddr(addr))])
    /\ UNCHANGED stash

AddNode(addr) ==
    LET a == NormalizeNodeAddr(addr)
        present == \E i \in DOMAIN mem.nodes : mem.nodes[i] = a
    IN  /\ present \/ Len(mem.nodes) < MaxNodes
        /\ Change([mem EXCEPT !.nodes = IF present THEN @ ELSE Append(@, a)])
        /\ UNCHANGED stash

RemoveNode(addr) ==
    /\ Change([mem EXCEPT !.nodes = Retain(@, LAMBDA n : n # NormalizeNodeAddr(addr))])
    /\ UNCHANGED stash

\* apply_profile and the first half of launch_profile.
ApplyProfile ==
    \E nodes \in ProfileNodes : Change([mem EXCEPT !.nodes = nodes]) /\ UNCHANGED stash

\* A cockpit loads the settings page.
LoadSettings(t) ==
    /\ up
    /\ stash' = [stash EXCEPT ![t] = mem.nodes]
    /\ UNCHANGED <<mem, disk, up, flags, failed>>

\* What btn-save-settings sends: every field of the form, edited or not, and
\* the node list as it was loaded.  (A port field that is emptied sends the
\* port as it was loaded.)  The tab keeps what it has sent.
SettingsBodies(t) ==
    [port : Ports, role : {"host", "worker"}, name : {NodeName, Blank}, nodes : {stash[t]}]

\* Mutant: the request's node list is taken over with the rest.
PostAll(t) ==
    \E body \in SettingsBodies(t) : Change(body) /\ UNCHANGED stash

\* post_config.  The node list in the request is ignored, and so is a blank
\* node_name.
PostConfig(t) ==
    \E body \in SettingsBodies(t) :
        /\ Change([body EXCEPT !.nodes = mem.nodes,
                               !.name = IF @ = Blank THEN mem.name ELSE @])
        /\ UNCHANGED stash

Next ==
    \/ \E f \in Flags : Boot(f)
    \/ Quit
    \/ \E a \in Addrs : AddNode(a) \/ RemoveNode(a)
    \/ ApplyProfile
    \/ \E t \in Tabs : LoadSettings(t) \/ PostConfig(t)

Spec == Init /\ [][Next]_vars

-----------------------------------------------------------------------------
\* Unless the last save failed the file is not behind: it holds what is in
\* memory, or memory is the file under the flags of this run.
DiskAgrees == up /\ ~failed => disk = mem \/ mem = Override(Load, flags)

\* Unless the last save failed, a restart loses no node and no name, whatever
\* its flags; and when neither run has flags it goes unnoticed.
RestartRestores ==
    [][\A f \in Flags : Boot(f) /\ ~failed =>
          /\ mem'.nodes = mem.nodes /\ mem'.name = mem.name
          /\ f = NoFlags /\ flags = NoFlags => mem' = mem]_vars

IsListed(addr, config) == \E i \in DOMAIN config.nodes : config.nodes[i] = addr

\* "nodes are managed only via /nodes" (post_config): apart from applying a
\* profile, and from coming back after a save that failed, a node enters or
\* leaves the list only by a request that names it, whatever stale page is
\* saved and however often the program is stopped and started.
NodesOnlyByRequest ==
    [][~ApplyProfile /\ ~(\E f \in Flags : Boot(f) /\ failed) =>
          \A a \in Addrs : IsListed(a, mem) # IsListed(a, mem)' =>
             \E b \in Addrs : NormalizeNodeAddr(b) = a /\ (AddNode(b) \/ RemoveNode(b))]_vars

Repeats(addr, nodes) ==
    \E i, j \in DOMAIN nodes : i # j /\ nodes[i] = addr /\ nodes[j] = addr

\* Every registered node can be removed by the address it is listed under,
\* and none is registered (polled, and passed to --rpc) twice, unless a list
\* that did not come through /nodes has it so: the handlers for profiles and
\* the reading of the file check nothing.
NodesAreManageable ==
    \A a \in Addrs :
        /\ IsListed(a, mem) /\ NormalizeNodeAddr(a) # a =>
              \E l \in ProfileNodes \cup WrittenNodes : a \in Range(l)
        /\ Repeats(a, mem.nodes) => \E l \in ProfileNodes \cup WrittenNodes : Repeats(a, l)
=============================================================================
