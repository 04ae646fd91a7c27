------------------------------ MODULE Inventory ------------------------------
(***************************************************************************)
(* The inventory of resources and the commands that change it: create,     *)
(* delete, start, stop and "ls --refresh", each a process of its own with  *)
(* its own ResourceManager.  A manager reads the file once, talks to the   *)
(* backend for as long as that takes, and writes the file whole: opened,   *)
(* and thereby emptied, first, and filled then.  "reproman run --follow"   *)
(* stops or deletes through a manager that is as old as the job.           *)
(*                                                                         *)
(* What the backends keep is the set of instances: containers, Singularity *)
(* instances, EC2 machines; ssh and shell resources have none.  An         *)
(* instance is named by the command and the node it was made for.          *)
(***************************************************************************)
EXTENDS Naturals, FiniteSets

CONSTANTS Command,  \* the commands
          Name,     \* the names of resources
          Size,     \* aws-condor: the number of nodes
          Types,    \* the resource types in use
          None      \* no command, name or instance

ASSUME InventoryAssumption ==
    /\ Size \in Nat \ {0}
    /\ Types \subseteq {"docker-container", "singularity", "ssh", "aws-ec2", "aws-condor"}
    /\ None \notin Command /\ None \notin Name /\ None \notin Command \X Nat

VARIABLES
  type,      \* the type of each resource; never changes
  file,      \* what the inventory file held last
  whole,     \* whether it holds that, and is not emptied or garbled
  state,     \* the state of each instance
  tagged,    \* the EC2 instances that have their name tag
  pc, op, name,
  mem,       \* each manager's inventory
  found,     \* the instances a command is connected to, by node
  todo,      \* the nodes it has still to deal with
  outdated,  \* history: commands whose inventory another command has changed since
  raced,     \* history: such a command has written
  forced     \* history: names deleted from the inventory only

shared == <<file, whole>>
backend == <<state, tagged>>
history == <<outdated, raced, forced>>
local == <<op, name, mem, found, todo>>
vars == <<type, shared, backend, pc, local, history>>

Node == 0 .. Size - 1
Instance == Command \X Node
Status == {"none", "pending", "running", "stopped"}
Ops == {"create", "delete", "start", "stop", "refresh"}
Labels == {"idle", "connect", "make", "act", "truncate", "write", "ok", "failed"}

\* An entry names the creator of its instances and the nodes whose ID it has.
Entry == [by : Command, known : SUBSET Node, status : Status]
NoEntry == [by |-> None, known |-> {}, status |-> "none"]
Inventories == [Name -> Entry \cup {NoEntry}]

Ec2(n) == type[n] \in {"aws-ec2", "aws-condor"}
Nodes(n) == IF type[n] = "aws-condor" THEN Node ELSE {0}
Alive(i) == state[i] \in {"pending", "running", "stopped"}

Goto(c, label) == pc' = [pc EXCEPT ![c] = label]
-----------------------------------------------------------------------------
Init ==
    /\ type \in [Name -> Types]
    /\ file = [n \in Name |-> NoEntry] /\ whole = TRUE
    /\ state = [i \in Instance |-> "none"] /\ tagged = {}
    /\ pc = [c \in Command |-> "idle"]
    /\ op = [c \in Command |-> "create"]
    /\ name = [c \in Command |-> None]
    /\ mem = [c \in Command |-> [n \in Name |-> NoEntry]]
    /\ found = [c \in Command |-> [k \in Node |-> None]]
    /\ todo = [c \in Command |-> {}]
    /\ outdated = {} /\ raced = FALSE /\ forced = {}

\* An error, an interrupt or a kill. A file that was opened stays empty.
Cut(c) ==
    /\ pc[c] \notin {"idle", "ok", "failed"}
    /\ Goto(c, "failed")
    /\ UNCHANGED <<type, shared, backend, local, history>>

\* Mutant of Accepts: create does not look for the name.
AcceptsTaken(inventory, o, n) ==
    o \in {"refresh", "create"} \/ inventory[n] # NoEntry

\* Whether the name is one that the command can work on.
Accepts(inventory, o, n) ==
    \/ o = "refresh"
    \/ o = "create" /\ inventory[n] = NoEntry
    \/ o \in {"delete", "start", "stop"} /\ inventory[n] # NoEntry

\* Mutant of Load: an empty file is an empty inventory.
LoadEmpty(c, o, n) ==
    LET inventory == IF whole THEN file ELSE [m \in Name |-> NoEntry]
    IN  /\ pc[c] = "idle"
        /\ op' = [op EXCEPT ![c] = o]
        /\ name' = [name EXCEPT ![c] = n]
        /\ mem' = [mem EXCEPT ![c] = inventory]
        /\ todo' = [todo EXCEPT ![c] = Nodes(n)]
        /\ Goto(c, IF Accepts(inventory, o, n) THEN "connect" ELSE "failed")
        /\ UNCHANGED <<type, shared, backend, found, history>>

\* get_manager() and the look-up of the name. Of an emptied file safe_load()
\* makes None, on which the look-up fails.
Load(c, o, n) ==
    /\ pc[c] = "idle"
    /\ op' = [op EXCEPT ![c] = o]
    /\ name' = [name EXCEPT ![c] = n]
    /\ mem' = [mem EXCEPT ![c] = file]
    /\ todo' = [todo EXCEPT ![c] = Nodes(n)]
    /\ Goto(c, IF whole /\ Accepts(file, o, n) THEN "connect" ELSE "failed")
    /\ UNCHANGED <<type, shared, backend, found, history>>
-----------------------------------------------------------------------------
(* connect() *)

\* What the backend lists under the name: Docker any container, Singularity and
\* EC2 what is running, EC2 by its tag.
ByName(n, k) ==
    {i \in Instance :
        /\ i[2] = k /\ name[i[1]] = n
        /\ \/ type[n] = "docker-container" /\ Alive(i)
           \/ type[n] = "singularity" /\ state[i] = "running"
           \/ Ec2(n) /\ state[i] = "running" /\ i \in tagged}

\* EC2 instances are asked for by their ID where the entry has it, also when
\* they are gone.
ById(e, n, k) ==
    IF Ec2(n) /\ k \in e.known THEN {<<e.by, k>>}
    ELSE {i \in ByName(n, k) : type[n] = "docker-container" => i[1] = e.by}

\* The nodes are connected to one of the candidates, the first that is listed.
Attach(c, candidates) ==
    \E f \in [Node -> Instance \cup {None}] :
        /\ \A k \in Node :
              IF k \in Nodes(name[c]) /\ candidates[k] # {} THEN f[k] \in candidates[k]
                                                            ELSE f[k] = None
        /\ found' = [found EXCEPT ![c] = f]

\* A cluster's entry is saved before there is any node.
ConnectCreate(c) ==
    LET n == name[c]
    IN  /\ pc[c] = "connect" /\ op[c] = "create"
        /\ Attach(c, [k \in Node |-> ByName(n, k)])
        /\ IF type[n] = "aws-condor"
           THEN /\ mem' = [mem EXCEPT ![c][n] = [by |-> c, known |-> {}, status |-> "none"]]
                /\ Goto(c, "truncate")
           ELSE /\ UNCHANGED mem
                /\ Goto(c, IF found'[c][0] # None /\ type[n] # "singularity" THEN "failed" ELSE "make")
        /\ UNCHANGED <<type, shared, backend, op, name, todo, history>>

\* Neither Singularity nor ssh has start() and stop().
ConnectEntry(c) ==
    LET n == name[c]
    IN  /\ pc[c] = "connect" /\ op[c] \in {"delete", "start", "stop"}
        /\ Attach(c, [k \in Node |-> ById(mem[c][n], n, k)])
        /\ Goto(c, IF op[c] # "delete" /\ type[n] \in {"singularity", "ssh"} THEN "ok" ELSE "act")
        /\ UNCHANGED <<type, shared, backend, op, name, mem, todo, history>>

\* ls --refresh: what connect() says of each resource. A cluster's status is left.
Observed(e, n) ==
    LET seen == {state[i] : i \in ById(e, n, 0)} \cap Status
    IN  IF type[n] = "aws-condor" THEN e.status
        ELSE IF seen = {} THEN "none" ELSE CHOOSE s \in seen : TRUE

Refresh(c) ==
    /\ pc[c] = "connect" /\ op[c] = "refresh"
    /\ \E errors \in SUBSET Name :
          mem' = [mem EXCEPT ![c] = [n \in Name |->
              LET e == mem[c][n]
              IN  IF e = NoEntry THEN NoEntry
                  ELSE [e EXCEPT !.status = IF n \in errors THEN "none" ELSE Observed(e, n)]]]
    /\ Goto(c, "truncate")
    /\ UNCHANGED <<type, shared, backend, op, name, found, todo, history>>
-----------------------------------------------------------------------------
(* create() *)

Makes(c, t) == pc[c] = "make" /\ type[name[c]] \in t

\* The backend makes an instance; the nodes of a cluster each in a thread. Docker
\* refuses a name that is taken, EC2 does not. Singularity keeps one that is there.
Make(c, k) ==
    LET n == name[c]
        i == <<c, k>>
        there == ByName(n, k)
    IN  /\ pc[c] = "make" /\ state[i] = "none" /\ k \in Nodes(n)
        /\ type[n] # "ssh"
        /\ IF type[n] = "singularity" /\ there # {}
           THEN \E j \in there : found[c][k] # j /\ found' = [found EXCEPT ![c][k] = j] /\ UNCHANGED state
           ELSE /\ Ec2(n) => found[c][k] = None
                /\ type[n] = "docker-container" => there = {}
                /\ state' = [state EXCEPT ![i] =
                      IF Ec2(n) THEN "pending" ELSE IF type[n] = "singularity" THEN "running" ELSE "stopped"]
                /\ found' = [found EXCEPT ![c][k] = i]
        /\ UNCHANGED <<type, shared, tagged, pc, op, name, mem, todo, history>>

\* create_tags()
Tag(c, k) ==
    /\ Makes(c, {"aws-ec2", "aws-condor"})
    /\ state[<<c, k>>] # "none" /\ <<c, k>> \notin tagged
    /\ tagged' = tagged \cup {<<c, k>>}
    /\ UNCHANGED <<type, shared, state, pc, local, history>>

\* Docker: client.start()
StartContainer(c) ==
    /\ Makes(c, {"docker-container"})
    /\ state[<<c, 0>>] = "stopped"
    /\ state' = [state EXCEPT ![<<c, 0>>] = "running"]
    /\ UNCHANGED <<type, shared, tagged, pc, local, history>>

\* EC2, in its own time
BecomesRunning(i) ==
    /\ state[i] = "pending"
    /\ state' = [state EXCEPT ![i] = "running"]
    /\ UNCHANGED <<type, shared, tagged, pc, local, history>>

\* What a create() yields goes into the inventory, which is then saved. EC2 yields
\* when the instance has its tag and again when it runs.
Yield(c, entry, rest) ==
    /\ mem' = [mem EXCEPT ![c][name[c]] = entry]
    /\ todo' = [todo EXCEPT ![c] = rest]
    /\ Goto(c, "truncate")
    /\ UNCHANGED <<type, shared, backend, op, name, found, history>>

YieldHost(c) ==
    /\ Makes(c, {"ssh"})
    /\ Yield(c, [by |-> c, known |-> {0}, status |-> "none"], {})

YieldContainer(c) ==
    /\ Makes(c, {"docker-container", "singularity"})
    /\ found[c][0] # None /\ state[found[c][0]] = "running"
    /\ Yield(c, [by |-> found[c][0][1], known |-> {0}, status |-> "running"], {})

YieldInstance(c) ==
    LET i == <<c, 0>>
    IN  /\ Makes(c, {"aws-ec2"}) /\ i \in tagged
        /\ 0 \notin todo[c] => state[i] = "running"
        /\ Yield(c, [by |-> c, known |-> {0},
                     status |-> IF 0 \in todo[c] THEN "pending" ELSE "running"], {})

\* A cluster yields its nodes in order, each once it runs, ...
YieldNode(c, k) ==
    /\ Makes(c, {"aws-condor"})
    /\ k \in todo[c] /\ \A j \in todo[c] : k <= j
    /\ <<c, k>> \in tagged /\ state[<<c, k>>] = "running"
    /\ Yield(c, [mem[c][name[c]] EXCEPT !.known = @ \cup {k}], todo[c] \ {k})

\* ... and its status once it is configured.
YieldCluster(c) ==
    /\ Makes(c, {"aws-condor"}) /\ todo[c] = {}
    /\ Yield(c, [mem[c][name[c]] EXCEPT !.status = "running"], {})
-----------------------------------------------------------------------------
(* delete(), start() and stop() *)

\* What the operation makes of an instance, or nothing if that is refused.
Outcome(o, s) ==
    IF o = "delete" THEN {"gone"}
    ELSE IF s \in {"gone", "pending"} THEN {}
    ELSE IF o = "start" THEN {"running"} ELSE {"stopped"}

\* Mutants of Settled: delete leaves an entry without an ID; stop writes "running".
SettledNoId(c) ==
    [mem EXCEPT ![c][name[c]] =
        IF op[c] = "delete" THEN [@ EXCEPT !.by = None]
        ELSE [@ EXCEPT !.status = IF op[c] = "start" THEN "running" ELSE "stopped"]]
SettledRunning(c) ==
    [mem EXCEPT ![c][name[c]] =
        IF op[c] = "delete" THEN NoEntry ELSE [@ EXCEPT !.status = "running"]]

\* ResourceManager: the entry goes, or has its status.
Settled(c) ==
    [mem EXCEPT ![c][name[c]] =
        IF op[c] = "delete" THEN NoEntry
        ELSE [@ EXCEPT !.status = IF op[c] = "start" THEN "running" ELSE "stopped"]]

\* Node by node; the entry is settled after the last one.
Settle(c, k) ==
    /\ todo' = [todo EXCEPT ![c] = @ \ {k}]
    /\ IF todo[c] = {k} THEN mem' = Settled(c) /\ Goto(c, "truncate") ELSE UNCHANGED <<mem, pc>>

\* Mutant of Act: an EC2 instance that was not found is passed over.
ActIfFound(c, k) ==
    /\ pc[c] = "act" /\ k \in todo[c] /\ \A j \in todo[c] : k <= j
    /\ IF found[c][k] = None THEN UNCHANGED state
       ELSE \E s \in Outcome(op[c], state[found[c][k]]) : state' = [state EXCEPT ![found[c][k]] = s]
    /\ Settle(c, k)
    /\ UNCHANGED <<type, shared, tagged, op, name, found, history>>

\* Without an instance Docker and ssh do nothing and succeed; EC2 fails. Docker
\* fails on a container that has gone since connect(), Singularity looks again.
Act(c, k) ==
    LET n == name[c]
        i == found[c][k]
        targets == IF type[n] = "singularity" THEN ByName(n, k) ELSE {i} \ {None}
    IN  /\ pc[c] = "act" /\ k \in todo[c] /\ \A j \in todo[c] : k <= j
        /\ IF targets = {} THEN ~Ec2(n) /\ UNCHANGED state
           ELSE \E j \in targets :
                  /\ type[n] = "docker-container" => state[j] # "gone"
                  /\ \E s \in Outcome(op[c], state[j]) : state' = [state EXCEPT ![j] = s]
        /\ Settle(c, k)
        /\ UNCHANGED <<type, shared, tagged, op, name, found, history>>

\* delete --force, after any error of connect() or of the backend
ForceDelete(c) ==
    /\ pc[c] \in {"connect", "act"} /\ op[c] = "delete"
    /\ mem' = Settled(c)
    /\ forced' = forced \cup {name[c]}
    /\ Goto(c, "truncate")
    /\ UNCHANGED <<type, shared, backend, op, name, found, todo, outdated, raced>>
-----------------------------------------------------------------------------
(* save_inventory() *)

\* open(path, "w")
Truncate(c) ==
    /\ pc[c] = "truncate"
    /\ whole' = FALSE
    /\ Goto(c, "write")
    /\ UNCHANGED <<type, file, backend, local, history>>

\* A creation goes on until its last yield is saved.
Finished(c) ==
    op[c] = "create" /\ Ec2(name[c]) => mem[c][name[c]].status = "running"

\* safe_dump(): over what another command wrote after this one had emptied the
\* file it may leave garbage.
Write(c) ==
    /\ pc[c] = "write"
    /\ file' = mem[c]
    /\ whole' \in IF c \in outdated THEN BOOLEAN ELSE {TRUE}
    /\ Goto(c, IF Finished(c) THEN "ok" ELSE "make")
    /\ raced' = (raced \/ c \in outdated)
    /\ outdated' = (outdated \cup {d \in Command : pc[d] # "idle"}) \ {c}
    /\ UNCHANGED <<type, backend, local, forced>>
-----------------------------------------------------------------------------
Create(c) ==
    \/ ConnectCreate(c) \/ StartContainer(c)
    \/ YieldHost(c) \/ YieldContainer(c) \/ YieldInstance(c) \/ YieldCluster(c)
    \/ \E k \in Node : Make(c, k) \/ Tag(c, k) \/ YieldNode(c, k)

Next ==
    \/ \E c \in Command :
        \/ \E o \in Ops, n \in Name : Load(c, o, n)
        \/ Create(c) \/ ConnectEntry(c) \/ Refresh(c) \/ ForceDelete(c) \/ Cut(c)
        \/ \E k \in Node : Act(c, k)
        \/ Truncate(c) \/ Write(c)
    \/ \E i \in Instance : BecomesRunning(i)

Spec == Init /\ [][Next]_vars
-----------------------------------------------------------------------------
TypeOK ==
    /\ type \in [Name -> Types]
    /\ file \in Inventories /\ whole \in BOOLEAN
    /\ state \in [Instance -> Status \cup {"gone"}] /\ tagged \subseteq Instance
    /\ pc \in [Command -> Labels]
    /\ op \in [Command -> Ops]
    /\ name \in [Command -> Name \cup {None}]
    /\ mem \in [Command -> Inventories]
    /\ found \in [Command -> [Node -> Instance \cup {None}]]
    /\ todo \in [Command -> SUBSET Node]
    /\ outdated \subseteq Command /\ raced \in BOOLEAN /\ forced \subseteq Name

\* What a create command made, and reported as created, is in the inventory for
\* as long as it exists: a manager with an old inventory (or "delete --force") is
\* the only way to forget it.
LiveIsListed ==
    whole /\ ~raced =>
        \A c \in Command, k \in Node :
            LET n == name[c]
            IN  pc[c] = "ok" /\ op[c] = "create" /\ n \notin forced /\ Alive(<<c, k>>)
                    => file[n].by = c /\ k \in file[n].known

\* The status in the inventory is that of the instance, unless a command that
\* changes it did not come to its end.
StatusHasReason ==
    whole /\ ~raced =>
        \A n \in Name :
            LET e == file[n]
                Unfinished(ops) ==
                    \E c \in Command : name[c] = n /\ op[c] \in ops /\ pc[c] # "ok"
            IN  e # NoEntry /\ type[n] \in {"docker-container", "singularity", "aws-ec2"} =>
                  /\ e.status = "stopped" /\ state[<<e.by, 0>>] = "running" => Unfinished({"start"})
                  /\ e.status = "running" /\ state[<<e.by, 0>>] \in {"stopped", "gone"}
                        => Unfinished({"stop", "delete"})

\* Two entries that differ at most in their status.
SameButStatus(e, f) == e.by = f.by /\ e.known = f.known

\* A command whose inventory is the latest changes the entry of its own resource
\* only, or, refreshing, the statuses.
OwnEntryOnly ==
    [][\A c \in Command :
          pc[c] = "write" /\ pc'[c] \in {"ok", "make"} /\ ~raced' =>
              \A n \in Name :
                  IF op[c] = "refresh" THEN SameButStatus(file'[n], file[n])
                                       ELSE n # name[c] => file'[n] = file[n]]_vars

\* The inductive invariant behind it: a command that is under way, and whose
\* inventory no other one has changed, has what the file has for other names.
Active == {"connect", "make", "act", "truncate", "write"}

MemoryIsCurrent ==
    \A c \in Command : pc[c] \in Active /\ c \notin outdated =>
        \A n \in Name :
            IF op[c] = "refresh" THEN SameButStatus(mem[c][n], file[n])
                                 ELSE n # name[c] => mem[c][n] = file[n]

\* A command does what its operation has it do, with an entry to work on where it
\* needs one.
NeedsEntry(c) ==
    \/ op[c] = "create" /\ pc[c] \in {"truncate", "write"}
    \/ pc[c] = "make" /\ type[name[c]] = "aws-condor"
    \/ op[c] \in {"delete", "start", "stop"} /\ pc[c] \in {"connect", "act"}

EntryAtHand ==
    \A c \in Command :
        /\ pc[c] \in Active => name[c] \in Name
        /\ pc[c] = "make" => op[c] = "create"
        /\ pc[c] = "act" => op[c] \in {"delete", "start", "stop"}
        /\ NeedsEntry(c) => mem[c][name[c]] # NoEntry

IInv == TypeOK /\ EntryAtHand /\ MemoryIsCurrent

\* An entry is removed, if not by force, only after every instance that belongs to
\* it has gone: also the nodes of a cluster whose creation was cut, or still goes
\* on, and whose IDs are not saved.
DeleteLeavesNothing ==
    [][\A c \in Command :
          pc[c] = "act" /\ op[c] = "delete" /\ pc'[c] = "truncate" /\ ~raced /\ name[c] \notin forced' =>
              \A k \in Node : state'[<<mem[c][name[c]].by, k>>] \in {"none", "gone"}]_vars
=============================================================================
