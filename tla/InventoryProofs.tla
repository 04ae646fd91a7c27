-------------------------- MODULE InventoryProofs ---------------------------
(***************************************************************************)
(* For any number of commands and resources, and clusters of any size: a   *)
(* command whose inventory no other one has changed since it was read      *)
(* leaves the entries of all other resources alone; and as long as only    *)
(* such inventories are written, what was created is listed for as long as *)
(* it exists, what was deleted has gone, and a status that is not that of  *)
(* the instance has its reason.                                            *)
(*                                                                         *)
(* The invariant that the last three rest on has a part that always holds, *)
(* Places: what each command has in memory, is connected to and has still  *)
(* to deal with, and what instances there are.  Unraced relates the file   *)
(* to the instances, until an inventory that is out of date is written.    *)
(***************************************************************************)
EXTENDS Inventory, TLAPS

USE DEF Goto, shared, backend, history, local

\* What the steps of a command may be. They share the shape of their proofs.
Step(c) ==
    \/ \E o \in Ops, n \in Name : Load(c, o, n)
    \/ Create(c) \/ ConnectEntry(c) \/ Refresh(c) \/ ForceDelete(c) \/ Cut(c)
    \/ \E k \in Node : Act(c, k)
    \/ Truncate(c) \/ Write(c)

\* Nodes and instances are typed; an entry of a command's own is an entry.
LEMMA Typing ==
    /\ \A n \in Name : Nodes(n) \subseteq Node
    /\ 0 \in Node
    /\ \A i \in Instance : i # None /\ i[1] \in Command /\ i[2] \in Node
    /\ \A c \in Command, k \in Node : <<c, k>> \in Instance
    /\ \A n \in Name, k \in Node : ByName(n, k) \subseteq Instance
    /\ NoEntry \in Entry \cup {NoEntry}
    /\ \A c \in Command, s \in Status, K \in SUBSET Node :
          [by |-> c, known |-> K, status |-> s] \in Entry
BY InventoryAssumption DEF Nodes, Node, Instance, ByName, Entry, NoEntry

\* Setting the status, or adding a node, leaves an entry an entry.
LEMMA EntryUpdates ==
    ASSUME NEW e \in Entry
    PROVE  /\ \A s \in Status : [e EXCEPT !.status = s] \in Entry
           /\ \A k \in Node : [e EXCEPT !.known = @ \cup {k}] \in Entry
BY DEF Entry

\* A new status makes no other entry.
LEMMA StatusOnly ==
    ASSUME NEW e \in Entry \cup {NoEntry}, NEW s
    PROVE  SameButStatus([e EXCEPT !.status = s], e)
BY DEF Entry, NoEntry, SameButStatus

\* What the backend says is a status.
LEMMA ObservedStatus ==
    ASSUME NEW n \in Name, NEW e \in Entry
    PROVE  Observed(e, n) \in Status
<1> DEFINE seen == {state[i] : i \in ById(e, n, 0)} \cap Status
<1>1. CASE type[n] = "aws-condor"
      BY <1>1 DEF Observed, Entry
<1>2. CASE type[n] # "aws-condor" /\ seen = {}
      BY <1>2 DEF Observed, Status
<1>3. CASE type[n] # "aws-condor" /\ seen # {}
  <2>1. (CHOOSE s \in seen : TRUE) \in seen
        BY <1>3
  <2> QED BY <1>3, <2>1 DEF Observed
<1> QED BY <1>1, <1>2, <1>3

LEMMA InitInv == Init => IInv
<1> SUFFICES ASSUME Init PROVE IInv
    OBVIOUS
<1> USE DEF Init
<1>1. TypeOK
      BY DEF TypeOK, Inventories, Status, Labels, Ops
<1>2. EntryAtHand /\ MemoryIsCurrent
      BY DEF EntryAtHand, NeedsEntry, MemoryIsCurrent, Active
<1> QED BY <1>1, <1>2 DEF IInv
-----------------------------------------------------------------------------
\* An inventory with one entry changed is one.
LEMMA MemUpdate ==
    ASSUME mem \in [Command -> Inventories], NEW c \in Command, NEW n \in Name,
           NEW e \in Entry \cup {NoEntry}
    PROVE  [mem EXCEPT ![c][n] = e] \in [Command -> Inventories]
BY DEF Inventories

\* What delete, start and stop make of an inventory.
LEMMA SettledType ==
    ASSUME TypeOK, NEW c \in Command, name[c] \in Name,
           op[c] \in {"delete", "start", "stop"}, op[c] # "delete" => mem[c][name[c]] # NoEntry
    PROVE  Settled(c) \in [Command -> Inventories]
<1>1. mem \in [Command -> Inventories] /\ mem[c][name[c]] \in Entry \cup {NoEntry}
      BY DEF TypeOK, Inventories
<1>2. CASE op[c] = "delete"
  <2>1. Settled(c) = [mem EXCEPT ![c][name[c]] = NoEntry]
        BY <1>2 DEF Settled
  <2> QED BY <1>1, <2>1 DEF Inventories
<1>3. CASE op[c] # "delete"
  <2> DEFINE s == IF op[c] = "start" THEN "running" ELSE "stopped"
             e == [mem[c][name[c]] EXCEPT !.status = s]
  <2>1. s \in Status
        BY DEF Status
  <2>2. e \in Entry
        BY <1>1, <1>3, <2>1, EntryUpdates
  <2>3. Settled(c) = [mem EXCEPT ![c][name[c]] = e]
        BY <1>3 DEF Settled
  <2> QED BY <1>1, <2>2, <2>3 DEF Inventories
<1> QED BY <1>2, <1>3

\* A yield keeps the types, if what it yields is an entry.
LEMMA YieldType ==
    ASSUME TypeOK, NEW c \in Command, name[c] \in Name, NEW e \in Entry,
           NEW rest \in SUBSET Node, Yield(c, e, rest)
    PROVE  TypeOK'
<1>1. [mem EXCEPT ![c][name[c]] = e] \in [Command -> Inventories]
      BY MemUpdate DEF TypeOK
<1> QED BY <1>1 DEF Yield, TypeOK, Labels

\* The steps of a creation, with all yields in one.
CreateStep(c) ==
    \/ ConnectCreate(c) \/ StartContainer(c)
    \/ \E k \in Node : Make(c, k) \/ Tag(c, k)
    \/ \E e \in Entry, rest \in SUBSET Node : pc[c] = "make" /\ Yield(c, e, rest)

\* What is yielded is an entry.
LEMMA CreateCases ==
    ASSUME TypeOK, EntryAtHand, NEW c \in Command, Create(c)
    PROVE  CreateStep(c)
<1> USE DEF TypeOK
<1>1. ASSUME NEW e \in Entry, NEW rest \in SUBSET Node, pc[c] = "make", Yield(c, e, rest)
      PROVE  CreateStep(c)
      BY <1>1 DEF CreateStep
<1>2. mem[c][name[c]] \in Entry
         \/ ~(pc[c] = "make" /\ type[name[c]] = "aws-condor")
      BY DEF EntryAtHand, NeedsEntry, Active, Inventories
<1>3. CASE YieldHost(c)
  <2>1. [by |-> c, known |-> {0}, status |-> "none"] \in Entry
        BY Typing DEF Status
  <2> QED BY <1>1, <1>3, <2>1 DEF YieldHost, Makes
<1>4. CASE YieldContainer(c)
  <2>1. found[c][0] \in Instance
        BY <1>4, Typing DEF YieldContainer
  <2>2. [by |-> found[c][0][1], known |-> {0}, status |-> "running"] \in Entry
        BY <2>1, Typing DEF Status
  <2> QED BY <1>1, <1>4, <2>2 DEF YieldContainer, Makes
<1>5. CASE YieldInstance(c)
  <2> DEFINE s == IF 0 \in todo[c] THEN "pending" ELSE "running"
  <2>1. s \in Status
        BY DEF Status
  <2>2. [by |-> c, known |-> {0}, status |-> s] \in Entry
        BY <2>1, Typing
  <2> QED BY <1>1, <1>5, <2>2 DEF YieldInstance, Makes
<1>6. CASE YieldCluster(c)
  <2>1. pc[c] = "make" /\ type[name[c]] = "aws-condor"
        BY <1>6 DEF YieldCluster, Makes
  <2>2. [mem[c][name[c]] EXCEPT !.status = "running"] \in Entry
        BY <1>2, <2>1, EntryUpdates DEF Status
  <2> QED BY <1>1, <1>6, <2>1, <2>2 DEF YieldCluster
<1>7. ASSUME NEW k \in Node, YieldNode(c, k) PROVE CreateStep(c)
  <2>1. pc[c] = "make" /\ type[name[c]] = "aws-condor"
        BY <1>7 DEF YieldNode, Makes
  <2>2. [mem[c][name[c]] EXCEPT !.known = @ \cup {k}] \in Entry /\ todo[c] \ {k} \in SUBSET Node
        BY <1>2, <2>1, EntryUpdates
  <2> QED BY <1>1, <1>7, <2>1, <2>2 DEF YieldNode
<1> QED BY <1>3, <1>4, <1>5, <1>6, <1>7 DEF Create, CreateStep

\* Every step of a creation keeps the types.
LEMMA CreateType ==
    ASSUME TypeOK, EntryAtHand, NEW c \in Command, CreateStep(c)
    PROVE  TypeOK'
<1> USE DEF TypeOK
<1>1. pc[c] \in {"connect", "make"} /\ name[c] \in Name
      BY DEF CreateStep, ConnectCreate, StartContainer, Make, Tag, Makes, EntryAtHand, Active
<1>2. CASE ConnectCreate(c)
  <2> DEFINE e == [by |-> c, known |-> {}, status |-> "none"]
  <2>1. e \in Entry
        BY Typing DEF Status
  <2>2. mem' \in [Command -> Inventories]
    <3>1. mem' = mem \/ mem' = [mem EXCEPT ![c][name[c]] = e]
          BY <1>2 DEF ConnectCreate
    <3> HIDE DEF e
    <3>2. CASE mem' = mem
          BY <3>2
    <3>3. CASE mem' = [mem EXCEPT ![c][name[c]] = e]
          BY <1>1, <2>1, <3>3 DEF Inventories
    <3> QED BY <3>1, <3>2, <3>3
  <2>3. found' \in [Command -> [Node -> Instance \cup {None}]]
        BY <1>2 DEF ConnectCreate, Attach
  <2> QED BY <1>2, <2>2, <2>3 DEF ConnectCreate, Labels
<1>3. CASE StartContainer(c)
      BY <1>3 DEF StartContainer, Status
<1>4. ASSUME NEW k \in Node, Make(c, k) PROVE TypeOK'
  <2>1. found' \in [Command -> [Node -> Instance \cup {None}]]
    <3>1. PICK j \in Instance : found' = [found EXCEPT ![c][k] = j]
          BY <1>1, <1>4, Typing DEF Make
    <3> QED BY <3>1
  <2>2. state' \in [Instance -> Status \cup {"gone"}]
        BY <1>4 DEF Make, Status
  <2> QED BY <1>4, <2>1, <2>2 DEF Make
<1>5. ASSUME NEW k \in Node, Tag(c, k) PROVE TypeOK'
      BY <1>5, Typing DEF Tag
<1>6. ASSUME NEW e \in Entry, NEW rest \in SUBSET Node, pc[c] = "make", Yield(c, e, rest) PROVE TypeOK'
      BY <1>1, <1>6, YieldType
<1> QED BY <1>2, <1>3, <1>4, <1>5, <1>6 DEF CreateStep

\* Act on one node.
LEMMA ActType ==
    ASSUME TypeOK, EntryAtHand, NEW c \in Command, NEW k \in Node, Act(c, k)
    PROVE  TypeOK'
<1> USE DEF TypeOK
<1>1. op[c] \in {"delete", "start", "stop"} /\ name[c] \in Name /\ mem[c][name[c]] # NoEntry
      BY DEF Act, EntryAtHand, NeedsEntry, Active
<1>2. state' \in [Instance -> Status \cup {"gone"}]
  <2>1. \A s : Outcome(op[c], s) \subseteq {"gone", "running", "stopped"}
        BY DEF Outcome
  <2> QED BY <2>1 DEF Act, Status
<1>3. mem' \in [Command -> Inventories]
      BY <1>1, SettledType DEF Act, Settle
<1>4. todo' \in [Command -> SUBSET Node]
      BY DEF Act, Settle
<1> QED BY <1>2, <1>3, <1>4 DEF Act, Settle, Labels

\* A refreshed inventory is one.
LEMMA RefreshType ==
    ASSUME TypeOK, NEW c \in Command, Refresh(c)
    PROVE  TypeOK'
<1> USE DEF TypeOK
<1>1. PICK errors \in SUBSET Name :
         mem' = [mem EXCEPT ![c] = [n \in Name |->
             IF mem[c][n] = NoEntry THEN NoEntry
             ELSE [mem[c][n] EXCEPT !.status =
                      IF n \in errors THEN "none" ELSE Observed(mem[c][n], n)]]]
      BY DEF Refresh
<1>2. ASSUME NEW n \in Name PROVE mem'[c][n] \in Entry \cup {NoEntry}
  <2>1. CASE mem[c][n] = NoEntry
        BY <1>1, <2>1
  <2>2. CASE mem[c][n] # NoEntry
    <3> DEFINE s == IF n \in errors THEN "none" ELSE Observed(mem[c][n], n)
    <3>1. mem[c][n] \in Entry
          BY <2>2 DEF Inventories
    <3>2. s \in Status
          BY <3>1, ObservedStatus DEF Status
    <3>3. [mem[c][n] EXCEPT !.status = s] \in Entry
          BY <3>1, <3>2, EntryUpdates
    <3>4. mem'[c][n] = [mem[c][n] EXCEPT !.status = s]
          BY <1>1, <2>2
    <3> QED BY <3>3, <3>4
  <2> QED BY <2>1, <2>2
<1>3. mem'[c] = [n \in Name |-> mem'[c][n]] /\ mem' = [mem EXCEPT ![c] = mem'[c]]
      BY <1>1
<1>4. mem'[c] \in Inventories
      BY <1>2, <1>3 DEF Inventories
<1>5. mem' \in [Command -> Inventories]
      BY <1>3, <1>4
<1> QED BY <1>5 DEF Refresh, Labels

\* Every step keeps the types.
LEMMA StepType == TypeOK /\ EntryAtHand /\ [Next]_vars => TypeOK'
<1> SUFFICES ASSUME TypeOK, EntryAtHand, [Next]_vars PROVE TypeOK'
    OBVIOUS
<1> USE DEF TypeOK
<1>1. CASE UNCHANGED vars
      BY <1>1 DEF vars
<1>2. ASSUME NEW i \in Instance, BecomesRunning(i) PROVE TypeOK'
      BY <1>2 DEF BecomesRunning, Status
<1> SUFFICES ASSUME NEW c \in Command, Step(c) PROVE TypeOK'
    BY <1>1, <1>2 DEF Next, Step
<1>3. ASSUME NEW o \in Ops, NEW n \in Name, Load(c, o, n) PROVE TypeOK'
      BY <1>3, Typing DEF Load, Labels
<1>4. CASE Create(c)       BY <1>4, CreateCases, CreateType
<1>5. CASE ConnectEntry(c) BY <1>5 DEF ConnectEntry, Attach, Labels
<1>6. CASE Refresh(c)      BY <1>6, RefreshType
<1>7. CASE ForceDelete(c)
  <2>1. mem' \in [Command -> Inventories] /\ name[c] \in Name
        BY <1>7, SettledType DEF ForceDelete, EntryAtHand, Active
  <2> QED BY <1>7, <2>1 DEF ForceDelete, Labels
<1>8. CASE Cut(c)          BY <1>8 DEF Cut, Labels
<1>9. ASSUME NEW k \in Node, Act(c, k) PROVE TypeOK'
      BY <1>9, ActType
<1>10. CASE Truncate(c)    BY <1>10 DEF Truncate, Labels
<1>11. CASE Write(c)
  <2>1. mem[c] \in Inventories
        OBVIOUS
  <2> QED BY <1>11, <2>1 DEF Write, Labels
<1> QED BY <1>3, <1>4, <1>5, <1>6, <1>7, <1>8, <1>9, <1>10, <1>11 DEF Step
-----------------------------------------------------------------------------
\* A command's step does not touch what is local to others, and only Write touches
\* what the file held.
LEMMA Locality ==
    ASSUME TypeOK, NEW c \in Command, Step(c)
    PROVE  /\ \A d \in Command \ {c} :
                 pc'[d] = pc[d] /\ op'[d] = op[d] /\ name'[d] = name[d] /\ mem'[d] = mem[d]
           /\ type' = type
           /\ Write(c) \/ (file' = file /\ outdated' = outdated)
<1> USE DEF TypeOK
<1>1. ASSUME NEW e, NEW rest, Yield(c, e, rest)
      PROVE  /\ \A d \in Command \ {c} :
                   pc'[d] = pc[d] /\ op'[d] = op[d] /\ name'[d] = name[d] /\ mem'[d] = mem[d]
             /\ type' = type /\ file' = file /\ outdated' = outdated
      BY <1>1 DEF Yield
<1>2. CASE Create(c)
      BY <1>1, <1>2 DEF Create, ConnectCreate, StartContainer, YieldHost, YieldContainer,
             YieldInstance, YieldCluster, YieldNode, Make, Tag
<1>3. CASE Refresh(c) \/ ConnectEntry(c) \/ Cut(c) \/ Truncate(c) \/ Write(c)
      BY <1>3 DEF Refresh, ConnectEntry, Cut, Truncate, Write
<1>4. CASE \E o \in Ops, n \in Name : Load(c, o, n)
      BY <1>4 DEF Load
<1>5. \A d \in Command \ {c} : Settled(c)[d] = mem[d]
      BY DEF Settled
<1>6. CASE ForceDelete(c)
      BY <1>5, <1>6 DEF ForceDelete
<1>7. CASE \E k \in Node : Act(c, k)
      BY <1>5, <1>7 DEF Act, Settle
<1> QED BY <1>2, <1>3, <1>4, <1>6, <1>7 DEF Step

\* A step keeps the entries that commands work on.
LEMMA StepAtHand ==
    ASSUME TypeOK, EntryAtHand, [Next]_vars
    PROVE  EntryAtHand'
<1> USE DEF TypeOK, EntryAtHand, NeedsEntry, Active
<1>1. CASE UNCHANGED vars
      BY <1>1 DEF vars
<1>2. CASE \E i \in Instance : BecomesRunning(i)
      BY <1>2 DEF BecomesRunning
<1> SUFFICES ASSUME NEW c \in Command, Step(c) PROVE EntryAtHand'
    BY <1>1, <1>2 DEF Next, Step
<1> DEFINE Fine(d) ==
        /\ pc[d] \in Active => name[d] \in Name
        /\ pc[d] = "make" => op[d] = "create"
        /\ pc[d] = "act" => op[d] \in {"delete", "start", "stop"}
        /\ NeedsEntry(d) => mem[d][name[d]] # NoEntry
<1>3. \A d \in Command \ {c} : Fine(d)'
      BY Locality
<1>4. \A e \in Entry : e # NoEntry
      BY InventoryAssumption DEF Entry, NoEntry
<1>5. ASSUME NEW o \in Ops, NEW n \in Name, Load(c, o, n) PROVE Fine(c)'
      BY <1>5 DEF Load, Accepts, Ops
<1>6. ASSUME ConnectCreate(c) PROVE Fine(c)'
  <2> DEFINE e == [by |-> c, known |-> {}, status |-> "none"]
  <2>1. e \in Entry /\ e # NoEntry
        BY <1>4, Typing DEF Status
  <2>2. name[c] \in Name /\ name'[c] = name[c] /\ op'[c] = "create" /\ type' = type
        BY <1>6 DEF ConnectCreate
  <2>3. CASE type[name[c]] = "aws-condor"
    <3>1. mem' = [mem EXCEPT ![c][name[c]] = e] /\ pc'[c] = "truncate"
          BY <1>6, <2>3 DEF ConnectCreate
    <3>2. mem'[c][name[c]] = e
      <4> HIDE DEF e
      <4> QED BY <2>2, <3>1 DEF Inventories
    <3> QED BY <2>1, <2>2, <3>1, <3>2
  <2>4. CASE type[name[c]] # "aws-condor"
    <3>1. pc'[c] \in {"failed", "make"}
          BY <1>6, <2>4 DEF ConnectCreate
    <3> QED BY <2>2, <2>4, <3>1
  <2> QED BY <2>3, <2>4
<1>7. ASSUME StartContainer(c) \/ \E k \in Node : Make(c, k) \/ Tag(c, k) PROVE Fine(c)'
      BY <1>7 DEF StartContainer, Make, Tag, Makes
<1>8. ASSUME NEW e \in Entry, NEW rest, pc[c] = "make", Yield(c, e, rest) PROVE Fine(c)'
  <2>1. name[c] \in Name /\ mem'[c][name[c]] = e /\ name'[c] = name[c] /\ op'[c] = op[c]
        BY <1>8 DEF Yield, Inventories
  <2> QED BY <1>4, <1>8, <2>1 DEF Yield
<1>9. ASSUME Create(c) PROVE Fine(c)'
      BY <1>6, <1>7, <1>8, <1>9, CreateCases DEF CreateStep
<1>10. ASSUME ConnectEntry(c) \/ Refresh(c) \/ ForceDelete(c) PROVE Fine(c)'
      BY <1>10 DEF ConnectEntry, Refresh, ForceDelete
<1>11. ASSUME Cut(c) \/ Truncate(c) PROVE Fine(c)'
      BY <1>11 DEF Cut, Truncate
<1>12. ASSUME NEW k \in Node, Act(c, k) PROVE Fine(c)'
      BY <1>12 DEF Act, Settle
<1>13. ASSUME Write(c) PROVE Fine(c)'
      BY <1>13 DEF Write, Finished
<1>14. Fine(c)'
      BY <1>5, <1>9, <1>10, <1>11, <1>12, <1>13 DEF Step
<1> QED BY <1>3, <1>14
-----------------------------------------------------------------------------
\* After its look-up a command keeps its operation and its name. It changes its
\* own entry, or, refreshing, the statuses.
OwnEntry(c) ==
    /\ op'[c] = op[c] /\ name'[c] = name[c]
    /\ pc'[c] \in Active => pc[c] \in Active
    /\ \A n \in Name :
          IF op[c] = "refresh" THEN SameButStatus(mem'[c][n], mem[c][n])
                               ELSE n # name[c] => mem'[c][n] = mem[c][n]

LEMMA ChangesOwnEntry ==
    ASSUME TypeOK, EntryAtHand, NEW c \in Command, Step(c),
           ~ \E o \in Ops, n \in Name : Load(c, o, n)
    PROVE  OwnEntry(c)
<1> USE DEF TypeOK, Active, OwnEntry
<1>1. ASSUME mem' = mem, op' = op, name' = name, pc[c] \in Active PROVE OwnEntry(c)
      BY <1>1 DEF SameButStatus
<1>2. ASSUME NEW e, op[c] # "refresh", pc[c] \in Active, op' = op, name' = name,
             mem' = [mem EXCEPT ![c][name[c]] = e]
      PROVE  OwnEntry(c)
      BY <1>2 DEF Inventories
<1>3. CASE Create(c)
  <2>1. CreateStep(c)
        BY <1>3, CreateCases
  <2>2. CASE ConnectCreate(c)
    <3> DEFINE e == [by |-> c, known |-> {}, status |-> "none"]
    <3>1. mem' = mem \/ mem' = [mem EXCEPT ![c][name[c]] = e]
          BY <2>2 DEF ConnectCreate
    <3>2. op[c] = "create" /\ pc[c] = "connect" /\ op' = op /\ name' = name
          BY <2>2 DEF ConnectCreate
    <3>3. op[c] # "refresh" /\ pc[c] \in Active
          BY <3>2
    <3> HIDE DEF e, OwnEntry, Active
    <3> QED BY <1>1, <1>2, <3>1, <3>2, <3>3
  <2>3. CASE StartContainer(c) \/ \E k \in Node : Make(c, k) \/ Tag(c, k)
        BY <1>1, <2>3 DEF StartContainer, Make, Tag, Makes
  <2>4. ASSUME NEW e \in Entry, NEW rest, pc[c] = "make", Yield(c, e, rest) PROVE OwnEntry(c)
    <3>1. op[c] = "create"
          BY <2>4 DEF EntryAtHand
    <3> QED BY <1>2, <2>4, <3>1 DEF Yield
  <2> QED BY <2>1, <2>2, <2>3, <2>4 DEF CreateStep
<1>4. CASE ConnectEntry(c) \/ Cut(c) \/ Truncate(c) \/ Write(c)
      BY <1>1, <1>4 DEF ConnectEntry, Cut, Truncate, Write, Labels
<1>5. CASE Refresh(c)
  <2>1. PICK s \in [Name -> Status] :
           \A n \in Name : mem'[c][n] = mem[c][n] \/ mem'[c][n] = [mem[c][n] EXCEPT !.status = s[n]]
    <3>1. PICK errors \in SUBSET Name :
             mem' = [mem EXCEPT ![c] = [n \in Name |->
                 IF mem[c][n] = NoEntry THEN NoEntry
                 ELSE [mem[c][n] EXCEPT !.status =
                          IF n \in errors THEN "none" ELSE Observed(mem[c][n], n)]]]
          BY <1>5 DEF Refresh
    <3> DEFINE s == [n \in Name |->
            IF n \in errors \/ mem[c][n] = NoEntry THEN "none" ELSE Observed(mem[c][n], n)]
    <3>2. s \in [Name -> Status]
          BY ObservedStatus DEF Status, Inventories
    <3>3. \A n \in Name : mem'[c][n] = mem[c][n] \/ mem'[c][n] = [mem[c][n] EXCEPT !.status = s[n]]
          BY <3>1
    <3> QED BY <3>2, <3>3
  <2>2. \A n \in Name : SameButStatus(mem'[c][n], mem[c][n])
    <3> SUFFICES ASSUME NEW n \in Name PROVE SameButStatus(mem'[c][n], mem[c][n])
        OBVIOUS
    <3>1. mem[c][n] \in Entry \cup {NoEntry}
          BY DEF Inventories
    <3>2. SameButStatus([mem[c][n] EXCEPT !.status = s[n]], mem[c][n])
          BY <3>1, StatusOnly
    <3>3. SameButStatus(mem[c][n], mem[c][n])
          BY DEF SameButStatus
    <3> QED BY <2>1, <3>2, <3>3
  <2> QED BY <1>5, <2>2 DEF Refresh
<1>6. ASSUME op[c] # "refresh", pc[c] \in Active, op' = op, name' = name, mem' = Settled(c)
      PROVE  OwnEntry(c)
      BY <1>2, <1>6 DEF Settled
<1>7. CASE ForceDelete(c)
      BY <1>6, <1>7 DEF ForceDelete
<1>8. CASE \E k \in Node : Act(c, k)
  <2>1. op[c] # "refresh" /\ pc[c] \in Active
        BY <1>8 DEF Act, EntryAtHand
  <2> QED BY <1>1, <1>6, <1>8, <2>1 DEF Act, Settle
<1> QED BY <1>3, <1>4, <1>5, <1>7, <1>8 DEF Step

\* A step keeps the inventories current that are said to be.
LEMMA StepCurrent ==
    ASSUME IInv, [Next]_vars
    PROVE  MemoryIsCurrent'
<1> USE DEF IInv, TypeOK, Active
<1>1. CASE UNCHANGED vars
      BY <1>1 DEF vars, MemoryIsCurrent
<1>2. CASE \E i \in Instance : BecomesRunning(i)
      BY <1>2 DEF BecomesRunning, MemoryIsCurrent
<1> SUFFICES ASSUME NEW c \in Command, Step(c),
                    NEW d \in Command, pc'[d] \in Active, d \notin outdated', NEW n \in Name
             PROVE  IF op'[d] = "refresh" THEN SameButStatus(mem'[d][n], file'[n])
                                          ELSE n # name'[d] => mem'[d][n] = file'[n]
    BY <1>1, <1>2 DEF Next, Step, MemoryIsCurrent
<1>3. CASE Write(c)
  <2>1. d = c /\ op[c] = "create"
        BY <1>3 DEF Write, Finished
  <2> QED BY <1>3, <2>1 DEF Write
<1>4. CASE ~Write(c) /\ d # c
      BY <1>4, Locality DEF MemoryIsCurrent
<1>5. ASSUME NEW o \in Ops, NEW m \in Name, Load(c, o, m), d = c
      PROVE  mem'[d][n] = file'[n]
      BY <1>5 DEF Load
<1>6. CASE ~Write(c) /\ d = c /\ ~ \E o \in Ops, m \in Name : Load(c, o, m)
  <2>1. OwnEntry(c) /\ file' = file /\ outdated' = outdated
        BY <1>6, ChangesOwnEntry, Locality
  <2>2. IF op[c] = "refresh" THEN SameButStatus(mem[c][n], file[n])
                             ELSE n # name[c] => mem[c][n] = file[n]
        BY <1>6, <2>1 DEF OwnEntry, MemoryIsCurrent
  <2> QED BY <1>6, <2>1, <2>2 DEF OwnEntry, SameButStatus
<1> QED BY <1>3, <1>4, <1>5, <1>6 DEF SameButStatus
-----------------------------------------------------------------------------
\* The inductive invariant holds of every reachable state.
THEOREM Inductive == Spec => []IInv
<1>1. IInv /\ [Next]_vars => IInv'
      BY StepType, StepAtHand, StepCurrent DEF IInv
<1> QED BY InitInv, <1>1, PTL DEF Spec

\* The types, for any commands, resources and instances.
THEOREM InventoryType == Spec => []TypeOK
<1>1. IInv => TypeOK
      BY DEF IInv
<1> QED BY Inductive, <1>1, PTL

\* A save of an inventory that no one else has changed since it was read changes
\* the entry of the command's own resource only.
THEOREM OwnEntryCorrect == Spec => OwnEntryOnly
<1> DEFINE Own(c) ==
        pc[c] = "write" /\ pc'[c] \in {"ok", "make"} /\ ~raced' =>
            \A n \in Name :
                IF op[c] = "refresh" THEN SameButStatus(file'[n], file[n])
                                     ELSE n # name[c] => file'[n] = file[n]
<1>1. IInv /\ [Next]_vars => [\A c \in Command : Own(c)]_vars
  <2> SUFFICES ASSUME IInv, Next, NEW c \in Command,
                      pc[c] = "write", pc'[c] \in {"ok", "make"}, ~raced', NEW n \in Name
               PROVE  IF op[c] = "refresh" THEN SameButStatus(file'[n], file[n])
                                           ELSE n # name[c] => file'[n] = file[n]
      OBVIOUS
  <2> USE DEF IInv, TypeOK
  <2>1. Write(c)
    <3>1. ~ \E i \in Instance : BecomesRunning(i)
          BY DEF BecomesRunning
    <3>2. PICK d \in Command : Step(d)
          BY <3>1 DEF Next, Step
    <3>3. d = c
          BY <3>2, Locality
    <3>4. ~Create(c)
      <4>1. ~CreateStep(c)
            BY DEF CreateStep, ConnectCreate, StartContainer, Make, Tag, Makes
      <4> QED BY <4>1, CreateCases
    <3> QED BY <3>2, <3>3, <3>4 DEF Step, Load, ConnectEntry, Refresh, ForceDelete, Cut, Act, Truncate
  <2>2. c \notin outdated /\ file' = mem[c]
        BY <2>1 DEF Write
  <2> QED BY <2>2 DEF MemoryIsCurrent, Active
<1> QED BY Inductive, <1>1, PTL DEF OwnEntryOnly, Spec
-----------------------------------------------------------------------------
(* The entries of the inventory and the instances.                           *)

Single(n) == type[n] \in {"docker-container", "singularity", "aws-ec2"}

\* Only a creation makes instances, for the nodes of its own resource.
Made ==
    /\ \A i \in tagged : state[i] # "none"
    /\ \A i \in Instance : state[i] # "none" =>
        /\ op[i[1]] = "create" /\ name[i[1]] \in Name /\ pc[i[1]] \notin {"idle", "connect"}
        /\ type[name[i[1]]] # "ssh" /\ i[2] \in Nodes(name[i[1]])
        /\ type[name[i[1]]] = "singularity" => state[i] \in {"running", "gone"}

\* Of a name there is one Singularity instance at a time.
OneRunning ==
    \A i, j \in Instance :
        (/\ state[i] = "running" /\ state[j] = "running" /\ name[i[1]] = name[j[1]]
         /\ type[name[i[1]]] = "singularity") => i = j

\* An entry names a creation of its resource, and nodes that were made.
Listable(e, n) ==
    e # NoEntry =>
        /\ e.by \in Command /\ name[e.by] = n /\ op[e.by] = "create"
        /\ pc[e.by] \notin {"idle", "connect"}
        /\ Single(n) => 0 \in e.known
        /\ type[n] # "ssh" => \A k \in e.known : state[<<e.by, k>>] # "none"
Entries == \A n \in Name : Listable(file[n], n) /\ \A c \in Command : Listable(mem[c][n], n)

\* A creation that has saved nothing yet, ...
Creates(c) == pc[c] \in Active /\ op[c] = "create"
Unsaved(c) ==
    LET n == name[c] IN
    \/ pc[c] = "connect"
    \/ (pc[c] = "make" /\ type[n] # "aws-condor" /\ (type[n] = "aws-ec2" => 0 \in todo[c]))
    \/ /\ pc[c] \in {"truncate", "write"}
       /\ type[n] = "aws-ec2" => mem[c][n].status = "pending"
       /\ type[n] = "aws-condor" => mem[c][n].known = {}

\* ... of whose instance no one else knows.
Private ==
    \A c \in Command :
        Creates(c) /\ Unsaved(c) /\ type[name[c]] \in {"docker-container", "aws-ec2"} =>
            /\ type[name[c]] = "aws-ec2" => state[<<c, 0>>] # "gone"
            /\ \A n \in Name :
                  /\ file[n].by # c
                  /\ \A d \in Command : d # c \/ pc[c] \in {"connect", "make"} => mem[d][n].by # c

\* What a command is connected to belongs to its resource.
Connected(c) ==
    /\ \A k \in Node :
          LET i == found[c][k] IN
          i # None => name[i[1]] = name[c] /\ i[2] = k /\ state[i] # "none" /\ pc[c] # "idle"
    /\ pc[c] = "connect" => todo[c] = Nodes(name[c])
    /\ IF pc[c] = "idle" THEN name[c] = None ELSE name[c] \in Name

\* What a creation has in its own inventory is what it has made.
OwnMade(c) ==
    LET n == name[c]
        e == mem[c][n]
    IN  /\ pc[c] \in {"truncate", "write"} \/ (pc[c] = "make" /\ type[n] = "aws-condor") =>
              /\ type[n] # "singularity" => e.by = c
              /\ type[n] = "singularity" => found[c][0] # None /\ e.by = found[c][0][1]
              /\ type[n] = "aws-condor" => /\ e.known = Node \ todo[c]
                                           /\ e.status = "running" => todo[c] = {}
        /\ pc[c] \in {"truncate", "write"} /\ type[n] = "aws-ec2" => 0 \notin todo[c]
        /\ pc[c] = "make" /\ type[n] = "docker-container" => found[c][0] \in {None, <<c, 0>>}
        /\ type[n] = "singularity" /\ state[<<c, 0>>] # "none" => found[c][0] = <<c, 0>>

\* Of the entry of its own resource, too, a command with the latest inventory has
\* what the file has.
OwnIsCurrent(c) ==
    LET n == name[c] IN
    /\ op[c] \in {"delete", "start", "stop"} /\ pc[c] \in {"connect", "act"} => mem[c][n] = file[n]
    /\ op[c] \in {"start", "stop"} => file[n] # NoEntry /\ SameButStatus(mem[c][n], file[n])
    /\ op[c] = "delete" => /\ file[n] # NoEntry
                           /\ pc[c] \in {"truncate", "write"} => mem[c][n] = NoEntry
    /\ op[c] = "create" => IF Unsaved(c) THEN file[n] = NoEntry ELSE file[n].by = c

\* What start, stop and delete work on is the instance of the entry.
Target(c) ==
    LET n == name[c]
        i == <<mem[c][n].by, 0>>
    IN  /\ type[n] = "docker-container" => found[c][0] = i \/ (found[c][0] = None /\ state[i] = "gone")
        /\ type[n] = "aws-ec2" => found[c][0] = i
        /\ type[n] \in {"singularity", "ssh"} => op[c] = "delete"
        /\ todo[c] \subseteq Nodes(n)

Place(c) ==
    /\ Connected(c)
    /\ Creates(c) => OwnMade(c)
    /\ pc[c] \in Active /\ c \notin outdated => OwnIsCurrent(c)
    /\ pc[c] = "act" => Target(c)

Places == Made /\ OneRunning /\ Entries /\ Private /\ \A c \in Command : Place(c)

\* As long as no command has written over what it did not know of, ...
Gone(c, n) == \A k \in Nodes(n) : state[<<c, k>>] = "gone"

\* ... the nodes of a cluster are listed, or there are none;
Cluster(c) ==
    LET n == name[c] IN
    pc[c] # "idle" /\ op[c] = "create" /\ type[n] = "aws-condor" /\ n \notin forced =>
        \/ file[n].by = c
        \/ (\A k \in Node : ~Alive(<<c, k>>)) /\ (pc[c] = "make" => Gone(c, n))

\* ... what was reported as created is listed;
Created(c) ==
    LET n == name[c] IN
    pc[c] = "ok" /\ op[c] = "create" =>
        /\ n \notin forced => \A k \in Node : Alive(<<c, k>>) => file[n].by = c
        /\ type[n] = "aws-condor" /\ file[n].by = c => file[n].known = Node

\* ... what a delete command removes the entry of has gone;
Deleting(c) ==
    LET n == name[c]
        e == mem[c][n]
    IN  /\ pc[c] \in {"connect", "act"} /\ type[n] = "aws-condor" =>
              file[n].by = e.by \/ Gone(e.by, n)
        /\ pc[c] = "act" /\ type[n] = "aws-condor" => \A k \in Node :
              /\ found[c][k] # None => found[c][k][1] = e.by \/ Gone(e.by, n)
              /\ k \notin todo[c] => found[c][k] # None /\ state[found[c][k]] = "gone"
        /\ pc[c] \in {"truncate", "write"} /\ c \notin outdated /\ type[n] # "ssh" => Gone(file[n].by, n)
Deletes(c) == pc[c] \in Active /\ op[c] = "delete" /\ name[c] \notin forced

\* ... and a status that is not that of the instance has a reason, a command of W.
Unfinished(n, ops, W) == \E c \in W : name[c] = n /\ op[c] \in ops /\ pc[c] # "ok"
Excused(e, n, W) ==
    LET s == state[<<e.by, 0>>] IN
    e # NoEntry /\ Single(n) =>
        /\ type[n] = "singularity" => e.status # "stopped"
        /\ e.status = "stopped" => s # "pending" /\ (s = "running" => Unfinished(n, {"start"}, W))
        /\ e.status = "running" /\ s = "stopped" => Unfinished(n, {"stop", "delete"}, W)
        /\ s = "gone" => Unfinished(n, {"delete"}, W)
ToWrite(c, n) ==
    pc[c] \in {"truncate", "write"} /\ c \notin outdated /\ (op[c] = "refresh" \/ n = name[c])
Reasons ==
    \A n \in Name : /\ Excused(file[n], n, Command)
                    /\ \A c \in Command : ToWrite(c, n) => Excused(mem[c][n], n, Command \ {c})

Unraced ==
    /\ \A c \in Command : Cluster(c) /\ Created(c) /\ (Deletes(c) => Deleting(c))
    /\ Reasons
BackendIInv == IInv /\ Places /\ (~raced => Unraced)
-----------------------------------------------------------------------------
\* A command keeps its operation and its name, and does not come back to where
\* it began.
LEMMA Keeps ==
    ASSUME TypeOK, [Next]_vars
    PROVE  /\ type' = type /\ forced \subseteq forced'
           /\ \A d \in Command : pc[d] # "idle" =>
                 /\ op'[d] = op[d] /\ name'[d] = name[d] /\ pc'[d] # "idle"
                 /\ pc[d] # "connect" => pc'[d] # "connect"
<1> USE DEF TypeOK
<1>1. CASE UNCHANGED vars
      BY <1>1 DEF vars
<1>2. CASE \E i \in Instance : BecomesRunning(i)
      BY <1>2 DEF BecomesRunning
<1>3. ASSUME NEW c \in Command, Step(c)
      PROVE  /\ type' = type /\ forced \subseteq forced'
             /\ pc[c] # "idle" =>
                  /\ op'[c] = op[c] /\ name'[c] = name[c] /\ pc'[c] # "idle"
                  /\ pc[c] # "connect" => pc'[c] # "connect"
  <2>1. ASSUME NEW e, NEW rest, Yield(c, e, rest)
        PROVE  /\ type' = type /\ forced' = forced /\ op' = op /\ name' = name
               /\ pc' = [pc EXCEPT ![c] = "truncate"]
        BY <2>1 DEF Yield
  <2>2. CASE ConnectCreate(c)
        BY <2>2 DEF ConnectCreate
  <2>3. CASE StartContainer(c) \/ \E k \in Node : Make(c, k) \/ Tag(c, k)
        BY <2>3 DEF StartContainer, Make, Tag
  <2>4. CASE YieldHost(c) \/ YieldContainer(c) \/ YieldInstance(c) \/ YieldCluster(c)
             \/ \E k \in Node : YieldNode(c, k)
        BY <2>1, <2>4 DEF YieldHost, YieldContainer, YieldInstance, YieldCluster, YieldNode
  <2>5. CASE \E o \in Ops, n \in Name : Load(c, o, n)
        BY <2>5 DEF Load
  <2>6. CASE ConnectEntry(c) \/ Refresh(c) \/ ForceDelete(c) \/ Cut(c) \/ Truncate(c) \/ Write(c)
        BY <2>6 DEF ConnectEntry, Refresh, ForceDelete, Cut, Truncate, Write
  <2>7. CASE \E k \in Node : Act(c, k)
        BY <2>7 DEF Act, Settle
  <2> QED BY <1>3, <2>2, <2>3, <2>4, <2>5, <2>6, <2>7 DEF Step, Create
<1>4. ASSUME NEW c \in Command, Step(c), NEW d \in Command, d # c
      PROVE  op'[d] = op[d] /\ name'[d] = name[d] /\ pc'[d] = pc[d]
      BY <1>4, Locality
<1> QED BY <1>1, <1>2, <1>3, <1>4 DEF Next, Step

\* Where a command's step leaves the instances of its own alone.
LEMMA OnlyMakesAndActs ==
    ASSUME TypeOK, NEW c \in Command, Step(c),
           ~StartContainer(c), \A k \in Node : ~Make(c, k) /\ ~Act(c, k)
    PROVE  state' = state
<1>1. ASSUME NEW e, NEW rest, Yield(c, e, rest) PROVE state' = state
      BY <1>1 DEF Yield
<1>2. CASE Create(c)
      BY <1>1, <1>2 DEF Create, ConnectCreate, YieldHost, YieldContainer, YieldInstance,
             YieldCluster, YieldNode, Tag
<1> QED BY <1>2 DEF Step, Load, ConnectEntry, Refresh, ForceDelete, Cut, Truncate, Write

\* What delete, start or stop do to an instance.
ActsOn(c, i) ==
    /\ pc[c] = "act" /\ state'[i] \in Outcome(op[c], state[i])
    /\ \E k \in Node :
          /\ Act(c, k)
          /\ IF type[name[c]] = "singularity" THEN i \in ByName(name[c], k) ELSE i = found[c][k]

\* Why the state of an instance changes.
LEMMA WhyChanged ==
    ASSUME TypeOK, [Next]_vars, NEW i \in Instance, state'[i] # state[i]
    PROVE  \/ state[i] = "none" /\ Make(i[1], i[2])
           \/ state[i] = "pending" /\ state'[i] = "running"
           \/ state[i] = "stopped" /\ state'[i] = "running" /\ StartContainer(i[1])
           \/ \E c \in Command : ActsOn(c, i)
<1> USE DEF TypeOK
<1>1. CASE UNCHANGED vars
      BY <1>1 DEF vars
<1>2. CASE \E j \in Instance : BecomesRunning(j)
      BY <1>2 DEF BecomesRunning
<1> SUFFICES ASSUME NEW c \in Command, Step(c)
             PROVE  \/ state[i] = "none" /\ Make(i[1], i[2])
                    \/ state[i] = "stopped" /\ state'[i] = "running" /\ StartContainer(i[1])
                    \/ \E d \in Command : ActsOn(d, i)
    BY <1>1, <1>2 DEF Next, Step
<1>3. CASE StartContainer(c)
  <2>1. i = <<c, 0>>
        BY <1>3 DEF StartContainer
  <2>2. state[<<c, 0>>] = "stopped" /\ state'[i] = "running"
        BY <1>3, <2>1 DEF StartContainer
  <2> QED BY <1>3, <2>1, <2>2
<1>4. ASSUME NEW k \in Node, Make(c, k) PROVE state[i] = "none" /\ Make(i[1], i[2])
  <2>1. i = <<c, k>> /\ state[<<c, k>>] = "none"
        BY <1>4 DEF Make, Instance
  <2> QED BY <1>4, <2>1
<1>5. ASSUME NEW k \in Node, Act(c, k) PROVE ActsOn(c, i)
  <2>1. PICK j \in IF type[name[c]] = "singularity" THEN ByName(name[c], k) ELSE {found[c][k]} \ {None} :
           \E s \in Outcome(op[c], state[j]) : state' = [state EXCEPT ![j] = s]
        BY <1>5 DEF Act
  <2>2. i = j /\ pc[c] = "act"
        BY <1>5, <2>1 DEF Act
  <2>3. state'[i] \in Outcome(op[c], state[i])
        BY <2>1, <2>2
  <2> QED BY <1>5, <2>1, <2>2, <2>3 DEF ActsOn
<1> QED BY <1>3, <1>4, <1>5, OnlyMakesAndActs

\* They do it to instances of the command's own resource.
LEMMA ActsOnOwn ==
    ASSUME TypeOK, EntryAtHand, \A d \in Command : Place(d),
           NEW c \in Command, NEW i \in Instance, ActsOn(c, i)
    PROVE  /\ name[c] \in Name /\ name[i[1]] = name[c] /\ state[i] # "none"
           /\ type[name[c]] = "singularity" => op[c] = "delete" /\ state'[i] = "gone"
<1>1. pc[c] = "act" /\ name[c] \in Name /\ Target(c) /\ Connected(c)
      BY DEF ActsOn, EntryAtHand, Active, Place
<1>2. PICK k \in Node : IF type[name[c]] = "singularity" THEN i \in ByName(name[c], k)
                                                        ELSE i = found[c][k]
      BY DEF ActsOn
<1>3. name[i[1]] = name[c] /\ state[i] # "none"
      BY <1>1, <1>2, Typing DEF ByName, Connected
<1>4. type[name[c]] = "singularity" => op[c] = "delete"
      BY <1>1 DEF Target
<1>5. op[c] = "delete" => state'[i] = "gone"
      BY DEF ActsOn, Outcome
<1> QED BY <1>1, <1>3, <1>4, <1>5

\* What has gone does not come back, and what was made was made.
LEMMA Lasting ==
    ASSUME TypeOK, EntryAtHand, \A c \in Command : Place(c), [Next]_vars, NEW i \in Instance
    PROVE  /\ state[i] # "none" => state'[i] # "none"
           /\ state[i] = "gone" => state'[i] = "gone"
           /\ Alive(i)' => Alive(i) \/ (state[i] = "none" /\ Make(i[1], i[2]))
<1>1. CASE state'[i] = state[i]
      BY <1>1 DEF Alive
<1>2. CASE state'[i] # state[i]
  <2>1. ASSUME NEW c \in Command, ActsOn(c, i)
        PROVE  /\ state[i] # "none" /\ state'[i] # "none"
               /\ state[i] = "gone" => state'[i] = "gone"
    <3>1. state'[i] \in {"gone", "running", "stopped"}
          BY <2>1 DEF ActsOn, Outcome
    <3>2. state[i] = "gone" => state'[i] = "gone"
          BY <2>1 DEF ActsOn, Outcome
    <3>4. state[i] # "none"
          BY <2>1, ActsOnOwn
    <3> QED BY <3>1, <3>2, <3>4
  <2>2. state'[i] # "none"
    <3>1. ASSUME Make(i[1], i[2]), state[i] = "none" PROVE state'[i] # "none"
          BY <1>2, <3>1
    <3> QED BY <1>2, <2>1, <3>1, WhyChanged
  <2> QED BY <1>2, <2>1, <2>2, WhyChanged DEF Alive, TypeOK, Status
<1> QED BY <1>1, <1>2

\* An entry that names a creation and its nodes goes on to do so.
LEMMA ListableKept ==
    ASSUME TypeOK, EntryAtHand, \A c \in Command : Place(c), [Next]_vars,
           NEW e \in Entry \cup {NoEntry}, NEW n \in Name, Listable(e, n)
    PROVE  Listable(e, n)'
<1> SUFFICES ASSUME e # NoEntry PROVE Listable(e, n)'
    BY DEF Listable
<1>1. e \in Entry /\ e.by \in Command /\ e.known \subseteq Node
      BY DEF Entry
<1>2. /\ name[e.by] = n /\ op[e.by] = "create" /\ pc[e.by] \notin {"idle", "connect"}
      /\ Single(n) => 0 \in e.known
      /\ type[n] # "ssh" => \A k \in e.known : state[<<e.by, k>>] # "none"
      BY DEF Listable
<1>3. type[n] # "ssh" => \A k \in e.known : state'[<<e.by, k>>] # "none"
      BY <1>1, <1>2, Lasting DEF Instance
<1>4. type' = type /\ name'[e.by] = n /\ op'[e.by] = "create" /\ pc'[e.by] \notin {"idle", "connect"}
      BY <1>1, <1>2, Keeps
<1> QED BY <1>1, <1>2, <1>3, <1>4 DEF Listable, Single
-----------------------------------------------------------------------------
\* A name tag is given to what was made.
LEMMA TaggedIsMade ==
    ASSUME TypeOK, [Next]_vars
    PROVE  \A i \in tagged' : i \in Instance /\ (i \in tagged \/ state[i] # "none")
<1> USE DEF TypeOK
<1>1. CASE UNCHANGED vars \/ \E i \in Instance : BecomesRunning(i)
      BY <1>1 DEF vars, BecomesRunning
<1> SUFFICES ASSUME NEW c \in Command, Step(c)
             PROVE  \A i \in tagged' : i \in Instance /\ (i \in tagged \/ state[i] # "none")
    BY <1>1 DEF Next, Step
<1>2. ASSUME NEW e, NEW rest, Yield(c, e, rest) PROVE tagged' = tagged
      BY <1>2 DEF Yield
<1>3. CASE Create(c)
  <2>1. ASSUME NEW k \in Node, Tag(c, k)
        PROVE  tagged' = tagged \cup {<<c, k>>} /\ state[<<c, k>>] # "none" /\ <<c, k>> \in Instance
        BY <2>1, Typing DEF Tag
  <2>2. CASE ~ \E k \in Node : Tag(c, k)
    <3>1. tagged' = tagged
          BY <1>2, <1>3, <2>2 DEF Create, ConnectCreate, StartContainer, Make, YieldHost,
                 YieldContainer, YieldInstance, YieldCluster, YieldNode
    <3> QED BY <3>1
  <2> QED BY <2>1, <2>2
<1>4. CASE ~Create(c)
      BY <1>4 DEF Step, Load, ConnectEntry, Refresh, ForceDelete, Cut, Act, Truncate, Write
<1> QED BY <1>3, <1>4

\* An instance is one of the resource that its creator makes.
LEMMA StepMade ==
    ASSUME IInv, Places, [Next]_vars
    PROVE  Made' /\ OneRunning'
<1> USE DEF IInv, Places
<1>1. ASSUME NEW i \in Instance, state[i] = "none", Make(i[1], i[2])
      PROVE  /\ op[i[1]] = "create" /\ name[i[1]] \in Name /\ pc[i[1]] = "make"
             /\ type[name[i[1]]] # "ssh" /\ i[2] \in Nodes(name[i[1]])
             /\ type[name[i[1]]] = "singularity" => state'[i] \in {"none", "running"}
             /\ type[name[i[1]]] = "singularity" /\ state'[i] = "running" =>
                    ByName(name[i[1]], i[2]) = {} /\ \A j \in Instance \ {i} : state'[j] = state[j]
  <2>1. i[1] \in Command /\ i[2] \in Node /\ i = <<i[1], i[2]>>
        BY DEF Instance
  <2>2. pc[i[1]] = "make" /\ type[name[i[1]]] # "ssh" /\ i[2] \in Nodes(name[i[1]])
        BY <1>1 DEF Make
  <2>3. op[i[1]] = "create" /\ name[i[1]] \in Name
        BY <2>1, <2>2 DEF EntryAtHand, Active
  <2>4. type[name[i[1]]] = "singularity" =>
            /\ state'[i] \in {"none", "running"}
            /\ state'[i] = "running" =>
                   ByName(name[i[1]], i[2]) = {} /\ \A j \in Instance \ {i} : state'[j] = state[j]
        BY <1>1, <2>1 DEF Make, TypeOK, Ec2
  <2> QED BY <2>2, <2>3, <2>4
<1>2. ASSUME NEW i \in Instance, state'[i] # "none", state[i] = "none"
      PROVE  Make(i[1], i[2])
      BY <1>2, WhyChanged, ActsOnOwn
<1>3. ASSUME NEW i \in Instance, state[i] # "none", type[name[i[1]]] = "singularity"
      PROVE  state'[i] = state[i] \/ state'[i] = "gone"
  <2>1. state[i] \in {"running", "gone"}
        BY <1>3 DEF Made
  <2>2. ASSUME NEW c \in Command, ActsOn(c, i) PROVE state'[i] = "gone"
        BY <1>3, <2>2, ActsOnOwn
  <2> QED BY <2>1, <2>2, WhyChanged
<1>4. ASSUME NEW i \in Instance, state'[i] # "none"
      PROVE  /\ op'[i[1]] = "create" /\ name'[i[1]] = name[i[1]] /\ name[i[1]] \in Name
             /\ pc'[i[1]] \notin {"idle", "connect"}
             /\ type[name[i[1]]] # "ssh" /\ i[2] \in Nodes(name[i[1]])
             /\ type[name[i[1]]] = "singularity" => state'[i] \in {"running", "gone"}
  <2>1. i[1] \in Command
        BY DEF Instance
  <2>2. /\ op[i[1]] = "create" /\ name[i[1]] \in Name /\ pc[i[1]] \notin {"idle", "connect"}
        /\ type[name[i[1]]] # "ssh" /\ i[2] \in Nodes(name[i[1]])
        BY <1>1, <1>2, <1>4 DEF Made
  <2>3. type[name[i[1]]] = "singularity" => state'[i] \in {"running", "gone"}
        BY <1>1, <1>2, <1>3, <1>4 DEF Made
  <2> QED BY <2>1, <2>2, <2>3, Keeps
<1>5. type' = type
      BY Keeps
<1>6. Made'
  <2>1. ASSUME NEW i \in tagged' PROVE state'[i] # "none" /\ i \in Instance
        BY <2>1, TaggedIsMade, Lasting DEF Made, TypeOK
  <2> QED BY <1>4, <1>5, <2>1 DEF Made, Nodes
<1>7. ASSUME NEW i \in Instance, NEW j \in Instance,
             state'[i] = "running", state'[j] = "running", name'[i[1]] = name'[j[1]],
             type[name'[i[1]]] = "singularity", i # j, state[i] = "none"
      PROVE  FALSE
  <2>1. /\ name'[i[1]] = name[i[1]] /\ name'[j[1]] = name[j[1]] /\ i[2] = j[2]
        BY <1>4, <1>7 DEF Nodes
  <2>2. Make(i[1], i[2])
        BY <1>2, <1>7
  <2>3. ByName(name[i[1]], i[2]) = {} /\ state[j] = "running"
        BY <1>1, <1>7, <2>1, <2>2
  <2>4. j \in ByName(name[i[1]], i[2])
        BY <1>7, <2>1, <2>3 DEF ByName
  <2> QED BY <2>3, <2>4
<1>8. OneRunning'
  <2> SUFFICES ASSUME NEW i \in Instance, NEW j \in Instance,
                      state'[i] = "running", state'[j] = "running", name'[i[1]] = name'[j[1]],
                      type[name'[i[1]]] = "singularity", i # j
               PROVE  FALSE
      BY <1>5 DEF OneRunning
  <2>1. state[i] # "none" /\ state[j] # "none"
        BY <1>7
  <2>2. name'[i[1]] = name[i[1]] /\ name'[j[1]] = name[j[1]]
        BY <1>4
  <2>3. state[i] = "running" /\ state[j] = "running"
        BY <1>3, <2>1, <2>2
  <2> QED BY <2>2, <2>3 DEF OneRunning
<1> QED BY <1>6, <1>8
-----------------------------------------------------------------------------
\* An entry with another status names what the one before did.
LEMMA SameListable ==
    ASSUME NEW e \in Entry, NEW f \in Entry \cup {NoEntry}, NEW n \in Name,
           SameButStatus(e, f), Listable(f, n)
    PROVE  Listable(e, n) /\ f # NoEntry
<1>1. f # NoEntry
      BY InventoryAssumption DEF SameButStatus, Entry, NoEntry
<1> QED BY <1>1 DEF SameButStatus, Listable

\* What the steps of a creation put into its inventory.
LEMMA YieldsListable ==
    ASSUME IInv, Places, NEW c \in Command, NEW e \in Entry, NEW rest \in SUBSET Node,
           Yield(c, e, rest),
           \/ YieldHost(c) \/ YieldContainer(c) \/ YieldInstance(c) \/ YieldCluster(c)
           \/ \E k \in Node : YieldNode(c, k)
    PROVE  /\ name[c] \in Name /\ pc[c] = "make" /\ op[c] = "create" /\ Listable(e, name[c])
           /\ type[name[c]] # "singularity" => e.by = c
           /\ type[name[c]] = "singularity" => found[c][0] # None /\ e.by = found[c][0][1]
<1> USE DEF IInv, Places
<1> DEFINE n == name[c]
<1>1. pc[c] = "make" /\ n \in Name /\ op[c] = "create" /\ e = mem'[c][n]
  <2>1. pc[c] = "make"
        BY DEF YieldHost, YieldContainer, YieldInstance, YieldCluster, YieldNode, Makes
  <2>2. n \in Name /\ op[c] = "create"
        BY <2>1 DEF EntryAtHand, Active
  <2> QED BY <2>1, <2>2 DEF Yield, TypeOK, Inventories
<1> HIDE DEF n
<1>2. OwnMade(c) /\ Connected(c) /\ Listable(mem[c][n], n)
      BY <1>1 DEF Place, Creates, Active, Entries
<1>3. e.by \in Command /\ e # NoEntry
      BY InventoryAssumption DEF Entry, NoEntry
<1>4. CASE YieldHost(c)
  <2>1. e.by = c /\ type[n] = "ssh"
        BY <1>1, <1>4 DEF YieldHost, Makes, Yield, TypeOK, Inventories, n
  <2> QED BY <1>1, <1>3, <2>1 DEF Listable, Single, n
<1>5. CASE YieldContainer(c)
  <2>1. /\ e.by = found[c][0][1] /\ e.known = {0} /\ type[n] \in {"docker-container", "singularity"}
        /\ found[c][0] # None
        BY <1>1, <1>5 DEF YieldContainer, Makes, Yield, TypeOK, Inventories, n
  <2>2. found[c][0] \in Instance /\ state[found[c][0]] # "none" /\ name[e.by] = n
        /\ found[c][0] = <<e.by, 0>>
        BY <1>2, <2>1, Typing DEF Connected, TypeOK, Instance, n
  <2>3. op[e.by] = "create" /\ pc[e.by] \notin {"idle", "connect"}
        BY <2>1, <2>2 DEF Made
  <2>4. type[n] = "docker-container" => e.by = c
        BY <1>1, <1>2, <2>1 DEF OwnMade, n
  <2> QED BY <1>1, <1>3, <2>1, <2>2, <2>3, <2>4 DEF Listable, Single, n
<1>6. CASE YieldInstance(c)
  <2>1. e.by = c /\ e.known = {0} /\ type[n] = "aws-ec2" /\ <<c, 0>> \in tagged
        BY <1>1, <1>6 DEF YieldInstance, Makes, Yield, TypeOK, Inventories, n
  <2> QED BY <1>1, <1>3, <2>1 DEF Listable, Single, Made, n
<1>7. ASSUME type[n] = "aws-condor", e.by = mem[c][n].by,
             \A k \in e.known : k \in mem[c][n].known \/ state[<<c, k>>] # "none"
      PROVE  Listable(e, n) /\ e.by = c
  <2>1. mem[c][n].by = c
        BY <1>1, <1>2, <1>7 DEF OwnMade, n
  <2>2. \A k \in mem[c][n].known : state[<<c, k>>] # "none"
        BY <1>2, <1>7, <2>1, InventoryAssumption DEF Listable, NoEntry
  <2> QED BY <1>1, <1>3, <1>7, <2>1, <2>2 DEF Listable, Single, n
<1>11. ASSUME NEW f, mem' = [mem EXCEPT ![c][name[c]] = f] PROVE e = f
      BY <1>1, <1>11 DEF TypeOK, Inventories, n
<1>8. mem[c][n] \in Entry \/ type[n] # "aws-condor"
      BY <1>1 DEF EntryAtHand, NeedsEntry, TypeOK, Inventories, n
<1>9. CASE YieldCluster(c)
  <2>1. type[n] = "aws-condor" /\ e = [mem[c][n] EXCEPT !.status = "running"]
        BY <1>1, <1>9 DEF YieldCluster, Makes, Yield, TypeOK, Inventories, n
  <2>2. e.by = mem[c][n].by /\ e.known = mem[c][n].known
        BY <1>8, <2>1 DEF Entry
  <2>3. Listable(e, n) /\ e.by = c
        BY <1>7, <2>1, <2>2
  <2> QED BY <1>1, <2>1, <2>3 DEF n
<1>10. ASSUME NEW k \in Node, YieldNode(c, k)
       PROVE  Listable(e, n) /\ e.by = c /\ type[n] = "aws-condor"
  <2>1. /\ type[n] = "aws-condor" /\ e = [mem[c][n] EXCEPT !.known = @ \cup {k}]
        /\ state[<<c, k>>] = "running"
    <3>1. mem' = [mem EXCEPT ![c][name[c]] = [mem[c][name[c]] EXCEPT !.known = @ \cup {k}]]
          BY <1>10 DEF YieldNode, Yield
    <3>2. e = [mem[c][name[c]] EXCEPT !.known = @ \cup {k}]
          BY <1>11, <3>1
    <3> QED BY <1>10, <3>2 DEF YieldNode, Makes, n
  <2>2. e.by = mem[c][n].by /\ e.known = mem[c][n].known \cup {k}
        BY <1>8, <2>1 DEF Entry
  <2> QED BY <1>7, <2>1, <2>2
<1>12. CASE \E k \in Node : YieldNode(c, k)
      BY <1>1, <1>10, <1>12 DEF n
<1> QED BY <1>4, <1>5, <1>6, <1>9, <1>12

\* What a creation yields is typed.
LEMMA YieldingTyped ==
    ASSUME TypeOK, EntryAtHand, NEW c \in Command,
           \/ YieldHost(c) \/ YieldContainer(c) \/ YieldInstance(c) \/ YieldCluster(c)
           \/ \E k \in Node : YieldNode(c, k)
    PROVE  \E e \in Entry, rest \in SUBSET Node : Yield(c, e, rest)
<1>1. CreateStep(c)
      BY CreateCases DEF Create
<1>2. pc[c] = "make" /\ pc' = [pc EXCEPT ![c] = "truncate"]
      BY DEF YieldHost, YieldContainer, YieldInstance, YieldCluster, YieldNode, Makes, Yield
<1>3. pc'[c] = "truncate"
      BY <1>2 DEF TypeOK
<1> QED BY <1>1, <1>2, <1>3 DEF CreateStep, ConnectCreate, StartContainer, Make, Tag

\* What "ls --refresh" makes of an entry.
LEMMA RefreshedEntries ==
    ASSUME TypeOK, NEW c \in Command, Refresh(c), NEW n \in Name
    PROVE  IF mem[c][n] = NoEntry THEN mem'[c][n] = NoEntry
           ELSE /\ mem[c][n] \in Entry /\ mem'[c][n] \in Entry
                /\ SameButStatus(mem'[c][n], mem[c][n])
                /\ mem'[c][n].status \in {"none", Observed(mem[c][n], n)}
<1>1. PICK errors \in SUBSET Name :
         mem' = [mem EXCEPT ![c] = [m \in Name |->
             IF mem[c][m] = NoEntry THEN NoEntry
             ELSE [mem[c][m] EXCEPT !.status =
                      IF m \in errors THEN "none" ELSE Observed(mem[c][m], m)]]]
      BY DEF Refresh
<1> DEFINE s == IF n \in errors THEN "none" ELSE Observed(mem[c][n], n)
<1>2. mem'[c][n] = IF mem[c][n] = NoEntry THEN NoEntry ELSE [mem[c][n] EXCEPT !.status = s]
      BY <1>1 DEF TypeOK
<1>3. mem[c][n] \in Entry \cup {NoEntry}
      BY DEF TypeOK, Inventories
<1> SUFFICES ASSUME mem[c][n] # NoEntry
             PROVE  /\ mem[c][n] \in Entry /\ mem'[c][n] \in Entry
                    /\ SameButStatus(mem'[c][n], mem[c][n])
                    /\ mem'[c][n].status \in {"none", Observed(mem[c][n], n)}
    BY <1>2
<1>4. mem[c][n] \in Entry
      BY <1>3
<1>5. s \in Status /\ s \in {"none", Observed(mem[c][n], n)}
      BY <1>4, ObservedStatus DEF Status
<1> HIDE DEF s
<1>6. [mem[c][n] EXCEPT !.status = s] \in Entry /\ [mem[c][n] EXCEPT !.status = s].status = s
      BY <1>4, <1>5 DEF Entry
<1>7. mem'[c][n] = [mem[c][n] EXCEPT !.status = s]
      BY <1>2
<1>8. SameButStatus([mem[c][n] EXCEPT !.status = s], mem[c][n])
      BY <1>4, <1>5, StatusOnly
<1>9. SameButStatus(mem'[c][n], mem[c][n])
      BY <1>7, <1>8
<1>10. mem'[c][n] \in Entry /\ mem'[c][n].status = s
      BY <1>6, <1>7
<1> QED BY <1>4, <1>5, <1>9, <1>10

\* What a step of a command makes of an entry of its inventory.
LEMMA NewEntries ==
    ASSUME IInv, Places, NEW c \in Command, Step(c), NEW n \in Name
    PROVE  \/ mem'[c][n] = mem[c][n] /\ ~ \E o \in Ops, m \in Name : Load(c, o, m)
           \/ mem'[c][n] = NoEntry
           \/ mem'[c][n] = file[n] /\ \E o \in Ops, m \in Name : Load(c, o, m)
           \/ /\ SameButStatus(mem'[c][n], mem[c][n]) /\ mem'[c][n] \in Entry
              /\ op[c] # "create"
           \/ /\ n = name[c] /\ mem'[c][n].by = c /\ mem'[c][n].known = {}
              /\ ConnectCreate(c) /\ type[n] = "aws-condor"
           \/ /\ n = name[c] /\ pc[c] = "make" /\ op[c] = "create" /\ Listable(mem'[c][n], n)
              /\ mem'[c][n] \in Entry
              /\ IF type[n] = "singularity" THEN found[c][0] # None /\ mem'[c][n].by = found[c][0][1]
                                            ELSE mem'[c][n].by = c
<1> USE DEF IInv
<1>1. mem \in [Command -> Inventories] /\ \A m \in Name : mem[c][m] \in Entry \cup {NoEntry}
      BY DEF TypeOK, Inventories
<1>2. CASE \E o \in Ops, m \in Name : Load(c, o, m)
      BY <1>1, <1>2 DEF Load
<1>3. CASE ConnectCreate(c)
  <2> DEFINE e == [by |-> c, known |-> {}, status |-> "none"]
  <2>1. e.by = c /\ e.known = {} /\ ~ \E o \in Ops, m \in Name : Load(c, o, m)
        BY <1>3 DEF ConnectCreate, Load
  <2>2. mem' = mem \/ (type[name[c]] = "aws-condor" /\ mem' = [mem EXCEPT ![c][name[c]] = e])
        BY <1>3 DEF ConnectCreate
  <2> HIDE DEF e
  <2> QED BY <1>1, <1>3, <2>1, <2>2 DEF Inventories
<1>4. CASE mem' = mem /\ ~ \E o \in Ops, m \in Name : Load(c, o, m)
      BY <1>4
<1>5. ASSUME NEW e \in Entry, NEW rest \in SUBSET Node, Yield(c, e, rest),
             \/ YieldHost(c) \/ YieldContainer(c) \/ YieldInstance(c) \/ YieldCluster(c)
             \/ \E k \in Node : YieldNode(c, k)
      PROVE  \/ mem'[c][n] = mem[c][n] /\ ~ \E o \in Ops, m \in Name : Load(c, o, m)
             \/ /\ n = name[c] /\ pc[c] = "make" /\ op[c] = "create" /\ Listable(mem'[c][n], n)
                /\ mem'[c][n] \in Entry
                /\ IF type[n] = "singularity" THEN found[c][0] # None /\ mem'[c][n].by = found[c][0][1]
                                              ELSE mem'[c][n].by = c
  <2>1. /\ name[c] \in Name /\ pc[c] = "make" /\ op[c] = "create" /\ Listable(e, name[c])
        /\ IF type[name[c]] = "singularity" THEN found[c][0] # None /\ e.by = found[c][0][1]
                                            ELSE e.by = c
        BY <1>5, YieldsListable
  <2>2. mem' = [mem EXCEPT ![c][name[c]] = e]
        BY <1>5 DEF Yield
  <2>3. ~ \E o \in Ops, m \in Name : Load(c, o, m)
        BY <2>1 DEF Load
  <2> QED BY <1>1, <2>1, <2>2, <2>3 DEF Inventories
<1>6. CASE YieldHost(c) \/ YieldContainer(c) \/ YieldInstance(c) \/ YieldCluster(c)
           \/ \E k \in Node : YieldNode(c, k)
      BY <1>5, <1>6, YieldingTyped
<1>7. CASE Refresh(c)
      BY <1>1, <1>7, RefreshedEntries DEF Refresh
<1>8. ASSUME name[c] \in Name, op[c] \in {"delete", "start", "stop"}, mem' = Settled(c),
             op[c] # "delete" => mem[c][name[c]] # NoEntry, pc[c] # "idle"
      PROVE  \/ mem'[c][n] = mem[c][n] /\ ~ \E o \in Ops, m \in Name : Load(c, o, m)
             \/ mem'[c][n] = NoEntry
             \/ SameButStatus(mem'[c][n], mem[c][n]) /\ mem'[c][n] \in Entry /\ op[c] # "create"
  <2>1. ~ \E o \in Ops, m \in Name : Load(c, o, m)
        BY <1>8 DEF Load
  <2>2. CASE n # name[c]
        BY <1>1, <1>8, <2>1, <2>2 DEF Settled, Inventories
  <2>3. CASE n = name[c] /\ op[c] = "delete"
        BY <1>1, <1>8, <2>3 DEF Settled, Inventories
  <2>4. CASE n = name[c] /\ op[c] # "delete"
    <3> DEFINE s == IF op[c] = "start" THEN "running" ELSE "stopped"
               e == [mem[c][n] EXCEPT !.status = s]
    <3>1. mem'[c][n] = e /\ mem[c][n] \in Entry /\ s \in Status
          BY <1>1, <1>8, <2>4 DEF Settled, Inventories, Status
    <3>2. e \in Entry /\ SameButStatus(e, mem[c][n])
          BY <3>1, EntryUpdates, StatusOnly
    <3> QED BY <1>8, <3>1, <3>2
  <2> QED BY <2>2, <2>3, <2>4
<1>9. CASE ForceDelete(c)
  <2>1. name[c] \in Name /\ op[c] = "delete" /\ mem' = Settled(c) /\ pc[c] # "idle"
        BY <1>9 DEF ForceDelete, EntryAtHand, Active
  <2> QED BY <1>8, <2>1
<1>10. CASE \E k \in Node : Act(c, k)
  <2>1. /\ name[c] \in Name /\ op[c] \in {"delete", "start", "stop"} /\ pc[c] = "act"
        /\ mem[c][name[c]] # NoEntry
        BY <1>10 DEF Act, EntryAtHand, NeedsEntry, Active
  <2>2. mem' = mem \/ mem' = Settled(c)
        BY <1>10 DEF Act, Settle
  <2>3. ~ \E o \in Ops, m \in Name : Load(c, o, m)
        BY <2>1 DEF Load
  <2> QED BY <1>4, <1>8, <2>1, <2>2, <2>3
<1>11. CASE \/ StartContainer(c) \/ ConnectEntry(c) \/ Cut(c) \/ Truncate(c) \/ Write(c)
            \/ \E k \in Node : Make(c, k) \/ Tag(c, k)
  <2>1. mem' = mem /\ pc[c] # "idle"
        BY <1>11 DEF StartContainer, ConnectEntry, Cut, Truncate, Write, Make, Tag, Makes
  <2> QED BY <1>4, <2>1 DEF Load
<1> QED BY <1>2, <1>3, <1>6, <1>7, <1>9, <1>10, <1>11 DEF Step, Create
-----------------------------------------------------------------------------
\* The entries of all inventories name creations, and what these have made.
LEMMA StepEntries ==
    ASSUME IInv, Places, [Next]_vars
    PROVE  Entries'
<1> USE DEF IInv, Places
<1>1. \A n \in Name : /\ file[n] \in Entry \cup {NoEntry}
                      /\ \A c \in Command : mem[c][n] \in Entry \cup {NoEntry}
      BY DEF TypeOK, Inventories
<1>0. ASSUME NEW f \in Entry \cup {NoEntry}, NEW n \in Name, Listable(f, n)
      PROVE  Listable(f, n)'
      BY <1>0, ListableKept
<1>2. \A c \in Command, n \in Name : mem'[c][n] = mem[c][n] => Listable(mem[c][n], n)'
  <2> TAKE c \in Command, n \in Name
  <2>1. PICK f \in Entry \cup {NoEntry} : f = mem[c][n]
        BY <1>1
  <2>2. Listable(f, n)
        BY <2>1 DEF Entries
  <2>3. Listable(f, n)'
        BY <1>0, <2>2
  <2> QED BY <2>1, <2>3 DEF Listable
<1>3. \A n \in Name : file'[n] = file[n] => Listable(file[n], n)'
  <2> TAKE n \in Name
  <2>1. PICK f \in Entry \cup {NoEntry} : f = file[n]
        BY <1>1
  <2>2. Listable(f, n)
        BY <2>1 DEF Entries
  <2>3. Listable(f, n)'
        BY <1>0, <2>2
  <2> QED BY <2>1, <2>3 DEF Listable
<1>4. CASE UNCHANGED vars \/ \E i \in Instance : BecomesRunning(i)
  <2>1. mem' = mem /\ file' = file
        BY <1>4 DEF vars, BecomesRunning
  <2> QED BY <1>2, <1>3, <2>1 DEF Entries
<1> SUFFICES ASSUME NEW c \in Command, Step(c) PROVE Entries'
    BY <1>4 DEF Next, Step
<1>5. ASSUME NEW n \in Name PROVE Listable(file[n], n)' /\ Listable(mem[c][n], n)'
  <2> DEFINE e == mem'[c][n]
  <2>1. \A f \in {mem[c][n], file[n], NoEntry} : Listable(f, n)
        BY DEF Entries, Listable
  <2>2. file'[n] \in {file[n], mem[c][n]}
        BY Locality DEF Write
  <2>3. CASE e \in {mem[c][n], NoEntry, file[n]}
    <3>1. \A f \in {mem[c][n], file[n], NoEntry} : Listable(f, n)'
          BY <1>1, <2>1, ListableKept
    <3> QED BY <2>2, <2>3, <3>1 DEF Listable
  <2>4. ASSUME Listable(e, n), e \in Entry
        PROVE  Listable(file[n], n)' /\ Listable(mem[c][n], n)'
    <3> HIDE DEF e
    <3>1. \A f \in {mem[c][n], file[n], e} : Listable(f, n)'
          BY <1>1, <2>1, <2>4, ListableKept
    <3> QED BY <2>2, <3>1 DEF Listable, e
  <2>5. CASE SameButStatus(e, mem[c][n]) /\ e \in Entry
        BY <1>1, <2>1, <2>4, <2>5, SameListable
  <2>6. CASE n = name[c] /\ e.by = c /\ e.known = {} /\ ConnectCreate(c) /\ type[n] = "aws-condor"
    <3>1. /\ name'[c] = n /\ op'[c] = "create" /\ pc'[c] \in {"truncate", "make", "failed"}
          /\ type' = type
          BY <2>6, Keeps DEF ConnectCreate, TypeOK
    <3>2. Listable(mem[c][n], n)'
          BY <2>6, <3>1 DEF Listable, Single
    <3>3. \A f \in {mem[c][n], file[n]} : Listable(f, n)'
          BY <1>1, <2>1, ListableKept
    <3> QED BY <2>2, <3>2, <3>3 DEF Listable
  <2> QED BY <2>3, <2>4, <2>5, <2>6, NewEntries
<1>6. ASSUME NEW d \in Command \ {c}, NEW n \in Name PROVE Listable(mem[d][n], n)'
      BY <1>2, <1>6, Locality
<1> QED BY <1>5, <1>6 DEF Entries

\* What else is local to a command.
LEMMA LocalToo ==
    ASSUME TypeOK, NEW c \in Command, Step(c), NEW d \in Command \ {c}
    PROVE  found'[d] = found[d] /\ todo'[d] = todo[d]
<1> USE DEF TypeOK
<1>1. ASSUME NEW e, NEW rest, Yield(c, e, rest) PROVE found'[d] = found[d] /\ todo'[d] = todo[d]
      BY <1>1 DEF Yield
<1>2. CASE Create(c)
      BY <1>1, <1>2 DEF Create, ConnectCreate, Attach, StartContainer, YieldHost, YieldContainer,
             YieldInstance, YieldCluster, YieldNode, Make, Tag
<1> QED BY <1>2 DEF Step, Load, ConnectEntry, Attach, Refresh, ForceDelete, Cut, Act, Settle, Truncate, Write

\* After its look-up a command that is under way is where it was.
LEMMA OwnSteps ==
    ASSUME IInv, NEW c \in Command, Step(c), ~ \E o \in Ops, n \in Name : Load(c, o, n)
    PROVE  pc[c] \in Active /\ op'[c] = op[c] /\ name'[c] = name[c]
<1>1. pc[c] \in Active
  <2>1. CASE Create(c)
        BY <2>1 DEF Create, ConnectCreate, StartContainer, YieldHost, YieldContainer,
               YieldInstance, YieldCluster, YieldNode, Make, Tag, Makes, Active
  <2> QED BY <2>1 DEF Step, ConnectEntry, Refresh, ForceDelete, Cut, Act, Truncate, Write,
                      Active, IInv, TypeOK, Labels
<1> QED BY <1>1, ChangesOwnEntry DEF IInv, OwnEntry

\* A container or an EC2 instance that is not saved was not saved before.
LEMMA UnsavedSteps ==
    ASSUME IInv, NEW c \in Command, Step(c), ~ \E o \in Ops, n \in Name : Load(c, o, n),
           op[c] = "create", OwnMade(c), (Creates(c) /\ Unsaved(c))',
           type[name[c]] \in {"docker-container", "aws-ec2"}
    PROVE  /\ Unsaved(c) /\ ~Write(c)
           /\ pc'[c] \in {"connect", "make"} => mem' = mem /\ pc[c] \in {"connect", "make"}
<1> USE DEF IInv, TypeOK
<1>1. type' = type /\ name'[c] = name[c] /\ pc[c] \in Active /\ name[c] \in Name
      BY Locality, OwnSteps DEF EntryAtHand
<1>2. CASE ConnectCreate(c)
      BY <1>1, <1>2 DEF ConnectCreate, Unsaved, Write
<1>3. CASE StartContainer(c) \/ \E k \in Node : Make(c, k) \/ Tag(c, k)
      BY <1>1, <1>3 DEF StartContainer, Make, Tag, Makes, Unsaved, Write
<1>4. CASE YieldHost(c) \/ YieldCluster(c) \/ \E k \in Node : YieldNode(c, k)
      BY <1>4 DEF YieldHost, YieldCluster, YieldNode, Makes
<1>5. CASE YieldContainer(c)
  <2>1. pc[c] = "make" /\ pc'[c] = "truncate" /\ type[name[c]] = "docker-container"
        BY <1>5 DEF YieldContainer, Makes, Yield
  <2> QED BY <2>1 DEF Unsaved, Write
<1>6. CASE YieldInstance(c)
  <2>1. /\ pc[c] = "make" /\ pc'[c] = "truncate" /\ type[name[c]] = "aws-ec2"
        /\ mem'[c][name[c]].status = IF 0 \in todo[c] THEN "pending" ELSE "running"
        BY <1>1, <1>6 DEF YieldInstance, Makes, Yield, Inventories
  <2> QED BY <1>1, <2>1 DEF Unsaved, Write
<1>7. CASE Truncate(c)
      BY <1>1, <1>7 DEF Truncate, Unsaved, Write
<1>8. CASE Cut(c)
      BY <1>8 DEF Cut, Creates, Active
<1>9. CASE Write(c)
  <2>1. pc'[c] = "make" /\ todo' = todo /\ pc[c] = "write"
        BY <1>9 DEF Write, Creates, Active
  <2>2. type[name[c]] = "aws-ec2"
        BY <1>9, <2>1 DEF Write, Finished, Ec2
  <2> QED BY <1>1, <2>1, <2>2 DEF Unsaved, OwnMade
<1>10. CASE ConnectEntry(c) \/ Refresh(c) \/ ForceDelete(c) \/ \E k \in Node : Act(c, k)
      BY <1>10 DEF ConnectEntry, Refresh, ForceDelete, Act, EntryAtHand
<1> QED BY <1>2, <1>3, <1>4, <1>5, <1>6, <1>7, <1>8, <1>9, <1>10 DEF Step, Create

\* A creation that has not saved anything had not before.
LEMMA WasUnsaved ==
    ASSUME IInv, Places, [Next]_vars, NEW c \in Command, pc[c] # "idle",
           (Creates(c) /\ Unsaved(c))', type'[name'[c]] \in {"docker-container", "aws-ec2"}
    PROVE  Creates(c) /\ Unsaved(c) /\ name'[c] = name[c]
<1> USE DEF IInv, Places
<1>1. type' = type
      BY Keeps
<1>2. CASE UNCHANGED vars \/ \E i \in Instance : BecomesRunning(i)
      BY <1>2 DEF vars, BecomesRunning, Creates, Unsaved
<1> SUFFICES ASSUME NEW d \in Command, Step(d)
             PROVE  Creates(c) /\ Unsaved(c) /\ name'[c] = name[c]
    BY <1>2 DEF Next, Step
<1>3. CASE d # c
  <2>1. /\ pc'[c] = pc[c] /\ op'[c] = op[c] /\ name'[c] = name[c] /\ mem'[c] = mem[c]
        /\ todo'[c] = todo[c]
        BY <1>3, Locality, LocalToo
  <2>2. Creates(c)
        BY <2>1 DEF Creates
  <2>3. Unsaved(c)
        BY <1>1, <2>1 DEF Unsaved
  <2> QED BY <2>1, <2>2, <2>3
<1>4. CASE d = c
  <2>1. Step(c) /\ ~ \E o \in Ops, m \in Name : Load(c, o, m)
        BY <1>4 DEF Load
  <2>2. pc[c] \in Active /\ op'[c] = op[c] /\ name'[c] = name[c]
        BY <2>1, OwnSteps
  <2>3. op[c] = "create" /\ OwnMade(c) /\ type[name[c]] \in {"docker-container", "aws-ec2"}
        BY <1>1, <2>2 DEF Creates, Place
  <2>4. Unsaved(c)
        BY <2>1, <2>3, UnsavedSteps
  <2> QED BY <2>2, <2>3, <2>4 DEF Creates
<1> QED BY <1>3, <1>4

\* No one ends an EC2 instance that no one knows.
LEMMA UnsavedLives ==
    ASSUME IInv, Places, [Next]_vars, NEW c \in Command,
           (Creates(c) /\ Unsaved(c))', type'[name'[c]] = "aws-ec2"
    PROVE  state'[<<c, 0>>] # "gone"
<1> USE DEF IInv, Places
<1> DEFINE i == <<c, 0>>
<1>1. i \in Instance /\ i[1] = c /\ i[2] = 0
      BY Typing
<1> HIDE DEF i
<1>2. type' = type
      BY Keeps
<1>3. state[i] # "none" => pc[c] # "idle"
      BY <1>1 DEF Made
<1>4. state[i] # "none" => /\ Creates(c) /\ Unsaved(c) /\ name'[c] = name[c]
                           /\ type[name[c]] = "aws-ec2" /\ name[c] \in Name
  <2> SUFFICES ASSUME state[i] # "none"
               PROVE  /\ Creates(c) /\ Unsaved(c) /\ name'[c] = name[c]
                      /\ type[name[c]] = "aws-ec2" /\ name[c] \in Name
      OBVIOUS
  <2>1. Creates(c) /\ Unsaved(c) /\ name'[c] = name[c]
        BY <1>2, <1>3, WasUnsaved
  <2> QED BY <1>2, <2>1 DEF Creates, EntryAtHand
<1>5. state[i] # "gone"
      BY <1>1, <1>4 DEF Private, i
<1>6. ASSUME NEW d \in Command, ActsOn(d, i), state'[i] = "gone" PROVE FALSE
  <2>1. name[d] \in Name /\ name[c] = name[d] /\ state[i] # "none"
        BY <1>1, <1>6, ActsOnOwn
  <2>2. type[name[d]] = "aws-ec2"
        BY <1>4, <2>1
  <2>3. PICK k \in Node : Act(d, k) /\ i = found[d][k]
        BY <1>6, <2>2 DEF ActsOn
  <2>4. pc[d] = "act" /\ k \in todo[d] /\ op[d] # "create"
        BY <2>3 DEF Act, EntryAtHand
  <2>5. Target(d)
        BY <2>4 DEF Place
  <2>6. k = 0
        BY <2>2, <2>4, <2>5 DEF Target, Nodes
  <2>7. i = <<mem[d][name[d]].by, 0>>
        BY <2>2, <2>3, <2>5, <2>6 DEF Target
  <2>8. mem[d][name[d]].by = c
        BY <2>7 DEF i
  <2>9. d # c
        BY <1>4, <2>1, <2>4 DEF Creates
  <2> QED BY <1>4, <2>1, <2>8, <2>9 DEF Private
<1>7. ASSUME Make(i[1], i[2]), state[i] = "none" PROVE state'[i] # "gone"
  <2>1. /\ pc[c] = "make"
        /\ \/ state' = [state EXCEPT ![i] = IF Ec2(name[c]) THEN "pending"
                                            ELSE IF type[name[c]] = "singularity" THEN "running"
                                            ELSE "stopped"]
           \/ state' = state
        BY <1>1, <1>7 DEF Make, i
  <2> QED BY <1>1, <1>7, <2>1 DEF TypeOK
<1> QED BY <1>1, <1>5, <1>6, <1>7, WhyChanged DEF i

\* Of what a creation has not saved yet no other command hears.
LEMMA StepPrivate ==
    ASSUME IInv, Places, [Next]_vars
    PROVE  Private'
<1> USE DEF IInv, Places
<1>1. ASSUME NEW c \in Command, (Creates(c) /\ Unsaved(c))', NEW n \in Name,
             type'[name'[c]] \in {"docker-container", "aws-ec2"},
             UNCHANGED vars \/ \E i \in Instance : BecomesRunning(i)
      PROVE  /\ file'[n].by # c
             /\ \A b \in Command :
                   b # c \/ pc'[c] \in {"connect", "make"} => mem'[b][n].by # c
  <2>1. type' = type /\ file' = file /\ mem' = mem /\ pc' = pc /\ op' = op /\ name' = name /\ todo' = todo
        BY <1>1 DEF vars, BecomesRunning
  <2>2. Creates(c) /\ Unsaved(c) /\ type[name[c]] \in {"docker-container", "aws-ec2"}
        BY <1>1, <2>1 DEF Creates, Unsaved
  <2> QED BY <2>1, <2>2 DEF Private
<1> SUFFICES ASSUME NEW d \in Command, Step(d),
                    NEW c \in Command, (Creates(c) /\ Unsaved(c))',
                    type'[name'[c]] \in {"docker-container", "aws-ec2"}, NEW n \in Name
             PROVE  /\ file'[n].by # c
                    /\ \A b \in Command :
                          b # c \/ pc'[c] \in {"connect", "make"} => mem'[b][n].by # c
    BY <1>1, UnsavedLives DEF Next, Step, Private
<1>2. type' = type
      BY Keeps
<1>3. ASSUME Creates(c), Unsaved(c), type[name[c]] \in {"docker-container", "aws-ec2"}
      PROVE  /\ file[n].by # c
             /\ \A b \in Command : b # c \/ pc[c] \in {"connect", "make"} => mem[b][n].by # c
      BY <1>3 DEF Private
<1>4. ASSUME d # c PROVE /\ file'[n].by # c
                         /\ \A b \in Command :
                               b # c \/ pc'[c] \in {"connect", "make"} => mem'[b][n].by # c
  <2>1. /\ pc'[c] = pc[c] /\ op'[c] = op[c] /\ name'[c] = name[c] /\ mem'[c] = mem[c]
        /\ todo'[c] = todo[c]
        BY <1>4, Locality, LocalToo
  <2>2. Creates(c) /\ Unsaved(c) /\ type[name[c]] \in {"docker-container", "aws-ec2"}
    <3>1. type[name[c]] \in {"docker-container", "aws-ec2"}
          BY <1>2, <2>1
    <3>2. Creates(c)
          BY <2>1 DEF Creates
    <3>3. Unsaved(c)
          BY <1>2, <2>1 DEF Unsaved
    <3> QED BY <3>1, <3>2, <3>3
  <2>3. file'[n].by # c
    <3>1. file' \in {file, mem[d]}
          BY Locality DEF Write
    <3>2. file[n].by # c /\ mem[d][n].by # c
          BY <1>3, <1>4, <2>2
    <3> QED BY <3>1, <3>2
  <2>4. mem'[d][n].by # c
    <3>1. mem[d][n].by # c /\ file[n].by # c /\ NoEntry.by # c
          BY <1>3, <1>4, <2>2, InventoryAssumption DEF NoEntry
    <3>2. ASSUME n = name[d], type[n] = "singularity", found[d][0] # None,
                 mem'[d][n].by = found[d][0][1]
          PROVE  mem'[d][n].by # c
      <4>1. name[mem'[d][n].by] = n
            BY <3>2, Typing DEF Place, Connected
      <4> QED BY <2>2, <3>2, <4>1
    <3>3. ASSUME mem'[d][n].by = d PROVE mem'[d][n].by # c
          BY <1>4, <3>3
    <3> QED BY <3>1, <3>2, <3>3, NewEntries DEF SameButStatus
  <2>5. \A b \in Command \ {d} : mem'[b] = mem[b]
        BY Locality
  <2> QED BY <1>3, <2>1, <2>2, <2>3, <2>4, <2>5
<1>5. ASSUME d = c PROVE /\ file'[n].by # c
                         /\ \A b \in Command :
                               b # c \/ pc'[c] \in {"connect", "make"} => mem'[b][n].by # c
  <2>1. \A b \in Command \ {c} : mem'[b] = mem[b]
        BY <1>5, Locality
  <2>2. CASE \E o \in Ops, m \in Name : Load(c, o, m)
    <3>1. pc[c] = "idle" /\ mem'[c] = file /\ file' = file
          BY <2>2 DEF Load, TypeOK
    <3>2. file[n].by # c /\ \A b \in Command : mem[b][n].by # c
          BY <3>1, InventoryAssumption DEF Entries, Listable, NoEntry
    <3> QED BY <2>1, <3>1, <3>2
  <2>3. CASE ~ \E o \in Ops, m \in Name : Load(c, o, m)
    <3>0. Step(c) /\ pc[c] \in Active /\ op'[c] = op[c] /\ name'[c] = name[c]
          BY <1>5, <2>3, OwnSteps
    <3>1. /\ op[c] = "create" /\ OwnMade(c)
          /\ type[name[c]] \in {"docker-container", "aws-ec2"}
          BY <1>2, <3>0 DEF Creates, Place
    <3>2. ~Write(c) /\ Unsaved(c) /\ (pc'[c] \in {"connect", "make"} => mem' = mem)
               /\ (pc'[c] \in {"connect", "make"} => pc[c] \in {"connect", "make"})
          BY <2>3, <3>0, <3>1, UnsavedSteps
    <3>3. file' = file
          BY <1>5, <3>2, Locality
    <3> QED BY <1>3, <2>1, <3>0, <3>1, <3>2, <3>3 DEF Creates
  <2> QED BY <2>2, <2>3
<1> QED BY <1>4, <1>5
-----------------------------------------------------------------------------
\* What is true of a command does not change with the steps of others.
LEMMA PlaceKept ==
    ASSUME IInv, Places, [Next]_vars, NEW d \in Command,
           pc'[d] = pc[d], op'[d] = op[d], name'[d] = name[d], mem'[d] = mem[d],
           found'[d] = found[d], todo'[d] = todo[d],
           state[<<d, 0>>] = "none" => state'[<<d, 0>>] = "none",
           \/ file' = file /\ outdated' = outdated
           \/ pc[d] = "idle" \/ d \in outdated'
    PROVE  Place(d)'
<1> USE DEF IInv, Places
<1>1. type' = type /\ Place(d)
      BY Keeps
<1>2. Connected(d)'
  <2>1. ASSUME NEW k \in Node, found[d][k] # None
        PROVE  /\ found[d][k] \in Instance /\ state'[found[d][k]] # "none"
               /\ name'[found[d][k][1]] = name[d] /\ found[d][k][2] = k /\ pc[d] # "idle"
    <3> DEFINE i == found[d][k]
    <3>1. i \in Instance /\ i[1] \in Command
          BY <2>1, Typing DEF TypeOK
    <3>2. name[i[1]] = name[d] /\ i[2] = k /\ state[i] # "none" /\ pc[d] # "idle"
          BY <1>1, <2>1 DEF Place, Connected
    <3> HIDE DEF i
    <3>3. pc[i[1]] # "idle" /\ state'[i] # "none"
          BY <3>1, <3>2, Lasting DEF Made
    <3>4. name'[i[1]] = name[i[1]]
          BY <3>1, <3>3, Keeps
    <3> QED BY <3>1, <3>2, <3>3, <3>4 DEF i
  <2>2. pc[d] = "connect" => todo'[d] = Nodes(name[d])'
        BY <1>1 DEF Place, Connected, Nodes
  <2> QED BY <1>1, <2>1, <2>2 DEF Place, Connected, Nodes
<1>3. (Creates(d) => OwnMade(d))'
      BY <1>1 DEF Place, Creates, OwnMade
<1>4. (pc[d] \in Active /\ d \notin outdated => OwnIsCurrent(d))'
  <2>1. CASE pc[d] = "idle" \/ d \in outdated'
        BY <2>1 DEF Active
  <2>2. CASE file' = file /\ outdated' = outdated
    <3>1. Unsaved(d)' <=> Unsaved(d)
          BY <1>1 DEF Unsaved
    <3> QED BY <1>1, <2>2, <3>1 DEF Place, OwnIsCurrent
  <2> QED BY <2>1, <2>2
<1>5. (pc[d] = "act" => Target(d))'
  <2> SUFFICES ASSUME pc[d] = "act" PROVE Target(d)'
      OBVIOUS
  <2>1. mem[d][name[d]].by \in Command
    <3>1. mem[d][name[d]] # NoEntry /\ name[d] \in Name
          BY DEF EntryAtHand, NeedsEntry, Active
    <3> QED BY <3>1 DEF TypeOK, Inventories, Entry
  <2>2. state[<<mem[d][name[d]].by, 0>>] = "gone" => state'[<<mem[d][name[d]].by, 0>>] = "gone"
        BY <2>1, Typing, Lasting
  <2> QED BY <1>1, <2>2 DEF Place, Target, Nodes
<1> QED BY <1>2, <1>3, <1>4, <1>5 DEF Place

\* The look-up finds the instances of the resource.
LEMMA ByNameConnects ==
    ASSUME IInv, Places, NEW c \in Command, pc[c] # "idle", name[c] \in Name,
           NEW k \in Node, NEW i \in ByName(name[c], k)
    PROVE  i \in Instance /\ name[i[1]] = name[c] /\ i[2] = k /\ state[i] # "none" /\ Alive(i)
BY Typing DEF ByName, Alive

\* Where a command connects to, it is connected.
LEMMA Reconnected ==
    ASSUME IInv, Places, [Next]_vars, NEW c \in Command, pc'[c] \notin {"idle", "connect"},
           pc[c] # "idle",
           \A k \in Node : LET i == found'[c][k] IN
               i # None => /\ i \in Instance /\ name[i[1]] = name[c] /\ i[2] = k
                           /\ state[i] # "none" \/ (state'[i] # "none" /\ i[1] = c)
    PROVE  Connected(c)'
<1> USE DEF IInv, Places
<1> SUFFICES ASSUME NEW k \in Node, found'[c][k] # None
             PROVE  LET i == found'[c][k] IN
                    name'[i[1]] = name'[c] /\ i[2] = k /\ state'[i] # "none"
  <2>1. name'[c] \in Name
        BY Keeps DEF Place, Connected
  <2> QED BY <2>1 DEF Connected
<1> DEFINE i == found'[c][k]
<1>1. i \in Instance /\ name[i[1]] = name[c] /\ i[2] = k
      OBVIOUS
<1>2. i[1] \in Command
      BY <1>1, Typing
<1>3. state[i] # "none" \/ (state'[i] # "none" /\ i[1] = c)
      OBVIOUS
<1> HIDE DEF i
<1>4. state'[i] # "none" /\ pc[i[1]] # "idle"
      BY <1>1, <1>3, Lasting DEF Made
<1>5. name'[i[1]] = name[i[1]] /\ name'[c] = name[c]
      BY <1>2, <1>4, Keeps
<1> QED BY <1>1, <1>4, <1>5 DEF i

\* Connected instances stay connected.
LEMMA StillConnected ==
    ASSUME IInv, Places, [Next]_vars, NEW c \in Command, pc'[c] \notin {"idle", "connect"},
           pc[c] # "idle", found'[c] = found[c]
    PROVE  Connected(c)'
<1>1. Connected(c)
      BY DEF Places, Place
<1>2. \A k \in Node : found[c][k] # None =>
          /\ found[c][k] \in Instance /\ name[found[c][k][1]] = name[c] /\ found[c][k][2] = k
          /\ state[found[c][k]] # "none"
      BY <1>1 DEF Connected, IInv, TypeOK
<1> QED BY <1>2, Reconnected

\* The first steps: the look-up and the connection.
LEMMA LoadPlace ==
    ASSUME IInv, Places, [Next]_vars, NEW c \in Command, NEW o \in Ops, NEW n \in Name,
           Load(c, o, n)
    PROVE  Place(c)'
<1> USE DEF IInv, Places, TypeOK
<1>1. /\ pc[c] = "idle" /\ pc'[c] \in {"connect", "failed"} /\ op'[c] = o /\ name'[c] = n
      /\ mem'[c] = file /\ file' = file /\ todo'[c] = Nodes(n) /\ found' = found
      /\ type' = type /\ state' = state /\ (pc'[c] = "connect" => Accepts(file, o, n))
      BY DEF Load
<1>2. \A k \in Node : found'[c][k] = None
      BY <1>1 DEF Place, Connected
<1>3. Connected(c)'
      BY <1>1, <1>2 DEF Connected, Nodes
<1>4. state'[<<c, 0>>] = "none"
      BY <1>1, Typing DEF Made
<1>5. (Creates(c) => OwnMade(c))'
      BY <1>1, <1>4 DEF Creates, OwnMade, Active
<1>6. (pc[c] \in Active /\ c \notin outdated => OwnIsCurrent(c))'
      BY <1>1 DEF OwnIsCurrent, Unsaved, Accepts, SameButStatus, Active
<1> QED BY <1>1, <1>3, <1>5, <1>6 DEF Place

\* A creation connects to nothing that is not of its name.
LEMMA ConnectCreatePlace ==
    ASSUME IInv, Places, [Next]_vars, NEW c \in Command, ConnectCreate(c)
    PROVE  Place(c)'
<1> USE DEF IInv, Places, TypeOK
<1> DEFINE n == name[c]
<1>1. n \in Name /\ n = name[c]
      BY DEF ConnectCreate, EntryAtHand, Active
<1>2. Connected(c) /\ (c \notin outdated => OwnIsCurrent(c))
      BY DEF Place, ConnectCreate, Active
<1> HIDE DEF n
<1>3. /\ pc[c] = "connect" /\ op'[c] = "create" /\ op[c] = "create" /\ name'[c] = n
      /\ pc'[c] \in {"truncate", "make", "failed"}
      /\ file' = file /\ todo' = todo /\ type' = type /\ state' = state /\ outdated' = outdated
      BY <1>1 DEF ConnectCreate
<1>4. \A k \in Node : found'[c][k] = None \/ found'[c][k] \in ByName(n, k)
      BY <1>1 DEF ConnectCreate, Attach
<1>5. Connected(c)'
  <2>1. ASSUME NEW k \in Node, found'[c][k] # None
        PROVE  /\ found'[c][k] \in Instance /\ name[found'[c][k][1]] = name[c]
               /\ found'[c][k][2] = k /\ state[found'[c][k]] # "none"
    <3>1. found'[c][k] \in ByName(name[c], k)
          BY <1>1, <1>4, <2>1
    <3> QED BY <1>1, <1>3, <3>1, ByNameConnects
  <2> QED BY <1>3, <2>1, Reconnected
<1>6. state'[<<c, 0>>] = "none"
      BY <1>3, Typing DEF Made
<1>7. todo[c] = Nodes(n)
      BY <1>1, <1>2, <1>3 DEF Connected
<1>8. CASE type[n] = "aws-condor"
  <2> DEFINE e == [by |-> c, known |-> {}, status |-> "none"]
  <2>1. pc'[c] = "truncate" /\ mem' = [mem EXCEPT ![c][n] = e]
        BY <1>1, <1>8 DEF ConnectCreate
  <2>2. e.by = c /\ e.known = {} /\ e.status = "none"
        OBVIOUS
  <2> HIDE DEF e
  <2>3. mem'[c][n] = e
        BY <1>1, <2>1 DEF Inventories
  <2>4. OwnMade(c)'
        BY <1>3, <1>7, <1>8, <2>1, <2>2, <2>3 DEF OwnMade, Nodes
  <2>5. (c \notin outdated => OwnIsCurrent(c))'
        BY <1>1, <1>2, <1>3, <1>8, <2>1, <2>2, <2>3 DEF OwnIsCurrent, Unsaved
  <2> QED BY <1>5, <2>1, <2>4, <2>5 DEF Place
<1>9. CASE type[n] # "aws-condor"
  <2>1. /\ mem' = mem /\ pc'[c] \in {"make", "failed"}
        /\ pc'[c] = "make" => found'[c][0] = None \/ type[n] = "singularity"
        BY <1>1, <1>9 DEF ConnectCreate
  <2>2. (Creates(c) => OwnMade(c))'
        BY <1>3, <1>6, <1>9, <2>1 DEF Creates, OwnMade, Active
  <2>3. (pc[c] \in Active /\ c \notin outdated => OwnIsCurrent(c))'
    <3>1. pc'[c] = "make" => Unsaved(c)'
          BY <1>3, <1>7, <1>9 DEF Unsaved, Nodes
    <3> QED BY <1>1, <1>2, <1>3, <2>1, <3>1 DEF OwnIsCurrent, Active, Unsaved
  <2> QED BY <1>5, <2>1, <2>2, <2>3 DEF Place
<1> QED BY <1>8, <1>9

\* What is made is connected, and nothing is saved by that.
LEMMA MakePlace ==
    ASSUME IInv, Places, [Next]_vars, NEW c \in Command, NEW k \in Node, Make(c, k)
    PROVE  Place(c)'
<1> USE DEF IInv, Places, TypeOK
<1> DEFINE n == name[c]
           i == <<c, k>>
<1>1. /\ pc[c] = "make" /\ n \in Name /\ i \in Instance /\ i[1] = c /\ i[2] = k
      /\ Connected(c) /\ OwnMade(c) /\ (c \notin outdated => OwnIsCurrent(c))
      BY Typing DEF Make, EntryAtHand, Place, Creates, Active
<1>2. /\ pc' = pc /\ op' = op /\ name' = name /\ mem' = mem /\ todo' = todo
      /\ file' = file /\ outdated' = outdated /\ type' = type
      /\ state[i] = "none" /\ k \in Nodes(n)
      BY <1>1 DEF Make
<1>3. PICK j \in {i} \cup ByName(n, k) :
            /\ found' = [found EXCEPT ![c][k] = j]
            /\ j # i => state' = state /\ type[n] = "singularity"
            /\ j = i => state'[i] # "none"
  <2>1. CASE type[n] = "singularity" /\ ByName(n, k) # {}
    <3>1. PICK j \in ByName(n, k) : found' = [found EXCEPT ![c][k] = j] /\ state' = state
          BY <2>1 DEF Make
    <3>2. j # i
          BY <1>2, <3>1 DEF ByName, Alive
    <3> QED BY <2>1, <3>1, <3>2
  <2>2. CASE ~(type[n] = "singularity" /\ ByName(n, k) # {})
    <3>1. found' = [found EXCEPT ![c][k] = i]
          BY <2>2 DEF Make
    <3>2. \E s \in {"pending", "running", "stopped"} : state' = [state EXCEPT ![i] = s]
          BY <2>2 DEF Make
    <3>3. state'[i] # "none"
          BY <1>1, <3>2
    <3> QED BY <3>1, <3>3
  <2> QED BY <2>1, <2>2
<1> HIDE DEF n, i
<1>4. found'[c][k] = j /\ \A m \in Node \ {k} : found'[c][m] = found[c][m]
      BY <1>3
<1>5. Connected(c)'
  <2>1. j \in Instance /\ name[j[1]] = name[c] /\ j[2] = k
        /\ (state[j] # "none" \/ (state'[j] # "none" /\ j[1] = c))
        BY <1>1, <1>3, ByNameConnects DEF n
  <2>2. \A m \in Node \ {k} : found[c][m] # None =>
          /\ found[c][m] \in Instance /\ name[found[c][m][1]] = name[c] /\ found[c][m][2] = m
          /\ state[found[c][m]] # "none"
        BY <1>1 DEF Connected
  <2>3. ASSUME NEW m \in Node, found'[c][m] # None
        PROVE  /\ found'[c][m] \in Instance /\ name[found'[c][m][1]] = name[c]
               /\ found'[c][m][2] = m
               /\ \/ state[found'[c][m]] # "none"
                  \/ state'[found'[c][m]] # "none" /\ found'[c][m][1] = c
        BY <1>4, <2>1, <2>2, <2>3
  <2> QED BY <1>1, <1>2, <2>3, Reconnected
<1>6. OwnMade(c)'
  <2>1. type[n] # "aws-condor" => k = 0
        BY <1>2 DEF Nodes
  <2>2. type[n] = "docker-container" => found'[c][0] = <<c, 0>>
        BY <1>3, <1>4, <2>1 DEF i
  <2>3. type[n] = "singularity" /\ state'[<<c, 0>>] # "none" => found'[c][0] = <<c, 0>>
        BY <1>2, <1>3, <1>4, <2>1 DEF i
  <2> QED BY <1>1, <1>2, <2>2, <2>3 DEF OwnMade, n
<1>7. (c \notin outdated => OwnIsCurrent(c))'
      BY <1>1, <1>2 DEF OwnIsCurrent, Unsaved
<1> QED BY <1>1, <1>2, <1>5, <1>6, <1>7 DEF Place

\* What is yielded is what the creation has made.
LEMMA YieldPlace ==
    ASSUME IInv, Places, [Next]_vars, NEW c \in Command,
           \/ YieldHost(c) \/ YieldContainer(c) \/ YieldInstance(c) \/ YieldCluster(c)
           \/ \E k \in Node : YieldNode(c, k)
    PROVE  Place(c)'
<1> USE DEF IInv, Places, TypeOK
<1> DEFINE n == name[c]
<1>1. PICK e \in Entry, rest \in SUBSET Node : Yield(c, e, rest)
      BY YieldingTyped
<1>2. /\ n \in Name /\ pc[c] = "make" /\ op[c] = "create"
      /\ type[n] # "singularity" => e.by = c
      /\ type[n] = "singularity" => found[c][0] # None /\ e.by = found[c][0][1]
      BY <1>1, YieldsListable
<1>3. OwnMade(c) /\ (c \notin outdated => OwnIsCurrent(c))
      BY <1>2 DEF Place, Creates, Active
<1>4. /\ pc'[c] = "truncate" /\ op' = op /\ name' = name /\ found' = found
      /\ todo'[c] = rest /\ mem' = [mem EXCEPT ![c][n] = e] /\ mem'[c][n] = e
      /\ file' = file /\ outdated' = outdated /\ type' = type /\ state' = state
      BY <1>1, <1>2 DEF Yield, Inventories
<1> HIDE DEF n
<1>5. Connected(c)'
      BY <1>2, <1>4, StillConnected
<1>6. ASSUME NEW f, mem' = [mem EXCEPT ![c][n] = f] PROVE e = f
      BY <1>2, <1>4, <1>6 DEF Inventories
<1>7. /\ type[n] = "aws-condor" =>
            /\ e.known = Node \ rest /\ (e.status = "running" => rest = {}) /\ e.known # {}
      /\ type[n] = "aws-ec2" => 0 \notin rest /\ (0 \in todo[c] <=> e.status = "pending")
  <2>1. CASE YieldHost(c)
        BY <2>1 DEF YieldHost, Makes, n
  <2>2. CASE YieldContainer(c)
        BY <2>2 DEF YieldContainer, Makes, n
  <2>3. CASE YieldInstance(c)
    <3> DEFINE f == [by |-> c, known |-> {0}, status |-> IF 0 \in todo[c] THEN "pending" ELSE "running"]
    <3>1. type[n] = "aws-ec2" /\ todo'[c] = {} /\ mem' = [mem EXCEPT ![c][n] = f]
          BY <2>3 DEF YieldInstance, Makes, Yield, n
    <3>2. e = f
          BY <1>6, <3>1
    <3>3. e.status = IF 0 \in todo[c] THEN "pending" ELSE "running"
          BY <3>2
    <3> QED BY <1>4, <3>1, <3>3
  <2>4. mem[c][n] \in Entry \/ type[n] # "aws-condor"
        BY <1>2 DEF EntryAtHand, NeedsEntry, Inventories, n
  <2>5. type[n] = "aws-condor" => /\ mem[c][n].known = Node \ todo[c]
                                  /\ mem[c][n].status = "running" => todo[c] = {}
        BY <1>2, <1>3 DEF OwnMade, n
  <2>6. CASE YieldCluster(c)
    <3> DEFINE f == [mem[c][n] EXCEPT !.status = "running"]
    <3>1. type[n] = "aws-condor" /\ todo[c] = {} /\ todo'[c] = {} /\ mem' = [mem EXCEPT ![c][n] = f]
          BY <2>6 DEF YieldCluster, Makes, Yield, n
    <3>2. e = f
          BY <1>6, <3>1
    <3>3. f.known = mem[c][n].known
          BY <2>4, <3>1 DEF Entry
    <3> HIDE DEF f
    <3> QED BY <1>4, <2>5, <3>1, <3>2, <3>3, Typing
  <2>7. ASSUME NEW k \in Node, YieldNode(c, k)
        PROVE  /\ type[n] = "aws-condor" /\ e.known = Node \ rest /\ e.known # {}
               /\ e.status # "running"
    <3> DEFINE f == [mem[c][n] EXCEPT !.known = @ \cup {k}]
    <3>1. /\ type[n] = "aws-condor" /\ k \in todo[c] /\ todo'[c] = todo[c] \ {k}
          /\ mem' = [mem EXCEPT ![c][n] = f]
          BY <2>7 DEF YieldNode, Makes, Yield, n
    <3>2. e = f
          BY <1>6, <3>1
    <3>3. f.known = mem[c][n].known \cup {k} /\ f.status = mem[c][n].status
          BY <2>4, <3>1 DEF Entry
    <3> HIDE DEF f
    <3>4. todo[c] \subseteq Node
          OBVIOUS
    <3> QED BY <1>4, <2>5, <3>1, <3>2, <3>3, <3>4
  <2>8. CASE \E k \in Node : YieldNode(c, k)
        BY <2>7, <2>8
  <2> QED BY <2>1, <2>2, <2>3, <2>6, <2>8
<1>8. OwnMade(c)'
      BY <1>2, <1>3, <1>4, <1>7 DEF OwnMade, n
<1>9. (c \notin outdated => OwnIsCurrent(c))'
  <2>1. Unsaved(c)' <=> Unsaved(c)
        BY <1>2, <1>4, <1>7 DEF Unsaved, n
  <2> QED BY <1>2, <1>3, <1>4, <2>1 DEF OwnIsCurrent, n
<1> QED BY <1>4, <1>5, <1>8, <1>9 DEF Place

\* start, stop and delete connect to the instance that their entry names.
LEMMA ConnectEntryPlace ==
    ASSUME IInv, Places, [Next]_vars, NEW c \in Command, ConnectEntry(c)
    PROVE  Place(c)'
<1> USE DEF IInv, Places, TypeOK
<1> DEFINE n == name[c]
           e == mem[c][n]
<1>1. /\ pc[c] = "connect" /\ op[c] \in {"delete", "start", "stop"} /\ n \in Name
      /\ e \in Entry /\ e # NoEntry
      BY DEF ConnectEntry, EntryAtHand, NeedsEntry, Active, Inventories
<1>2. Listable(e, n) /\ Connected(c) /\ (c \notin outdated => OwnIsCurrent(c))
      BY <1>1 DEF Entries, Place, Active
<1>3. /\ pc'[c] \in {"act", "ok"} /\ op' = op /\ name' = name /\ mem' = mem /\ todo' = todo
      /\ file' = file /\ outdated' = outdated /\ type' = type /\ state' = state
      /\ pc'[c] = "act" => op[c] = "delete" \/ type[n] \notin {"singularity", "ssh"}
      BY <1>1 DEF ConnectEntry
<1>4. /\ found'[c] \in [Node -> Instance \cup {None}]
      /\ \A k \in Node :
            IF k \in Nodes(n) /\ ById(e, n, k) # {} THEN found'[c][k] \in ById(e, n, k)
                                                    ELSE found'[c][k] = None
      BY DEF ConnectEntry, Attach
<1> HIDE DEF n, e
<1>5. e.by \in Command /\ e.known \subseteq Node
      BY <1>1 DEF Entry
<1>6. \A k \in Node : \A i \in ById(e, n, k) :
          i \in Instance /\ name[i[1]] = n /\ i[2] = k /\ state[i] # "none"
  <2> TAKE k \in Node
  <2> TAKE i \in ById(e, n, k)
  <2>1. CASE Ec2(n) /\ k \in e.known
    <3>1. i = <<e.by, k>>
          BY <2>1 DEF ById
    <3> QED BY <1>1, <1>2, <1>5, <2>1, <3>1, Typing DEF Listable, Ec2
  <2>2. CASE i \in ByName(n, k)
        BY <1>1, <2>2, ByNameConnects DEF n
  <2> QED BY <2>1, <2>2 DEF ById
<1>7. Connected(c)'
  <2>1. \A k \in Node : found'[c][k] # None => found'[c][k] \in ById(e, n, k)
        BY <1>4
  <2>2. ASSUME NEW k \in Node, found'[c][k] # None
        PROVE  /\ found'[c][k] \in Instance /\ name[found'[c][k][1]] = name[c]
               /\ found'[c][k][2] = k /\ state[found'[c][k]] # "none"
        BY <1>6, <2>1, <2>2 DEF n
  <2> QED BY <1>1, <1>3, <2>2, Reconnected
<1>8. pc'[c] = "act" => Target(c)'
  <2> SUFFICES ASSUME pc'[c] = "act" PROVE Target(c)'
      OBVIOUS
  <2> DEFINE i == <<e.by, 0>>
  <2>0. i \in Instance /\ i[1] = e.by /\ i[2] = 0 /\ 0 \in Node
        BY <1>5, Typing
  <2>1. type[n] # "aws-condor" => 0 \in Nodes(n)
        BY DEF Nodes
  <2>2. type[n] = "aws-ec2" => found'[c][0] = i
    <3> SUFFICES ASSUME type[n] = "aws-ec2" PROVE found'[c][0] = i
        OBVIOUS
    <3>1. ById(e, n, 0) = {i}
          BY <1>1, <1>2 DEF Listable, Single, ById, Ec2
    <3> HIDE DEF i
    <3> QED BY <1>4, <2>0, <2>1, <3>1
  <2>3. type[n] = "docker-container" =>
            found'[c][0] = i \/ (found'[c][0] = None /\ state'[i] = "gone")
    <3> SUFFICES ASSUME type[n] = "docker-container"
                 PROVE  found'[c][0] = i \/ (found'[c][0] = None /\ state'[i] = "gone")
        OBVIOUS
    <3>1. name[e.by] = n /\ state[i] # "none"
          BY <1>1, <1>2 DEF Listable, Single
    <3>2. \A j \in ById(e, n, 0) : j[1] = e.by /\ j \in Instance
          BY <1>6, <2>0 DEF ById, Ec2
    <3>3. \A j \in ById(e, n, 0) : j = i
          BY <1>6, <2>0, <3>2 DEF Instance
    <3>4. Alive(i) => i \in ById(e, n, 0)
          BY <2>0, <3>1 DEF ById, Ec2, ByName
    <3>5. Alive(i) \/ state[i] = "gone"
          BY <2>0, <3>1 DEF Alive, Status
    <3> HIDE DEF i
    <3>6. CASE ById(e, n, 0) # {}
          BY <1>4, <2>0, <2>1, <3>3, <3>6
    <3>7. CASE ById(e, n, 0) = {}
          BY <1>3, <1>4, <2>0, <2>1, <3>4, <3>5, <3>7
    <3> QED BY <3>6, <3>7
  <2>4. todo'[c] = Nodes(n)'
        BY <1>1, <1>2, <1>3 DEF Connected, Nodes, n
  <2> QED BY <1>3, <2>2, <2>3, <2>4 DEF Target, n, e
<1>9. (pc[c] \in Active /\ c \notin outdated => OwnIsCurrent(c))'
      BY <1>1, <1>2, <1>3 DEF OwnIsCurrent, Active
<1> QED BY <1>1, <1>3, <1>7, <1>8, <1>9 DEF Place, Creates

\* They keep to it while they work on the nodes; the entry is settled in the end.
LEMMA ActPlace ==
    ASSUME IInv, Places, [Next]_vars, NEW c \in Command, NEW k \in Node, Act(c, k)
    PROVE  Place(c)'
<1> USE DEF IInv, Places, TypeOK
<1> DEFINE n == name[c]
           e == mem[c][n]
<1>1. /\ pc[c] = "act" /\ op[c] \in {"delete", "start", "stop"} /\ n \in Name
      /\ e \in Entry /\ e # NoEntry /\ Target(c) /\ (c \notin outdated => OwnIsCurrent(c))
      BY DEF Act, EntryAtHand, NeedsEntry, Active, Inventories, Place
<1>2. /\ op' = op /\ name' = name /\ found' = found /\ type' = type
      /\ file' = file /\ outdated' = outdated
      /\ \/ pc'[c] = "act" /\ mem' = mem
         \/ pc'[c] = "truncate" /\ mem' = Settled(c)
      BY <1>1 DEF Act, Settle
<1> HIDE DEF n, e
<1>3. Connected(c)'
      BY <1>1, <1>2, StillConnected
<1>4. CASE pc'[c] = "act" /\ mem' = mem
  <2>1. e.by \in Command
        BY <1>1 DEF Entry
  <2>2. state[<<e.by, 0>>] = "gone" => state'[<<e.by, 0>>] = "gone"
        BY <2>1, Typing, Lasting
  <2>3. Target(c)'
    <3>1. todo'[c] \subseteq todo[c]
          BY DEF Act, Settle
    <3> QED BY <1>1, <1>2, <1>4, <2>2, <3>1 DEF Target, Nodes, n, e
  <2>4. (c \notin outdated => OwnIsCurrent(c))'
        BY <1>1, <1>2, <1>4 DEF OwnIsCurrent
  <2> QED BY <1>1, <1>2, <1>3, <1>4, <2>3, <2>4 DEF Place, Creates
<1>5. CASE pc'[c] = "truncate" /\ mem' = Settled(c)
  <2>1. op[c] # "delete" => SameButStatus(mem'[c][n], e)
    <3> SUFFICES ASSUME op[c] # "delete" PROVE SameButStatus(mem'[c][n], e)
        OBVIOUS
    <3> DEFINE s == IF op[c] = "start" THEN "running" ELSE "stopped"
    <3>1. mem'[c][n] = [e EXCEPT !.status = s]
          BY <1>1, <1>5 DEF Settled, Inventories, n, e
    <3>2. SameButStatus([mem[c][n] EXCEPT !.status = s], mem[c][n])
          BY <1>1, StatusOnly DEF e
    <3> QED BY <3>1, <3>2 DEF e
  <2>2. op[c] = "delete" => mem'[c][n] = NoEntry
        BY <1>1, <1>5 DEF Settled, Inventories, n
  <2>3. (c \notin outdated => OwnIsCurrent(c))'
        BY <1>1, <1>2, <1>5, <2>1, <2>2 DEF OwnIsCurrent, SameButStatus, n, e
  <2> QED BY <1>1, <1>2, <1>3, <1>5, <2>3 DEF Place, Creates
<1> QED BY <1>2, <1>4, <1>5

\* After a save a creation goes on with an entry that the file has, too.
LEMMA WritePlace ==
    ASSUME IInv, Places, [Next]_vars, NEW c \in Command, Write(c)
    PROVE  Place(c)'
<1> USE DEF IInv, Places, TypeOK
<1> DEFINE n == name[c]
<1>1. pc[c] = "write" /\ n \in Name /\ (op[c] = "create" => OwnMade(c))
      BY DEF Write, EntryAtHand, Active, Place, Creates
<1>2. /\ pc'[c] = IF Finished(c) THEN "ok" ELSE "make"
      /\ op' = op /\ name' = name /\ found' = found /\ mem' = mem /\ todo' = todo
      /\ type' = type /\ state' = state /\ file' = mem[c]
      BY <1>1 DEF Write
<1> HIDE DEF n
<1>3. Connected(c)'
      BY <1>1, <1>2, StillConnected
<1>4. ~Finished(c) => op[c] = "create" /\ type[n] \in {"aws-ec2", "aws-condor"}
      BY <1>1 DEF Finished, Ec2, n
<1>5. (Creates(c) => OwnMade(c))'
      BY <1>1, <1>2, <1>4 DEF Creates, OwnMade, Active, n
<1>6. (pc[c] \in Active /\ c \notin outdated => OwnIsCurrent(c))'
      BY <1>1, <1>2, <1>4 DEF OwnIsCurrent, OwnMade, Unsaved, Active, n
<1> QED BY <1>2, <1>3, <1>5, <1>6 DEF Place

\* The other steps change the inventory in memory at most.
LEMMA OtherPlace ==
    ASSUME IInv, Places, [Next]_vars, NEW c \in Command,
           Refresh(c) \/ ForceDelete(c) \/ Cut(c) \/ Truncate(c)
    PROVE  Place(c)'
<1> USE DEF IInv, Places, TypeOK
<1>1. /\ pc[c] \in Active /\ pc'[c] \in {"truncate", "write", "failed"}
      /\ op' = op /\ name' = name /\ found' = found /\ file' = file /\ outdated' = outdated
      /\ type' = type /\ todo' = todo /\ state' = state /\ name[c] \in Name
      /\ (c \notin outdated => OwnIsCurrent(c)) /\ (op[c] = "create" => OwnMade(c))
      BY DEF Refresh, ForceDelete, Cut, Truncate, Active, Labels, Place, Creates, EntryAtHand
<1>2. Connected(c)'
      BY <1>1, StillConnected DEF Active
<1>3. CASE Cut(c)
      BY <1>1, <1>2, <1>3 DEF Cut, Place, Creates, Active
<1>4. CASE Refresh(c) \/ ForceDelete(c)
  <2>1. /\ op[c] \in {"refresh", "delete"} /\ pc'[c] = "truncate"
        /\ op[c] = "delete" => mem'[c][name[c]] = NoEntry /\ pc[c] \in {"connect", "act"}
        BY <1>1, <1>4 DEF Refresh, ForceDelete, Settled, Inventories
  <2> QED BY <1>1, <1>2, <2>1 DEF Place, Creates, OwnIsCurrent
<1>5. CASE Truncate(c)
  <2>1. pc[c] = "truncate" /\ pc'[c] = "write" /\ mem' = mem
        BY <1>5 DEF Truncate
  <2>2. (Creates(c) => OwnMade(c))'
        BY <1>1, <2>1 DEF Creates, OwnMade
  <2>3. (c \notin outdated => OwnIsCurrent(c))'
        BY <1>1, <2>1 DEF OwnIsCurrent, Unsaved
  <2> QED BY <1>2, <2>1, <2>2, <2>3 DEF Place
<1> QED BY <1>3, <1>4, <1>5

\* Where every command is, and what it knows, fits together.
LEMMA StepPlaces ==
    ASSUME IInv, Places, [Next]_vars
    PROVE  Places'
<1> USE DEF IInv
<1>1. ASSUME NEW d \in Command PROVE Place(d)'
  <2>1. CASE UNCHANGED vars
        BY <1>1, <2>1, PlaceKept DEF vars
  <2>2. CASE \E i \in Instance : BecomesRunning(i)
    <3>1. PICK i \in Instance : BecomesRunning(i)
          BY <2>2
    <3>2. state[<<d, 0>>] = "none" => state'[<<d, 0>>] = "none"
          BY <3>1 DEF BecomesRunning
    <3> QED BY <1>1, <3>1, <3>2, PlaceKept DEF BecomesRunning
  <2> SUFFICES ASSUME NEW c \in Command, Step(c) PROVE Place(d)'
      BY <2>1, <2>2 DEF Next, Step
  <2>3. CASE d # c
    <3>1. state[<<d, 0>>] = "none" => state'[<<d, 0>>] = "none"
      <4>1. ~Make(d, 0) /\ <<d, 0>> \in Instance
        <5>1. ASSUME Make(d, 0), found'[d] = found[d] PROVE FALSE
          <6>1. \/ found'[d][0] # None /\ found'[d][0] # found[d][0]
                \/ state[found[d][0]] = "none"
            <7>1. CASE type[name[d]] = "singularity" /\ ByName(name[d], 0) # {}
              <8>1. PICK j \in ByName(name[d], 0) :
                       found[d][0] # j /\ found' = [found EXCEPT ![d][0] = j]
                    BY <5>1, <7>1 DEF Make
              <8>2. found'[d][0] = j
                    BY <8>1, Typing DEF TypeOK
              <8> QED BY <5>1, <8>1, <8>2
            <7>2. CASE ~(type[name[d]] = "singularity" /\ ByName(name[d], 0) # {})
              <8>1. found' = [found EXCEPT ![d][0] = <<d, 0>>] /\ state[<<d, 0>>] = "none"
                    BY <5>1, <7>2 DEF Make
              <8> QED BY <5>1, <8>1, Typing DEF TypeOK
            <7> QED BY <7>1, <7>2
          <6>2. found[d][0] # None
            <7>1. found'[d][0] # None
                  BY <5>1, Typing DEF Make, TypeOK
            <7> QED BY <5>1, <7>1
          <6> QED BY <5>1, <6>1, <6>2, Typing DEF Places, Place, Connected
        <5> QED BY <2>3, <5>1, LocalToo, Typing
      <4> QED BY <4>1, WhyChanged, ActsOnOwn DEF Places
    <3>2. (file' = file /\ outdated' = outdated) \/ pc[d] = "idle" \/ d \in outdated'
          BY <2>3, Locality DEF Write, TypeOK
    <3>3. /\ pc'[d] = pc[d] /\ op'[d] = op[d] /\ name'[d] = name[d] /\ mem'[d] = mem[d]
          /\ found'[d] = found[d] /\ todo'[d] = todo[d]
          BY <2>3, Locality, LocalToo
    <3> QED BY <1>1, <3>1, <3>2, <3>3, PlaceKept
  <2>4. CASE d = c /\ (StartContainer(c) \/ \E k \in Node : Tag(c, k))
    <3>1. state[<<d, 0>>] = "none" => state'[<<d, 0>>] = "none"
          BY <2>4 DEF StartContainer, Tag, TypeOK
    <3> QED BY <1>1, <2>4, <3>1, PlaceKept DEF StartContainer, Tag, TypeOK
  <2>5. CASE d = c /\ (YieldHost(c) \/ YieldContainer(c) \/ YieldInstance(c) \/ YieldCluster(c)
                       \/ \E k \in Node : YieldNode(c, k))
        BY <2>5, YieldPlace
  <2>6. CASE d = c /\ ConnectCreate(c)
        BY <2>6, ConnectCreatePlace
  <2>7. CASE d = c /\ \E k \in Node : Make(c, k)
        BY <2>7, MakePlace
  <2>8. CASE d = c /\ Write(c)
        BY <2>8, WritePlace
  <2>9. CASE d = c /\ \E k \in Node : Act(c, k)
        BY <2>9, ActPlace
  <2>10. CASE d = c /\ \E o \in Ops, n \in Name : Load(c, o, n)
        BY <2>10, LoadPlace
  <2>11. CASE d = c /\ (Refresh(c) \/ ForceDelete(c) \/ Cut(c) \/ Truncate(c))
        BY <2>11, OtherPlace
  <2>12. CASE d = c /\ ConnectEntry(c)
        BY <2>12, ConnectEntryPlace
  <2> QED BY <2>3, <2>4, <2>5, <2>6, <2>7, <2>8, <2>9, <2>10, <2>11, <2>12 DEF Step, Create
<1> QED BY <1>1, StepMade, StepEntries, StepPrivate DEF Places
-----------------------------------------------------------------------------
(* As long as no command writes over what it did not know of.                *)

\* A command that writes has the latest inventory.
LEMMA Writes ==
    ASSUME IInv, NEW c \in Command, Write(c), ~raced'
    PROVE  /\ c \notin outdated /\ pc[c] = "write" /\ name[c] \in Name
           /\ file' = mem[c] /\ mem' = mem /\ name' = name /\ op' = op /\ type' = type
           /\ state' = state /\ found' = found /\ todo' = todo
           /\ pc' = [pc EXCEPT ![c] = IF Finished(c) THEN "ok" ELSE "make"]
           /\ \A d \in Command \ {c} : pc[d] = "idle" \/ d \in outdated'
<1>1. pc[c] = "write" /\ name[c] \in Name
      BY DEF Write, IInv, EntryAtHand, Active
<1> QED BY <1>1 DEF Write, IInv, TypeOK

\* A race is not forgotten.
LEMMA RacedStays == TypeOK /\ [Next]_vars /\ raced => raced'
<1> SUFFICES ASSUME TypeOK, [Next]_vars, raced PROVE raced'
    OBVIOUS
<1>1. CASE UNCHANGED vars \/ \E i \in Instance : BecomesRunning(i)
      BY <1>1 DEF vars, BecomesRunning
<1>2. ASSUME NEW c \in Command, Step(c) PROVE raced'
  <2>1. ASSUME NEW e, NEW rest, Yield(c, e, rest) PROVE raced'
        BY <2>1 DEF Yield
  <2>2. CASE Create(c)
        BY <2>1, <2>2 DEF Create, ConnectCreate, StartContainer, Make, Tag, YieldHost,
               YieldContainer, YieldInstance, YieldCluster, YieldNode
  <2> QED BY <1>2, <2>2 DEF Step, Load, ConnectEntry, Refresh, ForceDelete, Cut, Act, Truncate, Write
<1> QED BY <1>1, <1>2 DEF Next, Step

\* Whose step changes the file.
LEMMA OnlyWrites ==
    ASSUME TypeOK, [Next]_vars, \A c \in Command : ~Write(c)
    PROVE  file' = file /\ outdated' = outdated
<1>1. CASE UNCHANGED vars \/ \E i \in Instance : BecomesRunning(i)
      BY <1>1 DEF vars, BecomesRunning
<1>2. ASSUME NEW c \in Command, Step(c) PROVE file' = file /\ outdated' = outdated
      BY <1>2, Locality
<1> QED BY <1>1, <1>2 DEF Next, Step

\* What becomes of an entry of the file.
LEMMA FileStep ==
    ASSUME IInv, Places, [Next]_vars, ~raced', NEW n \in Name
    PROVE  \/ SameButStatus(file'[n], file[n])
           \/ \E c \in Command :
                 /\ Write(c) /\ c \notin outdated /\ pc[c] = "write" /\ name[c] = n /\ state' = state
                 /\ \/ op[c] = "delete" /\ file'[n] = NoEntry
                    \/ /\ op[c] = "create" /\ (file[n] = NoEntry \/ file[n].by = c)
                       /\ type[n] # "singularity" => file'[n].by = c
<1> USE DEF IInv, Places
<1>1. ASSUME NEW c \in Command, Write(c)
      PROVE  \/ SameButStatus(file'[n], file[n])
             \/ /\ c \notin outdated /\ pc[c] = "write" /\ name[c] = n /\ state' = state
                /\ \/ op[c] = "delete" /\ file'[n] = NoEntry
                   \/ /\ op[c] = "create" /\ (file[n] = NoEntry \/ file[n].by = c)
                      /\ type[n] # "singularity" => file'[n].by = c
  <2>1. c \notin outdated /\ pc[c] = "write" /\ file' = mem[c] /\ state' = state
        BY <1>1, Writes
  <2>2. OwnIsCurrent(c) /\ (op[c] = "create" => OwnMade(c))
        BY <2>1 DEF Place, Creates, Active
  <2>3. CASE op[c] = "refresh" \/ n # name[c]
        BY <2>1, <2>3 DEF MemoryIsCurrent, Active, SameButStatus
  <2>4. CASE n = name[c] /\ op[c] # "refresh"
        BY <2>1, <2>2, <2>4 DEF OwnIsCurrent, OwnMade, SameButStatus, TypeOK, Ops
  <2> QED BY <2>1, <2>3, <2>4
<1>2. CASE \A c \in Command : ~Write(c)
      BY <1>2, OnlyWrites DEF SameButStatus
<1> QED BY <1>1, <1>2

\* A creation goes on where it has saved.
LEMMA MakeFrom ==
    ASSUME IInv, [Next]_vars, NEW c \in Command, pc'[c] = "make", pc[c] # "make"
    PROVE  \/ pc[c] = "connect" /\ op[c] = "create" /\ type[name[c]] # "aws-condor"
           \/ Write(c)
<1> USE DEF IInv, TypeOK
<1>1. CASE UNCHANGED vars \/ \E i \in Instance : BecomesRunning(i)
      BY <1>1 DEF vars, BecomesRunning
<1>2. ASSUME NEW d \in Command \ {c}, Step(d) PROVE FALSE
      BY <1>2, Locality
<1>3. ASSUME Step(c), ~Write(c)
      PROVE  pc[c] = "connect" /\ op[c] = "create" /\ type[name[c]] # "aws-condor"
  <2>1. ASSUME NEW e, NEW rest, Yield(c, e, rest) PROVE pc'[c] # "make"
        BY <2>1 DEF Yield
  <2>2. CASE Create(c)
        BY <2>1, <2>2 DEF Create, ConnectCreate, StartContainer, Make, Tag, YieldHost,
               YieldContainer, YieldInstance, YieldCluster, YieldNode
  <2> QED BY <1>3, <2>2 DEF Step, Load, ConnectEntry, Refresh, ForceDelete, Cut, Act, Settle, Truncate
<1> QED BY <1>1, <1>2, <1>3 DEF Next, Step

\* A command ends by writing, or because there is nothing to start or to stop.
LEMMA OkFrom ==
    ASSUME IInv, [Next]_vars, NEW c \in Command, pc'[c] = "ok", pc[c] # "ok"
    PROVE  \/ Write(c) /\ Finished(c)
           \/ op[c] \in {"start", "stop"} /\ type[name[c]] \in {"singularity", "ssh"} /\ pc[c] = "connect"
<1> USE DEF IInv, TypeOK
<1>1. CASE UNCHANGED vars \/ \E i \in Instance : BecomesRunning(i)
      BY <1>1 DEF vars, BecomesRunning
<1>2. ASSUME NEW d \in Command \ {c}, Step(d) PROVE FALSE
      BY <1>2, Locality
<1>3. ASSUME Step(c)
      PROVE  \/ Write(c) /\ Finished(c)
             \/ op[c] \in {"start", "stop"} /\ type[name[c]] \in {"singularity", "ssh"} /\ pc[c] = "connect"
  <2>1. ASSUME NEW e, NEW rest, Yield(c, e, rest) PROVE pc'[c] # "ok"
        BY <2>1 DEF Yield
  <2>2. CASE Create(c)
        BY <2>1, <2>2 DEF Create, ConnectCreate, StartContainer, Make, Tag, YieldHost,
               YieldContainer, YieldInstance, YieldCluster, YieldNode
  <2>3. CASE Write(c)
        BY <2>3 DEF Write
  <2> QED BY <1>3, <2>2, <2>3 DEF Step, Load, ConnectEntry, Refresh, ForceDelete, Cut, Act, Settle, Truncate
<1> QED BY <1>1, <1>2, <1>3 DEF Next, Step

\* A listed creation stays listed until its instances have gone.
LEMMA StaysListed ==
    ASSUME IInv, Places, Unraced, [Next]_vars, ~raced',
           NEW n \in Name \ forced, NEW c \in Command, file[n].by = c
    PROVE  \/ SameButStatus(file'[n], file[n])
           \/ pc[c] = "write" /\ (type[n] # "singularity" => file'[n].by = c)
           \/ type[n] # "ssh" => Gone(c, n) /\ state' = state
<1>1. file[n] # NoEntry
      BY InventoryAssumption DEF NoEntry
<1>2. ASSUME NEW d \in Command, Write(d), d \notin outdated, pc[d] = "write", name[d] = n,
             op[d] = "delete", type[n] # "ssh"
      PROVE  Gone(c, n)
  <2>1. Deletes(d)
        BY <1>2 DEF Deletes, Active
  <2>2. Deleting(d)
        BY <2>1 DEF Unraced
  <2> QED BY <1>2, <2>2 DEF Deleting
<1> QED BY <1>1, <1>2, FileStep

\* Another creation is listed only by its own step.
LEMMA NewlyListed ==
    ASSUME IInv, Places, [Next]_vars, ~raced',
           NEW n \in Name, NEW c \in Command, file'[n].by = c, file[n].by # c, type[n] # "singularity"
    PROVE  pc[c] = "write"
BY FileStep, InventoryAssumption DEF SameButStatus, NoEntry

\* The nodes of a cluster stay listed, or there are none.
LEMMA StepCluster ==
    ASSUME IInv, Places, Unraced, [Next]_vars, ~raced', NEW c \in Command
    PROVE  Cluster(c)'
<1> USE DEF IInv, Places
<1> SUFFICES ASSUME pc'[c] # "idle", op'[c] = "create", type'[name'[c]] = "aws-condor",
                    name'[c] \notin forced'
             PROVE  \/ file'[name'[c]].by = c
                    \/ /\ \A k \in Node : state'[<<c, k>>] \in {"none", "gone"}
                       /\ pc'[c] = "make" => \A k \in Node : state'[<<c, k>>] = "gone"
    BY DEF Cluster, Alive, Gone, Nodes
<1>1. type' = type /\ forced \subseteq forced'
      BY Keeps
<1>0. \A k \in Node : <<c, k>> \in Instance /\ state[<<c, k>>] \in Status \cup {"gone"}
      BY DEF Instance, TypeOK
<1>2. CASE pc[c] = "idle"
  <2>1. pc'[c] # "make"
        BY <1>2, MakeFrom DEF Write
  <2>2. ASSUME NEW k \in Node PROVE state'[<<c, k>>] = "none"
    <3>1. <<c, k>> \in Instance /\ state[<<c, k>>] = "none" /\ ~Make(c, k)
          BY <1>0, <1>2 DEF Made, Make
    <3> QED BY <3>1, WhyChanged, ActsOnOwn
  <2> QED BY <2>1, <2>2
<1>3. CASE pc[c] # "idle"
  <2> DEFINE n == name[c]
  <2>1. name'[c] = n /\ op[c] = "create" /\ type[n] = "aws-condor" /\ n \notin forced
        BY <1>1, <1>3, Keeps
  <2>2. n \in Name
        BY <1>3 DEF Place, Connected
  <2> HIDE DEF n
  <2>3. \/ file[n].by = c
        \/ /\ \A k \in Node : state[<<c, k>>] \in {"none", "gone"}
           /\ pc[c] = "make" => \A k \in Node : state[<<c, k>>] = "gone"
        BY <1>0, <1>3, <2>1 DEF Unraced, Cluster, Alive, Gone, Nodes, n, Status
  <2>4. (\A k \in Node : state[<<c, k>>] = "gone") => \A k \in Node : state'[<<c, k>>] = "gone"
        BY <1>0, Lasting
  <2>5. CASE file[n].by = c
    <3>1. Gone(c, n) => \A k \in Node : state[<<c, k>>] = "gone"
          BY <2>1 DEF Gone, Nodes
    <3> QED BY <2>1, <2>2, <2>4, <2>5, <3>1, StaysListed DEF SameButStatus
  <2>6. CASE /\ \A k \in Node : state[<<c, k>>] \in {"none", "gone"}
             /\ pc[c] = "make" => \A k \in Node : state[<<c, k>>] = "gone"
    <3>1. CASE pc[c] = "make"
          BY <2>4, <2>6, <3>1
    <3>2. CASE pc[c] # "make"
      <4>1. ASSUME NEW k \in Node PROVE state'[<<c, k>>] \in {"none", "gone"}
        <5>1. <<c, k>> \in Instance /\ ~Make(c, k)
              BY <1>0, <3>2 DEF Make
        <5>2. CASE state[<<c, k>>] = "gone"
              BY <5>1, <5>2, Lasting
        <5>3. CASE state[<<c, k>>] = "none"
              BY <5>1, <5>3, WhyChanged, ActsOnOwn
        <5> QED BY <2>6, <5>2, <5>3
      <4>2. ASSUME pc'[c] = "make" PROVE file'[n].by = c
        <5>1. Write(c)
              BY <2>1, <3>2, <4>2, MakeFrom DEF n
        <5>2. pc[c] = "write" /\ file' = mem[c]
              BY <5>1, Writes
        <5>3. OwnMade(c)
              BY <2>1, <5>2 DEF Place, Creates, Active
        <5> QED BY <2>1, <5>2, <5>3 DEF OwnMade, n
      <4> QED BY <2>1, <4>1, <4>2
    <3> QED BY <3>1, <3>2
  <2> QED BY <2>3, <2>5, <2>6
<1> QED BY <1>2, <1>3

\* What was reported as created stays listed.
LEMMA StepCreated ==
    ASSUME IInv, Places, Unraced, [Next]_vars, ~raced', NEW c \in Command
    PROVE  Created(c)'
<1> USE DEF IInv, Places
<1> SUFFICES ASSUME pc'[c] = "ok", op'[c] = "create"
             PROVE  LET n == name'[c] IN
                    /\ n \notin forced' => \A k \in Node : Alive(<<c, k>>)' => file'[n].by = c
                    /\ type'[n] = "aws-condor" /\ file'[n].by = c => file'[n].known = Node
    BY DEF Created
<1> DEFINE n == name[c]
<1>1. pc[c] # "idle"
      BY OkFrom DEF Write, TypeOK
<1>2. /\ type' = type /\ forced \subseteq forced' /\ name'[c] = n /\ op[c] = "create" /\ n \in Name
      BY <1>1, Keeps DEF Place, Connected
<1> HIDE DEF n
<1>3. ASSUME NEW k \in Node, Alive(<<c, k>>)', pc[c] \in {"ok", "write"}
      PROVE  Alive(<<c, k>>) /\ type[n] # "ssh" /\ k \in Nodes(n)
  <2>1. <<c, k>> \in Instance /\ ~Make(c, k)
        BY <1>3 DEF Instance, Make
  <2>2. Alive(<<c, k>>)
        BY <1>3, <2>1, Lasting
  <2> QED BY <2>1, <2>2 DEF Made, Alive, n
<1>4. CASE pc[c] = "ok"
  <2>1. ASSUME n \notin forced', NEW k \in Node, Alive(<<c, k>>)' PROVE file'[n].by = c
    <3>1. Alive(<<c, k>>) /\ type[n] # "ssh" /\ k \in Nodes(n)
          BY <1>3, <1>4, <2>1
    <3>2. file[n].by = c /\ n \notin forced
          BY <1>2, <1>4, <2>1, <3>1 DEF Unraced, Created, n
    <3>3. ~Gone(c, n)
          BY <3>1 DEF Gone, Alive
    <3> QED BY <1>2, <1>4, <3>1, <3>2, <3>3, StaysListed DEF SameButStatus
  <2>2. ASSUME type[n] = "aws-condor", file'[n].by = c PROVE file'[n].known = Node
    <3>1. file[n].by = c
          BY <1>2, <1>4, <2>2, NewlyListed
    <3>2. file[n].known = Node
          BY <1>2, <1>4, <2>2, <3>1 DEF Unraced, Created, n
    <3>3. SameButStatus(file'[n], file[n])
      <4>1. file[n] # NoEntry /\ file'[n] # NoEntry
            BY <2>2, <3>1, InventoryAssumption DEF NoEntry
      <4> QED BY <1>2, <1>4, <2>2, <3>1, <4>1, FileStep
    <3> QED BY <3>2, <3>3 DEF SameButStatus
  <2> QED BY <1>2, <2>1, <2>2
<1>5. CASE pc[c] # "ok"
  <2>1. Write(c) /\ Finished(c) /\ pc[c] = "write"
        BY <1>2, <1>5, OkFrom DEF Write
  <2>2. file' = mem[c] /\ OwnMade(c)
        BY <1>2, <2>1, Writes DEF Place, Creates, Active
  <2>3. ASSUME NEW k \in Node, Alive(<<c, k>>)' PROVE mem[c][n].by = c
    <3>1. Alive(<<c, k>>) /\ type[n] # "ssh" /\ k \in Nodes(n)
          BY <1>3, <2>1, <2>3
    <3>2. type[n] = "singularity" => k = 0 /\ found[c][0] = <<c, 0>>
          BY <2>2, <3>1 DEF OwnMade, Alive, Nodes, n
    <3> QED BY <2>1, <2>2, <3>2 DEF OwnMade, n
  <2>4. type[n] = "aws-condor" => mem[c][n].known = Node
    <3> SUFFICES ASSUME type[n] = "aws-condor" PROVE mem[c][n].known = Node
        OBVIOUS
    <3>1. mem[c][n].status = "running"
          BY <1>2, <2>1 DEF Finished, Ec2, n
    <3> QED BY <2>1, <2>2, <3>1 DEF OwnMade, n
  <2> QED BY <1>2, <2>2, <2>3, <2>4
<1> QED BY <1>4, <1>5

\* The last step of a delete command leaves nothing of its entry.
LEMMA ActDeletes ==
    ASSUME IInv, Places, [Next]_vars, NEW c \in Command, NEW k \in Node, Act(c, k),
           op[c] = "delete", todo[c] = {k}, Deleting(c), type[name[c]] # "ssh"
    PROVE  \A j \in Nodes(name[c]) : state'[<<mem[c][name[c]].by, j>>] = "gone"
<1> USE DEF IInv, Places
<1> DEFINE n == name[c]
           b == mem[c][n].by
<1>1. pc[c] = "act" /\ n \in Name /\ mem[c][n] # NoEntry
      BY DEF Act, EntryAtHand, NeedsEntry, Active
<1>2. b \in Command /\ Target(c) /\ Connected(c) /\ Listable(mem[c][n], n)
      BY <1>1 DEF TypeOK, Inventories, Entry, Place, Entries
<1>3. PICK i : /\ IF type[n] = "singularity" THEN i \in ByName(n, k) \/ (ByName(n, k) = {} /\ i = None)
                                             ELSE i = found[c][k]
               /\ i # None => i \in Instance /\ state' = [state EXCEPT ![i] = "gone"]
               /\ i = None => ~Ec2(n)
  <2> DEFINE T == IF type[n] = "singularity" THEN ByName(n, k) ELSE {found[c][k]} \ {None}
  <2>1. CASE T = {}
    <3>1. ~Ec2(n)
          BY <2>1 DEF Act
    <3> QED BY <2>1, <3>1
  <2>2. CASE T # {}
    <3>1. PICK j \in T : \E s \in Outcome(op[c], state[j]) : state' = [state EXCEPT ![j] = s]
          BY <2>2 DEF Act
    <3>2. state' = [state EXCEPT ![j] = "gone"]
          BY <3>1 DEF Outcome
    <3>3. j \in Instance /\ j # None
          BY <3>1, Typing DEF ByName, TypeOK
    <3> QED BY <3>1, <3>2, <3>3
  <2> QED BY <2>1, <2>2
<1> HIDE DEF n, b
<1>4. i # None => state'[i] = "gone"
      BY <1>3 DEF TypeOK
<1> SUFFICES ASSUME NEW j \in Nodes(n) PROVE state'[<<b, j>>] = "gone"
    BY DEF n, b
<1>5. j \in Node /\ <<b, j>> \in Instance /\ (type[n] # "aws-condor" => j = 0)
      BY <1>2, Typing DEF Nodes, Instance
<1>6. state[<<b, j>>] = "gone" => state'[<<b, j>>] = "gone"
      BY <1>5, Lasting
<1>7. type[n] # "aws-condor" => k = 0
      BY <1>2 DEF Target, Nodes, n
<1>8. CASE type[n] = "aws-condor"
  <2>1. Ec2(n) /\ Nodes(n) = Node
        BY <1>8 DEF Ec2, Nodes
  <2>2. /\ found[c][j] # None
        /\ state[found[c][j]] = "gone" \/ state'[found[c][j]] = "gone"
    <3>1. CASE j = k
          BY <1>3, <1>4, <1>8, <2>1, <3>1
    <3>2. CASE j # k
          BY <1>1, <1>5, <1>8, <3>2 DEF Deleting, n
    <3> QED BY <3>1, <3>2
  <2>3. found[c][j] \in Instance /\ found[c][j][2] = j
        BY <1>2, <1>5, <2>2 DEF Connected, TypeOK
  <2>4. state'[found[c][j]] = "gone"
        BY <2>2, <2>3, Lasting
  <2>5. found[c][j][1] = b \/ Gone(b, n)
        BY <1>1, <1>5, <1>8, <2>2 DEF Deleting, n, b
  <2>6. found[c][j] = <<found[c][j][1], j>>
        BY <2>3 DEF Instance
  <2> QED BY <1>6, <2>1, <2>4, <2>5, <2>6 DEF Gone
<1>9. CASE type[n] = "aws-ec2"
  <2>1. found[c][0] = <<b, 0>> /\ i = found[c][0]
        BY <1>2, <1>3, <1>7, <1>9 DEF Target, n, b
  <2> QED BY <1>3, <1>4, <1>5, <1>9, <2>1 DEF Ec2
<1>10. CASE type[n] = "docker-container"
  <2>1. i = found[c][0] /\ (found[c][0] = <<b, 0>> \/ state[<<b, 0>>] = "gone")
        BY <1>2, <1>3, <1>7, <1>10 DEF Target, n, b
  <2>2. None # <<b, 0>>
        BY <1>5, <1>10, Typing
  <2> QED BY <1>4, <1>5, <1>6, <1>10, <2>1, <2>2
<1>11. CASE type[n] = "singularity"
  <2>1. b \in Command /\ name[b] = n /\ state[<<b, 0>>] # "none" /\ j = 0 /\ k = 0
        BY <1>1, <1>2, <1>5, <1>7, <1>11 DEF Listable, Single, n, b
  <2>2. state[<<b, 0>>] \in {"running", "gone"}
        BY <1>5, <1>11, <2>1 DEF Made
  <2>3. CASE state[<<b, 0>>] = "running"
    <3>1. <<b, 0>> \in ByName(n, 0)
          BY <1>5, <1>11, <2>1, <2>3 DEF ByName
    <3>2. i \in ByName(n, 0)
          BY <1>3, <1>11, <2>1, <3>1
    <3>3. i \in Instance /\ name[i[1]] = n /\ state[i] = "running"
          BY <1>11, <3>2, Typing DEF ByName, Ec2
    <3>4. i = <<b, 0>>
          BY <1>5, <1>11, <2>1, <2>3, <3>3 DEF OneRunning
    <3> QED BY <1>4, <2>1, <3>3, <3>4, Typing
  <2> QED BY <1>6, <2>1, <2>2, <2>3
<1>12. type[n] \in {"docker-container", "singularity", "ssh", "aws-ec2", "aws-condor"}
      BY <1>1, InventoryAssumption DEF TypeOK
<1> QED BY <1>8, <1>9, <1>10, <1>11, <1>12 DEF n

\* What a delete command knows of a cluster stays true of it.
LEMMA EntryOrGone ==
    ASSUME IInv, Places, Unraced, [Next]_vars, ~raced', NEW n \in Name \ forced,
           NEW b \in Command, type[n] = "aws-condor", file[n].by = b \/ Gone(b, n)
    PROVE  file'[n].by = b \/ Gone(b, n)'
<1>1. type' = type /\ \A k \in Node : <<b, k>> \in Instance
      BY Keeps DEF IInv, Instance
<1>2. ASSUME Gone(b, n) PROVE Gone(b, n)'
  <2>1. \A k \in Nodes(n) : state'[<<b, k>>] = "gone"
    <3> TAKE k \in Nodes(n)
    <3>1. k \in Node /\ state[<<b, k>>] = "gone"
          BY <1>2 DEF Gone, Nodes
    <3> QED BY <1>1, <3>1, Lasting DEF IInv, Places
  <2> QED BY <1>1, <2>1 DEF Gone, Nodes
<1> QED BY <1>2, StaysListed DEF SameButStatus

\* What a delete command removes the entry of has gone.
LEMMA StepDeleting ==
    ASSUME IInv, Places, Unraced, [Next]_vars, ~raced', NEW c \in Command, Deletes(c)'
    PROVE  Deleting(c)'
<1> USE DEF IInv, Places
<1>0. /\ pc'[c] \in Active /\ op'[c] = "delete" /\ name'[c] \notin forced'
      /\ type' = type /\ forced \subseteq forced'
      BY Keeps DEF Deletes
<1>1. CASE pc[c] = "idle"
  <2>1. PICK o \in Ops, m \in Name : Load(c, o, m)
    <3>1. CASE UNCHANGED vars \/ \E i \in Instance : BecomesRunning(i)
          BY <1>0, <1>1, <3>1 DEF vars, BecomesRunning, Active
    <3>2. ASSUME NEW d \in Command \ {c}, Step(d) PROVE FALSE
          BY <1>0, <1>1, <3>2, Locality DEF Active
    <3> QED BY <1>1, <3>1, <3>2, OwnSteps DEF Next, Step, Active
  <2>2. pc'[c] = "connect" /\ mem'[c] = file /\ file' = file
        BY <1>0, <2>1 DEF Load, TypeOK, Active
  <2> QED BY <2>2 DEF Deleting
<1>2. CASE pc[c] # "idle"
  <2>0. PICK n, e, b :
            n = name[c] /\ n \in Name /\ e = mem[c][n] /\ e \in Entry \cup {NoEntry} /\ b = e.by
        BY <1>2 DEF Place, Connected, TypeOK, Inventories
  <2>1. /\ name'[c] = n /\ op[c] = "delete" /\ n \in Name \ forced /\ pc'[c] # "idle"
        /\ pc[c] # "connect" => pc'[c] # "connect"
        BY <1>0, <1>2, <2>0, Keeps
  <2>2. \/ pc'[c] = pc[c] /\ mem'[c] = mem[c] /\ found'[c] = found[c] /\ todo'[c] = todo[c]
           /\ pc[c] \in Active /\ (\A d \in Command : Write(d) => d # c)
        \/ ConnectEntry(c) \/ Truncate(c) \/ \E k \in Node : Act(c, k)
    <3>1. CASE UNCHANGED vars \/ \E i \in Instance : BecomesRunning(i)
      <4>1. pc' = pc /\ mem' = mem /\ found' = found /\ todo' = todo
            BY <3>1 DEF vars, BecomesRunning
      <4>2. ~Write(c)
            BY <2>1, <4>1 DEF Write, TypeOK, Finished
      <4> QED BY <1>0, <4>1, <4>2
    <3>2. ASSUME NEW d \in Command \ {c}, Step(d)
          PROVE  pc'[c] = pc[c] /\ mem'[c] = mem[c] /\ found'[c] = found[c] /\ todo'[c] = todo[c]
                 /\ pc[c] \in Active /\ ~Write(c)
      <4>1. pc'[c] = pc[c] /\ mem'[c] = mem[c] /\ found'[c] = found[c] /\ todo'[c] = todo[c]
            BY <3>2, Locality, LocalToo
      <4>2. ~Write(c)
            BY <2>1, <4>1 DEF Write, TypeOK, Finished
      <4> QED BY <1>0, <4>1, <4>2
    <3>3. CASE Step(c)
      <4>1. ~ForceDelete(c)
            BY <1>0, <2>1 DEF ForceDelete
      <4>2. ~Refresh(c) /\ ~Cut(c) /\ ~Write(c)
            BY <1>0, <2>1 DEF Refresh, Cut, Write, Finished, Active, TypeOK
      <4>3. ~Create(c)
            BY <2>1 DEF Create, ConnectCreate, StartContainer, Make, Tag, Makes, YieldHost,
               YieldContainer, YieldInstance, YieldCluster, YieldNode, EntryAtHand
      <4> QED BY <1>2, <3>3, <4>1, <4>2, <4>3 DEF Step, Load
    <3> QED BY <3>1, <3>2, <3>3 DEF Next, Step
  <2>3. pc[c] \in Active /\ Deleting(c)
    <3>1. pc[c] \in Active
          BY <2>2 DEF ConnectEntry, Truncate, Act, Active
    <3> QED BY <2>0, <2>1, <3>1 DEF Unraced, Deletes
  <2>4. pc[c] \in {"connect", "act"} => e \in Entry /\ b \in Command
        BY <2>0, <2>1 DEF EntryAtHand, NeedsEntry, Inventories, Entry
  <2>5. /\ pc'[c] \in {"connect", "act"} => mem'[c] = mem[c] /\ pc[c] \in {"connect", "act"}
    <3>1. ASSUME NEW k \in Node, Act(c, k), pc'[c] \in {"connect", "act"}
          PROVE  mem'[c] = mem[c] /\ pc[c] = "act"
          BY <3>1 DEF Act, Settle, TypeOK
    <3>2. ConnectEntry(c) => mem' = mem /\ pc[c] = "connect"
          BY DEF ConnectEntry
    <3>3. Truncate(c) => pc'[c] = "write"
          BY DEF Truncate, TypeOK
    <3> QED BY <2>2, <3>1, <3>2, <3>3
  <2>6. ASSUME pc'[c] \in {"connect", "act"}, type[n] = "aws-condor"
        PROVE  file'[n].by = b \/ Gone(b, n)'
        BY <2>0, <2>1, <2>3, <2>4, <2>5, <2>6, EntryOrGone DEF Deleting
  <2>7. ASSUME pc'[c] = "act", type[n] = "aws-condor", NEW k \in Node
        PROVE  /\ found'[c][k] # None => found'[c][k][1] = b \/ Gone(b, n)'
               /\ k \notin todo'[c] => found'[c][k] # None /\ state'[found'[c][k]] = "gone"
    <3>1. Gone(b, n) => Gone(b, n)'
      <4> SUFFICES ASSUME Gone(b, n) PROVE \A j \in Node : state'[<<b, j>>] = "gone"
          BY <1>0, <2>7 DEF Gone, Nodes
      <4> TAKE j \in Node
      <4>1. <<b, j>> \in Instance /\ state[<<b, j>>] = "gone"
            BY <2>4, <2>5, <2>7 DEF Gone, Nodes, Instance
      <4> QED BY <4>1, Lasting
    <3>2. ASSUME pc[c] = "act", found'[c] = found[c],
                 k \in todo[c] => k \in todo'[c] \/ (found[c][k] # None /\ state'[found[c][k]] = "gone")
          PROVE  /\ found'[c][k] # None => found'[c][k][1] = b \/ Gone(b, n)'
                 /\ k \notin todo'[c] => found'[c][k] # None /\ state'[found'[c][k]] = "gone"
      <4>1. /\ found[c][k] # None => found[c][k][1] = b \/ Gone(b, n)
            /\ k \notin todo[c] => found[c][k] # None /\ state[found[c][k]] = "gone"
            BY <2>0, <2>3, <2>7, <3>2 DEF Deleting
      <4>2. found[c][k] # None => found[c][k] \in Instance
            BY DEF TypeOK
      <4>3. k \notin todo[c] => state'[found[c][k]] = "gone"
            BY <4>1, <4>2, Lasting
      <4> QED BY <3>1, <3>2, <4>1, <4>3
    <3>3. CASE pc'[c] = pc[c] /\ found'[c] = found[c] /\ todo'[c] = todo[c]
          BY <2>7, <3>2, <3>3
    <3>4. ASSUME NEW j \in Node, Act(c, j)
          PROVE  /\ pc[c] = "act" /\ found'[c] = found[c]
                 /\ k \in todo[c] => k \in todo'[c] \/ (found[c][k] # None /\ state'[found[c][k]] = "gone")
      <4>1. pc[c] = "act" /\ found' = found /\ todo'[c] = todo[c] \ {j}
            BY <3>4 DEF Act, Settle, TypeOK
      <4>2. Ec2(n) /\ type[n] # "singularity"
            BY <2>7 DEF Ec2
      <4>3. found[c][j] # None /\ state' = [state EXCEPT ![found[c][j]] = "gone"]
            BY <2>0, <2>1, <3>4, <4>2 DEF Act, Outcome
      <4>4. state'[found[c][j]] = "gone"
            BY <4>3 DEF TypeOK
      <4> QED BY <4>1, <4>3, <4>4
    <3>5. CASE ConnectEntry(c)
      <4>1. /\ found'[c] \in [Node -> Instance \cup {None}] /\ pc[c] = "connect" /\ todo' = todo
            /\ found'[c][k] = None \/ found'[c][k] \in ById(e, n, k)
            BY <2>0, <3>5 DEF ConnectEntry, Attach, TypeOK
      <4>2. todo[c] = Node
            BY <2>0, <2>7, <4>1 DEF Place, Connected, Nodes
      <4>3. ASSUME found'[c][k] # None PROVE found'[c][k][1] = b \/ Gone(b, n)
        <5> DEFINE i == found'[c][k]
        <5>1. CASE k \in e.known
          <6>1. i = <<b, k>>
                BY <2>0, <2>7, <4>1, <4>3, <5>1 DEF ById, Ec2
          <6> QED BY <6>1
        <5>2. CASE k \notin e.known
          <6>1. i \in ByName(n, k)
                BY <4>1, <4>3, <5>2 DEF ById
          <6>2. i \in Instance /\ name[i[1]] = n /\ i[2] = k /\ Alive(i) /\ state[i] # "none"
                BY <2>0, <2>1, <6>1, <1>2, ByNameConnects
          <6> HIDE DEF i
          <6>3. i[1] \in Command /\ i = <<i[1], k>> /\ pc[i[1]] # "idle" /\ op[i[1]] = "create"
                BY <6>2 DEF Made, Instance
          <6>4. file[n].by = i[1]
                BY <2>1, <2>7, <6>2, <6>3 DEF Unraced, Cluster
          <6>5. file[n].by = b \/ Gone(b, n)
                BY <2>0, <2>3, <2>7, <4>1 DEF Deleting
          <6> QED BY <6>4, <6>5 DEF i
        <5> QED BY <5>1, <5>2
      <4> QED BY <3>1, <4>1, <4>2, <4>3
    <3>6. CASE Truncate(c)
          BY <2>7, <3>6 DEF Truncate, TypeOK
    <3> QED BY <2>2, <3>2, <3>3, <3>4, <3>5, <3>6
  <2>8. ASSUME pc'[c] \in {"truncate", "write"}, c \notin outdated', type[n] # "ssh"
        PROVE  Gone(file[n].by, n)'
    <3>1. ASSUME NEW d \in Command, Write(d) PROVE FALSE
      <4>1. d # c
            BY <1>0, <2>1, <3>1 DEF Write, Finished, Active, TypeOK
      <4> QED BY <1>2, <2>8, <3>1, <4>1, Writes
    <3>2. file' = file /\ outdated' = outdated
          BY <3>1, OnlyWrites
    <3>3. file[n] # NoEntry /\ OwnIsCurrent(c)
          BY <2>0, <2>1, <2>3, <2>8, <3>2 DEF Place, OwnIsCurrent
    <3>4. file[n].by \in Command
          BY <2>1, <3>3 DEF TypeOK, Inventories, Entry
    <3> SUFFICES \A j \in Nodes(n) : state'[<<file[n].by, j>>] = "gone"
        BY <1>0, <3>2 DEF Gone, Nodes
    <3>5. CASE pc[c] \in {"truncate", "write"}
      <4> TAKE j \in Nodes(n)
      <4>1. <<file[n].by, j>> \in Instance
            BY <3>4, Typing DEF Nodes, Instance
      <4>2. state[<<file[n].by, j>>] = "gone"
            BY <2>0, <2>3, <2>8, <3>2, <3>5 DEF Deleting, Gone
      <4> QED BY <4>1, <4>2, Lasting
    <3>6. ASSUME NEW k \in Node, Act(c, k)
          PROVE  \A j \in Nodes(n) : state'[<<file[n].by, j>>] = "gone"
      <4>1. todo[c] = {k} /\ pc[c] = "act"
            BY <2>8, <3>6 DEF Act, Settle
      <4>2. mem[c][n] = file[n]
            BY <2>0, <2>1, <3>3, <4>1 DEF OwnIsCurrent
      <4> QED BY <2>0, <2>1, <2>3, <2>8, <3>6, <4>1, <4>2, ActDeletes
    <3>7. CASE ConnectEntry(c)
          BY <2>8, <3>7 DEF ConnectEntry, TypeOK
    <3>8. CASE Truncate(c)
          BY <3>5, <3>8 DEF Truncate
    <3> QED BY <2>2, <2>8, <3>5, <3>6, <3>7, <3>8
  <2>9. pc'[c] \in {"connect", "act"} => mem'[c][n].by = b
        BY <2>0, <2>5
  <2> QED BY <1>0, <2>1, <2>6, <2>7, <2>8, <2>9 DEF Deleting, Gone, Nodes
<1> QED BY <1>1, <1>2

\* A reason is one for more commands, too.
LEMMA MoreReasons ==
    ASSUME NEW e, NEW n, NEW V, NEW W, V \subseteq W, Excused(e, n, V)
    PROVE  Excused(e, n, W)
BY DEF Excused, Unfinished

\* A container that is being made is in no inventory.
Stored(e, n) == type[n] = "docker-container" /\ e # NoEntry => pc[e.by] # "make"

\* That is so of every entry.
LEMMA AllStored ==
    ASSUME IInv, Places, NEW n \in Name, NEW c \in Command
    PROVE  Stored(file[n], n) /\ Stored(mem[c][n], n)
<1> USE DEF IInv, Places
<1>1. file[n] \in Entry \cup {NoEntry} /\ mem[c][n] \in Entry \cup {NoEntry}
      BY DEF TypeOK, Inventories
<1>2. ASSUME NEW e \in Entry, type[n] = "docker-container", pc[e.by] = "make", Listable(e, n), e # NoEntry
      PROVE  file[n].by # e.by /\ mem[c][n].by # e.by
  <2>1. e.by \in Command /\ name[e.by] = n
        BY <1>2 DEF Listable
  <2>2. Creates(e.by) /\ Unsaved(e.by)
        BY <1>2, <2>1 DEF Creates, Unsaved, Active, EntryAtHand
  <2> QED BY <1>2, <2>1, <2>2 DEF Private
<1> QED BY <1>1, <1>2 DEF Stored, Entries

\* A reason lasts until the command that is one has written.
LEMMA ReasonsLast ==
    ASSUME IInv, Places, [Next]_vars, NEW n \in Name, NEW W \in SUBSET Command,
           NEW ops \in SUBSET {"delete", "start", "stop"},
           type[n] = "singularity" => ops = {"delete"}, Single(n),
           \A d \in W : name[d] = n /\ op[d] \in ops => ~Write(d),
           Unfinished(n, ops, W)
    PROVE  Unfinished(n, ops, W)'
<1>1. PICK d \in W : name[d] = n /\ op[d] \in ops /\ pc[d] # "ok"
      BY DEF Unfinished
<1>2. pc[d] # "idle" => name'[d] = n /\ op'[d] \in ops
      BY <1>1, Keeps DEF IInv
<1>3. pc[d] # "idle"
      BY <1>1, InventoryAssumption DEF Places, Place, Connected
<1>4. ~Write(d)
      BY <1>1
<1>5. pc'[d] # "ok"
      BY <1>1, <1>4, OkFrom DEF Single
<1> QED BY <1>1, <1>2, <1>3, <1>5 DEF Unfinished

\* What is said of an instance stays true, or has its reason.
LEMMA ExcusedKept ==
    ASSUME IInv, Places, [Next]_vars, NEW n \in Name, NEW W \in SUBSET Command,
           NEW e \in Entry \cup {NoEntry}, Listable(e, n), Stored(e, n), Excused(e, n, W),
           \A d \in W : name[d] = n /\ op[d] \in {"delete", "start", "stop"} => ~Write(d),
           \A d \in Command \ W, k \in Node : ~Act(d, k)
    PROVE  Excused(e, n, W)'
<1> USE DEF IInv, Places
<1> SUFFICES ASSUME e # NoEntry, Single(n) PROVE Excused(e, n, W)'
  <2>1. type' = type
        BY Keeps
  <2> QED BY <2>1 DEF Excused, Single
<1> DEFINE i == <<e.by, 0>>
           s == state[i]
           t == state'[i]
<1>1. type' = type
      BY Keeps
<1>2. /\ e.by \in Command /\ name[e.by] = n /\ state[i] # "none" /\ i \in Instance
      /\ i[1] = e.by /\ i[2] = 0
      BY Typing DEF Listable, Single
<1>3. /\ type[n] = "singularity" => e.status # "stopped" /\ s \in {"running", "gone"}
      /\ e.status = "stopped" => s # "pending" /\ (s = "running" => Unfinished(n, {"start"}, W))
      /\ e.status = "running" /\ s = "stopped" => Unfinished(n, {"stop", "delete"}, W)
      /\ s = "gone" => Unfinished(n, {"delete"}, W)
      BY <1>2 DEF Excused, Made
<1> HIDE DEF i
<1>4. /\ s = "gone" => Unfinished(n, {"delete"}, W)'
      /\ e.status = "stopped" /\ s = "running" => Unfinished(n, {"start"}, W)'
      /\ e.status = "running" /\ s = "stopped" => Unfinished(n, {"stop", "delete"}, W)'
  <2>1. Unfinished(n, {"delete"}, W) => Unfinished(n, {"delete"}, W)'
        BY ReasonsLast
  <2>2. Unfinished(n, {"start"}, W) /\ type[n] # "singularity" => Unfinished(n, {"start"}, W)'
        BY ReasonsLast
  <2>3. Unfinished(n, {"stop", "delete"}, W) /\ type[n] # "singularity"
            => Unfinished(n, {"stop", "delete"}, W)'
        BY ReasonsLast
  <2> QED BY <1>3, <2>1, <2>2, <2>3
<1>5. CASE t = s
      BY <1>1, <1>3, <1>4, <1>5 DEF Excused, i
<1>6. ASSUME NEW d \in Command, ActsOn(d, i) PROVE Excused(e, n, W)'
  <2>1. PICK k \in Node : Act(d, k) /\ pc[d] = "act"
        BY <1>6 DEF ActsOn
  <2>2. d \in W
        BY <2>1
  <2>3. name[d] = n /\ (type[n] = "singularity" => op[d] = "delete")
        BY <1>2, <1>6, ActsOnOwn
  <2>4. op[d] \in {"delete", "start", "stop"} /\ t \in Outcome(op[d], s)
        BY <1>6, <2>1 DEF EntryAtHand, ActsOn
  <2>5. name'[d] = n /\ op'[d] = op[d] /\ pc'[d] # "ok"
        BY <2>1, <2>3, Keeps, OkFrom DEF Write
  <2>6. \A ops : op[d] \in ops => Unfinished(n, ops, W)'
        BY <2>2, <2>5 DEF Unfinished
  <2> HIDE DEF s, t
  <2>7. /\ e.status = "stopped" => t # "pending" /\ (t = "running" => Unfinished(n, {"start"}, W)')
        /\ e.status = "running" /\ t = "stopped" => Unfinished(n, {"stop", "delete"}, W)'
        /\ t = "gone" => Unfinished(n, {"delete"}, W)'
        BY <2>4, <2>6 DEF Outcome
  <2> QED BY <1>1, <1>3, <2>7 DEF Excused, i, t
<1>7. ASSUME s = "pending", t = "running" PROVE Excused(e, n, W)'
      BY <1>1, <1>3, <1>7 DEF Excused, i
<1>8. ASSUME StartContainer(i[1]) PROVE FALSE
  <2>1. pc[e.by] = "make" /\ type[name[e.by]] = "docker-container"
        BY <1>2, <1>8 DEF StartContainer, Makes
  <2> QED BY <1>2, <2>1 DEF Stored
<1> QED BY <1>2, <1>5, <1>6, <1>7, <1>8, WhyChanged

\* In the file every status is excused ...
LEMMA FileExcused ==
    ASSUME IInv, Places, Reasons, [Next]_vars, ~raced', NEW n \in Name
    PROVE  Excused(file[n], n, Command)'
<1> USE DEF IInv, Places
<1>1. ASSUME NEW c \in Command, Write(c), op[c] = "refresh" \/ n = name[c]
      PROVE  Excused(file[n], n, Command)'
  <2>1. c \notin outdated /\ pc[c] = "write" /\ file' = mem[c]
        BY <1>1, Writes
  <2>2. PICK e \in Entry \cup {NoEntry} : e = mem[c][n]
        BY DEF TypeOK, Inventories
  <2>3. Excused(e, n, Command \ {c})
        BY <1>1, <2>1, <2>2 DEF Reasons, ToWrite
  <2>4. ASSUME NEW d \in Command \ {c} PROVE ~Write(d)
        BY <1>1, <2>1, <2>4, Writes, Typing DEF Write, TypeOK
  <2>5. \A d \in Command, k \in Node : ~(d = c /\ Act(d, k))
        BY <2>1 DEF Act
  <2>6. Listable(e, n) /\ Stored(e, n)
        BY <2>2, AllStored DEF Entries
  <2>7. Excused(e, n, Command \ {c})'
        BY <2>3, <2>4, <2>5, <2>6, ExcusedKept
  <2>8. Excused(e, n, Command)'
        BY <2>7 DEF Excused, Unfinished
  <2>9. e = file'[n]
        BY <2>1, <2>2
  <2> QED BY <2>8, <2>9 DEF Excused
<1>2. ASSUME \A c \in Command : Write(c) => op[c] # "refresh" /\ n # name[c]
      PROVE  Excused(file[n], n, Command)'
  <2>1. PICK e \in Entry \cup {NoEntry} : e = file[n]
        BY DEF TypeOK, Inventories
  <2>2. Excused(e, n, Command) /\ Listable(e, n)
        BY <2>1 DEF Reasons, Entries
  <2>3. Stored(e, n)
    <3>1. CASE Command = {}
      <4>1. e = NoEntry
            BY <3>1 DEF Entry
      <4> QED BY <4>1 DEF Stored
    <3> QED BY <2>1, <3>1, AllStored
  <2>4. Excused(e, n, Command)'
        BY <1>2, <2>2, <2>3, ExcusedKept
  <2>5. file'[n] = e
    <3>1. ASSUME NEW c \in Command, Write(c) PROVE file'[n] = e
      <4>1. c \notin outdated /\ pc[c] = "write" /\ file' = mem[c]
            BY <3>1, Writes
      <4> QED BY <1>2, <2>1, <3>1, <4>1 DEF MemoryIsCurrent, Active
    <3> QED BY <2>1, <3>1, OnlyWrites
  <2> QED BY <2>4, <2>5 DEF Excused
<1> QED BY <1>1, <1>2

\* What the backend says of a resource is said of its instance.
LEMMA ObservedIsTrue ==
    ASSUME IInv, Places, NEW n \in Name, NEW e \in Entry, Single(n), Listable(e, n)
    PROVE  \/ Observed(e, n) = "none"
           \/ Observed(e, n) = state[<<e.by, 0>>] /\ type[n] # "singularity"
           \/ Observed(e, n) = "running" /\ type[n] = "singularity"
<1> USE DEF IInv, Places
<1> DEFINE seen == {state[i] : i \in ById(e, n, 0)} \cap Status
<1>1. e.by \in Command /\ name[e.by] = n /\ 0 \in e.known /\ e # NoEntry
      BY InventoryAssumption DEF Listable, Entry, NoEntry
<1>2. CASE seen = {}
      BY <1>2 DEF Observed, Single
<1>3. CASE seen # {}
  <2>1. (CHOOSE s \in seen : TRUE) \in seen
        BY <1>3
  <2>2. Observed(e, n) \in seen
        BY <1>3, <2>1 DEF Observed, Single
  <2>3. PICK i \in ById(e, n, 0) : Observed(e, n) = state[i]
        BY <2>2
  <2> HIDE DEF seen
  <2>4. CASE type[n] = "aws-ec2"
    <3>1. i = <<e.by, 0>>
          BY <1>1, <2>3, <2>4 DEF ById, Ec2
    <3> QED BY <2>3, <2>4, <3>1
  <2>5. CASE type[n] = "docker-container"
    <3>1. i \in Instance /\ i[1] = e.by /\ i[2] = 0
          BY <2>3, <2>5 DEF ById, Ec2, ByName
    <3>2. i = <<e.by, 0>>
          BY <3>1 DEF Instance
    <3> QED BY <2>3, <2>5, <3>2
  <2>6. CASE type[n] = "singularity"
    <3>1. state[i] = "running"
          BY <2>3, <2>6 DEF ById, Ec2, ByName
    <3> QED BY <2>3, <2>6, <3>1
  <2> QED BY <2>4, <2>5, <2>6 DEF Single
<1> QED BY <1>2, <1>3

\* The reason that something has gone is not a command that does not delete.
LEMMA OthersDelete ==
    ASSUME IInv, Places, [Next]_vars, NEW n \in Name, Single(n),
           NEW c \in Command, op[c] # "delete", Step(c), ~Write(c),
           Unfinished(n, {"delete"}, Command)
    PROVE  Unfinished(n, {"delete"}, Command \ {c})'
<1>1. Unfinished(n, {"delete"}, Command \ {c})
      BY DEF Unfinished
<1>2. ASSUME NEW d \in Command \ {c}, Write(d) PROVE FALSE
      BY <1>2, Locality DEF Write, IInv, TypeOK
<1> QED BY <1>1, <1>2, ReasonsLast

\* ... and in the inventory of a command that is to write it: refreshed, ...
LEMMA RefreshExcused ==
    ASSUME IInv, Places, Reasons, [Next]_vars, NEW n \in Name,
           NEW c \in Command, c \notin outdated, Refresh(c)
    PROVE  Excused(mem[c][n], n, Command \ {c})'
<1> USE DEF IInv, Places
<1>1. PICK e, f : e \in Entry \cup {NoEntry} /\ e = mem[c][n] /\ f = mem'[c][n]
      BY DEF TypeOK, Inventories
<1>2. /\ pc[c] = "connect" /\ op[c] = "refresh" /\ state' = state /\ type' = type
      /\ IF e = NoEntry THEN f = NoEntry
         ELSE \E s \in {"none", Observed(e, n)} : f = [e EXCEPT !.status = s]
  <2>1. PICK errors \in SUBSET Name :
           mem' = [mem EXCEPT ![c] = [m \in Name |->
              LET g == mem[c][m]
              IN  IF g = NoEntry THEN NoEntry
                  ELSE [g EXCEPT !.status = IF m \in errors THEN "none" ELSE Observed(g, m)]]]
        BY DEF Refresh
  <2>2. f = IF e = NoEntry THEN NoEntry
            ELSE [e EXCEPT !.status = IF n \in errors THEN "none" ELSE Observed(e, n)]
        BY <1>1, <2>1 DEF TypeOK
  <2>3. pc[c] = "connect" /\ op[c] = "refresh" /\ state' = state /\ type' = type
        BY DEF Refresh
  <2>4. CASE n \in errors
        BY <2>2, <2>3, <2>4
  <2>5. CASE n \notin errors
        BY <2>2, <2>3, <2>5
  <2> QED BY <2>4, <2>5
<1> SUFFICES ASSUME f # NoEntry, Single(n) PROVE Excused(mem[c][n], n, Command \ {c})'
    BY <1>1, <1>2 DEF Excused, Single
<1>3. e \in Entry /\ e # NoEntry
      BY <1>1, <1>2
<1>4. PICK s \in {"none", Observed(e, n)} : f = [e EXCEPT !.status = s]
      BY <1>2, <1>3
<1>5. f.by = e.by /\ f.status = s
      BY <1>3, <1>4 DEF Entry
<1>6. SameButStatus(e, file[n])
      BY <1>1, <1>2 DEF MemoryIsCurrent, Active
<1>7. file[n] # NoEntry
      BY <1>3, <1>6, InventoryAssumption DEF SameButStatus, NoEntry, Entry
<1>8. Listable(e, n)
      BY <1>1 DEF Entries
<1>9. state[<<e.by, 0>>] = "gone" => Unfinished(n, {"delete"}, Command \ {c})'
  <2>1. state[<<e.by, 0>>] = "gone" => Unfinished(n, {"delete"}, Command)
        BY <1>6, <1>7 DEF Reasons, Excused, SameButStatus
  <2>2. Step(c) /\ ~Write(c)
        BY <1>2 DEF Step, Write
  <2> QED BY <1>2, <2>1, <2>2, OthersDelete
<1>10. /\ type[n] = "singularity" => s # "stopped" /\ state[<<e.by, 0>>] # "stopped"
       /\ type[n] # "singularity" /\ s # "none" => s = state[<<e.by, 0>>]
  <2>1. type[n] = "singularity" => state[<<e.by, 0>>] # "stopped"
        BY <1>3, <1>8, Typing DEF Listable, Single, Made
  <2> QED BY <1>3, <1>8, <2>1, ObservedIsTrue
<1>11. /\ type[n] = "singularity" => f.status # "stopped"
       /\ f.status = "stopped" => state'[<<f.by, 0>>] = "stopped"
       /\ f.status = "running" => state'[<<f.by, 0>>] # "stopped"
       /\ state'[<<f.by, 0>>] = "gone" => Unfinished(n, {"delete"}, Command \ {c})'
      BY <1>2, <1>5, <1>9, <1>10
<1> QED BY <1>1, <1>2, <1>11 DEF Excused

\* ... what a creation yields, ...
LEMMA YieldExcused ==
    ASSUME IInv, Places, [Next]_vars, NEW c \in Command, NEW n \in Name, n = name[c],
           \/ YieldHost(c) \/ YieldContainer(c) \/ YieldInstance(c) \/ YieldCluster(c)
           \/ \E k \in Node : YieldNode(c, k)
    PROVE  Excused(mem[c][n], n, Command \ {c})'
<1> USE DEF IInv, Places
<1>1. PICK e \in Entry, rest \in SUBSET Node : Yield(c, e, rest)
      BY YieldingTyped
<1>2. pc[c] = "make" /\ op[c] = "create" /\ Listable(e, n)
      BY <1>1, YieldsListable
<1>3. OwnMade(c) /\ Connected(c)
      BY <1>2 DEF Place, Creates, Active
<1>4. mem'[c][n] = e /\ state' = state /\ type' = type
      BY <1>1 DEF Yield, TypeOK, Inventories
<1>5. ASSUME NEW f, NEW r, Yield(c, f, r) PROVE e = f
      BY <1>4, <1>5 DEF Yield, TypeOK, Inventories
<1> SUFFICES ASSUME Single(n)
             PROVE  /\ e.status # "stopped"
                    /\ e.status = "running" => state[<<e.by, 0>>] = "running"
                    /\ state[<<e.by, 0>>] # "gone"
    BY <1>4 DEF Excused, Single
<1>6. CASE YieldContainer(c)
  <2>1. /\ type[n] \in {"docker-container", "singularity"} /\ found[c][0] # None
        /\ state[found[c][0]] = "running"
        BY <1>6 DEF YieldContainer, Makes
  <2>2. e = [by |-> found[c][0][1], known |-> {0}, status |-> "running"]
        BY <1>5, <1>6 DEF YieldContainer
  <2>3. found[c][0] \in Instance /\ found[c][0][2] = 0
        BY <1>3, <2>1, Typing DEF Connected, TypeOK
  <2>4. found[c][0] = <<e.by, 0>>
        BY <2>2, <2>3 DEF Instance
  <2> QED BY <2>1, <2>2, <2>4
<1>7. CASE YieldInstance(c)
  <2>1. /\ type[n] = "aws-ec2"
        /\ 0 \notin todo[c] => state[<<c, 0>>] = "running"
        BY <1>7 DEF YieldInstance, Makes
  <2>2. e = [by |-> c, known |-> {0}, status |-> IF 0 \in todo[c] THEN "pending" ELSE "running"]
        BY <1>5, <1>7 DEF YieldInstance
  <2>3. CASE 0 \in todo[c]
    <3>1. Creates(c) /\ Unsaved(c)
          BY <1>2, <2>1, <2>3 DEF Creates, Unsaved, Active
    <3>2. state[<<c, 0>>] # "gone"
          BY <2>1, <3>1 DEF Private
    <3> QED BY <2>2, <2>3, <3>2
  <2>4. CASE 0 \notin todo[c]
        BY <2>1, <2>2, <2>4
  <2> QED BY <2>3, <2>4
<1>8. CASE YieldHost(c) \/ YieldCluster(c) \/ \E k \in Node : YieldNode(c, k)
      BY <1>8 DEF YieldHost, YieldCluster, YieldNode, Makes, Single
<1> QED BY <1>6, <1>7, <1>8

\* ... or what an operation has settled.
LEMMA ActExcused ==
    ASSUME IInv, Places, Reasons, [Next]_vars, NEW c \in Command, NEW n \in Name, n = name[c],
           c \notin outdated, NEW k \in Node, Act(c, k), todo[c] = {k}
    PROVE  Excused(mem[c][n], n, Command \ {c})'
<1> USE DEF IInv, Places
<1>1. /\ pc[c] = "act" /\ op[c] \in {"delete", "start", "stop"} /\ mem[c][n] # NoEntry
      /\ mem' = Settled(c)
      BY DEF Act, Settle, EntryAtHand, NeedsEntry, Active
<1>2. type' = type
      BY Keeps
<1>3. CASE op[c] = "delete"
  <2>1. mem'[c][n] = NoEntry
        BY <1>1, <1>3 DEF Settled, TypeOK, Inventories
  <2> QED BY <2>1 DEF Excused
<1>4. CASE op[c] # "delete"
  <2>1. PICK e \in Entry : e = mem[c][n]
        BY <1>1 DEF TypeOK, Inventories
  <2>2. PICK s : s = IF op[c] = "start" THEN "running" ELSE "stopped"
        OBVIOUS
  <2>3. PICK f : f = [e EXCEPT !.status = s]
        OBVIOUS
  <2>4. mem'[c][n] = f
        BY <1>1, <1>4, <2>1, <2>2, <2>3 DEF Settled, TypeOK, Inventories
  <2>5. f.by = e.by /\ f.status = s
        BY <2>3 DEF Entry
  <2>6. e = file[n] /\ Target(c)
        BY <1>1, <2>1 DEF Place, Active, OwnIsCurrent
  <2> SUFFICES ASSUME Single(n) PROVE Excused(mem[c][n], n, Command \ {c})'
      BY <1>2 DEF Excused, Single
  <2>7. type[n] \in {"docker-container", "aws-ec2"} /\ k = 0
        BY <1>4, <2>6 DEF Target, Single, Nodes
  <2>8. e.by \in Command /\ <<e.by, 0>> \in Instance /\ e # NoEntry
        BY <1>1, <2>1, Typing DEF Entry
  <2>9. CASE found[c][0] = <<e.by, 0>>
    <3>1. PICK t \in Outcome(op[c], state[<<e.by, 0>>]) : state' = [state EXCEPT ![<<e.by, 0>>] = t]
      <4>1. <<e.by, 0>> # None
            BY <2>8, Typing
      <4> QED BY <2>7, <2>9, <4>1 DEF Act
    <3>2. state'[<<e.by, 0>>] = s
      <4>1. t = s
            BY <1>1, <1>4, <2>2, <3>1 DEF Outcome
      <4> QED BY <2>8, <3>1, <4>1 DEF TypeOK
    <3>3. s \in {"running", "stopped"}
          BY <2>2
    <3> QED BY <1>2, <2>4, <2>5, <2>7, <3>2, <3>3 DEF Excused
  <2>10. CASE found[c][0] # <<e.by, 0>>
    <3>1. type[n] = "docker-container" /\ found[c][0] = None /\ state[<<e.by, 0>>] = "gone"
          BY <2>1, <2>6, <2>7, <2>10 DEF Target
    <3>2. state'[<<e.by, 0>>] = "gone"
          BY <2>8, <3>1, Lasting
    <3>3. Unfinished(n, {"delete"}, Command)
          BY <2>6, <2>8, <3>1 DEF Reasons, Excused, Single
    <3>4. Step(c) /\ ~Write(c)
          BY <1>1 DEF Step, Write
    <3>5. Unfinished(n, {"delete"}, Command \ {c})'
          BY <1>4, <3>3, <3>4, OthersDelete
    <3> QED BY <1>2, <2>4, <2>5, <3>1, <3>2, <3>5 DEF Excused
  <2> QED BY <2>9, <2>10
<1> QED BY <1>3, <1>4

\* A status that is not that of the instance has its reason.
LEMMA StepReasons ==
    ASSUME IInv, Places, Reasons, [Next]_vars, ~raced'
    PROVE  Reasons'
<1> USE DEF IInv, Places
<1> SUFFICES ASSUME NEW n \in Name, NEW c \in Command, ToWrite(c, n)'
             PROVE  Excused(mem[c][n], n, Command \ {c})'
    BY FileExcused DEF Reasons
<1>1. /\ pc'[c] \in {"truncate", "write"} /\ c \notin outdated' /\ type' = type
      /\ op'[c] = "refresh" \/ n = name'[c]
      BY Keeps DEF ToWrite
<1>2. ASSUME pc[c] \in {"truncate", "write"}, op'[c] = op[c], name'[c] = name[c],
             mem'[c] = mem[c], c \notin outdated, \A k \in Node : ~Act(c, k),
             \A d \in Command : ~Write(d)
      PROVE  Excused(mem[c][n], n, Command \ {c})'
  <2>1. PICK e \in Entry \cup {NoEntry} : e = mem[c][n]
        BY DEF TypeOK, Inventories
  <2>2. Excused(e, n, Command \ {c})
        BY <1>1, <1>2, <2>1 DEF Reasons, ToWrite
  <2>3. Listable(e, n) /\ Stored(e, n)
        BY <2>1, AllStored DEF Entries
  <2>4. Excused(e, n, Command \ {c})'
        BY <1>2, <2>2, <2>3, ExcusedKept
  <2> QED BY <1>2, <2>1, <2>4 DEF Excused
<1>3. ASSUME NEW d \in Command, Write(d) PROVE FALSE
  <2>1. d # c
        BY <1>1, <1>3 DEF Write, TypeOK
  <2>2. pc[c] \in {"truncate", "write"}
        BY <1>1, <1>3, <2>1 DEF Write, TypeOK
  <2> QED BY <1>1, <1>3, <2>1, <2>2, Writes
<1>4. file' = file /\ outdated' = outdated
      BY <1>3, OnlyWrites
<1>5. CASE UNCHANGED vars \/ \E i \in Instance : BecomesRunning(i)
  <2>1. pc' = pc /\ op' = op /\ name' = name /\ mem' = mem
        BY <1>5 DEF vars, BecomesRunning
  <2>2. \A k \in Node : ~Act(c, k)
        BY <1>1, <2>1 DEF Act
  <2> QED BY <1>1, <1>2, <1>3, <1>4, <2>1, <2>2
<1>6. ASSUME NEW d \in Command \ {c}, Step(d) PROVE Excused(mem[c][n], n, Command \ {c})'
  <2>1. pc'[c] = pc[c] /\ op'[c] = op[c] /\ name'[c] = name[c] /\ mem'[c] = mem[c]
        BY <1>6, Locality
  <2>2. \A k \in Node : ~Act(c, k)
        BY <1>1, <2>1 DEF Act
  <2> QED BY <1>1, <1>2, <1>3, <1>4, <2>1, <2>2
<1>7. ASSUME Step(c) PROVE Excused(mem[c][n], n, Command \ {c})'
  <2>1. ~ \E o \in Ops, m \in Name : Load(c, o, m)
        BY <1>1 DEF Load, TypeOK
  <2>2. pc[c] \in Active /\ op'[c] = op[c] /\ name'[c] = name[c] /\ name[c] \in Name
        BY <1>7, <2>1, OwnSteps DEF EntryAtHand
  <2>3. CASE Truncate(c)
    <3>1. pc[c] = "truncate" /\ mem' = mem /\ \A k \in Node : ~Act(c, k)
          BY <2>3 DEF Truncate, Act
    <3> QED BY <1>2, <1>1, <1>3, <1>4, <2>2, <3>1
  <2>4. CASE ConnectCreate(c)
    <3>1. op[c] = "create" /\ (type[name[c]] = "aws-condor" \/ pc'[c] \notin {"truncate", "write"})
          BY <2>4 DEF ConnectCreate, TypeOK
    <3> QED BY <1>1, <2>2, <3>1 DEF Excused, Single
  <2>5. CASE Refresh(c)
        BY <1>1, <1>4, <2>5, RefreshExcused
  <2>6. CASE \/ YieldHost(c) \/ YieldContainer(c) \/ YieldInstance(c) \/ YieldCluster(c)
             \/ \E k \in Node : YieldNode(c, k)
    <3>1. op[c] = "create"
          BY <2>6, YieldingTyped, YieldsListable
    <3> QED BY <1>1, <2>2, <2>6, <3>1, YieldExcused
  <2>7. ASSUME NEW k \in Node, Act(c, k) PROVE Excused(mem[c][n], n, Command \ {c})'
    <3>1. todo[c] = {k} /\ op[c] # "refresh"
          BY <1>1, <2>7 DEF Act, Settle, EntryAtHand
    <3> QED BY <1>1, <1>4, <2>2, <2>7, <3>1, ActExcused
  <2>8. CASE ForceDelete(c)
    <3>1. op[c] = "delete" /\ mem'[c][name[c]] = NoEntry
          BY <2>2, <2>8 DEF ForceDelete, Settled, TypeOK, Inventories
    <3> QED BY <1>1, <2>2, <3>1 DEF Excused
  <2>9. CASE Cut(c) \/ ConnectEntry(c) \/ StartContainer(c) \/ \E k \in Node : Make(c, k) \/ Tag(c, k)
        BY <1>1, <2>9 DEF Cut, ConnectEntry, StartContainer, Make, Tag, Makes, TypeOK
  <2> QED BY <1>3, <1>7, <2>1, <2>3, <2>4, <2>5, <2>6, <2>7, <2>8, <2>9 DEF Step, Create
<1> QED BY <1>5, <1>6, <1>7 DEF Next, Step
-----------------------------------------------------------------------------
\* At first nothing is listed, and there is nothing to list.
LEMMA InitBackend == Init => BackendIInv
<1> SUFFICES ASSUME Init PROVE BackendIInv
    OBVIOUS
<1>1. IInv
      BY InitInv
<1>2. /\ \A c \in Command : /\ pc[c] = "idle" /\ name[c] = None
                            /\ \A k \in Node : found[c][k] = None
                            /\ \A n \in Name : mem[c][n] = NoEntry
      /\ \A n \in Name : file[n] = NoEntry
      /\ \A i \in Instance : state[i] = "none"
      /\ tagged = {}
      BY DEF Init
<1>3. NoEntry.by = None
      BY DEF NoEntry
<1>4. ASSUME NEW c \in Command PROVE Place(c)
  <2>1. Connected(c)
        BY <1>2, <1>4 DEF Connected
  <2> QED BY <1>2, <1>4, <2>1 DEF Place, Creates, Active
<1>5. Made /\ OneRunning /\ Entries /\ Private
      BY <1>2 DEF Made, OneRunning, Entries, Listable, Private, Creates, Active
<1>6. Unraced
  <2>1. \A c \in Command : Cluster(c) /\ Created(c) /\ ~Deletes(c)
        BY <1>2 DEF Cluster, Created, Deletes, Active
  <2>2. Reasons
        BY <1>2 DEF Reasons, Excused, ToWrite
  <2> QED BY <2>1, <2>2 DEF Unraced
<1> QED BY <1>1, <1>4, <1>5, <1>6 DEF BackendIInv, Places

\* The inductive invariant about the backends: what every command knows and has in
\* hand is in order, and, until an old inventory is written, so is the file.
THEOREM BackendInductive == Spec => []BackendIInv
<1>1. BackendIInv /\ [Next]_vars => BackendIInv'
  <2> SUFFICES ASSUME BackendIInv, [Next]_vars PROVE BackendIInv'
      OBVIOUS
  <2>1. IInv /\ Places
        BY DEF BackendIInv
  <2>2. IInv'
        BY <2>1, StepType, StepAtHand, StepCurrent DEF IInv
  <2>3. Places'
        BY <2>1, StepPlaces
  <2>4. ASSUME ~raced' PROVE Unraced'
    <3>1. Unraced
          BY <2>1, <2>4, RacedStays DEF BackendIInv, IInv
    <3>2. \A c \in Command : Cluster(c)' /\ Created(c)' /\ (Deletes(c)' => Deleting(c)')
          BY <2>1, <2>4, <3>1, StepCluster, StepCreated, StepDeleting
    <3>3. Reasons'
          BY <2>1, <2>4, <3>1, StepReasons DEF Unraced
    <3> QED BY <3>2, <3>3 DEF Unraced
  <2> QED BY <2>2, <2>3, <2>4 DEF BackendIInv
<1> QED BY <1>1, InitBackend, PTL DEF Spec

\* What was reported as created is listed for as long as it exists, if no command
\* wrote over what it did not know of, and its entry was not removed by force.
THEOREM ListedCorrect == Spec => []LiveIsListed
<1>1. BackendIInv => LiveIsListed
  <2> SUFFICES ASSUME BackendIInv, ~raced, NEW c \in Command, NEW k \in Node,
                      pc[c] = "ok", op[c] = "create", name[c] \notin forced, Alive(<<c, k>>)
               PROVE  file[name[c]].by = c /\ k \in file[name[c]].known
      BY DEF LiveIsListed
  <2> DEFINE n == name[c]
  <2>1. IInv /\ Places /\ Created(c)
        BY DEF BackendIInv, Unraced
  <2>2. n \in Name /\ type[n] # "ssh" /\ k \in Nodes(n)
    <3>1. <<c, k>> \in Instance /\ state[<<c, k>>] # "none"
          BY DEF Instance, Alive
    <3> QED BY <2>1, <3>1 DEF Places, Made
  <2>3. file[n].by = c /\ (type[n] = "aws-condor" => file[n].known = Node)
        BY <2>1 DEF Created
  <2>4. file[n] # NoEntry
        BY <2>3, InventoryAssumption DEF NoEntry
  <2>5. Single(n) => 0 \in file[n].known
        BY <2>1, <2>2, <2>4 DEF Places, Entries, Listable
  <2>6. Single(n) \/ type[n] = "aws-condor"
        BY <2>1, <2>2, InventoryAssumption DEF IInv, TypeOK, Single
  <2>7. type[n] # "aws-condor" => k = 0
        BY <2>2 DEF Nodes
  <2> QED BY <2>3, <2>5, <2>6, <2>7
<1> QED BY <1>1, BackendInductive, PTL

\* A status that is not that of the instance has its reason: a command that changes
\* it did not come to its end.
THEOREM StatusCorrect == Spec => []StatusHasReason
<1>1. BackendIInv => StatusHasReason
      BY DEF BackendIInv, Unraced, Reasons, Excused, Unfinished, Single, StatusHasReason
<1> QED BY <1>1, BackendInductive, PTL

\* Of what a delete command removes from the inventory, unless by force, nothing is
\* left with the backend.
THEOREM DeleteCorrect == Spec => DeleteLeavesNothing
<1> DEFINE Nothing(c) ==
       pc[c] = "act" /\ op[c] = "delete" /\ pc'[c] = "truncate" /\ ~raced /\ name[c] \notin forced' =>
           \A k \in Node : state'[<<mem[c][name[c]].by, k>>] \in {"none", "gone"}
<1>1. ASSUME BackendIInv, [Next]_vars, NEW c \in Command PROVE Nothing(c)
  <2> SUFFICES ASSUME pc[c] = "act", op[c] = "delete", pc'[c] = "truncate", ~raced,
                      name[c] \notin forced', NEW k \in Node
               PROVE  state'[<<mem[c][name[c]].by, k>>] \in {"none", "gone"}
      OBVIOUS
  <2>1. IInv /\ Places /\ Unraced
        BY <1>1 DEF BackendIInv
  <2>2. PICK n \in Name, e \in Entry, b \in Command :
           n = name[c] /\ e = mem[c][n] /\ e # NoEntry /\ b = e.by
        BY <2>1 DEF IInv, EntryAtHand, NeedsEntry, Active, TypeOK, Inventories, Entry
  <2>3. Listable(e, n) /\ <<b, k>> \in Instance
        BY <2>1, <2>2 DEF Places, Entries, Instance
  <2>4. Made' /\ type' = type /\ name'[b] = n
        BY <1>1, <2>1, <2>2, <2>3, StepMade, Keeps DEF IInv, Listable
  <2>5. k \notin Nodes(n) \/ type[n] = "ssh" => state'[<<b, k>>] = "none"
        BY <2>3, <2>4 DEF Made, Nodes
  <2>6. Deleting(c)
    <3>1. n \notin forced
          BY <1>1, <2>1, <2>2, Keeps DEF IInv
    <3> QED BY <2>1, <2>2, <3>1 DEF Unraced, Deletes, Active
  <2>7. PICK j \in Node : Act(c, j) /\ todo[c] = {j}
    <3>1. Step(c)
      <4>1. ~ UNCHANGED vars /\ \A i \in Instance : ~BecomesRunning(i)
            BY DEF vars, BecomesRunning
      <4>2. ASSUME NEW d \in Command \ {c}, Step(d) PROVE FALSE
            BY <2>1, <4>2, Locality DEF IInv
      <4> QED BY <1>1, <4>1, <4>2 DEF Next, Step
    <3>2. ~ForceDelete(c)
          BY DEF ForceDelete
    <3>3. ~Create(c)
          BY DEF Create, ConnectCreate, StartContainer, Make, Tag, Makes,
             YieldHost, YieldContainer, YieldInstance, YieldCluster, YieldNode
    <3>4. ~Cut(c) /\ ~ConnectEntry(c) /\ ~Refresh(c) /\ ~Truncate(c) /\ ~Write(c)
          BY <2>1 DEF ConnectEntry, Refresh, Cut, Truncate, Write, IInv, TypeOK
    <3>5. PICK j \in Node : Act(c, j)
          BY <3>1, <3>2, <3>3, <3>4 DEF Step, Load
    <3> QED BY <3>5 DEF Act, Settle
  <2>8. type[n] # "ssh" => \A i \in Nodes(n) : state'[<<b, i>>] = "gone"
        BY <1>1, <2>1, <2>2, <2>6, <2>7, ActDeletes
  <2> QED BY <2>2, <2>5, <2>8
<1>2. BackendIInv /\ [Next]_vars => [\A c \in Command : Nothing(c)]_vars
      BY <1>1
<1> QED BY <1>2, BackendInductive, PTL DEF Spec, DeleteLeavesNothing
=============================================================================
