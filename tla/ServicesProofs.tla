---------------------------- MODULE ServicesProofs ----------------------------
(***************************************************************************)
(* What stop and start of the servers guarantee, for any number of ports,  *)
(* attempts and experiments: the state has its types, an experiment runs   *)
(* only on live servers of its own, and a stop leaves nothing behind but   *)
(* orphans, whatever dies or forks while it goes on.                       *)
(***************************************************************************)
EXTENDS Services, TLAPS

USE ServicesAssumption

\* The last stop is over, and either an attempt followed it or the skip.
Stopped == pc \notin {"list", "term", "kill", "verify"}

\* Servers are found by the pattern, whatever became of their workers.
ServersAreCurrent ==
  Stopped => \A q \in alive : q.kind = "server" => q.of = experiment /\ q.try = attempt

\* The ports before this one have an entry or have failed.
PortsAreHandled ==
  /\ pc \in {"spawn", "await"} => DOMAIN serverList \union failedPorts = 1 .. port - 1
  /\ pc = "spawned" => DOMAIN serverList \union failedPorts = Ports

\* Of the servers, a port's entry lists its own.
EntriesAreOwn ==
  pc \in {"spawn", "await", "spawned"} =>
    \A p \in DOMAIN serverList : \A q \in serverList[p] : q.kind = "server" => q = Server(p)

StartInv == TypeOK /\ ServersAreCurrent /\ PortsAreHandled /\ EntriesAreOwn

-------------------------------------------------------------------------------
LEMMA ChildrenAreAlive == \A q : GetAllChildPids(q) \subseteq Children(q) \cap alive
  BY DEF GetAllChildPids, Children

(* Ending processes adds none, and forgets no orphan that lives on.        *)
LEMMA EndOnlyEnds ==
  ASSUME NEW pids, End(pids)
  PROVE  /\ alive' \subseteq alive
         /\ alive' \cap orphans \subseteq orphans'
         /\ orphans \subseteq alive => orphans' \subseteq alive'
  BY DEF End

LEMMA NoPidsIsList == IsList(NoPids)
  BY DEF IsList, NoPids

LEMMA ValidIsList ==
  ASSUME NEW list, NEW active, IsList(list)
  PROVE  IsList(Valid(list, active))
  BY DEF IsList, Valid

LEMMA TypeInit == Init => TypeOK
  BY NoPidsIsList DEF Init, TypeOK, Ports, GiveUp

LEMMA TypeAfterStop ==
  ASSUME TypeOK, AfterStop, attempt' = attempt
  PROVE  /\ IsList(serverList')
         /\ port' \in Ports /\ failedPorts' \subseteq Ports
         /\ pc' \in {"skip", "spawn"} /\ (GiveUp' => pc' = "skip")
<1>1. IsList(serverList')
  BY NoPidsIsList DEF AfterStop
<1>2. CASE GiveUp
  BY <1>1, <1>2 DEF AfterStop, TypeOK, GiveUp
<1>3. CASE ~GiveUp
  BY <1>1, <1>3 DEF AfterStop, GiveUp, Ports
<1> QED
  BY <1>2, <1>3

LEMMA TypeStop ==
  ASSUME TypeOK, ListPids \/ Terminate \/ ForceKill \/ Verify
  PROVE  TypeOK'
<1>1. CASE ListPids
  <2>1. ValidPids \subseteq Processes
    BY DEF ValidPids, TypeOK
  <2> QED
    BY <1>1, <2>1, TypeAfterStop DEF ListPids, AfterStop, TypeOK, GiveUp, processVars
<1>2. CASE Terminate
  BY <1>2, EndOnlyEnds DEF Terminate, TypeOK, launcherVars, lists, GiveUp, Ports
<1>3. CASE ForceKill
  BY <1>3, EndOnlyEnds DEF ForceKill, TypeOK, launcherVars, lists, GiveUp, Ports
<1>4. CASE Verify
  BY <1>4, TypeAfterStop, EndOnlyEnds DEF Verify, AfterStop, TypeOK
<1> QED
  BY <1>1, <1>2, <1>3, <1>4

LEMMA TypeStart ==
  ASSUME TypeOK, Spawn \/ SpawnFails \/ GetPids \/ StartAllFails \/ HealthCheck
  PROVE  TypeOK'
<1>1. CASE Spawn
  <2>1. Server(port) \in Processes
    BY <1>1 DEF Spawn, TypeOK, Server, Processes, Kinds, GiveUp
  <2> QED
    BY <1>1, <2>1 DEF Spawn, TypeOK, launcherVars, lists, processVars, GiveUp, Ports
<1>2. CASE SpawnFails
  BY <1>2 DEF SpawnFails, ThisPortFails, NextPort, TypeOK, GiveUp, Ports, processVars
<1>3. CASE GetPids
  <2>1. PICK pids \in {{q \in FindProcessesByPattern : q.port = port},
                       Tree(Server(port))} :
          IF pids # {}
          THEN /\ serverList' = Entered(pids)
               /\ UNCHANGED <<failedPorts, processVars>>
          ELSE ThisPortFails /\ KillProcessTree(Server(port))
    BY <1>3 DEF GetPids
  <2>2. Server(port) \in Processes
    BY <1>3 DEF GetPids, TypeOK, Server, Processes, Kinds, GiveUp
  <2>3. pids \subseteq Processes
    BY <2>1, <2>2, ChildrenAreAlive DEF FindProcessesByPattern, TypeOK, Tree
  <2>4. failedPorts' \subseteq Ports /\ alive' \subseteq Processes /\ orphans' \subseteq alive'
    BY <2>1, EndOnlyEnds DEF ThisPortFails, TypeOK, KillProcessTree, processVars
  <2>5. IsList(serverList')
    BY <2>1, <2>3 DEF ThisPortFails, TypeOK, Entered, IsList
  <2> QED
    BY <1>3, <2>4, <2>5 DEF GetPids, NextPort, TypeOK, GiveUp, Ports
<1>4. CASE StartAllFails
  BY <1>4 DEF StartAllFails, Retry, TypeOK, lists, processVars, GiveUp, Ports
<1>5. CASE HealthCheck
  BY <1>5, ValidIsList DEF HealthCheck, Retry, TypeOK, GiveUp, Ports, processVars
<1> QED
  BY <1>1, <1>2, <1>3, <1>4, <1>5

LEMMA TypeRun ==
  ASSUME TypeOK, NEW active,
         WorkerChecks(active) \/ RequestsEnd \/ NextExperiment \/ UNCHANGED vars
  PROVE  TypeOK'
<1>1. CASE WorkerChecks(active)
  BY <1>1, ValidIsList DEF WorkerChecks, TypeOK, launcherVars, processVars, GiveUp, Ports
<1>2. CASE RequestsEnd
  BY <1>2 DEF RequestsEnd, TypeOK, launcherVars, lists, processVars, GiveUp, Ports
<1>3. CASE NextExperiment
  BY <1>3, NoPidsIsList DEF NextExperiment, TypeOK, GiveUp, Ports, processVars
<1>4. CASE UNCHANGED vars
  BY <1>4 DEF vars, TypeOK, GiveUp, Ports
<1> QED
  BY <1>1, <1>2, <1>3, <1>4

LEMMA TypeProcesses ==
  ASSUME TypeOK, NEW q \in alive, Fork(q) \/ Die(q)
  PROVE  TypeOK'
<1>1. CASE Fork(q)
  <2>1. Worker(q) \in Processes
    BY DEF TypeOK, Processes, Kinds, Worker
  <2> QED
    BY <1>1, <2>1 DEF Fork, FindProcessesByPattern, TypeOK, launcherVars, lists, GiveUp, Ports
<1>2. CASE Die(q)
  <2>1. alive' \subseteq alive /\ orphans' \subseteq alive'
    BY <1>2 DEF Die, TypeOK, Children
  <2> QED
    BY <1>2, <2>1 DEF Die, TypeOK, launcherVars, lists, processVars, GiveUp, Ports
<1> QED
  BY <1>1, <1>2

LEMMA TypeNext == TypeOK /\ [Next]_vars => TypeOK'
<1> SUFFICES ASSUME TypeOK, [Next]_vars PROVE TypeOK'
  OBVIOUS
<1>1. CASE ListPids \/ Terminate \/ ForceKill \/ Verify
  BY <1>1, TypeStop
<1>2. CASE Spawn \/ SpawnFails \/ GetPids \/ StartAllFails \/ HealthCheck
  BY <1>2, TypeStart
<1>3. CASE WorkerChecks(FindProcessesByPattern) \/ WorkerChecks({}) \/ RequestsEnd
           \/ NextExperiment \/ UNCHANGED vars
  BY <1>3, TypeRun
<1>4. CASE \E q \in alive : Fork(q) \/ Die(q)
  BY <1>4, TypeProcesses
<1> QED
  BY <1>1, <1>2, <1>3, <1>4 DEF Next, Launcher, Done

(* The state of the launcher has its types, and no experiment takes more   *)
(* than MaxRetries attempts, whatever the servers do.                      *)
THEOREM ServicesTypeCorrect == Spec => []TypeOK
<1> QED
  BY TypeInit, TypeNext, PTL DEF Spec
-------------------------------------------------------------------------------
(* After a stop no server runs, and no port has been handled.              *)
LEMMA StartAfterStop ==
  ASSUME TypeOK, AfterStop, \A q \in alive' : q.kind # "server"
  PROVE  ServersAreCurrent' /\ PortsAreHandled' /\ EntriesAreOwn'
<1>1. ServersAreCurrent'
  BY DEF ServersAreCurrent
<1>2. CASE GiveUp
  BY <1>1, <1>2 DEF AfterStop, PortsAreHandled, EntriesAreOwn
<1>3. CASE ~GiveUp
  <2>1. pc' = "spawn" /\ port' = 1 /\ failedPorts' = {} /\ DOMAIN serverList' = {}
    BY <1>3 DEF AfterStop, NoPids
  <2> QED
    BY <1>1, <2>1 DEF PortsAreHandled, EntriesAreOwn
<1> QED
  BY <1>2, <1>3

LEMMA StartStop ==
  ASSUME StartInv, ListPids \/ Terminate \/ ForceKill \/ Verify
  PROVE  ServersAreCurrent' /\ PortsAreHandled' /\ EntriesAreOwn'
<1>1. CASE ListPids
  <2>1. CASE ValidPids = {}
    <3>1. FindProcessesByPattern \subseteq ValidPids
      BY DEF ValidPids, Known, FindProcessesByPattern
    <3>2. \A q \in alive' : q.kind # "server"
      BY <1>1, <2>1, <3>1 DEF ListPids, FindProcessesByPattern, processVars
    <3> QED
      BY <1>1, <2>1, <3>2, StartAfterStop DEF ListPids, StartInv
  <2>2. CASE ValidPids # {}
    BY <1>1, <2>2 DEF ListPids, ServersAreCurrent, PortsAreHandled, EntriesAreOwn, Stopped
  <2> QED
    BY <2>1, <2>2
<1>2. CASE Terminate \/ ForceKill
  BY <1>2 DEF Terminate, ForceKill, ServersAreCurrent, PortsAreHandled, EntriesAreOwn, Stopped
<1>3. CASE Verify
  <2>1. \A q \in alive' : q.kind # "server"
    BY <1>3 DEF Verify, End, FindProcessesByPattern
  <2> QED
    BY <1>3, <2>1, StartAfterStop DEF Verify, StartInv
<1> QED
  BY <1>1, <1>2, <1>3

(* One more port has been handled.                                         *)
LEMMA HandledNextPort ==
  ASSUME TypeOK, NextPort,
         DOMAIN serverList \union failedPorts = 1 .. port - 1,
         DOMAIN serverList' \union failedPorts' = (DOMAIN serverList \union failedPorts) \union {port}
  PROVE  PortsAreHandled' /\ pc' \in {"spawn", "spawned"}
<1>1. port \in Nat /\ port >= 1 /\ port <= NumPorts
  BY DEF TypeOK, Ports
<1>2. DOMAIN serverList' \union failedPorts' = 1 .. port
  BY <1>1
<1>3. CASE port < NumPorts
  BY <1>1, <1>2, <1>3 DEF NextPort, PortsAreHandled
<1>4. CASE ~(port < NumPorts)
  <2>1. port = NumPorts
    BY <1>1, <1>4
  <2> QED
    BY <1>2, <1>4, <2>1 DEF NextPort, PortsAreHandled, Ports
<1> QED
  BY <1>3, <1>4

LEMMA StartSpawn ==
  ASSUME StartInv, Spawn \/ SpawnFails
  PROVE  ServersAreCurrent' /\ PortsAreHandled' /\ EntriesAreOwn'
<1>1. CASE Spawn
  <2>1. Stopped /\ experiment' = experiment /\ attempt' = attempt
    BY <1>1 DEF Spawn, Stopped, launcherVars
  <2>2. ServersAreCurrent'
    BY <1>1, <2>1 DEF StartInv, Spawn, ServersAreCurrent, Server
  <2>3. PortsAreHandled' /\ EntriesAreOwn'
    BY <1>1 DEF StartInv, Spawn, PortsAreHandled, EntriesAreOwn, Server, launcherVars, lists
  <2> QED
    BY <2>2, <2>3
<1>2. CASE SpawnFails
  <2>1. PortsAreHandled' /\ pc' \in {"spawn", "spawned"}
    BY <1>2, HandledNextPort DEF StartInv, SpawnFails, ThisPortFails, PortsAreHandled
  <2> QED
    BY <1>2, <2>1
    DEF StartInv, SpawnFails, ThisPortFails, ServersAreCurrent, EntriesAreOwn, Server, Stopped,
        processVars
<1> QED
  BY <1>1, <1>2

LEMMA StartGetPids ==
  ASSUME StartInv, GetPids
  PROVE  ServersAreCurrent' /\ PortsAreHandled' /\ EntriesAreOwn'
<1>1. PICK pids \in {{q \in FindProcessesByPattern : q.port = port},
                     Tree(Server(port))} :
        IF pids # {}
        THEN /\ serverList' = Entered(pids)
             /\ UNCHANGED <<failedPorts, processVars>>
        ELSE ThisPortFails /\ KillProcessTree(Server(port))
  BY DEF GetPids
<1>2. pc = "await" /\ NextPort /\ experiment' = experiment /\ attempt' = attempt
  BY DEF GetPids
<1>3. alive' \subseteq alive
  BY <1>1, EndOnlyEnds DEF KillProcessTree, processVars
<1>4. DOMAIN serverList' \union failedPorts'
        = (DOMAIN serverList \union failedPorts) \union {port}
  BY <1>1 DEF Entered, ThisPortFails
<1>5. PortsAreHandled' /\ pc' \in {"spawn", "spawned"}
  BY <1>2, <1>4, HandledNextPort DEF StartInv, PortsAreHandled
<1>6. ServersAreCurrent'
  BY <1>2, <1>3, <1>5 DEF StartInv, ServersAreCurrent, Stopped
<1>7. \A q \in pids : q.kind = "server" => q = Server(port)
  <2>1. CASE pids = {q \in FindProcessesByPattern : q.port = port}
    BY <1>2, <2>1 DEF StartInv, ServersAreCurrent, Stopped, TypeOK, Processes,
                      FindProcessesByPattern, Server
  <2>2. CASE pids = Tree(Server(port))
    BY <2>2 DEF Tree, GetAllChildPids, Children, Worker
  <2> QED
    BY <1>1, <2>1, <2>2
<1>8. EntriesAreOwn'
  BY <1>1, <1>2, <1>7 DEF StartInv, EntriesAreOwn, Entered, ThisPortFails, Server
<1> QED
  BY <1>5, <1>6, <1>8

LEMMA StartOther ==
  ASSUME StartInv, NEW active,
         \/ StartAllFails \/ HealthCheck \/ NextExperiment
         \/ WorkerChecks(active) \/ RequestsEnd \/ UNCHANGED vars
  PROVE  ServersAreCurrent' /\ PortsAreHandled' /\ EntriesAreOwn'
<1>1. CASE StartAllFails
  BY <1>1 DEF StartAllFails, Retry, ServersAreCurrent, PortsAreHandled, EntriesAreOwn, Stopped
<1>2. CASE HealthCheck
  BY <1>2 DEF HealthCheck, Retry, StartInv, ServersAreCurrent, PortsAreHandled, EntriesAreOwn,
              Stopped, processVars
<1>3. CASE NextExperiment
  BY <1>3 DEF NextExperiment, StartInv, ServersAreCurrent, PortsAreHandled, EntriesAreOwn, Stopped,
              processVars
<1>4. CASE WorkerChecks(active) \/ RequestsEnd
  BY <1>4 DEF WorkerChecks, RequestsEnd, StartInv, ServersAreCurrent, PortsAreHandled,
              EntriesAreOwn, Stopped, launcherVars, processVars
<1>5. CASE UNCHANGED vars
  BY <1>5 DEF vars, StartInv, ServersAreCurrent, PortsAreHandled, EntriesAreOwn, Stopped, Server
<1> QED
  BY <1>1, <1>2, <1>3, <1>4, <1>5

LEMMA StartProcesses ==
  ASSUME StartInv, NEW q \in alive, Fork(q) \/ Die(q)
  PROVE  ServersAreCurrent' /\ PortsAreHandled' /\ EntriesAreOwn'
<1>1. PortsAreHandled' /\ EntriesAreOwn'
  BY DEF Fork, Die, StartInv, PortsAreHandled, EntriesAreOwn, Server, launcherVars, lists
<1>2. \A x \in alive' : x.kind = "server" => x \in alive
  BY DEF Fork, Die, Worker
<1>3. ServersAreCurrent'
  BY <1>2 DEF Fork, Die, StartInv, ServersAreCurrent, Stopped, launcherVars
<1> QED
  BY <1>1, <1>3

LEMMA StartInvNext == StartInv /\ [Next]_vars => StartInv'
<1> SUFFICES ASSUME StartInv, [Next]_vars PROVE StartInv'
  OBVIOUS
<1>1. TypeOK'
  BY TypeNext DEF StartInv
<1>2. CASE ListPids \/ Terminate \/ ForceKill \/ Verify
  BY <1>1, <1>2, StartStop DEF StartInv
<1>3. CASE Spawn \/ SpawnFails
  BY <1>1, <1>3, StartSpawn DEF StartInv
<1>4. CASE GetPids
  BY <1>1, <1>4, StartGetPids DEF StartInv
<1>5. CASE StartAllFails \/ HealthCheck \/ NextExperiment \/ RequestsEnd
           \/ WorkerChecks(FindProcessesByPattern) \/ WorkerChecks({}) \/ UNCHANGED vars
  BY <1>1, <1>5, StartOther DEF StartInv
<1>6. CASE \E q \in alive : Fork(q) \/ Die(q)
  BY <1>1, <1>6, StartProcesses DEF StartInv
<1> QED
  BY <1>2, <1>3, <1>4, <1>5, <1>6 DEF Next, Launcher, Done

LEMMA StartInvInit == Init => StartInv
  BY TypeInit DEF Init, StartInv, ServersAreCurrent, PortsAreHandled, EntriesAreOwn

(* An experiment runs only once every port's own server was seen alive,    *)
(* for any number of ports and whatever died meanwhile.                    *)
THEOREM PortsAreServed == Spec => EveryPortIsServed
<1>1. ASSUME StartInv, [Next]_vars, pc # "run", pc' = "run", NEW p \in Ports
      PROVE  p \in DOMAIN serverList' /\ Server(p) \in serverList'[p] \cap alive'
  <2>1. HealthCheck
    BY <1>1 DEF Next, Launcher, Done, vars, ListPids, AfterStop, Terminate, ForceKill, Verify,
                Spawn, SpawnFails, NextPort, GetPids, StartAllFails, Retry, WorkerChecks,
                RequestsEnd, NextExperiment, Fork, Die
  <2>2. PICK active \in {FindProcessesByPattern, {}} :
          serverList' = Valid(serverList, active) /\ AllValid(serverList')
    BY <1>1, <2>1 DEF HealthCheck, Retry
  <2>3. p \in DOMAIN serverList
    BY <1>1, <2>1 DEF HealthCheck, StartFailed, StartInv, PortsAreHandled
  <2>4. p \in DOMAIN serverList' /\ serverList'[p] = serverList[p] \cap active
    BY <2>2, <2>3 DEF Valid
  <2>5. PICK q \in serverList[p] \cap active : TRUE
    BY <2>2, <2>4 DEF AllValid
  <2>6. q \in alive /\ q.kind = "server"
    BY <2>2, <2>5 DEF FindProcessesByPattern
  <2>7. q = Server(p)
    BY <1>1, <2>1, <2>3, <2>5, <2>6 DEF HealthCheck, StartInv, EntriesAreOwn
  <2> QED
    BY <2>1, <2>4, <2>5, <2>6, <2>7 DEF HealthCheck, processVars
<1>2. StartInv /\ [Next]_vars =>
        [pc # "run" /\ pc' = "run" =>
           \A p \in Ports : p \in DOMAIN serverList'
                            /\ Server(p) \in serverList'[p] \cap alive']_vars
  BY <1>1
<1> QED
  BY <1>2, StartInvInit, StartInvNext, PTL DEF Spec, EveryPortIsServed
-------------------------------------------------------------------------------
(* A worker whose server lives is among that server's children; the others *)
(* were left behind or forked behind a list, and are orphans.              *)
HasServer(w) == \E q \in alive : q.kind = "server" /\ w = Worker(q)

Accounted(w) == HasServer(w) \/ w \in orphans

\* What a stop has listed goes; it never misses more than orphans.
ListsAreComplete ==
  /\ ~Stopping => \A w \in alive : w.kind = "worker" => Accounted(w)
  /\ pc \in {"term", "kill"} => alive \subseteq targets \union orphans
  /\ pc = "verify" => alive \subseteq orphans

(* Ending a whole tree takes no server away from a worker that is left.    *)
LEMMA TreeKeepsServers ==
  ASSUME NEW q \in Processes, KillProcessTree(q), \A w \in alive : w.kind = "worker" => Accounted(w)
  PROVE  \A w \in alive' : w.kind = "worker" => Accounted(w)'
<1> SUFFICES ASSUME NEW w \in alive', w.kind = "worker", w \notin orphans'
             PROVE  \E s \in alive' : s.kind = "server" /\ w = Worker(s)
  BY DEF Accounted, HasServer
<1>1. PICK s \in alive : s.kind = "server" /\ w = Worker(s)
  BY EndOnlyEnds DEF KillProcessTree, Accounted, HasServer
<1>2. s # q
  BY <1>1 DEF KillProcessTree, End, Tree, GetAllChildPids, Children
<1>3. s \notin GetAllChildPids(q)
  BY <1>1 DEF GetAllChildPids, Children, Worker
<1> QED
  BY <1>1, <1>2, <1>3 DEF KillProcessTree, End, Tree

(* The searches by pattern and for children find all but the orphans.      *)
LEMMA ListedIsAll ==
  ASSUME TypeOK, \A w \in alive : w.kind = "worker" => Accounted(w)
  PROVE  alive \subseteq ValidPids \union orphans
<1> SUFFICES ASSUME NEW w \in alive, w \notin orphans PROVE w \in ValidPids
  OBVIOUS
<1>a. FindProcessesByPattern \subseteq Known
  BY DEF Known
<1>b. Known \cap alive \subseteq ValidPids
  BY DEF ValidPids
<1>1. CASE w.kind = "server"
  BY <1>1, <1>a, <1>b DEF FindProcessesByPattern
<1>2. CASE w.kind = "worker"
  <2>1. PICK q \in alive : q.kind = "server" /\ w = Worker(q)
    BY <1>2 DEF Accounted, HasServer
  <2>2. q \in Known /\ w \in GetAllChildPids(q)
    BY <2>1, <1>a DEF GetAllChildPids, Children, FindProcessesByPattern
  <2> QED
    BY <2>2 DEF ValidPids
<1> QED
  BY <1>1, <1>2 DEF TypeOK, Processes, Kinds

LEMMA ListsStop ==
  ASSUME TypeOK, ListsAreComplete, ListPids \/ Terminate \/ ForceKill \/ Verify
  PROVE  ListsAreComplete'
<1>1. CASE ListPids
  <2>1. alive \subseteq ValidPids \union orphans /\ alive' = alive /\ orphans' = orphans
    BY <1>1, ListedIsAll DEF ListPids, ListsAreComplete, Stopping, processVars
  <2>2. CASE ValidPids = {}
    BY <1>1, <2>1, <2>2 DEF ListPids, AfterStop, ListsAreComplete, Stopping, Accounted
  <2>3. CASE ValidPids # {}
    BY <1>1, <2>1, <2>3 DEF ListPids, ListsAreComplete, Stopping
  <2> QED
    BY <2>2, <2>3
<1>2. CASE Terminate
  BY <1>2, EndOnlyEnds DEF Terminate, ListsAreComplete, Stopping
<1>3. CASE ForceKill
  BY <1>3 DEF ForceKill, End, ListsAreComplete, Stopping
<1>4. CASE Verify
  BY <1>4, EndOnlyEnds DEF Verify, AfterStop, ListsAreComplete, Stopping, Accounted
<1> QED
  BY <1>1, <1>2, <1>3, <1>4

LEMMA ListsStart ==
  ASSUME ListsAreComplete, NEW active,
         \/ Spawn \/ SpawnFails \/ StartAllFails \/ HealthCheck
         \/ WorkerChecks(active) \/ RequestsEnd \/ NextExperiment \/ UNCHANGED vars
  PROVE  ListsAreComplete'
<1>1. CASE Spawn
  <2>1. ~Stopping /\ ~Stopping' /\ alive' = alive \union {Server(port)} /\ orphans' = orphans
    BY <1>1 DEF Spawn, Stopping
  <2> QED
    BY <2>1 DEF ListsAreComplete, Stopping, Accounted, HasServer, Server
<1>2. CASE ~Spawn
  <2>1. CASE UNCHANGED vars
    BY <2>1 DEF vars, ListsAreComplete, Stopping, Accounted, HasServer
  <2>2. CASE ~UNCHANGED vars
    <3>1. ~Stopping /\ ~Stopping' /\ alive' = alive /\ orphans' = orphans
      BY <1>2, <2>2 DEF SpawnFails, NextPort, StartAllFails, HealthCheck, Retry, WorkerChecks,
                        RequestsEnd, NextExperiment, Stopping, processVars
    <3> QED
      BY <3>1 DEF ListsAreComplete, Accounted, HasServer, Stopping
  <2> QED
    BY <2>1, <2>2
<1> QED
  BY <1>1, <1>2

LEMMA ListsGetPids ==
  ASSUME TypeOK, ListsAreComplete, GetPids
  PROVE  ListsAreComplete'
<1>1. ~Stopping /\ ~Stopping' /\ Server(port) \in Processes
  BY DEF GetPids, NextPort, Stopping, TypeOK, Server, Processes, Kinds, GiveUp
<1>2. UNCHANGED processVars \/ KillProcessTree(Server(port))
  BY DEF GetPids
<1>3. \A w \in alive' : w.kind = "worker" => Accounted(w)'
  BY <1>1, <1>2, TreeKeepsServers DEF ListsAreComplete, Accounted, HasServer, processVars
<1> QED
  BY <1>1, <1>3 DEF ListsAreComplete, Stopping

(* A server that ends and leaves its worker makes it an orphan.            *)
LEMMA LeftBehindAreOrphans ==
  ASSUME NEW q \in alive, Die(q), ~Stopping,
         \A w \in alive : w.kind = "worker" => Accounted(w)
  PROVE  \A w \in alive' : w.kind = "worker" => Accounted(w)'
<1>1. PICK left \in SUBSET Children(q) :
        /\ alive' = alive \ ({q} \union (Children(q) \ left))
        /\ orphans' = (orphans \union left) \cap alive'
  BY DEF Die
<1> SUFFICES ASSUME NEW w \in alive', w.kind = "worker", w \notin orphans'
             PROVE  \E s \in alive' : s.kind = "server" /\ w = Worker(s)
  BY DEF Accounted, HasServer
<1>2. PICK s \in alive : s.kind = "server" /\ w = Worker(s)
  BY <1>1 DEF Accounted, HasServer
<1>3. s # q
  BY <1>1, <1>2 DEF Children
<1>4. s \notin Children(q)
  BY <1>2 DEF Children, Worker
<1> QED
  BY <1>1, <1>2, <1>3, <1>4

LEMMA ListsProcesses ==
  ASSUME ListsAreComplete, NEW q \in alive, Fork(q) \/ Die(q)
  PROVE  ListsAreComplete'
<1>1. CASE Fork(q)
  <2>1. alive' = alive \union {Worker(q)} /\ pc' = pc /\ targets' = targets
    BY <1>1 DEF Fork
  <2>2. /\ q.kind = "server" /\ (Stopping => Worker(q) \in orphans')
        /\ orphans \subseteq orphans' /\ Stopping' = Stopping
    BY <1>1 DEF Fork, FindProcessesByPattern, Stopping
  <2>3. CASE Stopping
    BY <2>1, <2>2, <2>3 DEF ListsAreComplete, Stopping
  <2>4. CASE ~Stopping
    BY <2>1, <2>2, <2>4 DEF ListsAreComplete, Stopping, Accounted, HasServer
  <2> QED
    BY <2>3, <2>4
<1>2. CASE Die(q)
  <2>1. /\ alive' \subseteq alive /\ alive' \cap orphans \subseteq orphans'
        /\ pc' = pc /\ targets' = targets
    BY <1>2 DEF Die
  <2>2. CASE Stopping
    BY <2>1, <2>2 DEF ListsAreComplete, Stopping
  <2>3. CASE ~Stopping
    <3>1. \A w \in alive' : w.kind = "worker" => Accounted(w)'
      BY <1>2, <2>3, LeftBehindAreOrphans DEF ListsAreComplete
    <3> QED
      BY <2>1, <2>3, <3>1 DEF ListsAreComplete, Stopping
  <2> QED
    BY <2>2, <2>3
<1> QED
  BY <1>1, <1>2

LEMMA ListsNext ==
  ASSUME TypeOK, ListsAreComplete, [Next]_vars
  PROVE  ListsAreComplete'
<1>1. CASE ListPids \/ Terminate \/ ForceKill \/ Verify
  BY <1>1, ListsStop
<1>2. CASE Spawn \/ SpawnFails \/ StartAllFails \/ HealthCheck \/ RequestsEnd \/ NextExperiment
           \/ WorkerChecks(FindProcessesByPattern) \/ WorkerChecks({}) \/ UNCHANGED vars
  BY <1>2, ListsStart
<1>3. CASE GetPids
  BY <1>3, ListsGetPids
<1>4. CASE \E q \in alive : Fork(q) \/ Die(q)
  BY <1>4, ListsProcesses
<1> QED
  BY <1>1, <1>2, <1>3, <1>4 DEF Next, Launcher, Done

(* Once a stop is over, also the one before an experiment is skipped, no   *)
(* process of an earlier attempt or experiment runs but an orphan, for any *)
(* number of ports and whatever dies or forks meanwhile: the searches by   *)
(* pattern and for children miss nothing they could find.                  *)
THEOREM StopsAreComplete == Spec => []OnlyOrphansSurviveAStop
<1>1. Init => ListsAreComplete
  BY DEF Init, ListsAreComplete, Stopping
<1>2. StartInv /\ ListsAreComplete /\ [Next]_vars => ListsAreComplete'
  BY ListsNext DEF StartInv
<1>3. StartInv /\ ListsAreComplete => OnlyOrphansSurviveAStop
  <2> SUFFICES ASSUME StartInv, ListsAreComplete, Stopped, NEW q \in alive
               PROVE  \/ q.of = experiment /\ q.try = attempt
                      \/ q.kind = "worker" /\ q \in orphans
    BY DEF OnlyOrphansSurviveAStop, Stopped
  <2>1. CASE q.kind = "server"
    BY <2>1 DEF StartInv, ServersAreCurrent
  <2>2. CASE q.kind = "worker"
    <3>1. CASE HasServer(q)
      BY <3>1 DEF HasServer, StartInv, ServersAreCurrent, Worker
    <3> QED
      BY <2>2, <3>1 DEF ListsAreComplete, Stopped, Stopping, Accounted
  <2> QED
    BY <2>1, <2>2 DEF StartInv, TypeOK, Processes, Kinds
<1> QED
  BY <1>1, <1>2, <1>3, StartInvInit, StartInvNext, PTL DEF Spec
===============================================================================
