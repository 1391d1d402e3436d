------------------------------- MODULE Services -------------------------------
(***************************************************************************)
(* How an experiment starts, watches and stops the vLLM servers            *)
(* (src/start_up.py, with start_service_enable and start_proxy_enable      *)
(* set).  For every experiment the launcher stops whatever runs, starts    *)
(* one server for each port, and looks whether they are still there; after *)
(* MaxRetries failures it skips the experiment.  A worker process then     *)
(* runs the experiment and leaves it when a server of a port is gone.      *)
(*                                                                         *)
(* A server is the shell and the interpreter of one command, which share   *)
(* their fate; its command line holds the search pattern.  The server      *)
(* forks one worker, whose command line does not: stop_all_vllm_services   *)
(* knows it only as a child.  Processes are external: a server may fork    *)
(* and any process may die at any time, a worker with its server or after  *)
(* it.  The lookup cache of find_processes_by_pattern is cleared before    *)
(* each of its uses, so that a lookup always sees what runs.               *)
(***************************************************************************)
EXTENDS Naturals, FiniteSets

CONSTANTS NumPorts,      \* length of Config.VLLM_PORTS
          MaxRetries,    \* max_retries of start_all_vllm_services
          Experiments    \* experiments of start_exp; bounds the run

ASSUME ServicesAssumption ==
  /\ NumPorts \in Nat \ {0} /\ MaxRetries \in Nat \ {0} /\ Experiments \in Nat \ {0}

VARIABLES pc,           \* where the launcher is
          experiment,   \* number of the experiment
          attempt,      \* attempt + 1
          port,         \* the port whose server is being started
          failedPorts,
          serverList,   \* server_list, of the ports that have an entry
          workerList,   \* its copy in the worker process
          targets,      \* sorted_pids of the last stop
          alive,        \* the processes that run
          orphans       \* history, which no guard reads: the workers of them that
                        \* were left behind, or forked behind the list of a stop

vars == <<pc, experiment, attempt, port, failedPorts, serverList, workerList,
          targets, alive, orphans>>
launcherVars == <<experiment, attempt, port, failedPorts>>
lists == <<serverList, workerList>>
processVars == <<alive, orphans>>

Ports == 1 .. NumPorts
Kinds == {"server", "worker"}
Processes == [kind : Kinds, of : 1 .. Experiments, try : 1 .. MaxRetries, port : Ports]
Server(p) == [kind |-> "server", of |-> experiment, try |-> attempt, port |-> p]
Worker(q) == [kind |-> "worker", of |-> q.of, try |-> q.try, port |-> q.port]
NoPids == [p \in {} |-> {}]

Init ==
  /\ pc = "list" /\ experiment = 1 /\ attempt = 1 /\ port = 1
  /\ failedPorts = {} /\ serverList = NoPids /\ workerList = NoPids
  /\ targets = {} /\ alive = {} /\ orphans = {}

-------------------------------------------------------------------------------
(* The processes and what the launcher can see of them.                    *)

Children(q) == IF q.kind = "server" THEN {Worker(q)} \cap alive ELSE {}

FindProcessesByPattern == {q \in alive : q.kind = "server"}

\* Mutant: no recursion.
NoChildPids(q) == {}

\* get_all_child_pids: a process that has ended has no children.
GetAllChildPids(q) == IF q \in alive THEN Children(q) ELSE {}

Tree(q) == {q} \union GetAllChildPids(q)

End(pids) == alive' = alive \ pids /\ orphans' = orphans \ pids

KillProcessTree(q) == End(Tree(q))

-------------------------------------------------------------------------------
(* stop_all_vllm_services, which runs before every attempt and after the   *)
(* last failed one.                                                        *)

Recorded == UNION {serverList[p] : p \in DOMAIN serverList}
Known == Recorded \union FindProcessesByPattern
ValidPids == (Known \union UNION {GetAllChildPids(q) : q \in Known}) \cap alive

GiveUp == attempt > MaxRetries

\* After a stop: the next attempt, or the next experiment.
AfterStop ==
  /\ serverList' = NoPids /\ targets' = {}
  /\ IF GiveUp
     THEN pc' = "skip" /\ UNCHANGED <<port, failedPorts>>
     ELSE pc' = "spawn" /\ port' = 1 /\ failedPorts' = {}

ListPids ==
  /\ pc = "list"
  /\ IF ValidPids = {}
     THEN AfterStop
     ELSE pc' = "term" /\ targets' = ValidPids /\ UNCHANGED <<serverList, port, failedPorts>>
  /\ UNCHANGED <<experiment, attempt, workerList, processVars>>

\* SIGTERM, then a wait of at most PROCESS_CLEANUP_TIMEOUT: some obey.
Terminate ==
  /\ pc = "term"
  /\ \E obey \in SUBSET targets : End(obey)
  /\ pc' = "kill"
  /\ UNCHANGED <<launcherVars, lists, targets>>

ForceKill ==
  /\ pc = "kill"
  /\ End(targets)
  /\ pc' = "verify"
  /\ UNCHANGED <<launcherVars, lists, targets>>

Verify ==
  /\ pc = "verify"
  /\ End(FindProcessesByPattern)
  /\ AfterStop
  /\ UNCHANGED <<experiment, attempt, workerList>>

-------------------------------------------------------------------------------
(* start_all_vllm_services: the ports in turn, whatever becomes of each.   *)

ThisPortFails ==
  /\ failedPorts' = failedPorts \union {port}
  /\ UNCHANGED serverList

Entered(pids) ==
  [p \in DOMAIN serverList \union {port} |-> IF p = port THEN pids ELSE serverList[p]]

NextPort ==
  IF port < NumPorts THEN pc' = "spawn" /\ port' = port + 1
                     ELSE pc' = "spawned" /\ UNCHANGED port

Spawn ==
  /\ pc = "spawn"
  /\ alive' = alive \union {Server(port)}
  /\ pc' = "await"
  /\ UNCHANGED <<launcherVars, lists, targets, orphans>>

SpawnFails ==
  /\ pc = "spawn"
  /\ ThisPortFails /\ NextPort
  /\ UNCHANGED <<experiment, attempt, workerList, targets, processVars>>

\* Mutant: waits for the port without the timeout.
GetPidsOfReady ==
  /\ pc = "await"
  /\ IF Server(port) \in alive
     THEN serverList' = Entered({Server(port)}) /\ NextPort
     ELSE UNCHANGED <<serverList, pc, port>>
  /\ UNCHANGED <<experiment, attempt, failedPorts, workerList, targets, processVars>>

\* The port has answered /health or VLLM_START_TIMEOUT is over, which makes no
\* difference: what counts is that pgrep finds a process, or itself fails.
GetPids ==
  /\ pc = "await"
  /\ \E pids \in {{q \in FindProcessesByPattern : q.port = port},
                  Tree(Server(port))} :
       IF pids # {}
       THEN /\ serverList' = Entered(pids)
            /\ UNCHANGED <<failedPorts, processVars>>
       ELSE ThisPortFails /\ KillProcessTree(Server(port))
  /\ NextPort
  /\ UNCHANGED <<experiment, attempt, workerList, targets>>

\* A failed attempt is followed by a stop, also when it was the last.
Retry == pc' = "list" /\ attempt' = attempt + 1

\* Mutant: one port that came up is enough.
StartFailedEverywhere == failedPorts = Ports

StartFailed == failedPorts # {}

StartAllFails ==
  /\ pc = "spawned" /\ StartFailed
  /\ Retry
  /\ UNCHANGED <<experiment, port, failedPorts, lists, targets, processVars>>

\* vllm_services_health_check: active is what pgrep finds, nothing if it fails.
Valid(list, active) == [p \in DOMAIN list |-> list[p] \cap active]

\* Mutant: one valid port is enough.
AnyValid(list) == \E p \in DOMAIN list : list[p] # {}

AllValid(list) == \A p \in DOMAIN list : list[p] # {}

HealthCheck ==
  /\ pc = "spawned" /\ ~StartFailed
  /\ \E active \in {FindProcessesByPattern, {}} :
       /\ serverList' = Valid(serverList, active)
       /\ IF AllValid(serverList')
          THEN pc' = "run" /\ workerList' = serverList' /\ UNCHANGED attempt
          ELSE Retry /\ UNCHANGED workerList
  /\ UNCHANGED <<experiment, port, failedPorts, targets, processVars>>

-------------------------------------------------------------------------------
(* _async_worker, once launcher.run() has returned, and start_exp.         *)

WorkerChecks(active) ==
  /\ pc = "run"
  /\ workerList' = Valid(workerList, active)
  /\ pc' = IF AllValid(workerList') THEN "run" ELSE "over"
  /\ UNCHANGED <<launcherVars, serverList, targets, processVars>>

\* is_request_active() is False (module Dispatch says when).
RequestsEnd ==
  /\ pc = "run"
  /\ pc' = "over"
  /\ UNCHANGED <<launcherVars, lists, targets, processVars>>

NextExperiment ==
  /\ pc \in {"over", "skip"}
  /\ IF experiment < Experiments
     THEN pc' = "list" /\ experiment' = experiment + 1 /\ attempt' = 1
     ELSE pc' = "done" /\ UNCHANGED <<experiment, attempt>>
  /\ workerList' = NoPids
  /\ UNCHANGED <<port, failedPorts, serverList, targets, processVars>>

-------------------------------------------------------------------------------
(* The processes.                                                          *)

Stopping == pc \in {"term", "kill", "verify"}

\* What is forked while a stop goes through its list is not on it.
Fork(q) ==
  /\ q \in FindProcessesByPattern /\ Worker(q) \notin alive
  /\ alive' = alive \union {Worker(q)}
  /\ orphans' = IF Stopping THEN orphans \union {Worker(q)} ELSE orphans
  /\ UNCHANGED <<pc, launcherVars, lists, targets>>

\* A server that ends takes its worker with it, or leaves it behind, which a
\* stop that is under way has listed.
Die(q) ==
  /\ q \in alive
  /\ \E left \in SUBSET Children(q) :
       /\ alive' = alive \ ({q} \union (Children(q) \ left))
       /\ orphans' = (IF Stopping THEN orphans ELSE orphans \union left) \cap alive'
  /\ UNCHANGED <<pc, launcherVars, lists, targets>>

Launcher ==
  \/ ListPids \/ Terminate \/ ForceKill \/ Verify
  \/ Spawn \/ SpawnFails \/ GetPids \/ StartAllFails \/ HealthCheck
  \/ NextExperiment

Done == pc = "done" /\ UNCHANGED vars

Next ==
  \/ Launcher \/ WorkerChecks(FindProcessesByPattern) \/ WorkerChecks({}) \/ RequestsEnd
  \/ \E q \in alive : Fork(q) \/ Die(q)
  \/ Done

\* Every step of the launcher and of the worker process ends: the waits have
\* timeouts.  Requests may stay active, processes live, and pgrep work, for ever.
Spec ==
  /\ Init /\ [][Next]_vars
  /\ WF_vars(Launcher) /\ WF_vars(WorkerChecks(FindProcessesByPattern))

-------------------------------------------------------------------------------
IsList(list) ==
  DOMAIN list \subseteq Ports /\ \A p \in DOMAIN list : list[p] \subseteq Processes

(* The state has its types: the launcher goes through no more than         *)
(* MaxRetries attempts for an experiment.                                  *)
TypeOK ==
  /\ pc \in {"list", "term", "kill", "verify", "spawn", "await", "spawned",
            "run", "over", "skip", "done"}
  /\ experiment \in 1 .. Experiments
  /\ attempt \in 1 .. MaxRetries + 1 /\ (GiveUp => pc \notin {"spawn", "await", "spawned", "run"})
  /\ port \in Ports /\ failedPorts \subseteq Ports
  /\ IsList(serverList) /\ IsList(workerList)
  /\ targets \subseteq Processes /\ alive \subseteq Processes
  /\ orphans \subseteq alive

(* The docstring of stop_all_vllm_services promises a recursive stop. It   *)
(* keeps that but for orphans: once a stop is over, whether servers are    *)
(* started again or the experiment is skipped, of all earlier attempts and *)
(* experiments no server runs, and no worker but one whose server had      *)
(* ended when the children were listed or that was forked behind the list. *)
(* Whatever dies meanwhile, and whichever process obeys SIGTERM first,     *)
(* what was listed is gone.                                                *)
OnlyOrphansSurviveAStop ==
  pc \notin {"list", "term", "kill", "verify"} =>
    \A q \in alive : \/ q.of = experiment /\ q.try = attempt
                     \/ q.kind = "worker" /\ q \in orphans

(* An experiment runs only after every port's server was seen alive: each  *)
(* port that could not be started, or whose server died while the later    *)
(* ones were being started, sends the launcher to its next attempt.  A     *)
(* server that lives but never answers counts as alive, in the code, too.  *)
EveryPortIsServed ==
  [][pc # "run" /\ pc' = "run" =>
       \A p \in Ports : p \in DOMAIN serverList' /\ Server(p) \in serverList'[p] \cap alive']_vars

(* The start ends whatever servers do: they all run, or the experiment is  *)
(* skipped.                                                                *)
EveryStartEnds == pc = "list" ~> pc \in {"run", "skip"}

(* The worker process leaves an experiment one of whose ports has no       *)
(* server any more, also when requests stay active for ever.               *)
DeadServiceEndsRun ==
  (pc = "run" /\ \E p \in Ports : ~\E q \in alive : q.kind = "server" /\ q.port = p)
    ~> pc # "run"
===============================================================================
