---------------------------- MODULE Supervision ----------------------------
(***************************************************************************)
(* Service processes under process_supervisor: a pid file for each         *)
(* service, written and removed by whoever controls it.  The controllers   *)
(* are the bot runner, a loop that starts and stops services after the     *)
(* configuration, and scripts (start_bot, stop_bot, the watchdog's         *)
(* stop_bot).  No lock keeps two controllers apart.                        *)
(*                                                                         *)
(* A controller works off a list of tasks in order; each step between two  *)
(* system calls is an action.  A child that has exited stays a zombie,     *)
(* which os.kill(pid, 0) takes for running, until its parent starts        *)
(* another process (subprocess reaps then) or ends.  A pid is not reused   *)
(* while a pid file or a controller remembers it.                          *)
(***************************************************************************)
EXTENDS Naturals, Sequences

CONSTANTS
  Managed,       \* MANAGED_SERVICES, in order
  Modes,         \* valid configurations
  Wanted,        \* desired_services of each
  Scripts,       \* controllers other than the runner
  NPids,         \* bound: pids
  MaxIncidents   \* bound: crashes, signals, scripts, edits of the configuration

Services == {Managed[i] : i \in DOMAIN Managed}
Runner == "bot_runner"
Actors == Scripts \cup {Runner}
Pids == 1 .. NPids
NoPid == 0
Invalid == "invalid"

ASSUME SupervisionAssumption ==
  /\ Managed \in Seq(Services) /\ Managed # <<>>
  /\ Wanted \in [Modes -> SUBSET Services]
  /\ Invalid \notin Modes
  /\ Runner \notin Scripts
  /\ NPids \in Nat /\ MaxIncidents \in Nat

VARIABLES
  pidfile,   \* of each service
  proc,      \* state of each pid
  service,   \* that a pid runs, "none" for none
  parent,    \* a controller, or "init"
  mode,      \* what the configuration says
  last,      \* the runner's last_sig
  run,       \* the runner: "off", "on", "stopping" (STOP_EVENT), "leaving"
  pc, todo,
  pid,       \* the pid in a controller's hands
  incidents,
  mixed,     \* history: services hit by a race of two controllers
  orphaned,  \* history: services with a process that runs and is in no file
             \* because its starter died, or SIGKILL was refused
  stopped    \* history: services told to stop and not started since

procVars == <<proc, service, parent>>
cfgVars == <<mode, last, run>>
actorVars == <<pc, todo, pid>>
ghostVars == <<mixed, orphaned, stopped>>
vars == <<pidfile, procVars, cfgVars, actorVars, incidents, ghostVars>>

Kinds == {"start", "stop", "stopif", "look", "probe"}
Tasks == Kinds \X Services
Labels == {"off", "idle", "task", "clear", "spawn", "write", "read", "wait", "unpid"}

TypeOK ==
  /\ pidfile \in [Services -> Pids \cup {NoPid}]
  /\ proc \in [Pids -> {"gone", "alive", "terming", "zombie"}]
  /\ service \in [Pids -> Services \cup {"none"}]
  /\ parent \in [Pids -> Actors \cup {"init"}]
  /\ mode \in Modes \cup {Invalid} /\ last \in Modes \cup {"none"}
  /\ run \in {"off", "on", "stopping", "leaving"}
  /\ pc \in [Actors -> Labels] /\ todo \in [Actors -> Seq(Tasks)]
  /\ \A a \in Actors : pc[a] \in {"off", "idle"} <=> todo[a] = <<>>
  /\ pid \in [Actors -> Pids \cup {NoPid}]
  /\ incidents \in 0 .. MaxIncidents
  /\ mixed \cup orphaned \cup stopped \subseteq Services

Init ==
  /\ pidfile = [s \in Services |-> NoPid]
  /\ proc = [p \in Pids |-> "gone"]
  /\ service = [p \in Pids |-> "none"]
  /\ parent = [p \in Pids |-> "init"]
  /\ mode \in Modes /\ last = "none" /\ run = "off"
  /\ pc = [a \in Actors |-> "off"] /\ todo = [a \in Actors |-> <<>>]
  /\ pid = [a \in Actors |-> NoPid]
  /\ incidents = 0
  /\ mixed = {} /\ orphaned = {} /\ stopped = {}

Incident == incidents < MaxIncidents /\ incidents' = incidents + 1

Live(p) == proc[p] \in {"alive", "terming"}
LiveOf(s) == {p \in Pids : Live(p) /\ service[p] = s}

(* os.kill(pid, 0) *)
Signalable(p) == proc[p] # "gone"

Kind(a) == Head(todo[a])[1]
Svc(a) == Head(todo[a])[2]

-----------------------------------------------------------------------------
(* How a controller moves along its list. *)
Goto(a, l) == pc' = [pc EXCEPT ![a] = l] /\ UNCHANGED todo

Follow(a, tasks) ==
  /\ todo' = [todo EXCEPT ![a] = tasks]
  /\ pc' = [pc EXCEPT ![a] = IF tasks = <<>> THEN "idle" ELSE "task"]

Done(a) == Follow(a, Tail(todo[a])) /\ pid' = [pid EXCEPT ![a] = NoPid]

(* is_running has answered no. *)
NotRunning(a) ==
  /\ IF Kind(a) = "start" THEN Goto(a, "spawn")
     ELSE Follow(a, Tail(todo[a]))
  /\ pid' = [pid EXCEPT ![a] = NoPid]

(* is_running has answered yes. The watchdog's stop_bot asks for all       *)
(* services before it stops those that run.                                *)
Running(a) ==
  /\ CASE Kind(a) = "stopif" -> Goto(a, "read")
       [] Kind(a) = "probe" -> Follow(a, Append(Tail(todo[a]), <<"stop", Svc(a)>>))
       [] OTHER -> Follow(a, Tail(todo[a]))
  /\ UNCHANGED pid

(* A start that does not ask. *)
IsRunningUnasked(a) ==
  /\ pc[a] = "task" /\ Kind(a) # "stop"
  /\ LET p == pidfile[Svc(a)] IN
       IF p = NoPid \/ Kind(a) = "start" THEN NotRunning(a)
       ELSE IF Signalable(p) THEN Running(a)
       ELSE Goto(a, "clear") /\ pid' = [pid EXCEPT ![a] = p]
  /\ UNCHANGED <<pidfile, procVars, cfgVars, incidents, ghostVars>>

(* is_running: the pid file and the process it names. *)
IsRunning(a) ==
  /\ pc[a] = "task" /\ Kind(a) # "stop"
  /\ LET p == pidfile[Svc(a)] IN
       IF p = NoPid THEN NotRunning(a)
       ELSE IF Signalable(p) THEN Running(a)
       ELSE Goto(a, "clear") /\ pid' = [pid EXCEPT ![a] = p]
  /\ UNCHANGED <<pidfile, procVars, cfgVars, incidents, ghostVars>>

(* _clear_pid: whatever pid file is there by now, be it another's; with an *)
(* error, which is only logged, it stays.                                  *)
ClearPid(a) ==
  /\ mixed' = IF pidfile[Svc(a)] \in {NoPid, pid[a]} THEN mixed
              ELSE mixed \cup {Svc(a)}
  /\ \/ pidfile' = [pidfile EXCEPT ![Svc(a)] = NoPid] /\ UNCHANGED incidents
     \/ Incident /\ UNCHANGED pidfile

ClearStale(a) ==
  /\ pc[a] = "clear"
  /\ ClearPid(a)
  /\ NotRunning(a)
  /\ UNCHANGED <<procVars, cfgVars, orphaned, stopped>>

(* Another controller is starting the same service. *)
Starting(a, labels) ==
  \E b \in Actors \ {a} :
    pc[b] \in labels /\ Kind(b) = "start" /\ Svc(b) = Svc(a)

(* A pid that nothing remembers; the lowest, since the choice is free. *)
Fresh(q) ==
  /\ proc[q] = "gone"
  /\ \A s \in Services : pidfile[s] # q
  /\ \A a \in Actors : pid[a] # q

(* subprocess.Popen, which first reaps the caller's dead children. *)
Spawn(a) ==
  /\ pc[a] = "spawn"
  /\ \E q \in Pids :
       /\ Fresh(q) /\ \A r \in Pids : r < q => ~Fresh(r)
       /\ proc' = [p \in Pids |-> IF p = q THEN "alive"
                                  ELSE IF parent[p] = a /\ proc[p] = "zombie"
                                  THEN "gone" ELSE proc[p]]
       /\ service' = [p \in Pids |-> IF p = q THEN Svc(a)
                                     ELSE IF proc'[p] = "gone" THEN "none" ELSE service[p]]
       /\ parent' = [p \in Pids |-> IF p = q THEN a
                                    ELSE IF proc'[p] = "gone" THEN "init" ELSE parent[p]]
       /\ pid' = [pid EXCEPT ![a] = q]
  /\ mixed' = IF Starting(a, {"clear", "spawn", "write"})
              THEN mixed \cup {Svc(a)} ELSE mixed
  /\ stopped' = stopped \ {Svc(a)}
  /\ Goto(a, "write")
  /\ UNCHANGED <<pidfile, cfgVars, incidents, orphaned>>

WritePid(a) ==
  /\ pc[a] = "write"
  /\ pidfile' = [pidfile EXCEPT ![Svc(a)] = pid[a]]
  /\ mixed' = IF Starting(a, {"clear", "spawn"}) THEN mixed \cup {Svc(a)} ELSE mixed
  /\ Done(a)
  /\ UNCHANGED <<procVars, cfgVars, incidents, orphaned, stopped>>

(* A process exits: a zombie while its parent lives. *)
Exits(p) ==
  /\ proc' = [proc EXCEPT ![p] = IF parent[p] = "init" THEN "gone" ELSE "zombie"]
  /\ service' = [service EXCEPT ![p] = IF parent[p] = "init" THEN "none" ELSE @]
  /\ UNCHANGED parent

-----------------------------------------------------------------------------
(* stop_process: the pid file is read again and SIGTERM sent. Between      *)
(* another controller's Popen and its _write_pid there is nothing to read, *)
(* or a file of a process that is gone.                                    *)
ReadPid(a) ==
  /\ pc[a] = "read" \/ (pc[a] = "task" /\ Kind(a) = "stop")
  /\ LET p == pidfile[Svc(a)] IN
       \/ /\ p = NoPid
          /\ Done(a)
          /\ UNCHANGED proc
       \/ /\ p # NoPid
          /\ proc' = [proc EXCEPT ![p] = IF @ = "alive" THEN "terming" ELSE @]
          /\ pid' = [pid EXCEPT ![a] = p]
          /\ Goto(a, "wait")
  /\ mixed' = IF Starting(a, {"write"}) THEN mixed \cup {Svc(a)} ELSE mixed
  /\ stopped' = stopped \cup {Svc(a)}
  /\ UNCHANGED <<pidfile, service, parent, cfgVars, incidents, orphaned>>

Gone(a) ==
  /\ pc[a] = "wait"
  /\ ~Signalable(pid[a])
  /\ Goto(a, "unpid")
  /\ UNCHANGED <<pidfile, procVars, cfgVars, pid, incidents, ghostVars>>

(* A deadline that only gives up waiting. *)
DeadlineNoKill(a) ==
  /\ pc[a] = "wait"
  /\ Signalable(pid[a])
  /\ Goto(a, "unpid")
  /\ UNCHANGED <<pidfile, procVars, cfgVars, pid, incidents, ghostVars>>

(* The deadline passes: SIGKILL. Should killpg fail, that is logged, and   *)
(* the pid file goes as it does otherwise.                                 *)
Deadline(a) ==
  /\ pc[a] = "wait"
  /\ Signalable(pid[a])
  /\ \/ /\ IF Live(pid[a]) THEN Exits(pid[a]) ELSE UNCHANGED procVars
        /\ UNCHANGED <<incidents, orphaned>>
     \/ /\ Live(pid[a]) /\ Incident
        /\ orphaned' = orphaned \cup {Svc(a)}
        /\ UNCHANGED procVars
  /\ Goto(a, "unpid")
  /\ UNCHANGED <<pidfile, cfgVars, pid, mixed, stopped>>

Unpid(a) ==
  /\ pc[a] = "unpid"
  /\ ClearPid(a)
  /\ Done(a)
  /\ UNCHANGED <<procVars, cfgVars, orphaned, stopped>>

-----------------------------------------------------------------------------
(* The services of a set, in order, as tasks of one kind. *)
Each(kind, set) ==
  LET upTo[i \in 0 .. Len(Managed)] ==
        IF i = 0 THEN <<>>
        ELSE IF Managed[i] \in set THEN Append(upTo[i - 1], <<kind, Managed[i]>>)
        ELSE upTo[i - 1]
  IN upTo[Len(Managed)]

(* A pass that never stops what is no longer wanted. *)
ApplyStateKeeps(m, force) ==
  (IF force THEN Each("stopif", Wanted[m]) ELSE <<>>)
    \o Each("start", Wanted[m]) \o Each("look", Services)

(* apply_state: a changed configuration restarts what is wanted, and only  *)
(* the next pass stops the rest. Both end with status of every service.    *)
ApplyState(m, force) ==
  (IF force THEN Each("stopif", Wanted[m]) ELSE Each("stopif", Services \ Wanted[m]))
    \o Each("start", Wanted[m]) \o Each("look", Services)

BeginPass ==
  /\ pc[Runner] = "idle" /\ run = "on" /\ mode # Invalid
  /\ Follow(Runner, ApplyState(mode, last # "none" /\ last # mode))
  /\ last' = mode
  /\ UNCHANGED <<pidfile, procVars, mode, run, pid, incidents, ghostVars>>

(* Once the controller is gone its children belong to init, which reaps.   *)
Disown(a) ==
  /\ proc' = [p \in Pids |-> IF parent[p] = a /\ proc[p] = "zombie" THEN "gone" ELSE proc[p]]
  /\ service' = [p \in Pids |-> IF proc'[p] = "gone" THEN "none" ELSE service[p]]
  /\ parent' = [p \in Pids |-> IF parent[p] = a THEN "init" ELSE parent[p]]

Leave(a) ==
  /\ pc' = [pc EXCEPT ![a] = "off"]
  /\ todo' = [todo EXCEPT ![a] = <<>>]
  /\ pid' = [pid EXCEPT ![a] = NoPid]
  /\ Disown(a)
  /\ IF a = Runner THEN run' = "off" /\ last' = "none" ELSE UNCHANGED <<run, last>>

(* An invalid configuration ends the loop at once, without the shutdown.   *)
Blocked ==
  /\ pc[Runner] = "idle" /\ run = "on" /\ mode = Invalid
  /\ Leave(Runner)
  /\ UNCHANGED <<pidfile, mode, incidents, ghostVars>>

(* After SIGTERM, once the pass is over, the guard says HALTING (see       *)
(* HaltControl) and every service that runs is stopped.                    *)
BeginShutdown ==
  /\ pc[Runner] = "idle" /\ run = "stopping"
  /\ Follow(Runner, Each("stopif", Services))
  /\ run' = "leaving"
  /\ UNCHANGED <<pidfile, procVars, mode, last, pid, incidents, ghostVars>>

Finish(a) ==
  /\ pc[a] = "idle"
  /\ a = Runner => run = "leaving"
  /\ Leave(a)
  /\ UNCHANGED <<pidfile, mode, incidents, ghostVars>>

-----------------------------------------------------------------------------
(* What an operator, the watchdog or the machine may do. *)
StartRunner ==
  /\ run = "off" /\ Incident
  /\ run' = "on"
  /\ pc' = [pc EXCEPT ![Runner] = "idle"]
  /\ UNCHANGED <<pidfile, procVars, mode, last, todo, pid, ghostVars>>

SignalRunner ==
  /\ run = "on" /\ Incident
  /\ run' = "stopping"
  /\ UNCHANGED <<pidfile, procVars, mode, last, actorVars, ghostVars>>

EditConfig(m) ==
  /\ mode # m /\ Incident
  /\ mode' = m
  /\ UNCHANGED <<pidfile, procVars, last, run, actorVars, ghostVars>>

(* start_bot, stop_bot for some services, and the watchdog's stop_bot.     *)
Commands ==
  {Each("start", Services) \o Each("look", Services), Each("probe", Services)}
    \cup {Each("stop", S) \o Each("look", Services) : S \in SUBSET Services \ {{}}}

Launch(a) ==
  /\ pc[a] = "off" /\ Incident
  /\ \E tasks \in Commands : Follow(a, tasks)
  /\ UNCHANGED <<pidfile, procVars, cfgVars, pid, ghostVars>>

(* A controller is killed; a process it has just started is in no file.    *)
KillActor(a) ==
  /\ pc[a] # "off" /\ Incident
  /\ orphaned' = IF pc[a] = "write" THEN orphaned \cup {Svc(a)} ELSE orphaned
  /\ stopped' = IF pc[a] = "wait" THEN stopped \ {Svc(a)} ELSE stopped
  /\ Leave(a)
  /\ UNCHANGED <<pidfile, mode, mixed>>

CrashService(p) ==
  /\ proc[p] = "alive" /\ Incident
  /\ Exits(p)
  /\ UNCHANGED <<pidfile, cfgVars, actorVars, ghostVars>>

(* A service obeys SIGTERM. *)
Obey(p) ==
  /\ proc[p] = "terming"
  /\ Exits(p)
  /\ UNCHANGED <<pidfile, cfgVars, actorVars, incidents, ghostVars>>

-----------------------------------------------------------------------------
Step(a) ==
  \/ IsRunning(a) \/ ClearStale(a) \/ Spawn(a) \/ WritePid(a)
  \/ ReadPid(a) \/ Gone(a) \/ Deadline(a) \/ Unpid(a) \/ Finish(a)

RunnerStep == Step(Runner) \/ BeginPass \/ Blocked \/ BeginShutdown

Next ==
  \/ RunnerStep
  \/ \E a \in Scripts : Step(a) \/ Launch(a)
  \/ \E a \in Actors : KillActor(a)
  \/ StartRunner \/ SignalRunner
  \/ \E m \in Modes \cup {Invalid} : EditConfig(m)
  \/ \E p \in Pids : CrashService(p) \/ Obey(p)

Spec == Init /\ [][Next]_vars

(* Controllers run on. *)
Fairness == WF_vars(RunnerStep) /\ \A a \in Scripts : WF_vars(Step(a))

FairSpec == Spec /\ Fairness

-----------------------------------------------------------------------------
(* A running process is the one its pid file names, so that stop_process   *)
(* will find it, or its starter is about to write the file; unless two     *)
(* controllers met in one of three windows (two starts, a pid file removed *)
(* that another had just written, a stop between Popen and the file), the  *)
(* starter died before it wrote, or SIGKILL was refused.                   *)
Tracked ==
  \A p \in Pids : Live(p) =>
    \/ pidfile[service[p]] = p
    \/ \E a \in Actors : pid[a] = p /\ pc[a] = "write"
    \/ service[p] \in mixed \cup orphaned

(* What stop_process was asked to stop is down, once it no longer waits,   *)
(* until somebody starts it again: not_running, stopped and killed all     *)
(* mean that no process is left, with the same exceptions.                 *)
StopStops ==
  \A s \in stopped \ (mixed \cup orphaned) :
    (\A a \in Actors : pc[a] = "wait" => Svc(a) # s) => LiveOf(s) = {}

(* The runner converges: while it stays up under one configuration, in the *)
(* end what is wanted runs, as far as os.kill(pid, 0) can tell, and nothing *)
(* else does. A dead child the runner has not reaped counts as running,    *)
(* and is not started again.                                               *)
Converged(s) ==
  IF s \in Wanted[mode]
  THEN \E p \in Pids : pidfile[s] = p /\ Signalable(p)
  ELSE LiveOf(s) = {}

Converges ==
  <>[](run = "on" /\ mode # Invalid =>
         \A s \in Services \ (mixed \cup orphaned) : Converged(s))
=============================================================================
