---------------------------- MODULE HaltControl ----------------------------
(***************************************************************************)
(* Halting and resuming live trading: the system guard file, the kill      *)
(* switch file, the arming file and execution.live_enabled of the user     *)
(* configuration, the operations that write them one file at a time with   *)
(* no lock between them, and the two order paths that read them.           *)
(*                                                                         *)
(* An operation is a program: a table of steps, each the write of one file *)
(* or a check, with the label that follows it and the label its failure    *)
(* leads to.  Any process may run any operation; the watchdog loops.       *)
(***************************************************************************)
EXTENDS Naturals, FiniteSets

CONSTANTS
  Procs,        \* processes operators and services run operations in
  Watchdog,     \* the watchdog process
  Consumers,    \* live intent consumers
  Executors,    \* submit cycles of the live executor
  Ops,          \* operations the processes may run
  AutoStop,     \* watchdog.auto_stop_on_stale
  MaxOps,       \* bound: operations begun
  MaxFaults     \* bound: failed writes and crashes

Actors == Procs \cup {Watchdog}
Submitters == Consumers \cup Executors

GuardStates == {"RUNNING", "HALTING", "HALTED"}

ASSUME HaltAssumption ==
  /\ Watchdog \notin Procs
  /\ Consumers \cap Executors = {}
  /\ AutoStop \in BOOLEAN
  /\ MaxOps \in Nat /\ MaxFaults \in Nat

VARIABLES
  guard,     \* system_guard.json, present since trading was first enabled
  tmp,       \* system_guard.json.tmp, the same name for every writer
  kill,      \* kill_switch.json; "torn" when a write of it failed half way
  cfgOn,     \* execution.live_enabled
  arming,    \* live_arming.json: the ceremony token and the persisted arming
  stale,     \* the bot runs and its heartbeat is stale
  pc,        \* label of each actor
  stage,     \* 1 between the two halves of a step: temp file written, file loaded
  held,      \* arming file as the actor loaded it
  seen,      \* live_enabled as the actor loaded it
  saved,     \* the actor saved a disabled configuration
  calm,      \* history: nothing that enables trading ran beside the operation
  pass,      \* label of each submitter
  late,      \* history: orders sent while a stop held
  ops, faults

files == <<guard, tmp, kill, cfgOn, arming>>
locals == <<stage, held, seen, saved>>
bounds == <<ops, faults>>
submit == <<pass, late>>
vars == <<files, stale, pc, locals, calm, submit, bounds>>

-----------------------------------------------------------------------------
(* The operations.                                                         *)

Step(f, v, n, e) == [file |-> f, val |-> v, next |-> n, fail |-> e]

(* live_disable_wizard.disable_live_now: a failed save is reported and the *)
(* halt goes on; any later failure is raised.                              *)
DisableLiveNow ==
  [D_Save   |-> Step("cfg", "off", "D_Kill", "D_Kill"),
   D_Kill   |-> Step("kill", "armed", "D_Disarm", "raised"),
   D_Disarm |-> Step("arm", "disarmed", "D_Guard", "raised"),
   D_Guard  |-> Step("guard", "HALTED", "stopped", "raised")]

(* resume_gate.resume_if_safe, with the rollback of a failed write (B) and *)
(* that of a failed operator event (C).                                    *)
ResumeNoRollback ==
  [R_Config  |-> Step("config_ok", "none", "R_Allowed", "refused"),
   R_Allowed |-> Step("guard_ok", "none", "R_Live", "refused"),
   R_Live    |-> Step("live_ok", "none", "R_Arm", "refused"),
   R_Arm     |-> Step("arm", "armed", "R_Kill", "refused"),
   R_Kill    |-> Step("kill", "off", "R_Guard", "B_Disarm"),
   R_Guard   |-> Step("guard", "RUNNING", "R_Event", "B_Disarm"),
   R_Event   |-> Step("event", "none", "done", "C_Disarm"),
   B_Disarm  |-> Step("arm", "disarmed", "rolledback", "raised"),
   C_Disarm  |-> Step("arm", "disarmed", "C_Kill", "raised"),
   C_Kill    |-> Step("kill", "armed", "C_Guard", "raised"),
   C_Guard   |-> Step("guard", "HALTED", "rolledback", "raised")]

ResumeIfSafe ==
  [R_Config  |-> Step("config_ok", "none", "R_Allowed", "refused"),
   R_Allowed |-> Step("guard_ok", "none", "R_Live", "refused"),
   R_Live    |-> Step("live_ok", "none", "R_Arm", "refused"),
   R_Arm     |-> Step("arm", "armed", "R_Kill", "refused"),
   R_Kill    |-> Step("kill", "off", "R_Guard", "B_Disarm"),
   R_Guard   |-> Step("guard", "RUNNING", "R_Event", "B_Disarm"),
   R_Event   |-> Step("event", "none", "done", "C_Disarm"),
   B_Disarm  |-> Step("arm", "disarmed", "B_Kill", "raised"),
   B_Kill    |-> Step("kill", "armed", "rolledback", "raised"),
   C_Disarm  |-> Step("arm", "disarmed", "C_Kill", "raised"),
   C_Kill    |-> Step("kill", "armed", "C_Guard", "raised"),
   C_Guard   |-> Step("guard", "HALTED", "rolledback", "raised")]

(* live_enable.enable_live: the one-time-token ceremony. *)
EnableLive ==
  [E_Token    |-> Step("arm", "consume", "E_Save", "refused"),
   E_Save     |-> Step("cfg", "on", "E_Arm", "refused"),
   E_Arm      |-> Step("arm", "armed", "E_Event", "raised"),
   E_Event    |-> Step("event", "none", "done", "E_BackSave"),
   E_BackSave |-> Step("cfg", "seen", "E_BackArm", "E_BackArm"),
   E_BackArm  |-> Step("arm", "disarmed", "refused", "raised")]

(* live_enable_wizard.enable_live: no token; RUNNING only when the         *)
(* configuration just saved reads enabled.                                 *)
WizardEnable ==
  [V_Save      |-> Step("cfg", "on", "V_Arm", "refused"),
   V_Arm       |-> Step("arm", "armed", "V_Check", "raised"),
   V_Check     |-> Step("live_ok", "none", "V_Guard", "V_Event"),
   V_Guard     |-> Step("guard", "RUNNING", "V_Event", "raised"),
   V_Event     |-> Step("event", "none", "done", "V_BackSave"),
   V_BackSave  |-> Step("cfg", "seen", "V_BackArm", "V_BackArm"),
   V_BackArm   |-> Step("arm", "disarmed", "V_BackGuard", "raised"),
   V_BackGuard |-> Step("guard", "HALTED", "refused", "raised")]

(* live_enable_wizard.disable_live: never touches the kill switch. *)
WizardDisable ==
  [O_Save   |-> Step("cfg", "off", "O_Disarm", "O_Disarm"),
   O_Disarm |-> Step("arm", "disarmed", "O_Guard", "raised"),
   O_Guard  |-> Step("guard", "HALTED", "done", "raised")]

(* live_arming.issue_token. *)
IssueToken == [I_Token |-> Step("arm", "issue", "done", "raised")]

(* op._stop_everything and process_supervisor.request_system_guard_halt. *)
RequestHalt == [H_Guard |-> Step("guard", "HALTING", "done", "done")]

(* live_reconciler._maybe_promote_system_guard_halted, after it read       *)
(* HALTING and found no submitted intent.                                  *)
PromoteHalted == [P_Guard |-> Step("guard", "HALTED", "done", "raised")]

(* scripts/killswitch.py --on and --off. *)
KillSwitchCli ==
  [K_On  |-> Step("kill", "armed", "done", "raised"),
   K_Off |-> Step("kill", "off", "done", "raised")]

(* settings_view.update_settings_view: loads the whole configuration,      *)
(* saves it edited, and saves the loaded one when its event fails.         *)
EditConfig ==
  [X_Load  |-> Step("load", "none", "X_Save", "raised"),
   X_Save  |-> Step("cfg", "seen", "X_Event", "refused"),
   X_Event |-> Step("event", "none", "done", "X_Back"),
   X_Back  |-> Step("cfg", "seen", "refused", "refused")]

(* settings_view.update_automation_view in mode live_auto: enables live    *)
(* trading in the configuration, then saves the settings like the above.   *)
UpdateAutomation == [A_Save |-> Step("cfg", "on", "X_Load", "X_Load")]

(* watchdog.run_watchdog_once, once it found the heartbeat stale; both     *)
(* writes swallow their failures.                                          *)
RunWatchdogOnce ==
  [W_Guard |-> Step("guard", "HALTING", "W_Kill", "W_Kill"),
   W_Kill  |-> LET n == IF AutoStop THEN "D_Save" ELSE "done"
               IN Step("kill", "armed", n, n)]

Steps ==
  DOMAIN DisableLiveNow \cup DOMAIN ResumeIfSafe \cup DOMAIN EnableLive
    \cup DOMAIN WizardEnable \cup DOMAIN WizardDisable \cup DOMAIN IssueToken
    \cup DOMAIN RequestHalt \cup DOMAIN PromoteHalted \cup DOMAIN KillSwitchCli
    \cup DOMAIN EditConfig \cup DOMAIN UpdateAutomation \cup DOMAIN RunWatchdogOnce

(* All the tables as one. *)
Program ==
  [l \in Steps |->
     CASE l \in DOMAIN DisableLiveNow -> DisableLiveNow[l]
       [] l \in DOMAIN ResumeIfSafe -> ResumeIfSafe[l]
       [] l \in DOMAIN EnableLive -> EnableLive[l]
       [] l \in DOMAIN WizardEnable -> WizardEnable[l]
       [] l \in DOMAIN WizardDisable -> WizardDisable[l]
       [] l \in DOMAIN IssueToken -> IssueToken[l]
       [] l \in DOMAIN RequestHalt -> RequestHalt[l]
       [] l \in DOMAIN PromoteHalted -> PromoteHalted[l]
       [] l \in DOMAIN KillSwitchCli -> KillSwitchCli[l]
       [] l \in DOMAIN EditConfig -> EditConfig[l]
       [] l \in DOMAIN UpdateAutomation -> UpdateAutomation[l]
       [] l \in DOMAIN RunWatchdogOnce -> RunWatchdogOnce[l]]

Entry ==
  [disable |-> "D_Save", resume |-> "R_Config", ceremony |-> "E_Token",
   wizard_on |-> "V_Save", wizard_off |-> "O_Save", issue |-> "I_Token",
   halt |-> "H_Guard", promote |-> "P_Guard", kill_on |-> "K_On",
   kill_off |-> "K_Off", edit |-> "X_Load", automation |-> "A_Save"]

ASSUME OpsAssumption == Ops \subseteq DOMAIN Entry

(* Operations that can turn a switch back on, and those that can only      *)
(* write back what they had loaded.                                        *)
Enabling == {"resume", "ceremony", "wizard_on", "kill_off", "automation"}
WritingBack == {"issue", "edit"}

Rest == {"idle", "stopped", "rolledback", "refused", "raised", "done"}
Labels == Rest \cup Steps

LabelsOf(op) ==
  CASE op = "resume" -> DOMAIN ResumeIfSafe
    [] op = "ceremony" -> DOMAIN EnableLive
    [] op = "wizard_on" -> DOMAIN WizardEnable
    [] op = "kill_off" -> {"K_Off"}
    [] op = "issue" -> {"I_Token"}
    [] op = "edit" -> DOMAIN EditConfig
    [] op = "automation" -> DOMAIN UpdateAutomation

Tokens == {"none", "issued", "consumed", "expired"}
ArmingFile == [token : Tokens, armed : BOOLEAN]
Blank == [token |-> "none", armed |-> FALSE]

TypeOK ==
  /\ guard \in GuardStates
  /\ tmp \in GuardStates \cup {"none"}
  /\ kill \in {"armed", "off", "torn"}
  /\ cfgOn \in BOOLEAN /\ arming \in ArmingFile /\ stale \in BOOLEAN
  /\ pc \in [Actors -> Labels]
  /\ stage \in [Actors -> {0, 1}]
  /\ held \in [Actors -> ArmingFile]
  /\ seen \in [Actors -> BOOLEAN] /\ saved \in [Actors -> BOOLEAN]
  /\ calm \in [Actors -> BOOLEAN]
  /\ pass \in [Submitters -> {"idle", "gated", "send"}]
  /\ late \in [Submitters -> Nat]
  /\ ops \in 0 .. MaxOps /\ faults \in 0 .. MaxFaults

(* Trading is on: the ceremony was completed and resume has run. *)
Init ==
  /\ guard = "RUNNING" /\ tmp = "none" /\ kill = "off" /\ cfgOn = TRUE
  /\ arming = [token |-> "consumed", armed |-> TRUE]
  /\ stale = FALSE
  /\ pc = [a \in Actors |-> "idle"] /\ stage = [a \in Actors |-> 0]
  /\ held = [a \in Actors |-> Blank]
  /\ seen = [a \in Actors |-> FALSE] /\ saved = [a \in Actors |-> FALSE]
  /\ calm = [a \in Actors |-> FALSE]
  /\ pass = [s \in Submitters |-> "idle"]
  /\ late = [s \in Submitters |-> 0]
  /\ ops = 0 /\ faults = 0

-----------------------------------------------------------------------------
(* What the readers make of the files.                                     *)

(* risk.killswitch._admin_armed over kill_switch.get_state: a file that    *)
(* cannot be read is an armed switch.                                      *)
KillArmed == kill # "off"

GuardHalted == guard \in {"HALTING", "HALTED"}

(* system_guard.get_state(fail_closed=True) in the executor. *)
GuardOpen == guard = "RUNNING"

(* A stop holds: a disable returned, nothing that enables trading ran      *)
(* beside it and nothing but a resume began after it; not even a resume    *)
(* where the configuration save had failed.                                *)
StopHolding(a) == pc[a] = "stopped" /\ calm[a]

-----------------------------------------------------------------------------
(* What an actor holds of a file is forgotten with the step that used it. *)
Goto(a, l) ==
  /\ pc' = [pc EXCEPT ![a] = l]
  /\ stage' = [stage EXCEPT ![a] = 0]
  /\ held' = [held EXCEPT ![a] = Blank]

At(a, f) == pc[a] \notin Rest /\ Program[pc[a]].file = f
Here(a) == Program[pc[a]]

Fault == faults < MaxFaults /\ faults' = faults + 1

Active(b, kinds) == \E op \in kinds : pc[b] \in LabelsOf(op)

(* What an operation that begins does to the calm of the others. *)
CalmAfter(a, op) ==
  [b \in Actors |->
     IF b = a
     THEN \A c \in Actors \ {a} : ~Active(c, Enabling \cup WritingBack)
     ELSE calm[b] /\ \/ op \notin Enabling \cup WritingBack
                     \/ /\ pc[b] = "stopped"
                        /\ op \in {"issue", "edit", "resume"}
                        /\ op = "resume" => saved[b]]

Begin(a, op) ==
  /\ pc[a] \in Rest /\ ops < MaxOps
  /\ op = "promote" => guard = "HALTING"
  /\ Goto(a, Entry[op])
  /\ calm' = CalmAfter(a, op)
  /\ late' = IF op \in Enabling THEN [s \in Submitters |-> 0] ELSE late
  /\ seen' = [seen EXCEPT ![a] = FALSE]
  /\ saved' = [saved EXCEPT ![a] = FALSE]
  /\ ops' = ops + 1
  /\ UNCHANGED <<files, stale, pass, faults>>

(* The watchdog's loop, every 15 seconds. *)
TripOnce ==
  /\ pc[Watchdog] \in Rest /\ stale /\ ~GuardHalted
  /\ Goto(Watchdog, "W_Guard")
  /\ calm' = CalmAfter(Watchdog, "watchdog")
  /\ saved' = [saved EXCEPT ![Watchdog] = FALSE]
  /\ UNCHANGED <<files, stale, seen, submit, bounds>>

Trip ==
  /\ pc[Watchdog] \in Rest /\ stale
  /\ Goto(Watchdog, "W_Guard")
  /\ calm' = CalmAfter(Watchdog, "watchdog")
  /\ saved' = [saved EXCEPT ![Watchdog] = FALSE]
  /\ UNCHANGED <<files, stale, seen, submit, bounds>>

(* config_editor.save_user_yaml: a failed save is rolled back. *)
SaveConfig(a) ==
  /\ At(a, "cfg")
  /\ \/ /\ cfgOn' = CASE Here(a).val = "on" -> TRUE
                      [] Here(a).val = "off" -> FALSE
                      [] OTHER -> seen[a]
        /\ seen' = [seen EXCEPT ![a] = IF Here(a).val = "on" THEN cfgOn ELSE @]
        /\ saved' = [saved EXCEPT ![a] = Here(a).val = "off"]
        /\ Goto(a, Here(a).next)
        /\ UNCHANGED faults
     \/ /\ Fault
        /\ saved' = [saved EXCEPT ![a] = FALSE]
        /\ Goto(a, Here(a).fail)
        /\ UNCHANGED <<cfgOn, seen>>
  /\ UNCHANGED <<guard, tmp, kill, arming, stale, calm, submit, ops>>

LoadConfig(a) ==
  /\ At(a, "load")
  /\ seen' = [seen EXCEPT ![a] = cfgOn]
  /\ Goto(a, Here(a).next)
  /\ UNCHANGED <<files, stale, saved, calm, submit, bounds>>

(* kill_switch.set_armed writes in place: a failure raises with the file   *)
(* as it was or truncated.                                                 *)
SetArmed(a) ==
  /\ At(a, "kill")
  /\ \/ kill' = Here(a).val /\ Goto(a, Here(a).next) /\ UNCHANGED faults
     \/ Fault /\ kill' \in {kill, "torn"} /\ Goto(a, Here(a).fail)
  /\ UNCHANGED <<guard, tmp, cfgOn, arming, stale, seen, saved, calm, submit,
                 ops>>

(* system_guard.set_state: the payload goes to the temp file and the temp  *)
(* file over the guard; the second writer of two finds its temp file gone. *)
SetState(a) ==
  /\ At(a, "guard")
  /\ \/ /\ stage[a] = 0
        /\ tmp' = Here(a).val
        /\ stage' = [stage EXCEPT ![a] = 1]
        /\ UNCHANGED <<guard, pc, held, faults>>
     \/ /\ stage[a] = 0
        /\ Fault
        /\ Goto(a, Here(a).fail)
        /\ UNCHANGED <<guard, tmp>>
     \/ /\ stage[a] = 1
        /\ tmp # "none"
        /\ guard' = tmp /\ tmp' = "none"
        /\ Goto(a, Here(a).next)
        /\ UNCHANGED faults
     \/ /\ stage[a] = 1
        /\ tmp = "none"
        /\ Goto(a, Here(a).fail)
        /\ UNCHANGED <<guard, tmp, faults>>
  /\ UNCHANGED <<kill, cfgOn, arming, stale, seen, saved, calm, submit, ops>>

Rewritten(file, v) ==
  CASE v = "armed" -> [file EXCEPT !.armed = TRUE]
    [] v = "disarmed" -> [file EXCEPT !.armed = FALSE]
    [] v = "consume" -> [file EXCEPT !.token = "consumed"]
    [] v = "issue" -> [file EXCEPT !.token = "issued"]

(* live_arming: load the file, change one of its two records, save it.     *)
(* verify_and_consume refuses a token that is absent, used or expired.     *)
RewriteArming(a) ==
  /\ At(a, "arm")
  /\ \/ /\ stage[a] = 0
        /\ Here(a).val = "consume" => arming.token = "issued"
        /\ held' = [held EXCEPT ![a] = arming]
        /\ stage' = [stage EXCEPT ![a] = 1]
        /\ UNCHANGED <<arming, pc, faults>>
     \/ /\ stage[a] = 0
        /\ Here(a).val = "consume" /\ arming.token # "issued"
        /\ Goto(a, Here(a).fail)
        /\ UNCHANGED <<arming, faults>>
     \/ /\ stage[a] = 1
        /\ arming' = Rewritten(held[a], Here(a).val)
        /\ Goto(a, Here(a).next)
        /\ UNCHANGED faults
     \/ /\ stage[a] = 1
        /\ Fault
        /\ Goto(a, Here(a).fail)
        /\ UNCHANGED arming
  /\ UNCHANGED <<guard, tmp, kill, cfgOn, stale, seen, saved, calm, submit,
                 ops>>

(* The operator audit event, on the far side of which an enable is kept. *)
RecordEvent(a) ==
  /\ At(a, "event")
  /\ \/ Goto(a, Here(a).next) /\ UNCHANGED faults
     \/ Fault /\ Goto(a, Here(a).fail)
  /\ UNCHANGED <<files, stale, seen, saved, calm, submit, ops>>

(* A resume that trusts the operator. *)
PassesUnchecked(check) ==
  CASE check = "config_ok" -> TRUE
    [] check = "guard_ok" -> guard # "HALTING"
    [] check = "live_ok" -> TRUE

(* The checks of resume_if_safe and live_guard.live_allowed: enabled       *)
(* configuration and ceremony provenance; guard not HALTING, an armed kill *)
(* switch and a HALTED guard being allowed; configuration again.           *)
Passes(check) ==
  CASE check = "config_ok" -> cfgOn /\ arming.token = "consumed"
    [] check = "guard_ok" -> guard # "HALTING"
    [] check = "live_ok" -> cfgOn

Check(a) ==
  /\ \/ At(a, "config_ok")
     \/ At(a, "guard_ok")
     \/ At(a, "live_ok")
  /\ Goto(a, IF Passes(Here(a).file) THEN Here(a).next ELSE Here(a).fail)
  /\ UNCHANGED <<files, stale, seen, saved, calm, submit, bounds>>

(* A process dies between two steps: what it wrote stays. *)
Crash(a) ==
  /\ pc[a] \notin Rest
  /\ Fault
  /\ Goto(a, "idle")
  /\ calm' = [calm EXCEPT ![a] = FALSE]
  /\ UNCHANGED <<files, stale, seen, saved, submit, ops>>

Work(a) ==
  \/ SaveConfig(a) \/ LoadConfig(a) \/ SetArmed(a) \/ SetState(a)
  \/ RewriteArming(a) \/ RecordEvent(a) \/ Check(a)

(* The heartbeat goes stale and comes back; a token or the resume window   *)
(* of a consumed one runs out.                                             *)
Heartbeat ==
  /\ stale' = ~stale
  /\ UNCHANGED <<files, pc, locals, calm, submit, bounds>>

TokenExpires ==
  /\ arming.token \in {"issued", "consumed"}
  /\ arming' = [arming EXCEPT !.token = "expired"]
  /\ UNCHANGED <<guard, tmp, kill, cfgOn, stale, pc, locals, calm, submit,
                 bounds>>

-----------------------------------------------------------------------------
(* The submitters.  Their processes were started armed by environment.     *)

(* The gate of a cycle: live_enabled for both, and for the executor the    *)
(* system guard.                                                           *)
Gate(s) ==
  /\ pass[s] = "idle" /\ cfgOn
  /\ s \in Executors => GuardOpen
  /\ pass' = [pass EXCEPT ![s] = "gated"]
  /\ UNCHANGED <<files, stale, pc, locals, calm, late, bounds>>

(* place_order._enforce_fail_closed for one intent of the cycle. *)
BoundaryUnkilled(s) ==
  /\ pass[s] = "gated"
  /\ pass' = [pass EXCEPT ![s] = "send"]
  /\ UNCHANGED <<files, stale, pc, locals, calm, late, bounds>>

Boundary(s) ==
  /\ pass[s] = "gated" /\ ~KillArmed
  /\ pass' = [pass EXCEPT ![s] = "send"]
  /\ UNCHANGED <<files, stale, pc, locals, calm, late, bounds>>

(* create_order, after which the cycle goes on to its next intent. *)
Send(s) ==
  /\ pass[s] = "send"
  /\ pass' = [pass EXCEPT ![s] = "gated"]
  /\ late' = [late EXCEPT ![s] = IF \E a \in Actors : StopHolding(a)
                                 THEN @ + 1 ELSE 0]
  /\ UNCHANGED <<files, stale, pc, locals, calm, bounds>>

EndPass(s) ==
  /\ pass[s] = "gated"
  /\ pass' = [pass EXCEPT ![s] = "idle"]
  /\ UNCHANGED <<files, stale, pc, locals, calm, late, bounds>>

-----------------------------------------------------------------------------
Next ==
  \/ \E a \in Procs, op \in Ops : Begin(a, op)
  \/ Trip
  \/ \E a \in Actors : Work(a) \/ Crash(a)
  \/ Heartbeat
  \/ TokenExpires
  \/ \E s \in Submitters : Gate(s) \/ Boundary(s) \/ Send(s) \/ EndPass(s)

Spec == Init /\ [][Next]_vars

(* The watchdog keeps looping and its pass goes on; nobody else need move. *)
FairSpec ==
  /\ Spec
  /\ WF_vars(Trip)
  /\ WF_vars(Work(Watchdog))

-----------------------------------------------------------------------------
(* After disable_live_now has returned with nothing that enables trading   *)
(* running beside it, the kill switch reads armed, the guard is halted and *)
(* the persisted arming is off: no watchdog, halt, promotion, wizard       *)
(* disable, racing second disable, crash or failed write undoes it, and no *)
(* resume either unless something enabled the configuration again.         *)
StopHolds ==
  \A a \in Actors : StopHolding(a) => KillArmed /\ GuardHalted /\ ~arming.armed

(* A submitter that passed the boundary just before the stop may still     *)
(* send that order, and not one more.                                      *)
OneLateOrder == \A s \in Submitters : late[s] <= 1

(* A resume that returned after its rollback, with no other enabling       *)
(* operation beside it, leaves the kill switch armed, whichever of its     *)
(* writes failed.                                                          *)
FailedResumeCloses ==
  \A a \in Actors : pc[a] = "rolledback" /\ calm[a] => KillArmed

(* A heartbeat that stays stale ends with the kill switch armed and the    *)
(* guard halted for good, whatever resumes, switch-offs and failed writes  *)
(* come between (finitely many of them).                                   *)
TripSticks == <>[]stale => <>[](KillArmed /\ GuardHalted)

(* AUTHORITY_MATRIX: with the guard file at HALTED no order is submitted,  *)
(* the check being made before every submit cycle.                         *)
HaltBlocksSubmits ==
  [][\A s \in Submitters : pass[s] = "idle" /\ pass'[s] = "gated" => guard # "HALTED"]_vars
=============================================================================
