------------------------- MODULE HaltControlProofs -------------------------
(***************************************************************************)
(* Theorems about HaltControl for any processes, submitters, operations,   *)
(* failed writes and crashes.                                              *)
(***************************************************************************)
EXTENDS HaltControl, TLAPS

(* The labels of the operations that can turn a switch back on without     *)
(* more ado, of resume, which has checks to pass first, and of those that  *)
(* can write back what they had loaded.                                    *)
OnLabels ==
  {"E_Token", "E_Save", "E_Arm", "E_Event", "E_BackSave", "E_BackArm",
   "V_Save", "V_Arm", "V_Check", "V_Guard", "V_Event", "V_BackSave", "V_BackArm",
   "V_BackGuard", "K_Off", "A_Save"}
ResumeLabels ==
  {"R_Config", "R_Allowed", "R_Live", "R_Arm", "R_Kill", "R_Guard", "R_Event",
   "B_Disarm", "B_Kill", "C_Disarm", "C_Kill", "C_Guard"}
BackLabels == {"I_Token", "X_Load", "X_Save", "X_Event", "X_Back"}
QuietLabels ==
  {"D_Save", "D_Kill", "D_Disarm", "D_Guard", "O_Save", "O_Disarm", "O_Guard",
   "H_Guard", "P_Guard", "K_On", "W_Guard", "W_Kill"}

(* The labels at which an edit of the configuration has a copy of it. *)
CopyLabels == {"X_Save", "X_Event", "X_Back"}

(* Nobody but a resume that must fail stands between a stop and the order  *)
(* paths, and nobody will until an enabling operation begins: the switch   *)
(* is armed, and either no resume is under way, or the configuration is    *)
(* disabled and so is every copy of it that may be written back.           *)
Shut ==
  /\ KillArmed
  /\ \A c \in Actors : pc[c] \notin OnLabels
  /\ \/ \A c \in Actors : pc[c] \notin ResumeLabels
     \/ /\ ~cfgOn
        /\ \A c \in Actors :
             /\ pc[c] \in ResumeLabels => pc[c] = "R_Config"
             /\ pc[c] \in CopyLabels => ~seen[c]

(* While an operation is calm nothing that enables trading, or writes back *)
(* what it had loaded, runs beside it.                                     *)
CalmInv ==
  \A a \in Actors :
    calm[a] /\ pc[a] # "stopped"
      => \A c \in Actors \ {a} : pc[c] \notin OnLabels \cup ResumeLabels \cup BackLabels

(* What disable_live_now has done by each of its steps. *)
DisableInv ==
  \A a \in Actors : calm[a] =>
    /\ pc[a] \in {"D_Kill", "D_Disarm", "D_Guard"} /\ saved[a] => ~cfgOn
    /\ pc[a] \in {"D_Disarm", "D_Guard"} => KillArmed
    /\ pc[a] = "D_Guard" => ~arming.armed
    /\ pc[a] = "D_Guard" /\ stage[a] = 1 => tmp # "RUNNING"

(* What goes with a stop: the files, the temporary one, and the copies     *)
(* that others hold of them.                                               *)
StopInv ==
  \A a \in Actors : StopHolding(a) =>
    /\ KillArmed /\ GuardHalted /\ ~arming.armed /\ tmp # "RUNNING"
    /\ saved[a] => ~cfgOn
    /\ \A c \in Actors :
         /\ pc[c] \notin OnLabels
         /\ pc[c] = "I_Token" /\ stage[c] = 1 => ~held[c].armed
         /\ pc[c] \in ResumeLabels => saved[a] /\ pc[c] = "R_Config"
         /\ saved[a] /\ pc[c] \in CopyLabels => ~seen[c]

(* A rollback that got past the kill switch has armed it. *)
RollbackInv ==
  \A a \in Actors : calm[a] /\ pc[a] \in {"C_Guard", "rolledback"} => KillArmed

(* An order was sent in spite of a stop only where no second one can be.   *)
LateInv ==
  \A s \in Submitters : late[s] \in {0, 1} /\ (late[s] = 1 => pass[s] # "send" /\ Shut)

-----------------------------------------------------------------------------
(* The programs, label by label.                                           *)

(* The labels of each operation. *)
LEMMA Labelled ==
  /\ DOMAIN DisableLiveNow = {"D_Save", "D_Kill", "D_Disarm", "D_Guard"}
  /\ DOMAIN ResumeIfSafe = ResumeLabels
  /\ DOMAIN EnableLive = {"E_Token", "E_Save", "E_Arm", "E_Event", "E_BackSave", "E_BackArm"}
  /\ DOMAIN WizardEnable = {"V_Save", "V_Arm", "V_Check", "V_Guard", "V_Event", "V_BackSave",
       "V_BackArm", "V_BackGuard"}
  /\ DOMAIN WizardDisable = {"O_Save", "O_Disarm", "O_Guard"}
  /\ DOMAIN IssueToken = {"I_Token"}
  /\ DOMAIN RequestHalt = {"H_Guard"}
  /\ DOMAIN PromoteHalted = {"P_Guard"}
  /\ DOMAIN KillSwitchCli = {"K_On", "K_Off"}
  /\ DOMAIN EditConfig = {"X_Load", "X_Save", "X_Event", "X_Back"}
  /\ DOMAIN UpdateAutomation = {"A_Save"}
  /\ DOMAIN RunWatchdogOnce = {"W_Guard", "W_Kill"}
  BY DEF DisableLiveNow, ResumeIfSafe, EnableLive, WizardEnable, WizardDisable, IssueToken,
     RequestHalt, PromoteHalted, KillSwitchCli, EditConfig, UpdateAutomation, RunWatchdogOnce,
     ResumeLabels

(* Every step of a program is a label of one of the four kinds. *)
LEMMA StepLabels == Steps = OnLabels \cup ResumeLabels \cup BackLabels \cup QuietLabels
  BY Labelled DEF Steps, OnLabels, ResumeLabels, BackLabels, QuietLabels

(* disable_live_now, resume_if_safe and the rest, as Program has them. *)
LEMMA DisableSteps ==
  /\ Program["D_Save"] = Step("cfg", "off", "D_Kill", "D_Kill")
  /\ Program["D_Kill"] = Step("kill", "armed", "D_Disarm", "raised")
  /\ Program["D_Disarm"] = Step("arm", "disarmed", "D_Guard", "raised")
  /\ Program["D_Guard"] = Step("guard", "HALTED", "stopped", "raised")
<1> \A l \in DOMAIN DisableLiveNow : Program[l] = DisableLiveNow[l]
  BY Labelled DEF Program, Steps, ResumeLabels
<1> QED
  BY Labelled DEF DisableLiveNow

(* The program of resume_if_safe, a line per step. *)
LEMMA ResumeSteps ==
  /\ Program["R_Config"] = Step("config_ok", "none", "R_Allowed", "refused")
  /\ Program["R_Allowed"] = Step("guard_ok", "none", "R_Live", "refused")
  /\ Program["R_Live"] = Step("live_ok", "none", "R_Arm", "refused")
  /\ Program["R_Arm"] = Step("arm", "armed", "R_Kill", "refused")
  /\ Program["R_Kill"] = Step("kill", "off", "R_Guard", "B_Disarm")
  /\ Program["R_Guard"] = Step("guard", "RUNNING", "R_Event", "B_Disarm")
  /\ Program["R_Event"] = Step("event", "none", "done", "C_Disarm")
  /\ Program["B_Disarm"] = Step("arm", "disarmed", "B_Kill", "raised")
  /\ Program["B_Kill"] = Step("kill", "armed", "rolledback", "raised")
  /\ Program["C_Disarm"] = Step("arm", "disarmed", "C_Kill", "raised")
  /\ Program["C_Kill"] = Step("kill", "armed", "C_Guard", "raised")
  /\ Program["C_Guard"] = Step("guard", "HALTED", "rolledback", "raised")
<1> \A l \in DOMAIN ResumeIfSafe : Program[l] = ResumeIfSafe[l]
  BY Labelled DEF Program, Steps, ResumeLabels
<1> QED
  BY Labelled DEF ResumeIfSafe, ResumeLabels

(* The program of the enable ceremony. *)
LEMMA CeremonySteps ==
  /\ Program["E_Token"] = Step("arm", "consume", "E_Save", "refused")
  /\ Program["E_Save"] = Step("cfg", "on", "E_Arm", "refused")
  /\ Program["E_Arm"] = Step("arm", "armed", "E_Event", "raised")
  /\ Program["E_Event"] = Step("event", "none", "done", "E_BackSave")
  /\ Program["E_BackSave"] = Step("cfg", "seen", "E_BackArm", "E_BackArm")
  /\ Program["E_BackArm"] = Step("arm", "disarmed", "refused", "raised")
<1> \A l \in DOMAIN EnableLive : Program[l] = EnableLive[l]
  BY Labelled DEF Program, Steps, ResumeLabels
<1> QED
  BY Labelled DEF EnableLive

(* The program of the wizard's enable. *)
LEMMA WizardSteps ==
  /\ Program["V_Save"] = Step("cfg", "on", "V_Arm", "refused")
  /\ Program["V_Arm"] = Step("arm", "armed", "V_Check", "raised")
  /\ Program["V_Check"] = Step("live_ok", "none", "V_Guard", "V_Event")
  /\ Program["V_Guard"] = Step("guard", "RUNNING", "V_Event", "raised")
  /\ Program["V_Event"] = Step("event", "none", "done", "V_BackSave")
  /\ Program["V_BackSave"] = Step("cfg", "seen", "V_BackArm", "V_BackArm")
  /\ Program["V_BackArm"] = Step("arm", "disarmed", "V_BackGuard", "raised")
  /\ Program["V_BackGuard"] = Step("guard", "HALTED", "refused", "raised")
<1> \A l \in DOMAIN WizardEnable : Program[l] = WizardEnable[l]
  BY Labelled DEF Program, Steps, ResumeLabels
<1> QED
  BY Labelled DEF WizardEnable

(* The other programs, among them the kill switch's and the watchdog's. *)
LEMMA OtherSteps ==
  /\ Program["O_Save"] = Step("cfg", "off", "O_Disarm", "O_Disarm")
  /\ Program["O_Disarm"] = Step("arm", "disarmed", "O_Guard", "raised")
  /\ Program["O_Guard"] = Step("guard", "HALTED", "done", "raised")
  /\ Program["I_Token"] = Step("arm", "issue", "done", "raised")
  /\ Program["H_Guard"] = Step("guard", "HALTING", "done", "done")
  /\ Program["P_Guard"] = Step("guard", "HALTED", "done", "raised")
  /\ Program["K_On"] = Step("kill", "armed", "done", "raised")
  /\ Program["K_Off"] = Step("kill", "off", "done", "raised")
  /\ Program["A_Save"] = Step("cfg", "on", "X_Load", "X_Load")
  /\ Program["W_Guard"] = Step("guard", "HALTING", "W_Kill", "W_Kill")
  /\ Program["W_Kill"] \in {Step("kill", "armed", "D_Save", "D_Save"),
                            Step("kill", "armed", "done", "done")}
<1>1. /\ \A l \in DOMAIN WizardDisable : Program[l] = WizardDisable[l]
      /\ \A l \in DOMAIN IssueToken : Program[l] = IssueToken[l]
      /\ \A l \in DOMAIN RequestHalt : Program[l] = RequestHalt[l]
      /\ \A l \in DOMAIN PromoteHalted : Program[l] = PromoteHalted[l]
      /\ \A l \in DOMAIN KillSwitchCli : Program[l] = KillSwitchCli[l]
      /\ \A l \in DOMAIN UpdateAutomation : Program[l] = UpdateAutomation[l]
      /\ \A l \in DOMAIN RunWatchdogOnce : Program[l] = RunWatchdogOnce[l]
  BY Labelled DEF Program, Steps, ResumeLabels
<1> QED
  BY <1>1, Labelled, HaltAssumption DEF WizardDisable, IssueToken, RequestHalt, PromoteHalted, KillSwitchCli,
     UpdateAutomation, RunWatchdogOnce

(* The program of a settings edit, which saves a copy it read earlier. *)
LEMMA EditSteps ==
  /\ Program["X_Load"] = Step("load", "none", "X_Save", "raised")
  /\ Program["X_Save"] = Step("cfg", "seen", "X_Event", "refused")
  /\ Program["X_Event"] = Step("event", "none", "done", "X_Back")
  /\ Program["X_Back"] = Step("cfg", "seen", "refused", "refused")
<1> \A l \in DOMAIN EditConfig : Program[l] = EditConfig[l]
  BY Labelled DEF Program, Steps, ResumeLabels
<1> QED
  BY Labelled DEF EditConfig

(* Where an operation may come from: how a label is reached. *)
LEMMA Flow ==
  ASSUME NEW l \in Steps
  PROVE  LET n == Program[l].next
             e == Program[l].fail
         IN /\ n \in Labels /\ e \in Labels
            /\ {n, e} \cap OnLabels # {} => l \in OnLabels
            /\ {n, e} \cap ResumeLabels # {} => l \in ResumeLabels
            /\ {n, e} \cap BackLabels # {} => l \in BackLabels \cup {"A_Save"}
            /\ n = "X_Save" => l = "X_Load"
            /\ {n, e} \cap CopyLabels # {} => l \in CopyLabels \/ (l = "X_Load" /\ e \notin CopyLabels)
            /\ {n, e} \cap {"R_Config", "I_Token"} = {}
            /\ e \notin {"stopped", "rolledback", "D_Disarm", "D_Guard", "C_Guard"}
            /\ {n, e} \cap {"D_Kill"} # {} => l = "D_Save"
            /\ n = "D_Disarm" => l = "D_Kill"
            /\ n = "D_Guard" => l = "D_Disarm"
            /\ n = "stopped" => l = "D_Guard"
            /\ n = "C_Guard" => l = "C_Kill"
            /\ n = "rolledback" => l \in {"B_Kill", "C_Guard"}
<1> USE DEF Step, Labels, Rest, OnLabels, ResumeLabels, BackLabels, CopyLabels, QuietLabels
<1>1. CASE l \in ResumeLabels
  BY <1>1, ResumeSteps, StepLabels
<1>2. CASE l \in BackLabels
  BY <1>2, EditSteps, OtherSteps, StepLabels
<1>3. CASE l \in QuietLabels
  BY <1>3, DisableSteps, OtherSteps, StepLabels
<1>4. CASE l \in OnLabels
  BY <1>4, CeremonySteps, WizardSteps, OtherSteps, StepLabels
<1> QED
  BY <1>1, <1>2, <1>3, <1>4, StepLabels

(* What a step writes. *)
LEMMA Writes ==
  ASSUME NEW l \in Steps
  PROVE  LET f == Program[l].file
             v == Program[l].val
         IN /\ f = "kill" => v \in {"armed", "off"}
            /\ f = "kill" /\ v = "off" => l \in OnLabels \/ l = "R_Kill"
            /\ f = "guard" => v \in GuardStates
            /\ f = "guard" /\ v = "RUNNING" => l \in OnLabels \/ l = "R_Guard"
            /\ f = "arm" => v \in {"armed", "disarmed", "consume", "issue"}
            /\ f = "arm" /\ v # "disarmed" => l \in OnLabels \/ l \in {"R_Arm", "I_Token"}
            /\ f = "cfg" => v \in {"on", "off", "seen"}
            /\ f = "cfg" /\ v = "on" => l \in OnLabels
            /\ f = "cfg" /\ v = "seen" => l \in OnLabels \cup CopyLabels
            /\ l \in ResumeLabels => f # "cfg"
            /\ f = "load" <=> l = "X_Load"
<1> USE DEF Step, GuardStates, OnLabels, ResumeLabels, BackLabels, CopyLabels, QuietLabels
<1>1. CASE l \in ResumeLabels
  BY <1>1, ResumeSteps, StepLabels
<1>2. CASE l \in BackLabels
  BY <1>2, EditSteps, OtherSteps, StepLabels
<1>3. CASE l \in QuietLabels
  BY <1>3, DisableSteps, OtherSteps, StepLabels
<1>4. CASE l \in OnLabels
  BY <1>4, CeremonySteps, WizardSteps, OtherSteps, StepLabels
<1> QED
  BY <1>1, <1>2, <1>3, <1>4, StepLabels

-----------------------------------------------------------------------------
(* Types.                                                                  *)

USE DEF files, locals, bounds, submit

(* An actor at a step of a kind is at a label of a program. *)
LEMMA AtStep ==
  ASSUME TypeOK, NEW a \in Actors, NEW f, At(a, f)
  PROVE  pc[a] \in Steps /\ Here(a).file = f /\ Here(a) = Program[pc[a]]
  BY DEF TypeOK, At, Here, Labels

(* An operation starts at a step that holds no copy of the settings. *)
LEMMA Entered ==
  ASSUME NEW op \in Ops
  PROVE  /\ Entry[op] \in Steps
         /\ Entry[op] \notin CopyLabels
         /\ Entry[op] \notin {"D_Kill", "D_Disarm", "D_Guard", "C_Guard"}
         /\ Entry[op] \in OnLabels => op \in Enabling \ {"resume"}
         /\ Entry[op] \in ResumeLabels => op = "resume" /\ Entry[op] = "R_Config"
         /\ Entry[op] \in BackLabels => op \in WritingBack
  BY OpsAssumption, StepLabels DEF Entry, OnLabels, ResumeLabels, BackLabels, CopyLabels,
     QuietLabels, Enabling, WritingBack

(* Moving an actor keeps the types of its locals. *)
LEMMA GotoType ==
  ASSUME TypeOK, NEW a \in Actors, NEW l \in Labels, Goto(a, l)
  PROVE  /\ pc' \in [Actors -> Labels] /\ stage' \in [Actors -> {0, 1}]
         /\ held' \in [Actors -> ArmingFile]
  BY DEF TypeOK, Goto, Blank, ArmingFile, Tokens

(* Starting an operation keeps the type of the calm flags. *)
LEMMA CalmType ==
  ASSUME TypeOK, NEW a, NEW op
  PROVE  CalmAfter(a, op) \in [Actors -> BOOLEAN]
  BY Zenon DEF TypeOK, CalmAfter

(* Every step of an operation keeps the types. *)
LEMMA TypeWork ==
  ASSUME TypeOK, NEW a \in Actors, Work(a)
  PROVE  TypeOK'
<1>1. CASE SaveConfig(a)
  <2>1. pc[a] \in Steps
    BY <1>1, AtStep DEF SaveConfig
  <2>2. Here(a).next \in Labels /\ Here(a).fail \in Labels
    BY <2>1, Flow DEF Here
  <2>3. seen' \in [Actors -> BOOLEAN] /\ saved' \in [Actors -> BOOLEAN] /\ cfgOn' \in BOOLEAN
    BY <1>1 DEF SaveConfig, TypeOK
  <2>4. /\ pc' \in [Actors -> Labels] /\ stage' \in [Actors -> {0, 1}]
        /\ held' \in [Actors -> ArmingFile]
    BY <1>1, <2>2, GotoType DEF SaveConfig
  <2>5. faults' \in 0 .. MaxFaults
    <3>1. faults' = faults \/ Fault
      BY <1>1, Zenon DEF SaveConfig
    <3> QED
      BY <3>1, HaltAssumption DEF Fault, TypeOK
  <2>6. UNCHANGED <<guard, tmp, kill, arming, stale, calm, submit, ops>>
    BY <1>1 DEF SaveConfig
  <2> QED
    BY <2>3, <2>4, <2>5, <2>6 DEF TypeOK
<1>2. CASE LoadConfig(a)
  <2>1. pc[a] \in Steps
    BY <1>2, AtStep DEF LoadConfig
  <2>2. Here(a).next \in Labels
    BY <2>1, Flow DEF Here
  <2> QED
    BY <1>2, <2>2, GotoType DEF LoadConfig, TypeOK
<1>3. CASE SetArmed(a)
  <2>1. pc[a] \in Steps /\ Here(a).file = "kill" /\ Here(a) = Program[pc[a]]
    BY <1>3, AtStep DEF SetArmed
  <2>2. Here(a).next \in Labels /\ Here(a).fail \in Labels /\ Here(a).val \in {"armed", "off"}
    BY <2>1, Flow, Writes
  <2>3. /\ pc' \in [Actors -> Labels] /\ stage' \in [Actors -> {0, 1}]
        /\ held' \in [Actors -> ArmingFile]
    BY <1>3, <2>2, GotoType DEF SetArmed
  <2> QED
    BY <1>3, <2>2, <2>3, HaltAssumption DEF SetArmed, Fault, TypeOK
<1>4. CASE SetState(a)
  <2>1. pc[a] \in Steps /\ Here(a).file = "guard" /\ Here(a) = Program[pc[a]]
    BY <1>4, AtStep DEF SetState
  <2>2. Here(a).next \in Labels /\ Here(a).fail \in Labels /\ Here(a).val \in GuardStates
    BY <2>1, Flow, Writes
  <2>3. /\ pc' \in [Actors -> Labels] /\ stage' \in [Actors -> {0, 1}]
        /\ held' \in [Actors -> ArmingFile]
    BY <1>4, <2>2, GotoType DEF SetState, TypeOK
  <2> QED
    BY <1>4, <2>2, <2>3, HaltAssumption DEF SetState, Fault, TypeOK
<1>5. CASE RewriteArming(a)
  <2>1. pc[a] \in Steps /\ Here(a).file = "arm" /\ Here(a) = Program[pc[a]]
    BY <1>5, AtStep DEF RewriteArming
  <2>2. Here(a).next \in Labels /\ Here(a).fail \in Labels
        /\ Here(a).val \in {"armed", "disarmed", "consume", "issue"}
    BY <2>1, Flow, Writes
  <2>3. /\ pc' \in [Actors -> Labels] /\ stage' \in [Actors -> {0, 1}]
        /\ held' \in [Actors -> ArmingFile]
    BY <1>5, <2>2, GotoType DEF RewriteArming, TypeOK
  <2>4. arming' \in ArmingFile
    <3>1. \A file \in ArmingFile : Rewritten(file, Here(a).val) \in ArmingFile
      BY <2>2 DEF Rewritten, ArmingFile, Tokens
    <3> QED
      BY <1>5, <3>1 DEF RewriteArming, TypeOK
  <2> QED
    BY <1>5, <2>3, <2>4, HaltAssumption DEF RewriteArming, Fault, TypeOK
<1>6. CASE RecordEvent(a) \/ Check(a)
  <2>1. pc[a] \in Steps
    BY <1>6, AtStep DEF RecordEvent, Check
  <2>2. Here(a).next \in Labels /\ Here(a).fail \in Labels
    BY <2>1, Flow DEF Here
  <2>3. /\ pc' \in [Actors -> Labels] /\ stage' \in [Actors -> {0, 1}]
        /\ held' \in [Actors -> ArmingFile]
    BY <1>6, <2>2, GotoType DEF RecordEvent, Check
  <2> QED
    BY <1>6, <2>3, HaltAssumption DEF RecordEvent, Check, Fault, TypeOK
<1> QED
  BY <1>1, <1>2, <1>3, <1>4, <1>5, <1>6 DEF Work

(* So do the beginnings, the crashes, and what is around the operations. *)
LEMMA TypeOther ==
  ASSUME TypeOK,
         \/ \E a \in Procs, op \in Ops : Begin(a, op)
         \/ Trip \/ Heartbeat \/ TokenExpires
         \/ \E a \in Actors : Crash(a)
         \/ \E s \in Submitters : Gate(s) \/ Boundary(s) \/ Send(s) \/ EndPass(s)
  PROVE  TypeOK'
<1>1. ASSUME NEW a \in Procs, NEW op \in Ops, Begin(a, op)
      PROVE  TypeOK'
  <2>1. a \in Actors /\ Entry[op] \in Labels
    BY Entered DEF Actors, Labels
  <2>2. /\ pc' \in [Actors -> Labels] /\ stage' \in [Actors -> {0, 1}]
        /\ held' \in [Actors -> ArmingFile]
    BY <1>1, <2>1, GotoType DEF Begin
  <2>3. calm' \in [Actors -> BOOLEAN]
    BY <1>1, CalmType DEF Begin
  <2>4. seen' \in [Actors -> BOOLEAN] /\ saved' \in [Actors -> BOOLEAN]
    BY <1>1 DEF Begin, TypeOK
  <2>5. late' \in [Submitters -> Nat] /\ ops' \in 0 .. MaxOps
    BY <1>1, HaltAssumption DEF Begin, TypeOK
  <2>6. UNCHANGED <<files, stale, pass, faults>>
    BY <1>1 DEF Begin
  <2> QED
    BY <2>2, <2>3, <2>4, <2>5, <2>6 DEF TypeOK
<1>2. CASE Trip
  <2>1. Watchdog \in Actors /\ "W_Guard" \in Labels
    BY StepLabels DEF Actors, Labels, QuietLabels
  <2>2. /\ pc' \in [Actors -> Labels] /\ stage' \in [Actors -> {0, 1}]
        /\ held' \in [Actors -> ArmingFile]
    BY <1>2, <2>1, GotoType DEF Trip
  <2>3. calm' \in [Actors -> BOOLEAN]
    BY <1>2, CalmType DEF Trip
  <2> QED
    BY <1>2, <2>1, <2>2, <2>3 DEF Trip, TypeOK
<1>3. ASSUME NEW a \in Actors, Crash(a)
      PROVE  TypeOK'
  <2>1. "idle" \in Labels
    BY DEF Labels, Rest
  <2>2. /\ pc' \in [Actors -> Labels] /\ stage' \in [Actors -> {0, 1}]
        /\ held' \in [Actors -> ArmingFile]
    BY <1>3, <2>1, GotoType DEF Crash
  <2>3. calm' \in [Actors -> BOOLEAN]
    BY <1>3 DEF Crash, TypeOK
  <2>4. faults' \in 0 .. MaxFaults
    BY <1>3, HaltAssumption DEF Crash, Fault, TypeOK
  <2>5. UNCHANGED <<files, stale, seen, saved, submit, ops>>
    BY <1>3 DEF Crash
  <2> QED
    BY <2>2, <2>3, <2>4, <2>5 DEF TypeOK
<1>4. CASE Heartbeat
  BY <1>4 DEF Heartbeat, TypeOK
<1>5. CASE TokenExpires
  BY <1>5 DEF TokenExpires, TypeOK, ArmingFile, Tokens
<1>6. ASSUME NEW s \in Submitters, Gate(s) \/ Boundary(s) \/ Send(s) \/ EndPass(s)
      PROVE  TypeOK'
  BY <1>6 DEF Gate, Boundary, Send, EndPass, TypeOK, GuardStates
<1> QED
  BY <1>1, <1>2, <1>3, <1>4, <1>5, <1>6

(* The files have only contents their writers give them, and every actor   *)
(* is at rest or at a step of its program, in any run of the operations.   *)
THEOREM TypeCorrect == Spec => []TypeOK
<1>1. Init => TypeOK
  <2> SUFFICES ASSUME Init PROVE TypeOK
    OBVIOUS
  <2>1. "idle" \in Labels /\ Blank \in ArmingFile /\ [token |-> "consumed", armed |-> TRUE] \in ArmingFile
    BY DEF Labels, Rest, Blank, ArmingFile, Tokens
  <2>2. seen \in [Actors -> BOOLEAN] /\ saved \in [Actors -> BOOLEAN] /\ calm \in [Actors -> BOOLEAN]
    BY DEF Init
  <2>3. /\ guard \in GuardStates /\ tmp \in GuardStates \cup {"none"} /\ kill \in {"armed", "off", "torn"}
        /\ ops \in 0 .. MaxOps /\ faults \in 0 .. MaxFaults
    BY HaltAssumption DEF Init, GuardStates
  <2>4. cfgOn \in BOOLEAN /\ stale \in BOOLEAN
    BY DEF Init
  <2> QED
    BY <2>1, <2>2, <2>3, <2>4 DEF Init, TypeOK, GuardStates
<1>2. TypeOK /\ [Next]_vars => TypeOK'
  <2>1. CASE UNCHANGED vars
    BY <2>1 DEF vars, TypeOK
  <2> QED
    BY <2>1, TypeWork, TypeOther DEF Next
<1> QED
  BY <1>1, <1>2, PTL DEF Spec

-----------------------------------------------------------------------------
(* What one step of an operation may do.                                   *)

(* To the others, nothing. *)
Alone(a) ==
  \A c \in Actors \ {a} :
    /\ pc'[c] = pc[c] /\ stage'[c] = stage[c] /\ held'[c] = held[c]
    /\ seen'[c] = seen[c] /\ saved'[c] = saved[c]

(* To the files: what only an enabling operation or a copy of the file as  *)
(* it was could undo.                                                      *)
FileMove(a) ==
  /\ KillArmed => KillArmed' \/ pc[a] \in OnLabels \cup {"R_Kill"}
  /\ cfgOn' => cfgOn \/ pc[a] \in OnLabels \/ (pc[a] \in CopyLabels /\ seen[a])
  /\ arming'.armed => \/ arming.armed
                      \/ pc[a] \in OnLabels \cup {"R_Arm"}
                      \/ pc[a] = "I_Token" /\ stage[a] = 1 /\ held[a].armed
  /\ tmp' = "RUNNING" => tmp = "RUNNING" \/ pc[a] \in OnLabels \cup {"R_Guard"}
  /\ guard' = guard \/ (guard' = tmp /\ tmp # "none")

(* To its copies. *)
CopyMove(a) ==
  /\ pc'[a] \in CopyLabels /\ seen'[a]
       => (pc[a] \in CopyLabels /\ seen[a]) \/ (pc[a] = "X_Load" /\ cfgOn)
  /\ pc'[a] = "I_Token" /\ stage'[a] = 1 /\ held'[a].armed
       => pc[a] = "I_Token" /\ (arming.armed \/ (stage[a] = 1 /\ held[a].armed))

(* To its place in the program. *)
PlaceMove(a) ==
  /\ pc'[a] \in OnLabels => pc[a] \in OnLabels
  /\ pc'[a] \in ResumeLabels => pc[a] \in ResumeLabels /\ pc'[a] # "R_Config"
  /\ pc'[a] \in BackLabels => pc[a] \in BackLabels \cup {"A_Save"}
  /\ pc[a] = "R_Config" /\ ~cfgOn => pc'[a] = "refused"

(* Along disable_live_now, and along the rollbacks of resume_if_safe. *)
StopMove(a) ==
  /\ pc'[a] = "D_Kill" /\ saved'[a] => ~cfgOn'
  /\ pc'[a] \in {"D_Disarm", "D_Guard", "stopped"} => saved'[a] = saved[a]
  /\ pc'[a] = "D_Disarm" => pc[a] = "D_Disarm" \/ (pc[a] = "D_Kill" /\ KillArmed')
  /\ pc'[a] = "D_Guard" => \/ pc[a] = "D_Guard"
                           \/ pc[a] = "D_Disarm" /\ ~arming'.armed /\ stage'[a] = 0
  /\ pc'[a] = "D_Guard" /\ stage'[a] = 1 => tmp' # "RUNNING"
  /\ pc'[a] = "stopped" => /\ pc[a] = "D_Guard" /\ stage[a] = 1
                           /\ guard' = tmp /\ tmp # "none" /\ tmp' = "none"
                           /\ UNCHANGED <<kill, cfgOn, arming>>
  /\ pc'[a] = "C_Guard" => pc[a] = "C_Guard" \/ KillArmed'
  /\ pc'[a] = "rolledback" => (pc[a] = "C_Guard" /\ UNCHANGED kill) \/ KillArmed'

WorkMove(a) ==
  /\ pc[a] \in Steps
  /\ Alone(a) /\ FileMove(a) /\ CopyMove(a) /\ PlaceMove(a) /\ StopMove(a)
  /\ UNCHANGED <<calm, submit>>

(* Where a step leads. *)
LEMMA Leads ==
  ASSUME TypeOK, NEW a \in Actors, Work(a)
  PROVE  /\ pc[a] \in Steps
         /\ \/ pc'[a] = pc[a] /\ pc[a] # "R_Config"
            \/ pc'[a] = Program[pc[a]].next
            \/ pc'[a] = Program[pc[a]].fail
         /\ Alone(a) /\ UNCHANGED <<calm, submit>>
<1>0. pc[a] = "R_Config" => Program[pc[a]].file = "config_ok"
  BY ResumeSteps DEF Step
<1>1. CASE SaveConfig(a)
  <2>1. pc[a] \in Steps /\ Here(a) = Program[pc[a]]
    BY <1>1, AtStep DEF SaveConfig
  <2>2. Alone(a)
    BY <1>1 DEF SaveConfig, Goto, Alone, TypeOK
  <2>3. UNCHANGED <<calm, submit>>
    BY <1>1 DEF SaveConfig
  <2>4. pc'[a] \in {Here(a).next, Here(a).fail}
    BY <1>1 DEF SaveConfig, Goto, TypeOK
  <2> QED
    BY <1>0, <2>1, <2>2, <2>3, <2>4
<1>2. CASE LoadConfig(a)
  <2>1. pc[a] \in Steps /\ Here(a) = Program[pc[a]]
    BY <1>2, AtStep DEF LoadConfig
  <2>2. Alone(a)
    BY <1>2 DEF LoadConfig, Goto, Alone, TypeOK
  <2>3. UNCHANGED <<calm, submit>>
    BY <1>2 DEF LoadConfig
  <2>4. pc'[a] \in {Here(a).next, Here(a).fail}
    BY <1>2 DEF LoadConfig, Goto, TypeOK
  <2> QED
    BY <1>0, <2>1, <2>2, <2>3, <2>4
<1>3. CASE SetArmed(a)
  <2>1. pc[a] \in Steps /\ Here(a) = Program[pc[a]]
    BY <1>3, AtStep DEF SetArmed
  <2>2. Alone(a)
    BY <1>3 DEF SetArmed, Goto, Alone, TypeOK
  <2>3. UNCHANGED <<calm, submit>>
    BY <1>3 DEF SetArmed
  <2>4. pc'[a] \in {Here(a).next, Here(a).fail}
    BY <1>3 DEF SetArmed, Goto, TypeOK
  <2> QED
    BY <1>0, <2>1, <2>2, <2>3, <2>4
<1>4. CASE SetState(a)
  <2>1. pc[a] \in Steps /\ Here(a) = Program[pc[a]] /\ Here(a).file = "guard"
    BY <1>4, AtStep DEF SetState
  <2>2. Alone(a)
    BY <1>4 DEF SetState, Goto, Alone, TypeOK
  <2>3. UNCHANGED <<calm, submit>>
    BY <1>4 DEF SetState
  <2>4. pc'[a] \in {Here(a).next, Here(a).fail} \/ pc'[a] = pc[a]
    BY <1>4 DEF SetState, Goto, TypeOK
  <2> QED
    BY <1>0, <2>1, <2>2, <2>3, <2>4
<1>5. CASE RewriteArming(a)
  <2>1. pc[a] \in Steps /\ Here(a) = Program[pc[a]] /\ Here(a).file = "arm"
    BY <1>5, AtStep DEF RewriteArming
  <2>2. Alone(a)
    BY <1>5 DEF RewriteArming, Goto, Alone, TypeOK
  <2>3. UNCHANGED <<calm, submit>>
    BY <1>5 DEF RewriteArming
  <2>4. pc'[a] \in {Here(a).next, Here(a).fail} \/ pc'[a] = pc[a]
    BY <1>5 DEF RewriteArming, Goto, TypeOK
  <2> QED
    BY <1>0, <2>1, <2>2, <2>3, <2>4
<1>6. CASE RecordEvent(a)
  <2>1. pc[a] \in Steps /\ Here(a) = Program[pc[a]]
    BY <1>6, AtStep DEF RecordEvent
  <2>2. Alone(a)
    BY <1>6 DEF RecordEvent, Goto, Alone, TypeOK
  <2>3. UNCHANGED <<calm, submit>>
    BY <1>6 DEF RecordEvent
  <2>4. pc'[a] \in {Here(a).next, Here(a).fail}
    BY <1>6 DEF RecordEvent, Goto, TypeOK
  <2> QED
    BY <1>0, <2>1, <2>2, <2>3, <2>4
<1>7. CASE Check(a)
  <2>1. pc[a] \in Steps /\ Here(a) = Program[pc[a]]
    BY <1>7, AtStep DEF Check
  <2>2. Alone(a)
    BY <1>7 DEF Check, Goto, Alone, TypeOK
  <2>3. UNCHANGED <<calm, submit>>
    BY <1>7 DEF Check
  <2>4. pc'[a] \in {Here(a).next, Here(a).fail}
    BY <1>7 DEF Check, Goto, TypeOK
  <2> QED
    BY <1>0, <2>1, <2>2, <2>3, <2>4
<1> QED
  BY <1>1, <1>2, <1>3, <1>4, <1>5, <1>6, <1>7 DEF Work

(* Where a step of an operation can lead. *)
LEMMA Places ==
  ASSUME TypeOK, NEW a \in Actors, Work(a)
  PROVE  PlaceMove(a)
<1>1. /\ pc[a] \in Steps
      /\ \/ pc'[a] = pc[a] /\ pc[a] # "R_Config"
         \/ pc'[a] = Program[pc[a]].next
         \/ pc'[a] = Program[pc[a]].fail
  BY Leads
<1>2. /\ pc'[a] \in OnLabels => pc[a] \in OnLabels
      /\ pc'[a] \in ResumeLabels => pc[a] \in ResumeLabels /\ pc'[a] # "R_Config"
      /\ pc'[a] \in BackLabels => pc[a] \in BackLabels \cup {"A_Save"}
  BY <1>1, Flow
<1>3. ASSUME pc[a] = "R_Config", ~cfgOn
      PROVE  pc'[a] = "refused"
  <2>1. Program[pc[a]] = Step("config_ok", "none", "R_Allowed", "refused")
    BY <1>3, ResumeSteps
  <2>2. Check(a)
    BY <2>1 DEF Work, SaveConfig, LoadConfig, SetArmed, SetState, RewriteArming, RecordEvent, At, Step
  <2> QED
    BY <1>3, <2>1, <2>2 DEF Check, Passes, Here, Goto, Step, TypeOK
<1> QED
  BY <1>2, <1>3 DEF PlaceMove

(* What a step of an operation can write to the files. *)
LEMMA Files ==
  ASSUME TypeOK, NEW a \in Actors, Work(a)
  PROVE  FileMove(a)
<1> USE DEF FileMove, KillArmed
<1>1. CASE SaveConfig(a)
  <2>1. pc[a] \in Steps /\ Here(a) = Program[pc[a]] /\ Here(a).file = "cfg"
    BY <1>1, AtStep DEF SaveConfig
  <2>2. /\ Here(a).val \in {"on", "off", "seen"}
        /\ Here(a).val = "on" => pc[a] \in OnLabels
        /\ Here(a).val = "seen" => pc[a] \in OnLabels \cup CopyLabels
    BY <2>1, Writes
  <2>3. UNCHANGED <<guard, tmp, kill, arming>>
    BY <1>1 DEF SaveConfig
  <2>4. cfgOn' => cfgOn \/ Here(a).val = "on" \/ (Here(a).val = "seen" /\ seen[a])
    BY <1>1, <2>2 DEF SaveConfig
  <2> QED
    BY <2>2, <2>3, <2>4
<1>2. CASE SetArmed(a)
  <2>1. pc[a] \in Steps /\ Here(a) = Program[pc[a]] /\ Here(a).file = "kill"
    BY <1>2, AtStep DEF SetArmed
  <2>2. Here(a).val = "off" => pc[a] \in OnLabels \/ pc[a] = "R_Kill"
    BY <2>1, Writes
  <2>3. UNCHANGED <<guard, tmp, cfgOn, arming>>
    BY <1>2 DEF SetArmed
  <2>4. kill' = "off" => kill = "off" \/ Here(a).val = "off"
    BY <1>2 DEF SetArmed
  <2> QED
    BY <2>2, <2>3, <2>4
<1>3. CASE SetState(a)
  <2>1. pc[a] \in Steps /\ Here(a) = Program[pc[a]] /\ Here(a).file = "guard"
    BY <1>3, AtStep DEF SetState
  <2>2. Here(a).val = "RUNNING" => pc[a] \in OnLabels \/ pc[a] = "R_Guard"
    BY <2>1, Writes
  <2>3. UNCHANGED <<kill, cfgOn, arming>>
    BY <1>3 DEF SetState
  <2>4. /\ tmp' = "RUNNING" => tmp = "RUNNING" \/ Here(a).val = "RUNNING"
        /\ guard' = guard \/ (guard' = tmp /\ tmp # "none")
    BY <1>3 DEF SetState
  <2> QED
    BY <2>2, <2>3, <2>4
<1>4. CASE RewriteArming(a)
  <2>1. pc[a] \in Steps /\ Here(a) = Program[pc[a]] /\ Here(a).file = "arm"
    BY <1>4, AtStep DEF RewriteArming
  <2>2. /\ Here(a).val \in {"armed", "disarmed", "consume", "issue"}
        /\ Here(a).val # "disarmed" => pc[a] \in OnLabels \/ pc[a] \in {"R_Arm", "I_Token"}
    BY <2>1, Writes
  <2>3. UNCHANGED <<guard, tmp, kill, cfgOn>>
    BY <1>4 DEF RewriteArming
  <2>4. /\ pc[a] = "I_Token" => Here(a).val = "issue"
        /\ "I_Token" \notin OnLabels
    BY <2>1, OtherSteps DEF Step, OnLabels
  <2>5. held[a] \in ArmingFile
    BY DEF TypeOK
  <2>6. ASSUME arming' # arming
        PROVE  /\ stage[a] = 1
               /\ Here(a).val = "disarmed" => ~arming'.armed
               /\ Here(a).val = "issue" => arming'.armed = held[a].armed
    BY <1>4, <2>2, <2>5, <2>6 DEF RewriteArming, Rewritten, ArmingFile
  <2>7. CASE arming' = arming
    BY <2>3, <2>7
  <2>8. CASE arming' # arming
    BY <2>2, <2>3, <2>4, <2>6, <2>8
  <2> QED
    BY <2>7, <2>8
<1>5. CASE LoadConfig(a) \/ RecordEvent(a) \/ Check(a)
  BY <1>5 DEF LoadConfig, RecordEvent, Check
<1> QED
  BY <1>1, <1>2, <1>3, <1>4, <1>5 DEF Work

(* When a step of an operation can hold or write a stale copy. *)
LEMMA Copies ==
  ASSUME TypeOK, NEW a \in Actors, Work(a)
  PROVE  CopyMove(a)
<1>1. /\ pc[a] \in Steps
      /\ \/ pc'[a] = pc[a] /\ pc[a] # "R_Config"
         \/ pc'[a] = Program[pc[a]].next
         \/ pc'[a] = Program[pc[a]].fail
  BY Leads
<1>2. ASSUME pc'[a] \in CopyLabels, seen'[a]
      PROVE  (pc[a] \in CopyLabels /\ seen[a]) \/ (pc[a] = "X_Load" /\ cfgOn)
  <2>1. pc[a] \in CopyLabels \/ pc[a] = "X_Load"
    BY <1>1, <1>2, Flow
  <2>2. Program[pc[a]].val # "on"
    BY <2>1, EditSteps DEF CopyLabels, Step
  <2>3. CASE LoadConfig(a)
    <3>1. Program[pc[a]].file = "load"
      BY <2>3 DEF LoadConfig, At
    <3> QED
      BY <1>1, <1>2, <2>3, <3>1, Writes DEF LoadConfig, TypeOK
  <2>4. CASE ~LoadConfig(a)
    <3>1. seen'[a] = seen[a]
      BY <2>2, <2>4 DEF Work, SaveConfig, SetArmed, SetState, RewriteArming, RecordEvent, Check, Here, TypeOK
    <3>2. Program[pc[a]].file # "load"
      BY <2>4 DEF Work, SaveConfig, SetArmed, SetState, RewriteArming, RecordEvent, Check, At
    <3> QED
      BY <1>1, <1>2, <2>1, <3>1, <3>2, Writes
  <2> QED
    BY <2>3, <2>4
<1>3. ASSUME pc'[a] = "I_Token", stage'[a] = 1, held'[a].armed
      PROVE  pc[a] = "I_Token" /\ (arming.armed \/ (stage[a] = 1 /\ held[a].armed))
  <2>1. pc[a] = "I_Token"
    BY <1>1, <1>3, Flow
  <2>2. Program[pc[a]].file = "arm"
    BY <2>1, OtherSteps DEF Step
  <2>3. RewriteArming(a)
    BY <2>2 DEF Work, SaveConfig, LoadConfig, SetArmed, SetState, RecordEvent, Check, At
  <2> QED
    BY <1>3, <2>1, <2>3 DEF RewriteArming, Goto, TypeOK
<1> QED
  BY <1>2, <1>3 DEF CopyMove

(* Which steps lead to the end of a stop or of a rollback. *)
LEMMA Stops ==
  ASSUME TypeOK, NEW a \in Actors, Work(a)
  PROVE  StopMove(a)
<1> USE DEF KillArmed
<1>1. /\ pc[a] \in Steps
      /\ \/ pc'[a] = pc[a] /\ pc[a] # "R_Config"
         \/ pc'[a] = Program[pc[a]].next
         \/ pc'[a] = Program[pc[a]].fail
  BY Leads
(* The step at a label is the action of its file. *)
<1>2. ASSUME NEW f, Program[pc[a]].file = f
      PROVE  /\ f = "cfg" => SaveConfig(a)
             /\ f = "kill" => SetArmed(a)
             /\ f = "guard" => SetState(a)
             /\ f = "arm" => RewriteArming(a)
  BY <1>2 DEF Work, SaveConfig, LoadConfig, SetArmed, SetState, RewriteArming, RecordEvent, Check, At
<1>3. Program[pc[a]].file \in {"kill", "guard", "arm"} => saved'[a] = saved[a]
  BY <1>2 DEF SetArmed, SetState, RewriteArming
<1>4. ASSUME pc'[a] = "D_Kill", saved'[a]
      PROVE  ~cfgOn'
  <2>1. pc[a] \in {"D_Save", "D_Kill"}
    BY <1>1, <1>4, Flow
  <2>2. pc[a] = "D_Save"
    <3>1. ASSUME pc[a] = "D_Kill" PROVE FALSE
      <4>1. Program[pc[a]] = Step("kill", "armed", "D_Disarm", "raised")
        BY <3>1, DisableSteps
      <4> QED
        BY <1>2, <1>4, <4>1 DEF SetArmed, Goto, Here, Step, TypeOK
    <3> QED
      BY <2>1, <3>1
  <2>3. Program[pc[a]] = Step("cfg", "off", "D_Kill", "D_Kill")
    BY <2>2, DisableSteps
  <2>4. SaveConfig(a)
    BY <1>2, <2>3 DEF Step
  <2> QED
    BY <1>4, <2>3, <2>4 DEF SaveConfig, Here, Step, TypeOK
<1>5. ASSUME pc'[a] = "D_Disarm"
      PROVE  pc[a] \in {"D_Disarm", "D_Kill"} /\ saved'[a] = saved[a] /\ (pc[a] = "D_Kill" => KillArmed')
  <2>1. pc[a] \in {"D_Disarm", "D_Kill"}
    BY <1>1, <1>5, Flow
  <2>2. Program[pc[a]].file \in {"kill", "arm"}
    BY <2>1, DisableSteps DEF Step
  <2>3. ASSUME pc[a] = "D_Kill" PROVE KillArmed'
    <3>1. Program[pc[a]] = Step("kill", "armed", "D_Disarm", "raised")
      BY <2>3, DisableSteps
    <3> QED
      BY <1>2, <1>5, <3>1 DEF SetArmed, Goto, Here, Step, TypeOK
  <2> QED
    BY <1>3, <2>1, <2>2, <2>3
<1>6. ASSUME pc'[a] = "D_Guard"
      PROVE  /\ saved'[a] = saved[a]
             /\ \/ pc[a] = "D_Guard"
                \/ pc[a] = "D_Disarm" /\ ~arming'.armed /\ stage'[a] = 0
             /\ stage'[a] = 1 => tmp' # "RUNNING"
  <2>1. pc[a] \in {"D_Guard", "D_Disarm"}
    BY <1>1, <1>6, Flow
  <2>2. Program[pc[a]].file \in {"guard", "arm"}
    BY <2>1, DisableSteps DEF Step
  <2>3. ASSUME pc[a] = "D_Disarm" PROVE ~arming'.armed /\ stage'[a] = 0
    <3>1. Program[pc[a]] = Step("arm", "disarmed", "D_Guard", "raised")
      BY <2>3, DisableSteps
    <3>2. RewriteArming(a)
      BY <1>2, <3>1 DEF Step
    <3>3. arming' = Rewritten(held[a], "disarmed") /\ stage'[a] = 0
      BY <1>6, <2>3, <3>1, <3>2 DEF RewriteArming, Goto, Here, Step, TypeOK
    <3> QED
      BY <3>3 DEF Rewritten, TypeOK, ArmingFile
  <2>4. ASSUME pc[a] = "D_Guard", stage'[a] = 1 PROVE tmp' # "RUNNING"
    <3>1. Program[pc[a]] = Step("guard", "HALTED", "stopped", "raised")
      BY <2>4, DisableSteps
    <3>2. SetState(a)
      BY <1>2, <3>1 DEF Step
    <3> QED
      BY <2>4, <3>1, <3>2 DEF SetState, Goto, Here, Step, TypeOK
  <2> QED
    BY <1>3, <2>1, <2>2, <2>3, <2>4
<1>7. ASSUME pc'[a] = "stopped"
      PROVE  /\ saved'[a] = saved[a]
             /\ pc[a] = "D_Guard" /\ stage[a] = 1
             /\ guard' = tmp /\ tmp # "none" /\ tmp' = "none"
             /\ UNCHANGED <<kill, cfgOn, arming>>
  <2>1. pc[a] = "D_Guard"
    BY <1>1, <1>7, Flow, StepLabels DEF OnLabels, ResumeLabels, BackLabels, QuietLabels
  <2>2. Program[pc[a]] = Step("guard", "HALTED", "stopped", "raised")
    BY <2>1, DisableSteps
  <2>3. SetState(a)
    BY <1>2, <2>2 DEF Step
  <2> QED
    BY <1>7, <2>1, <2>2, <2>3 DEF SetState, Goto, Here, Step, TypeOK
<1>8. ASSUME pc'[a] = "C_Guard"
      PROVE  pc[a] = "C_Guard" \/ KillArmed'
  <2>1. pc[a] \in {"C_Guard", "C_Kill"}
    BY <1>1, <1>8, Flow
  <2>2. ASSUME pc[a] = "C_Kill" PROVE KillArmed'
    <3>1. Program[pc[a]] = Step("kill", "armed", "C_Guard", "raised")
      BY <2>2, ResumeSteps
    <3> QED
      BY <1>2, <1>8, <3>1 DEF SetArmed, Goto, Here, Step, TypeOK
  <2> QED
    BY <2>1, <2>2
<1>9. ASSUME pc'[a] = "rolledback"
      PROVE  (pc[a] = "C_Guard" /\ UNCHANGED kill) \/ KillArmed'
  <2>1. pc[a] \in {"C_Guard", "B_Kill"}
    BY <1>1, <1>9, Flow, StepLabels DEF OnLabels, ResumeLabels, BackLabels, QuietLabels
  <2>2. ASSUME pc[a] = "B_Kill" PROVE KillArmed'
    <3>1. Program[pc[a]] = Step("kill", "armed", "rolledback", "raised")
      BY <2>2, ResumeSteps
    <3> QED
      BY <1>2, <1>9, <3>1 DEF SetArmed, Goto, Here, Step, TypeOK
  <2>3. ASSUME pc[a] = "C_Guard" PROVE UNCHANGED kill
    <3>1. Program[pc[a]].file = "guard"
      BY <2>3, ResumeSteps DEF Step
    <3> QED
      BY <1>2, <3>1 DEF SetState
  <2> QED
    BY <2>1, <2>2, <2>3
<1> QED
  BY <1>4, <1>5, <1>6, <1>7, <1>8, <1>9 DEF StopMove

(* All that a step of an operation does. *)
LEMMA Works ==
  ASSUME TypeOK, NEW a \in Actors, Work(a)
  PROVE  WorkMove(a)
  BY Leads, Places, Files, Copies, Stops DEF WorkMove

-----------------------------------------------------------------------------
(* What the beginning of an operation does.                                *)

EnterMove(a, op) ==
  /\ pc[a] \in Rest /\ pc'[a] \in Steps \ CopyLabels /\ stage'[a] = 0
  /\ pc'[a] \notin {"D_Kill", "D_Disarm", "D_Guard", "C_Guard"}
  /\ pc'[a] \in OnLabels => op \in Enabling \ {"resume"}
  /\ pc'[a] \in ResumeLabels => op = "resume" /\ pc'[a] = "R_Config"
  /\ pc'[a] \in BackLabels => op \in WritingBack
  /\ Alone(a)
  /\ calm' = CalmAfter(a, op)
  /\ UNCHANGED <<files, pass>>
  /\ late' = late \/ late' = [s \in Submitters |-> 0]
  /\ op \in Enabling => late' = [s \in Submitters |-> 0]

(* A process begins an operation. *)
LEMMA Begins ==
  ASSUME TypeOK, NEW a \in Procs, NEW op \in Ops, Begin(a, op)
  PROVE  EnterMove(a, op)
<1>1. a \in Actors
  BY DEF Actors
<1>2. pc'[a] = Entry[op] /\ stage'[a] = 0 /\ Alone(a)
  BY <1>1 DEF Begin, Goto, Alone, TypeOK
<1>3. late' = late \/ late' = [s \in Submitters |-> 0]
  BY DEF Begin
<1>4. op \in Enabling => late' = [s \in Submitters |-> 0]
  BY DEF Begin
<1>5. pc[a] \in Rest /\ calm' = CalmAfter(a, op) /\ UNCHANGED <<files, pass>>
  BY DEF Begin
<1> QED
  BY <1>2, <1>3, <1>4, <1>5, Entered DEF EnterMove

(* The watchdog begins its pass. *)
LEMMA Trips ==
  ASSUME TypeOK, Trip
  PROVE  EnterMove(Watchdog, "watchdog")
<1>1. Watchdog \in Actors
  BY DEF Actors
<1>2. pc'[Watchdog] = "W_Guard" /\ stage'[Watchdog] = 0 /\ Alone(Watchdog)
  BY <1>1 DEF Trip, Goto, Alone, TypeOK
<1>3. "watchdog" \notin Enabling
  BY DEF Enabling
<1>4. "W_Guard" \in Steps /\ "W_Guard" \notin OnLabels \cup ResumeLabels \cup BackLabels \cup CopyLabels
  BY StepLabels DEF OnLabels, ResumeLabels, BackLabels, CopyLabels, QuietLabels
<1> QED
  BY <1>2, <1>3, <1>4 DEF EnterMove, Trip

(* An operation of those kinds is active where its labels are. *)
LEMMA ActiveLabels ==
  ASSUME NEW c
  PROVE  ~Active(c, Enabling \cup WritingBack) => pc[c] \notin OnLabels \cup ResumeLabels \cup BackLabels
<1>1. /\ LabelsOf("resume") = ResumeLabels
      /\ LabelsOf("ceremony") = {"E_Token", "E_Save", "E_Arm", "E_Event", "E_BackSave", "E_BackArm"}
      /\ LabelsOf("wizard_on") = {"V_Save", "V_Arm", "V_Check", "V_Guard", "V_Event", "V_BackSave",
           "V_BackArm", "V_BackGuard"}
      /\ LabelsOf("kill_off") = {"K_Off"}
      /\ LabelsOf("issue") = {"I_Token"}
      /\ LabelsOf("edit") = {"X_Load", "X_Save", "X_Event", "X_Back"}
      /\ LabelsOf("automation") = {"A_Save"}
  BY Labelled DEF LabelsOf
<1> QED
  BY <1>1 DEF Active, Enabling, WritingBack, OnLabels, BackLabels

(* What is left of the calm of the others, and when an operation begins calm. *)
LEMMA CalmLeft ==
  ASSUME NEW a, NEW op, NEW b \in Actors, CalmAfter(a, op)[b]
  PROVE  /\ b = a => \A c \in Actors \ {a} : pc[c] \notin OnLabels \cup ResumeLabels \cup BackLabels
         /\ b # a => /\ calm[b]
                     /\ pc[b] # "stopped" => op \notin Enabling \cup WritingBack
                     /\ pc[b] = "stopped" => op \notin Enabling \ {"resume"}
                     /\ op = "resume" => saved[b]
<1>1. CASE b = a
  <2>1. \A c \in Actors \ {a} : ~Active(c, Enabling \cup WritingBack)
    BY <1>1 DEF CalmAfter
  <2> QED
    BY <1>1, <2>1, ActiveLabels
<1>2. CASE b # a
  BY <1>2 DEF CalmAfter, Enabling, WritingBack
<1> QED
  BY <1>1, <1>2

-----------------------------------------------------------------------------
(* The invariants, one at a time.                                          *)

(* The labels of the other operations, and the resting ones. *)
LEMMA Apart ==
  /\ Rest \cap Steps = {}
  /\ CopyLabels \subseteq BackLabels
  /\ {"D_Save", "D_Kill", "D_Disarm", "D_Guard", "C_Guard"} \cap (OnLabels \cup BackLabels) = {}
  /\ {"D_Save", "D_Kill", "D_Disarm", "D_Guard"} \cap ResumeLabels = {}
  /\ {"R_Arm", "R_Kill", "R_Guard"} \subseteq ResumeLabels
  /\ "I_Token" \in BackLabels /\ "A_Save" \in OnLabels /\ "C_Guard" # "R_Kill"
  /\ Rest \cap (OnLabels \cup ResumeLabels \cup BackLabels) = {}
  /\ "X_Load" \notin CopyLabels /\ "I_Token" \notin CopyLabels /\ "R_Kill" # "R_Config"
  BY StepLabels DEF Rest, OnLabels, ResumeLabels, BackLabels, QuietLabels, CopyLabels

(* A step of an operation disturbs the calm of nobody. *)
LEMMA CalmWork ==
  ASSUME TypeOK, CalmInv, NEW a \in Actors, WorkMove(a)
  PROVE  CalmInv'
  BY Apart DEF CalmInv, WorkMove, Alone, PlaceMove, Rest

(* Nor does beginning one, but to those it makes less than calm. *)
LEMMA CalmEnter ==
  ASSUME TypeOK, CalmInv, NEW a \in Actors, NEW op, EnterMove(a, op)
  PROVE  CalmInv'
<1> SUFFICES ASSUME NEW b \in Actors, calm'[b], pc'[b] # "stopped", NEW c \in Actors \ {b}
             PROVE  pc'[c] \notin OnLabels \cup ResumeLabels \cup BackLabels
  BY DEF CalmInv
<1>1. CalmAfter(a, op)[b]
  BY DEF EnterMove
<1>2. CASE b = a
  BY <1>1, <1>2, CalmLeft DEF EnterMove, Alone
<1>3. CASE b # a /\ c # a
  BY <1>1, <1>3, CalmLeft DEF EnterMove, Alone, CalmInv
<1>4. CASE b # a /\ c = a
  <2>1. op \notin Enabling \cup WritingBack
    BY <1>1, <1>4, CalmLeft DEF EnterMove, Alone
  <2> QED
    BY <1>4, <2>1 DEF EnterMove, Enabling
<1> QED
  BY <1>2, <1>3, <1>4

(* Beside a calm disable no step of another turns a switch on, and its own *)
(* steps only turn them off.                                               *)
LEMMA DisableWork ==
  ASSUME TypeOK, CalmInv, DisableInv, NEW c \in Actors, WorkMove(c)
  PROVE  DisableInv'
<1> SUFFICES ASSUME NEW a \in Actors, calm'[a]
             PROVE  /\ pc'[a] \in {"D_Kill", "D_Disarm", "D_Guard"} /\ saved'[a] => ~cfgOn'
                    /\ pc'[a] \in {"D_Disarm", "D_Guard"} => KillArmed'
                    /\ pc'[a] = "D_Guard" => ~arming'.armed
                    /\ pc'[a] = "D_Guard" /\ stage'[a] = 1 => tmp' # "RUNNING"
  BY DEF DisableInv
<1>0. calm[a]
  BY DEF WorkMove
<1>1. CASE a = c
  <2>1. ASSUME pc'[a] = "D_Kill", saved'[a] PROVE ~cfgOn'
    BY <1>1, <2>1 DEF WorkMove, StopMove
  <2>2. ASSUME pc'[a] = "D_Disarm" PROVE KillArmed' /\ (saved'[a] => ~cfgOn')
    <3>1. pc[a] \in {"D_Kill", "D_Disarm"} /\ saved'[a] = saved[a]
      BY <1>1, <2>2 DEF WorkMove, StopMove
    <3>2. saved[a] => ~cfgOn'
      BY <1>0, <1>1, <3>1, Apart DEF WorkMove, FileMove, DisableInv
    <3>3. KillArmed'
      BY <1>0, <1>1, <2>2, <3>1, Apart DEF WorkMove, FileMove, StopMove, DisableInv
    <3> QED
      BY <3>1, <3>2, <3>3
  <2>3. ASSUME pc'[a] = "D_Guard"
        PROVE  /\ saved'[a] => ~cfgOn'
               /\ KillArmed' /\ ~arming'.armed
               /\ stage'[a] = 1 => tmp' # "RUNNING"
    <3>1. pc[a] \in {"D_Disarm", "D_Guard"} /\ saved'[a] = saved[a]
      BY <1>1, <2>3 DEF WorkMove, StopMove
    <3>2. saved[a] => ~cfgOn'
      BY <1>0, <1>1, <3>1, Apart DEF WorkMove, FileMove, DisableInv
    <3>3. KillArmed'
      BY <1>0, <1>1, <3>1, Apart DEF WorkMove, FileMove, DisableInv
    <3>4. ~arming'.armed
      <4>1. CASE pc[a] = "D_Guard"
        BY <1>0, <1>1, <4>1, Apart DEF WorkMove, FileMove, DisableInv
      <4>2. CASE pc[a] # "D_Guard"
        BY <1>1, <2>3, <4>2 DEF WorkMove, StopMove
      <4> QED
        BY <4>1, <4>2
    <3>5. stage'[a] = 1 => tmp' # "RUNNING"
      BY <1>1, <2>3 DEF WorkMove, StopMove
    <3> QED
      BY <3>1, <3>2, <3>3, <3>4, <3>5
  <2> QED
    BY <2>1, <2>2, <2>3
<1>2. CASE a # c
  <2>1. pc'[a] = pc[a] /\ stage'[a] = stage[a] /\ saved'[a] = saved[a]
    BY <1>2 DEF WorkMove, Alone
  <2>2. CASE pc[a] \in {"D_Kill", "D_Disarm", "D_Guard"}
    <3>1. pc[c] \notin OnLabels \cup ResumeLabels \cup BackLabels
      BY <1>0, <1>2, <2>2 DEF CalmInv
    <3>2. /\ KillArmed => KillArmed'
          /\ cfgOn' => cfgOn
          /\ arming'.armed => arming.armed
          /\ tmp' = "RUNNING" => tmp = "RUNNING"
      BY <3>1, Apart DEF WorkMove, FileMove
    <3> QED
      BY <1>0, <2>1, <3>2 DEF DisableInv
  <2> QED
    BY <2>1, <2>2
<1> QED
  BY <1>1, <1>2

(* Starting an operation keeps what a disable in progress has closed. *)
LEMMA DisableEnter ==
  ASSUME TypeOK, DisableInv, NEW c \in Actors, NEW op, EnterMove(c, op)
  PROVE  DisableInv'
<1> SUFFICES ASSUME NEW a \in Actors, calm'[a]
             PROVE  /\ pc'[a] \in {"D_Kill", "D_Disarm", "D_Guard"} /\ saved'[a] => ~cfgOn'
                    /\ pc'[a] \in {"D_Disarm", "D_Guard"} => KillArmed'
                    /\ pc'[a] = "D_Guard" => ~arming'.armed
                    /\ pc'[a] = "D_Guard" /\ stage'[a] = 1 => tmp' # "RUNNING"
  BY DEF DisableInv
<1>1. CASE a = c
  BY <1>1 DEF EnterMove
<1>2. CASE a # c
  <2>1. calm[a]
    BY <1>2, CalmLeft DEF EnterMove
  <2> QED
    BY <1>2, <2>1 DEF EnterMove, Alone, DisableInv, KillArmed
<1> QED
  BY <1>1, <1>2

(* No step of an operation undoes a stop. *)
LEMMA StopWork ==
  ASSUME TypeOK, CalmInv, DisableInv, StopInv, NEW b \in Actors, WorkMove(b)
  PROVE  StopInv'
<1> SUFFICES ASSUME NEW a \in Actors, calm'[a], pc'[a] = "stopped"
             PROVE  /\ KillArmed' /\ GuardHalted' /\ ~arming'.armed /\ tmp' # "RUNNING"
                    /\ saved'[a] => ~cfgOn'
                    /\ \A c \in Actors :
                         /\ pc'[c] \notin OnLabels
                         /\ pc'[c] = "I_Token" /\ stage'[c] = 1 => ~held'[c].armed
                         /\ pc'[c] \in ResumeLabels => saved'[a] /\ pc'[c] = "R_Config"
                         /\ saved'[a] /\ pc'[c] \in CopyLabels => ~seen'[c]
  BY DEF StopInv, StopHolding
<1>0. calm[a]
  BY DEF WorkMove
<1>1. CASE a = b
  <2>1. /\ pc[a] = "D_Guard" /\ stage[a] = 1 /\ saved'[a] = saved[a]
        /\ guard' = tmp /\ tmp # "none" /\ tmp' = "none"
        /\ UNCHANGED <<kill, cfgOn, arming>>
    BY <1>1 DEF WorkMove, StopMove
  <2>2. KillArmed' /\ ~arming'.armed /\ (saved'[a] => ~cfgOn')
    BY <1>0, <2>1 DEF DisableInv, KillArmed
  <2>3. tmp # "RUNNING"
    BY <1>0, <2>1 DEF DisableInv
  <2>4. GuardHalted' /\ tmp' # "RUNNING"
    BY <2>1, <2>3 DEF GuardHalted, TypeOK, GuardStates
  <2>5. \A c \in Actors : pc'[c] \notin OnLabels \cup ResumeLabels \cup BackLabels
    <3>1. \A c \in Actors \ {a} : pc[c] \notin OnLabels \cup ResumeLabels \cup BackLabels
      BY <1>0, <2>1 DEF CalmInv
    <3>2. "stopped" \notin OnLabels \cup ResumeLabels \cup BackLabels
      BY Apart DEF Rest
    <3> QED
      BY <1>1, <3>1, <3>2 DEF WorkMove, Alone
  <2> QED
    BY <2>2, <2>4, <2>5, Apart
<1>2. CASE a # b
  <2>1. StopHolding(a) /\ saved'[a] = saved[a]
    BY <1>0, <1>2 DEF WorkMove, Alone, StopHolding
  <2>2. /\ KillArmed /\ GuardHalted /\ ~arming.armed /\ tmp # "RUNNING"
        /\ saved[a] => ~cfgOn
    BY <2>1 DEF StopInv
  <2>3. \A c \in Actors :
          /\ pc[c] \notin OnLabels
          /\ pc[c] = "I_Token" /\ stage[c] = 1 => ~held[c].armed
          /\ pc[c] \in ResumeLabels => saved[a] /\ pc[c] = "R_Config"
          /\ saved[a] /\ pc[c] \in CopyLabels => ~seen[c]
    BY <2>1 DEF StopInv
  <2>4. pc[b] \notin OnLabels \cup {"R_Arm", "R_Kill", "R_Guard"}
    BY <2>3, Apart DEF ResumeLabels
  <2>5. KillArmed' /\ tmp' # "RUNNING"
    BY <2>2, <2>4 DEF WorkMove, FileMove
  <2>6. ~arming'.armed
    BY <2>2, <2>3, <2>4 DEF WorkMove, FileMove
  <2>7. GuardHalted'
    BY <2>2 DEF WorkMove, FileMove, GuardHalted, TypeOK, GuardStates
  <2>8. saved[a] => ~cfgOn'
    BY <2>2, <2>3, <2>4 DEF WorkMove, FileMove
  <2>9. ASSUME NEW c \in Actors
        PROVE  /\ pc'[c] \notin OnLabels
               /\ pc'[c] = "I_Token" /\ stage'[c] = 1 => ~held'[c].armed
               /\ pc'[c] \in ResumeLabels => saved[a] /\ pc'[c] = "R_Config"
               /\ saved[a] /\ pc'[c] \in CopyLabels => ~seen'[c]
    <3>1. CASE c # b
      BY <2>3, <3>1 DEF WorkMove, Alone
    <3>2. CASE c = b
      <4>1. pc'[c] \notin OnLabels
        BY <2>4, <3>2 DEF WorkMove, PlaceMove
      <4>2. pc'[c] \notin ResumeLabels
        BY <2>2, <2>3, <3>2, Apart DEF WorkMove, PlaceMove, Rest
      <4>3. pc'[c] = "I_Token" /\ stage'[c] = 1 => ~held'[c].armed
        BY <2>2, <2>3, <3>2 DEF WorkMove, CopyMove
      <4>4. saved[a] /\ pc'[c] \in CopyLabels => ~seen'[c]
        BY <2>2, <2>3, <3>2 DEF WorkMove, CopyMove
      <4> QED
        BY <4>1, <4>2, <4>3, <4>4
    <3> QED
      BY <3>1, <3>2
  <2> QED
    BY <2>1, <2>5, <2>6, <2>7, <2>8, <2>9
<1> QED
  BY <1>1, <1>2

(* Starting an operation keeps every completed stop in force. *)
LEMMA StopEnter ==
  ASSUME TypeOK, StopInv, NEW b \in Actors, NEW op, EnterMove(b, op)
  PROVE  StopInv'
<1> SUFFICES ASSUME NEW a \in Actors, calm'[a], pc'[a] = "stopped"
             PROVE  /\ KillArmed' /\ GuardHalted' /\ ~arming'.armed /\ tmp' # "RUNNING"
                    /\ saved'[a] => ~cfgOn'
                    /\ \A c \in Actors :
                         /\ pc'[c] \notin OnLabels
                         /\ pc'[c] = "I_Token" /\ stage'[c] = 1 => ~held'[c].armed
                         /\ pc'[c] \in ResumeLabels => saved'[a] /\ pc'[c] = "R_Config"
                         /\ saved'[a] /\ pc'[c] \in CopyLabels => ~seen'[c]
  BY DEF StopInv, StopHolding
<1>1. a # b
  BY Apart DEF EnterMove, Rest
<1>2. pc[a] = "stopped" /\ saved'[a] = saved[a]
  BY <1>1 DEF EnterMove, Alone
<1>3. calm[a] /\ op \notin Enabling \ {"resume"} /\ (op = "resume" => saved[a])
  BY <1>1, <1>2, CalmLeft DEF EnterMove
<1>4. StopHolding(a)
  BY <1>2, <1>3 DEF StopHolding
<1>5. /\ KillArmed' /\ GuardHalted' /\ ~arming'.armed /\ tmp' # "RUNNING"
      /\ saved'[a] => ~cfgOn'
  BY <1>2, <1>4 DEF StopInv, EnterMove, KillArmed, GuardHalted
<1>6. ASSUME NEW c \in Actors
      PROVE  /\ pc'[c] \notin OnLabels
             /\ pc'[c] = "I_Token" /\ stage'[c] = 1 => ~held'[c].armed
             /\ pc'[c] \in ResumeLabels => saved'[a] /\ pc'[c] = "R_Config"
             /\ saved'[a] /\ pc'[c] \in CopyLabels => ~seen'[c]
  <2>1. CASE c # b
    BY <1>2, <1>4, <2>1 DEF StopInv, EnterMove, Alone
  <2>2. CASE c = b
    BY <1>2, <1>3, <2>2 DEF EnterMove
  <2> QED
    BY <2>1, <2>2
<1> QED
  BY <1>5, <1>6

(* No step beside a calm rollback turns the kill switch off again. *)
LEMMA RollbackWork ==
  ASSUME TypeOK, CalmInv, RollbackInv, NEW c \in Actors, WorkMove(c)
  PROVE  RollbackInv'
<1> SUFFICES ASSUME NEW a \in Actors, calm'[a], pc'[a] \in {"C_Guard", "rolledback"}
             PROVE  KillArmed'
  BY DEF RollbackInv
<1>0. calm[a]
  BY DEF WorkMove
<1>1. CASE a = c
  <2>1. pc[a] = "C_Guard" \/ KillArmed'
    BY <1>1 DEF WorkMove, StopMove
  <2> QED
    BY <1>0, <1>1, <2>1, Apart DEF WorkMove, FileMove, RollbackInv
<1>2. CASE a # c
  <2>1. pc[a] \in {"C_Guard", "rolledback"}
    BY <1>2 DEF WorkMove, Alone
  <2>2. pc[c] \notin OnLabels \cup ResumeLabels \cup BackLabels
    BY <1>0, <1>2, <2>1 DEF CalmInv
  <2> QED
    BY <1>0, <2>1, <2>2, Apart DEF WorkMove, FileMove, RollbackInv
<1> QED
  BY <1>1, <1>2

(* Starting an operation keeps every completed rollback in force. *)
LEMMA RollbackEnter ==
  ASSUME TypeOK, RollbackInv, NEW c \in Actors, NEW op, EnterMove(c, op)
  PROVE  RollbackInv'
<1> SUFFICES ASSUME NEW a \in Actors, calm'[a], pc'[a] \in {"C_Guard", "rolledback"}
             PROVE  KillArmed'
  BY DEF RollbackInv
<1>1. a # c
  BY Apart DEF EnterMove, Rest
<1>2. calm[a] /\ pc'[a] = pc[a]
  BY <1>1, CalmLeft DEF EnterMove, Alone
<1> QED
  BY <1>2 DEF EnterMove, RollbackInv, KillArmed

(* What is shut stays shut at every step of an operation. *)
LEMMA ShutWork ==
  ASSUME TypeOK, Shut, NEW a \in Actors, WorkMove(a)
  PROVE  Shut'
<1>1. pc[a] \notin OnLabels /\ pc[a] # "R_Kill"
  BY Apart DEF Shut
<1>2. KillArmed'
  BY <1>1 DEF Shut, WorkMove, FileMove
<1>3. \A c \in Actors : pc'[c] \notin OnLabels
  BY <1>1 DEF Shut, WorkMove, Alone, PlaceMove
<1>4. CASE \A c \in Actors : pc[c] \notin ResumeLabels
  <2>1. \A c \in Actors : pc'[c] \notin ResumeLabels
    BY <1>4 DEF WorkMove, Alone, PlaceMove
  <2> QED
    BY <1>2, <1>3, <2>1 DEF Shut
<1>5. CASE /\ ~cfgOn
           /\ \A c \in Actors : /\ pc[c] \in ResumeLabels => pc[c] = "R_Config"
                                /\ pc[c] \in CopyLabels => ~seen[c]
  <2>1. ~cfgOn'
    BY <1>1, <1>5 DEF WorkMove, FileMove
  <2>2. pc'[a] \notin ResumeLabels
    BY <1>5, Apart DEF WorkMove, PlaceMove, Rest
  <2>3. pc'[a] \in CopyLabels => ~seen'[a]
    BY <1>5 DEF WorkMove, CopyMove
  <2>4. \A c \in Actors : /\ pc'[c] \in ResumeLabels => pc'[c] = "R_Config"
                          /\ pc'[c] \in CopyLabels => ~seen'[c]
    BY <1>5, <2>2, <2>3 DEF WorkMove, Alone
  <2> QED
    BY <1>2, <1>3, <2>1, <2>4 DEF Shut
<1> QED
  BY <1>4, <1>5 DEF Shut

(* And when an operation begins that is not an enabling one. *)
LEMMA ShutEnter ==
  ASSUME TypeOK, Shut, NEW a \in Actors, NEW op, EnterMove(a, op), op \notin Enabling
  PROVE  Shut'
<1>1. pc'[a] \notin OnLabels \cup ResumeLabels \cup CopyLabels
  BY DEF EnterMove, Enabling
<1>2. KillArmed' /\ cfgOn' = cfgOn
  BY DEF Shut, EnterMove, KillArmed
<1>3. \A c \in Actors \ {a} : pc'[c] = pc[c] /\ seen'[c] = seen[c]
  BY DEF EnterMove, Alone
<1> QED
  BY <1>1, <1>2, <1>3 DEF Shut

(* A stop shuts. *)
LEMMA StopShuts ==
  ASSUME StopInv, NEW a \in Actors, StopHolding(a)
  PROVE  Shut
  BY DEF StopInv, Shut

(* A step of an operation lets no submitter send more after a stop. *)
LEMMA LateWork ==
  ASSUME TypeOK, LateInv, NEW a \in Actors, WorkMove(a)
  PROVE  LateInv'
<1>1. UNCHANGED <<pass, late>>
  BY DEF WorkMove
<1> QED
  BY <1>1, ShutWork DEF LateInv

(* Starting an operation gives no submitter a second late order. *)
LEMMA LateEnter ==
  ASSUME TypeOK, LateInv, NEW a \in Actors, NEW op, EnterMove(a, op)
  PROVE  LateInv'
<1>1. CASE late' = [s \in Submitters |-> 0]
  BY <1>1 DEF LateInv
<1>2. CASE late' # [s \in Submitters |-> 0]
  <2>1. op \notin Enabling /\ UNCHANGED <<pass, late>>
    BY <1>2 DEF EnterMove
  <2> QED
    BY <2>1, ShutEnter DEF LateInv
<1> QED
  BY <1>1, <1>2

-----------------------------------------------------------------------------
(* The steps that leave the switches and the operations alone.             *)

StopIInv == CalmInv /\ DisableInv /\ StopInv /\ RollbackInv /\ LateInv

(* A crash: the operation is over and its calm with it. *)
LEMMA CrashKeeps ==
  ASSUME TypeOK, StopIInv, NEW a \in Actors, Crash(a)
  PROVE  StopIInv'
<1>1. pc' = [pc EXCEPT ![a] = "idle"] /\ stage' = [stage EXCEPT ![a] = 0] /\ held' = [held EXCEPT ![a] = Blank]
  BY DEF Crash, Goto
<1>2. calm' = [calm EXCEPT ![a] = FALSE]
  BY DEF Crash
<1>3. UNCHANGED <<guard, tmp, kill, cfgOn, arming, seen, saved, pass, late>>
  BY DEF Crash
<1>4. \A c \in Actors \ {a} : pc'[c] = pc[c] /\ stage'[c] = stage[c] /\ held'[c] = held[c] /\ calm'[c] = calm[c]
  BY <1>1, <1>2 DEF TypeOK
<1>5. pc'[a] = "idle" /\ ~calm'[a]
  BY <1>1, <1>2 DEF TypeOK
<1>6. "idle" \notin OnLabels \cup ResumeLabels \cup BackLabels \cup CopyLabels
  BY DEF OnLabels, ResumeLabels, BackLabels, CopyLabels
<1>7. KillArmed' = KillArmed /\ GuardHalted' = GuardHalted
  BY <1>3 DEF KillArmed, GuardHalted
<1>8. CalmInv'
  BY <1>4, <1>5, <1>6 DEF StopIInv, CalmInv
<1>9. DisableInv'
  BY <1>3, <1>4, <1>5, <1>7 DEF StopIInv, DisableInv
<1>10. StopInv'
  <2> SUFFICES ASSUME NEW b \in Actors, StopHolding(b)'
               PROVE  /\ KillArmed' /\ GuardHalted' /\ ~arming'.armed /\ tmp' # "RUNNING"
                      /\ saved'[b] => ~cfgOn'
                      /\ \A c \in Actors :
                           /\ pc'[c] \notin OnLabels
                           /\ pc'[c] = "I_Token" /\ stage'[c] = 1 => ~held'[c].armed
                           /\ pc'[c] \in ResumeLabels => saved'[b] /\ pc'[c] = "R_Config"
                           /\ saved'[b] /\ pc'[c] \in CopyLabels => ~seen'[c]
    BY DEF StopInv
  <2>1. StopHolding(b)
    BY <1>4, <1>5 DEF StopHolding
  <2>2. /\ KillArmed' /\ GuardHalted' /\ ~arming'.armed /\ tmp' # "RUNNING"
        /\ saved'[b] => ~cfgOn'
    BY <1>3, <1>7, <2>1 DEF StopIInv, StopInv
  <2>3. \A c \in Actors :
          /\ pc'[c] \notin OnLabels
          /\ pc'[c] = "I_Token" /\ stage'[c] = 1 => ~held'[c].armed
          /\ pc'[c] \in ResumeLabels => saved'[b] /\ pc'[c] = "R_Config"
          /\ saved'[b] /\ pc'[c] \in CopyLabels => ~seen'[c]
    BY <1>3, <1>4, <1>5, <1>6, <2>1 DEF StopIInv, StopInv
  <2> QED
    BY <2>2, <2>3
<1>11. RollbackInv'
  BY <1>4, <1>5, <1>7 DEF StopIInv, RollbackInv
<1>12. Shut => Shut'
  BY <1>3, <1>4, <1>5, <1>6, <1>7 DEF Shut
<1>13. LateInv'
  BY <1>3, <1>12 DEF StopIInv, LateInv
<1> QED
  BY <1>8, <1>9, <1>10, <1>11, <1>13 DEF StopIInv

(* A step that leaves the operations and the switches as they are. *)
Still ==
  /\ UNCHANGED <<guard, tmp, kill, cfgOn, pc, stage, held, seen, saved, calm>>
  /\ arming'.armed = arming.armed

(* Such a step keeps every stop and rollback in force. *)
LEMMA StillKeeps ==
  ASSUME StopIInv, Still
  PROVE  (CalmInv /\ DisableInv /\ StopInv /\ RollbackInv)' /\ (Shut => Shut')
<1> USE DEF StopIInv, Still, KillArmed
<1>1. CalmInv'
  BY DEF CalmInv
<1>2. DisableInv'
  BY DEF DisableInv
<1>3. StopInv'
  BY DEF StopInv, StopHolding, GuardHalted
<1>4. RollbackInv'
  BY DEF RollbackInv
<1>5. Shut => Shut'
  BY DEF Shut
<1> QED
  BY <1>1, <1>2, <1>3, <1>4, <1>5

(* The heartbeat and the token. *)
LEMMA ClockKeeps ==
  ASSUME TypeOK, StopIInv, Heartbeat \/ TokenExpires
  PROVE  StopIInv'
<1>1. Still
  BY DEF Heartbeat, TokenExpires, Still, TypeOK, ArmingFile
<1>2. UNCHANGED <<pass, late>>
  BY DEF Heartbeat, TokenExpires
<1>3. LateInv'
  BY <1>1, <1>2, StillKeeps DEF StopIInv, LateInv
<1> QED
  BY <1>1, <1>3, StillKeeps DEF StopIInv

(* The order paths: the boundary reads the kill switch that a stop armed,  *)
(* so that a submitter that sent late cannot come to send again.           *)
LEMMA SubmitKeeps ==
  ASSUME TypeOK, StopIInv, NEW s \in Submitters, Gate(s) \/ Boundary(s) \/ Send(s) \/ EndPass(s)
  PROVE  StopIInv'
<1>1. Still
  BY DEF Gate, Boundary, Send, EndPass, Still
<1>2. Shut => Shut'
  BY <1>1, StillKeeps
<1>3. LateInv'
  <2>1. CASE Gate(s) \/ EndPass(s)
    <3>1. late' = late /\ pass'[s] # "send" /\ \A r \in Submitters \ {s} : pass'[r] = pass[r]
      BY <2>1 DEF Gate, EndPass, TypeOK
    <3> QED
      BY <1>2, <3>1 DEF StopIInv, LateInv
  <2>2. CASE Boundary(s)
    <3>1. late' = late /\ ~KillArmed /\ \A r \in Submitters \ {s} : pass'[r] = pass[r]
      BY <2>2 DEF Boundary, TypeOK
    <3>2. ~Shut
      BY <3>1 DEF Shut
    <3> QED
      BY <3>1, <3>2 DEF StopIInv, LateInv
  <2>3. CASE Send(s)
    <3>1. pass[s] = "send" /\ pass'[s] = "gated" /\ \A r \in Submitters \ {s} : pass'[r] = pass[r] /\ late'[r] = late[r]
      BY <2>3 DEF Send, TypeOK
    <3>2. late[s] = 0
      BY <3>1 DEF StopIInv, LateInv
    <3>3. CASE \E a \in Actors : StopHolding(a)
      <4>1. Shut
        BY <3>3, StopShuts DEF StopIInv
      <4>2. late'[s] = 1
        BY <2>3, <3>2, <3>3 DEF Send, TypeOK
      <4> QED
        BY <1>2, <3>1, <4>1, <4>2 DEF StopIInv, LateInv
    <3>4. CASE ~ \E a \in Actors : StopHolding(a)
      <4>1. late'[s] = 0
        BY <2>3, <3>4 DEF Send, TypeOK
      <4> QED
        BY <1>2, <3>1, <4>1 DEF StopIInv, LateInv
    <3> QED
      BY <3>3, <3>4
  <2> QED
    BY <2>1, <2>2, <2>3
<1> QED
  BY <1>1, <1>3, StillKeeps DEF StopIInv

(* A step of an operation, and the beginning of one. *)
LEMMA OperationKeeps ==
  ASSUME TypeOK, StopIInv
  PROVE  /\ \A a \in Actors : Work(a) => StopIInv'
         /\ \A a \in Procs, op \in Ops : Begin(a, op) => StopIInv'
         /\ Trip => StopIInv'
<1>1. ASSUME NEW a \in Actors, Work(a)
      PROVE  StopIInv'
  <2>1. WorkMove(a)
    BY <1>1, Works
  <2> QED
    BY <2>1, CalmWork, DisableWork, StopWork, RollbackWork, LateWork DEF StopIInv
<1>2. ASSUME NEW a \in Actors, NEW op, EnterMove(a, op)
      PROVE  StopIInv'
  BY <1>2, CalmEnter, DisableEnter, StopEnter, RollbackEnter, LateEnter DEF StopIInv
<1>3. ASSUME NEW a \in Procs, NEW op \in Ops, Begin(a, op)
      PROVE  StopIInv'
  BY <1>2, <1>3, Begins DEF Actors
<1>4. ASSUME Trip
      PROVE  StopIInv'
  BY <1>2, <1>4, Trips DEF Actors
<1> QED
  BY <1>1, <1>3, <1>4

(* The inductive invariant. *)
LEMMA StopAlways == Spec => []StopIInv
<1>1. Init => StopIInv
  <2> SUFFICES ASSUME Init PROVE StopIInv
    OBVIOUS
  <2>1. \A a \in Actors : ~calm[a]
    BY DEF Init
  <2>2. \A s \in Submitters : late[s] = 0
    BY DEF Init
  <2> QED
    BY <2>1, <2>2 DEF StopIInv, CalmInv, DisableInv, StopInv, StopHolding, RollbackInv, LateInv
<1>2. TypeOK /\ StopIInv /\ [Next]_vars => StopIInv'
  <2> SUFFICES ASSUME TypeOK, StopIInv, [Next]_vars PROVE StopIInv'
    OBVIOUS
  <2>1. CASE UNCHANGED vars
    <3>1. Still /\ UNCHANGED <<pass, late>>
      BY <2>1 DEF vars, Still
    <3>2. LateInv'
      BY <3>1, StillKeeps DEF StopIInv, LateInv
    <3> QED
      BY <3>1, <3>2, StillKeeps DEF StopIInv
  <2> QED
    BY <2>1, OperationKeeps, CrashKeeps, ClockKeeps, SubmitKeeps DEF Next
<1> QED
  BY <1>1, <1>2, TypeCorrect, PTL DEF Spec

(* A stop that returned with nothing enabling beside it holds: the kill    *)
(* switch reads armed, the guard halted, the persisted arming off, however *)
(* many processes, operations, crashes and failed writes there are.        *)
THEOREM StopsHold == Spec => []StopHolds
<1>1. StopIInv => StopHolds
  BY DEF StopIInv, StopInv, StopHolds
<1> QED
  BY <1>1, StopAlways, PTL

(* No submitter sends more than the one order it had passed the boundary   *)
(* with when a stop came to hold.                                          *)
THEOREM OneLate == Spec => []OneLateOrder
<1>1. StopIInv => OneLateOrder
  BY DEF StopIInv, LateInv, OneLateOrder
<1> QED
  BY <1>1, StopAlways, PTL

(* A resume that returned from its rollback, undisturbed, left the kill    *)
(* switch armed.                                                           *)
THEOREM RollbackCloses == Spec => []FailedResumeCloses
<1>1. StopIInv => FailedResumeCloses
  BY DEF StopIInv, RollbackInv, FailedResumeCloses
<1> QED
  BY <1>1, StopAlways, PTL

=============================================================================
