------------------------- MODULE OrderBudgetProofs -------------------------
(***************************************************************************)
(* Proofs about OrderBudget, however starts overlap: the types, who owns   *)
(* the lock, and how many claims and orders a day has.                     *)
(***************************************************************************)
EXTENDS OrderBudget, FiniteSetTheorems, TLAPS

Pcs == Starting \cup Ended \cup Working

LockTypes ==
  /\ lock \in LockFiles
  /\ found \in [Procs -> Procs \cup {"nobody"}]
  /\ robbed \subseteq Procs
  /\ pc \in [Procs -> Pcs]

(* Who got a lock and was not robbed has it; a starter about to unlink has *)
(* read the pid of a process that is over, for good; and a lock is of one  *)
(* that was started.                                                       *)
OwnInv ==
  \A p \in Procs \ robbed :
    /\ pc[p] \in Working => lock = [by |-> p, written |-> TRUE]
    /\ pc[p] = "write" => lock = [by |-> p, written |-> FALSE]

StarterInv ==
  /\ \A p \in Procs : pc[p] = "unlink" => found[p] \in Procs /\ pc[found[p]] = "dead"
  /\ lock # NoLock => lock.by \in Procs /\ pc[lock.by] # "new"

LockInv == LockTypes /\ IsFiniteSet(robbed) /\ OwnInv /\ StarterInv

(* A step of a running consumer that stays running and leaves the lock. *)
Stays(p) ==
  /\ pc[p] \in Working
  /\ \E l \in Working : pc' = [pc EXCEPT ![p] = l]
  /\ UNCHANGED lockVars

USE DEF Starting, Ended, Working

(* The lock's invariant holds at the start, *)
LEMMA LockInitially == Init => LockInv
<1>1. IsFiniteSet({})
  BY FS_EmptySet
<1> QED
  BY <1>1 DEF Init, LockInit, LockInv, LockTypes, OwnInv, StarterInv, LockFiles, NoLock, Pcs

(* and every step keeps it: one that leaves lock and finds alone, and      *)
(* starts nothing but a start; *)
LEMMA MoveKeeps ==
  ASSUME LockInv, NEW p \in Procs, NEW l \in Pcs, pc' = [pc EXCEPT ![p] = l],
         UNCHANGED <<lock, robbed>>, found' \in [Procs -> Procs \cup {"nobody"}],
         \A q \in Procs : q # p => found'[q] = found[q],
         l \notin {"new", "unlink", "write"}, l \in Working => pc[p] \in Working,
         pc[p] # "dead"
  PROVE  LockInv'
<1>1. LockTypes' /\ IsFiniteSet(robbed')
  BY DEF LockInv, LockTypes
<1>2. OwnInv'
  BY DEF LockInv, LockTypes, OwnInv
<1>3. StarterInv'
  BY DEF LockInv, LockTypes, StarterInv, NoLock
<1> QED
  BY <1>1, <1>2, <1>3 DEF LockInv

(* the exclusive creation of the lock file; *)
LEMMA CreateKeeps ==
  ASSUME LockInv, NEW p \in Procs, OpenLock(p) \/ ReopenLock(p) PROVE LockInv'
<1>1. CASE lock = NoLock
  <2>1. /\ lock' = [by |-> p, written |-> FALSE]
        /\ pc[p] \in {"open", "reopen"}
        /\ pc' = [pc EXCEPT ![p] = "write"]
        /\ UNCHANGED <<found, robbed>>
    BY <1>1 DEF OpenLock, ReopenLock, Create, Goto
  <2>2. \A q \in Procs \ robbed : pc[q] \notin Working \cup {"write"}
    BY <1>1, LockAssumption DEF LockInv, OwnInv, NoLock
  <2>3. LockTypes' /\ IsFiniteSet(robbed')
    BY <2>1 DEF LockInv, LockTypes, LockFiles, Pcs
  <2>4. OwnInv'
    BY <2>1, <2>2 DEF LockInv, LockTypes, OwnInv
  <2>5. StarterInv'
    BY <2>1 DEF LockInv, LockTypes, StarterInv, Pcs
  <2> QED
    BY <2>3, <2>4, <2>5 DEF LockInv
<1>2. CASE lock # NoLock
  <2>1. /\ UNCHANGED <<lock, found, robbed>> /\ pc[p] \in {"open", "reopen"}
        /\ pc' = [pc EXCEPT ![p] = "check"] \/ pc' = [pc EXCEPT ![p] = "dead"]
    BY <1>2 DEF OpenLock, ReopenLock, Create, Goto
  <2> QED
    BY <2>1, MoveKeeps DEF LockInv, LockTypes, Pcs
<1> QED
  BY <1>1, <1>2

(* the test of the recorded pid; *)
LEMMA CheckKeeps ==
  ASSUME LockInv, NEW p \in Procs, CheckPid(p) PROVE LockInv'
<1>1. CASE lock # NoLock /\ lock.written /\ ~Alive(lock.by)
  <2>1. /\ found' = [found EXCEPT ![p] = lock.by] /\ pc' = [pc EXCEPT ![p] = "unlink"]
        /\ UNCHANGED <<lock, robbed>> /\ pc[p] = "check"
    BY <1>1 DEF CheckPid, Goto
  <2>2. lock.by \in Procs /\ pc[lock.by] = "dead"
    BY <1>1 DEF LockInv, StarterInv, Alive
  <2>3. LockTypes' /\ IsFiniteSet(robbed')
    BY <2>1, <2>2 DEF LockInv, LockTypes, Pcs
  <2>4. OwnInv' /\ StarterInv'
    BY <2>1, <2>2 DEF LockInv, LockTypes, OwnInv, StarterInv, Pcs
  <2> QED
    BY <2>3, <2>4 DEF LockInv
<1>2. CASE ~ (lock # NoLock /\ lock.written /\ ~Alive(lock.by))
  <2>1. /\ UNCHANGED <<lock, found, robbed>> /\ pc[p] = "check"
        /\ pc' = [pc EXCEPT ![p] = "dead"]
    BY <1>2 DEF CheckPid, Goto
  <2> QED
    BY <2>1, MoveKeeps DEF LockInv, LockTypes, Pcs
<1> QED
  BY <1>1, <1>2

(* the removal of a lock file, if it is the process's own, that of a dead  *)
(* one, or recorded as a loss; *)
LEMMA RemoveKeeps ==
  ASSUME LockInv, NEW p \in Procs, NEW l \in {"dead", "reopen"}, NEW excuse,
         RemoveLock(p, excuse), pc' = [pc EXCEPT ![p] = l], pc[p] # "dead",
         found' \in [Procs -> Procs \cup {"nobody"}],
         \A q \in Procs : q # p => found'[q] = found[q],
         excuse \/ lock = NoLock \/ lock.by = p \/ (lock.by \in Procs /\ pc[lock.by] = "dead")
  PROVE  LockInv'
<1> DEFINE R == {q \in Procs \ {p} : excuse /\ q = lock.by /\ Alive(q)}
<1>1. robbed' = robbed \cup R /\ lock' = NoLock
  BY DEF RemoveLock
<1>2. IsFiniteSet(robbed')
  <2>1. IsFiniteSet({lock.by}) /\ R \subseteq {lock.by}
    BY FS_Singleton
  <2>2. IsFiniteSet(R)
    BY <2>1, FS_Subset
  <2> QED
    BY <1>1, <2>2, FS_Union DEF LockInv
<1>3. LockTypes'
  BY <1>1 DEF LockInv, LockTypes, LockFiles, Pcs
<1>4. ASSUME NEW q \in Procs \ robbed', pc'[q] \in Working \cup {"write"} PROVE FALSE
  <2>1. q # p /\ q \notin robbed /\ pc[q] = pc'[q]
    BY <1>1, <1>4 DEF LockInv, LockTypes
  <2>2. lock.by = q /\ Alive(q) /\ lock # NoLock /\ pc[q] # "dead"
    BY <1>4, <2>1, LockAssumption DEF LockInv, OwnInv, Alive, NoLock
  <2>3. excuse
    BY <2>1, <2>2
  <2> QED
    BY <1>1, <1>4, <2>1, <2>2, <2>3
<1>5. OwnInv'
  BY <1>4 DEF OwnInv
<1>6. StarterInv'
  BY <1>1 DEF LockInv, LockTypes, StarterInv
<1> QED
  BY <1>2, <1>3, <1>5, <1>6 DEF LockInv

(* the removal of a stale lock, its release, and a failed write of the     *)
(* pid; *)
LEMMA RemovalsKeep ==
  ASSUME LockInv, NEW p \in Procs, UnlinkStale(p) \/ Release(p) \/ WriteLockFails(p)
  PROVE  LockInv'
<1>1. CASE UnlinkStale(p)
  <2>1. /\ pc[p] = "unlink" /\ found' = [found EXCEPT ![p] = "nobody"]
        /\ RemoveLock(p, lock.by # found[p])
        /\ \E l \in {"dead", "reopen"} : pc' = [pc EXCEPT ![p] = l]
    BY <1>1 DEF UnlinkStale, Goto
  <2>2. found[p] \in Procs /\ pc[found[p]] = "dead"
    BY <2>1 DEF LockInv, StarterInv
  <2>3. /\ found' \in [Procs -> Procs \cup {"nobody"}]
        /\ \A q \in Procs : q # p => found'[q] = found[q]
    BY <2>1 DEF LockInv, LockTypes
  <2> QED
    BY <2>1, <2>2, <2>3, RemoveKeeps
<1>2. CASE Release(p) \/ WriteLockFails(p)
  <2>1. /\ pc[p] \in {"run", "write"} /\ UNCHANGED found
        /\ RemoveLock(p, p \in robbed) /\ pc' = [pc EXCEPT ![p] = "dead"]
    BY <1>2 DEF Release, WriteLockFails, Goto
  <2>2. p \in robbed \/ lock.by = p
    BY <2>1 DEF LockInv, OwnInv
  <2> QED
    BY <2>1, <2>2, RemoveKeeps DEF LockInv, LockTypes
<1> QED
  BY <1>1, <1>2

(* the write of the own pid; *)
LEMMA WriteKeeps ==
  ASSUME LockInv, NEW p \in Procs, WriteLock(p) PROVE LockInv'
<1>1. /\ pc[p] = "write" /\ pc' = [pc EXCEPT ![p] = "run"] /\ UNCHANGED <<found, robbed>>
      /\ lock' = IF lock.by = p THEN [lock EXCEPT !.written = TRUE] ELSE lock
  BY DEF WriteLock, Goto
<1>2. CASE lock.by = p
  <2>1. lock' = [by |-> p, written |-> TRUE]
    BY <1>1, <1>2 DEF LockInv, LockTypes, LockFiles, NoLock
  <2>2. LockTypes' /\ IsFiniteSet(robbed')
    BY <1>1, <2>1 DEF LockInv, LockTypes, LockFiles, Pcs
  <2>3. \A q \in Procs \ robbed : q # p => pc[q] \notin Working \cup {"write"}
    BY <1>2 DEF LockInv, OwnInv
  <2>4. OwnInv'
    BY <1>1, <2>1, <2>3 DEF LockInv, LockTypes, OwnInv
  <2>5. StarterInv'
    BY <1>1, <2>1 DEF LockInv, LockTypes, StarterInv, Pcs
  <2> QED
    BY <2>2, <2>4, <2>5 DEF LockInv
<1>3. CASE lock.by # p
  <2>1. p \in robbed /\ UNCHANGED lock
    BY <1>1, <1>3 DEF LockInv, OwnInv
  <2>2. LockTypes' /\ IsFiniteSet(robbed') /\ OwnInv'
    BY <1>1, <2>1 DEF LockInv, LockTypes, OwnInv, Pcs
  <2>3. StarterInv'
    BY <1>1, <2>1 DEF LockInv, LockTypes, StarterInv, Pcs
  <2> QED
    BY <2>2, <2>3 DEF LockInv
<1> QED
  BY <1>2, <1>3

(* a launch, and a kill at any step; *)
LEMMA LaunchKeeps ==
  ASSUME LockInv, NEW p \in Procs, Launch(p) PROVE LockInv'
BY MoveKeeps DEF LockInv, LockTypes, Pcs, Launch, Goto, lockVars

LEMMA KillKeeps ==
  ASSUME LockInv, NEW p \in Procs, Kill(p) PROVE LockInv'
<1>1. /\ pc' = [pc EXCEPT ![p] = "dead"] /\ pc[p] # "dead" /\ UNCHANGED <<lock, robbed>>
      /\ found' = [found EXCEPT ![p] = "nobody"]
  BY DEF Kill, Goto, Alive
<1> QED
  BY <1>1, MoveKeeps DEF LockInv, LockTypes, Pcs

(* a step between lock and release; *)
LEMMA StayKeeps ==
  ASSUME LockInv, NEW p \in Procs, Stays(p) PROVE LockInv'
BY MoveKeeps DEF LockInv, LockTypes, Pcs, Stays, lockVars

(* a step that touches neither lock nor process. *)
LEMMA IdleKeeps == LockInv /\ UNCHANGED <<lockVars, pc>> => LockInv'
BY DEF LockInv, LockTypes, OwnInv, StarterInv, lockVars

(* Every step of the consumer between lock and release is one that stays. *)
LEMMA WorkStays ==
  ASSUME LockInv, NEW p \in Procs,
         \/ ReadClock(p) \/ ReadRiskDay(p) \/ ResetRiskState(p)
         \/ AtomicRiskClaim(p) \/ Boundary(p) \/ Send(p) \/ Record(p)
  PROVE  Stays(p)
BY DEF LockInv, Stays, ReadClock, ReadRiskDay, ResetRiskState, AtomicRiskClaim,
       Boundary, Send, Record, Goto, lockVars

(* So every step keeps the lock's invariant. *)
LEMMA LockStepKeeps == ASSUME LockInv, [Next]_vars PROVE LockInv'
<1>1. ASSUME NEW p \in Procs, LockStep(p) PROVE LockInv'
  BY <1>1, LaunchKeeps, CreateKeeps, CheckKeeps, WriteKeeps, RemovalsKeep DEF LockStep
<1>2. ASSUME NEW p \in Procs, KillConsumer(p) PROVE LockInv'
  BY <1>2, KillKeeps DEF KillConsumer
<1>3. ASSUME NEW p \in Procs,
             \/ ReadClock(p) \/ ReadRiskDay(p) \/ ResetRiskState(p)
             \/ AtomicRiskClaim(p) \/ Boundary(p) \/ Send(p) \/ Record(p)
      PROVE  LockInv'
  BY <1>3, WorkStays, StayKeeps
<1>4. ASSUME NEW e \in Executors, ExecutorOrders(e) PROVE LockInv'
  BY <1>4, IdleKeeps DEF ExecutorOrders
<1>5. CASE Midnight
  BY <1>5, IdleKeeps DEF Midnight
<1>6. CASE UNCHANGED vars
  BY <1>6, IdleKeeps DEF vars
<1> QED
  BY <1>1, <1>2, <1>3, <1>4, <1>5, <1>6 DEF Next

(* The pid lock of _acquire_lock and clean_stale_lock_file, however starts *)
(* overlap: a process that runs finds its own pid in the lock file, unless *)
(* it was robbed: its file was removed by a starter that had checked the   *)
(* file of a dead process before, or by another robbed one.                *)
THEOREM LockHeld == Spec => []HolderOwnsLock
<1>1. Spec => []LockInv
  BY LockInitially, LockStepKeeps, PTL DEF Spec
<1>2. LockInv => HolderOwnsLock
  BY DEF LockInv, LockTypes, OwnInv, HolderOwnsLock, Inside, Pcs
<1> QED
  BY <1>1, <1>2, PTL

-----------------------------------------------------------------------------
BudgetTypes ==
  /\ day \in Days
  /\ riskDay \in Nat /\ riskDay <= day
  /\ claimed \in Nat /\ claimed <= MaxClaims
  /\ today \in [Procs -> Nat]
  /\ claimsOn \in [Days -> Nat]

(* Between the clock and the claim a consumer holds a day that is not to   *)
(* come; a day overtaken by midnight is no stored day's equal, and of the  *)
(* new day nothing has been claimed.                                       *)
ClaimantInv ==
  \A p \in Procs : pc[p] \in {"state", "reset", "claim"} =>
    /\ today[p] <= day
    /\ today[p] < day => riskDay < day /\ claimsOn[day] = 0
    /\ pc[p] = "reset" => riskDay # today[p]
    /\ pc[p] = "claim" => riskDay = today[p]

(* The stored count lags one claim behind the day's at most. *)
CountInv ==
  /\ \A d \in Days : d > day => claimsOn[d] = 0
  /\ riskDay = day => claimsOn[day] <= claimed + 1
  /\ riskDay < day => claimsOn[day] <= 1

DayCap == \A d \in Days : claimsOn[d] <= MaxClaims + 1

ClaimInv == BudgetTypes /\ ClaimantInv /\ CountInv /\ DayCap

(* The claims' invariant holds at the start, *)
LEMMA ClaimInitially == Init => ClaimInv
BY BudgetAssumption DEF Init, LockInit, ClaimInv, BudgetTypes, ClaimantInv, CountInv,
                        DayCap, Days

(* With nobody robbed, the consumer that holds the lock is the only one at *)
(* work.                                                                   *)
LEMMA WorksAlone ==
  ASSUME LockInv, robbed = {}, NEW p \in Procs, NEW q \in Procs, pc[p] \in Working, pc[q] \in Working
  PROVE  p = q
BY DEF LockInv, OwnInv

(* and every step keeps it: reading the clock; *)
LEMMA ReadClockClaims ==
  ASSUME LockInv, robbed = {}, ClaimInv, NEW p \in Procs, ReadClock(p) PROVE ClaimInv'
BY DEF LockInv, LockTypes, ClaimInv, BudgetTypes, ClaimantInv, CountInv, DayCap,
       Days, ReadClock, Goto

(* reading the day on record; *)
LEMMA ReadRiskDayClaims ==
  ASSUME LockInv, robbed = {}, ClaimInv, NEW p \in Procs, ReadRiskDay(p) PROVE ClaimInv'
BY DEF LockInv, LockTypes, ClaimInv, BudgetTypes, ClaimantInv, CountInv, DayCap,
       Days, ReadRiskDay, Goto, budgetVars

(* the reset of a new day, by the only process at work; *)
LEMMA ResetClaims ==
  ASSUME LockInv, robbed = {}, ClaimInv, NEW p \in Procs, ResetRiskState(p) PROVE ClaimInv'
<1>1. \A q \in Procs : pc[q] \in Working => q = p
  BY WorksAlone DEF ResetRiskState
<1>2. BudgetTypes' /\ CountInv' /\ DayCap'
  BY BudgetAssumption DEF ClaimInv, BudgetTypes, ClaimantInv, CountInv, DayCap, Days,
                          ResetRiskState
<1>3. ClaimantInv'
  BY <1>1 DEF LockInv, LockTypes, ClaimInv, BudgetTypes, ClaimantInv, Days,
              ResetRiskState, Goto
<1> QED
  BY <1>2, <1>3 DEF ClaimInv

(* the claim itself; *)
LEMMA AtomicClaimClaims ==
  ASSUME LockInv, robbed = {}, ClaimInv, NEW p \in Procs, AtomicRiskClaim(p) PROVE ClaimInv'
<1>1. \A q \in Procs : pc[q] \in Working => q = p
  BY WorksAlone DEF AtomicRiskClaim
<1>2. CASE claimed >= MaxClaims
  BY <1>1, <1>2 DEF LockInv, LockTypes, ClaimInv, BudgetTypes, ClaimantInv, CountInv,
                    DayCap, Days, AtomicRiskClaim, Goto
<1>3. CASE ~(claimed >= MaxClaims)
  <2>1. /\ claimed' = claimed + 1
        /\ claimsOn' = [claimsOn EXCEPT ![day] = @ + 1]
        /\ pc' = [pc EXCEPT ![p] = "boundary"]
        /\ UNCHANGED <<day, riskDay, today>>
    BY <1>3 DEF AtomicRiskClaim, Goto, Count
  <2>2. riskDay = today[p] /\ today[p] <= day
        /\ (today[p] < day => claimsOn[day] = 0)
    BY DEF AtomicRiskClaim, ClaimInv, ClaimantInv
  <2>3. BudgetTypes'
    BY <1>3, <2>1, BudgetAssumption DEF ClaimInv, BudgetTypes, Days
  <2>4. CountInv' /\ DayCap'
    BY <1>3, <2>1, <2>2, BudgetAssumption DEF ClaimInv, BudgetTypes, CountInv, DayCap, Days
  <2>5. ClaimantInv'
    BY <1>1, <2>1 DEF LockInv, LockTypes, ClaimantInv
  <2> QED
    BY <2>3, <2>4, <2>5 DEF ClaimInv
<1> QED
  BY <1>2, <1>3

(* midnight. *)
LEMMA MidnightClaims == ASSUME ClaimInv, Midnight PROVE ClaimInv'
BY BudgetAssumption DEF ClaimInv, BudgetTypes, ClaimantInv, CountInv, DayCap, Days,
                        Midnight

(* A step that touches neither the counters nor the clock, and takes       *)
(* nobody to the claim.                                                    *)
LEMMA ElsewhereClaims ==
  ASSUME ClaimInv, UNCHANGED <<day, riskDay, claimed, today, claimsOn>>,
         \A p \in Procs : pc'[p] = pc[p] \/ pc'[p] \notin {"state", "reset", "claim"}
  PROVE  ClaimInv'
BY DEF ClaimInv, BudgetTypes, ClaimantInv, CountInv, DayCap

(* Locking and dying lead no process into the claim. *)
LEMMA LockElsewhere ==
  ASSUME LockInv, NEW p \in Procs, LockStep(p) \/ Kill(p)
  PROVE  \A q \in Procs : pc'[q] = pc[q] \/ pc'[q] \notin {"state", "reset", "claim"}
BY DEF LockInv, LockTypes, LockStep, Kill, Launch, OpenLock, ReopenLock, Create,
       CheckPid, UnlinkStale, WriteLock, WriteLockFails, Release, Goto

(* So every step keeps the claims' invariant. *)
LEMMA ClaimStep == ASSUME LockInv, robbed = {}, ClaimInv, [Next]_vars PROVE ClaimInv'
<1>1. ASSUME NEW p \in Procs, LockStep(p), UNCHANGED budgetVars PROVE ClaimInv'
  BY <1>1, LockElsewhere, ElsewhereClaims DEF budgetVars
<1>2. ASSUME NEW p \in Procs, KillConsumer(p) PROVE ClaimInv'
  BY <1>2, LockElsewhere, ElsewhereClaims DEF KillConsumer
<1>3. ASSUME NEW p \in Procs,
             ReadClock(p) \/ ReadRiskDay(p) \/ ResetRiskState(p) \/ AtomicRiskClaim(p)
      PROVE  ClaimInv'
  BY <1>3, ReadClockClaims, ReadRiskDayClaims, ResetClaims, AtomicClaimClaims
<1>4. ASSUME NEW p \in Procs, Boundary(p) \/ Send(p) \/ Record(p) PROVE ClaimInv'
  <2>1. \A q \in Procs : pc'[q] = pc[q] \/ pc'[q] \notin {"state", "reset", "claim"}
    BY <1>4 DEF LockInv, LockTypes, Boundary, Send, Record, Goto
  <2>2. UNCHANGED <<day, riskDay, claimed, today, claimsOn>>
    BY <1>4 DEF Boundary, Send, Record, budgetVars
  <2> QED
    BY <2>1, <2>2, ElsewhereClaims
<1>5. ASSUME NEW e \in Executors, ExecutorOrders(e) PROVE ClaimInv'
  BY <1>5, ElsewhereClaims DEF ExecutorOrders
<1>6. CASE Midnight
  BY <1>6, MidnightClaims
<1>7. CASE UNCHANGED vars
  BY <1>7, ElsewhereClaims DEF vars, budgetVars
<1> QED
  BY <1>1, <1>2, <1>3, <1>4, <1>5, <1>6, <1>7 DEF Next

(* Robbed processes stay on record. *)
LEMMA RobbedGrows == ASSUME [Next]_vars PROVE robbed \subseteq robbed'
<1>1. ASSUME NEW p \in Procs, LockStep(p) \/ Kill(p) PROVE robbed \subseteq robbed'
  BY <1>1 DEF LockStep, Kill, Launch, OpenLock, ReopenLock, Create, CheckPid, UnlinkStale,
     WriteLock, WriteLockFails, Release, RemoveLock, lockVars
<1>2. ASSUME NEW p \in Procs,
             \/ ReadClock(p) \/ ReadRiskDay(p) \/ ResetRiskState(p)
             \/ AtomicRiskClaim(p) \/ Boundary(p) \/ Send(p) \/ Record(p)
      PROVE  robbed \subseteq robbed'
  BY <1>2 DEF ReadClock, ReadRiskDay, ResetRiskState, AtomicRiskClaim, Boundary, Send,
     Record, lockVars
<1> QED
  BY <1>1, <1>2 DEF Next, KillConsumer, ExecutorOrders, Midnight, vars, lockVars

(* _risk_check_and_claim: as long as nobody is robbed of the lock, on no   *)
(* UTC day does the consumer get more claims than max_trades_per_day and   *)
(* one, however often it is killed and started and wherever midnight falls. *)
THEOREM ClaimsCapped == Spec => []ClaimCap
<1> DEFINE Inv == LockInv /\ (robbed = {} => ClaimInv)
<1>1. Init => Inv
  BY LockInitially, ClaimInitially
<1>2. Inv /\ [Next]_vars => Inv'
  <2> SUFFICES ASSUME Inv, [Next]_vars PROVE Inv'
    OBVIOUS
  <2>1. LockInv'
    BY LockStepKeeps
  <2>2. ASSUME robbed' = {} PROVE ClaimInv'
    BY <2>2, RobbedGrows, ClaimStep
  <2> QED
    BY <2>1, <2>2
<1>3. Inv => ClaimCap
  BY DEF ClaimInv, DayCap, ClaimCap
<1> QED
  BY <1>1, <1>2, <1>3, PTL DEF Spec

-----------------------------------------------------------------------------
(* Types, however the starts overlap.                                      *)

(* The steps of the lock keep its types; *)
LEMMA LockKeepsTypes ==
  ASSUME LockTypes, NEW p \in Procs, LockStep(p)
  PROVE  LockTypes' /\ UNCHANGED crashes
<1> USE DEF LockTypes, Pcs, Goto, lockVars
<1>0. NoLock \in LockFiles /\ [by |-> p, written |-> FALSE] \in LockFiles
  BY DEF LockFiles
<1>1. CASE WriteLock(p)
  <2>1. [lock EXCEPT !.written = TRUE] \in LockFiles \/ lock.by # p
    BY DEF LockFiles, NoLock
  <2> QED
    BY <1>1, <2>1 DEF WriteLock
<1>2. CASE OpenLock(p) \/ ReopenLock(p)
  BY <1>0, <1>2 DEF OpenLock, ReopenLock, Create
<1>3. CASE UnlinkStale(p)
  BY <1>0, <1>3 DEF UnlinkStale, RemoveLock
<1>4. CASE WriteLockFails(p) \/ Release(p)
  BY <1>0, <1>4 DEF WriteLockFails, Release, RemoveLock
<1>5. CASE Launch(p)
  BY <1>5 DEF Launch
<1>6. CASE CheckPid(p)
  <2>1. lock # NoLock => lock.by \in Procs
    BY DEF LockFiles
  <2> QED
    BY <1>6, <2>1 DEF CheckPid
<1> QED
  BY <1>1, <1>2, <1>3, <1>4, <1>5, <1>6 DEF LockStep

(* and so do the steps of the consumer that holds it. *)
LEMMA WorkKeepsTypes ==
  ASSUME TypeOK, NEW p \in Procs,
         \/ ReadClock(p) \/ ReadRiskDay(p) \/ ResetRiskState(p)
         \/ AtomicRiskClaim(p) \/ Boundary(p) \/ Send(p) \/ Record(p)
  PROVE  TypeOK'
<1> USE DEF TypeOK, Goto, lockVars, budgetVars
<1>0. /\ day \in 0 .. LastDay /\ Count(claimsOn) \in [Days -> Nat]
      /\ Count(sentOn) \in [Days -> Nat] /\ Count(trades) \in [Days -> Nat]
      /\ Count(lost) \in [Days -> Nat]
  <2>1. day \in Days
    OBVIOUS
  <2>2. day \in 0 .. LastDay
    BY <2>1, BudgetAssumption DEF Days
  <2> QED
    BY <2>1, <2>2 DEF Count
<1>1. CASE ReadClock(p)
  BY <1>0, <1>1 DEF ReadClock
<1>2. CASE ReadRiskDay(p) \/ Boundary(p)
  BY <1>2 DEF ReadRiskDay, Boundary
<1>3. CASE ResetRiskState(p)
  BY <1>3, BudgetAssumption DEF ResetRiskState
<1>4. CASE AtomicRiskClaim(p)
  <2>1. claimed >= MaxClaims \/ claimed + 1 \in 0 .. MaxClaims
    BY BudgetAssumption
  <2> QED
    BY <1>0, <1>4, <2>1 DEF AtomicRiskClaim
<1>5. CASE Send(p)
  BY <1>0, <1>5 DEF Send, SendCounted
<1>6. CASE Record(p)
  BY <1>0, <1>6 DEF Record, RecordOrderAttempt
<1> QED
  BY <1>1, <1>2, <1>3, <1>4, <1>5, <1>6

(* Every variable keeps its type, however starts overlap: no count becomes *)
(* negative, and the claims of the stored day stay within the limit.        *)
THEOREM TypeCorrect == Spec => []TypeOK
<1>1. Init => TypeOK
  BY BudgetAssumption, LockAssumption DEF Init, LockInit, TypeOK, LockFiles, Days
<1>2. TypeOK /\ [Next]_vars => TypeOK'
  <2> SUFFICES ASSUME TypeOK, [Next]_vars PROVE TypeOK'
    OBVIOUS
  <2>0. /\ LockTypes /\ Count(sentOn) \in [Days -> Nat]
        /\ Count(trades) \in [Days -> Nat] /\ Count(lost) \in [Days -> Nat]
    BY DEF TypeOK, LockTypes, Pcs, Count, Days
  <2>1. ASSUME NEW p \in Procs, LockStep(p), UNCHANGED budgetVars PROVE TypeOK'
    BY <2>0, <2>1, LockKeepsTypes DEF TypeOK, LockTypes, Pcs, budgetVars
  <2>2. ASSUME NEW p \in Procs, KillConsumer(p) PROVE TypeOK'
    BY <2>0, <2>2, LockAssumption DEF KillConsumer, Kill, Goto, TypeOK
  <2>3. ASSUME NEW e \in Executors, ExecutorOrders(e) PROVE TypeOK'
    BY <2>0, <2>3 DEF ExecutorOrders, SendCounted, RecordOrderAttempt, TypeOK, lockVars
  <2>4. CASE Midnight
    <3>1. day' \in Days
      <4>1. day \in Days /\ day < LastDay /\ day' = day + 1
        BY <2>4 DEF Midnight, TypeOK
      <4> QED
        BY <4>1, BudgetAssumption DEF Days
    <3> QED
      BY <2>4, <3>1 DEF Midnight, TypeOK, lockVars
  <2>5. CASE UNCHANGED vars
    BY <2>5 DEF vars, lockVars, budgetVars, TypeOK
  <2> QED
    BY <2>1, <2>2, <2>3, <2>4, <2>5, WorkKeepsTypes DEF Next
<1> QED
  BY <1>1, <1>2, PTL DEF Spec

-----------------------------------------------------------------------------
(* Who has passed the boundary's check and not sent, or sent and not       *)
(* recorded.                                                               *)
SendSet == {e \in Executors : epc[e] = "send"} \cup {p \in Procs : pc[p] = "send"}
RecSet == {e \in Executors : epc[e] = "record"} \cup {p \in Procs : pc[p] = "record"}

(* Those who may be there: the executors and the consumers at work, of    *)
(* which the lock lets N run at once.                                      *)
AtWork == {p \in Procs : pc[p] \in Working}
Crew == Executors \cup AtWork

Few(N) == IsFiniteSet(AtWork) /\ Cardinality(AtWork) <= N

(* BoundaryCap, for N consumers. *)
CapFor(N) ==
  \A d \in Days : sentOn[d] <= MaxTrades + Cardinality(Executors) + N - 1 + lost[d]

CapTypes ==
  /\ day \in Days
  /\ trades \in [Days -> Nat] /\ sentOn \in [Days -> Nat] /\ lost \in [Days -> Nat]
  /\ epc \in [Executors -> {"run", "send", "record"}]

(* Orders of the day are recorded, lost or in somebody's hands, and with   *)
(* those that are about to be sent they stay within the cap.               *)
FlightInv(N) ==
  /\ \A d \in Days : d > day => sentOn[d] = 0
  /\ sentOn[day] <= trades[day] + lost[day] + Cardinality(RecSet)
  /\ sentOn[day] + Cardinality(SendSet) <= MaxTrades + Cardinality(Executors) + N - 1 + lost[day]

CapInv(N) == CapTypes /\ FlightInv(N) /\ CapFor(N)

(* The processes that may be sending are finitely many. *)
LEMMA CrewBound ==
  ASSUME NEW N \in Nat \ {0}, Few(N)
  PROVE  /\ IsFiniteSet(Crew) /\ Cardinality(Crew) \in Nat
         /\ Cardinality(Executors) \in Nat
         /\ Cardinality(Crew) <= Cardinality(Executors) + N
<1>1. IsFiniteSet(Executors) /\ IsFiniteSet(AtWork) /\ Cardinality(AtWork) <= N
  BY BudgetAssumption DEF Few
<1>2. Cardinality(Executors) \in Nat /\ Cardinality(AtWork) \in Nat
  BY <1>1, FS_CardinalityType
<1>3. IsFiniteSet(Crew) /\ Cardinality(Crew) \in Nat
  BY <1>1, FS_Union, FS_CardinalityType DEF Crew
<1>4. Executors \cap AtWork = {}
  BY BudgetAssumption DEF AtWork
<1>5. Cardinality(Crew) = Cardinality(Executors) + Cardinality(AtWork)
  BY <1>1, <1>2, <1>4, FS_Union, FS_EmptySet DEF Crew
<1> QED
  BY <1>1, <1>2, <1>3, <1>5

(* So are the orders checked and not yet recorded. *)
LEMMA FlightBound ==
  ASSUME NEW N \in Nat \ {0}, Few(N)
  PROVE  /\ IsFiniteSet(SendSet) /\ Cardinality(SendSet) \in Nat
         /\ IsFiniteSet(RecSet) /\ Cardinality(RecSet) \in Nat
         /\ Cardinality(SendSet) <= Cardinality(Executors) + N
<1>1. SendSet \in SUBSET Crew /\ RecSet \in SUBSET Crew
  BY DEF SendSet, RecSet, Crew, AtWork
<1>2. /\ IsFiniteSet(SendSet) /\ Cardinality(SendSet) \in Nat
      /\ IsFiniteSet(RecSet) /\ Cardinality(RecSet) \in Nat
  BY <1>1, CrewBound, FS_Subset, FS_CardinalityType
<1>3. Cardinality(SendSet) <= Cardinality(Crew)
  BY <1>1, CrewBound, FS_Subset
<1> QED
  BY <1>2, <1>3, CrewBound

(* Nobody is in two places: with one more about to send there are still no *)
(* more in flight than there are executors and consumers.                  *)
LEMMA FlightRoom ==
  ASSUME NEW N \in Nat \ {0}, Few(N), NEW a \in Crew, a \notin RecSet
  PROVE  /\ Cardinality(SendSet \cup {a}) \in Nat
         /\ Cardinality(SendSet \cup {a}) + Cardinality(RecSet) <= Cardinality(Executors) + N
<1> DEFINE S == SendSet \cup {a}
<1>1. S \in SUBSET Crew /\ RecSet \in SUBSET Crew /\ S \cup RecSet \in SUBSET Crew
  BY DEF SendSet, RecSet, Crew, AtWork
<1>2. S \cap RecSet = {}
  BY BudgetAssumption DEF SendSet, RecSet
<1> HIDE DEF S
<1>3. /\ IsFiniteSet(S) /\ Cardinality(S) \in Nat
      /\ IsFiniteSet(RecSet) /\ Cardinality(RecSet) \in Nat
      /\ IsFiniteSet(S \cup RecSet)
  <2>1. IsFiniteSet(Crew)
    BY CrewBound
  <2> QED
    BY <1>1, <2>1, FS_Subset, FS_CardinalityType
<1>4. Cardinality(S \cup RecSet) = Cardinality(S) + Cardinality(RecSet)
  <2>1. Cardinality(S \cap RecSet) = 0
    BY <1>2, FS_EmptySet
  <2>2. Cardinality(S \cup RecSet) = Cardinality(S) + Cardinality(RecSet) - Cardinality(S \cap RecSet)
    BY <1>3, FS_Union
  <2> QED
    BY <1>3, <2>1, <2>2
<1>5. Cardinality(S \cup RecSet) <= Cardinality(Crew)
  BY <1>1, CrewBound, FS_Subset
<1> QED
  BY <1>3, <1>4, <1>5, CrewBound DEF S

(* The cap's invariant holds at the start, *)
LEMMA CapInitially == ASSUME NEW N \in Nat \ {0} PROVE Init => CapInv(N)
<1> SUFFICES ASSUME Init PROVE CapInv(N)
  OBVIOUS
<1>1. SendSet = {} /\ RecSet = {}
  BY DEF Init, LockInit, SendSet, RecSet
<1>2. Cardinality(Executors) \in Nat
  BY BudgetAssumption, FS_CardinalityType
<1> QED
  BY <1>1, <1>2, BudgetAssumption, FS_EmptySet
     DEF Init, CapInv, CapTypes, FlightInv, CapFor, Days

(* Somebody passes the check. *)
LEMMA CheckCaps ==
  ASSUME NEW N \in Nat \ {0}, Few(N), CapInv(N), CapTypes', NEW a \in Crew, a \notin RecSet, BelowLimit,
         SendSet' = SendSet \cup {a}, RecSet' = RecSet,
         UNCHANGED <<day, trades, sentOn, lost>>
  PROVE  CapInv(N)'
<1>1. /\ Cardinality(SendSet') \in Nat
      /\ Cardinality(SendSet') + Cardinality(RecSet') <= Cardinality(Executors) + N
  BY FlightRoom
<1>2. Cardinality(RecSet) \in Nat /\ Cardinality(Executors) \in Nat
  BY FlightBound, CrewBound
<1> QED
  BY <1>1, <1>2, BudgetAssumption DEF CapInv, CapTypes, FlightInv, CapFor, BelowLimit

(* Somebody sends. *)
LEMMA SendCaps ==
  ASSUME NEW N \in Nat \ {0}, Few(N), CapInv(N), CapTypes', NEW a \in SendSet, a \notin RecSet,
         SendSet' = SendSet \ {a}, RecSet' = RecSet \cup {a}, SendCounted,
         UNCHANGED <<day, trades, lost>>
  PROVE  CapInv(N)'
<1>1. /\ Cardinality(SendSet') = Cardinality(SendSet) - 1
      /\ Cardinality(RecSet') = Cardinality(RecSet) + 1
  BY FlightBound, FS_AddElement, FS_RemoveElement
<1>2. /\ Cardinality(SendSet) \in Nat /\ Cardinality(SendSet) > 0
      /\ Cardinality(RecSet) \in Nat /\ Cardinality(Executors) \in Nat
  BY FlightBound, CrewBound, FS_EmptySet
<1>3. sentOn' = [sentOn EXCEPT ![day] = sentOn[day] + 1]
  BY DEF SendCounted, Count
<1>4. FlightInv(N)'
  <2>1. /\ sentOn'[day'] = sentOn[day] + 1 /\ day' = day /\ sentOn[day] \in Nat
        /\ trades'[day'] = trades[day] /\ lost'[day'] = lost[day]
        /\ trades[day] \in Nat /\ lost[day] \in Nat
    BY <1>3 DEF CapInv, CapTypes
  <2>2. \A d \in Days : d > day => sentOn'[d] = 0
    BY <1>3 DEF CapInv, CapTypes, FlightInv, Days
  <2>3. sentOn'[day'] <= trades'[day'] + lost'[day'] + Cardinality(RecSet')
    BY <1>1, <1>2, <2>1 DEF CapInv, FlightInv
  <2>4. sentOn'[day'] + Cardinality(SendSet')
           <= MaxTrades + Cardinality(Executors) + N - 1 + lost'[day']
    BY <1>1, <1>2, <2>1, BudgetAssumption DEF CapInv, FlightInv
  <2> QED
    BY <2>1, <2>2, <2>3, <2>4 DEF FlightInv
<1>5. CapFor(N)'
  BY <1>2, <1>3, BudgetAssumption DEF CapInv, CapTypes, FlightInv, CapFor
<1> QED
  BY <1>4, <1>5 DEF CapInv

(* Somebody records, fails to, or is killed instead. *)
LEMMA RecordCaps ==
  ASSUME NEW N \in Nat \ {0}, Few(N), CapInv(N), CapTypes', NEW a \in RecSet,
         SendSet' = SendSet, RecSet' = RecSet \ {a},
         \/ trades' = Count(trades) /\ lost' = lost
         \/ lost' = Count(lost) /\ trades' = trades,
         UNCHANGED <<day, sentOn>>
  PROVE  CapInv(N)'
<1>1. /\ Cardinality(RecSet') = Cardinality(RecSet) - 1
      /\ Cardinality(RecSet) \in Nat /\ Cardinality(SendSet) \in Nat
      /\ Cardinality(Executors) \in Nat
  BY FlightBound, CrewBound, FS_RemoveElement
<1>2. CASE trades' = Count(trades) /\ lost' = lost
  BY <1>1, <1>2, BudgetAssumption DEF CapInv, CapTypes, FlightInv, CapFor, Count
<1>3. CASE lost' = Count(lost) /\ trades' = trades
  BY <1>1, <1>3, BudgetAssumption DEF CapInv, CapTypes, FlightInv, CapFor, Count
<1> QED
  BY <1>2, <1>3

(* Nobody does any of this; a consumer about to send may be gone. *)
LEMMA ElsewhereCaps ==
  ASSUME NEW N \in Nat \ {0}, LockTypes, Few(N), CapInv(N), CapTypes', NEW a,
         SendSet' = SendSet \/ SendSet' = SendSet \ {a}, RecSet' = RecSet,
         UNCHANGED <<day, trades, sentOn, lost>>
  PROVE  CapInv(N)'
<1>1. /\ Cardinality(RecSet) \in Nat /\ Cardinality(SendSet) \in Nat
      /\ Cardinality(Executors) \in Nat
  BY FlightBound, CrewBound
<1>2. Cardinality(SendSet \ {a}) \in Nat /\ Cardinality(SendSet \ {a}) <= Cardinality(SendSet)
  <2>1. IsFiniteSet(SendSet)
    BY FlightBound
  <2>2. SendSet \ {a} \in SUBSET SendSet
    OBVIOUS
  <2>3. IsFiniteSet(SendSet \ {a}) /\ Cardinality(SendSet \ {a}) <= Cardinality(SendSet)
    BY <2>1, <2>2, FS_Subset
  <2> QED
    BY <2>3, FS_CardinalityType
<1>3. Cardinality(SendSet') \in Nat /\ Cardinality(SendSet') <= Cardinality(SendSet)
  BY <1>1, <1>2
<1> QED
  BY <1>1, <1>3, BudgetAssumption DEF CapInv, CapTypes, FlightInv, CapFor

(* and every step keeps it: midnight; *)
LEMMA MidnightCaps == ASSUME NEW N \in Nat \ {0}, LockTypes, Few(N), CapInv(N), Midnight PROVE CapInv(N)'
<1>1. SendSet' = SendSet /\ RecSet' = RecSet
  BY DEF Midnight, SendSet, RecSet
<1>2. /\ Cardinality(SendSet) \in Nat /\ Cardinality(RecSet) \in Nat
      /\ Cardinality(Executors) \in Nat
      /\ Cardinality(SendSet) <= Cardinality(Executors) + N
  BY FlightBound, CrewBound
<1>3. CapTypes'
  BY BudgetAssumption DEF CapInv, CapTypes, Days, Midnight
<1>4. FlightInv(N)'
  <2>1. day' = day + 1 /\ sentOn[day'] = 0 /\ day' \in Days
    BY <1>3 DEF CapInv, CapTypes, FlightInv, Days, Midnight
  <2>2. trades[day'] \in Nat /\ lost[day'] \in Nat
    BY <2>1 DEF CapInv, CapTypes
  <2>3. UNCHANGED <<trades, sentOn, lost>>
    BY DEF Midnight
  <2>4. \A d \in Days : d > day' => sentOn'[d] = 0
    BY <2>1, <2>3 DEF CapInv, CapTypes, FlightInv, Days
  <2>5. sentOn'[day'] <= trades'[day'] + lost'[day'] + Cardinality(RecSet')
    BY <1>1, <1>2, <2>1, <2>2, <2>3
  <2>6. sentOn'[day'] + Cardinality(SendSet')
           <= MaxTrades + Cardinality(Executors) + N - 1 + lost'[day']
    BY <1>1, <1>2, <2>1, <2>2, <2>3, BudgetAssumption
  <2> QED
    BY <2>4, <2>5, <2>6 DEF FlightInv
<1>5. CapFor(N)'
  BY DEF CapInv, CapFor, Midnight
<1> QED
  BY <1>3, <1>4, <1>5 DEF CapInv

(* A process that moves between labels that are neither of the two leaves  *)
(* both sets as they were.                                                 *)
LEMMA MovesElsewhere ==
  ASSUME NEW N \in Nat \ {0}, LockTypes, Few(N), CapInv(N), NEW p \in Procs, NEW l \in Pcs \ {"send", "record"},
         pc[p] \notin {"send", "record"}, pc' = [pc EXCEPT ![p] = l],
         UNCHANGED <<day, trades, sentOn, lost, epc>>
  PROVE  CapInv(N)'
<1>1. SendSet' = SendSet /\ RecSet' = RecSet
  BY DEF LockTypes, SendSet, RecSet
<1>2. CapTypes'
  BY DEF CapInv, CapTypes
<1> QED
  BY <1>1, <1>2, ElsewhereCaps

(* a step of the lock; *)
LEMMA LockCaps ==
  ASSUME NEW N \in Nat \ {0}, LockTypes, Few(N), CapInv(N), NEW p \in Procs, LockStep(p), UNCHANGED budgetVars PROVE CapInv(N)'
<1>1. /\ pc[p] \notin {"send", "record"}
      /\ \E l \in Pcs \ {"send", "record"} : pc' = [pc EXCEPT ![p] = l]
  BY DEF Pcs, LockStep, Launch, OpenLock, ReopenLock, Create, CheckPid, UnlinkStale,
         WriteLock, WriteLockFails, Release, Goto
<1> QED
  BY <1>1, MovesElsewhere DEF budgetVars

(* a step of the claim; *)
LEMMA ClaimCaps ==
  ASSUME NEW N \in Nat \ {0}, LockTypes, Few(N), CapInv(N), NEW p \in Procs,
         ReadClock(p) \/ ReadRiskDay(p) \/ ResetRiskState(p) \/ AtomicRiskClaim(p)
  PROVE  CapInv(N)'
<1>1. /\ pc[p] \notin {"send", "record"}
      /\ \E l \in Pcs \ {"send", "record"} : pc' = [pc EXCEPT ![p] = l]
  BY DEF Pcs, ReadClock, ReadRiskDay, ResetRiskState, AtomicRiskClaim, Goto
<1>2. UNCHANGED <<day, trades, sentOn, lost, epc>>
  BY DEF ReadClock, ReadRiskDay, ResetRiskState, AtomicRiskClaim, budgetVars
<1> QED
  BY <1>1, <1>2, MovesElsewhere

(* the boundary's check; *)
LEMMA BoundaryCaps ==
  ASSUME NEW N \in Nat \ {0}, LockTypes, Few(N), CapInv(N), NEW p \in Procs, Boundary(p) PROVE CapInv(N)'
<1>1. CASE BelowLimit
  <2>1. pc[p] = "boundary" /\ pc' = [pc EXCEPT ![p] = "send"]
        /\ UNCHANGED <<day, trades, sentOn, lost, epc>>
    BY <1>1 DEF Boundary, Goto, budgetVars
  <2>2. SendSet' = SendSet \cup {p} /\ RecSet' = RecSet
    BY <2>1 DEF LockTypes, SendSet, RecSet
  <2>3. p \in Crew /\ p \notin RecSet
    BY <2>1, BudgetAssumption DEF Crew, AtWork, RecSet
  <2>4. CapTypes'
    BY <2>1 DEF CapInv, CapTypes
  <2> QED
    BY <1>1, <2>1, <2>2, <2>3, <2>4, CheckCaps
<1>2. CASE ~BelowLimit
  BY <1>2, MovesElsewhere DEF Boundary, Goto, budgetVars, Pcs
<1> QED
  BY <1>1, <1>2

(* the consumer's order; *)
LEMMA ConsumerSendCaps ==
  ASSUME NEW N \in Nat \ {0}, LockTypes, Few(N), CapInv(N), NEW p \in Procs, Send(p) PROVE CapInv(N)'
<1>1. pc[p] = "send" /\ pc' = [pc EXCEPT ![p] = "record"] /\ SendCounted
      /\ UNCHANGED <<day, trades, lost, epc>>
  BY DEF Send, Goto
<1>2. SendSet' = SendSet \ {p} /\ RecSet' = RecSet \cup {p}
  BY <1>1, BudgetAssumption DEF LockTypes, SendSet, RecSet
<1>3. p \in SendSet /\ p \notin RecSet
  BY <1>1, BudgetAssumption DEF SendSet, RecSet
<1>4. CapTypes'
  BY <1>1 DEF CapInv, CapTypes, SendCounted, Count
<1> QED
  BY <1>1, <1>2, <1>3, <1>4, SendCaps

(* its record; *)
LEMMA ConsumerRecordCaps ==
  ASSUME NEW N \in Nat \ {0}, LockTypes, Few(N), CapInv(N), NEW p \in Procs, Record(p) PROVE CapInv(N)'
<1>1. pc[p] = "record" /\ pc' = [pc EXCEPT ![p] = "run"]
      /\ UNCHANGED <<day, sentOn, epc>>
      /\ \/ trades' = Count(trades) /\ lost' = lost
         \/ lost' = Count(lost) /\ trades' = trades
  BY DEF Record, RecordOrderAttempt, Goto
<1>2. SendSet' = SendSet /\ RecSet' = RecSet \ {p} /\ p \in RecSet
  BY <1>1, BudgetAssumption DEF LockTypes, SendSet, RecSet
<1>3. CapTypes'
  BY <1>1 DEF CapInv, CapTypes, Count
<1> QED
  BY <1>1, <1>2, <1>3, RecordCaps

(* a kill, which loses at most the order in flight; *)
LEMMA KillCaps ==
  ASSUME NEW N \in Nat \ {0}, LockTypes, Few(N), CapInv(N), NEW p \in Procs, KillConsumer(p) PROVE CapInv(N)'
<1>1. pc' = [pc EXCEPT ![p] = "dead"] /\ UNCHANGED <<day, trades, sentOn, epc>>
  BY DEF KillConsumer, Kill, Goto
<1>2. CASE pc[p] = "record"
  <2>1. lost' = Count(lost)
    BY <1>2 DEF KillConsumer
  <2>2. SendSet' = SendSet /\ RecSet' = RecSet \ {p} /\ p \in RecSet
    BY <1>1, <1>2, BudgetAssumption DEF LockTypes, SendSet, RecSet
  <2>3. CapTypes'
    BY <1>1, <2>1 DEF CapInv, CapTypes, Count
  <2> QED
    BY <1>1, <2>1, <2>2, <2>3, RecordCaps
<1>3. CASE pc[p] # "record"
  <2>1. lost' = lost
    BY <1>3 DEF KillConsumer
  <2>2. SendSet' = SendSet \ {p} /\ RecSet' = RecSet
    BY <1>1, <1>3, BudgetAssumption DEF LockTypes, SendSet, RecSet
  <2>3. CapTypes'
    BY <1>1, <2>1 DEF CapInv, CapTypes
  <2> QED
    BY <1>1, <2>1, <2>2, <2>3, ElsewhereCaps
<1> QED
  BY <1>2, <1>3

(* an executor's check, order and record. *)
LEMMA ExecutorCaps ==
  ASSUME NEW N \in Nat \ {0}, LockTypes, Few(N), CapInv(N), NEW e \in Executors, ExecutorOrders(e) PROVE CapInv(N)'
<1>0. e \notin Procs /\ epc \in [Executors -> {"run", "send", "record"}]
      /\ UNCHANGED <<pc, day>>
  BY BudgetAssumption DEF CapInv, CapTypes, ExecutorOrders
<1>1. CASE epc[e] = "run" /\ BelowLimit /\ epc' = [epc EXCEPT ![e] = "send"]
           /\ UNCHANGED <<trades, sentOn, lost>>
  <2>1. SendSet' = SendSet \cup {e} /\ RecSet' = RecSet
    BY <1>0, <1>1 DEF SendSet, RecSet
  <2>2. e \in Crew /\ e \notin RecSet
    BY <1>0, <1>1 DEF Crew, AtWork, RecSet
  <2>3. CapTypes'
    BY <1>0, <1>1 DEF CapInv, CapTypes
  <2> QED
    BY <1>0, <1>1, <2>1, <2>2, <2>3, CheckCaps
<1>2. CASE epc[e] = "send" /\ SendCounted /\ epc' = [epc EXCEPT ![e] = "record"]
           /\ UNCHANGED <<trades, lost>>
  <2>1. SendSet' = SendSet \ {e} /\ RecSet' = RecSet \cup {e}
    BY <1>0, <1>2 DEF SendSet, RecSet
  <2>2. e \in SendSet /\ e \notin RecSet
    BY <1>0, <1>2 DEF SendSet, RecSet
  <2>3. CapTypes'
    BY <1>0, <1>2 DEF CapInv, CapTypes, SendCounted, Count
  <2> QED
    BY <1>0, <1>2, <2>1, <2>2, <2>3, SendCaps
<1>3. CASE epc[e] = "record" /\ RecordOrderAttempt /\ epc' = [epc EXCEPT ![e] = "run"]
           /\ UNCHANGED sentOn
  <2>1. SendSet' = SendSet /\ RecSet' = RecSet \ {e} /\ e \in RecSet
    BY <1>0, <1>3 DEF SendSet, RecSet
  <2>2. \/ trades' = Count(trades) /\ lost' = lost
        \/ lost' = Count(lost) /\ trades' = trades
    BY <1>3 DEF RecordOrderAttempt
  <2>3. CapTypes'
    BY <1>0, <1>3, <2>2 DEF CapInv, CapTypes, Count
  <2> QED
    BY <1>0, <1>3, <2>1, <2>2, <2>3, RecordCaps
<1> QED
  BY <1>1, <1>2, <1>3 DEF ExecutorOrders

(* So every step keeps the cap's invariant. *)
LEMMA CapStep ==
  ASSUME NEW N \in Nat \ {0}, LockTypes, Few(N), CapInv(N), [Next]_vars
  PROVE  CapInv(N)'
<1>1. CASE UNCHANGED vars
  <2>1. SendSet' = SendSet /\ RecSet' = RecSet
    BY <1>1 DEF vars, budgetVars, SendSet, RecSet
  <2>2. CapTypes'
    BY <1>1 DEF vars, budgetVars, CapInv, CapTypes
  <2> QED
    BY <1>1, <2>1, <2>2, ElsewhereCaps DEF vars, budgetVars
<1> QED
  BY <1>1, LockCaps, KillCaps, ClaimCaps, BoundaryCaps, ConsumerSendCaps,
     ConsumerRecordCaps, ExecutorCaps, MidnightCaps DEF Next

(* place_order's check and record of the day's attempts, whatever the lock *)
(* does: if it lets N consumers work at once, the orders of a UTC day      *)
(* exceed CBP_MAX_TRADES_PER_DAY by one for each executor, one for each    *)
(* consumer but the first, and the attempts that were not recorded, at     *)
(* most. Two starters that both reclaim a dead lock cost one order more.   *)
THEOREM OrdersCappedFor ==
  ASSUME NEW CONSTANT N \in Nat \ {0}
  PROVE  Spec /\ []Few(N) => []CapFor(N)
<1>1. Init => CapInv(N)
  BY CapInitially
<1>2. LockTypes /\ Few(N) /\ CapInv(N) /\ [Next]_vars => CapInv(N)'
  BY CapStep
<1>3. TypeOK => LockTypes
  BY DEF TypeOK, LockTypes, Pcs
<1>4. CapInv(N) => CapFor(N)
  BY DEF CapInv
<1> QED
  BY <1>1, <1>2, <1>3, <1>4, TypeCorrect, PTL DEF Spec

(* A larger N only loosens the cap. *)
LEMMA CapGrows ==
  ASSUME NEW N \in Nat \ {0}, NEW M \in Nat \ {0}, N <= M, Few(N), CapInv(N)
  PROVE  CapInv(M)
<1>1. Cardinality(Executors) \in Nat /\ Cardinality(SendSet) \in Nat
  BY CrewBound, FlightBound
<1>2. CapFor(M)
  BY <1>1, BudgetAssumption DEF CapInv, CapTypes, CapFor
<1>3. FlightInv(M)
  BY <1>1, BudgetAssumption DEF CapInv, CapTypes, FlightInv
<1> QED
  BY <1>2, <1>3 DEF CapInv

(* The lock lets one consumer work, and besides it those that were robbed. *)
LEMMA LockLetsFew ==
  ASSUME LockInv
  PROVE  /\ Cardinality(robbed) \in Nat
         /\ Few(1 + Cardinality(robbed))
<1> DEFINE S == robbed \cup {lock.by}
<1>1. AtWork \subseteq S
  BY DEF LockInv, OwnInv, AtWork
<1>2. /\ IsFiniteSet(S) /\ Cardinality(robbed) \in Nat
      /\ Cardinality(S) <= 1 + Cardinality(robbed) /\ Cardinality(S) \in Nat
  <2>1. IsFiniteSet(robbed) /\ Cardinality(robbed) \in Nat
    BY FS_CardinalityType DEF LockInv
  <2>2. IsFiniteSet(S)
    BY <2>1, FS_AddElement
  <2>3. CASE lock.by \in robbed
    <3>1. S = robbed
      BY <2>3
    <3> QED
      BY <2>1, <3>1
  <2>4. CASE lock.by \notin robbed
    <3>1. Cardinality(S) = Cardinality(robbed) + 1
      BY <2>1, <2>4, FS_AddElement
    <3> HIDE DEF S
    <3> QED
      BY <2>1, <2>2, <3>1
  <2> QED
    BY <2>3, <2>4
<1>3. IsFiniteSet(AtWork) /\ Cardinality(AtWork) <= Cardinality(S) /\ Cardinality(AtWork) \in Nat
  BY <1>1, <1>2, FS_Subset, FS_CardinalityType
<1> QED
  BY <1>2, <1>3 DEF Few

(* place_order's check and record of the day's attempts, however starts    *)
(* overlap: the orders of a UTC day exceed CBP_MAX_TRADES_PER_DAY by one   *)
(* for each executor, one for each consumer that was robbed of its lock    *)
(* and may still work, and the attempts that were not recorded, at most,   *)
(* for any number of executors and wherever midnight falls.                *)
THEOREM OrdersCapped == Spec => []BoundaryCap
<1> DEFINE Inv == LockInv /\ CapInv(1 + Cardinality(robbed))
<1>1. Init => Inv
  <2> SUFFICES ASSUME Init PROVE Inv
    OBVIOUS
  <2>1. 1 + Cardinality(robbed) = 1
    BY FS_EmptySet DEF Init, LockInit
  <2> QED
    BY <2>1, LockInitially, CapInitially
<1>2. Inv /\ [Next]_vars => Inv'
  <2> SUFFICES ASSUME Inv, [Next]_vars PROVE Inv'
    OBVIOUS
  <2>1. LockInv' /\ robbed \subseteq robbed'
    BY LockStepKeeps, RobbedGrows
  <2>2. PICK N \in Nat \ {0} : N = 1 + Cardinality(robbed)
    BY LockLetsFew
  <2>3. PICK M \in Nat \ {0} : M = 1 + Cardinality(robbed')
    BY <2>1, FS_CardinalityType DEF LockInv
  <2>4. N <= M
    <3>1. Cardinality(robbed) <= Cardinality(robbed')
      BY <2>1, FS_Subset DEF LockInv
    <3>2. Cardinality(robbed) \in Nat /\ Cardinality(robbed') \in Nat
      BY <2>1, FS_CardinalityType DEF LockInv
    <3> QED
      BY <2>2, <2>3, <3>1, <3>2
  <2>5. LockTypes /\ Few(N) /\ CapInv(N)
    BY <2>2, LockLetsFew DEF LockInv
  <2>6. Few(M) /\ CapInv(M)
    <3>1. Cardinality(AtWork) \in Nat
      BY <2>5, FS_CardinalityType DEF Few
    <3> QED
      BY <2>4, <2>5, <3>1, CapGrows DEF Few
  <2>7. CapInv(M)'
    BY <2>5, <2>6, CapStep
  <2> QED
    BY <2>1, <2>3, <2>7
<1>3. Inv => BoundaryCap
  <2> SUFFICES ASSUME Inv PROVE BoundaryCap
    OBVIOUS
  <2>1. Cardinality(Executors) \in Nat /\ Cardinality(robbed) \in Nat
    BY BudgetAssumption, FS_CardinalityType, LockLetsFew
  <2> QED
    BY <2>1, BudgetAssumption DEF CapInv, CapTypes, CapFor, BoundaryCap
<1> QED
  BY <1>1, <1>2, <1>3, PTL DEF Spec
=============================================================================
