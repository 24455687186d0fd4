--------------------------- MODULE FillSinkProofs ---------------------------
(***************************************************************************)
(* Theorems about FillSink for any fills, deliverers, faults and bounds.   *)
(***************************************************************************)
EXTENDS FillSink, FiniteSetTheorems, WellFoundedInduction, TLAPS

(* A deliverer at work holds a fill. *)
InHand == \A s \in Sinks : pc[s] # "idle" => fill[s] \in Fills

TypeInv == TypeOK /\ InHand

USE DEF journalVars, cutoverVars, positionVars, riskVars, lossVars, localVars,
        answerVars, repairVars, Steps

(* A position stays a natural number, a PnL an integer. *)
LEMMA Products ==
  /\ \A a, b \in Nat : a * b \in Nat
  /\ \A a \in Int, b \in Nat : a * b \in Int
  /\ \A a \in Nat, b \in Nat \ {0} : a \div b \in Nat
  OBVIOUS

(* The initial state has the types. *)
LEMMA TypeInit == ASSUME SinkAssumption, Init PROVE TypeInv
<1>1. IsFiniteSet(Old)
  BY FS_Subset DEF SinkAssumption
<1>2. jlast \in Nat
  BY <1>1, FS_CardinalityType DEF Init
<1>3. PICK order \in [Old -> 1..jlast] :
         jrow = [f \in Fills |-> IF f \in Old THEN order[f] ELSE 0]
  BY DEF Init
<1>4. jrow \in [Fills -> Nat]
  BY <1>2, <1>3
<1>5. cutover \in BOOLEAN /\ locked \in BOOLEAN /\ flag \in BOOLEAN /\ repFailed \in BOOLEAN
  BY Zenon DEF Init
<1>6. known \in [Sinks -> BOOLEAN]
  BY DEF Init
<1> QED
  BY <1>2, <1>4, <1>5, <1>6 DEF Init, TypeInv, TypeOK, InHand, SinkAssumption

(* Every step of a deliverer preserves the types. *)
LEMMA TypeSink ==
  ASSUME TypeInv, SinkAssumption, NEW s \in Sinks, Sink(s)
  PROVE  TypeInv'
<1> USE DEF Goto
<1>1. ASSUME NEW f \in Fills, Deliver(s, f) PROVE TypeInv'
  BY <1>1 DEF Deliver, TypeInv, TypeOK, InHand, SinkAssumption
<1>2. CASE Cutover(s)
  BY <1>2 DEF Cutover, TypeInv, TypeOK, InHand, Journaled
<1>3. CASE Journal(s)
  BY <1>3 DEF Journal, TypeInv, TypeOK, InHand, Journaled
<1>4. CASE Position(s)
  <2> DEFINE f == fill[s]
  <2>1. f \in Fills
    BY <1>4 DEF Position, TypeInv, InHand
  <2>2. /\ Qty[f] \in Nat \ {0} /\ Price[f] \in Nat /\ posQty \in Nat /\ posAvg \in Nat
        /\ posPnl[f] \in Int
    BY <2>1 DEF TypeInv, TypeOK, SinkAssumption
  <2>3. (posQty * posAvg + Qty[f] * Price[f]) \div (posQty + Qty[f]) \in Nat
    <3>1. posQty * posAvg \in Nat /\ Qty[f] * Price[f] \in Nat
      BY <2>2, Products
    <3>2. posQty * posAvg + Qty[f] * Price[f] \in Nat /\ posQty + Qty[f] \in Nat \ {0}
      BY <2>2, <3>1
    <3> QED
      BY <3>2, Products
  <2>4. (Price[f] - posAvg) * Qty[f] \in Int
    BY <2>2, Products
  <2>5. pnl' \in [Sinks -> Int] /\ posPnl' \in [Fills -> Int] /\ posDone' \in SUBSET Fills
    BY <1>4, <2>1, <2>2, <2>4 DEF Position, TypeInv, TypeOK
  <2>6. posQty' \in Nat /\ posAvg' \in Nat
    BY <1>4, <2>2, <2>3 DEF Position, Oversell, TypeInv, TypeOK
  <2> QED
    BY <1>4, <2>5, <2>6 DEF Position, TypeInv, TypeOK, InHand
<1>5. CASE PositionRefused(s)
  BY <1>5 DEF PositionRefused, TypeInv, TypeOK, InHand
<1>6. CASE Risk(s)
  BY <1>6 DEF Risk, ApplyFillOnce, TypeInv, TypeOK, InHand
<1>7. CASE RiskSwallowed(s)
  BY <1>7 DEF RiskSwallowed, TypeInv, TypeOK, InHand
<1>8. CASE LossRefused(s)
  BY <1>8 DEF LossRefused, TypeInv, TypeOK, InHand
<1>9. CASE Loss(s)
  <2>1. fill[s] \in Fills /\ pnl[s] \in Int
    BY <1>9 DEF Loss, TypeInv, TypeOK, InHand
  <2>2. lossCount' \in Nat
    BY <1>9 DEF Loss, TypeInv, TypeOK
  <2>4. locked' \in BOOLEAN
    BY <1>9, Zenon DEF Loss, TypeInv, TypeOK
  <2>3. lossDone' \in SUBSET Fills /\ lossPnl' \in [Fills -> Int]
    BY <1>9, <2>1 DEF Loss, TypeInv, TypeOK
  <2> QED
    BY <1>9, <2>1, <2>2, <2>3, <2>4 DEF Loss, TypeInv, TypeOK, InHand
<1>10. CASE StoreFails(s)
  BY <1>10 DEF StoreFails, TypeInv, TypeOK, InHand
<1>11. CASE Fail(s)
  BY <1>11 DEF Fail, TypeInv, TypeOK, InHand
<1>12. CASE Crash(s)
  BY <1>12 DEF Crash, TypeInv, TypeOK, InHand
<1>13. CASE Incomplete(s)
  BY <1>13 DEF Incomplete, TypeInv, TypeOK, InHand
<1> QED
  BY <1>1, <1>2, <1>3, <1>4, <1>5, <1>6, <1>7, <1>8, <1>9, <1>10, <1>11, <1>12, <1>13 DEF Sink

(* So does every other step. *)
LEMMA TypeOther ==
  ASSUME TypeInv, SinkAssumption, Repair \/ LockExpires \/ UNCHANGED vars
  PROVE  TypeInv'
<1>1. CASE RepairStart
  <2>1. repFailed' \in BOOLEAN
    BY <1>1, Zenon DEF RepairStart
  <2> QED
    BY <1>1, <2>1 DEF RepairStart, TypeInv, TypeOK, InHand, Missing, Journaled
<1>2. ASSUME NEW f \in Fills, RepairReplay(f) PROVE TypeInv'
  <2>1. repFailed' \in BOOLEAN
    BY <1>2, Zenon DEF RepairReplay, TypeInv, TypeOK
  <2>2. dayPnl' \in Int /\ riskDone' \in SUBSET Fills
    BY <1>2 DEF RepairReplay, ApplyFillOnce, TypeInv, TypeOK, SinkAssumption
  <2> QED
    BY <1>2, <2>1, <2>2 DEF RepairReplay, TypeInv, TypeOK, InHand
<1>3. CASE RepairVerify
  BY <1>3 DEF RepairVerify, TypeInv, TypeOK, InHand
<1>4. CASE RepairClear
  BY <1>4 DEF RepairClear, TypeInv, TypeOK, InHand
<1>5. CASE LockExpires
  BY <1>5 DEF LockExpires, TypeInv, TypeOK, InHand
<1>6. CASE UNCHANGED vars
  BY <1>6 DEF vars, TypeInv, TypeOK, InHand
<1> QED
  BY <1>1, <1>2, <1>3, <1>4, <1>5, <1>6 DEF Repair

(* Every variable keeps its type, and a deliverer at work holds a fill,    *)
(* whatever CanonicalFillSink.on_fill and the repair script do.            *)
THEOREM TypeCorrect == Spec => [](TypeOK /\ InHand)
<1>1. Init => TypeInv
  BY TypeInit, SinkAssumption
<1>2. TypeInv /\ [Next]_vars => TypeInv'
  BY TypeSink, TypeOther, SinkAssumption DEF Next
<1> QED
  BY <1>1, <1>2, PTL DEF Spec, TypeInv

-----------------------------------------------------------------------------
(* What was answered ok *)

(* A deliverer past the journal has its fill in the journal, and past      *)
(* risk_daily in the daily total, unless apply_fill_once swallowed a       *)
(* failure; there is nothing legacy before the cutover.                    *)
Progress ==
  /\ \A s \in Sinks : pc[s] \in {"position", "risk", "loss"} => fill[s] \in Journaled
  /\ \A s \in Sinks : pc[s] = "loss" => fill[s] \in riskDone \cup swallowed
  /\ ~ cutover => legacy = {}

AckInv == Progress /\ AckedAccounted

(* Every step preserves AckInv. *)
LEMMA AckStep ==
  ASSUME TypeInv, SinkAssumption, AckInv, [Next]_vars
  PROVE  AckInv'
<1> USE DEF AckInv, Progress, AckedAccounted, Journaled, TypeInv, TypeOK, InHand, Goto
<1>1. ASSUME NEW s \in Sinks, Sink(s) PROVE AckInv'
  <2>1. ASSUME NEW f \in Fills, Deliver(s, f) PROVE AckInv'
    BY <2>1 DEF Deliver
  <2>2. CASE Cutover(s)
    BY <2>2 DEF Cutover
  <2>3. CASE Journal(s)
    <3>1. \A f \in Fills : jrow[f] # 0 => jrow'[f] # 0
      BY <2>3 DEF Journal
    <3>2. fill[s] \in Fills /\ jrow'[fill[s]] # 0
      BY <2>3 DEF Journal
    <3> QED
      BY <2>3, <3>1, <3>2 DEF Journal
  <2>4. CASE Position(s)
    BY <2>4 DEF Position
  <2>5. CASE PositionRefused(s)
    BY <2>5 DEF PositionRefused
  <2>6. CASE Risk(s)
    BY <2>6 DEF Risk, ApplyFillOnce
  <2>7. CASE RiskSwallowed(s)
    BY <2>7 DEF RiskSwallowed
  <2>8. CASE LossRefused(s)
    BY <2>8 DEF LossRefused
  <2>9. CASE Loss(s)
    BY <2>9 DEF Loss
  <2>10. CASE StoreFails(s)
    BY <2>10 DEF StoreFails
  <2>11. CASE Fail(s)
    BY <2>11 DEF Fail
  <2>12. CASE Crash(s)
    BY <2>12 DEF Crash
  <2>13. CASE Incomplete(s)
    BY <2>13 DEF Incomplete
  <2> QED
    BY <1>1, <2>1, <2>2, <2>3, <2>4, <2>5, <2>6, <2>7, <2>8, <2>9, <2>10, <2>11, <2>12, <2>13 DEF Sink
<1>2. CASE RepairStart
  BY <1>2 DEF RepairStart
<1>3. ASSUME NEW f \in Fills, RepairReplay(f) PROVE AckInv'
  <2>1. riskDone \subseteq riskDone'
    BY <1>3 DEF RepairReplay, ApplyFillOnce
  <2> QED
    BY <1>3, <2>1 DEF RepairReplay
<1>4. CASE RepairVerify
  BY <1>4 DEF RepairVerify
<1>5. CASE RepairClear
  BY <1>5 DEF RepairClear
<1>6. CASE LockExpires
  BY <1>6 DEF LockExpires
<1>7. CASE UNCHANGED vars
  BY <1>7 DEF vars
<1> QED
  BY <1>1, <1>2, <1>3, <1>4, <1>5, <1>6, <1>7 DEF Next, Repair

(* What answers mean, in every reachable state. *)
LEMMA AckAlways == Spec => [](TypeInv /\ AckInv)
<1>1. Init => AckInv
  BY SinkAssumption DEF Init, AckInv, Progress, AckedAccounted
<1>2. AckInv /\ TypeInv /\ [Next]_vars => AckInv'
  BY AckStep, SinkAssumption
<1>3. Spec => []TypeInv
  BY TypeCorrect, PTL DEF TypeInv
<1> QED
  BY <1>1, <1>2, <1>3, PTL DEF Spec

(* "Return True only when canonical fill accounting succeeds": a fill that *)
(* on_fill answered ok for is in the journal, where the repair script      *)
(* finds it, in the streak, and in the daily total unless apply_fill_once  *)
(* swallowed a failure, whatever else fails, crashes, is delivered again   *)
(* or repaired.                                                            *)
THEOREM OkMeansAccounted == Spec => []AckedAccounted
<1>1. AckInv => AckedAccounted
  BY DEF AckInv
<1> QED
  BY <1>1, AckAlways, PTL

-----------------------------------------------------------------------------
(* What failed.  FailureBlocks is not inductive: what a repair is about to *)
(* unlink must have been verified, and stay so while deliveries go on. A   *)
(* fill that gets its journal row in between is not a failed one, and one  *)
(* that fails in between is unflagged.                                     *)

Flagged == nacked \cap Missing \subseteq unflagged

BlockInv ==
  /\ nacked \subseteq Journaled
  /\ ~ flag \/ rep = "clear" => Flagged

(* Steps that add neither a failure nor, for a failed fill, a missing row. *)
LEMMA BlockKeeps ==
  ASSUME TypeInv, BlockInv, UNCHANGED unflagged,
         flag' = flag, rep' = rep, nacked' \subseteq nacked,
         Journaled \subseteq Journaled', nacked \cap Missing' \subseteq Missing
  PROVE  BlockInv'
  BY DEF BlockInv, Flagged

(* Every step keeps BlockInv. *)
LEMMA BlockStep ==
  ASSUME TypeInv, SinkAssumption, BlockInv, [Next]_vars
  PROVE  BlockInv'
<1>0. /\ fill \in [Sinks -> Fills \cup {NoFill}] /\ jrow \in [Fills -> Nat] /\ jlast \in Nat
      /\ \A s \in Sinks : pc[s] # "idle" => fill[s] \in Fills
  BY DEF TypeInv, TypeOK, InHand
<1>1. ASSUME NEW s \in Sinks, NEW f \in Fills, Deliver(s, f)
      PROVE  BlockInv'
  <2>1. /\ rep' = rep /\ flag' = flag /\ Missing' = Missing /\ Journaled' = Journaled
        /\ nacked' = nacked \ {f} /\ unflagged' = unflagged \ {f}
    BY <1>1 DEF Deliver, Missing, Journaled
  <2> QED
    BY <2>1 DEF BlockInv, Flagged
<1>2. ASSUME NEW s \in Sinks, Journal(s)
      PROVE  BlockInv'
  <2>1. fill[s] \in Fills
    BY <1>0, <1>2 DEF Journal
  <2>2. Journaled \subseteq Journaled' /\ Journaled' \subseteq Journaled \cup {fill[s]}
    BY <1>0, <1>2, <2>1 DEF Journal, Journaled
  <2>3. fill[s] \in Journaled => Journaled' = Journaled
    BY <1>2 DEF Journal, Journaled
  <2>4. nacked \cap Missing' \subseteq Missing
    BY <1>2, <2>2, <2>3 DEF Journal, Missing, BlockInv
  <2> QED
    BY <1>2, <2>2, <2>4, BlockKeeps DEF Journal
<1>3. ASSUME NEW s \in Sinks,
             \/ Cutover(s) \/ Position(s) \/ PositionRefused(s) \/ RiskSwallowed(s) \/ LossRefused(s)
             \/ StoreFails(s) \/ Crash(s) \/ Risk(s)
      PROVE  BlockInv'
  <2>1. /\ UNCHANGED <<jrow, flag, rep, nacked, unflagged>> /\ riskDone \subseteq riskDone'
    BY <1>3 DEF Cutover, Position, PositionRefused, RiskSwallowed, LossRefused, StoreFails, Crash, Risk,
                ApplyFillOnce
  <2>2. Journaled' = Journaled /\ Missing' \subseteq Missing
    BY <2>1 DEF Missing, Journaled
  <2> QED
    BY <2>1, <2>2, BlockKeeps
<1>4. ASSUME NEW s \in Sinks, Loss(s)
      PROVE  BlockInv'
  <2>1. /\ rep' = rep /\ flag' = flag /\ Missing' = Missing /\ Journaled' = Journaled
        /\ nacked' = nacked \ {fill[s]} /\ unflagged' = unflagged \ {fill[s]}
    BY <1>4 DEF Loss, Missing, Journaled
  <2> QED
    BY <2>1 DEF BlockInv, Flagged
<1>5. ASSUME NEW s \in Sinks, Fail(s) \/ Incomplete(s)
      PROVE  BlockInv'
  <2>1. /\ rep' = rep /\ Missing' = Missing /\ Journaled' = Journaled
        /\ nacked' = nacked \cup ({fill[s]} \cap Journaled)
        /\ unflagged' = IF flag' /\ rep # "clear" THEN unflagged ELSE unflagged \cup {fill[s]}
    <3>1. CASE Fail(s)
      BY <3>1 DEF Fail, Missing, Journaled
    <3>2. CASE Incomplete(s)
      BY <3>2 DEF Incomplete, Missing, Journaled
    <3> QED
      BY <1>5, <3>1, <3>2
  <2>2. flag => flag'
    <3>1. flag' \in {flag, TRUE}
      BY <1>5 DEF Fail, Incomplete
    <3> QED
      BY <3>1
  <2>3. CASE flag' /\ rep # "clear"
    BY <2>1, <2>3, <2>2 DEF BlockInv, Flagged
  <2>4. CASE ~ (flag' /\ rep # "clear")
    <3>1. nacked \cap Missing \subseteq unflagged
      BY <2>1, <2>4, <2>2 DEF BlockInv, Flagged
    <3>2. unflagged' = unflagged \cup {fill[s]}
      BY <2>1, <2>4
    <3> QED
      BY <2>1, <2>2, <3>1, <3>2 DEF BlockInv, Flagged
  <2> QED
    BY <2>3, <2>4
<1>6. CASE RepairStart
  <2>1. /\ rep = "off" /\ rep' = "replay" /\ UNCHANGED <<flag, nacked, unflagged>>
        /\ Missing' = Missing /\ Journaled' = Journaled
    BY <1>6 DEF RepairStart, Missing, Journaled
  <2> QED
    BY <2>1 DEF BlockInv, Flagged
<1>7. ASSUME NEW f \in Fills, RepairReplay(f)
      PROVE  BlockInv'
  <2>1. /\ UNCHANGED <<jrow, rep, flag, nacked, unflagged>> /\ riskDone \subseteq riskDone'
    BY <1>7 DEF RepairReplay, ApplyFillOnce
  <2>2. Journaled' = Journaled /\ Missing' \subseteq Missing
    BY <2>1 DEF Missing, Journaled
  <2> QED
    BY <2>1, <2>2, BlockKeeps
<1>8. CASE RepairVerify
  <2>1. /\ UNCHANGED <<flag, nacked, unflagged>> /\ Missing' = Missing /\ Journaled' = Journaled
        /\ rep' = "clear" => Missing = {}
    BY <1>8 DEF RepairVerify, Missing, Journaled
  <2> QED
    BY <2>1 DEF BlockInv, Flagged
<1>9. CASE RepairClear
  <2>1. /\ rep = "clear" /\ UNCHANGED <<nacked, unflagged>>
        /\ Missing' = Missing /\ Journaled' = Journaled
    BY <1>9 DEF RepairClear, Missing, Journaled
  <2> QED
    BY <2>1 DEF BlockInv, Flagged
<1>10. CASE LockExpires \/ UNCHANGED vars
  <2>1. UNCHANGED <<rep, flag, nacked, unflagged>> /\ Missing' = Missing /\ Journaled' = Journaled
    BY <1>10 DEF LockExpires, vars, Missing, Journaled
  <2> QED
    BY <2>1 DEF BlockInv, Flagged
<1> QED
  BY <1>1, <1>2, <1>3, <1>4, <1>5, <1>6, <1>7, <1>8, <1>9, <1>10 DEF Next, Sink, Repair

(* risk_sink_failed.flag "blocks all new orders until a human or repair    *)
(* command verifies accounting": while a journaled fill whose delivery     *)
(* failed is missing from the daily total the flag stands, for any number  *)
(* of deliverers, crashes, swallowed errors and repairs at any moment,     *)
(* except after a failure that left no flag.                               *)
THEOREM FailureStands == Spec => []FailureBlocks
<1>1. Init => BlockInv
  BY DEF Init, BlockInv, Flagged
<1>2. BlockInv /\ TypeInv /\ [Next]_vars => BlockInv'
  BY BlockStep, SinkAssumption
<1>3. BlockInv => FailureBlocks
  BY DEF BlockInv, Flagged, FailureBlocks
<1>4. Spec => []TypeInv
  BY TypeCorrect, PTL DEF TypeInv
<1> QED
  BY <1>1, <1>2, <1>3, <1>4, PTL DEF Spec

-----------------------------------------------------------------------------
(* The order of the losses *)

(* Rows are numbered in the order of their insertion; nothing is legacy or *)
(* applied before the cutover; what is applied comes from the journal.     *)
Rows ==
  /\ \A f \in Fills : jrow[f] <= jlast
  /\ \A f, g \in Journaled : jrow[f] = jrow[g] => f = g
  /\ legacy \cup lossDone \subseteq Journaled
  /\ legacy \cap lossDone = {}
  /\ ~ cutover => legacy \cup lossDone = {}
  /\ \A s \in Sinks : pc[s] \in {"journal", "position", "risk", "loss"} => cutover
  /\ \A s \in Sinks : pc[s] \in {"position", "risk", "loss"} => fill[s] \in Journaled

(* No gap: what comes before an applied fill is applied. *)
NoGap ==
  \A f \in lossDone, g \in Journaled \ legacy : jrow[g] < jrow[f] => g \in lossDone

Streak ==
  /\ lossCount = Cardinality(TrailingLosses)
  /\ locked => lossCount >= LossLimit

OrderInv == Rows /\ NoGap /\ Streak

(* The initial journal is numbered. *)
LEMMA OrderInit == ASSUME SinkAssumption, Init PROVE OrderInv
<1>1. IsFiniteSet(Old) /\ jlast = Cardinality(Old)
  BY FS_Subset DEF SinkAssumption, Init
<1>2. jlast \in Nat
  BY <1>1, FS_CardinalityType
<1>3. PICK order \in [Old -> 1..jlast] :
         /\ \A f, g \in Old : order[f] = order[g] => f = g
         /\ jrow = [f \in Fills |-> IF f \in Old THEN order[f] ELSE 0]
  BY DEF Init
<1>4. Rows
  BY <1>2, <1>3 DEF Rows, Journaled, Init, SinkAssumption
<1>5. TrailingLosses = {} /\ lossCount = 0 /\ ~ locked
  BY DEF TrailingLosses, Init
<1> QED
  BY <1>4, <1>5, FS_EmptySet DEF OrderInv, NoGap, Streak, Init

(* A step that leaves journal and streak alone, but may release the lock.  *)
LEMMA OrderFrame ==
  ASSUME TypeInv, OrderInv,
         UNCHANGED <<jrow, jlast, cutover, legacy, lossCount, lossDone, lossPnl>>,
         locked' => locked,
         \A s \in Sinks : pc'[s] \in {"journal", "position", "risk", "loss"} => cutover,
         \A s \in Sinks : pc'[s] \in {"position", "risk", "loss"} => fill'[s] \in Journaled
  PROVE  OrderInv'
<1>1. Journaled' = Journaled
  BY DEF Journaled
<1>2. TrailingLosses' = TrailingLosses
  BY DEF TrailingLosses
<1>3. Rows' /\ NoGap'
  BY <1>1 DEF OrderInv, Rows, NoGap
<1>4. Streak'
  BY <1>2 DEF OrderInv, Streak
<1> QED
  BY <1>3, <1>4 DEF OrderInv

(* A new row is the last one. *)
LEMMA OrderJournal ==
  ASSUME TypeInv, OrderInv, NEW s \in Sinks, Journal(s)
  PROVE  OrderInv'
<1>1. fill[s] \in Fills /\ cutover
  BY DEF Journal, TypeInv, InHand, OrderInv, Rows
<1>2. CASE fill[s] \in Journaled
  BY <1>1, <1>2, OrderFrame DEF Journal, Goto, OrderInv, Rows, TypeInv, TypeOK
<1>3. CASE fill[s] \notin Journaled
  <2>1. /\ jlast \in Nat /\ jlast' = jlast + 1
        /\ \A f \in Fills : jrow[f] \in Nat /\ jrow'[f] = IF f = fill[s] THEN jlast + 1 ELSE jrow[f]
    BY <1>1, <1>3 DEF Journal, TypeInv, TypeOK
  <2>2. \A f \in Fills : jrow[f] <= jlast
    BY DEF OrderInv, Rows
  <2>3. Journaled' = Journaled \cup {fill[s]}
    BY <1>1, <2>1 DEF Journaled
  <2>4. fill[s] \notin legacy \cup lossDone
    BY <1>3 DEF OrderInv, Rows
  <2>5. Rows'
    <3>1. /\ \A f \in Fills : jrow'[f] <= jlast'
          /\ \A f, g \in Journaled' : jrow'[f] = jrow'[g] => f = g
      BY <2>1, <2>2, <2>3 DEF OrderInv, Rows, Journaled
    <3>2. (legacy \cup lossDone \subseteq Journaled)' /\ (legacy \cap lossDone = {})'
      BY <2>3 DEF Journal, OrderInv, Rows
    <3>3. /\ (~ cutover => legacy \cup lossDone = {})'
          /\ \A t \in Sinks : pc'[t] \in {"journal", "position", "risk", "loss"} => cutover'
          /\ \A t \in Sinks : pc'[t] \in {"position", "risk", "loss"} => fill'[t] \in Journaled'
      BY <1>1, <2>3 DEF Journal, Goto, OrderInv, Rows, TypeInv, TypeOK
    <3> QED
      BY <3>1, <3>2, <3>3 DEF Rows
  <2>6. NoGap'
    <3> SUFFICES ASSUME NEW f \in lossDone, NEW g \in Journaled' \ legacy, jrow'[g] < jrow'[f]
                 PROVE  g \in lossDone
      BY DEF NoGap, Journal
    <3>1. f \in Fills /\ f # fill[s] /\ jrow'[f] = jrow[f]
      BY <2>1, <2>4 DEF TypeInv, TypeOK
    <3>2. g # fill[s]
      BY <1>1, <2>1, <2>2, <3>1
    <3>3. g \in Journaled \ legacy /\ jrow'[g] = jrow[g]
      BY <2>1, <2>3, <3>2 DEF Journaled
    <3> QED
      BY <3>1, <3>3 DEF OrderInv, NoGap
  <2>7. Streak'
    <3>1. \A f \in lossDone : jrow'[f] = jrow[f]
      BY <2>1, <2>4 DEF TypeInv, TypeOK
    <3>2. TrailingLosses' = TrailingLosses
      BY <3>1 DEF TrailingLosses, Journal
    <3> QED
      BY <3>2 DEF OrderInv, Streak, Journal
  <2> QED
    BY <2>5, <2>6, <2>7 DEF OrderInv
<1> QED
  BY <1>2, <1>3

(* The first cutover makes legacy of a journal that has no streak yet.     *)
LEMMA OrderCutover ==
  ASSUME TypeInv, OrderInv, NEW s \in Sinks, Cutover(s)
  PROVE  OrderInv'
<1>1. CASE cutover
  BY <1>1, OrderFrame DEF Cutover, Goto, OrderInv, Rows, TypeInv, TypeOK
<1>2. CASE ~ cutover
  <2>1. lossDone = {} /\ lossDone' = {} /\ legacy' = Journaled /\ cutover'
    BY <1>2 DEF Cutover, OrderInv, Rows
  <2>2. Journaled' = Journaled
    BY DEF Cutover, Journaled
  <2>3. Rows'
    BY <2>1, <2>2 DEF Cutover, Goto, OrderInv, Rows, TypeInv, TypeOK
  <2>4. NoGap'
    BY <2>1 DEF NoGap
  <2>5. TrailingLosses' = TrailingLosses
    BY <2>1 DEF TrailingLosses
  <2>6. Streak'
    BY <2>5 DEF Cutover, OrderInv, Streak
  <2> QED
    BY <2>3, <2>4, <2>6 DEF OrderInv
<1> QED
  BY <1>1, <1>2

(* A fill that is applied comes after all those applied before it, so that *)
(* it adds itself to the trailing losses, or leaves none.                  *)
LEMMA OrderLoss ==
  ASSUME TypeInv, SinkAssumption, OrderInv, NEW s \in Sinks, Loss(s)
  PROVE  OrderInv'
<1> DEFINE f == fill[s]
<1>1. /\ f \in Journaled /\ f \in Fills /\ pc' = [pc EXCEPT ![s] = "idle"]
      /\ jrow \in [Fills -> Nat] /\ pnl[s] \in Int
      /\ UNCHANGED <<jrow, jlast, cutover, legacy, fill>> /\ cutover
  BY DEF Loss, Goto, OrderInv, Rows, TypeInv, TypeOK, InHand
<1>2. CASE f \in legacy \cup lossDone
  BY <1>1, <1>2, OrderFrame DEF Loss, OrderInv, Rows, TypeInv, TypeOK
<1>3. CASE f \notin legacy \cup lossDone
  <2>1. /\ lossDone' = lossDone \cup {f}
        /\ lossPnl' = [lossPnl EXCEPT ![f] = pnl[s]]
        /\ lossCount' = IF pnl[s] < 0 THEN lossCount + 1 ELSE 0
        /\ locked' = (lossCount' >= LossLimit \/ (pnl[s] < 0 /\ locked))
    BY <1>3 DEF Loss
  <2>2. \A g \in Journaled \ (legacy \cup lossDone) : ~ (jrow[g] < jrow[f])
    BY <1>3 DEF Loss, LossRefuses, EarlierUnapplied
  <2>3. \A g \in lossDone : g \in Fills /\ g # f /\ jrow[g] < jrow[f]
    <3> SUFFICES ASSUME NEW g \in lossDone PROVE g \in Fills /\ g # f /\ jrow[g] < jrow[f]
      OBVIOUS
    <3>1. g \in Journaled /\ g \in Fills /\ g # f
      BY <1>3 DEF OrderInv, Rows, Journaled
    <3>2. jrow[g] # jrow[f]
      BY <1>1, <3>1 DEF OrderInv, Rows
    <3>3. ~ (jrow[f] < jrow[g])
      BY <1>1, <1>3 DEF OrderInv, NoGap
    <3> QED
      BY <1>1, <3>1, <3>2, <3>3
  <2>4. Journaled' = Journaled
    BY <1>1 DEF Journaled
  <2>5. Rows'
    <3>1. legacy' \cup lossDone' \subseteq Journaled' /\ legacy' \cap lossDone' = {}
      BY <1>1, <1>3, <2>1, <2>4 DEF OrderInv, Rows
    <3> QED
      BY <1>1, <2>4, <3>1 DEF OrderInv, Rows, TypeInv, TypeOK
  <2>6. NoGap'
    BY <1>1, <2>1, <2>2, <2>4 DEF OrderInv, NoGap
  <2>7. IsFiniteSet(TrailingLosses)
    BY FS_Subset DEF TrailingLosses, SinkAssumption, TypeInv, TypeOK
  <2>8. /\ \A g \in lossDone : lossPnl'[g] = lossPnl[g]
        /\ lossPnl'[f] = pnl[s]
    BY <1>1, <2>1, <2>3 DEF TypeInv, TypeOK
  <2>9. lossCount' = Cardinality(TrailingLosses')
    <3>1. CASE pnl[s] < 0
      <4>1. TrailingLosses' = TrailingLosses \cup {f}
        <5>1. \A g \in lossDone :
                 (\A h \in lossDone' : jrow'[h] >= jrow'[g] => lossPnl'[h] < 0)
                   <=> (\A h \in lossDone : jrow[h] >= jrow[g] => lossPnl[h] < 0)
          BY <1>1, <2>1, <2>8, <3>1
        <5>2. \A h \in lossDone' : jrow'[h] >= jrow'[f] => lossPnl'[h] < 0
          BY <1>1, <2>1, <2>3, <2>8, <3>1
        <5> QED
          BY <2>1, <5>1, <5>2 DEF TrailingLosses
      <4>2. f \notin TrailingLosses
        BY <1>3 DEF TrailingLosses
      <4> QED
        BY <2>1, <2>7, <3>1, <4>1, <4>2, FS_AddElement DEF OrderInv, Streak
    <3>2. CASE ~ (pnl[s] < 0)
      <4>1. \A g \in lossDone' : jrow'[f] >= jrow'[g]
        BY <1>1, <2>1, <2>3
      <4>2. TrailingLosses' = {}
        BY <2>1, <2>8, <3>2, <4>1 DEF TrailingLosses
      <4> QED
        BY <2>1, <3>2, <4>2, FS_EmptySet
    <3> QED
      BY <3>1, <3>2
  <2>10. locked' => lossCount' >= LossLimit
    <3>1. lossCount \in Nat /\ LossLimit \in Nat
      BY DEF TypeInv, TypeOK, SinkAssumption
    <3>2. ASSUME locked', ~ (lossCount' >= LossLimit) PROVE FALSE
      <4>1. pnl[s] < 0 /\ locked
        BY <2>1, <3>2, Zenon
      <4>2. lossCount' = lossCount + 1 /\ lossCount >= LossLimit
        BY <2>1, <4>1 DEF OrderInv, Streak
      <4> QED
        BY <3>1, <3>2, <4>2
    <3> QED
      BY <3>2
  <2> QED
    BY <2>5, <2>6, <2>9, <2>10 DEF OrderInv, Streak
<1> QED
  BY <1>2, <1>3

(* The other steps of a deliverer leave journal and streak alone. *)
LEMMA OrderSink ==
  ASSUME TypeInv, SinkAssumption, OrderInv, NEW s \in Sinks, Sink(s)
  PROVE  OrderInv'
<1> USE OrderFrame DEF Goto, OrderInv, Rows, TypeInv, TypeOK
<1>1. ASSUME NEW f \in Fills, Deliver(s, f) PROVE OrderInv'
  BY <1>1 DEF Deliver
<1>2. CASE Position(s)
  BY <1>2 DEF Position
<1>3. CASE PositionRefused(s)
  BY <1>3 DEF PositionRefused
<1>4. CASE Risk(s)
  BY <1>4 DEF Risk
<1>5. CASE RiskSwallowed(s)
  BY <1>5 DEF RiskSwallowed
<1>6. CASE LossRefused(s)
  BY <1>6 DEF LossRefused
<1>7. CASE StoreFails(s)
  BY <1>7 DEF StoreFails
<1>8. CASE Fail(s)
  BY <1>8 DEF Fail
<1>9. CASE Crash(s)
  BY <1>9 DEF Crash
<1>10. CASE Incomplete(s)
  BY <1>10 DEF Incomplete
<1> QED
  BY <1>1, <1>2, <1>3, <1>4, <1>5, <1>6, <1>7, <1>8, <1>9, <1>10,
     OrderCutover, OrderJournal, OrderLoss DEF Sink

(* So do the repair script and the clock. *)
LEMMA OrderOther ==
  ASSUME TypeInv, OrderInv, Repair \/ LockExpires \/ UNCHANGED vars
  PROVE  OrderInv'
<1> USE OrderFrame DEF OrderInv, Rows, TypeInv, TypeOK
<1>1. CASE RepairStart
  BY <1>1 DEF RepairStart
<1>2. ASSUME NEW f \in Fills, RepairReplay(f) PROVE OrderInv'
  BY <1>2 DEF RepairReplay
<1>3. CASE RepairVerify
  BY <1>3 DEF RepairVerify
<1>4. CASE RepairClear
  BY <1>4 DEF RepairClear
<1>5. CASE LockExpires
  BY <1>5 DEF LockExpires
<1>6. CASE UNCHANGED vars
  BY <1>6 DEF vars
<1> QED
  BY <1>1, <1>2, <1>3, <1>4, <1>5, <1>6 DEF Repair

(* "Later effects refuse while earlier nonlegacy effects remain            *)
(* unapplied": with any number of deliverers, fills, failures, crashes and *)
(* repairs, the loss streak of apply_symbol_loss_fill_once is the one the  *)
(* journal shows, and only a streak at its limit locks the symbol.         *)
THEOREM StreakFollowsJournal == Spec => []LossesInJournalOrder
<1>1. Init => OrderInv
  BY OrderInit, SinkAssumption
<1>2. OrderInv /\ TypeInv /\ [Next]_vars => OrderInv'
  BY OrderSink, OrderOther, SinkAssumption DEF Next
<1>3. OrderInv => LossesInJournalOrder
  BY DEF OrderInv, Rows, NoGap, Streak, LossesInJournalOrder
<1>4. Spec => []TypeInv
  BY TypeCorrect, PTL DEF TypeInv
<1> QED
  BY <1>1, <1>2, <1>3, <1>4, PTL DEF Spec

-----------------------------------------------------------------------------
(* The contract *)

(* A step that only adds to the accounts, from the journal, is an Account. *)
LEMMA AccountStep ==
  ASSUME TypeInv, UNCHANGED <<jrow, acked, swallowed>>, Accounted \subseteq Accounted'
  PROVE  Contract!Next
<1>1. Journaled' = Journaled
  BY DEF Journaled
<1>2. /\ Accounted' \in SUBSET Fills /\ Accounted' \subseteq Journaled
      /\ Accounted' = Accounted \cup Accounted'
  BY <1>1 DEF Accounted, Journaled
<1>3. Contract!Account(Accounted')
  BY <1>1, <1>2 DEF Contract!Account
<1> QED
  BY <1>2, <1>3 DEF Contract!Next

(* Every step of a deliverer is a step of the contract or changes nothing  *)
(* the contract speaks of.                                                 *)
LEMMA ContractSink ==
  ASSUME TypeInv, AckInv, OrderInv, NEW s \in Sinks, Sink(s)
  PROVE  Contract!Next \/ UNCHANGED Contract!sinkVars
<1> DEFINE Quiet == UNCHANGED <<jrow, riskDone, lossDone, legacy, acked, swallowed>>
<1>1. Quiet => UNCHANGED Contract!sinkVars
  BY DEF Contract!sinkVars, Accounted, Journaled
<1>2. ASSUME NEW f \in Fills, Deliver(s, f) PROVE Quiet
  BY <1>2 DEF Deliver
<1>3. CASE Cutover(s)
  <2>1. legacy \subseteq legacy'
    BY <1>3 DEF Cutover, AckInv, Progress
  <2>2. Accounted \subseteq Accounted'
    BY <1>3, <2>1 DEF Cutover, Accounted, Journaled
  <2> QED
    BY <1>3, <2>2, AccountStep DEF Cutover
<1>4. CASE Journal(s)
  <2>1. fill[s] \in Fills
    BY <1>4 DEF Journal, TypeInv, InHand
  <2>2. CASE fill[s] \in Journaled
    BY <1>1, <1>4, <2>2 DEF Journal
  <2>3. CASE fill[s] \notin Journaled
    <3>1. Journaled' = Journaled \cup {fill[s]}
      BY <1>4, <2>1, <2>3 DEF Journal, Journaled, TypeInv, TypeOK
    <3>2. fill[s] \notin legacy \cup lossDone
      BY <2>3 DEF OrderInv, Rows
    <3>3. Accounted' = Accounted
      BY <1>4, <3>1, <3>2 DEF Journal, Accounted
    <3>4. Contract!Journal(fill[s])
      BY <1>4, <3>1, <3>3 DEF Journal, Contract!Journal
    <3> QED
      BY <2>1, <3>4 DEF Contract!Next
  <2> QED
    BY <2>2, <2>3
<1>5. CASE Position(s)
  BY <1>1, <1>5 DEF Position
<1>6. CASE PositionRefused(s)
  BY <1>1, <1>6 DEF PositionRefused
<1>7. CASE Risk(s)
  <2>1. Accounted \subseteq Accounted'
    BY <1>7 DEF Risk, ApplyFillOnce, Accounted, Journaled
  <2> QED
    BY <1>7, <2>1, AccountStep DEF Risk
<1>8. CASE LossRefused(s)
  BY <1>1, <1>8 DEF LossRefused
<1>9. CASE Loss(s)
  <2>1. /\ fill[s] \in Fills /\ fill[s] \in Journaled /\ fill[s] \in riskDone \cup swallowed
        /\ Journaled' = Journaled
    BY <1>9 DEF Loss, AckInv, Progress, TypeInv, InHand, Journaled
  <2>2. Accounted' = IF fill[s] \in riskDone THEN Accounted \cup {fill[s]} ELSE Accounted
    BY <1>9, <2>1 DEF Loss, Accounted
  <2>3. Contract!Answer(fill[s])
    BY <1>9, <2>1, <2>2 DEF Loss, Contract!Answer
  <2> QED
    BY <2>1, <2>3 DEF Contract!Next
<1>10. CASE StoreFails(s)
  BY <1>1, <1>10 DEF StoreFails
<1>11. CASE Fail(s)
  BY <1>1, <1>11 DEF Fail
<1>12. CASE Crash(s)
  BY <1>1, <1>12 DEF Crash
<1>13. CASE Incomplete(s)
  BY <1>1, <1>13 DEF Incomplete
<1>14. CASE RiskSwallowed(s)
  <2>1. /\ fill[s] \in Fills /\ fill[s] \in Journaled
        /\ Journaled' = Journaled /\ Accounted' = Accounted
    BY <1>14 DEF RiskSwallowed, AckInv, Progress, TypeInv, InHand, Journaled, Accounted
  <2>2. CASE fill[s] \in riskDone
    BY <1>1, <1>14, <2>2 DEF RiskSwallowed
  <2>3. CASE fill[s] \notin riskDone
    <3>1. Contract!Swallow(fill[s])
      BY <1>14, <2>1, <2>3 DEF RiskSwallowed, Contract!Swallow
    <3> QED
      BY <2>1, <3>1 DEF Contract!Next
  <2> QED
    BY <2>2, <2>3
<1> QED
  BY <1>1, <1>2, <1>3, <1>4, <1>5, <1>6, <1>7, <1>8, <1>9, <1>10, <1>11, <1>12, <1>13, <1>14
     DEF Sink

(* The repair script only adds what it found in the journal. *)
LEMMA ContractOther ==
  ASSUME TypeInv, Repair \/ LockExpires \/ UNCHANGED vars
  PROVE  Contract!Next \/ UNCHANGED Contract!sinkVars
<1> DEFINE Quiet == UNCHANGED <<jrow, riskDone, lossDone, legacy, acked, swallowed>>
<1>1. Quiet => UNCHANGED Contract!sinkVars
  BY DEF Contract!sinkVars, Accounted, Journaled
<1>2. ASSUME NEW f \in Fills, RepairReplay(f) PROVE Contract!Next
  <2>1. riskDone \subseteq riskDone'
    BY <1>2 DEF RepairReplay, ApplyFillOnce
  <2>2. Accounted \subseteq Accounted'
    BY <1>2, <2>1 DEF RepairReplay, Accounted, Journaled
  <2> QED
    BY <1>2, <2>2, AccountStep DEF RepairReplay
<1>3. RepairStart \/ RepairVerify \/ RepairClear \/ LockExpires \/ UNCHANGED vars => Quiet
  BY DEF RepairStart, RepairVerify, RepairClear, LockExpires, vars
<1> QED
  BY <1>1, <1>2, <1>3 DEF Repair

(* The five transactions of on_fill, run by any number of deliverers that  *)
(* fail, die, deliver again and are repaired, implement FillContract, the  *)
(* sink that FillReconcile is built on, swallowed failures included.       *)
THEOREM SinkImplementsContract == Spec => ImplementsContract
<1>1. Init => Contract!Init
  BY DEF Init, Contract!Init, Accounted, Journaled
<1>2. TypeInv /\ AckInv /\ OrderInv /\ [Next]_vars
        => Contract!Next \/ UNCHANGED Contract!sinkVars
  BY ContractSink, ContractOther DEF Next
<1>3. Init => OrderInv
  BY OrderInit, SinkAssumption
<1>4. TypeInv /\ OrderInv /\ [Next]_vars => OrderInv'
  BY OrderSink, OrderOther, SinkAssumption DEF Next
<1> QED
  BY <1>1, <1>2, <1>3, <1>4, AckAlways, PTL DEF Spec, ImplementsContract, Contract!Spec

-----------------------------------------------------------------------------
(* Sums.  The provers know nothing of SumFunctionOnSet: that a member adds *)
(* its weight, whatever the order, is shown from its definition.           *)

(* A set of numbers with a member has a least one: what induction comes    *)
(* down to.                                                                *)
LEMMA Least ==
  ASSUME NEW T \in SUBSET Nat, T # {}
  PROVE  \E n \in T : \A m \in T : n <= m
<1>1. IsWellFoundedOn(OpToRel(<, Nat), Nat)
  BY NatLessThanWellFounded
<1> DEFINE R == OpToRel(<, Nat)
<1>2. \A x, y \in Nat : x < y => <<x, y>> \in R
  BY DEF OpToRel
<1>3. IsWellFoundedOn(R, Nat)
  BY <1>1
<1> HIDE DEF R
<1>4. PICK n \in T : \A y \in T : ~ (<<y, n>> \in R)
  BY <1>3, WFMin, Zenon
<1>5. \A y \in T : ~ (y < n)
  BY <1>2, <1>4
<1>6. \A y \in T : n <= y
  BY <1>5
<1>7. QED
  BY <1>6

(* The sum over a set takes any member out and goes on with the rest.      *)
Any(T) == CHOOSE x \in T : TRUE
SumStep(w, g, T) == IF T = {} THEN 0 ELSE w[Any(T)] + g[T \ {Any(T)}]
IsSum(w, S, g) == g = [T \in SUBSET S |-> SumStep(w, g, T)]

(* What is left is smaller.                                                *)
LEMMA TakeOne ==
  ASSUME NEW T, IsFiniteSet(T), T # {}
  PROVE  /\ Any(T) \in T /\ IsFiniteSet(T \ {Any(T)})
         /\ Cardinality(T) \in Nat /\ Cardinality(T) # 0
         /\ Cardinality(T \ {Any(T)}) = Cardinality(T) - 1
<1>1. Any(T) \in T
  BY DEF Any
<1>2. Cardinality(T) \in Nat /\ Cardinality(T) # 0
  BY FS_CardinalityType, FS_EmptySet
<1>3. IsFiniteSet(T \ {Any(T)}) /\ Cardinality(T \ {Any(T)}) = Cardinality(T) - 1
  BY <1>1, FS_RemoveElement
<1>4. QED
  BY <1>1, <1>2, <1>3

(* There is such a function on the subsets of a finite set, built up by    *)
(* their sizes.                                                            *)
LEMMA SumExists ==
  ASSUME NEW D, NEW w \in [D -> Int], NEW S \in SUBSET D, IsFiniteSet(S)
  PROVE  \E g : IsSum(w, S, g)
<1> DEFINE Good(g, n) == /\ g \in [SUBSET S -> Int]
                         /\ \A T \in SUBSET S : Cardinality(T) <= n => g[T] = SumStep(w, g, T)
<1>1. \A T \in SUBSET S : /\ IsFiniteSet(T) /\ Cardinality(T) \in Nat
                          /\ Cardinality(T) <= Cardinality(S)
  BY FS_Subset, FS_CardinalityType
<1>2. \A T \in SUBSET S : T # {} =>
        /\ Any(T) \in D /\ T \ {Any(T)} \in SUBSET S
        /\ Cardinality(T \ {Any(T)}) = Cardinality(T) - 1
  BY <1>1, TakeOne
<1>3. \E g : Good(g, 0)
  <2>1. \A T \in SUBSET S : Cardinality(T) <= 0 => T = {}
    BY <1>1, FS_EmptySet
  <2>2. Good([T \in SUBSET S |-> 0], 0)
    BY <2>1 DEF SumStep
  <2>3. QED
    BY <2>2
<1>4. ASSUME NEW n \in Nat, NEW g, Good(g, n) PROVE \E h : Good(h, n + 1)
  <2> DEFINE h == [T \in SUBSET S |-> IF Cardinality(T) = n + 1 THEN SumStep(w, g, T) ELSE g[T]]
  <2>1. ASSUME NEW T \in SUBSET S PROVE SumStep(w, g, T) \in Int
    <3>1. CASE T = {}
      BY <3>1 DEF SumStep
    <3>2. CASE T # {}
      <4>1. w[Any(T)] \in Int /\ g[T \ {Any(T)}] \in Int
        BY <3>2, <1>2, <1>4
      <4>2. QED
        BY <3>2, <4>1 DEF SumStep
    <3>3. QED
      BY <3>1, <3>2
  <2>2. h \in [SUBSET S -> Int]
    BY <2>1, <1>4
  <2>3. ASSUME NEW T \in SUBSET S, Cardinality(T) <= n + 1 PROVE h[T] = SumStep(w, h, T)
    <3>1. SumStep(w, h, T) = SumStep(w, g, T)
      <4>1. CASE T = {}
        BY <4>1 DEF SumStep
      <4>2. CASE T # {}
        <5>1. T \ {Any(T)} \in SUBSET S /\ Cardinality(T \ {Any(T)}) # n + 1
          BY <4>2, <1>1, <1>2, <2>3
        <5>2. h[T \ {Any(T)}] = g[T \ {Any(T)}]
          BY <5>1
        <5>3. QED
          BY <5>2, <4>2 DEF SumStep
      <4>3. QED
        BY <4>1, <4>2
    <3>2. CASE Cardinality(T) = n + 1
      BY <3>1, <3>2
    <3>3. CASE Cardinality(T) # n + 1
      <4>1. Cardinality(T) <= n
        BY <3>3, <2>3, <1>1
      <4>2. h[T] = g[T] /\ g[T] = SumStep(w, g, T)
        BY <4>1, <3>3, <1>4
      <4>3. QED
        BY <4>2, <3>1
    <3>4. QED
      BY <3>2, <3>3
  <2>4. Good(h, n + 1)
    BY <2>2, <2>3
  <2>5. QED
    BY <2>4
<1> HIDE DEF Good
<1>5. \A n \in Nat : \E g : Good(g, n)
  <2> DEFINE N == {n \in Nat : ~ \E g : Good(g, n)}
  <2>1. SUFFICES ASSUME N # {} PROVE FALSE
    OBVIOUS
  <2>2. PICK n \in N : \A m \in N : n <= m
    BY <2>1, Least
  <2>3. n \in Nat /\ n # 0
    BY <1>3
  <2>4. n - 1 \in Nat /\ ~ (n <= n - 1) /\ (n - 1) + 1 = n
    BY <2>3
  <2>5. PICK g : Good(g, n - 1)
    BY <2>2, <2>4
  <2>6. \E h : Good(h, (n - 1) + 1)
    BY <1>4, <2>4, <2>5
  <2>7. QED
    BY <2>4, <2>6
<1>6. PICK g : Good(g, Cardinality(S))
  BY <1>1, <1>5
<1>7. g \in [SUBSET S -> Int] /\ \A T \in SUBSET S : g[T] = SumStep(w, g, T)
  BY <1>1, <1>6 DEF Good
<1>8. IsSum(w, S, g)
  BY <1>7 DEF IsSum
<1>9. QED
  BY <1>8

(* Induction on the size of a subset, for what is to be shown of the       *)
(* subsets in P.                                                           *)
LEMMA SmallestOutside ==
  ASSUME NEW S, IsFiniteSet(S), NEW P, \E T \in SUBSET S : T \notin P
  PROVE  \E T \in SUBSET S :
           T \notin P /\ \A R \in SUBSET S : Cardinality(R) < Cardinality(T) => R \in P
<1>1. \A T \in SUBSET S : Cardinality(T) \in Nat
  BY FS_Subset, FS_CardinalityType
<1> DEFINE N == {Cardinality(T) : T \in {R \in SUBSET S : R \notin P}}
<1>2. N \in SUBSET Nat /\ N # {}
  BY <1>1
<1>3. PICK n \in N : \A m \in N : n <= m
  BY <1>2, Least
<1>4. PICK T \in SUBSET S : T \notin P /\ n = Cardinality(T)
  BY <1>3
<1>5. ASSUME NEW R \in SUBSET S, Cardinality(R) < Cardinality(T) PROVE R \in P
  <2>1. SUFFICES ASSUME R \notin P PROVE FALSE
    OBVIOUS
  <2>2. Cardinality(R) \in N
    BY <2>1
  <2>3. n <= Cardinality(R)
    BY <2>2, <1>3
  <2>4. QED
    BY <2>3, <1>1, <1>4, <1>5
<1>6. QED
  BY <1>4, <1>5

(* Two such functions agree where their weights do.                        *)
LEMMA SumsAgree ==
  ASSUME NEW w, NEW S, NEW g, IsSum(w, S, g), NEW v, NEW R, NEW h, IsSum(v, R, h),
         NEW Q, Q \subseteq S, Q \subseteq R, IsFiniteSet(Q), \A x \in Q : w[x] = v[x]
  PROVE  g[Q] = h[Q]
<1> DEFINE P == {T \in SUBSET Q : g[T] = h[T]}
<1>1. SUFFICES ASSUME \E T \in SUBSET Q : T \notin P PROVE FALSE
  OBVIOUS
<1>2. PICK T \in SUBSET Q :
        T \notin P /\ \A U \in SUBSET Q : Cardinality(U) < Cardinality(T) => U \in P
  <2> HIDE DEF P
  <2>1. QED
    BY <1>1, SmallestOutside
<1>3. g[T] = SumStep(w, g, T) /\ h[T] = SumStep(v, h, T)
  BY DEF IsSum
<1>4. CASE T = {}
  BY <1>2, <1>3, <1>4 DEF SumStep
<1>5. CASE T # {}
  <2>1. IsFiniteSet(T)
    BY FS_Subset
  <2>2. /\ Any(T) \in T /\ Cardinality(T) \in Nat
        /\ Cardinality(T \ {Any(T)}) = Cardinality(T) - 1
    BY <2>1, <1>5, TakeOne
  <2>3. T \ {Any(T)} \in SUBSET Q /\ Cardinality(T \ {Any(T)}) < Cardinality(T)
    BY <2>2
  <2>4. g[T \ {Any(T)}] = h[T \ {Any(T)}]
    BY <2>3, <1>2
  <2>5. w[Any(T)] = v[Any(T)]
    BY <2>2
  <2>6. g[T] = h[T]
    BY <1>3, <1>5, <2>4, <2>5 DEF SumStep
  <2>7. QED
    BY <2>6, <1>2
<1>6. QED
  BY <1>4, <1>5

(* The sums are numbers.                                                   *)
LEMMA SumsType ==
  ASSUME NEW D, NEW w \in [D -> Int], NEW S \in SUBSET D, IsFiniteSet(S),
         NEW g, IsSum(w, S, g)
  PROVE  \A T \in SUBSET S : g[T] \in Int
<1> DEFINE P == {T \in SUBSET S : g[T] \in Int}
<1>1. SUFFICES ASSUME \E T \in SUBSET S : T \notin P PROVE FALSE
  OBVIOUS
<1>2. PICK T \in SUBSET S :
        T \notin P /\ \A U \in SUBSET S : Cardinality(U) < Cardinality(T) => U \in P
  <2> HIDE DEF P
  <2>1. QED
    BY <1>1, SmallestOutside
<1>3. g[T] = SumStep(w, g, T)
  BY DEF IsSum
<1>4. CASE T = {}
  BY <1>2, <1>3, <1>4 DEF SumStep
<1>5. CASE T # {}
  <2>1. IsFiniteSet(T)
    BY FS_Subset
  <2>2. /\ Any(T) \in T /\ Cardinality(T) \in Nat
        /\ Cardinality(T \ {Any(T)}) = Cardinality(T) - 1
    BY <2>1, <1>5, TakeOne
  <2>3. T \ {Any(T)} \in SUBSET S /\ Cardinality(T \ {Any(T)}) < Cardinality(T)
    BY <2>2
  <2>4. g[T \ {Any(T)}] \in Int
    BY <2>3, <1>2
  <2>5. w[Any(T)] \in Int
    BY <2>2
  <2>6. g[T] \in Int
    BY <1>3, <1>5, <2>4, <2>5 DEF SumStep
  <2>7. QED
    BY <2>6, <1>2
<1>6. QED
  BY <1>4, <1>5

(* It does not matter which member is taken out.                           *)
TakesAny(w, S, g) == \A T \in SUBSET S : \A x \in T : g[T] = w[x] + g[T \ {x}]

(* So it is, by induction on the size: two members may be taken out in     *)
(* either order.                                                           *)
LEMMA SumsTakeAny ==
  ASSUME NEW D, NEW w \in [D -> Int], NEW S \in SUBSET D, IsFiniteSet(S),
         NEW g, IsSum(w, S, g)
  PROVE  TakesAny(w, S, g)
<1> USE DEF TakesAny
<1> DEFINE P == {T \in SUBSET S : \A x \in T : g[T] = w[x] + g[T \ {x}]}
<1>1. SUFFICES ASSUME \E T \in SUBSET S : T \notin P PROVE FALSE
  OBVIOUS
<1>2. PICK T \in SUBSET S :
        T \notin P /\ \A U \in SUBSET S : Cardinality(U) < Cardinality(T) => U \in P
  <2> HIDE DEF P
  <2>1. QED
    BY <1>1, SmallestOutside
<1>3. PICK x \in T : g[T] # w[x] + g[T \ {x}]
  BY <1>2
<1>4. g[T] = SumStep(w, g, T)
  BY DEF IsSum
<1>5. IsFiniteSet(T) /\ T # {}
  BY <1>3, FS_Subset
<1> DEFINE y == Any(T)
           U == T \ {y}
           V == T \ {x}
           W == (T \ {x}) \ {y}
<1>6. /\ y \in T /\ Cardinality(T) \in Nat
      /\ Cardinality(U) = Cardinality(T) - 1
  BY <1>5, TakeOne
<1>7. Cardinality(V) = Cardinality(T) - 1
  BY <1>3, <1>5, FS_RemoveElement
<1>8. g[T] = w[y] + g[U]
  BY <1>4, <1>5 DEF SumStep
<1>9. x # y
  BY <1>3, <1>8
<1>10. U \in P /\ V \in P
  BY <1>2, <1>6, <1>7
<1>11. x \in U /\ y \in V /\ U \ {x} = W /\ V \ {y} = W
  BY <1>3, <1>6, <1>9
<1>12. g[U] = w[x] + g[W] /\ g[V] = w[y] + g[W]
  BY <1>10, <1>11
<1>13. w[x] \in Int /\ w[y] \in Int /\ g[W] \in Int
  BY <1>3, <1>6, SumsType
<1> HIDE DEF y, U, V, W, P
<1>14. g[T] = w[x] + g[V]
  BY <1>8, <1>12, <1>13
<1>15. QED
  BY <1>3, <1>14 DEF V

(* What a sum of the community modules is.                                 *)
LEMMA SumIs ==
  ASSUME NEW D, NEW w \in [D -> Int], NEW S \in SUBSET D, IsFiniteSet(S)
  PROVE  \E g : IsSum(w, S, g) /\ SumFunctionOnSet(w, S) = g[S]
<1> DEFINE f == CHOOSE g : g = [T \in SUBSET S |-> SumStep(w, g, T)]
<1>1. SumFunctionOnSet(w, S) = f[S]
  BY DEF SumFunctionOnSet, FoldFunctionOnSet, MapThenFoldSet, SumStep, Any
<1>2. \E g : g = [T \in SUBSET S |-> SumStep(w, g, T)]
  <2>1. PICK g : IsSum(w, S, g)
    BY SumExists, Zenon
  <2>2. QED
    BY <2>1 DEF IsSum
<1>3. f = [T \in SUBSET S |-> SumStep(w, f, T)]
  BY <1>2
<1> HIDE DEF f
<1>4. QED
  BY <1>1, <1>3 DEF IsSum

(* The empty sum is zero. *)
LEMMA SumEmpty == ASSUME NEW D, NEW w \in [D -> Int] PROVE SumFunctionOnSet(w, {}) = 0
<1>1. PICK g : IsSum(w, {}, g) /\ SumFunctionOnSet(w, {}) = g[{}]
  BY SumIs, FS_EmptySet
<1>2. g[{}] = SumStep(w, g, {})
  BY <1>1 DEF IsSum
<1>3. QED
  BY <1>1, <1>2 DEF SumStep

(* A finite sum of integers is an integer. *)
LEMMA SumType ==
  ASSUME NEW D, NEW w \in [D -> Int], NEW S \in SUBSET D, IsFiniteSet(S)
  PROVE  SumFunctionOnSet(w, S) \in Int
<1>1. PICK g : IsSum(w, S, g) /\ SumFunctionOnSet(w, S) = g[S]
  BY SumIs
<1>2. QED
  BY <1>1, SumsType

(* One more member adds its weight.                                        *)
LEMMA SumAdd ==
  ASSUME NEW D, NEW w \in [D -> Int], NEW S \in SUBSET D, IsFiniteSet(S), NEW x \in D \ S
  PROVE  SumFunctionOnSet(w, S \cup {x}) = SumFunctionOnSet(w, S) + w[x]
<1> DEFINE R == S \cup {x}
<1>1. R \in SUBSET D /\ IsFiniteSet(R) /\ x \in R /\ R \ {x} = S /\ S \subseteq R
  BY FS_AddElement
<1> HIDE DEF R
<1>2. PICK g : IsSum(w, S, g) /\ SumFunctionOnSet(w, S) = g[S]
  BY SumIs
<1>3. PICK h : IsSum(w, R, h) /\ SumFunctionOnSet(w, R) = h[R]
  BY <1>1, SumIs
<1>4. TakesAny(w, R, h)
  BY <1>1, <1>3, SumsTakeAny
<1>5. h[R] = w[x] + h[S]
  BY <1>1, <1>4 DEF TakesAny
<1>6. g[S] = h[S]
  BY <1>1, <1>2, <1>3, SumsAgree
<1>7. w[x] \in Int /\ g[S] \in Int
  BY <1>2, SumsType
<1>8. QED
  BY <1>2, <1>3, <1>5, <1>6, <1>7 DEF R

(* Only the weights of the members count.                                  *)
LEMMA SumSame ==
  ASSUME NEW D, NEW w \in [D -> Int], NEW v \in [D -> Int], NEW S \in SUBSET D,
         IsFiniteSet(S), \A x \in S : w[x] = v[x]
  PROVE  SumFunctionOnSet(w, S) = SumFunctionOnSet(v, S)
<1>1. PICK g : IsSum(w, S, g) /\ SumFunctionOnSet(w, S) = g[S]
  BY SumIs
<1>2. PICK h : IsSum(v, S, h) /\ SumFunctionOnSet(v, S) = h[S]
  BY SumIs
<1>3. g[S] = h[S]
  BY <1>1, <1>2, SumsAgree
<1>4. QED
  BY <1>1, <1>2, <1>3

-----------------------------------------------------------------------------
(* Exactly once *)

(* Two deliverers' ways: the position store computes every PnL, and the    *)
(* repair refuses rows without one; or every delivery carries the venue's. *)
Computed == PnlSinks = {} /\ AllowNullPnl = FALSE
Reported == PnlSinks = Sinks

(* The position is the sum of its fills, and a PnL is there only for them. *)
PosInv ==
  /\ posQty = SumFunctionOnSet(SignedQty, posDone)
  /\ \A f \in Fills \ posDone : posPnl[f] = 0

(* Computed: what a deliverer is about to add to the daily total is what   *)
(* the position store has for the fill, which nobody changes any more.     *)
ComputedAt(s) ==
  /\ pc[s] # "idle" => ~ known[s]
  /\ pc[s] \in {"cutover", "journal", "position"} => pnl[s] = 0
  /\ pc[s] = "risk" => fill[s] \in posDone /\ pnl[s] = posPnl[fill[s]]

ComputedInv ==
  /\ riskDone \ Old \subseteq posDone
  /\ jknown \subseteq riskDone
  /\ \A s \in Sinks : ComputedAt(s)

(* Reported: every row has the PnL that the venue reports.                 *)
ReportedAt(s) ==
  pc[s] # "idle" => known[s] /\ pnl[s] = VenuePnl[fill[s]] /\ pc[s] # "position"

ReportedInv ==
  /\ posDone = {}
  /\ repWork \cup Journaled \subseteq jknown
  /\ \A s \in Sinks : ReportedAt(s)

DayInv ==
  /\ Old \subseteq riskDone
  /\ dayPnl = OldPnl + SumFunctionOnSet(Realized, riskDone \ Old)

(* Quantities and results of fills are integers, and sets of fills finite. *)
LEMMA Weights ==
  ASSUME TypeInv, SinkAssumption
  PROVE  /\ SignedQty \in [Fills -> Int] /\ Realized \in [Fills -> Int]
         /\ \A S \in SUBSET Fills : IsFiniteSet(S)
<1>1. \A f \in Fills : Qty[f] \in Int /\ 0 - Qty[f] \in Int
  BY DEF SinkAssumption
<1>2. SignedQty \in [Fills -> Int]
  BY <1>1 DEF SignedQty
<1>3. Realized \in [Fills -> Int]
  BY DEF Realized, TypeInv, TypeOK, SinkAssumption
<1>4. \A S \in SUBSET Fills : IsFiniteSet(S)
  BY FS_Subset DEF SinkAssumption
<1> QED
  BY <1>2, <1>3, <1>4

(* LivePositionStore.apply_fill, seen from outside: a fill applied before  *)
(* answers what it answered then, a new one changes the position by its    *)
(* quantity.                                                               *)
LEMMA PositionEffect ==
  ASSUME TypeInv, SinkAssumption, NEW s \in Sinks, Position(s)
  PROVE  /\ pc[s] = "position" /\ fill[s] \in Fills /\ posDone' = posDone \cup {fill[s]}
         /\ \A f \in Fills \ {fill[s]} : posPnl'[f] = posPnl[f]
         /\ fill[s] \in posDone => posPnl' = posPnl /\ posQty' = posQty
         /\ fill[s] \notin posDone => posQty' = posQty + SignedQty[fill[s]]
         /\ \/ pnl'[s] = posPnl'[fill[s]]
            \/ fill[s] \notin posDone /\ pnl' = pnl /\ posPnl' = posPnl
         /\ pc' = [pc EXCEPT ![s] = "risk"] /\ \A t \in Sinks \ {s} : pnl'[t] = pnl[t]
         /\ UNCHANGED <<riskVars, fill, known, jrow, jknown, repWork>>
<1> DEFINE f == fill[s]
<1>1. /\ pc[s] = "position" /\ f \in Fills /\ pc' = [pc EXCEPT ![s] = "risk"]
      /\ UNCHANGED <<riskVars, fill, known, jrow, jknown, repWork>>
  BY DEF Position, Goto, TypeInv, InHand
<1>2. /\ Qty[f] \in Nat /\ posQty \in Nat /\ Side[f] \in {"buy", "sell"}
      /\ posPnl \in [Fills -> Int] /\ pnl \in [Sinks -> Int]
      /\ SignedQty[f] = IF Side[f] = "buy" THEN Qty[f] ELSE 0 - Qty[f]
  BY <1>1 DEF TypeInv, TypeOK, SinkAssumption, SignedQty
<1>3. CASE f \in posDone
  <2>1. pnl' = [pnl EXCEPT ![s] = posPnl[f]] /\ UNCHANGED positionVars
    BY <1>3 DEF Position
  <2> QED
    BY <1>1, <1>2, <1>3, <2>1
<1>4. CASE f \notin posDone /\ Side[f] = "buy"
  <2>1. posQty' = posQty + Qty[f] /\ posDone' = posDone \cup {f} /\ UNCHANGED <<posPnl, pnl>>
    BY <1>4 DEF Position
  <2> QED
    BY <1>1, <1>2, <1>4, <2>1
<1>5. CASE f \notin posDone /\ Side[f] = "sell"
  <2> DEFINE amount == (Price[f] - posAvg) * Qty[f]
  <2>1. /\ posQty' = posQty - Qty[f] /\ posDone' = posDone \cup {f}
        /\ posPnl' = [posPnl EXCEPT ![f] = amount] /\ pnl' = [pnl EXCEPT ![s] = amount]
    BY <1>5 DEF Position
  <2> HIDE DEF amount
  <2>2. posPnl'[f] = amount /\ pnl'[s] = amount
    BY <2>1, <1>1, <1>2
  <2>3. /\ \A g \in Fills \ {f} : posPnl'[g] = posPnl[g]
        /\ \A t \in Sinks \ {s} : pnl'[t] = pnl[t]
    BY <2>1, <1>2
  <2>4. posQty' = posQty + SignedQty[f]
    BY <2>1, <1>2, <1>5
  <2> QED
    BY <1>1, <1>5, <2>1, <2>2, <2>3, <2>4
<1> QED
  BY <1>2, <1>3, <1>4, <1>5

(* Nothing else touches the position.                                      *)
LEMMA PositionFrame ==
  ASSUME [Next]_vars
  PROVE  (\E s \in Sinks : Position(s)) \/ UNCHANGED positionVars
<1>1. ASSUME NEW s \in Sinks, Sink(s), ~ Position(s) PROVE UNCHANGED positionVars
  <2>1. ASSUME NEW f \in Fills, Deliver(s, f) PROVE UNCHANGED positionVars
    BY <2>1 DEF Deliver
  <2> QED
    BY <1>1, <2>1 DEF Sink, Cutover, Journal, PositionRefused, Risk, RiskSwallowed, LossRefused,
                      Loss, StoreFails, Fail, Crash, Incomplete
<1>2. ASSUME NEW f \in Fills, RepairReplay(f) PROVE UNCHANGED positionVars
  BY <1>2 DEF RepairReplay
<1>3. CASE RepairStart \/ RepairVerify \/ RepairClear \/ LockExpires \/ UNCHANGED vars
  BY <1>3 DEF RepairStart, RepairVerify, RepairClear, LockExpires, vars
<1> QED
  BY <1>1, <1>2, <1>3 DEF Next, Repair

(* Every step keeps the position the sum of the fills booked in it. *)
LEMMA PosStep ==
  ASSUME TypeInv, SinkAssumption, PosInv, [Next]_vars PROVE PosInv'
<1>1. CASE UNCHANGED positionVars
  BY <1>1 DEF PosInv
<1>2. ASSUME NEW s \in Sinks, Position(s) PROVE PosInv'
  <2> DEFINE f == fill[s]
  <2>1. /\ f \in Fills /\ posDone' = posDone \cup {f}
        /\ \A g \in Fills \ {f} : posPnl'[g] = posPnl[g]
        /\ f \in posDone => posPnl' = posPnl /\ posQty' = posQty
        /\ f \notin posDone => posQty' = posQty + SignedQty[f]
    BY <1>2, PositionEffect
  <2>2. \A g \in Fills \ posDone' : posPnl'[g] = 0
    BY <2>1 DEF PosInv
  <2>3. CASE f \in posDone
    <3>1. posDone' = posDone
      BY <2>1, <2>3
    <3> QED
      BY <2>1, <2>2, <2>3, <3>1 DEF PosInv
  <2>4. CASE f \notin posDone
    <3>1. posDone \in SUBSET Fills /\ IsFiniteSet(posDone) /\ SignedQty \in [Fills -> Int]
      BY Weights DEF TypeInv, TypeOK
    <3>2. SumFunctionOnSet(SignedQty, posDone \cup {f}) =
            SumFunctionOnSet(SignedQty, posDone) + SignedQty[f]
      BY <2>1, <2>4, <3>1, SumAdd
    <3>3. posQty' = SumFunctionOnSet(SignedQty, posDone')
      BY <2>1, <2>4, <3>2 DEF PosInv
    <3> QED
      BY <2>2, <3>3 DEF PosInv, SignedQty
  <2> QED
    BY <2>3, <2>4
<1> QED
  BY <1>1, <1>2, PositionFrame

(* The second part of AccountsAgree: the position is the sum of the fills  *)
(* booked in it.                                                           *)
PositionAddsUp == posQty = SumFunctionOnSet(SignedQty, posDone)

(* At first nothing is booked. *)
LEMMA PosInit == ASSUME TypeInv, SinkAssumption, Init PROVE PosInv
<1>1. SignedQty \in [Fills -> Int]
  BY Weights
<1>2. posDone = {} /\ posQty = 0 /\ \A f \in Fills : posPnl[f] = 0
  BY DEF Init
<1>3. SumFunctionOnSet(SignedQty, {}) = 0
  BY <1>1, SumEmpty
<1> QED
  BY <1>2, <1>3 DEF PosInv

(* LivePositionStore.apply_fill books every fill once, however often it is *)
(* delivered, by whom, with or without a PnL of the venue's, and whatever  *)
(* fails or dies: the position is the sum of its fills.                    *)
THEOREM PositionCounts == Spec => []PositionAddsUp
<1>1. Init => TypeInv /\ PosInv
  BY TypeInit, PosInit, SinkAssumption
<1>2. TypeInv /\ PosInv /\ [Next]_vars => PosInv'
  BY PosStep, SinkAssumption
<1>3. PosInv => PositionAddsUp
  BY DEF PosInv, PositionAddsUp
<1>4. Spec => []TypeInv
  BY TypeCorrect, PTL DEF TypeInv
<1> QED
  BY <1>1, <1>2, <1>3, <1>4, PTL DEF Spec

(* apply_fill_once adds what the fill realized, once.                      *)
LEMMA DayAdd ==
  ASSUME TypeInv, SinkAssumption, DayInv, NEW f \in Fills, NEW amount, ApplyFillOnce(f, amount),
         f \notin riskDone => amount = Realized[f], UNCHANGED <<posDone, posPnl>>
  PROVE  DayInv'
<1>1. Realized' = Realized
  BY DEF Realized
<1>2. CASE f \in riskDone
  BY <1>1, <1>2 DEF ApplyFillOnce, DayInv
<1>3. CASE f \notin riskDone
  <2> DEFINE S == riskDone \ Old
  <2>1. S \in SUBSET Fills /\ IsFiniteSet(S) /\ Realized \in [Fills -> Int] /\ f \in Fills \ S
    BY <1>3, Weights DEF TypeInv, TypeOK
  <2>2. SumFunctionOnSet(Realized, S \cup {f}) = SumFunctionOnSet(Realized, S) + Realized[f]
    <3> DEFINE w == Realized
    <3> HIDE DEF S, w
    <3>1. S \in SUBSET Fills /\ IsFiniteSet(S) /\ w \in [Fills -> Int] /\ f \in Fills \ S
      BY <2>1 DEF w
    <3>2. SumFunctionOnSet(w, S \cup {f}) = SumFunctionOnSet(w, S) + w[f]
      BY <3>1, SumAdd
    <3> QED
      BY <3>2 DEF w
  <2>3. /\ SumFunctionOnSet(Realized, S) \in Int /\ Realized[f] \in Int /\ OldPnl \in Int
    BY <2>1, SumType DEF SinkAssumption
  <2>4. riskDone' \ Old = S \cup {f} /\ Old \subseteq riskDone'
    BY <1>3 DEF ApplyFillOnce, DayInv
  <2>5. dayPnl' = (OldPnl + SumFunctionOnSet(Realized, S)) + Realized[f]
    BY <1>3 DEF ApplyFillOnce, DayInv
  <2> HIDE DEF S
  <2>6. dayPnl' = OldPnl + SumFunctionOnSet(Realized, S \cup {f})
    BY <2>2, <2>3, <2>5
  <2> QED
    BY <1>1, <2>4, <2>6 DEF DayInv
<1> QED
  BY <1>2, <1>3

(* A position applied later leaves the realized PnL of what is in the      *)
(* total as it was.                                                        *)
LEMMA DaySame ==
  ASSUME TypeInv, TypeInv', SinkAssumption, DayInv, UNCHANGED riskVars,
         \A f \in riskDone \ Old : Realized'[f] = Realized[f]
  PROVE  DayInv'
<1> DEFINE S == riskDone \ Old
<1>1. S \in SUBSET Fills /\ IsFiniteSet(S) /\ Realized \in [Fills -> Int]
  BY Weights DEF TypeInv, TypeOK
<1>2. Realized' \in [Fills -> Int]
  BY DEF Realized, TypeInv, TypeOK, SinkAssumption
<1> DEFINE w == Realized
           v == Realized'
<1>3. \A f \in S : v[f] = w[f]
  OBVIOUS
<1> HIDE DEF w, v
<1>4. SumFunctionOnSet(v, S) = SumFunctionOnSet(w, S)
  BY <1>1, <1>2, <1>3, SumSame DEF w, v
<1> QED
  BY <1>4 DEF w, v, DayInv

(* The position store computes the PnL: a deliverer at risk_daily holds    *)
(* the one that stands in the position store.                              *)
LEMMA ComputedBystander ==
  ASSUME NEW t \in Sinks, ComputedAt(t), fill[t] \in posDone => fill[t] \in Fills,
         pc'[t] = pc[t], known'[t] = known[t], pnl'[t] = pnl[t], fill'[t] = fill[t],
         posDone \subseteq posDone', \A f \in posDone : posPnl'[f] = posPnl[f]
  PROVE  ComputedAt(t)'
BY DEF ComputedAt

(* A deliverer that computes the result keeps what it computed right. *)
LEMMA ComputedSink ==
  ASSUME TypeInv, SinkAssumption, Computed, PosInv, ComputedInv, NEW s \in Sinks, Sink(s)
  PROVE  ComputedInv'
<1>0. /\ pc \in [Sinks -> Steps] /\ fill \in [Sinks -> Fills \cup {NoFill}]
      /\ known \in [Sinks -> BOOLEAN] /\ pnl \in [Sinks -> Int] /\ posDone \subseteq Fills
      /\ s \notin PnlSinks /\ ComputedAt(s) /\ (pc[s] # "idle" => fill[s] \in Fills)
  BY DEF TypeInv, TypeOK, InHand, Computed, ComputedInv
<1> DEFINE Rest == \A t \in Sinks \ {s} : /\ pc'[t] = pc[t] /\ known'[t] = known[t]
                                         /\ pnl'[t] = pnl[t] /\ fill'[t] = fill[t]
           Kept == posDone \subseteq posDone' /\ \A f \in posDone : posPnl'[f] = posPnl[f]
<1>1. ASSUME Rest, Kept, ComputedAt(s)', riskDone' \ Old \subseteq posDone', jknown' \subseteq riskDone'
      PROVE  ComputedInv'
  <2>1. ASSUME NEW t \in Sinks \ {s} PROVE ComputedAt(t)'
    BY <1>0, <1>1, ComputedBystander DEF ComputedInv
  <2> QED
    BY <1>1, <2>1 DEF ComputedInv
<1>2. ASSUME UNCHANGED <<posDone, posPnl, riskDone, jknown>>, Rest, ComputedAt(s)'
      PROVE  ComputedInv'
  BY <1>1, <1>2 DEF ComputedInv
<1>3. ASSUME NEW f \in Fills, Deliver(s, f) PROVE ComputedInv'
  <2>1. UNCHANGED <<posDone, posPnl, riskDone, jknown>> /\ Rest
    BY <1>0, <1>3 DEF Deliver, Goto
  <2>2. pc'[s] = "cutover" /\ pnl'[s] = 0
    BY <1>0, <1>3 DEF Deliver, Goto
  <2>3. ComputedAt(s)'
    <3>1. known' = [known EXCEPT ![s] = s \in PnlSinks]
      BY <1>3 DEF Deliver
    <3>2. ~ known'[s]
      BY <1>0, <3>1, Zenon
    <3> QED
      BY <2>2, <3>2 DEF ComputedAt
  <2> QED
    BY <1>2, <2>1, <2>3
<1>4. CASE Cutover(s) \/ Journal(s)
  <2>1. UNCHANGED <<posDone, posPnl, riskDone, known, pnl, fill>> /\ Rest
    BY <1>0, <1>4 DEF Cutover, Journal, Goto
  <2>2. ~ known[s] /\ pnl[s] = 0
    BY <1>0, <1>4 DEF Cutover, Journal, ComputedAt
  <2>3. pc'[s] \in {"journal", "position"} /\ jknown' = jknown
    BY <1>0, <1>4, <2>2 DEF Cutover, Journal, Goto
  <2>4. ComputedAt(s)'
    BY <2>1, <2>2, <2>3 DEF ComputedAt
  <2> QED
    BY <1>2, <2>1, <2>3, <2>4
<1>5. CASE Position(s)
  <2> DEFINE f == fill[s]
  <2>1. /\ pc[s] = "position" /\ f \in Fills /\ posDone' = posDone \cup {f}
        /\ \A g \in Fills \ {f} : posPnl'[g] = posPnl[g]
        /\ f \in posDone => posPnl' = posPnl
        /\ \/ pnl'[s] = posPnl'[f]
           \/ f \notin posDone /\ pnl' = pnl /\ posPnl' = posPnl
        /\ pc' = [pc EXCEPT ![s] = "risk"] /\ \A t \in Sinks \ {s} : pnl'[t] = pnl[t]
        /\ riskDone' = riskDone /\ fill' = fill /\ known' = known /\ jknown' = jknown
    BY <1>5, PositionEffect
  <2>2. Rest
    BY <1>0, <2>1
  <2>3. Kept
    BY <1>0, <2>1
  <2>4. pnl'[s] = posPnl'[f]
    <3>1. pnl[s] = 0 /\ (f \notin posDone => posPnl[f] = 0)
      BY <1>0, <2>1 DEF ComputedAt, PosInv
    <3> QED
      BY <2>1, <3>1
  <2>5. pc'[s] = "risk" /\ fill'[s] \in posDone' /\ ~ known'[s]
    BY <1>0, <2>1 DEF ComputedAt
  <2>6. ComputedAt(s)'
    BY <2>1, <2>4, <2>5 DEF ComputedAt
  <2>7. riskDone' \ Old \subseteq posDone' /\ jknown' \subseteq riskDone'
    BY <2>1 DEF ComputedInv
  <2> QED
    BY <1>1, <2>2, <2>3, <2>6, <2>7
<1>6. CASE Risk(s)
  <2>1. UNCHANGED <<posDone, posPnl, jknown, known, pnl, fill>> /\ Rest
    BY <1>0, <1>6 DEF Risk, Goto
  <2>2. pc[s] = "risk" /\ pc'[s] = "loss" /\ riskDone' = riskDone \cup {fill[s]}
    BY <1>0, <1>6 DEF Risk, Goto, ApplyFillOnce
  <2>3. ComputedAt(s)'
    BY <1>0, <2>1, <2>2 DEF ComputedAt
  <2>4. riskDone' \ Old \subseteq posDone' /\ jknown' \subseteq riskDone'
    BY <1>0, <2>1, <2>2 DEF ComputedInv, ComputedAt
  <2> QED
    BY <1>1, <2>1, <2>3, <2>4
<1>7. CASE \/ Incomplete(s) \/ PositionRefused(s) \/ RiskSwallowed(s)
           \/ LossRefused(s) \/ Loss(s) \/ StoreFails(s) \/ Fail(s) \/ Crash(s)
  <2>1. UNCHANGED <<posDone, posPnl, riskDone, jknown, known, pnl, fill>> /\ Rest
    BY <1>0, <1>7 DEF Incomplete, PositionRefused, RiskSwallowed, LossRefused, Loss,
                      StoreFails, Fail, Crash, Goto
  <2>2. pc[s] # "idle" /\ pc'[s] \in {"failed", "loss", "idle"}
    BY <1>0, <1>7 DEF Incomplete, PositionRefused, RiskSwallowed, LossRefused, Loss,
                      StoreFails, Fail, Crash, Goto
  <2>3. ComputedAt(s)'
    BY <1>0, <2>1, <2>2 DEF ComputedAt
  <2> QED
    BY <1>2, <2>1, <2>3
<1> QED
  BY <1>3, <1>4, <1>5, <1>6, <1>7 DEF Sink

(* Repair and lock expiry leave computed results alone. *)
LEMMA ComputedOther ==
  ASSUME TypeInv, SinkAssumption, Computed, ComputedInv,
         Repair \/ LockExpires \/ UNCHANGED vars
  PROVE  ComputedInv' /\ UNCHANGED <<posDone, posPnl, riskDone, dayPnl>>
<1>1. UNCHANGED <<posDone, posPnl, jknown, pc, known, pnl, fill>>
  BY DEF Repair, RepairStart, RepairReplay, RepairVerify, RepairClear, LockExpires, vars
<1>2. ASSUME NEW f \in Fills, RepairReplay(f) PROVE UNCHANGED <<riskDone, dayPnl>>
  <2>1. f \in jknown => f \in riskDone
    BY DEF ComputedInv
  <2>2. ~ AllowNullPnl
    BY DEF Computed
  <2>3. CASE f \in jknown
    BY <1>2, <2>1, <2>3 DEF RepairReplay, ApplyFillOnce
  <2>4. CASE f \notin jknown
    <3>1. UNCHANGED riskVars
      BY <1>2, <2>2, <2>4, Zenon DEF RepairReplay
    <3> QED
      BY <3>1
  <2> QED
    BY <2>3, <2>4
<1>3. UNCHANGED <<riskDone, dayPnl>>
  BY <1>2 DEF Repair, RepairStart, RepairVerify, RepairClear, LockExpires, vars
<1> QED
  BY <1>1, <1>3 DEF ComputedInv, ComputedAt

(* The venue reports it: what a deliverer or the repair adds is in the     *)
(* delivery and in the row.                                                *)
LEMMA ReportedSink ==
  ASSUME TypeInv, SinkAssumption, Reported, ReportedInv, NEW s \in Sinks, Sink(s)
  PROVE  ReportedInv'
<1>0. /\ pc \in [Sinks -> Steps] /\ fill \in [Sinks -> Fills \cup {NoFill}]
      /\ known \in [Sinks -> BOOLEAN] /\ pnl \in [Sinks -> Int] /\ jrow \in [Fills -> Nat]
      /\ s \in PnlSinks /\ ReportedAt(s) /\ (pc[s] # "idle" => fill[s] \in Fills)
  BY DEF TypeInv, TypeOK, InHand, Reported, ReportedInv
<1> DEFINE Rest == \A t \in Sinks \ {s} : /\ pc'[t] = pc[t] /\ known'[t] = known[t]
                                         /\ pnl'[t] = pnl[t] /\ fill'[t] = fill[t]
<1>1. ASSUME posDone' = posDone, Rest, ReportedAt(s)', repWork' \cup Journaled' \subseteq jknown'
      PROVE  ReportedInv'
  <2>1. ASSUME NEW t \in Sinks \ {s} PROVE ReportedAt(t)'
    BY <1>1 DEF ReportedInv, ReportedAt
  <2> QED
    BY <1>1, <2>1 DEF ReportedInv
<1>2. ASSUME UNCHANGED <<posDone, jrow, jknown, repWork>>, Rest, ReportedAt(s)'
      PROVE  ReportedInv'
  BY <1>1, <1>2 DEF ReportedInv, Journaled
<1>3. ASSUME NEW f \in Fills, Deliver(s, f) PROVE ReportedInv'
  <2>1. UNCHANGED <<posDone, jrow, jknown, repWork>> /\ Rest
    BY <1>0, <1>3 DEF Deliver, Goto
  <2>2. pc'[s] = "cutover" /\ known'[s] = TRUE /\ pnl'[s] = VenuePnl[f] /\ fill'[s] = f
    BY <1>0, <1>3 DEF Deliver, Goto
  <2>3. ReportedAt(s)'
    BY <2>2 DEF ReportedAt
  <2> QED
    BY <1>2, <2>1, <2>3
<1>4. CASE Journal(s)
  <2>1. UNCHANGED <<posDone, repWork, known, pnl, fill>> /\ Rest
    BY <1>0, <1>4 DEF Journal, Goto
  <2>2. known[s] /\ pnl[s] = VenuePnl[fill[s]]
    BY <1>0, <1>4 DEF Journal, ReportedAt
  <2>3. pc'[s] = "risk"
    BY <1>0, <1>4, <2>2 DEF Journal, Goto
  <2>4. ReportedAt(s)'
    BY <2>1, <2>2, <2>3 DEF ReportedAt
  <2>5. Journaled' \subseteq Journaled \cup {fill[s]} /\ jknown \subseteq jknown'
    BY <1>0, <1>4 DEF Journal, Journaled
  <2>6. fill[s] \in jknown'
    BY <1>0, <1>4, <2>2 DEF Journal, ReportedInv
  <2> QED
    BY <1>1, <2>1, <2>4, <2>5, <2>6 DEF ReportedInv
<1>5. CASE \/ Incomplete(s) \/ Cutover(s) \/ PositionRefused(s) \/ Risk(s)
           \/ RiskSwallowed(s) \/ LossRefused(s) \/ Loss(s) \/ StoreFails(s) \/ Fail(s)
           \/ Crash(s)
  <2>1. UNCHANGED <<posDone, jrow, jknown, repWork, known, pnl, fill>> /\ Rest
    BY <1>0, <1>5 DEF Cutover, PositionRefused, Risk, RiskSwallowed, LossRefused, Loss, StoreFails,
                      Fail, Crash, Incomplete, Goto
  <2>2. pc[s] # "idle" /\ pc'[s] # "position"
    BY <1>0, <1>5 DEF Cutover, PositionRefused, Risk, RiskSwallowed, LossRefused, Loss, StoreFails,
                      Fail, Crash, Incomplete, Goto
  <2>3. ReportedAt(s)'
    BY <1>0, <2>1, <2>2 DEF ReportedAt
  <2> QED
    BY <1>2, <2>1, <2>3
<1>6. CASE Position(s)
  BY <1>0, <1>6 DEF Position, ReportedAt
<1> QED
  BY <1>3, <1>4, <1>5, <1>6 DEF Sink

(* Repair and lock expiry leave reported results alone. *)
LEMMA ReportedOther ==
  ASSUME TypeInv, SinkAssumption, Reported, ReportedInv,
         Repair \/ LockExpires \/ UNCHANGED vars
  PROVE  ReportedInv' /\ UNCHANGED <<posDone, posPnl>>
<1>1. UNCHANGED <<posDone, posPnl, jrow, jknown, pc, known, pnl, fill>>
  BY DEF Repair, RepairStart, RepairReplay, RepairVerify, RepairClear, LockExpires, vars
<1>2. repWork' \subseteq repWork \cup Journaled
  BY DEF Repair, RepairStart, RepairReplay, RepairVerify, RepairClear, LockExpires, vars, Missing
<1> QED
  BY <1>1, <1>2 DEF ReportedInv, ReportedAt, Journaled

(* Only risk_daily's transaction and the repair touch the daily total.     *)
LEMMA RiskFrame ==
  ASSUME NEW s \in Sinks, Sink(s), ~ Risk(s) PROVE UNCHANGED riskVars
<1>1. ASSUME NEW f \in Fills, Deliver(s, f) PROVE UNCHANGED riskVars
  BY <1>1 DEF Deliver
<1> QED
  BY <1>1 DEF Sink, Cutover, Journal, Position, PositionRefused, RiskSwallowed, LossRefused, Loss,
              StoreFails, Fail, Crash, Incomplete

AgreeInv ==
  /\ PosInv /\ DayInv
  /\ Computed => ComputedInv
  /\ Reported => ReportedInv

(* A deliverer keeps the day's total the sum of the fills counted in it. *)
LEMMA AgreeSink ==
  ASSUME TypeInv, TypeInv', SinkAssumption, AgreeInv, Computed \/ Reported, NEW s \in Sinks, Sink(s)
  PROVE  DayInv'
<1>0. DayInv
  BY DEF AgreeInv
<1>1. CASE Risk(s)
  <2>1. /\ pc[s] = "risk" /\ fill[s] \in Fills /\ ApplyFillOnce(fill[s], pnl[s])
        /\ UNCHANGED <<posDone, posPnl>>
    BY <1>1 DEF Risk, TypeInv, InHand
  <2>2. pnl[s] = Realized[fill[s]]
    <3>1. Realized[fill[s]] = IF fill[s] \in posDone THEN posPnl[fill[s]] ELSE VenuePnl[fill[s]]
      BY <2>1 DEF Realized
    <3>2. CASE Computed
      <4>1. fill[s] \in posDone /\ pnl[s] = posPnl[fill[s]]
        BY <2>1, <3>2 DEF AgreeInv, ComputedInv, ComputedAt
      <4> QED
        BY <3>1, <4>1
    <3>3. CASE Reported
      <4>1. posDone = {} /\ pnl[s] = VenuePnl[fill[s]]
        BY <2>1, <3>3 DEF AgreeInv, ReportedInv, ReportedAt
      <4> QED
        BY <3>1, <4>1
    <3> QED
      BY <3>2, <3>3
  <2> QED
    BY <1>0, <2>1, <2>2, DayAdd
<1>2. CASE ~ Risk(s) /\ Position(s)
  <2>1. UNCHANGED riskVars
    BY <1>2, RiskFrame
  <2>2. /\ pc[s] = "position" /\ fill[s] \in Fills /\ posDone' = posDone \cup {fill[s]}
        /\ \A f \in Fills \ {fill[s]} : posPnl'[f] = posPnl[f]
        /\ fill[s] \in posDone => posPnl' = posPnl
    BY <1>2, PositionEffect
  <2>3. Computed /\ riskDone \ Old \subseteq posDone
    BY <2>2 DEF AgreeInv, ComputedInv, ReportedInv, ReportedAt
  <2>4. \A f \in riskDone \ Old : f \in Fills /\ f \in posDone /\ f \in posDone' /\ posPnl'[f] = posPnl[f]
    BY <2>2, <2>3 DEF TypeInv, TypeOK
  <2>5. \A f \in riskDone \ Old : Realized'[f] = Realized[f]
    BY <2>4 DEF Realized
  <2> QED
    BY <1>0, <2>1, <2>5, DaySame
<1>3. CASE ~ Risk(s) /\ ~ Position(s)
  <2>1. UNCHANGED riskVars
    BY <1>3, RiskFrame
  <2>2. UNCHANGED positionVars
    <3>1. ASSUME NEW f \in Fills, Deliver(s, f) PROVE UNCHANGED positionVars
      BY <3>1 DEF Deliver
    <3> QED
      BY <1>3, <3>1 DEF Sink, Cutover, Journal, PositionRefused, RiskSwallowed, LossRefused,
                        Loss, StoreFails, Fail, Crash, Incomplete
  <2>3. Realized' = Realized
    BY <2>2 DEF Realized
  <2> QED
    BY <1>0, <2>1, <2>3 DEF DayInv
<1> QED
  BY <1>1, <1>2, <1>3

(* So do the repair script and the expiry of a lock. *)
LEMMA AgreeOther ==
  ASSUME TypeInv, SinkAssumption, AgreeInv, Computed \/ Reported,
         Repair \/ LockExpires \/ UNCHANGED vars
  PROVE  DayInv'
<1>0. DayInv
  BY DEF AgreeInv
<1>1. CASE Computed
  <2>1. UNCHANGED <<posDone, posPnl, riskDone, dayPnl>>
    BY <1>1, ComputedOther DEF AgreeInv
  <2>2. Realized' = Realized
    BY <2>1 DEF Realized
  <2> QED
    BY <1>0, <2>1, <2>2 DEF DayInv
<1>2. CASE Reported
  <2>1. UNCHANGED <<posDone, posPnl>> /\ posDone = {} /\ repWork \subseteq jknown
    BY <1>2, ReportedOther DEF AgreeInv, ReportedInv
  <2>2. Realized' = Realized
    BY <2>1 DEF Realized
  <2>3. ASSUME UNCHANGED riskVars PROVE DayInv'
    BY <1>0, <2>2, <2>3 DEF DayInv
  <2>4. ASSUME NEW f \in Fills, RepairReplay(f) PROVE DayInv'
    <3>1. f \in jknown
      BY <2>1, <2>4 DEF RepairReplay
    <3>2. Realized[f] = VenuePnl[f]
      BY <2>1 DEF Realized
    <3>3. ApplyFillOnce(f, VenuePnl[f]) \/ UNCHANGED riskVars
      BY <2>4, <3>1 DEF RepairReplay
    <3>4. CASE ApplyFillOnce(f, VenuePnl[f])
      BY <1>0, <2>1, <3>2, <3>4, DayAdd
    <3> QED
      BY <2>3, <3>3, <3>4
  <2>5. CASE RepairStart \/ RepairVerify \/ RepairClear \/ LockExpires \/ UNCHANGED vars
    <3>1. UNCHANGED riskVars
      BY <2>5 DEF RepairStart, RepairVerify, RepairClear, LockExpires, vars
    <3> QED
      BY <2>3, <3>1
  <2> QED
    BY <2>4, <2>5 DEF Repair
<1> QED
  BY <1>1, <1>2

(* "Apply a fill's realized pnl + fees to today's risk_daily EXACTLY       *)
(* ONCE": the daily total is the sum of what its fills realized and the    *)
(* position the sum of its fills, for any fills, deliverers, failures,     *)
(* crashes, repeated deliveries and repairs, as long as one source has the *)
(* PnL: the position store, with a repair that refuses rows without one,   *)
(* or the venue.                                                           *)
THEOREM CountedOnce ==
  ASSUME Computed \/ Reported
  PROVE  Spec => []AccountsAgree
<1>1. Init => AgreeInv
  <2> SUFFICES ASSUME Init PROVE AgreeInv
    OBVIOUS
  <2>1. TypeInv
    BY TypeInit, SinkAssumption
  <2>2. Realized \in [Fills -> Int]
    BY <2>1, Weights, SinkAssumption
  <2>3. posDone = {} /\ riskDone = Old /\ riskDone \ Old = {} /\ dayPnl = OldPnl
    BY DEF Init
  <2>5. SumFunctionOnSet(Realized, {}) = 0
    <3> DEFINE w == Realized
    <3> HIDE DEF w
    <3>1. w \in [Fills -> Int]
      BY <2>2 DEF w
    <3>2. SumFunctionOnSet(w, {}) = 0
      BY <3>1, SumEmpty
    <3> QED
      BY <3>2 DEF w
  <2>6. PosInv
    BY <2>1, PosInit, SinkAssumption
  <2>7. DayInv
    <3>1. SumFunctionOnSet(Realized, riskDone \ Old) = 0
      BY <2>3, <2>5
    <3>2. OldPnl = OldPnl + 0
      BY SinkAssumption
    <3> QED
      BY <2>3, <3>1, <3>2 DEF DayInv
  <2>8. \A s \in Sinks : pc[s] = "idle"
    BY DEF Init
  <2>9. jknown = Old /\ repWork = {}
    BY DEF Init
  <2>10. Journaled \subseteq Old
    BY DEF Init, Journaled
  <2>11. ComputedInv
    BY <2>3, <2>8, <2>9 DEF ComputedInv, ComputedAt
  <2>12. ReportedInv
    BY <2>3, <2>8, <2>9, <2>10 DEF ReportedInv, ReportedAt
  <2> QED
    BY <2>6, <2>7, <2>11, <2>12 DEF AgreeInv
<1>2. AgreeInv /\ TypeInv /\ TypeInv' /\ [Next]_vars => AgreeInv'
  <2> SUFFICES ASSUME AgreeInv, TypeInv, TypeInv', [Next]_vars PROVE AgreeInv'
    OBVIOUS
  <2>1. PosInv'
    BY PosStep, SinkAssumption DEF AgreeInv
  <2>2. ASSUME NEW s \in Sinks, Sink(s) PROVE AgreeInv'
    <3>1. DayInv'
      BY <2>2, AgreeSink, SinkAssumption
    <3>2. Computed => ComputedInv'
      BY <2>2, ComputedSink, SinkAssumption DEF AgreeInv
    <3>3. Reported => ReportedInv'
      BY <2>2, ReportedSink, SinkAssumption DEF AgreeInv
    <3> QED
      BY <2>1, <3>1, <3>2, <3>3 DEF AgreeInv, Computed, Reported
  <2>3. CASE Repair \/ LockExpires \/ UNCHANGED vars
    <3>1. DayInv'
      BY <2>3, AgreeOther, SinkAssumption
    <3>2. Computed => ComputedInv'
      BY <2>3, ComputedOther, SinkAssumption DEF AgreeInv
    <3>3. Reported => ReportedInv'
      BY <2>3, ReportedOther, SinkAssumption DEF AgreeInv
    <3> QED
      BY <2>1, <3>1, <3>2, <3>3 DEF AgreeInv, Computed, Reported
  <2> QED
    BY <2>2, <2>3 DEF Next
<1>3. AgreeInv => AccountsAgree
  BY DEF AgreeInv, PosInv, DayInv, AccountsAgree
<1>4. Spec => []TypeInv
  BY TypeCorrect, PTL DEF TypeInv
<1> QED
  BY <1>1, <1>2, <1>3, <1>4, PTL DEF Spec
=============================================================================
