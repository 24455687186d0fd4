------------------------ MODULE FillReconcileProofs ------------------------
(***************************************************************************)
(* Theorems about FillReconcile for any orders, trades, faults and bounds. *)
(***************************************************************************)
EXTENDS FillReconcile, TLAPS

USE DEF venueVars, rowVars, tradingVars, sinkVars, passVars, rowLocals, batchVars,
        localVars, historyVars, boundVars, Steps, Statuses, TerminalStatuses, LiveStatuses,
        Goto, Leave, DropBatch, AfterLedger, AfterBatch, TryWrite

(* The reconciler at work has a row in hand, and a trade where it delivers *)
(* one.                                                                    *)
InHand ==
  /\ pc \notin {"idle", "next"} => cur \in Orders /\ cur \notin todo
  /\ pc \in {"emit", "risk"} => trade \in listed
  /\ pc = "risk" => trade \in journaled

TypeInv == TypeOK /\ InHand

(* The initial state has the types. *)
LEMMA TypeInit == ASSUME ReconcileAssumption, Init PROVE TypeInv
<1>1. /\ aged \in BOOLEAN /\ pending \in BOOLEAN /\ blocked \in BOOLEAN
      /\ stale \in [Orders -> BOOLEAN]
  BY DEF Init
<1>2. status \in [Orders -> Statuses] /\ ledger \in [Orders -> Statuses]
  BY DEF Init
<1> QED
  BY <1>1, <1>2 DEF Init, TypeInv, TypeOK, InHand, ReconcileAssumption

(* A write of the queue keeps the types of the rows. *)
LEMMA TypeWrite ==
  ASSUME TypeInv, NEW o \in Orders, NEW s \in Statuses, WriteRow(o, s)
  PROVE  status' \in [Orders -> Statuses] /\ stale' \in [Orders -> BOOLEAN]
  BY DEF WriteRow, TypeInv, TypeOK

(* So does the end of a row's turn, and giving it up. *)
LEMMA TypeTry ==
  ASSUME TypeInv, NEW s \in Statuses, NEW then \in Steps, pc \notin {"idle", "next"},
         then \notin {"emit", "risk"}, TryWrite(s, then),
         UNCHANGED <<venueVars, tradingVars, cursor, sinkVars, guard, passVars, historyVars>>,
         faults' \in Nat, crashes' \in Nat, halts' \in Nat, ages' \in Nat
  PROVE  TypeInv'
<1>1. cur \in Orders
  BY DEF TypeInv, InHand
<1>2. status' \in [Orders -> Statuses] /\ stale' \in [Orders -> BOOLEAN]
  BY <1>1, TypeWrite DEF TypeInv, TypeOK
<1>3. aged' \in BOOLEAN /\ pending' \in BOOLEAN /\ blocked' \in BOOLEAN
  BY Zenon DEF TypeInv, TypeOK
<1> QED
  BY <1>1, <1>2, <1>3 DEF TypeInv, TypeOK, InHand

LEMMA TypeGiveUp ==
  ASSUME TypeInv, NEW then \in Steps, pc \notin {"idle", "next"}, then \notin {"emit", "risk"},
         GiveUp(then),
         faults' \in Nat, crashes' \in Nat, halts' \in Nat, ages' \in Nat
  PROVE  TypeInv'
<1>1. CASE aged
  BY <1>1, TypeTry DEF GiveUp
<1>2. CASE ~ aged
  <2>1. aged' \in BOOLEAN /\ pending' \in BOOLEAN /\ blocked' \in BOOLEAN
    BY <1>2, Zenon DEF GiveUp
  <2> QED
    BY <1>2, <2>1 DEF GiveUp, TypeInv, TypeOK, InHand
<1> QED
  BY <1>1, <1>2

(* Venue, clock and other processes preserve the types. *)
LEMMA TypeEnvironment ==
  ASSUME TypeInv, ReconcileAssumption, Environment
  PROVE  TypeInv'
<1> USE DEF TypeInv, TypeOK, InHand
<1>1. ASSUME NEW t \in Trades, Execute(t) PROVE TypeInv'
  BY <1>1 DEF Execute
<1>2. ASSUME NEW t \in Trades, List(t) PROVE TypeInv'
  BY <1>2 DEF List
<1>3. ASSUME NEW t \in Trades, OthersDeliver(t) PROVE TypeInv'
  BY <1>3 DEF OthersDeliver, Sink!Journal, Sink!Answer
<1>4. ASSUME NEW o \in Orders, Age(o) PROVE TypeInv'
  BY <1>4 DEF Age
<1>5. ASSUME NEW o \in Orders, Confirm(o) PROVE TypeInv'
  BY <1>5 DEF Confirm
<1>6. ASSUME NEW o \in Orders, NEW s \in Ends, End(o, s) PROVE TypeInv'
  BY <1>6 DEF End, ReconcileAssumption
<1>7. ASSUME Halt PROVE TypeInv'
  BY <1>7 DEF Halt
<1> QED
  BY <1>1, <1>2, <1>3, <1>4, <1>5, <1>6, <1>7 DEF Environment

(* So do the failures. *)
LEMMA TypeFault ==
  ASSUME TypeInv, ReconcileAssumption, Fault
  PROVE  TypeInv'
<1>1. ASSUME NEW at, "idle" \notin at, "next" \notin at, Raises(at) PROVE TypeInv'
  <2>1. blocked' \in BOOLEAN /\ aged' \in BOOLEAN /\ pending' \in BOOLEAN
    BY <1>1, Zenon DEF Raises, TypeInv, TypeOK
  <2> QED
    BY <1>1, <2>1 DEF Raises, TypeInv, TypeOK, InHand
<1>2. CASE OrderGone
  BY <1>2, TypeGiveUp DEF OrderGone, TypeInv, TypeOK
<1>3. CASE EmitFails
  <2>1. blocked' \in BOOLEAN
    BY <1>3, Zenon DEF EmitFails
  <2> QED
    BY <1>3, <2>1 DEF EmitFails, TypeInv, TypeOK, InHand
<1>4. CASE LookbackFails
  <2>1. cur \in Orders
    BY <1>4 DEF LookbackFails, TypeInv, InHand
  <2>2. status' \in [Orders -> Statuses] /\ stale' \in [Orders -> BOOLEAN]
    BY <1>4, <2>1, TypeWrite DEF LookbackFails, Defer, TypeInv, TypeOK
  <2>3. aged' \in BOOLEAN /\ pending' \in BOOLEAN /\ blocked' \in BOOLEAN
    BY <1>4, Zenon DEF LookbackFails, Defer
  <2> QED
    BY <1>4, <2>1, <2>2, <2>3 DEF LookbackFails, Defer, TypeInv, TypeOK, InHand
<1>5. CASE Crash
  <2>1. aged' \in BOOLEAN /\ pending' \in BOOLEAN /\ blocked' \in BOOLEAN
    BY <1>5, Zenon DEF Crash
  <2> QED
    BY <1>5, <2>1 DEF Crash, TypeInv, TypeOK, InHand
<1>6. ASSUME NEW t \in Trades, Swallow(t) PROVE TypeInv'
  BY <1>6 DEF Swallow, Sink!Swallow, TypeInv, TypeOK, InHand
<1> QED
  BY <1>1, <1>2, <1>3, <1>4, <1>5, <1>6 DEF Fault

(* So do the steps of a pass. *)
LEMMA TypeWork ==
  ASSUME TypeInv, ReconcileAssumption, Work
  PROVE  TypeInv'
<1>0. {"submitted", "filled", "canceled", "rejected", "error"} \subseteq Statuses
  OBVIOUS
<1>1. CASE StartPass
  BY <1>1 DEF StartPass, Submitted, TypeInv, TypeOK, InHand
<1>2. ASSUME NEW o \in Orders, NextRow(o) PROVE TypeInv'
  <2>1. aged' \in BOOLEAN /\ pending' \in BOOLEAN
    BY <1>2, Zenon DEF NextRow, TypeInv, TypeOK
  <2> QED
    BY <1>2, <2>1 DEF NextRow, TypeInv, TypeOK, InHand
<1>3. CASE OrderClosed
  <2>1. pending' \in BOOLEAN
    BY <1>3, Zenon DEF OrderClosed
  <2> QED
    BY <1>3, <2>1 DEF OrderClosed, TypeInv, TypeOK, InHand
<1>4. CASE OrderDead
  BY <1>0, <1>4, TypeTry DEF OrderDead, TypeInv, TypeOK
<1>5. CASE OrderOpen
  <2>1. CASE aged
    BY <1>0, <1>5, <2>1, TypeTry DEF OrderOpen, TypeInv, TypeOK
  <2>2. CASE ~ aged
    BY <1>5, <2>2 DEF OrderOpen, TypeInv, TypeOK, InHand
  <2> QED
    BY <2>1, <2>2
<1>6. CASE OrderOther
  BY <1>6 DEF OrderOther, TypeInv, TypeOK, InHand
<1>7. CASE Except
  BY <1>7, TypeGiveUp DEF Except, TypeInv, TypeOK
<1>8. CASE Ledger
  <2>1. aged' \in BOOLEAN /\ pending' \in BOOLEAN /\ blocked' \in BOOLEAN
    BY <1>8, Zenon DEF Ledger, TypeInv, TypeOK
  <2> QED
    BY <1>8, <2>1 DEF Ledger, TypeInv, TypeOK, InHand
<1>9. CASE FetchTrades
  BY <1>9 DEF FetchTrades, TypeInv, TypeOK, InHand
<1>10. ASSUME NEW t \in Trades, InsertFill(t) PROVE TypeInv'
  BY <1>10 DEF InsertFill, TypeInv, TypeOK, InHand
<1>11. CASE EmitJournal
  BY <1>11 DEF EmitJournal, Sink!Journal, TypeInv, TypeOK, InHand
<1>12. CASE EmitOk
  <2>1. trade \in Trades /\ Ts[trade] \in Nat
    BY <1>12 DEF EmitOk, TypeInv, TypeOK, InHand, ReconcileAssumption
  <2>2. maxTs' \in Nat /\ nAccounted' \in Nat
    BY <1>12, <2>1 DEF EmitOk, Later, TypeInv, TypeOK
  <2> QED
    BY <1>12, <2>1, <2>2 DEF EmitOk, Sink!Answer, TypeInv, TypeOK, InHand
<1>13. CASE SaveCursor
  <2>1. aged' \in BOOLEAN /\ pending' \in BOOLEAN /\ blocked' \in BOOLEAN
    BY <1>13, Zenon DEF SaveCursor, TypeInv, TypeOK
  <2>2. cursor' \in Nat /\ maxTs' \in Nat
    BY <1>13 DEF SaveCursor, TypeInv, TypeOK
  <2> QED
    BY <1>13, <2>1, <2>2 DEF SaveCursor, TypeInv, TypeOK, InHand
<1>14. CASE Decide
  <2>1. CASE Defer
    <3>1. cur \in Orders
      BY <1>14 DEF Decide, TypeInv, InHand
    <3>2. status' \in [Orders -> Statuses] /\ stale' \in [Orders -> BOOLEAN]
      BY <2>1, <3>1, TypeWrite DEF Defer, TypeInv, TypeOK
    <3>3. aged' \in BOOLEAN /\ pending' \in BOOLEAN /\ blocked' \in BOOLEAN
      BY <2>1, Zenon DEF Defer
    <3> QED
      BY <1>14, <2>1, <3>2, <3>3 DEF Decide, Defer, TypeInv, TypeOK, InHand
  <2>2. CASE TryWrite("filled", "ledger_next")
    <3> HIDE DEF TryWrite
    <3> QED
      BY <1>0, <1>14, <2>2, TypeTry DEF Decide, TypeInv, TypeOK
  <2> QED
    BY <1>14, <2>1, <2>2 DEF Decide
<1>15. CASE EndPass
  BY <1>15 DEF EndPass, Promote, Unknown, TypeInv, TypeOK, InHand
<1> QED
  BY <1>1, <1>2, <1>3, <1>4, <1>5, <1>6, <1>7, <1>8, <1>9, <1>10, <1>11, <1>12, <1>13,
     <1>14, <1>15 DEF Work

(* Every variable keeps its type; the reconciler at work has a row in      *)
(* hand, and where it delivers a trade one that the venue listed.          *)
THEOREM TypeCorrect == Spec => [](TypeOK /\ InHand)
<1>1. Init => TypeInv
  BY TypeInit, ReconcileAssumption
<1>2. TypeInv /\ [Next]_vars => TypeInv'
  <2>1. CASE UNCHANGED vars
    BY <2>1 DEF vars, TypeInv, TypeOK, InHand
  <2> QED
    BY <2>1, TypeWork, TypeFault, TypeEnvironment, ReconcileAssumption DEF Next
<1> QED
  BY <1>1, <1>2, PTL DEF Spec, TypeInv

-----------------------------------------------------------------------------
(* Rows, venue and live_orders *)

(* filled is decided only for a row whose order the venue called closed.   *)
PendingInv ==
  /\ pending => cur \in Orders /\ vstat[cur] = "closed"
  /\ pc = "decide" => pending

(* What one step may do to a row: an order that ended stays as it is; a    *)
(* live row becomes submitted or gets the end the venue reported, or       *)
(* error; live_orders only follows.                                        *)
RowStep ==
  \A o \in Orders :
    /\ vstat[o] # "open" => vstat'[o] = vstat[o]
    /\ status'[o] # status[o] =>
         /\ status[o] \in LiveStatuses
         /\ status'[o] \in (TerminalStatuses \ {"expired"}) \cup {"submitted"}
         /\ status'[o] = "filled" => vstat'[o] = "closed"
         /\ status'[o] \in {"canceled", "rejected"} => vstat'[o] = status'[o]
    /\ ledger'[o] \in {ledger[o], status'[o]}

(* A step that leaves rows, venue and live_orders alone. *)
LEMMA QuietRow ==
  ASSUME UNCHANGED <<vstat, status, ledger>>
  PROVE  RowStep
  BY DEF RowStep

(* A write that the queue accepts. *)
LEMMA WriteStep ==
  ASSUME TypeInv, NEW s \in {"submitted", "filled", "canceled", "rejected", "error"},
         cur \in Orders, CanWrite(cur, s), WriteRow(cur, s), UNCHANGED <<vstat, ledger>>,
         s = "filled" => vstat[cur] = "closed",
         s \in {"canceled", "rejected"} => vstat[cur] = s
  PROVE  RowStep
<1>1. status[cur] \in LiveStatuses
  BY DEF CanWrite, SqlAllows
<1>2. \A o \in Orders : status'[o] = IF o = cur THEN s ELSE status[o]
  BY DEF WriteRow, TypeInv, TypeOK
<1> QED
  BY <1>1, <1>2 DEF RowStep

(* Trying a write, or giving up a row.                                     *)
LEMMA TryStep ==
  ASSUME TypeInv, NEW s \in {"submitted", "filled", "canceled", "rejected", "error"}, NEW then,
         cur \in Orders, TryWrite(s, then), UNCHANGED <<vstat, ledger>>,
         s = "filled" => vstat[cur] = "closed",
         s \in {"canceled", "rejected"} => vstat[cur] = s
  PROVE  RowStep
<1>1. CASE CanWrite(cur, s) /\ WriteRow(cur, s)
  BY <1>1, WriteStep
<1>2. CASE UNCHANGED rowVars
  BY <1>2, QuietRow
<1> QED
  BY <1>1, <1>2

(* Every step of the system is such a step. *)
LEMMA RowMoves ==
  ASSUME TypeInv, ReconcileAssumption, PendingInv, [Next]_vars
  PROVE  RowStep
<1> USE QuietRow
<1>1. CASE OrderDead
  <2>1. cur \in Orders /\ vstat[cur] \in {"canceled", "rejected"}
    BY <1>1 DEF OrderDead, TypeInv, InHand
  <2> HIDE DEF TryWrite
  <2> QED
    BY <1>1, <2>1, TryStep DEF OrderDead
<1>2. CASE OrderOpen
  <2>1. cur \in Orders
    BY <1>2 DEF OrderOpen, TypeInv, InHand
  <2> HIDE DEF TryWrite
  <2> QED
    BY <1>2, <2>1, TryStep DEF OrderOpen
<1>3. CASE OrderGone \/ Except
  <2>1. cur \in Orders
    BY <1>3 DEF OrderGone, Except, TypeInv, InHand
  <2> HIDE DEF TryWrite
  <2> QED
    BY <1>3, <2>1, TryStep DEF OrderGone, Except, GiveUp
<1>4. CASE Ledger
  BY <1>4 DEF Ledger, RowStep, TypeInv, TypeOK
<1>5. CASE Decide \/ LookbackFails
  <2>1. cur \in Orders /\ vstat[cur] = "closed"
    BY <1>5 DEF Decide, LookbackFails, PendingInv
  <2>2. CASE Defer
    <3>1. UNCHANGED <<vstat, ledger>>
      BY <1>5 DEF Decide, LookbackFails
    <3> QED
      BY <2>1, <2>2, <3>1, WriteStep DEF Defer
  <2>3. CASE TryWrite("filled", "ledger_next")
    <3>1. UNCHANGED <<vstat, ledger>>
      BY <1>5 DEF Decide, LookbackFails
    <3> HIDE DEF TryWrite
    <3> QED
      BY <2>1, <2>3, <3>1, TryStep
  <2> QED
    BY <1>5, <2>2, <2>3 DEF Decide, LookbackFails
<1>6. ASSUME NEW o \in Orders, Confirm(o) PROVE RowStep
  BY <1>6 DEF Confirm, RowStep, TypeInv, TypeOK
<1>7. ASSUME NEW o \in Orders, NEW s \in Ends, End(o, s) PROVE RowStep
  BY <1>7 DEF End, RowStep, TypeInv, TypeOK
<1>8. CASE \/ StartPass \/ (\E o \in Orders : NextRow(o)) \/ OrderClosed \/ OrderOther
           \/ FetchTrades \/ (\E t \in Trades : InsertFill(t)) \/ EmitJournal \/ EmitOk
           \/ SaveCursor \/ EndPass
  BY <1>8 DEF StartPass, NextRow, OrderClosed, OrderOther, FetchTrades, InsertFill,
     EmitJournal, EmitOk, SaveCursor, EndPass
<1>9. CASE \/ \E at \in SUBSET Steps : Raises(at)
           \/ EmitFails \/ (\E t \in Trades : Swallow(t)) \/ Crash \/ Halt \/ UNCHANGED vars
  BY <1>9 DEF Raises, EmitFails, Swallow, Crash, Halt, vars
<1>10. ASSUME NEW t \in Trades, Execute(t) \/ List(t) \/ OthersDeliver(t) PROVE RowStep
  BY <1>10 DEF Execute, List, OthersDeliver
<1>11. ASSUME NEW o \in Orders, Age(o) PROVE RowStep
  BY <1>11 DEF Age
<1>12. CASE Work
  BY <1>12, <1>1, <1>2, <1>3, <1>4, <1>5, <1>8 DEF Work
<1>13. CASE Fault
  BY <1>13, <1>3, <1>5, <1>9 DEF Fault
<1>14. CASE Environment
  BY <1>14, <1>6, <1>7, <1>9, <1>10, <1>11 DEF Environment
<1> QED
  BY <1>9, <1>12, <1>13, <1>14 DEF Next

(* pending is set with the venue's answer and dropped with the row.        *)
LEMMA PendingStep ==
  ASSUME TypeInv, ReconcileAssumption, PendingInv, [Next]_vars
  PROVE  PendingInv'
<1>1. \A o \in Orders : vstat[o] # "open" => vstat'[o] = vstat[o]
  BY RowMoves DEF RowStep
<1>2. CASE OrderClosed
  BY <1>2 DEF OrderClosed, PendingInv, TypeInv, InHand
<1>3. ASSUME NEW o \in Orders, NextRow(o) PROVE PendingInv'
  BY <1>3 DEF NextRow, PendingInv
<1>4. CASE SaveCursor
  BY <1>1, <1>4 DEF SaveCursor, PendingInv
<1>5. CASE \/ pc' # "decide" /\ pending' = FALSE
           \/ pc' \in {pc} \cup (Steps \ {"decide"}) /\ UNCHANGED <<pending, cur>>
  <2>1. CASE pc' # "decide" /\ pending' = FALSE
    BY <2>1, Zenon DEF PendingInv
  <2>2. CASE pc' \in {pc} \cup (Steps \ {"decide"}) /\ UNCHANGED <<pending, cur>>
    <3>1. pc' = "decide" => pc = "decide"
      BY <2>2
    <3>2. pending => vstat'[cur] = vstat[cur]
      BY <1>1 DEF PendingInv
    <3> QED
      BY <2>2, <3>1, <3>2, Zenon DEF PendingInv
  <2> QED
    BY <1>5, <2>1, <2>2
<1>6. CASE Work
  <2>1. CASE StartPass \/ OrderDead \/ OrderOpen \/ OrderOther \/ Except \/ Ledger
    BY <2>1, <1>5 DEF StartPass, OrderDead, OrderOpen, OrderOther, Except, GiveUp, Ledger
  <2>2. CASE FetchTrades \/ (\E t \in Trades : InsertFill(t)) \/ EmitJournal \/ EmitOk
    BY <2>2, <1>5 DEF FetchTrades, InsertFill, EmitJournal, EmitOk
  <2>3. CASE Decide \/ EndPass
    BY <2>3, <1>5 DEF Decide, Defer, EndPass
  <2> QED
    BY <1>6, <2>1, <2>2, <2>3, <1>2, <1>3, <1>4 DEF Work
<1>7. CASE Fault
  BY <1>7, <1>5 DEF Fault, Raises, OrderGone, GiveUp, Swallow, EmitFails, LookbackFails, Defer, Crash
<1>8. CASE Environment
  BY <1>8, <1>5 DEF Environment, Execute, List, OthersDeliver, Age, Confirm, End, Halt
<1>9. CASE UNCHANGED vars
  BY <1>9, <1>5 DEF vars
<1> QED
  BY <1>6, <1>7, <1>8, <1>9 DEF Next

(* Both what the rows say and what live_orders says, by one induction: a   *)
(* ledger entry is written after the row it copies.                        *)
LEMMA EndsFollow == Spec => [](VenueDecides /\ LedgerBehind)
<1> DEFINE Inv == VenueDecides /\ LedgerBehind
<1>1. Init => PendingInv /\ Inv
  BY ReconcileAssumption DEF Init, PendingInv, VenueDecides, LedgerBehind
<1>2. ASSUME TypeInv, RowStep, Inv PROVE Inv'
  <2>1. ASSUME NEW o \in Orders
        PROVE  /\ status'[o] = "filled" => vstat'[o] = "closed"
               /\ status'[o] \in {"canceled", "rejected"} => vstat'[o] = status'[o]
    BY <1>2 DEF RowStep, VenueDecides
  <2>2. ASSUME NEW o \in Orders, ledger'[o] \in TerminalStatuses PROVE ledger'[o] = status'[o]
    BY <1>2, <2>2 DEF RowStep, LedgerBehind
  <2> QED
    BY <2>1, <2>2 DEF VenueDecides, LedgerBehind
<1>3. TypeInv /\ PendingInv /\ Inv /\ [Next]_vars => PendingInv' /\ Inv'
  BY <1>2, RowMoves, PendingStep, ReconcileAssumption
<1>4. Spec => []TypeInv
  BY TypeCorrect, PTL DEF TypeInv
<1> QED
  BY <1>1, <1>3, <1>4, PTL DEF Spec

(* "Exchange confirms filled / canceled: reconciler sets": whatever fails, *)
(* dies, ages or is halted, a row ends as filled, canceled or rejected     *)
(* only when the venue's order did.                                        *)
THEOREM RowsFollowVenue == Spec => []VenueDecides
  BY EndsFollow, PTL

(* live_orders follows the queue: it claims no end that the row does not   *)
(* have, though it is written in a second step that may fail or never come. *)
THEOREM LedgerFollows == Spec => []LedgerBehind
  BY EndsFollow, PTL

-----------------------------------------------------------------------------
(* The end of a halt *)

(* Rows are where this reconciler expects them, or at an end. *)
Known ==
  \A o \in Orders :
    status[o] \in {"filled", "canceled", "rejected", "error", "submitted", "submit_unknown"}

(* HALTED, and what was overlooked, are written by EndPass alone.          *)
LEMMA GuardStep ==
  ASSUME [Next]_vars, guard' = "HALTED"
  PROVE  \/ guard = "HALTED" /\ overlooked' = overlooked
         \/ Submitted = {} /\ overlooked' = Unknown /\ UNCHANGED <<status, vstat>>
<1>1. CASE EndPass
  BY <1>1 DEF EndPass, Promote
<1>2. CASE Work /\ ~ EndPass
  BY <1>2 DEF Work, StartPass, NextRow, OrderClosed, OrderDead, OrderOpen, OrderOther,
     Except, GiveUp, Ledger, FetchTrades, InsertFill, EmitJournal, EmitOk, SaveCursor, Decide
<1>3. CASE Fault
  BY <1>3 DEF Fault, Raises, OrderGone, GiveUp, Swallow, EmitFails, LookbackFails, Crash
<1>4. CASE Environment
  BY <1>4 DEF Environment, Execute, List, OthersDeliver, Age, Confirm, End, Halt
<1> QED
  BY <1>1, <1>2, <1>3, <1>4 DEF Next, vars

(* The reconciler "may only move HALTING -> HALTED after cleanup work is   *)
(* complete": once HALTED, an order is open at the venue only if its row   *)
(* was given up, or was submit_unknown when the halt was completed; for    *)
(* any orders, failures, crashes, aging and halts.                         *)
THEOREM HaltEndsOrders == Spec => []HaltedOrdersOver
<1> DEFINE Inv == PendingInv /\ Known /\ VenueDecides /\ HaltedOrdersOver
<1>1. Init => Inv
  BY ReconcileAssumption DEF Init, PendingInv, Known, VenueDecides, HaltedOrdersOver
<1>2. ASSUME TypeInv, Inv, [Next]_vars PROVE Inv'
  <2>1. RowStep
    BY <1>2, RowMoves, ReconcileAssumption
  <2>2. PendingInv'
    BY <1>2, PendingStep, ReconcileAssumption
  <2>3. Known' /\ VenueDecides'
    BY <1>2, <2>1 DEF RowStep, Known, VenueDecides
  <2>4. ASSUME guard = "HALTED", overlooked' = overlooked,
               NEW o \in Orders, vstat'[o] = "open"
        PROVE  status'[o] = "error" \/ o \in overlooked'
    <3>1. vstat[o] = "open"
      BY <2>1, <2>4 DEF RowStep
    <3>2. status[o] = "error" \/ o \in overlooked
      BY <1>2, <2>4, <3>1 DEF HaltedOrdersOver
    <3> QED
      BY <2>1, <2>4, <3>2 DEF RowStep
  <2>5. ASSUME Submitted = {}, overlooked' = Unknown, UNCHANGED <<status, vstat>>,
               NEW o \in Orders, vstat'[o] = "open"
        PROVE  status'[o] = "error" \/ o \in overlooked'
    <3>1. status[o] \notin {"submitted", "filled", "canceled", "rejected"}
      BY <1>2, <2>5 DEF VenueDecides, Submitted
    <3>2. status[o] \in {"error", "submit_unknown"}
      BY <1>2, <3>1 DEF Known
    <3> QED
      BY <2>5, <3>2 DEF Unknown
  <2>6. HaltedOrdersOver'
    BY <1>2, <2>4, <2>5, GuardStep DEF HaltedOrdersOver
  <2> QED
    BY <2>2, <2>3, <2>6
<1>3. Inv => HaltedOrdersOver
  OBVIOUS
<1>4. Spec => []TypeInv
  BY TypeCorrect, PTL DEF TypeInv
<1> QED
  BY <1>1, <1>2, <1>3, <1>4, PTL DEF Spec

-----------------------------------------------------------------------------
(* filled waits for the fills *)

InLoop == pc \in {"trade", "emit", "risk"}

(* The trade in hand and those left of the batch. *)
Left == batch \cup (IF pc \in {"emit", "risk"} THEN {trade} ELSE {})

(* A row starts with nothing fetched; the trades of a batch are trades of  *)
(* the row in hand, and what was counted as accounted is in the journal.   *)
DeliveredInv ==
  /\ pc \in {"idle", "next", "order", "ledger_trades", "trades"} =>
       batch = {} /\ ~ blocked /\ maxTs = 0 /\ nAccounted = 0
  /\ InLoop => batch \subseteq TradesOf(cur)
  /\ pc \in {"emit", "risk"} => trade \in TradesOf(cur)
  /\ InLoop \/ pc = "decide" => nAccounted = 0 \/ journaled \cap TradesOf(cur) # {}

(* What a step leaves of the trades: more may be executed, listed, in the  *)
(* journal and in the accounts, none is lost.                              *)
LEMMA Monotone ==
  ASSUME TypeInv, [Next]_vars
  PROVE  /\ executed \subseteq executed' /\ listed \subseteq listed' /\ late \subseteq late'
         /\ journaled \subseteq journaled'
         /\ accounted \subseteq accounted' /\ swallowed \subseteq swallowed'
<1>1. CASE Work
  BY <1>1 DEF Work, StartPass, NextRow, OrderClosed, OrderDead, OrderOpen, OrderOther, Except,
     GiveUp, Ledger, FetchTrades, InsertFill, EmitJournal, EmitOk, SaveCursor, Decide, EndPass,
     Sink!Journal, Sink!Answer
<1>2. CASE Fault
  BY <1>2 DEF Fault, Raises, OrderGone, GiveUp, Swallow, EmitFails, LookbackFails, Crash,
     Sink!Swallow
<1>3. CASE Environment
  BY <1>3 DEF Environment, Execute, List, OthersDeliver, Age, Confirm, End, Halt,
     Sink!Journal, Sink!Answer
<1> QED
  BY <1>1, <1>2, <1>3 DEF Next, vars

(* A batch is delivered for the row it was fetched for. *)
LEMMA DeliveredStep ==
  ASSUME TypeInv, DeliveredInv, [Next]_vars
  PROVE  DeliveredInv'
<1> USE DEF InLoop
<1>1. journaled \subseteq journaled'
  BY Monotone
<1>2. CASE pc' \in {"ledger_next", "ledger_except", "except"}
  BY <1>2 DEF DeliveredInv
<1>3. CASE UNCHANGED <<pc, cur, batchVars>>
  BY <1>1, <1>3 DEF DeliveredInv
<1>4. CASE DropBatch /\ pc' = "next"
  BY <1>4 DEF DeliveredInv
<1>5. CASE /\ pc \in {"idle", "next", "order", "ledger_trades"}
           /\ pc' \in {"idle", "next", "order", "ledger_trades", "trades"}
           /\ UNCHANGED batchVars
  BY <1>5 DEF DeliveredInv
<1>6. CASE Work
  <2>1. CASE \/ StartPass \/ (\E o \in Orders : NextRow(o)) \/ OrderClosed \/ OrderDead
             \/ OrderOpen \/ OrderOther \/ EndPass
    BY <2>1, <1>4, <1>5 DEF StartPass, NextRow, OrderClosed, OrderDead, OrderOpen, OrderOther,
       EndPass
  <2>2. CASE Except \/ Ledger \/ Decide
    BY <2>2, <1>2, <1>4, <1>5 DEF Except, GiveUp, Ledger, Decide, Defer
  <2>3. CASE FetchTrades
    BY <2>3 DEF FetchTrades, DeliveredInv
  <2>4. ASSUME NEW t \in Trades, InsertFill(t) PROVE DeliveredInv'
    BY <2>4 DEF InsertFill, DeliveredInv
  <2>5. CASE EmitJournal
    BY <1>1, <2>5 DEF EmitJournal, DeliveredInv
  <2>6. CASE EmitOk
    BY <2>6 DEF EmitOk, Sink!Answer, DeliveredInv, TypeInv, InHand
  <2>7. CASE SaveCursor
    <3>1. CASE ~ pending
      BY <1>4, <2>7, <3>1 DEF SaveCursor
    <3>2. CASE pending
      BY <2>7, <3>2 DEF SaveCursor, DeliveredInv
    <3> QED
      BY <3>1, <3>2
  <2> QED
    BY <1>6, <2>1, <2>2, <2>3, <2>4, <2>5, <2>6, <2>7 DEF Work
<1>7. CASE Fault
  <2>1. CASE EmitFails
    BY <2>1 DEF EmitFails, DeliveredInv
  <2>2. ASSUME NEW t \in Trades, Swallow(t) PROVE DeliveredInv'
    BY <2>2, <1>3 DEF Swallow
  <2>3. CASE Crash
    BY <2>3 DEF Crash, DeliveredInv
  <2>4. CASE \/ \E at \in SUBSET Steps : Raises(at)
             \/ OrderGone \/ LookbackFails
    BY <2>4, <1>2, <1>4 DEF Raises, OrderGone, GiveUp, LookbackFails, Defer
  <2> QED
    BY <1>7, <2>1, <2>2, <2>3, <2>4 DEF Fault
<1>8. CASE Environment
  BY <1>8, <1>3 DEF Environment, Execute, List, OthersDeliver, Age, Confirm, End, Halt
<1>9. CASE UNCHANGED vars
  BY <1>9, <1>3 DEF vars
<1> QED
  BY <1>6, <1>7, <1>8, <1>9 DEF Next

(* Only Decide fills a row, and only with a journal row to vouch for it.   *)
LEMMA FilledByDecide ==
  ASSUME TypeInv, DeliveredInv, [Next]_vars,
         NEW o \in Orders, status'[o] = "filled", status[o] # "filled"
  PROVE  /\ journaled \cap TradesOf(o) # {}
         /\ pc = "decide" /\ o = cur
         /\ UNCHANGED <<vstat, executed, accounted, swallowed, missed, todo>>
         /\ pc' = "ledger_next"
<1> USE DEF WriteRow, TypeInv, TypeOK
<1>1. CASE Decide
  BY <1>1 DEF Decide, Defer, DeliveredInv
<1>2. CASE OrderDead \/ OrderOpen
  BY <1>2 DEF OrderDead, OrderOpen
<1>3. CASE OrderGone \/ Except
  BY <1>3 DEF OrderGone, Except, GiveUp
<1>4. CASE LookbackFails
  BY <1>4 DEF LookbackFails, Defer
<1>5. ASSUME NEW p \in Orders, Confirm(p) PROVE FALSE
  BY <1>5 DEF Confirm
<1>6. CASE Work
  BY <1>1, <1>2, <1>3, <1>6 DEF Work, StartPass, NextRow, OrderClosed, OrderOther, Ledger,
     FetchTrades, InsertFill, EmitJournal, EmitOk, SaveCursor, EndPass
<1>7. CASE Fault
  BY <1>3, <1>4, <1>7 DEF Fault, Raises, Swallow, EmitFails, Crash
<1>8. CASE Environment
  BY <1>5, <1>8 DEF Environment, Execute, List, OthersDeliver, Age, End, Halt
<1> QED
  BY <1>6, <1>7, <1>8 DEF Next, vars

(* "filled_deferred:zero_accounted_fills": a filled row has a fill in the  *)
(* journal, whichever call fails, wherever the process dies and whoever    *)
(* else delivers.                                                          *)
THEOREM FilledHasJournal == Spec => []FilledJournaled
<1>1. Init => DeliveredInv /\ FilledJournaled
  BY DEF Init, DeliveredInv, InLoop, FilledJournaled
<1>2. TypeInv /\ DeliveredInv /\ FilledJournaled /\ [Next]_vars => FilledJournaled'
  BY Monotone, FilledByDecide DEF FilledJournaled
<1>3. TypeInv /\ DeliveredInv /\ [Next]_vars => DeliveredInv'
  BY DeliveredStep
<1>4. Spec => []TypeInv
  BY TypeCorrect, PTL DEF TypeInv
<1> QED
  BY <1>1, <1>2, <1>3, <1>4, PTL DEF Spec

(* The rows of a pass are submitted until their turn, the row in hand is   *)
(* until it is decided, and a decision is pending from the venue's answer. *)
TurnInv ==
  /\ \A o \in todo : status[o] = "submitted"
  /\ pc = "order" => status[cur] = "submitted" /\ ~ pending
  /\ pc = "ledger_trades" => ~ pending
  /\ pc \in {"trades", "trade", "emit", "risk", "decide"} /\ pending =>
       status[cur] = "submitted"

(* Only the row in hand is written, apart from the submit_unknown lane.    *)
LEMMA OthersKeep ==
  ASSUME TypeInv, [Next]_vars, NEW o \in Orders, status[o] = "submitted",
         o # cur \/ pc \in {"idle", "next"} \cup {"ledger_trades", "trades", "trade", "emit", "risk"}
  PROVE  status'[o] = "submitted"
<1> USE DEF WriteRow, TypeInv, TypeOK
<1>1. CASE Decide
  BY <1>1 DEF Decide, Defer
<1>2. CASE OrderDead \/ OrderOpen
  BY <1>2 DEF OrderDead, OrderOpen
<1>3. CASE OrderGone \/ Except
  BY <1>3 DEF OrderGone, Except, GiveUp
<1>4. CASE LookbackFails
  BY <1>4 DEF LookbackFails, Defer
<1>5. ASSUME NEW p \in Orders, Confirm(p) PROVE status'[o] = "submitted"
  BY <1>5 DEF Confirm
<1>6. CASE Work
  BY <1>1, <1>2, <1>3, <1>6 DEF Work, StartPass, NextRow, OrderClosed, OrderOther, Ledger,
     FetchTrades, InsertFill, EmitJournal, EmitOk, SaveCursor, EndPass
<1>7. CASE Fault
  BY <1>3, <1>4, <1>7 DEF Fault, Raises, Swallow, EmitFails, Crash
<1>8. CASE Environment
  BY <1>5, <1>8 DEF Environment, Execute, List, OthersDeliver, Age, End, Halt
<1> QED
  BY <1>6, <1>7, <1>8 DEF Next, vars

(* The row in hand is no row of todo, so its turn does not disturb them.   *)
LEMMA TurnStep ==
  ASSUME TypeInv, TurnInv, [Next]_vars
  PROVE  TurnInv'
<1>0. /\ todo \subseteq Orders /\ cur \in Orders \cup {0}
      /\ pc \notin {"idle", "next"} => cur \in Orders /\ cur \notin todo
  BY DEF TypeInv, TypeOK, InHand
<1>1. \A o \in todo : status'[o] = "submitted"
  BY <1>0, OthersKeep DEF TurnInv
<1>2. ASSUME pc \in {"ledger_trades", "trades", "trade", "emit", "risk"},
             status[cur] = "submitted"
      PROVE  status'[cur] = "submitted"
  BY <1>0, <1>2, OthersKeep
<1>3. CASE todo' \subseteq todo /\ pc' \in {"idle", "next", "ledger_next", "ledger_except", "except"}
  BY <1>1, <1>3 DEF TurnInv
<1>4. CASE /\ todo' = todo /\ pc' = pc /\ UNCHANGED <<cur, pending>>
           /\ pc \in {"order", "decide"} => UNCHANGED status
  BY <1>1, <1>2, <1>4 DEF TurnInv
<1>5. CASE /\ todo' = todo /\ UNCHANGED <<cur, pending>>
           /\ pc \in {"ledger_trades", "trades", "trade", "emit", "risk"}
           /\ pc' \in {"trades", "trade", "emit", "risk", "decide"}
  BY <1>1, <1>2, <1>5 DEF TurnInv
<1>6. CASE /\ todo' = todo /\ UNCHANGED <<cur, pending>>
           /\ pc = "order" /\ pc' \in {"trades", "ledger_trades"}
  BY <1>1, <1>6 DEF TurnInv
<1>7. CASE Work
  <2>1. CASE StartPass
    BY <2>1 DEF StartPass, Submitted, TurnInv
  <2>2. ASSUME NEW o \in Orders, NextRow(o) PROVE TurnInv'
    BY <1>1, <2>2 DEF NextRow, TurnInv
  <2>3. CASE OrderClosed
    BY <1>1, <2>3 DEF OrderClosed, TurnInv
  <2>4. CASE OrderDead \/ OrderOpen \/ OrderOther
    BY <2>4, <1>3, <1>6 DEF OrderDead, OrderOpen, OrderOther
  <2>5. CASE Except \/ Decide \/ EndPass
    BY <2>5, <1>3 DEF Except, GiveUp, Decide, Defer, EndPass
  <2>6. CASE Ledger
    BY <2>6, <1>3, <1>5 DEF Ledger
  <2>7. CASE FetchTrades \/ (\E t \in Trades : InsertFill(t)) \/ EmitJournal \/ EmitOk
    BY <2>7, <1>5 DEF FetchTrades, InsertFill, EmitJournal, EmitOk
  <2>8. CASE SaveCursor
    BY <2>8, <1>3, <1>5 DEF SaveCursor
  <2> QED
    BY <1>7, <2>1, <2>2, <2>3, <2>4, <2>5, <2>6, <2>7, <2>8 DEF Work
<1>8. CASE Fault
  <2>1. CASE \/ \E at \in SUBSET Steps : Raises(at)
             \/ OrderGone \/ LookbackFails
    BY <2>1, <1>3 DEF Raises, OrderGone, GiveUp, LookbackFails, Defer
  <2>2. CASE Crash
    BY <2>2 DEF Crash, TurnInv
  <2>3. CASE EmitFails \/ (\E t \in Trades : Swallow(t))
    BY <2>3, <1>4, <1>5 DEF EmitFails, Swallow
  <2> QED
    BY <1>8, <2>1, <2>2, <2>3 DEF Fault
<1>9. CASE Environment
  BY <1>9, <1>4 DEF Environment, Execute, List, OthersDeliver, Age, Confirm, End, Halt
<1>10. CASE UNCHANGED vars
  BY <1>10, <1>4 DEF vars
<1> QED
  BY <1>7, <1>8, <1>9, <1>10 DEF Next

(* What the properties say of a trade that is in the accounts, or named.   *)
Settled == accounted \cup swallowed \cup missed

(* A closed order has traded in full. While a pass delivers the trades of  *)
(* a closed order, those not settled are still left; at the decision none  *)
(* is.                                                                     *)
DoneInv ==
  /\ \A o \in Orders : vstat[o] = "closed" => TradesOf(o) \subseteq executed
  /\ InLoop /\ pending => TradesOf(cur) \subseteq Settled \cup Left
  /\ pc = "decide" => TradesOf(cur) \subseteq Settled
  /\ FilledAccounted

(* Steps that take no trade back and have no decision before them, or      *)
(* leave the loop alone.                                                   *)
LEMMA DoneFrame ==
  ASSUME TypeInv, DoneInv, Settled \subseteq Settled', executed \subseteq executed',
         \A o \in Orders : vstat'[o] = "closed" => vstat[o] = "closed",
         \A o \in Orders : status'[o] = "filled" => status[o] = "filled",
         \/ pc' \notin {"trade", "emit", "risk", "decide"}
         \/ UNCHANGED <<pc, cur, pending, batch, trade>>
  PROVE  DoneInv'
<1>1. \A o \in Orders : vstat'[o] = "closed" => TradesOf(o) \subseteq executed'
  BY DEF DoneInv
<1>2. FilledAccounted'
  BY DEF DoneInv, FilledAccounted, Settled
<1>3. CASE pc' \notin {"trade", "emit", "risk", "decide"}
  BY <1>1, <1>2, <1>3 DEF DoneInv, InLoop
<1>4. CASE UNCHANGED <<pc, cur, pending, batch, trade>>
  <2>1. InLoop' = InLoop /\ Left' = Left
    BY <1>4 DEF InLoop, Left
  <2> QED
    BY <1>1, <1>2, <1>4, <2>1 DEF DoneInv
<1> QED
  BY <1>3, <1>4

(* Every step of the system is of that kind, fetches, delivers or decides. *)
LEMMA DoneStep ==
  ASSUME TypeInv, ReconcileAssumption, PendingInv, DeliveredInv, TurnInv, DoneInv, [Next]_vars
  PROVE  DoneInv'
<1>0. /\ executed \subseteq executed' /\ accounted \subseteq accounted'
      /\ swallowed \subseteq swallowed'
  BY Monotone
<1>1. missed \subseteq missed' => Settled \subseteq Settled'
  BY <1>0 DEF Settled
<1>2. ASSUME UNCHANGED <<vstat, missed>>, pc # "decide",
             \/ pc' \notin {"trade", "emit", "risk", "decide"}
             \/ UNCHANGED <<pc, cur, pending, batch, trade>>
      PROVE  DoneInv'
  <2>1. \A o \in Orders : status'[o] = "filled" => status[o] = "filled"
    BY <1>2, FilledByDecide
  <2> QED
    BY <1>0, <1>1, <1>2, <2>1, DoneFrame
<1>3. CASE FetchTrades
  <2>1. CASE ~ pending
    <3>1. InLoop' /\ ~ pending' /\ pc' # "decide"
      BY <1>3, <2>1 DEF FetchTrades, InLoop
    <3>2. UNCHANGED <<vstat, executed, status, accounted, swallowed, missed>>
      BY <1>3, <2>1 DEF FetchTrades
    <3> QED
      BY <3>1, <3>2 DEF DoneInv, FilledAccounted
  <2>2. CASE pending
    <3>1. cur \in Orders /\ TradesOf(cur) \subseteq executed /\ status[cur] = "submitted"
      BY <1>3, <2>2 DEF FetchTrades, PendingInv, DoneInv, TurnInv
    <3>2. /\ UNCHANGED <<vstat, executed, status, accounted, swallowed, cur, pending>>
          /\ batch' \subseteq TradesOf(cur)
          /\ missed' = (missed \cup (executed \cap TradesOf(cur))) \ batch'
          /\ pc' = "trade"
      BY <1>3, <2>2 DEF FetchTrades
    <3>3. Left' = batch'
      BY <3>2 DEF Left
    <3>4. \A o \in Orders : o # cur => TradesOf(o) \cap TradesOf(cur) = {}
      BY DEF TradesOf
    <3>5. FilledAccounted'
      BY <3>1, <3>2, <3>4 DEF DoneInv, FilledAccounted
    <3> QED
      BY <3>1, <3>2, <3>3, <3>5 DEF DoneInv, Settled
  <2> QED
    BY <2>1, <2>2
<1>4. ASSUME NEW t \in Trades, InsertFill(t) PROVE DoneInv'
  <2>1. Left' = Left /\ InLoop' = InLoop /\ pc' # "decide"
    BY <1>4 DEF InsertFill, Left, InLoop
  <2>2. UNCHANGED <<vstat, executed, status, accounted, swallowed, missed, cur, pending>>
    BY <1>4 DEF InsertFill
  <2> QED
    BY <2>1, <2>2 DEF DoneInv, Settled, FilledAccounted
<1>5. CASE EmitJournal
  <2>1. Left' = Left /\ InLoop' = InLoop /\ pc' # "decide"
    BY <1>5 DEF EmitJournal, Left, InLoop
  <2>2. UNCHANGED <<vstat, executed, status, accounted, swallowed, missed, cur, pending>>
    BY <1>5 DEF EmitJournal, Sink!Journal
  <2> QED
    BY <2>1, <2>2 DEF DoneInv, Settled, FilledAccounted
<1>6. CASE EmitOk \/ EmitFails
  <2>1. Left = batch \cup {trade} /\ Left' = batch /\ InLoop /\ pc' = "trade"
    BY <1>6 DEF EmitOk, EmitFails, Left, InLoop
  <2>2. UNCHANGED <<vstat, executed, status, cur, pending>> /\ missed \subseteq missed'
    BY <1>6 DEF EmitOk, EmitFails
  <2>3. pending => trade \in Settled'
    BY <1>6 DEF EmitOk, EmitFails, Sink!Answer, Settled
  <2>4. Settled \subseteq Settled'
    BY <1>1, <2>2
  <2> QED
    BY <2>1, <2>2, <2>3, <2>4 DEF DoneInv, FilledAccounted, Settled
<1>7. CASE SaveCursor
  <2>1. CASE ~ pending
    BY <1>2, <1>7, <2>1 DEF SaveCursor
  <2>2. CASE pending
    <3>1. Left = {} /\ InLoop
      BY <1>7 DEF SaveCursor, Left, InLoop
    <3>2. /\ pc' = "decide"
          /\ UNCHANGED <<vstat, executed, status, accounted, swallowed, missed, cur, pending>>
      BY <1>7, <2>2 DEF SaveCursor
    <3>3. ~ InLoop'
      BY <3>2 DEF InLoop
    <3> QED
      BY <2>2, <3>1, <3>2, <3>3 DEF DoneInv, Settled, FilledAccounted
  <2> QED
    BY <2>1, <2>2
<1>8. CASE Decide \/ LookbackFails
  <2>1. /\ UNCHANGED <<vstat, executed, accounted, swallowed, missed>> /\ pc = "decide"
        /\ pc' \in {"next", "ledger_next"}
    BY <1>8 DEF Decide, LookbackFails, Defer
  <2>2. TradesOf(cur) \subseteq Settled
    BY <2>1 DEF DoneInv
  <2>3. FilledAccounted'
    BY <2>1, <2>2, FilledByDecide DEF DoneInv, FilledAccounted, Settled
  <2> QED
    BY <2>1, <2>3 DEF DoneInv, InLoop
<1>9. ASSUME NEW o \in Orders, NEW s \in Ends, End(o, s) PROVE DoneInv'
  <2>1. UNCHANGED <<pc, cur, pending, batch, trade, executed, status, accounted, swallowed, missed>>
    BY <1>9 DEF End
  <2>2. InLoop' = InLoop /\ Left' = Left
    BY <2>1 DEF InLoop, Left
  <2>3. \A p \in Orders : vstat'[p] = "closed" => TradesOf(p) \subseteq executed'
    BY <1>9 DEF End, DoneInv, TypeInv, TypeOK
  <2> QED
    BY <2>1, <2>2, <2>3 DEF DoneInv, Settled, FilledAccounted
<1>10. CASE Work
  <2>1. CASE \/ StartPass \/ (\E o \in Orders : NextRow(o)) \/ OrderClosed \/ OrderDead
             \/ OrderOpen \/ OrderOther \/ Except \/ Ledger \/ EndPass
    BY <2>1, <1>2 DEF StartPass, NextRow, OrderClosed, OrderDead, OrderOpen, OrderOther, Except,
       GiveUp, Ledger, EndPass
  <2> QED
    BY <1>10, <2>1, <1>3, <1>4, <1>5, <1>6, <1>7, <1>8 DEF Work
<1>11. CASE Fault
  <2>1. ASSUME NEW at, Raises(at) PROVE DoneInv'
    <3>1. UNCHANGED <<vstat, status, missed>> /\ pc' = "except"
      BY <2>1 DEF Raises
    <3> QED
      BY <1>0, <1>1, <3>1, DoneFrame
  <2>2. CASE OrderGone
    BY <2>2, <1>2 DEF OrderGone, GiveUp
  <2>3. CASE Crash
    <3>1. UNCHANGED <<vstat, status, missed>> /\ pc' = "idle"
      BY <2>3 DEF Crash
    <3> QED
      BY <1>0, <1>1, <3>1, DoneFrame
  <2>4. ASSUME NEW t \in Trades, Swallow(t) PROVE DoneInv'
    <3>1. UNCHANGED <<vstat, status, missed, pc, cur, pending, batch, trade>>
      BY <2>4 DEF Swallow
    <3> QED
      BY <1>0, <1>1, <3>1, DoneFrame
  <2> QED
    BY <1>11, <2>1, <2>2, <2>3, <2>4, <1>6, <1>8 DEF Fault
<1>12. CASE Environment
  <2>1. ASSUME NEW t \in Trades, Execute(t) \/ List(t) \/ OthersDeliver(t) PROVE DoneInv'
    <3>1. UNCHANGED <<vstat, status, missed, pc, cur, pending, batch, trade>>
      BY <2>1 DEF Execute, List, OthersDeliver
    <3> QED
      BY <1>0, <1>1, <3>1, DoneFrame
  <2>2. ASSUME NEW o \in Orders, Age(o) PROVE DoneInv'
    <3>1. UNCHANGED <<vstat, status, missed, pc, cur, pending, batch, trade>>
      BY <2>2 DEF Age
    <3> QED
      BY <1>0, <1>1, <3>1, DoneFrame
  <2>3. ASSUME NEW o \in Orders, Confirm(o) PROVE DoneInv'
    BY <2>3, <1>2 DEF Confirm
  <2>4. CASE Halt
    <3>1. UNCHANGED <<vstat, status, missed, pc, cur, pending, batch, trade>>
      BY <2>4 DEF Halt
    <3> QED
      BY <1>0, <1>1, <3>1, DoneFrame
  <2> QED
    BY <1>12, <2>1, <2>2, <2>3, <2>4, <1>9 DEF Environment
<1>13. CASE UNCHANGED vars
  <2>1. UNCHANGED <<vstat, status, missed, pc, cur, pending, batch, trade>>
    BY <1>13 DEF vars
  <2> QED
    BY <1>0, <1>1, <2>1, DoneFrame
<1> QED
  BY <1>10, <1>11, <1>12, <1>13 DEF Next

(* A filled order is in the accounts with all its trades, except those     *)
(* that the deciding pass failed to deliver or was not shown, and those    *)
(* whose daily total failed unnoticed: for any number of orders and        *)
(* trades, although one of them, or the journal row of a delivery that     *)
(* failed, vouches for all.                                                *)
THEOREM FilledIsAccounted == Spec => []FilledAccounted
<1> DEFINE Inv == PendingInv /\ DeliveredInv /\ TurnInv /\ DoneInv
<1>1. Init => Inv
  BY ReconcileAssumption
  DEF Init, PendingInv, DeliveredInv, TurnInv, DoneInv, InLoop, FilledAccounted
<1>2. TypeInv /\ Inv /\ [Next]_vars => Inv'
  BY PendingStep, DeliveredStep, TurnStep, DoneStep, ReconcileAssumption
<1>3. Inv => FilledAccounted
  BY DEF DoneInv
<1>4. Spec => []TypeInv
  BY TypeCorrect, PTL DEF TypeInv
<1> QED
  BY <1>1, <1>2, <1>3, <1>4, PTL DEF Spec

-----------------------------------------------------------------------------
(* The cursor *)

(* The trades of an order that are listed, not accounted and not named.    *)
Open(o) ==
  {t \in (listed \cap TradesOf(o)) \ (accounted \cup swallowed \cup late) : ~ Overtaken(t)}

(* The cursor is past accounted trades only, as far as the order goes that *)
(* moved it last.                                                          *)
Behind ==
  cursor = 0 \/ \E u \in listed : /\ cursor = Ts[u] + 1
                                 /\ \A t \in Open(OrderOf[u]) : Ts[t] >= Ts[u]

(* So is max_ts_accounted, for the order in hand; unless the cursor is     *)
(* blocked, what is open and not left to deliver was listed after the      *)
(* batch was fetched.                                                      *)
LoopInv ==
  InLoop =>
    /\ maxTs = 0 \/ \E u \in listed \cap TradesOf(cur) : maxTs = Ts[u]
    /\ \A t \in Open(cur) : Ts[t] >= maxTs
    /\ pc \in {"emit", "risk"} => \A u \in batch : Ts[trade] <= Ts[u]
    /\ ~ blocked => \A t \in Open(cur) : t \in Left \/ \A u \in Left : Ts[u] <= Ts[t]

PrefixInv == Behind /\ LoopInv

(* What is open stays in the window. *)
LEMMA OpenInWindow ==
  ASSUME TypeInv, ReconcileAssumption, Behind, NEW o \in Orders, NEW t \in Open(o)
  PROVE  Ts[t] >= cursor - Overlap
<1>1. /\ t \in Trades /\ OrderOf[t] = o /\ ~ Overtaken(t)
      /\ Ts[t] \in Nat \ {0} /\ Overlap \in Nat \ {0} /\ cursor \in Nat
  BY DEF Open, TradesOf, TypeInv, TypeOK, ReconcileAssumption
<1>2. CASE cursor = 0
  BY <1>1, <1>2
<1>3. CASE cursor # 0
  <2>1. PICK u \in listed : cursor = Ts[u] + 1 /\ \A v \in Open(OrderOf[u]) : Ts[v] >= Ts[u]
    BY <1>3 DEF Behind
  <2>2. u \in Trades /\ Ts[u] \in Nat
    BY DEF TypeInv, TypeOK, ReconcileAssumption
  <2>3. CASE OrderOf[u] = o
    BY <1>1, <2>1, <2>2, <2>3
  <2>4. CASE OrderOf[u] # o
    <3>1. Ts[u] - Ts[t] < Overlap
      BY <1>1, <2>2, <2>4 DEF Overtaken
    <3> QED
      BY <1>1, <2>1, <2>2, <3>1
  <2> QED
    BY <2>3, <2>4
<1> QED
  BY <1>2, <1>3

(* Nothing is opened but by the venue. *)
LEMMA OpenShrinks ==
  ASSUME TypeInv, [Next]_vars, UNCHANGED listed, NEW o
  PROVE  Open(o)' \subseteq Open(o)
<1>1. accounted \subseteq accounted' /\ swallowed \subseteq swallowed' /\ late \subseteq late'
  BY Monotone
<1> QED
  BY <1>1 DEF Open, Overtaken

(* Steps that leave the cursor, the listed trades and the loop alone. *)
LEMMA PrefixFrame ==
  ASSUME TypeInv, PrefixInv, [Next]_vars, UNCHANGED <<listed, cursor>>,
         ~ InLoop' \/ UNCHANGED <<pc, cur, batchVars>>
  PROVE  PrefixInv'
<1>1. \A o : Open(o)' \subseteq Open(o)
  BY OpenShrinks
<1>2. Behind'
  BY <1>1 DEF PrefixInv, Behind
<1>3. ASSUME UNCHANGED <<pc, cur, batchVars>> PROVE LoopInv'
  <2>1. Left' = Left /\ Open(cur)' \subseteq Open(cur)
    BY <1>1, <1>3 DEF Left, Open
  <2> QED
    BY <1>3, <2>1 DEF PrefixInv, LoopInv, InLoop
<1>4. LoopInv'
  BY <1>3 DEF LoopInv
<1> QED
  BY <1>2, <1>4 DEF PrefixInv

(* Steps of a pass. *)
LEMMA PrefixWork ==
  ASSUME TypeInv, ReconcileAssumption, DeliveredInv, PrefixInv, Work
  PROVE  PrefixInv'
<1>0. [Next]_vars /\ \A t \in Trades : Ts[t] \in Nat \ {0}
  BY DEF ReconcileAssumption, Next
<1>1. CASE FetchTrades
  <2>1. cur \in Orders
    BY <1>1 DEF FetchTrades, TypeInv, InHand
  <2>2. \A t \in Open(cur) : t \in batch'
    <3> SUFFICES ASSUME NEW t \in Open(cur) PROVE t \in batch'
      OBVIOUS
    <3>1. t \in listed \cap TradesOf(cur)
      BY DEF Open
    <3>2. InWindow(t)
      BY <2>1, OpenInWindow DEF InWindow, PrefixInv
    <3> QED
      BY <1>1, <3>1, <3>2 DEF FetchTrades
  <2>3. \A t \in Open(cur) : Ts[t] >= 0
    BY <1>0 DEF Open, TradesOf
  <2>4. /\ maxTs' = 0 /\ pc' = "trade" /\ Left' = batch'
        /\ \A o : Open(o)' = Open(o)
        /\ UNCHANGED <<listed, cursor, cur>>
    BY <1>1 DEF FetchTrades, DeliveredInv, Left, Open, Overtaken
  <2>5. Open(cur)' = Open(cur)
    BY <2>4 DEF Open
  <2>6. LoopInv'
    BY <2>2, <2>3, <2>4, <2>5 DEF LoopInv
  <2>7. Behind'
    BY <2>4 DEF PrefixInv, Behind
  <2> QED
    BY <2>6, <2>7 DEF PrefixInv
<1>2. ASSUME (\E t \in Trades : InsertFill(t)) \/ EmitJournal PROVE PrefixInv'
  <2>1. /\ Left' = Left /\ InLoop /\ pc' \in {"emit", "risk"}
        /\ UNCHANGED <<listed, accounted, swallowed, late, cursor, cur, maxTs, blocked>>
    BY <1>2 DEF InsertFill, EmitJournal, Sink!Journal, Left, InLoop
  <2>2. \A o : Open(o)' = Open(o)
    BY <2>1 DEF Open, Overtaken
  <2>3. Open(cur)' = Open(cur)
    BY <2>1, <2>2 DEF Open
  <2>4. \A u \in batch' : Ts[trade'] <= Ts[u]
    BY <1>2 DEF InsertFill, EmitJournal, PrefixInv, LoopInv, InLoop
  <2>5. LoopInv'
    BY <2>1, <2>3, <2>4 DEF PrefixInv, LoopInv
  <2> QED
    BY <2>1, <2>2, <2>5 DEF PrefixInv, Behind
<1>4. CASE EmitOk
  <2>1. /\ Left = batch \cup {trade} /\ Left' = batch
        /\ trade \in listed \cap TradesOf(cur) /\ trade \in accounted' \cup swallowed'
        /\ UNCHANGED <<listed, cursor, cur, batch, blocked>>
    BY <1>4 DEF EmitOk, Sink!Answer, Left, TypeInv, InHand, DeliveredInv
  <2>2. \A o : Open(o)' \subseteq Open(o)
    BY <1>0, <2>1, OpenShrinks
  <2>3. Open(cur)' \subseteq Open(cur) \ {trade} /\ Open(cur) \subseteq Trades /\ trade \in Trades
    BY <2>1, <2>2 DEF Open, TradesOf
  <2>4. /\ maxTs = 0 \/ \E u \in listed \cap TradesOf(cur) : maxTs = Ts[u]
        /\ \A t \in Open(cur) : Ts[t] >= maxTs
        /\ \A u \in batch : Ts[trade] <= Ts[u]
        /\ ~ blocked => \A t \in Open(cur) : t \in Left \/ \A u \in Left : Ts[u] <= Ts[t]
    BY <1>4 DEF EmitOk, PrefixInv, LoopInv, InLoop
  <2>5. ~ blocked => \A t \in Open(cur)' : Ts[t] >= Ts[trade]
    BY <2>1, <2>3, <2>4
  <2>6. maxTs' = (IF blocked THEN maxTs ELSE IF maxTs < Ts[trade] THEN Ts[trade] ELSE maxTs)
    BY <1>4 DEF EmitOk, Later
  <2>7. \A t \in Open(cur)' : Ts[t] >= maxTs'
    BY <2>3, <2>4, <2>5, <2>6
  <2>8. maxTs' = 0 \/ \E u \in listed \cap TradesOf(cur) : maxTs' = Ts[u]
    BY <2>1, <2>4, <2>6
  <2>9. ~ blocked => \A t \in Open(cur)' : t \in Left' \/ \A u \in Left' : Ts[u] <= Ts[t]
    BY <2>1, <2>3, <2>4
  <2>10. pc' = "trade"
    BY <1>4 DEF EmitOk
  <2>11. LoopInv'
    BY <2>1, <2>7, <2>8, <2>9, <2>10 DEF LoopInv, TradesOf
  <2>12. Behind'
    BY <2>1, <2>2 DEF PrefixInv, Behind
  <2> QED
    BY <2>11, <2>12 DEF PrefixInv
<1>5. CASE SaveCursor
  <2>1. UNCHANGED listed /\ \A o : Open(o)' \subseteq Open(o)
    BY <1>0, <1>5, OpenShrinks DEF SaveCursor
  <2>2. ASSUME maxTs = 0 PROVE Behind'
    BY <1>5, <2>1, <2>2 DEF SaveCursor, PrefixInv, Behind
  <2>3. ASSUME maxTs # 0 PROVE Behind'
    <3>1. PICK u \in listed \cap TradesOf(cur) : maxTs = Ts[u]
      BY <1>5, <2>3 DEF SaveCursor, PrefixInv, LoopInv, InLoop
    <3>2. OrderOf[u] = cur /\ \A t \in Open(cur) : Ts[t] >= Ts[u]
      BY <1>5, <3>1 DEF SaveCursor, PrefixInv, LoopInv, InLoop, TradesOf
    <3>3. cursor' = Ts[u] + 1 /\ \A t \in Open(OrderOf[u])' : Ts[t] >= Ts[u]
      BY <1>5, <2>1, <2>3, <3>1, <3>2 DEF SaveCursor
    <3> QED
      BY <2>1, <3>1, <3>3 DEF Behind
  <2>4. ~ InLoop'
    BY <1>5 DEF SaveCursor, InLoop
  <2> QED
    BY <2>2, <2>3, <2>4 DEF PrefixInv, LoopInv
<1>6. CASE \/ StartPass \/ (\E o \in Orders : NextRow(o)) \/ OrderClosed \/ OrderDead \/ OrderOpen
           \/ OrderOther \/ Except \/ Ledger \/ Decide \/ EndPass
  BY <1>0, <1>6, PrefixFrame DEF StartPass, NextRow, OrderClosed, OrderDead, OrderOpen, OrderOther,
     Except, GiveUp, Ledger, Decide, Defer, EndPass, InLoop
<1> QED
  BY <1>1, <1>2, <1>4, <1>5, <1>6 DEF Work

(* Failures, and steps of the venue: what it lists now is not before what  *)
(* it listed already, or late.                                             *)
LEMMA PrefixRest ==
  ASSUME TypeInv, ReconcileAssumption, PrefixInv, Fault \/ Environment \/ UNCHANGED vars
  PROVE  PrefixInv'
<1>0. [Next]_vars /\ \A t \in Trades : Ts[t] \in Nat \ {0}
  BY DEF ReconcileAssumption, Next
<1>1. CASE EmitFails
  <2>1. UNCHANGED <<listed, cursor, cur, batch, maxTs>> /\ blocked' /\ pc' = "trade" /\ InLoop
    BY <1>1 DEF EmitFails, InLoop
  <2>2. Open(cur)' \subseteq Open(cur) /\ \A o : Open(o)' \subseteq Open(o)
    BY <1>0, <2>1, OpenShrinks DEF Open
  <2> QED
    BY <2>1, <2>2 DEF PrefixInv, Behind, LoopInv
<1>2. ASSUME NEW t \in Trades, List(t) PROVE PrefixInv'
  <2>1. t \in late' \/ \A u \in listed : Ts[u] <= Ts[t]
    BY <1>0, <1>2 DEF List, TypeInv, TypeOK
  <2>2. /\ listed' = listed \cup {t}
        /\ UNCHANGED <<cursor, pc, cur, batch, trade, blocked, maxTs, accounted, swallowed>>
        /\ late \subseteq late'
    BY <1>2 DEF List
  <2>3. \A o : Open(o)' \subseteq Open(o) \cup (IF t \in late' THEN {} ELSE {t})
    BY <2>2 DEF Open, Overtaken
  <2>4. Behind'
    BY <2>1, <2>2, <2>3 DEF PrefixInv, Behind
  <2>5. Left' = Left /\ (InLoop => Left \subseteq listed)
    BY <2>2 DEF Left, InLoop, TypeInv, TypeOK, InHand
  <2>6. InLoop /\ t \notin late' => Ts[t] >= maxTs
    BY <1>0, <2>1 DEF PrefixInv, LoopInv
  <2>7. Open(cur)' \subseteq Open(cur) \cup (IF t \in late' THEN {} ELSE {t})
    BY <2>2, <2>3 DEF Open
  <2>8. LoopInv'
    BY <2>1, <2>2, <2>5, <2>6, <2>7 DEF PrefixInv, LoopInv, InLoop
  <2> QED
    BY <2>4, <2>8 DEF PrefixInv
<1>3. CASE Fault
  <2>1. ASSUME NEW t \in Trades, Swallow(t) PROVE PrefixInv'
    BY <1>0, <2>1, PrefixFrame DEF Swallow
  <2> QED
    BY <1>0, <1>1, <1>3, <2>1, PrefixFrame
    DEF Fault, Raises, OrderGone, GiveUp, LookbackFails, Defer, Crash, InLoop
<1>4. CASE Environment
  <2>1. ASSUME NEW t \in Trades, Execute(t) \/ OthersDeliver(t) PROVE PrefixInv'
    BY <1>0, <2>1, PrefixFrame DEF Execute, OthersDeliver
  <2>2. ASSUME NEW o \in Orders, Age(o) \/ Confirm(o) PROVE PrefixInv'
    BY <1>0, <2>2, PrefixFrame DEF Age, Confirm
  <2>3. ASSUME NEW o \in Orders, NEW s \in Ends, End(o, s) PROVE PrefixInv'
    BY <1>0, <2>3, PrefixFrame DEF End
  <2>4. CASE Halt
    BY <1>0, <2>4, PrefixFrame DEF Halt
  <2> QED
    BY <1>2, <1>4, <2>1, <2>2, <2>3, <2>4 DEF Environment
<1>5. CASE UNCHANGED vars
  BY <1>0, <1>5, PrefixFrame DEF vars
<1> QED
  BY <1>3, <1>4, <1>5

(* "Cursor may only advance through a contiguous prefix of successfully    *)
(* accounted fills": for any orders and trades, however far apart, and     *)
(* whatever fails, dies or is delivered by others, a trade that the sink   *)
(* has not answered for stays in the window, unless a trade of another     *)
(* order came the overlap or more after it, or the venue listed it after a *)
(* later one.                                                              *)
THEOREM PrefixSuffices == Spec => []UnaccountedReachable
<1>1. Init => DeliveredInv /\ PrefixInv
  BY DEF Init, DeliveredInv, PrefixInv, Behind, LoopInv, InLoop
<1>2. TypeInv /\ DeliveredInv /\ PrefixInv /\ [Next]_vars => DeliveredInv' /\ PrefixInv'
  BY DeliveredStep, PrefixWork, PrefixRest, ReconcileAssumption DEF Next
<1>3. ASSUME TypeInv, PrefixInv,
             NEW t \in listed \ (accounted \cup swallowed \cup late), ~ Overtaken(t)
      PROVE  Ts[t] >= cursor - Overlap
  <2>1. OrderOf[t] \in Orders /\ t \in Open(OrderOf[t])
    BY <1>3, ReconcileAssumption DEF Open, TradesOf, TypeInv, TypeOK, ReconcileAssumption
  <2> QED
    BY <1>3, <2>1, OpenInWindow, ReconcileAssumption DEF PrefixInv
<1>4. TypeInv /\ PrefixInv => UnaccountedReachable
  BY <1>3 DEF UnaccountedReachable
<1>5. Spec => []TypeInv
  BY TypeCorrect, PTL DEF TypeInv
<1> QED
  BY <1>1, <1>2, <1>4, <1>5, PTL DEF Spec

-----------------------------------------------------------------------------
(* The rows and the table of intent_lifecycle.py.                          *)

LC == INSTANCE IntentLifecycle WITH Intents <- Orders

(* A status the WHERE clause lets through is a move of the table. *)
LEMMA TableMove ==
  ASSUME TypeInv, NEW o \in Orders, NEW s \in Statuses, CanWrite(o, s), WriteRow(o, s)
  PROVE  LC!Next
<1>1. status[o] \in LC!Statuses /\ s \in LC!Statuses /\ LC!TransitionAllowed(status[o], s)
  BY DEF CanWrite, SqlAllows, LC!Statuses, LC!LiveStatuses, LC!TerminalStatuses,
     LC!TransitionAllowed, LC!StatusTransitions
<1>2. LC!Move(o, s)
  BY <1>1 DEF WriteRow, LC!Move
<1> QED
  BY <1>1, <1>2 DEF LC!Next

(* update_live_queue_status_as_reconciler checks its copy of the row,      *)
(* which always says submitted by then: each status it writes is a step of *)
(* IntentLifecycle from what the row says at the time of the write.        *)
THEOREM RowsFollowTable == Spec => [][LC!Next]_status
<1>1. TypeInv /\ [Next]_vars => [LC!Next]_status
  <2> SUFFICES ASSUME TypeInv, [Next]_vars PROVE LC!Next \/ status' = status
    OBVIOUS
  <2>0. /\ pc \in {"order", "except", "decide"} => cur \in Orders
        /\ {"error", "submitted", "filled", "canceled", "rejected"} \subseteq Statuses
    BY DEF TypeInv, InHand
  <2>1. CASE UNCHANGED vars
    BY <2>1 DEF vars
  <2>2. CASE OrderDead
    BY <2>0, <2>2, TableMove DEF OrderDead
  <2>3. CASE OrderOpen
    BY <2>0, <2>3, TableMove DEF OrderOpen
  <2>4. CASE OrderGone \/ Except
    BY <2>0, <2>4, TableMove DEF OrderGone, Except, GiveUp
  <2>5. CASE Decide \/ LookbackFails
    BY <2>0, <2>5, TableMove DEF Decide, LookbackFails, Defer
  <2>6. ASSUME NEW o \in Orders, Confirm(o)
        PROVE  LC!Next
    <3>1. LC!Move(o, "submitted") /\ "submitted" \in LC!Statuses
      BY <2>6 DEF Confirm, LC!Move, LC!Statuses, LC!LiveStatuses, LC!TransitionAllowed, LC!StatusTransitions
    <3> QED
      BY <3>1 DEF LC!Next
  <2>7. CASE Work /\ ~ (OrderDead \/ OrderOpen \/ Except \/ Decide)
    BY <2>7 DEF Work, StartPass, NextRow, OrderClosed, OrderOther, Ledger, FetchTrades, InsertFill,
       EmitJournal, EmitOk, SaveCursor, EndPass
  <2>8. CASE Fault /\ ~ (OrderGone \/ LookbackFails)
    BY <2>8 DEF Fault, Raises, Swallow, EmitFails, Crash
  <2>9. ASSUME Environment, \A o \in Orders : ~ Confirm(o)
        PROVE  status' = status
    BY <2>9 DEF Environment, Execute, List, OthersDeliver, Age, End, Halt
  <2> QED
    BY <2>1, <2>2, <2>3, <2>4, <2>5, <2>6, <2>7, <2>8, <2>9 DEF Next
<1> QED
  BY <1>1, TypeCorrect, PTL DEF Spec, TypeInv
=============================================================================
