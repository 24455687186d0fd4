-------------------------- MODULE PaperPathProofs --------------------------
(***************************************************************************)
(* Theorems about PaperPath for any intents, prices, processes, crashes,   *)
(* store failures, cancels and holds, with one paper runner or several.    *)
(***************************************************************************)
EXTENDS PaperPath, FiniteSetTheorems, WellFoundedInduction, TLAPS

USE DEF TerminalStatuses, LiveStatuses, Statuses, RowStatuses, OrderStatuses,
        Final, StartPcs, ConsumePcs, EvalPcs, ReconPcs, StateRows

Steps == {"down", "claim"} \cup StartPcs \cup ConsumePcs \cup EvalPcs \cup ReconPcs

(* The steps between two intents, at which a process has none in hand. *)
EmptyHanded == StartPcs \cup {"down", "claim", "pick", "eval", "read", "listNew", "listSub"}

(* What the books say of an order goes with what its row says: only a fill *)
(* during a cancel leaves a canceled order with one.                       *)
OrderInv ==
  \A i \in Intents :
    /\ order[i] \in {"none", "new", "rejected"} => fill[i] = 0
    /\ order[i] = "filled" => fill[i] > 0
    /\ order[i] = "canceled" \/ i \in canceling => fill[i] = 0 \/ i \in raced
    /\ i \in canceling => order[i] # "none"

(* A reconciler that has read "filled" journals before it writes. *)
JournalInv ==
  /\ FilledIsJournaled
  /\ \A p \in Procs :
       /\ pc[p] = "journal" => seen[p] = "filled" /\ fill[item[p]] > 0
       /\ pc[p] = "settle" /\ seen[p] = "filled" => item[p] \in journal

(* A process of the runner that has claimed an intent, and a reconciling   *)
(* one that has listed it.                                                 *)
InHand(p, i) == i \in batch[p] \/ i = item[p]
Holds(p, i) == pc[p] \in ConsumePcs /\ InHand(p, i)
Lists(p, i) == pc[p] \in {"read", "journal", "settle"} /\ InHand(p, i)

(* An order that is read as ended stays ended. *)
SeenInv ==
  \A p \in Procs :
    /\ pc[p] \in ConsumePcs => item[p] \notin batch[p]
    /\ pc[p] = "link" => order[item[p]] # "none"
    /\ pc[p] = "settle" /\ seen[p] \in {"canceled", "rejected"}
         => order[item[p]] \in {"canceled", "rejected"}

(* A claimed intent is in one pair of hands and without an order, until    *)
(* its holder has inserted one; a listed one is past its submission.  A    *)
(* hold of an intent that has an order ends all this.                      *)
ClaimInv ==
  \A i \in Intents :
    /\ qstatus[i] = "submitted" => order[i] # "none"
    /\ i \notin reheld =>
         /\ qstatus[i] \in {"absent", "queued", "held"} => order[i] = "none"
         /\ \A p \in Procs :
              /\ Holds(p, i) => /\ qstatus[i] = "submitting"
                                /\ (pc[p] = "link" /\ i = item[p]) \/ order[i] = "none" \/ i \in misled
                                /\ \A q \in Procs : Holds(q, i) => q = p
              /\ Lists(p, i) => qstatus[i] \in TerminalStatuses \cup {"submitted"}

(* Both ends of a loop are steps. *)
LEMMA LoopType ==
  ASSUME NEW S, NEW a, NEW b
  PROVE  Loop(S, a, b) \in {a, b}
  BY DEF Loop

(* A process starts at its loop's first call. *)
LEMMA FirstPcType == \A p \in Procs : FirstPc(p) \in {"claim", "listSub"}
  BY DEF FirstPc

(* A process starts with its engine, or at its loop's first call. *)
LEMMA StartPcType == \A p \in Procs : StartPc(p) \in {"getCash", "claim", "listSub"}
  BY DEF StartPc, FirstPc

(* What a fill is worth is a natural number, since its fee is a share of   *)
(* it.                                                                     *)
LEMMA Money ==
  ASSUME NEW i \in Intents, NEW x \in Prices
  PROVE  Cost(i, x) \in Nat /\ Proceeds(i, x) \in Nat
<1>1. x \in Nat /\ Qty[i] \in Nat /\ Fee \in Nat /\ Fee <= x * Qty[i]
  BY PaperAssumption
<1>2. x * Qty[i] \in Nat
  BY <1>1
<1> QED
  BY <1>1, <1>2 DEF Cost, Proceeds

(* The books after a purchase or a sale stay in their types. *)
LEMMA FillTypes ==
  ASSUME TypeOK, NEW i \in Intents, NEW x \in Prices,
         IF Side[i] = "buy" THEN BuyFill(i, x) ELSE SellFill(i, x)
  PROVE  /\ cash' \in Nat /\ pos' \in Nat /\ avg' \in Nat /\ realized' \in Int
         /\ order' \in [Intents -> OrderStatuses]
         /\ fill' \in [Intents -> Prices \cup {0}]
<1>1. Qty[i] \in Nat \ {0} /\ Cost(i, x) \in Nat /\ Proceeds(i, x) \in Nat
  BY Money, PaperAssumption
<1>2. cash \in Nat /\ pos \in Nat /\ avg \in Nat /\ realized \in Int
  BY DEF TypeOK
<1>3. CASE Side[i] = "buy"
  <2>1. (avg * pos + Cost(i, x)) \in Nat
    BY <1>1, <1>2
  <2>2. (avg * pos + Cost(i, x)) \div (pos + Qty[i]) \in Nat
    BY <1>1, <1>2, <2>1
  <2> QED
    BY <1>1, <1>2, <1>3, <2>2 DEF BuyFill, TypeOK, bookVars
<1>4. CASE Side[i] # "buy"
  <2>1. avg * Qty[i] \in Nat
    BY <1>1, <1>2
  <2> QED
    BY <1>1, <1>2, <1>4, <2>1 DEF SellFill, TypeOK, bookVars
<1> QED
  BY <1>3, <1>4

USE DEF queueVars, orderVars, bookVars, startVars, procVars, ghostVars

(* A status update keeps the type of the queue. *)
LEMMA UpdateType ==
  ASSUME qstatus \in [Intents -> RowStatuses], NEW i \in Intents, NEW t,
         UpdateStatus(i, t)
  PROVE  qstatus' \in [Intents -> RowStatuses]
  BY DEF UpdateStatus, PaperSqlAllows

(* A process past its pick holds an intent. *)
LEMMA Handed ==
  ASSUME TypeOK, NEW p \in Procs, pc[p] \notin EmptyHanded
  PROVE  item[p] \in Intents
  BY DEF TypeOK, EmptyHanded

(* An ended loop or pass leaves a process empty-handed. *)
LEMMA NextTypes ==
  ASSUME NEW p \in Procs, NEW S
  PROVE  /\ Loop(S, "pick", "listNew") \in EmptyHanded
         /\ Loop(S, "eval", "listSub") \in EmptyHanded
         /\ Loop(S, "read", FirstPc(p)) \in EmptyHanded
         /\ FirstPc(p) \in EmptyHanded
         /\ StartPc(p) \in EmptyHanded
  BY DEF Loop, StartPc, FirstPc, EmptyHanded

(* Making the engine moves a process from one of its steps to the next.    *)
LEMMA Prepares ==
  ASSUME TypeOK, NEW p \in Procs, EnsureCash(p)
  PROVE  /\ pc' \in [Procs -> Steps] /\ pc[p] \in StartPcs /\ pc'[p] \in StartPcs \cup {"claim"}
         /\ \A q \in Procs \ {p} : pc'[q] = pc[q]
         /\ UNCHANGED <<qstatus, order, fill, pos, avg, journal, runner, batch, item, seen,
                        canceling, incidents, ghostVars>>
  BY DEF EnsureCash, GetState, SetState, TypeOK, Steps

(* The engine's start, with the values it may write. *)
LEMMA TypeStart ==
  ASSUME TypeOK, NEW p \in Procs, EnsureCash(p)
  PROVE  TypeOK'
<1>1. /\ pc' \in [Procs -> Steps] /\ pc[p] \in EmptyHanded /\ pc'[p] \in EmptyHanded
      /\ \A q \in Procs \ {p} : pc'[q] = pc[q]
  BY Prepares DEF EmptyHanded
<1>2. cash' \in Nat /\ realized' \in Int /\ rows' \subseteq StateRows /\ reset' \in BOOLEAN
  <2>1. StartCash \in Nat
    BY PaperAssumption
  <2>2. CASE GetState(p)
    BY <2>2 DEF GetState, TypeOK
  <2>3. CASE SetState(p)
    <3>1. cash' \in Nat /\ realized' \in Int
      BY <2>1, <2>3 DEF SetState, TypeOK
    <3>2. rows' \subseteq StateRows
      <4>1. rows \subseteq StateRows
        BY DEF TypeOK
      <4>2. rows' = rows \cup {"cash_quote"} \/ rows' = rows \cup {"realized_pnl"}
        BY <2>3 DEF SetState
      <4> QED
        BY <4>1, <4>2
    <3>3. reset' \in BOOLEAN
      <4>1. \/ reset' = (reset \/ ("cash_quote" \in rows /\ cash # StartCash))
            \/ reset' = (reset \/ realized # 0)
        BY <2>3 DEF SetState
      <4> QED
        BY <4>1, Zenon
    <3> QED
      BY <3>1, <3>2, <3>3
  <2> QED
    BY <2>2, <2>3 DEF EnsureCash
<1>3. \A q \in Procs : pc[q] \in EmptyHanded <=> pc'[q] \in EmptyHanded
  BY <1>1
<1> QED
  BY <1>1, <1>2, <1>3, Prepares DEF TypeOK, EmptyHanded, Steps

(* The steps of the paper runner that consume the queue. *)
LEMMA TypeConsume ==
  ASSUME TypeOK, NEW p \in Procs, Consume(p)
  PROVE  TypeOK'
<1>1. CASE Claim(p)
  BY <1>1, NextTypes, PaperAssumption DEF Claim, TypeOK, EmptyHanded
<1>2. CASE PickIntent(p)
  BY <1>2, PaperAssumption DEF PickIntent, TypeOK
<1>3. CASE Submit(p)
  BY <1>3, PaperAssumption DEF Submit, TypeOK
<1>4. CASE Insert(p)
  BY <1>4, PaperAssumption DEF Insert, TypeOK, NewOrder
<1>5. CASE InsertRaises(p)
  <2>1. item[p] \in Intents
    BY <1>5, Handed DEF InsertRaises, EmptyHanded
  <2> QED
    BY <1>5, <2>1, PaperAssumption DEF InsertRaises, TypeOK, NewOrder, Incident
<1>6. ASSUME NEW t, pc[p] \in {"link", "reject"}, AnswerIntent(p, t)
      PROVE  TypeOK'
  <2>1. item[p] \in Intents
    BY <1>6, Handed DEF EmptyHanded
  <2>2. qstatus' \in [Intents -> RowStatuses]
    BY <1>6, <2>1, UpdateType DEF AnswerIntent, TypeOK
  <2> QED
    BY <1>6, <2>2, NextTypes, PaperAssumption DEF AnswerIntent, TypeOK, EmptyHanded
<1> QED
  BY <1>1, <1>2, <1>3, <1>4, <1>5, <1>6 DEF Consume, Link, Reject

(* Those that fill open orders. *)
LEMMA TypeEvaluate ==
  ASSUME TypeOK, NEW p \in Procs, EvaluateOpen(p)
  PROVE  TypeOK'
<1>1. CASE ListNew(p)
  BY <1>1, NextTypes, PaperAssumption DEF ListNew, TypeOK, EmptyHanded
<1>2. ASSUME NEW i \in Intents, Evaluate(p, i)
      PROVE  TypeOK'
  <2>1. PICK x \in Prices : ApplyFill(i, x)
    BY <1>2 DEF Evaluate
  <2>2. /\ cash' \in Nat /\ pos' \in Nat /\ avg' \in Nat /\ realized' \in Int
        /\ order' \in [Intents -> OrderStatuses]
        /\ fill' \in [Intents -> Prices \cup {0}]
        /\ raced' \subseteq Intents
    <3>1. CASE order[i] \in Final /\ UNCHANGED <<orderVars, bookVars, raced>>
      BY <3>1 DEF TypeOK
    <3>2. CASE /\ IF Side[i] = "buy" THEN BuyFill(i, x) ELSE SellFill(i, x)
               /\ raced' = raced \cup ({i} \cap canceling)
      BY <3>2, FillTypes DEF TypeOK
    <3> QED
      BY <2>1, <3>1, <3>2 DEF ApplyFill
  <2> QED
    BY <1>2, <2>2, NextTypes, PaperAssumption DEF Evaluate, TypeOK, EmptyHanded
<1>3. ASSUME NEW i \in Intents, EvaluateSkips(p, i)
      PROVE  TypeOK'
  BY <1>3, NextTypes, PaperAssumption DEF EvaluateSkips, TypeOK, EmptyHanded
<1> QED
  BY <1>1, <1>2, <1>3 DEF EvaluateOpen

(* Those that settle the queue, in the runner and in the reconciler. *)
LEMMA TypeReconcile ==
  ASSUME TypeOK, NEW p \in Procs, Reconcile(p)
  PROVE  TypeOK'
<1>1. CASE ListSubmitted(p)
  BY <1>1, NextTypes, PaperAssumption DEF ListSubmitted, TypeOK, EmptyHanded
<1>2. ASSUME NEW i \in Intents, ReadOrder(p, i)
      PROVE  TypeOK'
  <2>1. CASE order[i] = "new"
    BY <1>2, <2>1, NextTypes, PaperAssumption DEF ReadOrder, TypeOK, EmptyHanded
  <2>2. CASE order[i] # "new"
    BY <1>2, <2>2, PaperAssumption DEF ReadOrder, TypeOK
  <2> QED
    BY <2>1, <2>2
<1>3. CASE JournalFills(p)
  <2>1. item[p] \in Intents
    BY <1>3, Handed DEF JournalFills, EmptyHanded
  <2> QED
    BY <1>3, <2>1, PaperAssumption DEF JournalFills, TypeOK
<1>4. CASE Settle(p)
  <2>1. item[p] \in Intents
    BY <1>4, Handed DEF Settle, EmptyHanded
  <2>2. qstatus' \in [Intents -> RowStatuses]
    BY <1>4, <2>1, UpdateType DEF Settle, TypeOK
  <2> QED
    BY <1>4, <2>2, NextTypes, PaperAssumption DEF Settle, TypeOK, EmptyHanded
<1> QED
  BY <1>1, <1>2, <1>3, <1>4 DEF Reconcile

(* The bound holds. *)
LEMMA IncidentType ==
  ASSUME incidents \in 0 .. MaxIncidents, Incident
  PROVE  incidents' \in 0 .. MaxIncidents
<1>1. MaxIncidents \in Nat
  BY PaperAssumption
<1> QED
  BY <1>1 DEF Incident

(* Crashes, restarts, producers and operators. *)
LEMMA TypeOthers ==
  ASSUME TypeOK,
         \/ \E p \in Procs : Crash(p) \/ Restart(p)
         \/ \E i \in Intents : Enqueue(i) \/ Operator(i)
  PROVE  TypeOK'
<1>1. ASSUME NEW p \in Procs, Crash(p)
      PROVE  TypeOK'
  BY <1>1, PaperAssumption DEF Crash, Incident, TypeOK
<1>2. ASSUME NEW p \in Procs, Restart(p)
      PROVE  TypeOK'
  BY <1>2, NextTypes, PaperAssumption DEF Restart, TypeOK, EmptyHanded
<1>3. ASSUME NEW i \in Intents, Enqueue(i)
      PROVE  TypeOK'
  <2>1. qstatus' \in [Intents -> RowStatuses]
    BY <1>3 DEF Enqueue, TypeOK
  <2> QED
    BY <1>3, <2>1 DEF Enqueue, TypeOK
<1>4. ASSUME NEW i \in Intents, CancelRead(i) \/ CancelWrite(i)
      PROVE  TypeOK'
  <2>1. incidents' \in 0 .. MaxIncidents
    BY <1>4, IncidentType DEF CancelRead, CancelWrite, TypeOK
  <2>2. order' \in [Intents -> OrderStatuses] /\ canceling' \subseteq Intents
    BY <1>4 DEF CancelRead, CancelWrite, TypeOK
  <2>3. CASE CancelRead(i)
    BY <2>1, <2>2, <2>3 DEF CancelRead, TypeOK
  <2>4. CASE CancelWrite(i)
    BY <2>1, <2>2, <2>4 DEF CancelWrite, TypeOK
  <2> QED
    BY <1>4, <2>3, <2>4
<1>5. ASSUME NEW i \in Intents, Hold(i) \/ Release(i)
      PROVE  TypeOK'
  <2>1. qstatus' \in [Intents -> RowStatuses]
    BY <1>5, UpdateType DEF Hold, Release, TypeOK
  <2> QED
    BY <1>5, <2>1, IncidentType DEF Hold, Release, TypeOK
<1> QED
  BY <1>1, <1>2, <1>3, <1>4, <1>5 DEF Operator

(* The types hold in every state the paper path can be in; among them that *)
(* cash and position are never negative, whatever the gate had estimated,  *)
(* and that a process has an intent in hand exactly in mid-answer.         *)
THEOREM TypeCorrect == Spec => []TypeOK
<1>1. Init => TypeOK
  <2> SUFFICES ASSUME Init PROVE TypeOK
    OBVIOUS
  <2>1. /\ Main \in Procs /\ NoIntent \notin Intents /\ 0 \in 0 .. MaxIncidents
    BY PaperAssumption
  <2>2. /\ pc \in [Procs -> {"getCash", "claim", "listSub"}]
        /\ item = [q \in Procs |-> NoIntent]
    BY StartPcType DEF Init
  <2>3. \A q \in Procs : item[q] = NoIntent <=> pc[q] \in StartPcs \cup
             {"down", "claim", "pick", "eval", "read", "listNew", "listSub"}
    BY <2>2
  <2>4. pc \in [Procs -> {"down", "claim"} \cup StartPcs \cup ConsumePcs
                                         \cup EvalPcs \cup ReconPcs]
    BY <2>2
  <2>5. /\ qstatus \in [Intents -> RowStatuses] /\ order \in [Intents -> OrderStatuses]
        /\ fill \in [Intents -> Prices \cup {0}]
        /\ cash \in Nat /\ pos \in Nat /\ avg \in Nat /\ realized \in Int
    BY DEF Init
  <2>6. /\ journal \subseteq Intents /\ rows \subseteq StateRows
        /\ runner \subseteq Procs /\ Main \in runner
        /\ batch \in [Procs -> SUBSET Intents] /\ item \in [Procs -> Intents \cup {NoIntent}]
        /\ seen \in [Procs -> OrderStatuses] /\ canceling \subseteq Intents
        /\ incidents \in 0 .. MaxIncidents
        /\ lost \cup raced \cup misled \cup reheld \subseteq Intents /\ reset \in BOOLEAN
    BY <2>1 DEF Init
  <2> QED
    BY <2>3, <2>4, <2>5, <2>6 DEF TypeOK
<1>2. TypeOK /\ [Next]_vars => TypeOK'
  <2>1. CASE UNCHANGED vars
    BY <2>1 DEF vars, TypeOK
  <2> QED
    BY <2>1, TypeStart, TypeConsume, TypeEvaluate, TypeReconcile, TypeOthers DEF Next, Run
<1> QED
  BY <1>1, <1>2, PTL DEF Spec

-----------------------------------------------------------------------------
(* What a step may do to the books of one order: open it, fill it once,    *)
(* refuse it, or cancel it whatever it is by now.                          *)
BookMove(i) ==
  \/ order'[i] = order[i] /\ fill'[i] = fill[i]
  \/ order[i] = "none" /\ order'[i] = "new" /\ fill'[i] = fill[i]
  \/ /\ order[i] = "new" /\ order'[i] = "filled" /\ fill'[i] > 0
     /\ i \in canceling => i \in raced'
  \/ order[i] = "new" /\ order'[i] = "rejected" /\ fill'[i] = fill[i]
  \/ i \in canceling /\ order'[i] = "canceled" /\ fill'[i] = fill[i]

BookStep ==
  /\ \A i \in Intents :
       BookMove(i) /\ (i \in canceling' => i \in canceling \/ order'[i] = "new")
  /\ raced \subseteq raced'

(* A fill is a move of the books. *)
LEMMA FillMoves ==
  ASSUME TypeOK, NEW i \in Intents, NEW x \in Prices, ApplyFill(i, x),
         UNCHANGED canceling
  PROVE  BookStep
<1>1. x > 0 /\ x \in Nat
  BY PaperAssumption
<1>2. CASE order[i] \in Final
  BY <1>2 DEF ApplyFill, BookStep, BookMove, BuyFill, SellFill
<1>3. CASE order[i] = "new"
  BY <1>1, <1>3 DEF ApplyFill, BookStep, BookMove, BuyFill, SellFill, TypeOK
<1> QED
  BY <1>2, <1>3 DEF ApplyFill

(* Every step moves the books, or leaves them alone. *)
LEMMA BookMoves ==
  ASSUME TypeOK, [Next]_vars
  PROVE  BookStep
<1> USE DEF BookStep, BookMove
<1>1. ASSUME NEW p \in Procs, Consume(p)
      PROVE  BookStep
  <2>1. CASE Insert(p) \/ InsertRaises(p)
    BY <1>1, <2>1 DEF Insert, InsertRaises, NewOrder, TypeOK
  <2> QED
    BY <1>1, <2>1 DEF Consume, Claim, PickIntent, Submit, Link, Reject, AnswerIntent
<1>2. ASSUME NEW p \in Procs, EvaluateOpen(p)
      PROVE  BookStep
  <2>1. ASSUME NEW i \in Intents, Evaluate(p, i)
        PROVE  BookStep
    BY <2>1, FillMoves DEF Evaluate
  <2> QED
    BY <1>2, <2>1 DEF EvaluateOpen, ListNew, EvaluateSkips
<1>3. ASSUME NEW p \in Procs, EnsureCash(p) \/ Reconcile(p) \/ Crash(p) \/ Restart(p)
      PROVE  BookStep
  BY <1>3, Prepares DEF Reconcile, ListSubmitted, JournalFills, Settle, ReadOrder, Crash, Restart
<1>4. ASSUME NEW i \in Intents, Enqueue(i) \/ Operator(i)
      PROVE  BookStep
  BY <1>4 DEF Enqueue, Operator, CancelRead, CancelWrite, Hold, Release, TypeOK
<1>5. CASE UNCHANGED vars
  BY <1>5 DEF vars
<1> QED
  BY <1>1, <1>2, <1>3, <1>4, <1>5 DEF Next, Run

(* Orders and their fills keep in step. *)
LEMMA OrderNext ==
  ASSUME TypeOK, OrderInv, BookStep
  PROVE  OrderInv'
  BY DEF OrderInv, BookStep, BookMove, TypeOK

(* A step of the journal and the queue, seen from a filled row. *)
LEMMA JournalNext ==
  ASSUME TypeOK, OrderInv, JournalInv, [Next]_vars
  PROVE  JournalInv'
<1> USE DEF JournalInv, FilledIsJournaled
<1>0. BookStep
  BY BookMoves
<1>1. \A i \in Intents : fill[i] > 0 => fill'[i] > 0
  BY <1>0, PaperAssumption DEF BookStep, BookMove, OrderInv, TypeOK
<1>2. ASSUME NEW p \in Procs, Consume(p)
      PROVE  JournalInv'
  <2>1. CASE Link(p) \/ Reject(p)
    <3>1. item[p] \in Intents
      BY <2>1, Handed DEF Link, Reject, EmptyHanded
    <3>2. \A i \in Intents : qstatus'[i] = "filled" => qstatus[i] = "filled"
      BY <2>1, <3>1 DEF Link, Reject, AnswerIntent, UpdateStatus, TypeOK
    <3> QED
      BY <1>1, <2>1, <3>2, NextTypes DEF Link, Reject, AnswerIntent, TypeOK, EmptyHanded
  <2>2. CASE Claim(p)
    BY <1>1, <2>2, NextTypes DEF Claim, TypeOK, EmptyHanded
  <2> QED
    BY <1>1, <1>2, <2>1, <2>2 DEF Consume, PickIntent, Submit, Insert, InsertRaises, TypeOK
<1>3. ASSUME NEW p \in Procs, EvaluateOpen(p)
      PROVE  JournalInv'
  BY <1>1, <1>3, NextTypes DEF EvaluateOpen, ListNew, Evaluate, EvaluateSkips, TypeOK, EmptyHanded
<1>4. ASSUME NEW p \in Procs, Reconcile(p)
      PROVE  JournalInv'
  <2>1. CASE ListSubmitted(p)
    BY <1>1, <2>1, NextTypes DEF ListSubmitted, TypeOK, EmptyHanded
  <2>2. ASSUME NEW i \in Intents, ReadOrder(p, i)
        PROVE  JournalInv'
    BY <1>1, <2>2, NextTypes DEF ReadOrder, TypeOK, EmptyHanded, OrderInv
  <2>3. CASE JournalFills(p)
    BY <1>1, <2>3, Handed DEF JournalFills, TypeOK, EmptyHanded
  <2>4. CASE Settle(p)
    BY <1>1, <2>4, NextTypes, Handed DEF Settle, UpdateStatus, TypeOK, EmptyHanded
  <2> QED
    BY <1>4, <2>1, <2>2, <2>3, <2>4 DEF Reconcile
<1>5. ASSUME NEW p \in Procs, EnsureCash(p) \/ Crash(p) \/ Restart(p)
      PROVE  JournalInv'
  <2>1. CASE EnsureCash(p)
    BY <1>1, <2>1, Prepares DEF TypeOK
  <2> QED
    BY <1>1, <1>5, <2>1, NextTypes DEF Crash, Restart, TypeOK, EmptyHanded
<1>6. ASSUME NEW i \in Intents, Enqueue(i) \/ Operator(i)
      PROVE  JournalInv'
  BY <1>1, <1>6 DEF Enqueue, Operator, CancelRead, CancelWrite, Hold, Release, UpdateStatus, TypeOK
<1>7. CASE UNCHANGED vars
  BY <1>7 DEF vars
<1> QED
  BY <1>2, <1>3, <1>4, <1>5, <1>6, <1>7 DEF Next, Run

(* Whoever else reconciles, cancels or dies, a filled intent has its fill  *)
(* in the books and in the trade journal, which has no fill the books lack. *)
THEOREM FilledJournaled == Spec => []FilledIsJournaled
<1>1. Init => OrderInv /\ JournalInv
  BY StartPcType DEF Init, OrderInv, JournalInv, FilledIsJournaled
<1>2. TypeOK /\ OrderInv /\ JournalInv /\ [Next]_vars => OrderInv' /\ JournalInv'
  BY BookMoves, OrderNext, JournalNext
<1>3. JournalInv => FilledIsJournaled
  BY DEF JournalInv
<1> QED
  BY <1>1, <1>2, <1>3, TypeCorrect, PTL DEF Spec

-----------------------------------------------------------------------------

(* What a process has read of an order stays true of it. *)
LEMMA SeenNext ==
  ASSUME TypeOK, JournalInv, SeenInv, [Next]_vars
  PROVE  SeenInv'
<1> USE DEF SeenInv
<1>0. BookStep
  BY BookMoves
<1>1. \A i \in Intents :
        /\ order[i] # "none" => order'[i] # "none"
        /\ order[i] \in {"canceled", "rejected"} => order'[i] \in {"canceled", "rejected"}
  BY <1>0 DEF BookStep, BookMove
<1>2. ASSUME NEW p \in Procs, Consume(p)
      PROVE  SeenInv'
  <2>1. CASE Claim(p)
    BY <1>1, <2>1, NextTypes, PaperAssumption DEF Claim, TypeOK, EmptyHanded
  <2>2. CASE PickIntent(p)
    BY <1>1, <2>2 DEF PickIntent, TypeOK
  <2>3. CASE Submit(p)
    BY <1>1, <2>3 DEF Submit, TypeOK
  <2>4. CASE Insert(p) \/ InsertRaises(p)
    BY <1>1, <2>4 DEF Insert, InsertRaises, NewOrder, TypeOK
  <2>5. CASE Link(p) \/ Reject(p)
    BY <1>1, <2>5, NextTypes, PaperAssumption DEF Link, Reject, AnswerIntent, TypeOK, EmptyHanded
  <2> QED
    BY <1>2, <2>1, <2>2, <2>3, <2>4, <2>5 DEF Consume
<1>3. ASSUME NEW p \in Procs, EvaluateOpen(p)
      PROVE  SeenInv'
  <2>1. pc'[p] \in {"eval", "listSub"} /\ \A q \in Procs \ {p} : pc'[q] = pc[q] /\ batch'[q] = batch[q]
    BY <1>3, LoopType DEF EvaluateOpen, ListNew, Evaluate, EvaluateSkips, TypeOK
  <2>2. UNCHANGED <<item, seen>>
    BY <1>3 DEF EvaluateOpen, ListNew, Evaluate, EvaluateSkips
  <2> QED
    BY <1>1, <2>1, <2>2 DEF TypeOK
<1>4. ASSUME NEW p \in Procs, Reconcile(p)
      PROVE  SeenInv'
  <2>1. CASE ListSubmitted(p) \/ JournalFills(p)
    BY <1>1, <2>1, FirstPcType DEF ListSubmitted, JournalFills, Loop, TypeOK, JournalInv
  <2>2. ASSUME NEW i \in Intents, ReadOrder(p, i)
        PROVE  SeenInv'
    BY <1>1, <2>2, FirstPcType DEF ReadOrder, Loop, TypeOK
  <2>3. CASE Settle(p)
    BY <1>1, <2>3, FirstPcType DEF Settle, Loop, TypeOK
  <2> QED
    BY <1>4, <2>1, <2>2, <2>3 DEF Reconcile
<1>5. ASSUME NEW p \in Procs, EnsureCash(p) \/ Crash(p) \/ Restart(p)
      PROVE  SeenInv'
  <2>1. CASE EnsureCash(p)
    BY <1>1, <2>1, Prepares DEF TypeOK
  <2> QED
    BY <1>1, <1>5, <2>1, StartPcType DEF Crash, Restart, TypeOK
<1>6. ASSUME NEW i \in Intents, Enqueue(i) \/ Operator(i)
      PROVE  SeenInv'
  BY <1>1, <1>6 DEF Enqueue, Operator, CancelRead, CancelWrite, Hold, Release, TypeOK
<1>7. CASE UNCHANGED vars
  BY <1>7 DEF vars
<1> QED
  BY <1>2, <1>3, <1>4, <1>5, <1>6, <1>7 DEF Next, Run

(* A step of a process that leaves the rows of the queue alone, inserts no *)
(* order, and takes no intent in hand that it had not in the same role.    *)
Keeps(p) ==
  /\ \A q \in Procs \ {p} : pc'[q] = pc[q] /\ batch'[q] = batch[q] /\ item'[q] = item[q]
  /\ \A i \in Intents :
       /\ Holds(p, i)' => /\ Holds(p, i)
                          /\ ~(pc[p] = "link" /\ i = item[p]) \/ (pc'[p] = "link" /\ i = item'[p])
       /\ Lists(p, i)' => Lists(p, i) \/ qstatus[i] = "submitted"
       /\ order'[i] = "none" <=> order[i] = "none"
  /\ UNCHANGED <<qstatus, misled, reheld>>

(* A step that leaves rows and lists alone keeps the claims. *)
LEMMA ClaimKeeps ==
  ASSUME TypeOK, ClaimInv, NEW p \in Procs, Keeps(p)
  PROVE  ClaimInv'
  BY DEF ClaimInv, Keeps, Holds, Lists, InHand

(* The consumer keeps them: a claimed row is its own until it answers. *)
LEMMA ClaimConsume ==
  ASSUME TypeOK, SeenInv, ClaimInv, NEW p \in Procs, Consume(p)
  PROVE  ClaimInv'
<1>1. CASE Claim(p)
  <2>1. \A i \in Intents : qstatus[i] = "queued" => qstatus'[i] = "submitting"
    BY <1>1 DEF Claim
  <2>2. \A i \in Intents : qstatus[i] # "queued" => qstatus'[i] = qstatus[i]
    BY <1>1 DEF Claim
  <2>3. \A q \in Procs \ {p}, i \in Intents :
          (Holds(q, i)' <=> Holds(q, i)) /\ (Lists(q, i)' <=> Lists(q, i))
    BY <1>1 DEF Claim, Holds, Lists, InHand, TypeOK
  <2>4. \A i \in Intents :
          /\ Holds(p, i)' => qstatus[i] = "queued" /\ pc'[p] # "link"
          /\ ~Lists(p, i)' /\ ~Holds(p, i)
    BY <1>1, PaperAssumption DEF Claim, Holds, Lists, InHand, Loop, TypeOK
  <2>5. \A q \in Procs \ {p} : pc'[q] = pc[q] /\ item'[q] = item[q]
    BY <1>1 DEF Claim, TypeOK
  <2>6. UNCHANGED <<order, misled, reheld>>
    BY <1>1 DEF Claim
  <2> QED
    BY <2>1, <2>2, <2>3, <2>4, <2>5, <2>6 DEF ClaimInv
<1>2. CASE PickIntent(p)
  <2> Keeps(p)
    BY <1>2 DEF PickIntent, Keeps, Holds, Lists, InHand, TypeOK
  <2> QED
    BY ClaimKeeps
<1>3. CASE Submit(p)
  <2> Keeps(p)
    BY <1>3 DEF Submit, Keeps, Holds, Lists, InHand, TypeOK
  <2> QED
    BY ClaimKeeps
<1>4. CASE Insert(p) \/ InsertRaises(p)
  <2>1. item[p] \in Intents
    BY <1>4, Handed DEF Insert, InsertRaises, EmptyHanded
  <2>2. \A q \in Procs, i \in Intents :
          (Holds(q, i)' <=> Holds(q, i)) /\ (Lists(q, i)' <=> Lists(q, i))
    BY <1>4 DEF Insert, InsertRaises, Holds, Lists, InHand, TypeOK
  <2>3. Holds(p, item[p])
    BY <1>4 DEF Insert, InsertRaises, Holds, InHand
  <2>4. \A i \in Intents \ {item[p]} : order'[i] = order[i]
    BY <1>4 DEF Insert, InsertRaises, NewOrder, TypeOK
  <2>5. /\ UNCHANGED <<qstatus, reheld, item>>
        /\ misled \subseteq misled'
        /\ \A q \in Procs \ {p} : pc'[q] = pc[q]
    BY <1>4 DEF Insert, InsertRaises, TypeOK
  <2>6. order[item[p]] # "none" => order'[item[p]] # "none"
    BY <1>4 DEF Insert, InsertRaises, NewOrder, TypeOK
  <2>7. pc'[p] = "link" \/ order'[item[p]] = order[item[p]] \/ item[p] \in misled'
    BY <1>4 DEF Insert, InsertRaises, TypeOK
  <2>8. pc[p] = "insert"
    BY <1>4 DEF Insert, InsertRaises
  <2> QED
    BY <2>1, <2>2, <2>3, <2>4, <2>5, <2>6, <2>7, <2>8 DEF ClaimInv
<1>5. CASE Link(p) \/ Reject(p)
  <2>1. item[p] \in Intents
    BY <1>5, Handed DEF Link, Reject, EmptyHanded
  <2>2. Holds(p, item[p])
    BY <1>5 DEF Link, Reject, Holds, InHand
  <2>3. \A i \in Intents : (Lists(p, i)' <=> Lists(p, i)) /\ (Holds(p, i)' => Holds(p, i) /\ i # item[p])
    BY <1>5, <2>1, PaperAssumption DEF Link, Reject, AnswerIntent, SeenInv, Holds, Lists, InHand, Loop, TypeOK
  <2>4. \A q \in Procs \ {p} :
          /\ pc'[q] = pc[q] /\ item'[q] = item[q]
          /\ \A i \in Intents : (Holds(q, i)' <=> Holds(q, i)) /\ (Lists(q, i)' <=> Lists(q, i))
    BY <1>5 DEF Link, Reject, AnswerIntent, Holds, Lists, InHand, TypeOK
  <2>5. \A i \in Intents \ {item[p]} : qstatus'[i] = qstatus[i]
    BY <1>5, <2>1 DEF Link, Reject, AnswerIntent, UpdateStatus, TypeOK
  <2>6. qstatus'[item[p]] = "submitted" => order[item[p]] # "none"
    BY <1>5, <2>1 DEF Link, Reject, AnswerIntent, UpdateStatus, TypeOK, SeenInv, ClaimInv
  <2>7. qstatus[item[p]] = "submitting" => qstatus'[item[p]] \in {"submitted", "rejected"}
    BY <1>5, <2>1 DEF Link, Reject, AnswerIntent, UpdateStatus, PaperSqlAllows, TypeOK
  <2>8. UNCHANGED <<order, misled, reheld>>
    BY <1>5 DEF Link, Reject, AnswerIntent
  <2>9. pc'[p] # "link"
    BY <1>5 DEF Link, Reject, AnswerIntent, Loop, TypeOK
  <2> QED
    BY <2>1, <2>2, <2>3, <2>4, <2>5, <2>6, <2>7, <2>8, <2>9 DEF ClaimInv
<1> QED
  BY <1>1, <1>2, <1>3, <1>4, <1>5 DEF Consume

(* So do the engine, its start, the reconciler, a crash and a restart. *)
LEMMA ClaimProcess ==
  ASSUME TypeOK, SeenInv, ClaimInv, BookStep, NEW p \in Procs,
         EnsureCash(p) \/ EvaluateOpen(p) \/ Reconcile(p) \/ Crash(p) \/ Restart(p)
  PROVE  ClaimInv'
<1>1. ASSUME NEW i \in Intents, Evaluate(p, i)
      PROVE  Keeps(p)
  <2>1. \A j \in Intents : order'[j] = "none" <=> order[j] = "none"
    BY <1>1 DEF Evaluate, ApplyFill, BuyFill, SellFill, TypeOK
  <2> QED
    BY <1>1, <2>1 DEF Evaluate, Loop, Keeps, Holds, Lists, InHand, TypeOK
<1>2. CASE ListNew(p) \/ \E i \in Intents : EvaluateSkips(p, i)
  <2> Keeps(p)
    BY <1>2 DEF ListNew, EvaluateSkips, Loop, Keeps, Holds, Lists, InHand, TypeOK
  <2> QED
    BY ClaimKeeps
<1>3. CASE ListSubmitted(p)
  <2> Keeps(p)
    BY <1>3, FirstPcType, PaperAssumption DEF ListSubmitted, Loop, Keeps, Holds, Lists, InHand, TypeOK
  <2> QED
    BY ClaimKeeps
<1>4. ASSUME NEW i \in Intents, ReadOrder(p, i)
      PROVE  Keeps(p)
  BY <1>4, FirstPcType DEF ReadOrder, Loop, Keeps, Holds, Lists, InHand, TypeOK
<1>5. CASE JournalFills(p)
  <2> Keeps(p)
    BY <1>5 DEF JournalFills, Keeps, Holds, Lists, InHand, TypeOK
  <2> QED
    BY ClaimKeeps
<1>6. CASE Crash(p) \/ Restart(p)
  <2> Keeps(p)
    BY <1>6, StartPcType DEF Crash, Restart, Keeps, Holds, Lists, InHand, TypeOK
  <2> QED
    BY ClaimKeeps
<1>8. CASE EnsureCash(p)
  <2> Keeps(p)
    BY <1>8, Prepares DEF Keeps, Holds, Lists, InHand, TypeOK
  <2> QED
    BY ClaimKeeps
<1>7. CASE Settle(p)
  <2>1. item[p] \in Intents
    BY <1>7, Handed DEF Settle, EmptyHanded
  <2>2. Lists(p, item[p])
    BY <1>7 DEF Settle, Lists, InHand
  <2>3. \A q \in Procs, i \in Intents :
          /\ Holds(q, i)' <=> Holds(q, i)
          /\ Lists(q, i)' => Lists(q, i)
    BY <1>7, FirstPcType, PaperAssumption DEF Settle, Loop, Holds, Lists, InHand, TypeOK
  <2>4. \A i \in Intents \ {item[p]} : qstatus'[i] = qstatus[i]
    BY <1>7, <2>1 DEF Settle, UpdateStatus, TypeOK
  <2>5. /\ qstatus'[item[p]] = "submitted" => qstatus[item[p]] = "submitted"
        /\ qstatus[item[p]] \in TerminalStatuses \cup {"submitted"}
             => qstatus'[item[p]] \in TerminalStatuses \cup {"submitted"}
    <3>1. qstatus'[item[p]] \in {qstatus[item[p]], seen[p]}
      BY <1>7, <2>1 DEF Settle, UpdateStatus, TypeOK
    <3>2. /\ qstatus'[item[p]] # qstatus[item[p]] => PaperSqlAllows(qstatus[item[p]], seen[p])
          /\ seen[p] \in OrderStatuses
      BY <1>7, <2>1 DEF Settle, UpdateStatus, TypeOK
    <3> QED
      BY <3>1, <3>2 DEF PaperSqlAllows
  <2>6. \A q \in Procs : /\ pc'[q] = "link" <=> pc[q] = "link"
                         /\ q # p => item'[q] = item[q]
    BY <1>7, FirstPcType DEF Settle, Loop, TypeOK
  <2>7. UNCHANGED <<order, misled, reheld>> /\ ~(pc[p] = "link")
    BY <1>7 DEF Settle
  <2> QED
    BY <2>1, <2>2, <2>3, <2>4, <2>5, <2>6, <2>7 DEF ClaimInv
<1> QED
  BY <1>1, <1>2, <1>3, <1>4, <1>5, <1>6, <1>7, <1>8, ClaimKeeps DEF EvaluateOpen, Reconcile

(* So do a new intent and the operator's cancel. *)
LEMMA ClaimOperator ==
  ASSUME TypeOK, OrderInv, ClaimInv, NEW i \in Intents, Enqueue(i) \/ Operator(i)
  PROVE  ClaimInv'
<1>1. \A q \in Procs, j \in Intents :
        (Holds(q, j)' <=> Holds(q, j)) /\ (Lists(q, j)' <=> Lists(q, j))
  BY DEF Enqueue, Operator, CancelRead, CancelWrite, Hold, Release, Holds, Lists, InHand
<1>2. UNCHANGED <<pc, item, misled>> /\ reheld \subseteq reheld'
  BY DEF Enqueue, Operator, CancelRead, CancelWrite, Hold, Release
<1>3. \A j \in Intents : order'[j] = "none" <=> order[j] = "none"
  BY DEF Enqueue, Operator, CancelRead, CancelWrite, Hold, Release, OrderInv, TypeOK
<1>4. \A j \in Intents \ {i} : qstatus'[j] = qstatus[j]
  BY DEF Enqueue, Operator, CancelRead, CancelWrite, Hold, Release, UpdateStatus, TypeOK
<1>5. \/ qstatus'[i] = qstatus[i]
      \/ qstatus[i] \in {"absent", "queued", "held"} /\ qstatus'[i] \in {"queued", "held"}
      \/ /\ qstatus[i] = "submitted" /\ qstatus'[i] = "held"
         /\ order[i] # "none" => i \in reheld'
  BY DEF Enqueue, Operator, CancelRead, CancelWrite, Hold, Release, UpdateStatus,
         PaperSqlAllows, TypeOK
<1> QED
  BY <1>1, <1>2, <1>3, <1>4, <1>5 DEF ClaimInv

(* So does every step. *)
LEMMA ClaimNext ==
  ASSUME TypeOK, OrderInv, SeenInv, ClaimInv, [Next]_vars
  PROVE  ClaimInv'
<1>1. BookStep
  BY BookMoves
<1>2. CASE UNCHANGED vars
  BY <1>2 DEF vars, ClaimInv, Holds, Lists, InHand
<1> QED
  BY <1>1, <1>2, ClaimConsume, ClaimProcess, ClaimOperator DEF Next, Run

(* The order of a refused intent never got as far as a fill.  *)
RefusedInv ==
  \A i \in Intents :
    qstatus[i] \in {"rejected", "canceled"} /\ i \notin misled \cup reheld
      => order[i] \in {"none", "canceled", "rejected"}

(* A row turns rejected or canceled by the runner that refuses the intent, *)
(* or by a reconciler that has read its order as ended; and nobody holds   *)
(* it any more who could insert one.                                       *)
LEMMA RefusedNext ==
  ASSUME TypeOK, OrderInv, JournalInv, SeenInv, ClaimInv, RefusedInv, [Next]_vars
  PROVE  RefusedInv'
<1> USE DEF RefusedInv
<1>1. BookStep
  BY BookMoves
<1>2. \A i \in Intents : order[i] \in {"canceled", "rejected"} => order'[i] \in {"canceled", "rejected"}
  BY <1>1 DEF BookStep, BookMove
<1>3. ASSUME NEW p \in Procs, Consume(p)
      PROVE  RefusedInv'
  <2>1. CASE Claim(p)
    BY <2>1 DEF Claim, TypeOK
  <2>2. CASE Insert(p) \/ InsertRaises(p)
    <3>1. item[p] \in Intents /\ Holds(p, item[p])
      BY <2>2, Handed DEF Insert, InsertRaises, EmptyHanded, Holds, InHand
    <3>2. item[p] \in reheld \/ qstatus[item[p]] = "submitting"
      BY <3>1 DEF ClaimInv
    <3> QED
      BY <2>2, <3>1, <3>2 DEF Insert, InsertRaises, NewOrder, TypeOK
  <2>3. CASE Link(p)
    <3>1. item[p] \in Intents
      BY <2>3, Handed DEF Link, EmptyHanded
    <3> QED
      BY <2>3, <3>1 DEF Link, AnswerIntent, UpdateStatus, TypeOK
  <2>4. CASE Reject(p)
    <3>1. item[p] \in Intents /\ Holds(p, item[p])
      BY <2>4, Handed DEF Reject, EmptyHanded, Holds, InHand
    <3>2. item[p] \in misled \cup reheld \/ order[item[p]] = "none"
      BY <2>4, <3>1 DEF ClaimInv, Reject
    <3> QED
      BY <2>4, <3>1, <3>2 DEF Reject, AnswerIntent, UpdateStatus, TypeOK
  <2> QED
    BY <1>3, <2>1, <2>2, <2>3, <2>4 DEF Consume, PickIntent, Submit
<1>4. ASSUME NEW p \in Procs, EvaluateOpen(p)
      PROVE  RefusedInv'
  <2>1. UNCHANGED <<qstatus, misled, reheld>>
    BY <1>4 DEF EvaluateOpen, ListNew, Evaluate, EvaluateSkips
  <2>2. \A i \in Intents : order[i] = "none" => order'[i] = "none"
    BY <1>4 DEF EvaluateOpen, ListNew, Evaluate, EvaluateSkips, ApplyFill, BuyFill, SellFill, TypeOK
  <2> QED
    BY <1>2, <2>1, <2>2
<1>5. ASSUME NEW p \in Procs, EnsureCash(p) \/ Reconcile(p) \/ Crash(p) \/ Restart(p)
      PROVE  RefusedInv'
  <2>1. CASE Settle(p)
    <3>1. item[p] \in Intents
      BY <2>1, Handed DEF Settle, EmptyHanded
    <3>2. \A i \in Intents :
            qstatus'[i] = qstatus[i] \/ (i = item[p] /\ qstatus'[i] = seen[p])
      BY <2>1, <3>1 DEF Settle, UpdateStatus, TypeOK
    <3> QED
      BY <2>1, <3>1, <3>2 DEF Settle, SeenInv
  <2> QED
    BY <1>5, <2>1, Prepares DEF Reconcile, ListSubmitted, ReadOrder, JournalFills, Crash, Restart
<1>6. ASSUME NEW i \in Intents, Enqueue(i) \/ Operator(i)
      PROVE  RefusedInv'
  <2>1. UNCHANGED misled /\ reheld \subseteq reheld'
    BY <1>6 DEF Enqueue, Operator, CancelRead, CancelWrite, Hold, Release
  <2>2. \A j \in Intents : qstatus'[j] \in {"rejected", "canceled"} => qstatus'[j] = qstatus[j]
    BY <1>6 DEF Enqueue, Operator, CancelRead, CancelWrite, Hold, Release, UpdateStatus, TypeOK
  <2>3. \A j \in Intents : order'[j] \in {order[j], "canceled"}
    BY <1>6 DEF Enqueue, Operator, CancelRead, CancelWrite, Hold, Release, TypeOK
  <2> QED
    BY <2>1, <2>2, <2>3
<1>7. CASE UNCHANGED vars
  BY <1>7 DEF vars
<1> QED
  BY <1>3, <1>4, <1>5, <1>6, <1>7 DEF Next, Run

(* Of an intent that was rejected or canceled the books have no fill, with *)
(* one paper runner or several, except in the three ways the property      *)
(* names: there is no fourth.                                              *)
THEOREM RefusedUnfilled == Spec => []RefusedHasNoFill
<1> DEFINE Inv == OrderInv /\ JournalInv /\ SeenInv /\ ClaimInv /\ RefusedInv
<1>1. Init => Inv
  <2> SUFFICES ASSUME Init PROVE Inv
    OBVIOUS
  <2>1. OrderInv /\ JournalInv /\ SeenInv /\ RefusedInv
    BY StartPcType DEF Init, OrderInv, JournalInv, FilledIsJournaled, SeenInv, RefusedInv
  <2>2. ClaimInv
    BY StartPcType DEF Init, ClaimInv, Holds, Lists
  <2> QED
    BY <2>1, <2>2
<1>2. TypeOK /\ Inv /\ [Next]_vars => Inv'
  BY BookMoves, OrderNext, JournalNext, SeenNext, ClaimNext, RefusedNext
<1>3. TypeOK /\ Inv => RefusedHasNoFill
  BY DEF OrderInv, RefusedInv, RefusedHasNoFill, TypeOK
<1> QED
  BY <1>1, <1>2, <1>3, TypeCorrect, PTL DEF Spec

-----------------------------------------------------------------------------
(* Sums.  The provers know nothing of SumFunctionOnSet: that a member adds *)
(* its weight, whatever the order, is shown from its definition.           *)

(* A set of numbers with a member has a least one: what induction comes    *)
(* down to.                                                                *)
LEMMA Least ==
  ASSUME NEW T \in SUBSET Nat, T # {}
  PROVE  \E n \in T : \A m \in T : n <= m
<1>1. IsWellFoundedOn(OpToRel(<, Nat), Nat)
  BY NatLessThanWellFounded
<1> DEFINE R == OpToRel(<, Nat)
<1>2. \A x, y \in Nat : x < y => <<x, y>> \in R
  BY DEF OpToRel
<1>3. IsWellFoundedOn(R, Nat)
  BY <1>1
<1> HIDE DEF R
<1>4. PICK n \in T : \A y \in T : ~ (<<y, n>> \in R)
  BY <1>3, WFMin, Zenon
<1>5. \A y \in T : ~ (y < n)
  BY <1>2, <1>4
<1>6. \A y \in T : n <= y
  BY <1>5
<1>7. QED
  BY <1>6

(* The sum over a set takes any member out and goes on with the rest.      *)
Any(T) == CHOOSE x \in T : TRUE
SumStep(w, g, T) == IF T = {} THEN 0 ELSE w[Any(T)] + g[T \ {Any(T)}]
IsSum(w, S, g) == g = [T \in SUBSET S |-> SumStep(w, g, T)]

(* What is left is smaller.                                                *)
LEMMA TakeOne ==
  ASSUME NEW T, IsFiniteSet(T), T # {}
  PROVE  /\ Any(T) \in T /\ IsFiniteSet(T \ {Any(T)})
         /\ Cardinality(T) \in Nat /\ Cardinality(T) # 0
         /\ Cardinality(T \ {Any(T)}) = Cardinality(T) - 1
<1>1. Any(T) \in T
  BY DEF Any
<1>2. Cardinality(T) \in Nat /\ Cardinality(T) # 0
  BY FS_CardinalityType, FS_EmptySet
<1>3. IsFiniteSet(T \ {Any(T)}) /\ Cardinality(T \ {Any(T)}) = Cardinality(T) - 1
  BY <1>1, FS_RemoveElement
<1>4. QED
  BY <1>1, <1>2, <1>3

(* There is such a function on the subsets of a finite set, built up by    *)
(* their sizes.                                                            *)
LEMMA SumExists ==
  ASSUME NEW D, NEW w \in [D -> Int], NEW S \in SUBSET D, IsFiniteSet(S)
  PROVE  \E g : IsSum(w, S, g)
<1> DEFINE Good(g, n) == /\ g \in [SUBSET S -> Int]
                         /\ \A T \in SUBSET S : Cardinality(T) <= n => g[T] = SumStep(w, g, T)
<1>1. \A T \in SUBSET S : /\ IsFiniteSet(T) /\ Cardinality(T) \in Nat
                          /\ Cardinality(T) <= Cardinality(S)
  BY FS_Subset, FS_CardinalityType
<1>2. \A T \in SUBSET S : T # {} =>
        /\ Any(T) \in D /\ T \ {Any(T)} \in SUBSET S
        /\ Cardinality(T \ {Any(T)}) = Cardinality(T) - 1
  BY <1>1, TakeOne
<1>3. \E g : Good(g, 0)
  <2>1. \A T \in SUBSET S : Cardinality(T) <= 0 => T = {}
    BY <1>1, FS_EmptySet
  <2>2. Good([T \in SUBSET S |-> 0], 0)
    BY <2>1 DEF SumStep
  <2>3. QED
    BY <2>2
<1>4. ASSUME NEW n \in Nat, NEW g, Good(g, n) PROVE \E h : Good(h, n + 1)
  <2> DEFINE h == [T \in SUBSET S |-> IF Cardinality(T) = n + 1 THEN SumStep(w, g, T) ELSE g[T]]
  <2>1. ASSUME NEW T \in SUBSET S PROVE SumStep(w, g, T) \in Int
    <3>1. CASE T = {}
      BY <3>1 DEF SumStep
    <3>2. CASE T # {}
      <4>1. w[Any(T)] \in Int /\ g[T \ {Any(T)}] \in Int
        BY <3>2, <1>2, <1>4
      <4>2. QED
        BY <3>2, <4>1 DEF SumStep
    <3>3. QED
      BY <3>1, <3>2
  <2>2. h \in [SUBSET S -> Int]
    BY <2>1, <1>4
  <2>3. ASSUME NEW T \in SUBSET S, Cardinality(T) <= n + 1 PROVE h[T] = SumStep(w, h, T)
    <3>1. SumStep(w, h, T) = SumStep(w, g, T)
      <4>1. CASE T = {}
        BY <4>1 DEF SumStep
      <4>2. CASE T # {}
        <5>1. T \ {Any(T)} \in SUBSET S /\ Cardinality(T \ {Any(T)}) # n + 1
          BY <4>2, <1>1, <1>2, <2>3
        <5>2. h[T \ {Any(T)}] = g[T \ {Any(T)}]
          BY <5>1
        <5>3. QED
          BY <5>2, <4>2 DEF SumStep
      <4>3. QED
        BY <4>1, <4>2
    <3>2. CASE Cardinality(T) = n + 1
      BY <3>1, <3>2
    <3>3. CASE Cardinality(T) # n + 1
      <4>1. Cardinality(T) <= n
        BY <3>3, <2>3, <1>1
      <4>2. h[T] = g[T] /\ g[T] = SumStep(w, g, T)
        BY <4>1, <3>3, <1>4
      <4>3. QED
        BY <4>2, <3>1
    <3>4. QED
      BY <3>2, <3>3
  <2>4. Good(h, n + 1)
    BY <2>2, <2>3
  <2>5. QED
    BY <2>4
<1> HIDE DEF Good
<1>5. \A n \in Nat : \E g : Good(g, n)
  <2> DEFINE N == {n \in Nat : ~ \E g : Good(g, n)}
  <2>1. SUFFICES ASSUME N # {} PROVE FALSE
    OBVIOUS
  <2>2. PICK n \in N : \A m \in N : n <= m
    BY <2>1, Least
  <2>3. n \in Nat /\ n # 0
    BY <1>3
  <2>4. n - 1 \in Nat /\ ~ (n <= n - 1) /\ (n - 1) + 1 = n
    BY <2>3
  <2>5. PICK g : Good(g, n - 1)
    BY <2>2, <2>4
  <2>6. \E h : Good(h, (n - 1) + 1)
    BY <1>4, <2>4, <2>5
  <2>7. QED
    BY <2>4, <2>6
<1>6. PICK g : Good(g, Cardinality(S))
  BY <1>1, <1>5
<1>7. g \in [SUBSET S -> Int] /\ \A T \in SUBSET S : g[T] = SumStep(w, g, T)
  BY <1>1, <1>6 DEF Good
<1>8. IsSum(w, S, g)
  BY <1>7 DEF IsSum
<1>9. QED
  BY <1>8

(* Induction on the size of a subset, for what is to be shown of the       *)
(* subsets in P.                                                           *)
LEMMA SmallestOutside ==
  ASSUME NEW S, IsFiniteSet(S), NEW P, \E T \in SUBSET S : T \notin P
  PROVE  \E T \in SUBSET S :
           T \notin P /\ \A R \in SUBSET S : Cardinality(R) < Cardinality(T) => R \in P
<1>1. \A T \in SUBSET S : Cardinality(T) \in Nat
  BY FS_Subset, FS_CardinalityType
<1> DEFINE N == {Cardinality(T) : T \in {R \in SUBSET S : R \notin P}}
<1>2. N \in SUBSET Nat /\ N # {}
  BY <1>1
<1>3. PICK n \in N : \A m \in N : n <= m
  BY <1>2, Least
<1>4. PICK T \in SUBSET S : T \notin P /\ n = Cardinality(T)
  BY <1>3
<1>5. ASSUME NEW R \in SUBSET S, Cardinality(R) < Cardinality(T) PROVE R \in P
  <2>1. SUFFICES ASSUME R \notin P PROVE FALSE
    OBVIOUS
  <2>2. Cardinality(R) \in N
    BY <2>1
  <2>3. n <= Cardinality(R)
    BY <2>2, <1>3
  <2>4. QED
    BY <2>3, <1>1, <1>4, <1>5
<1>6. QED
  BY <1>4, <1>5

(* Two such functions agree where their weights do.                        *)
LEMMA SumsAgree ==
  ASSUME NEW w, NEW S, NEW g, IsSum(w, S, g), NEW v, NEW R, NEW h, IsSum(v, R, h),
         NEW Q, Q \subseteq S, Q \subseteq R, IsFiniteSet(Q), \A x \in Q : w[x] = v[x]
  PROVE  g[Q] = h[Q]
<1> DEFINE P == {T \in SUBSET Q : g[T] = h[T]}
<1>1. SUFFICES ASSUME \E T \in SUBSET Q : T \notin P PROVE FALSE
  OBVIOUS
<1>2. PICK T \in SUBSET Q :
        T \notin P /\ \A U \in SUBSET Q : Cardinality(U) < Cardinality(T) => U \in P
  <2> HIDE DEF P
  <2>1. QED
    BY <1>1, SmallestOutside
<1>3. g[T] = SumStep(w, g, T) /\ h[T] = SumStep(v, h, T)
  BY DEF IsSum
<1>4. CASE T = {}
  BY <1>2, <1>3, <1>4 DEF SumStep
<1>5. CASE T # {}
  <2>1. IsFiniteSet(T)
    BY FS_Subset
  <2>2. /\ Any(T) \in T /\ Cardinality(T) \in Nat
        /\ Cardinality(T \ {Any(T)}) = Cardinality(T) - 1
    BY <2>1, <1>5, TakeOne
  <2>3. T \ {Any(T)} \in SUBSET Q /\ Cardinality(T \ {Any(T)}) < Cardinality(T)
    BY <2>2
  <2>4. g[T \ {Any(T)}] = h[T \ {Any(T)}]
    BY <2>3, <1>2
  <2>5. w[Any(T)] = v[Any(T)]
    BY <2>2
  <2>6. g[T] = h[T]
    BY <1>3, <1>5, <2>4, <2>5 DEF SumStep
  <2>7. QED
    BY <2>6, <1>2
<1>6. QED
  BY <1>4, <1>5

(* The sums are numbers.                                                   *)
LEMMA SumsType ==
  ASSUME NEW D, NEW w \in [D -> Int], NEW S \in SUBSET D, IsFiniteSet(S),
         NEW g, IsSum(w, S, g)
  PROVE  \A T \in SUBSET S : g[T] \in Int
<1> DEFINE P == {T \in SUBSET S : g[T] \in Int}
<1>1. SUFFICES ASSUME \E T \in SUBSET S : T \notin P PROVE FALSE
  OBVIOUS
<1>2. PICK T \in SUBSET S :
        T \notin P /\ \A U \in SUBSET S : Cardinality(U) < Cardinality(T) => U \in P
  <2> HIDE DEF P
  <2>1. QED
    BY <1>1, SmallestOutside
<1>3. g[T] = SumStep(w, g, T)
  BY DEF IsSum
<1>4. CASE T = {}
  BY <1>2, <1>3, <1>4 DEF SumStep
<1>5. CASE T # {}
  <2>1. IsFiniteSet(T)
    BY FS_Subset
  <2>2. /\ Any(T) \in T /\ Cardinality(T) \in Nat
        /\ Cardinality(T \ {Any(T)}) = Cardinality(T) - 1
    BY <2>1, <1>5, TakeOne
  <2>3. T \ {Any(T)} \in SUBSET S /\ Cardinality(T \ {Any(T)}) < Cardinality(T)
    BY <2>2
  <2>4. g[T \ {Any(T)}] \in Int
    BY <2>3, <1>2
  <2>5. w[Any(T)] \in Int
    BY <2>2
  <2>6. g[T] \in Int
    BY <1>3, <1>5, <2>4, <2>5 DEF SumStep
  <2>7. QED
    BY <2>6, <1>2
<1>6. QED
  BY <1>4, <1>5

(* It does not matter which member is taken out.                           *)
TakesAny(w, S, g) == \A T \in SUBSET S : \A x \in T : g[T] = w[x] + g[T \ {x}]

(* So it is, by induction on the size: two members may be taken out in     *)
(* either order.                                                           *)
LEMMA SumsTakeAny ==
  ASSUME NEW D, NEW w \in [D -> Int], NEW S \in SUBSET D, IsFiniteSet(S),
         NEW g, IsSum(w, S, g)
  PROVE  TakesAny(w, S, g)
<1> USE DEF TakesAny
<1> DEFINE P == {T \in SUBSET S : \A x \in T : g[T] = w[x] + g[T \ {x}]}
<1>1. SUFFICES ASSUME \E T \in SUBSET S : T \notin P PROVE FALSE
  OBVIOUS
<1>2. PICK T \in SUBSET S :
        T \notin P /\ \A U \in SUBSET S : Cardinality(U) < Cardinality(T) => U \in P
  <2> HIDE DEF P
  <2>1. QED
    BY <1>1, SmallestOutside
<1>3. PICK x \in T : g[T] # w[x] + g[T \ {x}]
  BY <1>2
<1>4. g[T] = SumStep(w, g, T)
  BY DEF IsSum
<1>5. IsFiniteSet(T) /\ T # {}
  BY <1>3, FS_Subset
<1> DEFINE y == Any(T)
           U == T \ {y}
           V == T \ {x}
           W == (T \ {x}) \ {y}
<1>6. /\ y \in T /\ Cardinality(T) \in Nat
      /\ Cardinality(U) = Cardinality(T) - 1
  BY <1>5, TakeOne
<1>7. Cardinality(V) = Cardinality(T) - 1
  BY <1>3, <1>5, FS_RemoveElement
<1>8. g[T] = w[y] + g[U]
  BY <1>4, <1>5 DEF SumStep
<1>9. x # y
  BY <1>3, <1>8
<1>10. U \in P /\ V \in P
  BY <1>2, <1>6, <1>7
<1>11. x \in U /\ y \in V /\ U \ {x} = W /\ V \ {y} = W
  BY <1>3, <1>6, <1>9
<1>12. g[U] = w[x] + g[W] /\ g[V] = w[y] + g[W]
  BY <1>10, <1>11
<1>13. w[x] \in Int /\ w[y] \in Int /\ g[W] \in Int
  BY <1>3, <1>6, SumsType
<1> HIDE DEF y, U, V, W, P
<1>14. g[T] = w[x] + g[V]
  BY <1>8, <1>12, <1>13
<1>15. QED
  BY <1>3, <1>14 DEF V

(* What a sum of the community modules is.                                 *)
LEMMA SumIs ==
  ASSUME NEW D, NEW w \in [D -> Int], NEW S \in SUBSET D, IsFiniteSet(S)
  PROVE  \E g : IsSum(w, S, g) /\ SumFunctionOnSet(w, S) = g[S]
<1> DEFINE f == CHOOSE g : g = [T \in SUBSET S |-> SumStep(w, g, T)]
<1>1. SumFunctionOnSet(w, S) = f[S]
  BY DEF SumFunctionOnSet, FoldFunctionOnSet, MapThenFoldSet, SumStep, Any
<1>2. \E g : g = [T \in SUBSET S |-> SumStep(w, g, T)]
  <2>1. PICK g : IsSum(w, S, g)
    BY SumExists, Zenon
  <2>2. QED
    BY <2>1 DEF IsSum
<1>3. f = [T \in SUBSET S |-> SumStep(w, f, T)]
  BY <1>2
<1> HIDE DEF f
<1>4. QED
  BY <1>1, <1>3 DEF IsSum

(* The empty sum is zero. *)
LEMMA SumEmpty == ASSUME NEW D, NEW w \in [D -> Int] PROVE SumFunctionOnSet(w, {}) = 0
<1>1. PICK g : IsSum(w, {}, g) /\ SumFunctionOnSet(w, {}) = g[{}]
  BY SumIs, FS_EmptySet
<1>2. g[{}] = SumStep(w, g, {})
  BY <1>1 DEF IsSum
<1>3. QED
  BY <1>1, <1>2 DEF SumStep

(* A finite sum of integers is an integer. *)
LEMMA SumType ==
  ASSUME NEW D, NEW w \in [D -> Int], NEW S \in SUBSET D, IsFiniteSet(S)
  PROVE  SumFunctionOnSet(w, S) \in Int
<1>1. PICK g : IsSum(w, S, g) /\ SumFunctionOnSet(w, S) = g[S]
  BY SumIs
<1>2. QED
  BY <1>1, SumsType

(* One more member adds its weight.                                        *)
LEMMA SumAdd ==
  ASSUME NEW D, NEW w \in [D -> Int], NEW S \in SUBSET D, IsFiniteSet(S), NEW x \in D \ S
  PROVE  SumFunctionOnSet(w, S \cup {x}) = SumFunctionOnSet(w, S) + w[x]
<1> DEFINE R == S \cup {x}
<1>1. R \in SUBSET D /\ IsFiniteSet(R) /\ x \in R /\ R \ {x} = S /\ S \subseteq R
  BY FS_AddElement
<1> HIDE DEF R
<1>2. PICK g : IsSum(w, S, g) /\ SumFunctionOnSet(w, S) = g[S]
  BY SumIs
<1>3. PICK h : IsSum(w, R, h) /\ SumFunctionOnSet(w, R) = h[R]
  BY <1>1, SumIs
<1>4. TakesAny(w, R, h)
  BY <1>1, <1>3, SumsTakeAny
<1>5. h[R] = w[x] + h[S]
  BY <1>1, <1>4 DEF TakesAny
<1>6. g[S] = h[S]
  BY <1>1, <1>2, <1>3, SumsAgree
<1>7. w[x] \in Int /\ g[S] \in Int
  BY <1>2, SumsType
<1>8. QED
  BY <1>2, <1>3, <1>5, <1>6, <1>7 DEF R

(* Only the weights of the members count.                                  *)
LEMMA SumSame ==
  ASSUME NEW D, NEW w \in [D -> Int], NEW v \in [D -> Int], NEW S \in SUBSET D,
         IsFiniteSet(S), \A x \in S : w[x] = v[x]
  PROVE  SumFunctionOnSet(w, S) = SumFunctionOnSet(v, S)
<1>1. PICK g : IsSum(w, S, g) /\ SumFunctionOnSet(w, S) = g[S]
  BY SumIs
<1>2. PICK h : IsSum(v, S, h) /\ SumFunctionOnSet(v, S) = h[S]
  BY SumIs
<1>3. g[S] = h[S]
  BY <1>1, <1>2, SumsAgree
<1>4. QED
  BY <1>1, <1>2, <1>3

-----------------------------------------------------------------------------
(* The books *)

(* One more member adds its weight, when the weights of the others stay.   *)
LEMMA SumGrows ==
  ASSUME NEW w \in [Intents -> Int], NEW v \in [Intents -> Int],
         NEW S \in SUBSET Intents, NEW i \in Intents \ S,
         \A j \in S : v[j] = w[j]
  PROVE  SumFunctionOnSet(v, S \cup {i}) = SumFunctionOnSet(w, S) + v[i]
<1>1. IsFiniteSet(S)
  BY PaperAssumption, FS_Subset
<1>2. SumFunctionOnSet(v, S) = SumFunctionOnSet(w, S)
  BY <1>1, SumSame
<1>3. SumFunctionOnSet(v, S \cup {i}) = SumFunctionOnSet(v, S) + v[i]
  BY <1>1, SumAdd
<1> QED
  BY <1>2, <1>3

(* What the sums of a set do when one more member is filled, for any       *)
(* weights.                                                                *)
Grown(v, w, S, i) == SumFunctionOnSet(v, S \cup {i}) = SumFunctionOnSet(w, S) + v[i]
Same(v, w, S) == SumFunctionOnSet(v, S) = SumFunctionOnSet(w, S)

(* The two facts in the form in which they are applied to weights that     *)
(* depend on the state.                                                    *)
LEMMA SumsOfWeights ==
  \A w, v \in [Intents -> Int] : \A S \in SUBSET Intents :
    (\A j \in S : v[j] = w[j]) =>
      Same(v, w, S) /\ \A i \in Intents \ S : Grown(v, w, S, i)
<1> SUFFICES ASSUME NEW w \in [Intents -> Int], NEW v \in [Intents -> Int],
                    NEW S \in SUBSET Intents, \A j \in S : v[j] = w[j]
             PROVE  Same(v, w, S) /\ \A i \in Intents \ S : Grown(v, w, S, i)
  OBVIOUS
<1>1. IsFiniteSet(S)
  BY PaperAssumption, FS_Subset
<1>2. SumFunctionOnSet(v, S) = SumFunctionOnSet(w, S)
  BY <1>1, SumSame
<1>3. ASSUME NEW i \in Intents \ S
      PROVE  SumFunctionOnSet(v, S \cup {i}) = SumFunctionOnSet(w, S) + v[i]
  BY SumGrows
<1> QED
  BY <1>2, <1>3 DEF Same, Grown

Bought == SumFunctionOnSet(Qty, Filled("buy"))
Sold == SumFunctionOnSet(Qty, Filled("sell"))
Spent == SumFunctionOnSet(Paid, Filled("buy"))
Earned == SumFunctionOnSet(Got, Filled("sell"))

(* The amounts of the assumption, without its products. *)
LEMMA Amounts == Prices \cup {0} \subseteq Nat /\ Qty \in [Intents -> Nat] /\ Fee \in Nat
<1>1. Prices \subseteq Nat \ {0} /\ Qty \in [Intents -> Nat \ {0}] /\ Fee \in Nat
  BY PaperAssumption
<1> QED
  BY <1>1

(* The weights of the sums are integers. *)
LEMMA Weights ==
  ASSUME fill \in [Intents -> Prices \cup {0}]
  PROVE  /\ Qty \in [Intents -> Int] /\ Paid \in [Intents -> Int] /\ Got \in [Intents -> Int]
         /\ \A s : Filled(s) \in SUBSET Intents /\ IsFiniteSet(Filled(s))
<1>1. ASSUME NEW i \in Intents
      PROVE  Cost(i, fill[i]) \in Int /\ Proceeds(i, fill[i]) \in Int
  <2>1. fill[i] \in Int /\ Qty[i] \in Int /\ Fee \in Int
    BY Amounts
  <2>2. fill[i] * Qty[i] \in Int
    BY <2>1
  <2> QED
    BY <2>1, <2>2 DEF Cost, Proceeds
<1>2. \A s : Filled(s) \in SUBSET Intents /\ IsFiniteSet(Filled(s))
  BY PaperAssumption, FS_Subset DEF Filled
<1>3. Qty \in [Intents -> Int]
  BY PaperAssumption
<1> QED
  BY <1>1, <1>2, <1>3 DEF Paid, Got

(* The sums are integers. *)
LEMMA SumsAre ==
  ASSUME fill \in [Intents -> Prices \cup {0}]
  PROVE  Bought \in Int /\ Sold \in Int /\ Spent \in Int /\ Earned \in Int
<1>1. Bought \in Int /\ Sold \in Int
  BY Weights, SumType DEF Bought, Sold
<1>2. Spent \in Int /\ Earned \in Int
  BY Weights, SumType DEF Spent, Earned
<1> QED
  BY <1>1, <1>2

(* A fill of an order without one enters the sums of its side, once, and   *)
(* leaves the other side's alone.                                          *)
LEMMA SumsMove ==
  ASSUME fill \in [Intents -> Prices \cup {0}], NEW i \in Intents, NEW x \in Prices,
         fill[i] = 0, fill' = [fill EXCEPT ![i] = x]
  PROVE  /\ Side[i] = "buy" => /\ Bought' = Bought + Qty[i] /\ Spent' = Spent + Cost(i, x)
                               /\ UNCHANGED <<Sold, Earned>>
         /\ Side[i] # "buy" => /\ Sold' = Sold + Qty[i] /\ Earned' = Earned + Proceeds(i, x)
                               /\ UNCHANGED <<Bought, Spent>>
<1>1. x > 0 /\ fill' \in [Intents -> Prices \cup {0}]
  BY PaperAssumption
<1>2. /\ Paid \in [Intents -> Int] /\ Got \in [Intents -> Int] /\ Qty \in [Intents -> Int]
      /\ \A s : Filled(s) \in SUBSET Intents /\ IsFiniteSet(Filled(s))
  BY Weights
<1>3. Paid' \in [Intents -> Int] /\ Got' \in [Intents -> Int]
  <2>1. ASSUME NEW j \in Intents
        PROVE  Cost(j, fill'[j]) \in Int /\ Proceeds(j, fill'[j]) \in Int
    <3>1. fill'[j] \in Int /\ Qty[j] \in Int /\ Fee \in Int
      BY <1>1, Amounts
    <3>2. fill'[j] * Qty[j] \in Int
      BY <3>1
    <3> QED
      BY <3>1, <3>2 DEF Cost, Proceeds
  <2> QED
    BY <2>1 DEF Paid, Got
<1>4. /\ \A j \in Intents \ {i} : Paid'[j] = Paid[j] /\ Got'[j] = Got[j]
      /\ Paid'[i] = Cost(i, x) /\ Got'[i] = Proceeds(i, x)
  BY DEF Paid, Got
<1>5. \A s : i \notin Filled(s)
  BY DEF Filled
<1>6. Filled(Side[i])' = Filled(Side[i]) \cup {i}
  BY <1>1 DEF Filled
<1>7. \A s : s # Side[i] => Filled(s)' = Filled(s)
  BY DEF Filled
<1>8. Side[i] \in {"buy", "sell"}
  BY PaperAssumption
<1>9. ASSUME NEW s, s # Side[i]
      PROVE  /\ SumFunctionOnSet(Paid', Filled(s)') = SumFunctionOnSet(Paid, Filled(s))
             /\ SumFunctionOnSet(Got', Filled(s)') = SumFunctionOnSet(Got, Filled(s))
  <2> DEFINE S == Filled(s)
             P == Paid
             P2 == Paid'
             G == Got
             G2 == Got'
  <2>1. S \in SUBSET Intents /\ IsFiniteSet(S)
    BY <1>2
  <2>2. P \in [Intents -> Int] /\ G \in [Intents -> Int]
    BY <1>2
  <2>3. P2 \in [Intents -> Int] /\ G2 \in [Intents -> Int]
    BY <1>3
  <2>4. \A j \in S : P2[j] = P[j] /\ G2[j] = G[j]
    BY <1>4, <1>5, <2>1
  <2>5. Filled(s)' = S
    BY <1>7, <1>9
  <2> HIDE DEF S, P, P2, G, G2
  <2>6. Same(P2, P, S) /\ Same(G2, G, S)
    BY <2>1, <2>2, <2>3, <2>4, SumsOfWeights
  <2> QED
    BY <2>5, <2>6 DEF S, P, P2, G, G2, Same
<1>10. LET S == Filled(Side[i])
       IN /\ SumFunctionOnSet(Qty, S \cup {i}) = SumFunctionOnSet(Qty, S) + Qty[i]
          /\ SumFunctionOnSet(Paid', S \cup {i}) = SumFunctionOnSet(Paid, S) + Cost(i, x)
          /\ SumFunctionOnSet(Got', S \cup {i}) = SumFunctionOnSet(Got, S) + Proceeds(i, x)
  <2> DEFINE S == Filled(Side[i])
             P == Paid
             P2 == Paid'
             G == Got
             G2 == Got'
  <2>1. S \in SUBSET Intents /\ i \in Intents \ S
    BY <1>2, <1>5
  <2>2. Qty \in [Intents -> Int] /\ P \in [Intents -> Int] /\ G \in [Intents -> Int]
    BY <1>2
  <2>3. P2 \in [Intents -> Int] /\ G2 \in [Intents -> Int]
    BY <1>3
  <2>4. \A j \in S : P2[j] = P[j] /\ G2[j] = G[j]
    BY <1>4, <1>5, <2>1
  <2>5. P2[i] = Cost(i, x) /\ G2[i] = Proceeds(i, x)
    BY <1>4
  <2> HIDE DEF S, P, P2, G, G2
  <2>6. Grown(Qty, Qty, S, i)
    BY <2>1, <2>2, SumsOfWeights
  <2>7. Grown(P2, P, S, i) /\ Grown(G2, G, S, i)
    BY <2>1, <2>2, <2>3, <2>4, SumsOfWeights
  <2> QED
    BY <2>5, <2>6, <2>7 DEF S, P, P2, G, G2, Grown
<1>11. CASE Side[i] = "buy"
  BY <1>6, <1>7, <1>9, <1>10, <1>11 DEF Bought, Sold, Spent, Earned
<1>12. CASE Side[i] = "sell"
  BY <1>6, <1>7, <1>9, <1>10, <1>12 DEF Bought, Sold, Spent, Earned
<1> QED
  BY <1>8, <1>11, <1>12

(* Position and cash are what the rows of paper_fills add up to, and the   *)
(* position at cost is worth no more than was paid for it; cash and PnL    *)
(* from when there is a cash row, and until a first start resets them.     *)
PosAdds == pos = Bought - Sold
CashAdds == cash = StartCash - Spent + Earned
WorthAtMost == cash + avg * pos <= StartCash + realized
WorthExactly == cash + avg * pos = StartCash + realized

Kept == "cash_quote" \in rows /\ ~reset

BooksAddUp == PosAdds /\ (Kept => CashAdds /\ WorthAtMost)

(* No order is filled before its runner has seen to the cash row.          *)
StartInv ==
  /\ \A p \in Procs :
       IF p \in runner
       THEN pc[p] \in {"down", "getCash", "setCash"} \/ "cash_quote" \in rows
       ELSE pc[p] \in {"down"} \cup ReconPcs
  /\ "cash_quote" \notin rows =>
       (\A i \in Intents : fill[i] = 0) /\ pos = 0 /\ avg = 0 /\ realized = 0

(* An average price that was not rounded: the position at cost grows by    *)
(* what the purchase took from the cash.                                   *)
ExactAverage == pos' > pos => avg' * pos' = avg * pos + (cash - cash')

(* A step that fills no order leaves the books alone; one that fills an    *)
(* order makes the entries of its side.                                    *)
Fills(i, x) ==
  /\ order[i] = "new" /\ fill' = [fill EXCEPT ![i] = x]
  /\ Side[i] = "buy" =>
       /\ pos' = pos + Qty[i] /\ cash' = cash - Cost(i, x) /\ realized' = realized
       /\ avg' = (avg * pos + Cost(i, x)) \div (pos + Qty[i])
  /\ Side[i] # "buy" =>
       /\ Qty[i] <= pos /\ pos' = pos - Qty[i] /\ cash' = cash + Proceeds(i, x)
       /\ realized' = realized + Proceeds(i, x) - avg * Qty[i]
       /\ avg' = IF pos > Qty[i] THEN avg ELSE 0

(* Other than a fill and the start of an engine nothing touches the books. *)
LEMMA FillOrNot ==
  ASSUME TypeOK, StartInv, [Next]_vars
  PROVE  \/ UNCHANGED <<fill, bookVars, rows, reset>>
         \/ /\ \E i \in Intents, x \in Prices : Fills(i, x)
            /\ UNCHANGED <<rows, reset>> /\ "cash_quote" \in rows
         \/ \E p \in Procs : SetState(p)
<1>1. ASSUME NEW p \in Procs, NEW i \in Intents, Evaluate(p, i)
      PROVE  \/ UNCHANGED <<fill, bookVars, rows, reset>>
             \/ /\ \E j \in Intents, x \in Prices : Fills(j, x)
                /\ UNCHANGED <<rows, reset>> /\ "cash_quote" \in rows
  <2>1. PICK x \in Prices : ApplyFill(i, x)
    BY <1>1 DEF Evaluate
  <2>2. UNCHANGED <<rows, reset>> /\ "cash_quote" \in rows
    BY <1>1 DEF Evaluate, StartInv
  <2>3. CASE order[i] = "new" /\ Side[i] = "buy" /\ cash >= Cost(i, x)
    <3>1. Fills(i, x)
      BY <2>1, <2>3 DEF ApplyFill, BuyFill, Fills
    <3> QED
      BY <2>2, <3>1
  <2>4. CASE order[i] = "new" /\ Side[i] # "buy" /\ pos >= Qty[i]
    <3>1. Qty[i] \in Nat /\ pos \in Nat
      BY Amounts DEF TypeOK
    <3>2. Fills(i, x)
      BY <2>1, <2>4, <3>1 DEF ApplyFill, SellFill, Fills
    <3> QED
      BY <2>2, <3>2
  <2> QED
    BY <2>1, <2>2, <2>3, <2>4 DEF ApplyFill, BuyFill, SellFill
<1>2. ASSUME NEW p \in Procs, Run(p) \/ Crash(p),
             ~ \E i \in Intents : Evaluate(p, i), ~ SetState(p)
      PROVE  UNCHANGED <<fill, bookVars, rows, reset>>
  BY <1>2 DEF Run, EnsureCash, GetState, Consume, EvaluateOpen, Reconcile, Claim, PickIntent,
              Submit, Insert, InsertRaises, Link, Reject, AnswerIntent, ListNew, EvaluateSkips,
              ListSubmitted, ReadOrder, JournalFills, Settle, Restart, Crash
<1>3. ASSUME NEW i \in Intents, Enqueue(i) \/ Operator(i)
      PROVE  UNCHANGED <<fill, bookVars, rows, reset>>
  BY <1>3 DEF Enqueue, Operator, CancelRead, CancelWrite, Hold, Release
<1>4. CASE UNCHANGED vars
  BY <1>4 DEF vars
<1> QED
  BY <1>1, <1>2, <1>3, <1>4 DEF Next

(* The places of the processes go with the cash row.                       *)
LEMMA PlacesNext ==
  ASSUME TypeOK, StartInv, [Next]_vars, NEW p \in Procs
  PROVE  IF p \in runner'
         THEN pc'[p] \in {"down", "getCash", "setCash"} \/ "cash_quote" \in rows'
         ELSE pc'[p] \in {"down"} \cup ReconPcs
<1> DEFINE Goal == IF p \in runner'
                   THEN pc'[p] \in {"down", "getCash", "setCash"} \/ "cash_quote" \in rows'
                   ELSE pc'[p] \in {"down"} \cup ReconPcs
<1>1. CASE pc'[p] = pc[p] /\ runner' = runner /\ rows \subseteq rows'
  BY <1>1 DEF StartInv
<1>2. ASSUME NEW q \in Procs, EnsureCash(q) PROVE Goal
  <2>1. rows \subseteq rows' /\ runner' = runner
    BY <1>2 DEF EnsureCash, GetState, SetState
  <2>2. CASE q # p
    BY <1>1, <1>2, <2>1, <2>2, Prepares
  <2>3. CASE q = p
    BY <1>2, <2>1, <2>3 DEF EnsureCash, GetState, SetState, StartInv, TypeOK
  <2> QED
    BY <2>2, <2>3
<1>3. ASSUME NEW q \in Procs, Consume(q) \/ EvaluateOpen(q) PROVE Goal
  <2>1. /\ rows' = rows /\ runner' = runner /\ pc[q] \in {"claim"} \cup ConsumePcs \cup EvalPcs
        /\ \A r \in Procs \ {q} : pc'[r] = pc[r]
    BY <1>3 DEF Consume, EvaluateOpen, Claim, PickIntent, Submit, Insert, InsertRaises, Link,
                Reject, AnswerIntent, ListNew, Evaluate, EvaluateSkips, TypeOK
  <2>2. q \in runner /\ "cash_quote" \in rows
    BY <2>1 DEF StartInv
  <2> QED
    BY <1>1, <2>1, <2>2
<1>4. ASSUME NEW q \in Procs, Reconcile(q) PROVE Goal
  <2>1. /\ rows' = rows /\ runner' = runner /\ pc[q] \in ReconPcs
        /\ \A r \in Procs \ {q} : pc'[r] = pc[r]
        /\ pc'[q] \in ReconPcs \cup {FirstPc(q)}
    BY <1>4 DEF Reconcile, ListSubmitted, ReadOrder, JournalFills, Settle, Loop, TypeOK
  <2> QED
    BY <1>1, <2>1 DEF StartInv, FirstPc
<1>5. ASSUME NEW q \in Procs, Crash(q) \/ Restart(q) PROVE Goal
  <2>1. /\ rows' = rows /\ runner' = runner
        /\ \A r \in Procs \ {q} : pc'[r] = pc[r]
        /\ pc'[q] \in {"down", StartPc(q)}
    BY <1>5 DEF Crash, Restart, TypeOK
  <2> QED
    BY <1>1, <2>1 DEF StartInv, StartPc, FirstPc
<1>6. ASSUME NEW i \in Intents, Enqueue(i) \/ Operator(i) PROVE Goal
  BY <1>1, <1>6 DEF Enqueue, Operator, CancelRead, CancelWrite, Hold, Release
<1>7. CASE UNCHANGED vars
  BY <1>1, <1>7 DEF vars
<1> QED
  BY <1>2, <1>3, <1>4, <1>5, <1>6, <1>7 DEF Next, Run

(* So every step keeps what holds before the first start is through.       *)
LEMMA StartNext ==
  ASSUME TypeOK, StartInv, [Next]_vars
  PROVE  StartInv'
<1>1. CASE UNCHANGED <<fill, bookVars, rows, reset>>
  BY <1>1, PlacesNext DEF StartInv
<1>2. CASE "cash_quote" \in rows /\ UNCHANGED <<rows, reset>>
  BY <1>2, PlacesNext DEF StartInv
<1>3. ASSUME NEW p \in Procs, SetState(p)
      PROVE  "cash_quote" \in rows'
  <2>1. CASE pc[p] = "setCash"
    BY <1>3, <2>1 DEF SetState
  <2>2. CASE pc[p] = "setPnl"
    BY <1>3, <2>2 DEF SetState, StartInv
  <2> QED
    BY <1>3, <2>1, <2>2 DEF SetState
<1> QED
  BY <1>1, <1>2, <1>3, FillOrNot, PlacesNext DEF StartInv

(* The sums depend on the fills only. *)
LEMMA SumsStay == ASSUME UNCHANGED fill PROVE UNCHANGED <<Bought, Sold, Spent, Earned>>
  BY DEF Bought, Sold, Spent, Earned, Filled, Paid, Got

(* Position, cash and cost after a fill, in numbers: a quotient times its  *)
(* divisor is at most what was divided.                                    *)
LEMMA Quotient ==
  ASSUME NEW a \in Nat, NEW d \in Nat \ {0}
  PROVE  (a \div d) * d <= a /\ a \div d \in Nat
  OBVIOUS

(* What a sale takes out of the position at cost goes through the realized *)
(* PnL.                                                                    *)
LEMMA SaleKeeps ==
  ASSUME NEW c \in Int, NEW a \in Int, NEW q \in Int, NEW b \in Int, NEW m \in Int
  PROVE  a * (b - q) = a * b - a * q
  OBVIOUS

(* The books after a fill.  The purchase of a position at a rounded        *)
(* average loses the remainder; nothing is ever gained.                    *)
LEMMA BooksFill ==
  ASSUME TypeOK, OrderInv, NEW i \in Intents, NEW x \in Prices, Fills(i, x)
  PROVE  /\ PosAdds => PosAdds'
         /\ CashAdds => CashAdds'
         /\ WorthAtMost => WorthAtMost'
         /\ WorthExactly /\ ExactAverage => WorthExactly'
<1>1. /\ Qty[i] \in Nat \ {0} /\ Cost(i, x) \in Nat /\ Proceeds(i, x) \in Nat
      /\ StartCash \in Int
  BY Money, PaperAssumption
<1>2. /\ cash \in Nat /\ pos \in Nat /\ avg \in Nat /\ realized \in Int
      /\ fill \in [Intents -> Prices \cup {0}]
  BY DEF TypeOK
<1>3. Bought \in Int /\ Sold \in Int /\ Spent \in Int /\ Earned \in Int
  BY <1>2, SumsAre
<1>4. fill[i] = 0 /\ fill' = [fill EXCEPT ![i] = x]
  BY DEF Fills, OrderInv
<1>5. CASE Side[i] = "buy"
  <2>1. /\ Bought' = Bought + Qty[i] /\ Spent' = Spent + Cost(i, x)
        /\ Sold' = Sold /\ Earned' = Earned
    BY <1>2, <1>4, <1>5, SumsMove
  <2>2. pos' = pos + Qty[i] /\ cash' = cash - Cost(i, x) /\ realized' = realized
    BY <1>5 DEF Fills
  <2> DEFINE worth == avg * pos
             worth2 == avg' * pos'
  <2>3. worth \in Nat
    BY <1>2
  <2>4. worth + Cost(i, x) \in Nat /\ pos + Qty[i] \in Nat \ {0}
    BY <1>1, <1>2, <2>3
  <2>5. worth2 <= worth + Cost(i, x) /\ avg' \in Nat
    <3>1. avg' = (worth + Cost(i, x)) \div (pos + Qty[i])
      BY <1>5 DEF Fills
    <3> QED
      BY <2>2, <2>4, <3>1, Quotient
  <2>6. pos' > pos /\ worth2 \in Nat
    BY <1>1, <1>2, <2>2, <2>5
  <2> HIDE DEF worth, worth2
  <2>7. /\ pos = Bought - Sold => pos' = Bought' - Sold'
        /\ cash = StartCash - Spent + Earned => cash' = StartCash - Spent' + Earned'
        /\ cash + worth <= StartCash + realized => cash' + worth2 <= StartCash + realized'
    <3>1. pos = Bought - Sold => pos' = Bought' - Sold'
      BY <1>1, <1>2, <1>3, <2>1, <2>2
    <3>2. cash = StartCash - Spent + Earned => cash' = StartCash - Spent' + Earned'
      BY <1>1, <1>2, <1>3, <2>1, <2>2
    <3>3. cash + worth <= StartCash + realized => cash' + worth2 <= StartCash + realized'
      BY <1>1, <1>2, <2>2, <2>3, <2>5, <2>6
    <3> QED
      BY <3>1, <3>2, <3>3
  <2>8. cash + worth = StartCash + realized /\ worth2 = worth + (cash - cash')
          => cash' + worth2 = StartCash + realized'
    BY <1>1, <1>2, <2>2, <2>3, <2>6
  <2> QED
    BY <2>6, <2>7, <2>8
       DEF ExactAverage, PosAdds, CashAdds, WorthAtMost, WorthExactly, worth, worth2
<1>6. CASE Side[i] # "buy"
  <2>1. /\ Sold' = Sold + Qty[i] /\ Earned' = Earned + Proceeds(i, x)
        /\ Bought' = Bought /\ Spent' = Spent
    BY <1>2, <1>4, <1>6, SumsMove
  <2>2. Qty[i] <= pos /\ pos' = pos - Qty[i] /\ cash' = cash + Proceeds(i, x)
    BY <1>6 DEF Fills
  <2> DEFINE worth == avg * pos
             worth2 == avg' * pos'
             out == avg * Qty[i]
  <2>3. worth \in Nat /\ out \in Nat
    BY <1>1, <1>2
  <2>4. worth2 = worth - out
    <3> avg' = IF pos > Qty[i] THEN avg ELSE 0
      BY <1>6 DEF Fills
    <3>1. CASE pos > Qty[i]
      <4>1. avg * (pos - Qty[i]) = worth - out
        BY <1>1, <1>2, SaleKeeps
      <4> QED
        BY <2>2, <3>1, <4>1
    <3>2. CASE ~ (pos > Qty[i])
      <4>1. pos = Qty[i] /\ pos' = 0
        BY <1>1, <1>2, <2>2, <3>2
      <4>2. worth2 = 0 /\ worth - out = 0
        BY <1>2, <2>2, <2>3, <3>2, <4>1
      <4> QED
        BY <4>2
    <3> QED
      BY <3>1, <3>2
  <2>5. realized' = realized + Proceeds(i, x) - out
    BY <1>6 DEF Fills
  <2> HIDE DEF worth, worth2, out
  <2>6. /\ pos = Bought - Sold => pos' = Bought' - Sold'
        /\ cash = StartCash - Spent + Earned => cash' = StartCash - Spent' + Earned'
        /\ cash + worth <= StartCash + realized => cash' + worth2 <= StartCash + realized'
    <3>1. pos = Bought - Sold => pos' = Bought' - Sold'
      BY <1>1, <1>2, <1>3, <2>1, <2>2
    <3>2. cash = StartCash - Spent + Earned => cash' = StartCash - Spent' + Earned'
      BY <1>1, <1>2, <1>3, <2>1, <2>2
    <3>3. cash + worth <= StartCash + realized => cash' + worth2 <= StartCash + realized'
      BY <1>1, <1>2, <2>2, <2>3, <2>4, <2>5
    <3> QED
      BY <3>1, <3>2, <3>3
  <2>7. cash + worth = StartCash + realized => cash' + worth2 = StartCash + realized'
    BY <1>1, <1>2, <2>2, <2>3, <2>4, <2>5
  <2> QED
    BY <2>6, <2>7 DEF PosAdds, CashAdds, WorthAtMost, WorthExactly, worth, worth2
<1> QED
  BY <1>5, <1>6

(* Without fills nothing is bought or sold. *)
LEMMA NothingFilled ==
  ASSUME fill \in [Intents -> Prices \cup {0}], \A i \in Intents : fill[i] = 0
  PROVE  Bought = 0 /\ Sold = 0 /\ Spent = 0 /\ Earned = 0
<1>1. Filled("buy") = {} /\ Filled("sell") = {}
  BY DEF Filled
<1>2. Qty \in [Intents -> Int] /\ Paid \in [Intents -> Int] /\ Got \in [Intents -> Int]
  BY Weights
<1> QED
  BY <1>1, <1>2, SumEmpty DEF Bought, Sold, Spent, Earned

(* Empty books. *)
LEMMA BooksInit == ASSUME Init PROVE StartInv /\ OrderInv /\ BooksAddUp /\ ~Kept
<1>1. fill \in [Intents -> Prices \cup {0}] /\ \A i \in Intents : fill[i] = 0
  BY DEF Init
<1>2. BooksAddUp /\ ~Kept
  BY <1>1, NothingFilled DEF Init, BooksAddUp, PosAdds, Kept
<1>3. StartInv
  BY <1>1 DEF Init, StartInv, StartPc, FirstPc
<1> QED
  BY <1>2, <1>3 DEF Init, OrderInv

(* The first start opens the books, a later one finds them as it would     *)
(* write them, or resets them.                                             *)
LEMMA BooksStart ==
  ASSUME TypeOK, StartInv, BooksAddUp, NEW p \in Procs, SetState(p)
  PROVE  /\ BooksAddUp'
         /\ (Kept => WorthExactly) => (Kept' => WorthExactly')
<1>1. UNCHANGED <<fill, pos, avg>>
  BY DEF SetState
<1>2. UNCHANGED <<Bought, Sold, Spent, Earned>>
  BY <1>1, SumsStay
<1>3. PosAdds'
  BY <1>1, <1>2 DEF BooksAddUp, PosAdds
<1>4. cash \in Nat /\ realized \in Int /\ StartCash \in Nat /\ pos \in Nat /\ avg \in Nat
      /\ fill \in [Intents -> Prices \cup {0}]
  BY PaperAssumption DEF TypeOK
<1>5. CASE "cash_quote" \in rows
  <2>1. Kept' => Kept /\ cash' = cash /\ realized' = realized
    BY <1>5 DEF SetState, Kept
  <2>2. Kept /\ cash' = cash /\ realized' = realized
          => /\ CashAdds' /\ WorthAtMost'
             /\ WorthExactly => WorthExactly'
    BY <1>1, <1>2 DEF BooksAddUp, CashAdds, WorthAtMost, WorthExactly
  <2> QED
    BY <1>3, <2>1, <2>2 DEF BooksAddUp
<1>6. CASE "cash_quote" \notin rows
  <2>1. pos = 0 /\ avg = 0 /\ realized = 0 /\ \A i \in Intents : fill[i] = 0
    BY <1>6 DEF StartInv
  <2>2. cash' = StartCash /\ realized' = 0
    BY <1>6, <2>1 DEF SetState, StartInv
  <2>3. Bought = 0 /\ Sold = 0 /\ Spent = 0 /\ Earned = 0
    BY <1>4, <2>1, NothingFilled
  <2>4. CashAdds'
    BY <1>2, <1>4, <2>2, <2>3 DEF CashAdds
  <2>5. WorthExactly' /\ WorthAtMost'
    BY <1>1, <1>4, <2>1, <2>2 DEF WorthExactly, WorthAtMost
  <2> QED
    BY <1>3, <2>4, <2>5 DEF BooksAddUp
<1> QED
  BY <1>5, <1>6

(* A step keeps the books in order. *)
LEMMA BooksNext ==
  ASSUME TypeOK, OrderInv, StartInv, BooksAddUp, [Next]_vars
  PROVE  /\ BooksAddUp'
         /\ (Kept => WorthExactly) /\ (ExactAverage \/ UNCHANGED vars)
              => (Kept' => WorthExactly')
<1>1. CASE UNCHANGED <<fill, bookVars, rows, reset>>
  <2>1. UNCHANGED <<Bought, Sold, Spent, Earned>>
    BY <1>1, SumsStay
  <2> QED
    BY <1>1, <2>1 DEF BooksAddUp, Kept, PosAdds, CashAdds, WorthAtMost, WorthExactly
<1>2. ASSUME NEW i \in Intents, NEW x \in Prices, Fills(i, x), UNCHANGED <<rows, reset>>
      PROVE  /\ BooksAddUp'
             /\ (Kept => WorthExactly) /\ (ExactAverage \/ UNCHANGED vars)
                  => (Kept' => WorthExactly')
  <2>1. CASE UNCHANGED vars
    BY <1>1, <2>1 DEF vars
  <2>2. Kept' <=> Kept
    BY <1>2 DEF Kept
  <2> QED
    BY <1>2, <2>1, <2>2, BooksFill DEF BooksAddUp
<1> QED
  BY <1>1, <1>2, FillOrNot, BooksStart

(* Whatever listings, cancels, crashes and second runners overlap, the     *)
(* position and the cash are what the rows of paper_fills add up to, each  *)
(* row counted once; the position at cost and the realized PnL never say   *)
(* more than was paid and earned, and less only by what the division of    *)
(* apply_fill rounds away. Cash and PnL are exempt once a first start has  *)
(* written the starting values over another runner's fill.                 *)
THEOREM BooksAdd == Spec => []BooksAddUp
<1>1. Init => OrderInv /\ StartInv /\ BooksAddUp
  BY BooksInit
<1>2. TypeOK /\ OrderInv /\ StartInv /\ BooksAddUp /\ [Next]_vars
        => OrderInv' /\ StartInv' /\ BooksAddUp'
  BY BookMoves, OrderNext, StartNext, BooksNext
<1> QED
  BY <1>1, <1>2, TypeCorrect, PTL DEF Spec

(* Where no average price is rounded the books match to the last unit.     *)
THEOREM BooksMatch == Spec /\ [][ExactAverage]_vars => []BooksMatchFills
<1> DEFINE Even == Kept => WorthExactly
<1>1. Init => OrderInv /\ StartInv /\ BooksAddUp /\ Even
  BY BooksInit
<1>2. TypeOK /\ OrderInv /\ StartInv /\ BooksAddUp /\ Even /\ [Next]_vars /\ [ExactAverage]_vars
        => OrderInv' /\ StartInv' /\ BooksAddUp' /\ Even'
  BY BookMoves, OrderNext, StartNext, BooksNext
<1>3. BooksAddUp /\ Even => BooksMatchFills
  BY DEF BooksAddUp, BooksMatchFills, Kept, PosAdds, CashAdds, WorthExactly,
         Bought, Sold, Spent, Earned
<1> QED
  BY <1>1, <1>2, <1>3, TypeCorrect, PTL DEF Spec
-----------------------------------------------------------------------------
(* The rows of the paper queue.                                            *)

LC == INSTANCE IntentLifecycle WITH status <- qstatus

(* The paper queue's own WHERE clause allows what the table of             *)
(* intent_lifecycle.py does, and less.                                     *)
LEMMA PaperSqlInTable ==
  ASSUME TypeOK, NEW i \in Intents, NEW t \in Statuses, UpdateStatus(i, t)
  PROVE  LC!Next \/ qstatus' = qstatus
<1>1. CASE ~ PaperSqlAllows(qstatus[i], t)
  BY <1>1 DEF UpdateStatus
<1>2. CASE PaperSqlAllows(qstatus[i], t)
  <2>1. qstatus[i] \in LC!Statuses /\ t \in LC!Statuses /\ LC!TransitionAllowed(qstatus[i], t)
    BY <1>2 DEF PaperSqlAllows, LiveStatuses, LC!Statuses, LC!LiveStatuses, LC!TerminalStatuses,
       Statuses, TerminalStatuses, LC!TransitionAllowed, LC!StatusTransitions
  <2>2. LC!Move(i, t)
    BY <1>2, <2>1 DEF UpdateStatus, LC!Move
  <2> QED
    BY <2>1, <2>2 DEF LC!Next
<1> QED
  BY <1>1, <1>2

(* IntentQueueSQLite has another WHERE clause than the live queue, and its *)
(* writers (runner, intent reconciler, operator) act on stale copies: the  *)
(* rows follow the table of intent_lifecycle.py all the same.  The paper   *)
(* path implements IntentLifecycle.                                        *)
THEOREM PaperImplementsLifecycle == Spec => LC!Spec
<1>1. Init => LC!Init
  BY DEF Init, LC!Init
<1>2. TypeOK /\ [Next]_vars => [LC!Next]_qstatus
  <2> SUFFICES ASSUME TypeOK, [Next]_vars PROVE LC!Next \/ qstatus' = qstatus
    OBVIOUS
  <2> USE DEF queueVars
  <2>1. CASE UNCHANGED vars
    BY <2>1 DEF vars
  <2>2. ASSUME NEW i \in Intents, Enqueue(i)
        PROVE  LC!Next
    BY <2>2 DEF Enqueue, LC!Next, LC!Insert
  <2>3. ASSUME NEW p \in Procs, Claim(p)
        PROVE  LC!Next
    <3> DEFINE S == {i \in Intents : qstatus[i] = "queued"}
    <3>1. LC!ClaimBatch(S)
      BY <2>3 DEF Claim, LC!ClaimBatch
    <3> QED
      BY <3>1 DEF LC!Next
  <2>4. ASSUME NEW p \in Procs, Link(p) \/ Reject(p)
        PROVE  LC!Next \/ qstatus' = qstatus
    <3>1. item[p] \in Intents
      BY <2>4 DEF Link, Reject, TypeOK
    <3>2. UpdateStatus(item[p], "submitted") \/ UpdateStatus(item[p], "rejected")
      BY <2>4 DEF Link, Reject, AnswerIntent
    <3>3. "submitted" \in Statuses /\ "rejected" \in Statuses
      BY DEF Statuses, LiveStatuses, TerminalStatuses
    <3> QED
      BY <3>1, <3>2, <3>3, PaperSqlInTable
  <2>5. ASSUME NEW p \in Procs, Settle(p)
        PROVE  LC!Next \/ qstatus' = qstatus
    <3>1. item[p] \in Intents /\ seen[p] \in OrderStatuses
      BY <2>5 DEF Settle, TypeOK
    <3>2. UpdateStatus(item[p], seen[p])
      BY <2>5 DEF Settle
    <3>3. CASE seen[p] \in Final
      <4>1. seen[p] \in Statuses
        BY <3>3 DEF Final, Statuses, TerminalStatuses
      <4> QED
        BY <3>1, <3>2, <4>1, PaperSqlInTable
    <3>4. CASE seen[p] \notin Final
      <4>1. ~ PaperSqlAllows(qstatus[item[p]], seen[p])
        BY <3>1, <3>4 DEF PaperSqlAllows, OrderStatuses, Final, LiveStatuses
      <4> QED
        BY <3>2, <4>1 DEF UpdateStatus
    <3> QED
      BY <3>3, <3>4
  <2>6. ASSUME NEW i \in Intents, Hold(i) \/ Release(i)
        PROVE  LC!Next \/ qstatus' = qstatus
    <3>1. UpdateStatus(i, "held") \/ UpdateStatus(i, "queued")
      BY <2>6 DEF Hold, Release
    <3>2. "held" \in Statuses /\ "queued" \in Statuses
      BY DEF Statuses, LiveStatuses
    <3> QED
      BY <3>1, <3>2, PaperSqlInTable
  <2>7. ASSUME NEW p \in Procs, NEW i \in Intents, Evaluate(p, i) \/ EvaluateSkips(p, i) \/ ReadOrder(p, i)
        PROVE  qstatus' = qstatus
    BY <2>7 DEF Evaluate, EvaluateSkips, ReadOrder
  <2>8. ASSUME NEW p \in Procs,
               \/ EnsureCash(p) \/ PickIntent(p) \/ Submit(p) \/ Insert(p) \/ InsertRaises(p) \/ ListNew(p)
               \/ ListSubmitted(p) \/ JournalFills(p) \/ Restart(p) \/ Crash(p)
        PROVE  qstatus' = qstatus
    BY <2>8, Prepares DEF PickIntent, Submit, Insert, InsertRaises, ListNew, ListSubmitted, JournalFills, Restart, Crash
  <2>9. ASSUME NEW i \in Intents, CancelRead(i) \/ CancelWrite(i)
        PROVE  qstatus' = qstatus
    BY <2>9 DEF CancelRead, CancelWrite
  <2> QED
    BY <2>1, <2>2, <2>3, <2>4, <2>5, <2>6, <2>7, <2>8, <2>9
       DEF Next, Run, Consume, EvaluateOpen, Reconcile, Operator
<1> QED
  BY <1>1, <1>2, TypeCorrect, PTL DEF Spec, LC!Spec
============================================================================
