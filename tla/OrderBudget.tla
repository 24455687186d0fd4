---------------------------- MODULE OrderBudget ----------------------------
(***************************************************************************)
(* The daily limits on orders.  The live consumer counts a claim per       *)
(* intent in its queue database, resetting the count on a new UTC day; the *)
(* order boundary compares the attempts recorded in risk_daily with the    *)
(* limit before an order and records the attempt after it.  The consumer   *)
(* runs under InstanceLock and is restarted after crashes; executors pass  *)
(* the boundary only.  Midnight may fall between any two steps.            *)
(***************************************************************************)
EXTENDS InstanceLock

CONSTANTS
  Executors,    \* other processes that place orders
  MaxTrades,    \* CBP_MAX_TRADES_PER_DAY
  MaxClaims,    \* max_trades_per_day of the live risk configuration
  LastDay,      \* bound: UTC days 1 .. LastDay
  MaxLost,      \* bound: attempts that fail to be recorded
  MaxSends      \* bound: orders sent a day

Days == 1 .. LastDay

ASSUME BudgetAssumption ==
  /\ IsFiniteSet(Executors) /\ Executors \cap Procs = {}
  /\ MaxTrades \in Nat \ {0} /\ MaxClaims \in Nat \ {0}
  /\ LastDay \in Nat \ {0}
  /\ MaxLost \in Nat /\ MaxSends \in Nat

VARIABLES
  day,       \* the UTC day
  riskDay,   \* risk:day of live_consumer_state; 0 when there is none
  claimed,   \* risk:trades
  today,     \* the day a consumer took from the clock
  trades,    \* risk_daily.trades of each day
  epc,       \* label of each executor
  claimsOn,  \* history: claims granted on each day
  sentOn,    \* history: orders sent on each day
  lost       \* history: orders of each day whose attempt was not recorded

budgetVars == <<day, riskDay, claimed, today, trades, epc, claimsOn, sentOn,
                lost>>
vars == <<lockVars, pc, budgetVars>>

Working == {"run", "state", "reset", "claim", "boundary", "send", "record"}

TypeOK ==
  /\ lock \in LockFiles /\ found \in [Procs -> Procs \cup {"nobody"}]
  /\ robbed \subseteq Procs
  /\ pc \in [Procs -> Starting \cup Ended \cup Working]
  /\ crashes \in 0 .. MaxCrashes
  /\ day \in Days /\ riskDay \in 0 .. LastDay
  /\ claimed \in 0 .. MaxClaims
  /\ today \in [Procs -> 0 .. LastDay]
  /\ trades \in [Days -> Nat]
  /\ epc \in [Executors -> {"run", "send", "record"}]
  /\ claimsOn \in [Days -> Nat] /\ sentOn \in [Days -> Nat]
  /\ lost \in [Days -> Nat]

Init ==
  /\ LockInit
  /\ day = 1 /\ riskDay = 0 /\ claimed = 0
  /\ today = [p \in Procs |-> 0]
  /\ trades = [d \in Days |-> 0]
  /\ epc = [e \in Executors |-> "run"]
  /\ claimsOn = [d \in Days |-> 0]
  /\ sentOn = [d \in Days |-> 0]
  /\ lost = [d \in Days |-> 0]

Count(f) == [f EXCEPT ![day] = @ + 1]

-----------------------------------------------------------------------------
(* The consumer's claim: _risk_reset_if_needed reads the clock, then the   *)
(* stored day, and resets in a transaction of its own; atomic_risk_claim   *)
(* is one transaction.                                                     *)
ReadClock(p) ==
  /\ pc[p] = "run"
  /\ today' = [today EXCEPT ![p] = day]
  /\ Goto(p, "state")
  /\ UNCHANGED <<lockVars, day, riskDay, claimed, trades, epc, claimsOn, sentOn,
                 lost>>

(* A reset at every start of the claim. *)
ReadRiskDayAnyway(p) ==
  /\ pc[p] = "state"
  /\ Goto(p, "reset")
  /\ UNCHANGED <<lockVars, budgetVars>>

ReadRiskDay(p) ==
  /\ pc[p] = "state"
  /\ Goto(p, IF riskDay # today[p] THEN "reset" ELSE "claim")
  /\ UNCHANGED <<lockVars, budgetVars>>

ResetRiskState(p) ==
  /\ pc[p] = "reset"
  /\ riskDay' = today[p]
  /\ claimed' = 0
  /\ Goto(p, "claim")
  /\ UNCHANGED <<lockVars, day, today, trades, epc, claimsOn, sentOn, lost>>

AtomicRiskClaim(p) ==
  /\ pc[p] = "claim"
  /\ IF claimed >= MaxClaims
     THEN Goto(p, "run") /\ UNCHANGED <<claimed, claimsOn>>
     ELSE /\ claimed' = claimed + 1
          /\ claimsOn' = Count(claimsOn)
          /\ Goto(p, "boundary")
  /\ UNCHANGED <<lockVars, day, riskDay, today, trades, epc, sentOn, lost>>

-----------------------------------------------------------------------------
(* place_order: the snapshot of the day's row against the limit, the       *)
(* order, the record of the attempt on the day of the record.              *)
BelowLimit == trades[day] < MaxTrades

SendCounted ==
  /\ sentOn[day] < MaxSends
  /\ sentOn' = Count(sentOn)

(* record_order_attempt forgotten. *)
RecordNever == UNCHANGED <<trades, lost>>

RecordOrderAttempt ==
  \/ trades' = Count(trades) /\ UNCHANGED lost
  \/ /\ \A d \in Days : lost[d] < MaxLost
     /\ lost' = Count(lost) /\ UNCHANGED trades

Boundary(p) ==
  /\ pc[p] = "boundary"
  /\ Goto(p, IF BelowLimit THEN "send" ELSE "run")
  /\ UNCHANGED <<lockVars, budgetVars>>

Send(p) ==
  /\ pc[p] = "send"
  /\ SendCounted
  /\ Goto(p, "record")
  /\ UNCHANGED <<lockVars, day, riskDay, claimed, today, trades, epc, claimsOn,
                 lost>>

Record(p) ==
  /\ pc[p] = "record"
  /\ RecordOrderAttempt
  /\ Goto(p, "run")
  /\ UNCHANGED <<lockVars, day, riskDay, claimed, today, epc, claimsOn, sentOn>>

ExecutorOrders(e) ==
  /\ \/ /\ epc[e] = "run" /\ BelowLimit
        /\ epc' = [epc EXCEPT ![e] = "send"]
        /\ UNCHANGED <<trades, sentOn, lost>>
     \/ /\ epc[e] = "send" /\ SendCounted
        /\ epc' = [epc EXCEPT ![e] = "record"]
        /\ UNCHANGED <<trades, lost>>
     \/ /\ epc[e] = "record" /\ RecordOrderAttempt
        /\ epc' = [epc EXCEPT ![e] = "run"]
        /\ UNCHANGED sentOn
  /\ UNCHANGED <<lockVars, pc, day, riskDay, claimed, today, claimsOn>>

(* A consumer killed between the order and its record leaves the attempt   *)
(* unrecorded.                                                             *)
KillConsumer(p) ==
  /\ Kill(p)
  /\ lost' = IF pc[p] = "record" THEN Count(lost) ELSE lost
  /\ UNCHANGED <<day, riskDay, claimed, today, trades, epc, claimsOn, sentOn>>

Midnight ==
  /\ day < LastDay
  /\ day' = day + 1
  /\ UNCHANGED <<lockVars, pc, riskDay, claimed, today, trades, epc, claimsOn,
                 sentOn, lost>>

-----------------------------------------------------------------------------
Next ==
  \/ \E p \in Procs :
        \/ LockStep(p) /\ UNCHANGED budgetVars
        \/ KillConsumer(p)
        \/ ReadClock(p) \/ ReadRiskDay(p) \/ ResetRiskState(p)
        \/ AtomicRiskClaim(p) \/ Boundary(p) \/ Send(p) \/ Record(p)
  \/ \E e \in Executors : ExecutorOrders(e)
  \/ Midnight

Spec == Init /\ [][Next]_vars

-----------------------------------------------------------------------------
(* On no UTC day does the consumer, restarts included, get more claims     *)
(* than its limit and the one whose clock reading was overtaken by         *)
(* midnight, as long as nobody was robbed of the lock.                     *)
ClaimCap == robbed = {} => \A d \in Days : claimsOn[d] <= MaxClaims + 1

(* On no UTC day are more orders sent than the limit, one for each other   *)
(* process between check and record, executors and consumers robbed of     *)
(* their lock, and those whose record was lost.                            *)
BoundaryCap ==
  \A d \in Days :
    sentOn[d] <= MaxTrades + Cardinality(Executors) + Cardinality(robbed) + lost[d]
=============================================================================
