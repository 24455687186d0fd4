--------------------------- MODULE FillReconcile ---------------------------
(***************************************************************************)
(* The order lane of the live reconciler (run_forever of                   *)
(* services/execution/live_reconciler.py): rows that are submitted and     *)
(* have an exchange order id are followed at the venue until they are      *)
(* terminal; the trades of their orders are fetched since a cursor, put    *)
(* into live_fills and delivered to the fill sink (FillContract).          *)
(*                                                                         *)
(* One venue and one symbol, hence ONE cursor for all orders               *)
(* (trades_since_ms:{venue}:{symbol}). One reconciler process: its lock is *)
(* a concern of its own. The limits of a pass (60 rows, 200 trades) are    *)
(* not reached. Every database commit and every venue call is a step; the  *)
(* venue moves and the process may die between any two of them. Locals     *)
(* that the code sets anew before it reads them are dropped at the end of  *)
(* their use. Three history variables record what the properties name and  *)
(* no store does: late, missed and overlooked.                             *)
(***************************************************************************)
EXTENDS Integers, FiniteSets, IntentStatus

CONSTANTS
  Orders,        \* orders by age, a later one is larger
  Trades,        \* the trades the venue may report
  OrderOf, Ts,   \* order and timestamp of each trade
  NoTrade,       \* no trade in hand
  Overlap,       \* CBP_RECONCILER_CURSOR_OVERLAP_MS
  Ends,          \* how the venue may end an order
  Unconfirmed,   \* orders whose row is submit_unknown at first
  Others,        \* trades that poller and user stream deliver too
  MaxFaults,     \* bound: failed calls
  MaxCrashes,    \* bound: deaths of the reconciler
  MaxHalts,      \* bound: halts of the system guard
  MaxAges        \* bound: rows that reach CBP_STALE_ORDER_MS

ASSUME ReconcileAssumption ==
  /\ Orders \subseteq Nat /\ IsFiniteSet(Orders)
  /\ OrderOf \in [Trades -> Orders]
  /\ Ts \in [Trades -> Nat \ {0}]
  /\ NoTrade \notin Trades
  /\ Overlap \in Nat \ {0}
  /\ Ends \subseteq {"closed", "canceled", "rejected", "expired"}
  /\ Others \subseteq Trades
  /\ Unconfirmed \subseteq Orders
  /\ MaxFaults \in Nat /\ MaxCrashes \in Nat /\ MaxHalts \in Nat /\ MaxAges \in Nat

VARIABLES
  \* the venue: state of each order, trades executed, trades listed
  vstat, executed, listed,
  \* live_trade_intents: status, and whether updated_ts is old
  status, stale,
  \* live_orders.status, live_fills
  ledger, liveFills,
  \* trades_since_ms:{venue}:{symbol}
  cursor,
  \* the fill sink
  journaled, accounted, swallowed, acked,
  \* state of the system guard
  guard,
  \* locals of run_forever: step, guard_meta, rows left, the row in hand,
  \* its age, _pending_fill_transition
  pc, guardMeta, todo, cur, aged, pending,
  \* trades left and in hand, cursor_blocked, max_ts_accounted, fills accounted
  batch, trade, blocked, maxTs, nAccounted,
  \* history
  late,        \* trades listed after a later one
  missed,      \* trades of closed orders that the last pass did not deliver
  overlooked,  \* rows that were submit_unknown when the halt was completed
  \* bounds
  faults, crashes, halts, ages

venueVars == <<vstat, executed, listed>>
rowVars == <<status, stale>>
tradingVars == <<ledger, liveFills>>
sinkVars == <<journaled, accounted, swallowed, acked>>
passVars == <<guardMeta, todo>>
rowLocals == <<cur, aged, pending>>
batchVars == <<batch, trade, blocked, maxTs, nAccounted>>
historyVars == <<late, missed, overlooked>>
boundVars == <<faults, crashes, halts, ages>>
localVars == <<pc, passVars, rowLocals, batchVars>>
vars == <<venueVars, rowVars, tradingVars, cursor, sinkVars, guard, localVars,
          historyVars, boundVars>>

Sink == INSTANCE FillContract WITH Fills <- Trades

Steps == {"idle", "next", "order", "trades", "trade", "emit", "risk", "decide",
          "except", "ledger_trades", "ledger_next", "ledger_except"}

TradesOf(o) == {t \in Trades : OrderOf[t] = o}

Submitted == {o \in Orders : status[o] = "submitted"}

(* Every variable has its type. *)
TypeOK ==
  /\ vstat \in [Orders -> {"open", "closed", "canceled", "rejected", "expired"}]
  /\ executed \in SUBSET Trades /\ listed \in SUBSET executed
  /\ status \in [Orders -> Statuses] /\ stale \in [Orders -> BOOLEAN]
  /\ ledger \in [Orders -> Statuses] /\ liveFills \in SUBSET listed
  /\ cursor \in Nat
  /\ journaled \in SUBSET Trades /\ accounted \in SUBSET journaled
  /\ swallowed \in SUBSET journaled /\ acked \in SUBSET (accounted \cup swallowed)
  /\ guard \in {"RUNNING", "HALTING", "HALTED"}
  /\ pc \in Steps
  /\ guardMeta \in {"RUNNING", "HALTING", "HALTED"}
  /\ todo \in SUBSET Orders /\ cur \in Orders \cup {0}
  /\ aged \in BOOLEAN /\ pending \in BOOLEAN
  /\ batch \in SUBSET listed /\ trade \in listed \cup {NoTrade}
  /\ blocked \in BOOLEAN /\ maxTs \in Nat /\ nAccounted \in Nat
  /\ late \in SUBSET listed /\ missed \in SUBSET Trades /\ overlooked \in SUBSET Orders
  /\ faults \in Nat /\ crashes \in Nat /\ halts \in Nat /\ ages \in Nat

(* Rows as LiveSubmit leaves them: the order is at the venue. *)
Init ==
  /\ vstat = [o \in Orders |-> "open"] /\ executed = {} /\ listed = {}
  /\ status = [o \in Orders |-> IF o \in Unconfirmed THEN "submit_unknown" ELSE "submitted"]
  /\ ledger = status
  /\ stale = [o \in Orders |-> FALSE]
  /\ liveFills = {}
  /\ cursor = 0
  /\ journaled = {} /\ accounted = {} /\ swallowed = {} /\ acked = {}
  /\ guard \in {"RUNNING", "HALTING"}
  /\ pc = "idle" /\ guardMeta = "RUNNING"
  /\ todo = {} /\ cur = 0 /\ aged = FALSE /\ pending = FALSE
  /\ batch = {} /\ trade = NoTrade /\ blocked = FALSE /\ maxTs = 0 /\ nAccounted = 0
  /\ late = {} /\ missed = {} /\ overlooked = {}
  /\ faults = 0 /\ crashes = 0 /\ halts = 0 /\ ages = 0

-----------------------------------------------------------------------------
(* The venue, the clock and the other processes *)

(* An order trades; time passes from one trade to the next. *)
Execute(t) ==
  /\ vstat[OrderOf[t]] = "open"
  /\ t \notin executed
  /\ \A u \in executed : Ts[u] <= Ts[t]
  /\ executed' = executed \cup {t}
  /\ UNCHANGED <<vstat, listed, rowVars, tradingVars, cursor, sinkVars, guard,
                 localVars, historyVars, boundVars>>

(* fetch_my_trades shows a trade, perhaps only some time after it and      *)
(* after later ones.                                                       *)
List(t) ==
  /\ t \in executed \ listed
  /\ listed' = listed \cup {t}
  /\ late' = IF \E u \in listed : Ts[u] > Ts[t] THEN late \cup {t} ELSE late
  /\ UNCHANGED <<vstat, executed, rowVars, tradingVars, cursor, sinkVars, guard,
                 localVars, missed, overlooked, boundVars>>

(* The venue is done with an order. *)
End(o, s) ==
  /\ vstat[o] = "open"
  /\ s = "closed" => TradesOf(o) # {} /\ TradesOf(o) \subseteq executed
  /\ s = "rejected" => TradesOf(o) \cap executed = {}
  /\ vstat' = [vstat EXCEPT ![o] = s]
  /\ UNCHANGED <<executed, listed, rowVars, tradingVars, cursor, sinkVars, guard,
                 localVars, historyVars, boundVars>>

(* updated_ts is CBP_STALE_ORDER_MS old. *)
Age(o) ==
  /\ status[o] = "submitted"
  /\ ~ stale[o]
  /\ ages < MaxAges
  /\ ages' = ages + 1
  /\ stale' = [stale EXCEPT ![o] = TRUE]
  /\ UNCHANGED <<venueVars, status, tradingVars, cursor, sinkVars, guard, localVars,
                 historyVars, faults, crashes, halts>>

(* The submit_unknown lane of the same pass (LiveSubmit) finds the order.  *)
Confirm(o) ==
  /\ pc = "next"
  /\ status[o] = "submit_unknown"
  /\ status' = [status EXCEPT ![o] = "submitted"]
  /\ ledger' = [ledger EXCEPT ![o] = "submitted"]
  /\ UNCHANGED <<venueVars, stale, liveFills, cursor, sinkVars, guard, localVars,
                 historyVars, boundVars>>

(* Fills poller and user stream deliver fills of their own, to the answer  *)
(* or up to the journal row.                                               *)
OthersDeliver(t) ==
  /\ t \in Others
  /\ t \in executed
  /\ Sink!Journal(t) \/ Sink!Answer(t)
  /\ UNCHANGED <<venueVars, rowVars, tradingVars, cursor, guard, localVars, historyVars,
                 boundVars>>

(* Watchdog or operator stop trading. *)
Halt ==
  /\ guard = "RUNNING"
  /\ halts < MaxHalts
  /\ halts' = halts + 1
  /\ guard' = "HALTING"
  /\ UNCHANGED <<venueVars, rowVars, tradingVars, cursor, sinkVars, localVars,
                 historyVars, faults, crashes, ages>>

-----------------------------------------------------------------------------
(* A pass of the reconciler *)

(* On with the row in hand. *)
Goto(to) == pc' = to /\ UNCHANGED rowLocals

DropBatch ==
  batch' = {} /\ trade' = NoTrade /\ blocked' = FALSE /\ maxTs' = 0 /\ nAccounted' = 0

(* Done with the row in hand. *)
Leave(to) == pc' = to /\ cur' = 0 /\ aged' = FALSE /\ pending' = FALSE /\ DropBatch

(* update_live_queue_status_as_reconciler: the authority check on the copy *)
(* of the row, which says submitted, then update_status. A write renews    *)
(* updated_ts.                                                             *)
CanWrite(o, s) == ReconcilerMay("submitted", s) /\ SqlAllows(status[o], s)

WriteRow(o, s) ==
  /\ status' = [status EXCEPT ![o] = s]
  /\ stale' = [stale EXCEPT ![o] = FALSE]

(* A write of the row, and where the code goes on when it is accepted; a   *)
(* refused one is the end of the row's turn.                               *)
TryWrite(s, then) ==
  IF CanWrite(cur, s)
    THEN WriteRow(cur, s) /\ Goto(then) /\ UNCHANGED batchVars
    ELSE UNCHANGED rowVars /\ Leave("next")

(* A call that raises sends the loop to its except clause. *)
Raises(at) ==
  /\ pc \in at
  /\ faults < MaxFaults
  /\ faults' = faults + 1
  /\ Goto("except")
  /\ DropBatch
  /\ UNCHANGED <<venueVars, rowVars, tradingVars, cursor, sinkVars, guard, passVars,
                 historyVars, crashes, halts, ages>>

(* The guard is read once, then the rows. *)
StartPass ==
  /\ pc = "idle"
  /\ guardMeta' = guard
  /\ todo' = Submitted
  /\ Goto("next")
  /\ UNCHANGED <<venueVars, rowVars, tradingVars, cursor, sinkVars, guard, batchVars,
                 historyVars, boundVars>>

(* list_intents is newest first. *)
NextRow(o) ==
  /\ pc = "next"
  /\ o \in todo
  /\ \A p \in todo : p <= o
  /\ cur' = o
  /\ todo' = todo \ {o}
  /\ aged' = stale[o]
  /\ pending' = FALSE
  /\ pc' = "order"
  /\ UNCHANGED <<venueVars, rowVars, tradingVars, cursor, sinkVars, guard, guardMeta,
                 batchVars, historyVars, boundVars>>

(* A reconciler that takes any trade for the end of the order. *)
OrderClosedEarly ==
  /\ pc = "order"
  /\ TradesOf(cur) \cap executed # {}
  /\ pending' = TRUE
  /\ pc' = "trades"
  /\ UNCHANGED <<venueVars, rowVars, tradingVars, cursor, sinkVars, guard, passVars,
                 cur, aged, batchVars, historyVars, boundVars>>

(* fetch_order: closed. The transition waits for the fills. *)
OrderClosed ==
  /\ pc = "order"
  /\ vstat[cur] = "closed"
  /\ pending' = TRUE
  /\ pc' = "trades"
  /\ UNCHANGED <<venueVars, rowVars, tradingVars, cursor, sinkVars, guard, passVars,
                 cur, aged, batchVars, historyVars, boundVars>>

(* A reconciler that knows open and closed only. *)
OrderDeadIgnored ==
  /\ pc = "order"
  /\ vstat[cur] \in {"canceled", "rejected"}
  /\ Goto("trades")
  /\ UNCHANGED <<venueVars, rowVars, tradingVars, cursor, sinkVars, guard, passVars,
                 batchVars, historyVars, boundVars>>

(* fetch_order: canceled or rejected. The row follows before any trade is  *)
(* fetched; live_orders is not told.                                       *)
OrderDead ==
  /\ pc = "order"
  /\ vstat[cur] \in {"canceled", "rejected"}
  /\ TryWrite(vstat[cur], "trades")
  /\ UNCHANGED <<venueVars, tradingVars, cursor, sinkVars, guard, passVars, historyVars,
                 boundVars>>

(* fetch_order: open. A stale row is given up, and its trades still read.  *)
OrderOpen ==
  /\ pc = "order"
  /\ vstat[cur] = "open"
  /\ IF aged
       THEN TryWrite("error", "ledger_trades")
       ELSE Goto("trades") /\ UNCHANGED <<rowVars, batchVars>>
  /\ UNCHANGED <<venueVars, tradingVars, cursor, sinkVars, guard, passVars, historyVars,
                 boundVars>>

(* fetch_order: any other word, of whatever age. *)
OrderOther ==
  /\ pc = "order"
  /\ vstat[cur] = "expired"
  /\ Goto("trades")
  /\ UNCHANGED <<venueVars, rowVars, tradingVars, cursor, sinkVars, guard, passVars,
                 batchVars, historyVars, boundVars>>

(* Giving up a row: the except clause, and an empty answer of fetch_order  *)
(* (which raises by itself while the row is young).                        *)
GiveUp(then) ==
  /\ IF aged
       THEN TryWrite("error", then)
       ELSE Leave("next") /\ UNCHANGED rowVars
  /\ UNCHANGED <<venueVars, tradingVars, cursor, sinkVars, guard, passVars, historyVars>>

OrderGone ==
  /\ pc = "order"
  /\ faults < MaxFaults
  /\ faults' = faults + 1
  /\ GiveUp("ledger_next")
  /\ UNCHANGED <<crashes, halts, ages>>

Except ==
  /\ pc = "except"
  /\ GiveUp("ledger_except")
  /\ UNCHANGED boundVars

AfterLedger ==
  IF pc = "ledger_trades" THEN Goto("trades") /\ UNCHANGED batchVars ELSE Leave("next")

(* upsert_order before the queue is written. *)
LedgerFirst ==
  /\ pc \in {"ledger_trades", "ledger_next", "ledger_except", "decide"}
  /\ ledger' = [ledger EXCEPT ![cur] = IF pc = "decide" THEN "filled" ELSE status[cur]]
  /\ AfterLedger
  /\ UNCHANGED <<venueVars, rowVars, liveFills, cursor, sinkVars, guard, passVars,
                 historyVars, boundVars>>

(* upsert_order with the status that was written. *)
Ledger ==
  /\ pc \in {"ledger_trades", "ledger_next", "ledger_except"}
  /\ ledger' = [ledger EXCEPT ![cur] = status[cur]]
  /\ AfterLedger
  /\ UNCHANGED <<venueVars, rowVars, liveFills, cursor, sinkVars, guard, passVars,
                 historyVars, boundVars>>

(* since_ms = max(0, cursor - overlap) or None *)
InWindow(t) == cursor <= Overlap \/ Ts[t] >= cursor - Overlap

(* fetch_my_trades, and of these the trades of the row's order. *)
FetchTrades ==
  /\ pc = "trades"
  /\ batch' = {t \in listed \cap TradesOf(cur) : InWindow(t)}
  /\ missed' = IF pending THEN (missed \cup (executed \cap TradesOf(cur))) \ batch' ELSE missed
  /\ Goto("trade")
  /\ UNCHANGED <<venueVars, rowVars, tradingVars, cursor, sinkVars, guard, passVars,
                 trade, blocked, maxTs, nAccounted, late, overlooked, boundVars>>

(* insert_fill, in the order of the venue. *)
InsertFill(t) ==
  /\ pc = "trade"
  /\ t \in batch
  /\ \A u \in batch : Ts[t] <= Ts[u]
  /\ trade' = t
  /\ batch' = batch \ {t}
  /\ liveFills' = liveFills \cup {t}
  /\ Goto("emit")
  /\ UNCHANGED <<venueVars, rowVars, ledger, cursor, sinkVars, guard, passVars, blocked,
                 maxTs, nAccounted, historyVars, boundVars>>

(* on_fill writes the journal row. *)
EmitJournal ==
  /\ pc = "emit"
  /\ Sink!Journal(trade)
  /\ Goto("risk")
  /\ UNCHANGED <<venueVars, rowVars, tradingVars, cursor, guard, passVars, batchVars,
                 historyVars, boundVars>>

Later(a, b) == IF a < b THEN b ELSE a

(* on_fill answers ok. *)
EmitOk ==
  /\ pc = "risk"
  /\ Sink!Answer(trade)
  /\ nAccounted' = nAccounted + 1
  /\ maxTs' = IF blocked THEN maxTs ELSE Later(maxTs, Ts[trade])
  /\ trade' = NoTrade
  /\ Goto("trade")
  /\ UNCHANGED <<venueVars, rowVars, tradingVars, cursor, guard, passVars, batch, blocked,
                 historyVars, boundVars>>

(* risk_daily fails inside on_fill, called here or by one of the others,   *)
(* and the call goes on to its answer.                                     *)
Swallow(t) ==
  /\ t \in Others \/ (t = trade /\ pc = "risk")
  /\ faults < MaxFaults
  /\ faults' = faults + 1
  /\ Sink!Swallow(t)
  /\ UNCHANGED <<venueVars, rowVars, tradingVars, cursor, guard, localVars, historyVars,
                 crashes, halts, ages>>

(* A failed fill that does not hold the cursor. *)
EmitFailsUnblocked ==
  /\ pc \in {"emit", "risk"}
  /\ faults < MaxFaults
  /\ faults' = faults + 1
  /\ trade' = NoTrade
  /\ missed' = IF pending THEN missed \cup {trade} ELSE missed
  /\ Goto("trade")
  /\ UNCHANGED <<venueVars, rowVars, tradingVars, cursor, sinkVars, guard, passVars,
                 batch, blocked, maxTs, nAccounted, late, overlooked, crashes, halts, ages>>

(* on_fill answers not ok, with or without a journal row. *)
EmitFails ==
  /\ pc \in {"emit", "risk"}
  /\ faults < MaxFaults
  /\ faults' = faults + 1
  /\ blocked' = TRUE
  /\ trade' = NoTrade
  /\ missed' = IF pending THEN missed \cup {trade} ELSE missed
  /\ Goto("trade")
  /\ UNCHANGED <<venueVars, rowVars, tradingVars, cursor, sinkVars, guard, passVars,
                 batch, maxTs, nAccounted, late, overlooked, crashes, halts, ages>>

(* The batch is through: on to the decision, if there is one. *)
AfterBatch ==
  IF pending
    THEN /\ Goto("decide")
         /\ maxTs' = 0 /\ blocked' = FALSE
         /\ UNCHANGED <<batch, trade, nAccounted>>
    ELSE Leave("next")

(* A loop that stops at the first fill that fails. *)
SaveCursorAtFailure ==
  /\ pc = "trade"
  /\ batch = {} \/ blocked
  /\ cursor' = IF maxTs # 0 THEN maxTs + 1 ELSE cursor
  /\ IF pending THEN Goto("decide") /\ UNCHANGED batchVars ELSE Leave("next")
  /\ UNCHANGED <<venueVars, rowVars, tradingVars, sinkVars, guard, passVars, historyVars,
                 boundVars>>

(* set_state of the cursor, a commit of its own. *)
SaveCursor ==
  /\ pc = "trade"
  /\ batch = {}
  /\ cursor' = IF maxTs # 0 THEN maxTs + 1 ELSE cursor
  /\ AfterBatch
  /\ UNCHANGED <<venueVars, rowVars, tradingVars, sinkVars, guard, passVars, historyVars,
                 boundVars>>

(* A deferral that leaves the row alone for good: it is marked held. *)
DeferHeld ==
  /\ status' = [status EXCEPT ![cur] = "held"]
  /\ UNCHANGED stale
  /\ Leave("next")

(* No fill yet: the row is written again as submitted. *)
Defer ==
  /\ IF CanWrite(cur, "submitted") THEN WriteRow(cur, "submitted") ELSE UNCHANGED rowVars
  /\ Leave("next")

(* filled as soon as the venue says closed. *)
DecideAtOnce ==
  /\ pc = "decide"
  /\ TryWrite("filled", "ledger_next")
  /\ UNCHANGED <<venueVars, tradingVars, cursor, sinkVars, guard, passVars, historyVars,
                 boundVars>>

(* filled, when a fill of this pass or a journal row of the order          *)
(* (_accounted_fills_for_order) vouches for it.                            *)
Decide ==
  /\ pc = "decide"
  /\ IF nAccounted = 0 /\ journaled \cap TradesOf(cur) = {}
       THEN Defer
       ELSE TryWrite("filled", "ledger_next")
  /\ UNCHANGED <<venueVars, tradingVars, cursor, sinkVars, guard, passVars, historyVars,
                 boundVars>>

(* The journal cannot be read: no fill. *)
LookbackFails ==
  /\ pc = "decide"
  /\ nAccounted = 0
  /\ faults < MaxFaults
  /\ faults' = faults + 1
  /\ Defer
  /\ UNCHANGED <<venueVars, tradingVars, cursor, sinkVars, guard, passVars, historyVars,
                 crashes, halts, ages>>

Unknown == {o \in Orders : status[o] = "submit_unknown"}

(* The halt is complete. *)
Promote(complete) ==
  /\ guard' = IF complete THEN "HALTED" ELSE guard
  /\ overlooked' = IF complete THEN Unknown ELSE overlooked

(* A halt that is complete when every row has had its turn. *)
EndPassUnread ==
  /\ pc = "next"
  /\ todo = {}
  /\ Promote(guardMeta = "HALTING")
  /\ guardMeta' = "RUNNING"
  /\ Goto("idle")
  /\ UNCHANGED <<venueVars, rowVars, tradingVars, cursor, sinkVars, todo, batchVars,
                 late, missed, boundVars>>

(* The end of a pass. When the guard was HALTING at its start and no row   *)
(* is submitted any more, the halt is complete.                            *)
EndPass ==
  /\ pc = "next"
  /\ todo = {}
  /\ Promote(guardMeta = "HALTING" /\ Submitted = {})
  /\ guardMeta' = "RUNNING"
  /\ Goto("idle")
  /\ UNCHANGED <<venueVars, rowVars, tradingVars, cursor, sinkVars, todo, batchVars,
                 late, missed, boundVars>>

(* The process dies: only the databases are left. *)
Crash ==
  /\ pc # "idle"
  /\ crashes < MaxCrashes
  /\ crashes' = crashes + 1
  /\ Leave("idle")
  /\ guardMeta' = "RUNNING" /\ todo' = {}
  /\ UNCHANGED <<venueVars, rowVars, tradingVars, cursor, sinkVars, guard, historyVars,
                 faults, halts, ages>>

-----------------------------------------------------------------------------
Work ==
  \/ StartPass \/ (\E o \in Orders : NextRow(o))
  \/ OrderClosed \/ OrderDead \/ OrderOpen \/ OrderOther
  \/ Except \/ Ledger
  \/ FetchTrades \/ (\E t \in Trades : InsertFill(t)) \/ EmitJournal \/ EmitOk
  \/ SaveCursor \/ Decide \/ EndPass

(* fetch_order, get_state, fetch_my_trades, insert_fill, set_state,        *)
(* update_status or upsert_order raises; in the except clause that is the  *)
(* end of the process.                                                     *)
Fault ==
  \/ Raises({"order", "trades", "trade", "decide", "ledger_trades", "ledger_next"})
  \/ OrderGone \/ (\E t \in Trades : Swallow(t)) \/ EmitFails \/ LookbackFails \/ Crash

Environment ==
  \/ \E t \in Trades : Execute(t) \/ List(t) \/ OthersDeliver(t)
  \/ \E o \in Orders : Age(o) \/ Confirm(o) \/ \E s \in Ends : End(o, s)
  \/ Halt

Next == Work \/ Fault \/ Environment

Spec == Init /\ [][Next]_vars

(* What the venue does for certain. *)
VenueGoesOn ==
  \/ \E t \in Trades : List(t)
  \/ \E o \in Orders, s \in Ends : End(o, s)

(* The supervisor keeps the reconciler running, calls fail only finitely   *)
(* often, the venue lists what it executed and ends what it holds.         *)
FairSpec ==
  /\ Spec
  /\ WF_vars(Work)
  /\ WF_vars(VenueGoesOn)
  /\ SF_vars(\E o \in Orders : Confirm(o))

-----------------------------------------------------------------------------
(* Properties *)

(* Trades of another order have moved, or may move, the shared cursor past *)
(* a trade: they came CBP_RECONCILER_CURSOR_OVERLAP_MS or more after it.   *)
Overtaken(t) ==
  \E u \in listed : OrderOf[u] # OrderOf[t] /\ Ts[u] - Ts[t] >= Overlap

(* "Cursor may only advance through a contiguous prefix of successfully    *)
(* accounted fills": as long as a row is followed, the trades of its order *)
(* that the sink has not answered for stay in the window that is fetched,  *)
(* whatever fails, although other orders move the same cursor; except      *)
(* those that another order has overtaken, and those the venue listed      *)
(* after a later one.                                                      *)
UnaccountedReachable ==
  \A t \in listed \ (accounted \cup swallowed \cup late) :
    OrderOf[t] \in Submitted => Ts[t] >= cursor - Overlap \/ Overtaken(t)

(* "Exchange confirms filled / canceled: reconciler sets": a row that says *)
(* how its order ended says what the venue says.                           *)
VenueDecides ==
  \A o \in Orders :
    /\ status[o] = "filled" => vstat[o] = "closed"
    /\ status[o] \in {"canceled", "rejected"} => vstat[o] = status[o]

(* live_orders is written after the queue accepted the status: it may lag  *)
(* behind a row, and never claims an end the row does not have.            *)
LedgerBehind ==
  \A o \in Orders : ledger[o] \in TerminalStatuses => ledger[o] = status[o]

(* "filled" waits for the fills (filled_deferred:zero_accounted_fills):    *)
(* the journal has one of a filled order, whichever of the two ways, this  *)
(* pass or the lookback, vouched for it.                                   *)
FilledJournaled ==
  \A o \in Orders : status[o] = "filled" => TradesOf(o) \cap journaled # {}

(* A filled order is in the accounts with all its trades, although one of  *)
(* them, or the journal row of a failed delivery, vouches for the order;   *)
(* except trades that the last pass failed to deliver or was not shown,    *)
(* and daily totals that failed unnoticed.                                 *)
FilledAccounted ==
  \A o \in Orders : status[o] = "filled" =>
    TradesOf(o) \subseteq accounted \cup swallowed \cup missed

(* The reconciler "may only move HALTING -> HALTED after cleanup work is   *)
(* complete": once it has, no order is open at the venue; except those it  *)
(* gave up (error), and those whose row was submit_unknown at that time.   *)
HaltedOrdersOver ==
  guard = "HALTED" =>
    \A o \in Orders : vstat[o] = "open" => status[o] = "error" \/ o \in overlooked

(* Orders the reconciler never learns the end of: the venue's word is none *)
(* it knows, or they are filled and all their trades overtaken.            *)
Stuck(o) ==
  \/ vstat[o] = "expired"
  \/ vstat[o] = "closed" /\ \A t \in TradesOf(o) : Overtaken(t)

(* Every row is followed to an end, except of a stuck order. *)
RowsEnd ==
  \A o \in Orders :
    status[o] = "submitted" ~> status[o] \in TerminalStatuses \/ Stuck(o)

(* "Reconciler should promote to HALTED on next cycle": a halt is          *)
(* completed once the venue is done with the orders, unless one is stuck.  *)
HaltCompletes == guard = "HALTING" ~> guard = "HALTED" \/ \E o \in Submitted : Stuck(o)
=============================================================================
