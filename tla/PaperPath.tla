----------------------------- MODULE PaperPath -----------------------------
(***************************************************************************)
(* Paper trading: the paper runner claims queued intents, gives them to    *)
(* PaperEngine.submit_order, fills open orders at a simulated price and    *)
(* settles the intents; the intent reconciler settles them as a second     *)
(* process; an operator cancels orders and holds intents. Three SQLite     *)
(* files are written one after the other: the intent queue, the paper      *)
(* books (orders, fills, position, cash) and the trade journal.            *)
(*                                                                         *)
(* An intent has at most one order, because the client id is made from the *)
(* intent id and is UNIQUE in paper_orders; orders are therefore indexed   *)
(* by intent. A submitted row always carries its order id. One symbol; the *)
(* batch limits of the listings are not reached; the order within a batch  *)
(* is free. Money is in whole units and a fill pays the fixed Fee.         *)
(***************************************************************************)
EXTENDS IntentStatus, Integers, FiniteSets, Functions

CONSTANTS
  Intents,
  Side, Qty,      \* of each intent
  Prices,         \* prices at which the engine may fill
  Fee,            \* of one fill
  StartCash,      \* starting_cash_quote
  Procs,          \* operating system processes
  Main,           \* the paper runner; every other one reconciles
  Stolen,         \* whether another one may be a second paper runner
  NoIntent,
  MaxIncidents    \* crashes, store failures, cancels and holds together

ASSUME PaperAssumption ==
  /\ IsFiniteSet(Intents)
  /\ Side \in [Intents -> {"buy", "sell"}]
  /\ Qty \in [Intents -> Nat \ {0}]
  /\ Prices \subseteq Nat \ {0}
  /\ Fee \in Nat
  /\ \A i \in Intents, x \in Prices : Fee <= x * Qty[i]
  /\ StartCash \in Nat
  /\ Main \in Procs
  /\ Stolen \in BOOLEAN
  /\ NoIntent \notin Intents
  /\ MaxIncidents \in Nat

VARIABLES
  qstatus,        \* trade_intents.status
  order,          \* paper_orders.status, "none" without a row
  fill,           \* price of the order's row in paper_fills, 0 without one
  cash, pos, avg, \* cash_quote, and the position's qty and avg_price
  realized,       \* realized_pnl
  journal,        \* intents whose fill is in journal_fills
  rows,           \* of paper_state: "cash_quote" and "realized_pnl"
  runner,         \* processes that run paper_runner
  pc, batch, item, seen,
  canceling,      \* cancel_order calls that have read an open order
  incidents,
  lost,           \* intents a crash left claimed
  raced,          \* orders filled while a cancel_order call was under way
  misled,         \* orders whose insertion was answered by an exception
  reheld,         \* intents held after their order existed
  reset           \* history: a first start wrote over what had been filled

queueVars == <<qstatus>>
orderVars == <<order, fill>>
bookVars  == <<cash, pos, avg, realized>>
startVars == <<rows, runner, reset>>
procVars  == <<pc, batch, item, seen>>
ghostVars == <<lost, raced, misled, reheld>>
vars == <<queueVars, orderVars, bookVars, journal, startVars, procVars, canceling,
          incidents, ghostVars>>

OrderStatuses == {"none", "new", "filled", "canceled", "rejected"}
Final == {"filled", "canceled", "rejected"}

StateRows == {"cash_quote", "realized_pnl"}

StartPcs   == {"getCash", "setCash", "getPnl", "setPnl"}
ConsumePcs == {"pick", "submit", "insert", "link", "reject"}
EvalPcs    == {"listNew", "eval"}
ReconPcs   == {"listSub", "read", "journal", "settle"}

TypeOK ==
  /\ qstatus \in [Intents -> RowStatuses]
  /\ order \in [Intents -> OrderStatuses]
  /\ fill \in [Intents -> Prices \cup {0}]
  /\ cash \in Nat /\ pos \in Nat /\ avg \in Nat /\ realized \in Int
  /\ journal \subseteq Intents
  /\ runner \subseteq Procs /\ Main \in runner
  /\ rows \subseteq StateRows
  /\ pc \in [Procs -> {"down", "claim"} \cup StartPcs \cup ConsumePcs
                                         \cup EvalPcs \cup ReconPcs]
  /\ batch \in [Procs -> SUBSET Intents]
  /\ item \in [Procs -> Intents \cup {NoIntent}]
  /\ \A p \in Procs :
       item[p] = NoIntent <=> pc[p] \in StartPcs \cup {"down", "claim", "pick", "eval",
                                                       "read", "listNew", "listSub"}
  /\ seen \in [Procs -> OrderStatuses]
  /\ canceling \subseteq Intents
  /\ incidents \in 0 .. MaxIncidents
  /\ lost \cup raced \cup misled \cup reheld \subseteq Intents
  /\ reset \in BOOLEAN

(* A round of paper_runner starts with the queue, one of the intent        *)
(* reconciler with the submitted rows.                                     *)
FirstPc(p) == IF p \in runner THEN "claim" ELSE "listSub"

(* A paper runner first makes its engine. No row of paper_state is ever    *)
(* deleted: to find both is no step of its own.                            *)
StartPc(p) == IF p \in runner /\ rows # StateRows THEN "getCash" ELSE FirstPc(p)

(* The end of a for loop over a batch. *)
Loop(rest, body, after) == IF rest = {} THEN after ELSE body

Init ==
  /\ qstatus = [i \in Intents |-> "absent"]
  /\ order = [i \in Intents |-> "none"]
  /\ fill = [i \in Intents |-> 0]
  /\ cash = 0 /\ pos = 0 /\ avg = 0 /\ realized = 0
  /\ rows = {}
  /\ journal = {}
  /\ \/ runner = {Main}
     \/ Stolen /\ runner = Procs
  /\ pc = [p \in Procs |-> StartPc(p)]
  /\ batch = [p \in Procs |-> {}]
  /\ item = [p \in Procs |-> NoIntent]
  /\ seen = [p \in Procs |-> "none"]
  /\ canceling = {}
  /\ incidents = 0
  /\ lost = {} /\ raced = {} /\ misled = {} /\ reheld = {} /\ reset = FALSE

-----------------------------------------------------------------------------
(* _ensure_cash_initialized. get_state finds a row of paper_state or not;  *)
(* the starting value of a missing one is written with INSERT OR REPLACE,  *)
(* whatever is there by then.                                              *)
GetState(p) ==
  /\ \/ /\ pc[p] = "getCash"
        /\ pc' = [pc EXCEPT ![p] = IF "cash_quote" \in rows THEN "getPnl" ELSE "setCash"]
     \/ /\ pc[p] = "getPnl"
        /\ pc' = [pc EXCEPT ![p] = IF "realized_pnl" \in rows THEN "claim" ELSE "setPnl"]
  /\ UNCHANGED <<queueVars, orderVars, bookVars, journal, startVars, batch, item, seen,
                 canceling, incidents, ghostVars>>

SetState(p) ==
  /\ \/ /\ pc[p] = "setCash"
        /\ cash' = StartCash /\ UNCHANGED realized
        /\ rows' = rows \cup {"cash_quote"}
        /\ reset' = (reset \/ ("cash_quote" \in rows /\ cash # StartCash))
        /\ pc' = [pc EXCEPT ![p] = "getPnl"]
     \/ /\ pc[p] = "setPnl"
        /\ realized' = 0 /\ UNCHANGED cash
        /\ rows' = rows \cup {"realized_pnl"}
        /\ reset' = (reset \/ realized # 0)
        /\ pc' = [pc EXCEPT ![p] = "claim"]
  /\ UNCHANGED <<queueVars, orderVars, pos, avg, journal, runner, batch, item, seen,
                 canceling, incidents, ghostVars>>

-----------------------------------------------------------------------------
(* Something the run may have only so many of. *)
Incident == incidents < MaxIncidents /\ incidents' = incidents + 1

(* The WHERE clause of IntentQueueSQLite.update_status, which is not the   *)
(* live queue's.                                                           *)
PaperSqlAllows(s, t) ==
  \/ s \in LiveStatuses /\ s = t
  \/ s = "queued" /\ t \in {"submitting", "submitted", "rejected", "held"}
  \/ s = "submitting" /\ t \in {"submitted", "rejected"}
  \/ s = "submitted" /\ t \in {"filled", "canceled", "rejected", "error", "held"}
  \/ s = "held" /\ t \in {"queued", "rejected"}

(* paper_queue_status: whether a row matched is not reported. *)
UpdateStatus(i, t) ==
  qstatus' = IF PaperSqlAllows(qstatus[i], t) THEN [qstatus EXCEPT ![i] = t]
             ELSE qstatus

(* upsert_intent with a fresh intent_id, by a strategy or a signal. *)
Enqueue(i) ==
  /\ qstatus[i] = "absent"
  /\ qstatus' = [qstatus EXCEPT ![i] = "queued"]
  /\ UNCHANGED <<orderVars, bookVars, journal, startVars, procVars, canceling,
                 incidents, ghostVars>>

-----------------------------------------------------------------------------
(* _consume_queued_intents_once. claim_next_queued takes every queued row  *)
(* in one transaction.                                                     *)
Claim(p) ==
  /\ pc[p] = "claim"
  /\ LET queued == {i \in Intents : qstatus[i] = "queued"}
     IN /\ batch' = [batch EXCEPT ![p] = queued]
        /\ qstatus' = [i \in Intents |->
                         IF i \in queued THEN "submitting" ELSE qstatus[i]]
        /\ pc' = [pc EXCEPT ![p] = Loop(queued, "pick", "listNew")]
  /\ UNCHANGED <<orderVars, bookVars, journal, startVars, item, seen, canceling,
                 incidents, ghostVars>>

(* The next claimed intent: decide_order allows it, or refuses or raises.  *)
PickIntent(p) ==
  /\ pc[p] = "pick"
  /\ \E i \in batch[p] :
       /\ item' = [item EXCEPT ![p] = i]
       /\ batch' = [batch EXCEPT ![p] = @ \ {i}]
  /\ \E next \in {"submit", "reject"} : pc' = [pc EXCEPT ![p] = next]
  /\ UNCHANGED <<queueVars, orderVars, bookVars, journal, startVars, seen, canceling,
                 incidents, ghostVars>>

(* What a fill at price x costs a buyer, and brings a seller. *)
Cost(i, x) == x * Qty[i] + Fee
Proceeds(i, x) == x * Qty[i] - Fee

(* _pre_submit_gate at reference price x: an estimate from the books of    *)
(* the moment. Its other refusals (staleness, read-only, market quality,   *)
(* safety) are free.                                                       *)
GateAllows(i, x) == IF Side[i] = "buy" THEN cash >= Cost(i, x) ELSE pos >= Qty[i]

(* submit_order up to the gate: an order with this client id is answered   *)
(* as it is, before any gate.                                              *)
Submit(p) ==
  /\ pc[p] = "submit"
  /\ \/ /\ order[item[p]] # "none"
        /\ pc' = [pc EXCEPT ![p] = "link"]
     \/ /\ order[item[p]] = "none"
        /\ \/ pc' = [pc EXCEPT ![p] = "reject"]
           \/ /\ \E x \in Prices : GateAllows(item[p], x)
              /\ pc' = [pc EXCEPT ![p] = "insert"]
  /\ UNCHANGED <<queueVars, orderVars, bookVars, journal, startVars, batch, item, seen,
                 canceling, incidents, ghostVars>>

NewOrder(i) == order' = IF order[i] = "none" THEN [order EXCEPT ![i] = "new"] ELSE order

(* insert_order (INSERT OR IGNORE) and the read that returns the row. *)
Insert(p) ==
  /\ pc[p] = "insert"
  /\ NewOrder(item[p])
  /\ pc' = [pc EXCEPT ![p] = "link"]
  /\ UNCHANGED <<queueVars, fill, bookVars, journal, startVars, batch, item, seen,
                 canceling, incidents, ghostVars>>

(* The store raises before the row is written or on the read after it; the *)
(* runner takes either for a refusal.                                      *)
InsertRaises(p) ==
  /\ pc[p] = "insert"
  /\ Incident
  /\ \/ UNCHANGED <<order, misled>>
     \/ NewOrder(item[p]) /\ misled' = misled \cup {item[p]}
  /\ pc' = [pc EXCEPT ![p] = "reject"]
  /\ UNCHANGED <<queueVars, fill, bookVars, journal, startVars, batch, item, seen,
                 canceling, lost, raced, reheld>>

AnswerIntent(p, t) ==
  /\ UpdateStatus(item[p], t)
  /\ item' = [item EXCEPT ![p] = NoIntent]
  /\ pc' = [pc EXCEPT ![p] = Loop(batch[p], "pick", "listNew")]
  /\ UNCHANGED <<orderVars, bookVars, journal, startVars, batch, seen, canceling,
                 incidents, ghostVars>>

Link(p) == pc[p] = "link" /\ AnswerIntent(p, "submitted")

Reject(p) == pc[p] = "reject" /\ AnswerIntent(p, "rejected")

-----------------------------------------------------------------------------
(* evaluate_open_orders: the listing of new orders. *)
ListNew(p) ==
  /\ pc[p] = "listNew"
  /\ batch' = [batch EXCEPT ![p] = {i \in Intents : order[i] = "new"}]
  /\ pc' = [pc EXCEPT ![p] = Loop(batch'[p], "eval", "listSub")]
  /\ UNCHANGED <<queueVars, orderVars, bookVars, journal, startVars, item, seen,
                 canceling, incidents, ghostVars>>

(* A purchase that trusts the gate's estimate. *)
BuyFillUnchecked(i, x) ==
  /\ pos' = pos + Qty[i]
  /\ avg' = (avg * pos + Cost(i, x)) \div (pos + Qty[i])
  /\ cash' = cash - Cost(i, x)
  /\ realized' = realized
  /\ order' = [order EXCEPT ![i] = "filled"]
  /\ fill' = [fill EXCEPT ![i] = x]

BuyFill(i, x) ==
  IF cash >= Cost(i, x)
  THEN /\ pos' = pos + Qty[i]
       /\ avg' = (avg * pos + Cost(i, x)) \div (pos + Qty[i])
       /\ cash' = cash - Cost(i, x)
       /\ realized' = realized
       /\ order' = [order EXCEPT ![i] = "filled"]
       /\ fill' = [fill EXCEPT ![i] = x]
  ELSE order' = [order EXCEPT ![i] = "rejected"] /\ UNCHANGED <<fill, bookVars>>

SellFill(i, x) ==
  IF pos >= Qty[i]
  THEN /\ pos' = pos - Qty[i]
       /\ avg' = IF pos > Qty[i] THEN avg ELSE 0
       /\ cash' = cash + Proceeds(i, x)
       /\ realized' = realized + Proceeds(i, x) - avg * Qty[i]
       /\ order' = [order EXCEPT ![i] = "filled"]
       /\ fill' = [fill EXCEPT ![i] = x]
  ELSE order' = [order EXCEPT ![i] = "rejected"] /\ UNCHANGED <<fill, bookVars>>

(* A fill that looks for a refused order only, and takes a filled one for   *)
(* the new one that was listed.                                            *)
ApplyFillListed(i, x) ==
  \/ /\ order[i] \in {"canceled", "rejected"}
     /\ UNCHANGED <<orderVars, bookVars, raced>>
  \/ /\ order[i] \in {"new", "filled"}
     /\ IF Side[i] = "buy" THEN BuyFill(i, x) ELSE SellFill(i, x)
     /\ raced' = raced \cup ({i} \cap canceling)

(* PaperTradingSQLite.apply_fill, one transaction: the status is read      *)
(* again; a filled order is answered ok, another end is refused.           *)
ApplyFill(i, x) ==
  \/ /\ order[i] \in Final
     /\ UNCHANGED <<orderVars, bookVars, raced>>
  \/ /\ order[i] = "new"
     /\ IF Side[i] = "buy" THEN BuyFill(i, x) ELSE SellFill(i, x)
     /\ raced' = raced \cup ({i} \cap canceling)

(* One listed order meets a price, and for a limit order one that reaches  *)
(* the limit.                                                              *)
Evaluate(p, i) ==
  /\ pc[p] = "eval"
  /\ i \in batch[p]
  /\ batch' = [batch EXCEPT ![p] = @ \ {i}]
  /\ \E x \in Prices : ApplyFill(i, x)
  /\ pc' = [pc EXCEPT ![p] = Loop(batch'[p], "eval", "listSub")]
  /\ UNCHANGED <<queueVars, journal, startVars, item, seen, canceling, incidents,
                 lost, misled, reheld>>

(* No quote, no mid price, or the limit is not reached. *)
EvaluateSkips(p, i) ==
  /\ pc[p] = "eval"
  /\ i \in batch[p]
  /\ batch' = [batch EXCEPT ![p] = @ \ {i}]
  /\ pc' = [pc EXCEPT ![p] = Loop(batch'[p], "eval", "listSub")]
  /\ UNCHANGED <<queueVars, orderVars, bookVars, journal, startVars, item, seen,
                 canceling, incidents, ghostVars>>

-----------------------------------------------------------------------------
(* reconcile_once: the listing of submitted rows. *)
ListSubmitted(p) ==
  /\ pc[p] = "listSub"
  /\ batch' = [batch EXCEPT ![p] = {i \in Intents : qstatus[i] = "submitted"}]
  /\ pc' = [pc EXCEPT ![p] = Loop(batch'[p], "read", FirstPc(p))]
  /\ UNCHANGED <<queueVars, orderVars, bookVars, journal, startVars, item, seen,
                 canceling, incidents, ghostVars>>

(* A pass that settles filled and canceled orders only. *)
ReadOrderEnded(p, i) ==
  /\ pc[p] = "read"
  /\ i \in batch[p]
  /\ batch' = [batch EXCEPT ![p] = @ \ {i}]
  /\ IF order[i] \in {"new", "rejected"}
     THEN /\ pc' = [pc EXCEPT ![p] = Loop(batch'[p], "read", FirstPc(p))]
          /\ UNCHANGED <<item, seen>>
     ELSE /\ item' = [item EXCEPT ![p] = i]
          /\ seen' = [seen EXCEPT ![p] = order[i]]
          /\ pc' = [pc EXCEPT ![p] = IF order[i] = "filled" THEN "journal" ELSE "settle"]
  /\ UNCHANGED <<queueVars, orderVars, bookVars, journal, startVars, canceling,
                 incidents, ghostVars>>

(* get_order_by_order_id: an open order is left for the next pass. *)
ReadOrder(p, i) ==
  /\ pc[p] = "read"
  /\ i \in batch[p]
  /\ batch' = [batch EXCEPT ![p] = @ \ {i}]
  /\ IF order[i] = "new"
     THEN /\ pc' = [pc EXCEPT ![p] = Loop(batch'[p], "read", FirstPc(p))]
          /\ UNCHANGED <<item, seen>>
     ELSE /\ item' = [item EXCEPT ![p] = i]
          /\ seen' = [seen EXCEPT ![p] = order[i]]
          /\ pc' = [pc EXCEPT ![p] = IF order[i] = "filled" THEN "journal" ELSE "settle"]
  /\ UNCHANGED <<queueVars, orderVars, bookVars, journal, startVars, canceling,
                 incidents, ghostVars>>

(* A reconciler that settles the row first and leaves the journal to the   *)
(* next pass.                                                              *)
JournalFillsLater(p) ==
  /\ pc[p] = "journal"
  /\ pc' = [pc EXCEPT ![p] = "settle"]
  /\ UNCHANGED <<queueVars, orderVars, bookVars, journal, startVars, batch, item, seen,
                 canceling, incidents, ghostVars>>

(* list_fills_for_order and TradeJournalSQLite.insert_fill (OR IGNORE). *)
JournalFills(p) ==
  /\ pc[p] = "journal"
  /\ journal' = IF fill[item[p]] > 0 THEN journal \cup {item[p]} ELSE journal
  /\ pc' = [pc EXCEPT ![p] = "settle"]
  /\ UNCHANGED <<queueVars, orderVars, bookVars, startVars, batch, item, seen, canceling,
                 incidents, ghostVars>>

(* The status that was read is written to the row, if it still matches. *)
Settle(p) ==
  /\ pc[p] = "settle"
  /\ UpdateStatus(item[p], seen[p])
  /\ item' = [item EXCEPT ![p] = NoIntent]
  /\ seen' = [seen EXCEPT ![p] = "none"]
  /\ pc' = [pc EXCEPT ![p] = Loop(batch[p], "read", FirstPc(p))]
  /\ UNCHANGED <<orderVars, bookVars, journal, startVars, batch, canceling, incidents,
                 ghostVars>>

-----------------------------------------------------------------------------
(* A cancel of whatever order there is. *)
CancelReadAny(i) ==
  /\ order[i] # "none"
  /\ Incident
  /\ canceling' = canceling \cup {i}
  /\ UNCHANGED <<queueVars, orderVars, bookVars, journal, startVars, procVars, ghostVars>>

(* cancel_order reads the order; one that has ended is answered as it is.  *)
CancelRead(i) ==
  /\ order[i] = "new"
  /\ Incident
  /\ canceling' = canceling \cup {i}
  /\ UNCHANGED <<queueVars, orderVars, bookVars, journal, startVars, procVars, ghostVars>>

(* update_order_status: no condition on what the row says by now. *)
CancelWrite(i) ==
  /\ i \in canceling
  /\ canceling' = canceling \ {i}
  /\ order' = [order EXCEPT ![i] = "canceled"]
  /\ UNCHANGED <<queueVars, fill, bookVars, journal, startVars, procVars, incidents,
                 ghostVars>>

(* hold_intent and release_intent; a row that does not match is left, and  *)
(* the caller is told ok all the same.                                     *)
Hold(i) ==
  /\ qstatus[i] # "absent"
  /\ Incident
  /\ UpdateStatus(i, "held")
  /\ reheld' = IF order[i] # "none" /\ PaperSqlAllows(qstatus[i], "held")
               THEN reheld \cup {i} ELSE reheld
  /\ UNCHANGED <<orderVars, bookVars, journal, startVars, procVars, canceling, lost, raced, misled>>

Release(i) ==
  /\ qstatus[i] = "held"
  /\ UpdateStatus(i, "queued")
  /\ UNCHANGED <<orderVars, bookVars, journal, startVars, procVars, canceling, incidents,
                 ghostVars>>

(* A process dies: killed, or by an exception of a price or a store call,  *)
(* which neither loop catches. Nothing takes up what it had claimed.       *)
Crash(p) ==
  /\ pc[p] # "down"
  /\ Incident
  /\ pc' = [pc EXCEPT ![p] = "down"]
  /\ lost' = IF pc[p] \in ConsumePcs
             THEN lost \cup batch[p] \cup ({item[p]} \ {NoIntent}) ELSE lost
  /\ batch' = [batch EXCEPT ![p] = {}]
  /\ item' = [item EXCEPT ![p] = NoIntent]
  /\ seen' = [seen EXCEPT ![p] = "none"]
  /\ UNCHANGED <<queueVars, orderVars, bookVars, journal, startVars, canceling, raced, misled, reheld>>

Restart(p) ==
  /\ pc[p] = "down"
  /\ pc' = [pc EXCEPT ![p] = StartPc(p)]
  /\ UNCHANGED <<queueVars, orderVars, bookVars, journal, startVars, batch, item, seen,
                 canceling, incidents, ghostVars>>

-----------------------------------------------------------------------------
Consume(p) == \/ Claim(p) \/ PickIntent(p) \/ Submit(p) \/ Insert(p)
              \/ InsertRaises(p) \/ Link(p) \/ Reject(p)

EvaluateOpen(p) == \/ ListNew(p)
                   \/ \E i \in Intents : Evaluate(p, i) \/ EvaluateSkips(p, i)

Reconcile(p) == \/ ListSubmitted(p) \/ JournalFills(p) \/ Settle(p)
                \/ \E i \in Intents : ReadOrder(p, i)

EnsureCash(p) == GetState(p) \/ SetState(p)

Run(p) == EnsureCash(p) \/ Consume(p) \/ EvaluateOpen(p) \/ Reconcile(p) \/ Restart(p)

Operator(i) == CancelRead(i) \/ CancelWrite(i) \/ Hold(i) \/ Release(i)

Next == \/ \E p \in Procs : Run(p) \/ Crash(p)
        \/ \E i \in Intents : Enqueue(i) \/ Operator(i)

Spec == Init /\ [][Next]_vars

(* The loops run on and are started again; a call that is under way ends.  *)
Fairness == /\ \A p \in Procs : WF_vars(Run(p))
            /\ \A i \in Intents : WF_vars(CancelWrite(i))

FairSpec == Spec /\ Fairness

-----------------------------------------------------------------------------
(* The rows of paper_fills of one side, and what they moved. *)
Filled(side) == {i \in Intents : Side[i] = side /\ fill[i] > 0}
Paid == [i \in Intents |-> Cost(i, fill[i])]
Got == [i \in Intents |-> Proceeds(i, fill[i])]

(* The books are what the rows of paper_fills add up to, each row counted  *)
(* once, and what was paid is in the position at cost or in the realized   *)
(* PnL: apply_fill looks at the order again in its own transaction, so     *)
(* that no listing, cancel or second runner makes it count a fill twice.   *)
(* Cash and PnL are exempt once a first start has written the starting     *)
(* values over another runner's fill.                                      *)
BooksMatchFills ==
  /\ pos = SumFunctionOnSet(Qty, Filled("buy")) - SumFunctionOnSet(Qty, Filled("sell"))
  /\ "cash_quote" \in rows /\ ~reset =>
       /\ cash = StartCash - SumFunctionOnSet(Paid, Filled("buy"))
                           + SumFunctionOnSet(Got, Filled("sell"))
       /\ cash + avg * pos = StartCash + realized

(* An intent that ended without being filled has no fill in the books,     *)
(* save three ways: the order was filled while cancel_order was between    *)
(* its read and its write; the insertion of the order was answered by an   *)
(* exception; or the intent was held when its order existed, and refused   *)
(* after its release.                                                      *)
RefusedHasNoFill ==
  \A i \in Intents :
    qstatus[i] \in {"rejected", "canceled"} /\ fill[i] > 0
      => i \in raced \cup misled \cup reheld

(* A filled intent has its fill in the books and in the trade journal, and *)
(* the journal has no fill the books lack: reconcile_once journals before  *)
(* it settles, whoever else reconciles, cancels or dies.                   *)
FilledIsJournaled ==
  /\ \A i \in Intents : qstatus[i] = "filled" => i \in journal
  /\ \A i \in journal : fill[i] > 0

(* A claimed intent is answered, and an order that ended is settled in the *)
(* queue: the intent ends or waits for its open order, unless it is held,  *)
(* or a crash left it claimed, which nothing in the paper path takes up    *)
(* again.                                                                  *)
PaperSettles ==
  \A i \in Intents :
    (qstatus[i] = "submitting" \/ order[i] \in Final)
      ~> \/ qstatus[i] \in TerminalStatuses \cup {"held"}
         \/ qstatus[i] = "submitted" /\ order[i] = "new"
         \/ i \in lost
=============================================================================
