---------------------------- MODULE ExecutorPath ----------------------------
(***************************************************************************)
(* The second path to the venue: submit_pending_live and reconcile_live of *)
(* live_executor, run by live_event_executor.run_tick and by the tools     *)
(* under scripts/dev, over execution.sqlite: the intents table with its    *)
(* compare-and-set of the status, the order_dedupe row of each intent, the *)
(* fills table and the deliveries that are still to be accounted.          *)
(*                                                                         *)
(* An order trades in units of one; a trade <<o, k>> is unit k of order o. *)
(* <<o, 0>> is the fill "order:<id>:closed" that reconcile_live makes up   *)
(* for a closed order none of whose trades it has seen.  Of the fill sink  *)
(* there is what it answered ok for (FillContract has the rest).  A gate   *)
(* that refuses an intent leaves it pending and everything else as it was: *)
(* no step of the model.                                                   *)
(***************************************************************************)
EXTENDS Naturals, FiniteSets

CONSTANTS
  Intents,
  Workers,          \* processes that call reconcile_live
  Submitters,       \* those among them that call submit_pending_live first
  Size,             \* the quantity of every intent
  MaxOrders,        \* bound: orders the venue accepts for one intent
  Budgets           \* the bounds a behaviour may start with, see budget

ASSUME ExecutorAssumption ==
  /\ Intents # {}
  /\ Submitters \subseteq Workers
  /\ Size \in Nat \ {0} /\ MaxOrders \in Nat \ {0}
  /\ Budgets \subseteq [orders : 1 .. MaxOrders, tools : BOOLEAN, age : BOOLEAN,
                       faults : Nat]

VARIABLES
  status,           \* intents.status
  reason,           \* the remote id in intents.reason
  row,              \* order_dedupe.status
  rid,              \* order_dedupe.remote_order_id
  fills,            \* fills: <<id, unit>> for every unit of every row
  done,             \* reconcile_fill_deliveries.completed
  booked,           \* fills the sink has accounted
  state, filled, listed, old,     \* the venue: orders, quantities, trades
                                  \* shown, orders whose trades left the window
  pc, it, seen, todo, then,       \* where a worker is, and its locals
  lost,             \* history: an accepted order whose mark was not written
  budget            \* how many orders the venue accepts for an intent,
                    \* whether workers other than the submitters run,
                    \* whether trades may leave reconcile_lookback_ms, how
                    \* many calls may yet fail or processes end at work

store == <<status, reason, row, rid, fills, done>>
venue == <<state, filled, listed, old>>
locals == <<it, seen, todo, then>>
vars == <<store, booked, venue, pc, locals, lost, budget>>

Orders == Intents \X (1 .. MaxOrders)
NoOrder == <<>>
(* str(None): what the reason holds after an answer without an id. *)
NoneId == <<"None">>
Remote == Orders \cup {NoOrder, NoneId}

Units == 1 .. Size
FillIds == Orders \X (0 .. Size)
OrdersOf(i) == {o \in Orders : o[1] = i /\ state[o] # "none"}
IntentOf(f) == f[1][1]

NoAnswer == [order |-> NoOrder, state |-> "none", filled |-> 0]
Answers == [order : Remote, state : {"none", "open", "closed", "canceled"},
            filled : 0 .. Size]

Terminal == {"filled", "canceled"}

(* EXECUTION_STORE_STATUS_TRANSITIONS, for the statuses the path writes. *)
TransitionsNoPartial(s) ==
  CASE s = "pending" -> {"submitted", "canceled"}
    [] s = "submitted" -> {"filled", "canceled", "partially_filled"}
    [] OTHER -> {}

Transitions(s) ==
  CASE s = "pending" -> {"submitted", "canceled"}
    [] s = "submitted" -> {"filled", "canceled", "partially_filled"}
    [] s = "partially_filled" -> {"filled", "canceled"}
    [] OTHER -> {}

(* ExecutionStore.set_intent_status: status and reason are written in one  *)
(* UPDATE if the row's own status allows it, and else nothing is.          *)
SetStatus(i, s, r) ==
  IF status[i] = s \/ s \in Transitions(status[i])
  THEN /\ status' = [status EXCEPT ![i] = s]
       /\ reason' = [reason EXCEPT ![i] = r]
  ELSE UNCHANGED <<status, reason>>

(* OrderDedupeStore.mark_*: a terminal row keeps its status. *)
Mark(i, s) == row' = [row EXCEPT ![i] = IF @ = "terminal" THEN @ ELSE s]

(* reconcile_fill_coverage *)
Rows(i) == {r \in fills : IntentOf(r[1]) = i}
Quantity(i) == Cardinality(Rows(i))
Recorded(i) == {r[1] : r \in Rows(i)}
Undone(i) == Recorded(i) \ done

Init ==
  /\ status = [i \in Intents |-> "pending"]
  /\ reason = [i \in Intents |-> NoOrder]
  /\ row = [i \in Intents |-> "absent"]
  /\ rid = [i \in Intents |-> NoOrder]
  /\ fills = {} /\ done = {} /\ booked = {}
  /\ state = [o \in Orders |-> "none"]
  /\ filled = [o \in Orders |-> 0]
  /\ listed = {} /\ old = {}
  /\ pc = [w \in Workers |-> "idle"]
  /\ it = [w \in Workers |-> CHOOSE i \in Intents : TRUE]
  /\ seen = [w \in Workers |-> NoAnswer]
  /\ todo = [w \in Workers |-> {}]
  /\ then = [w \in Workers |-> "idle"]
  /\ lost = {}
  /\ budget \in Budgets

-----------------------------------------------------------------------------
Goto(w, label) == pc' = [pc EXCEPT ![w] = label]

(* The worker is done with its intent, and forgets what it knew of it. *)
Leave(w) ==
  /\ Goto(w, "idle")
  /\ it' = [it EXCEPT ![w] = CHOOSE i \in Intents : TRUE]
  /\ seen' = [seen EXCEPT ![w] = NoAnswer]
  /\ todo' = [todo EXCEPT ![w] = {}]
  /\ then' = [then EXCEPT ![w] = "idle"]

(* The worker goes on with the same intent. *)
Stay(w, label) == Goto(w, label) /\ UNCHANGED locals

Fault == budget.faults > 0 /\ budget' = [budget EXCEPT !.faults = @ - 1]
NoFault == UNCHANGED budget

(* A call to the store or the venue fails where every handler gives the    *)
(* intent up until the next pass.                                          *)
GiveUp(w) == Fault /\ Leave(w)

-----------------------------------------------------------------------------
(* submit_pending_live                                                     *)

BeginSubmit(w, i) ==
  /\ pc[w] = "idle" /\ w \in Submitters
  /\ status[i] = "pending"
  /\ Goto(w, "claim")
  /\ it' = [it EXCEPT ![w] = i]
  /\ UNCHANGED <<store, booked, venue, seen, todo, then, lost, budget>>

(* The dedupe row found or made by claim decides: an id is replayed, a row *)
(* that may have an order blocks, and created or error is sent.            *)
ClaimUnknownSends(w) ==
  /\ pc[w] = "claim"
  /\ row' = [row EXCEPT ![it[w]] = IF @ = "absent" THEN "created" ELSE @]
  /\ IF rid[it[w]] # NoOrder /\ row[it[w]] \in {"submitted", "terminal"}
     THEN Stay(w, "status")
     ELSE IF row[it[w]] = "submitted" THEN Leave(w) ELSE Stay(w, "place")
  /\ UNCHANGED <<status, reason, rid, fills, done, booked, venue, lost, budget>>

Claim(w) ==
  /\ pc[w] = "claim"
  /\ row' = [row EXCEPT ![it[w]] = IF @ = "absent" THEN "created" ELSE @]
  /\ IF rid[it[w]] # NoOrder /\ row[it[w]] \in {"submitted", "terminal"}
     THEN Stay(w, "status")
     ELSE IF row[it[w]] \in {"submitted", "unknown"}
     THEN Leave(w)
     ELSE Stay(w, "place")
  /\ UNCHANGED <<status, reason, rid, fills, done, booked, venue, lost, budget>>

(* The venue takes the order. *)
Accept(o) ==
  /\ o[2] <= budget.orders
  /\ state[o] = "none" /\ \A n \in 1 .. o[2] - 1 : state[<<o[1], n>>] # "none"
  /\ state' = [state EXCEPT ![o] = "open"]
  /\ UNCHANGED <<filled, listed, old>>

(* place_order answers: with the id, without one.                          *)
PlaceAccepted(w) ==
  /\ pc[w] = "place"
  /\ \E o \in Orders :
        /\ o[1] = it[w] /\ Accept(o)
        /\ \E id \in {o, NoOrder} :
              seen' = [seen EXCEPT ![w] = [NoAnswer EXCEPT !.order = id]]
  /\ Goto(w, "mark")
  /\ UNCHANGED <<store, booked, it, todo, then, lost, budget>>

(* It times out or the like, and the order may have got through.           *)
PlaceAmbiguous(w) ==
  /\ pc[w] = "place" /\ Fault
  /\ \/ UNCHANGED venue
     \/ \E o \in Orders : o[1] = it[w] /\ Accept(o)
  /\ Stay(w, "unsure")
  /\ UNCHANGED <<store, booked, lost>>

(* An order may be at the venue, and the row will not say so. *)
LoseSight(i) == lost' = IF OrdersOf(i) = {} THEN lost ELSE lost \cup {i}

(* The row is unknown, whatever reconcile_ambiguous_submission finds then; *)
(* should mark_unknown fail, it stays created or error.                    *)
MarkUnknown(w) ==
  /\ pc[w] = "unsure"
  /\ \/ Mark(it[w], "unknown") /\ NoFault /\ UNCHANGED lost
     \/ Fault /\ LoseSight(it[w]) /\ UNCHANGED row
  /\ Leave(w)
  /\ UNCHANGED <<status, reason, rid, fills, done, booked, venue>>

(* It is refused, by the order boundary or by the venue; mark_error may    *)
(* fail as well.                                                           *)
PlaceRefused(w) ==
  /\ pc[w] = "place" /\ Fault
  /\ Mark(it[w], "error") \/ UNCHANGED row
  /\ Leave(w)
  /\ UNCHANGED <<status, reason, rid, fills, done, booked, venue, lost>>

(* str() of an id that may be None. *)
AsText(id) == IF id = NoOrder THEN NoneId ELSE id

(* mark_submitted, within the same try: should it fail after the venue has *)
(* accepted, the row says error, or what it said before.                   *)
MarkSubmitted(w) ==
  /\ pc[w] = "mark"
  /\ LET i == it[w] IN
     \/ /\ Mark(i, "submitted")
        /\ rid' = [rid EXCEPT ![i] = IF @ = NoOrder THEN seen[w].order ELSE @]
        /\ Stay(w, "status") /\ NoFault
        /\ UNCHANGED lost
     \/ /\ Fault
        /\ Mark(i, "error") \/ UNCHANGED row
        /\ LoseSight(i)
        /\ Leave(w)
        /\ UNCHANGED rid
  /\ UNCHANGED <<status, reason, fills, done, booked, venue>>

(* The id of the row goes into the reason, None when there is none.        *)
SetSubmitted(w) ==
  /\ pc[w] = "status"
  /\ \/ /\ NoFault
        /\ SetStatus(it[w], "submitted",
                     AsText(rid[it[w]]))
     \/ Fault /\ UNCHANGED <<status, reason>>
  /\ Leave(w)
  /\ UNCHANGED <<row, rid, fills, done, booked, venue, lost>>

-----------------------------------------------------------------------------
(* reconcile_live                                                          *)

(* The intent as listed: its reason is a copy from here on. *)
BeginReconcile(w, i) ==
  /\ pc[w] = "idle"
  /\ w \in Submitters \/ budget.tools
  /\ status[i] \notin Terminal
  /\ Goto(w, "retry")
  /\ it' = [it EXCEPT ![w] = i]
  /\ seen' = [seen EXCEPT ![w] = [NoAnswer EXCEPT !.order = reason[i]]]
  /\ then' = [then EXCEPT ![w] = "fetch"]
  /\ UNCHANGED <<store, booked, venue, todo, lost, budget>>

(* _retry_canonical_fills: what is recorded and not yet accounted is       *)
(* delivered, and the pass goes on when nothing of it is left; a delivery  *)
(* the sink refuses, before or after it has the fill in its accounts, ends *)
(* the pass.                                                               *)
RetryIgnoresSink(w) ==
  /\ pc[w] = "retry"
  /\ IF Undone(it[w]) = {}
     THEN /\ IF then[w] = "idle" THEN Leave(w) ELSE Stay(w, then[w])
          /\ NoFault
          /\ UNCHANGED booked
     ELSE \E f \in Undone(it[w]) :
             /\ todo' = [todo EXCEPT ![w] = {f}]
             /\ Goto(w, "complete")
             /\ UNCHANGED <<it, seen, then>>
             /\ \/ booked' = booked \cup {f} /\ NoFault
                \/ Fault /\ UNCHANGED booked
  /\ UNCHANGED <<store, venue, lost>>

RetryCanonicalFills(w) ==
  /\ pc[w] = "retry"
  /\ IF Undone(it[w]) = {}
     THEN /\ IF then[w] = "idle" THEN Leave(w) ELSE Stay(w, then[w])
          /\ NoFault
          /\ UNCHANGED booked
     ELSE \E f \in Undone(it[w]) :
             \/ /\ booked' = booked \cup {f}
                /\ todo' = [todo EXCEPT ![w] = {f}]
                /\ Goto(w, "complete") /\ NoFault
                /\ UNCHANGED <<it, seen, then>>
             \/ GiveUp(w) /\ booked' \in {booked, booked \cup {f}}
  /\ UNCHANGED <<store, venue, lost>>

CompleteReconcileFill(w) ==
  /\ pc[w] = "complete"
  /\ \/ /\ done' = done \cup todo[w]
        /\ todo' = [todo EXCEPT ![w] = {}]
        /\ Goto(w, "retry") /\ NoFault
        /\ UNCHANGED <<it, seen, then>>
     \/ GiveUp(w) /\ UNCHANGED done
  /\ UNCHANGED <<status, reason, row, rid, fills, booked, venue, lost>>

(* The remote id of the reason, else of the dedupe row; the trade ids that *)
(* are in the store; then fetch_order, which fails for an id nobody has;   *)
(* an answer without a valid filled quantity ends the pass just the same.  *)
FetchOrder(w) ==
  /\ pc[w] = "fetch"
  /\ LET o == IF seen[w].order = NoOrder THEN rid[it[w]] ELSE seen[w].order
     IN IF o \notin Orders
        THEN Leave(w) /\ NoFault
        ELSE \/ /\ seen' = [seen EXCEPT ![w] =
                      [order |-> o, state |-> state[o], filled |-> filled[o]]]
                /\ todo' = [todo EXCEPT ![w] = Recorded(it[w])]
                /\ Goto(w, "trades") /\ NoFault
                /\ UNCHANGED <<it, then>>
             \/ GiveUp(w)
  /\ UNCHANGED <<store, booked, venue, lost>>

(* The trades the venue lists for the order, by its id or by the client id *)
(* that all orders of an intent share.                                     *)
Listed(i) == {f \in listed : IntentOf(f) = i /\ f[1] \notin old}

(* An open order that has traded in part is noted so; then fetch_my_trades *)
(* (an error reads as no trades).                                          *)
FetchTrades(w) ==
  /\ pc[w] = "trades"
  /\ LET i == it[w]
     IN /\ IF seen[w].state = "open" /\ seen[w].filled \in 1 .. Size - 1
           THEN SetStatus(i, "partially_filled", seen[w].order)
           ELSE UNCHANGED <<status, reason>>
        /\ \/ /\ todo' = [todo EXCEPT ![w] = Listed(i) \ @]
              /\ then' = [then EXCEPT ![w] =
                            IF Listed(i) = {} THEN "untraded" ELSE "traded"]
              /\ NoFault
           \/ /\ todo' = [todo EXCEPT ![w] = {}]
              /\ then' = [then EXCEPT ![w] = "untraded"]
              /\ Fault
  /\ Goto(w, "add")
  /\ UNCHANGED <<row, rid, fills, done, booked, venue, it, seen, lost>>

(* The check on the fill alone. *)
FitsAlone(i, f, q, max) == q <= max

(* The check of add_fill, inside its transaction: with this fill the       *)
(* quantity recorded is not above the one the venue reported.              *)
Fits(i, f, q, max) ==
  Quantity(i) + (IF f \in Recorded(i) THEN 0 ELSE q) <= max

(* add_fill for a trade: a row in fills and one in deliveries, together. *)
AddTrade(w) ==
  /\ pc[w] = "add"
  /\ IF todo[w] = {}
     THEN Stay(w, "close") /\ NoFault /\ UNCHANGED fills
     ELSE \/ \E f \in todo[w] :
                IF Fits(it[w], f, 1, seen[w].filled)
                THEN /\ fills' = fills \cup {<<f, f[2]>>}
                     /\ todo' = [todo EXCEPT ![w] = @ \ {f}]
                     /\ NoFault
                     /\ UNCHANGED <<pc, it, seen, then>>
                ELSE Leave(w) /\ NoFault /\ UNCHANGED fills
          \/ GiveUp(w) /\ UNCHANGED fills
  /\ UNCHANGED <<status, reason, row, rid, done, booked, venue, lost>>

(* What the venue's word asks for: an end needs the accounts ready, a      *)
(* closed order without any fill a made-up one first, for which the answer *)
(* must have a price, and everything else another delivery of what is due. *)
Close(w) ==
  /\ pc[w] = "close"
  /\ LET ended == \/ seen[w].state = "closed" /\ seen[w].filled > 0
                  \/ seen[w].state = "canceled"
         bare == then[w] = "untraded" /\ Quantity(it[w]) = 0
         synth == seen[w].state = "closed" /\ ended /\ bare
     IN \/ /\ Goto(w, IF synth THEN "synth" ELSE "retry")
           /\ then' = [then EXCEPT ![w] = IF ended THEN "settle" ELSE "idle"]
           /\ NoFault
           /\ UNCHANGED <<it, seen, todo>>
        \/ synth /\ GiveUp(w)
  /\ UNCHANGED <<store, booked, venue, lost>>

(* add_fill for the made-up fill.  One that is there already has another   *)
(* time stamp: conflicting delivery.                                       *)
AddSynthetic(w) ==
  /\ pc[w] = "synth"
  /\ LET f == <<seen[w].order, 0>>
         q == seen[w].filled
     IN \/ IF f \notin Recorded(it[w]) /\ Fits(it[w], f, q, q)
           THEN /\ fills' = fills \cup {<<f, u>> : u \in 1 .. q}
                /\ Stay(w, "retry") /\ NoFault
           ELSE Leave(w) /\ NoFault /\ UNCHANGED fills
        \/ GiveUp(w) /\ UNCHANGED fills
  /\ UNCHANGED <<status, reason, row, rid, done, booked, venue, lost>>

(* _reconcile_accounting_ready, after its deliveries. *)
Ready(w) == Undone(it[w]) = {} /\ Quantity(it[w]) = seen[w].filled

Settle(w) ==
  /\ pc[w] = "settle"
  /\ IF Ready(w) THEN Stay(w, "finish") ELSE Leave(w)
  /\ UNCHANGED <<store, booked, venue, lost, budget>>

Finish(w) ==
  /\ pc[w] = "finish"
  /\ \/ /\ SetStatus(it[w],
                     IF seen[w].state = "closed" THEN "filled" ELSE "canceled",
                     seen[w].order)
        /\ Stay(w, "terminal") /\ NoFault
     \/ GiveUp(w) /\ UNCHANGED <<status, reason>>
  /\ UNCHANGED <<row, rid, fills, done, booked, venue, lost>>

(* mark_terminal, whose failure is ignored. *)
MarkTerminal(w) ==
  /\ pc[w] = "terminal"
  /\ \/ row' = [row EXCEPT ![it[w]] = IF @ = "absent" THEN @ ELSE "terminal"]
        /\ NoFault
     \/ Fault /\ UNCHANGED row
  /\ Leave(w)
  /\ UNCHANGED <<status, reason, rid, fills, done, booked, venue, lost>>

-----------------------------------------------------------------------------
(* The process ends anywhere; the store keeps what was committed.          *)
Crash(w) ==
  /\ pc[w] # "idle" /\ Fault
  /\ IF pc[w] \in {"mark", "unsure"} THEN LoseSight(it[w]) ELSE UNCHANGED lost
  /\ Leave(w)
  /\ UNCHANGED <<store, booked, venue>>

(* The venue: a unit trades; the order ends; a trade is listed, however    *)
(* late, and may leave the window of reconcile_lookback_ms.                *)
TradeUnit(o) ==
  /\ state[o] = "open" /\ filled[o] < Size
  /\ filled' = [filled EXCEPT ![o] = @ + 1]
  /\ UNCHANGED <<store, booked, state, listed, old, pc, locals, lost, budget>>

EndOrder(o) ==
  /\ state[o] = "open"
  /\ \E s \in IF filled[o] = Size THEN {"closed"} ELSE {"closed", "canceled"} :
        state' = [state EXCEPT ![o] = s]
  /\ UNCHANGED <<store, booked, filled, listed, old, pc, locals, lost, budget>>

Unlisted(o) == {f \in FillIds : f[1] = o /\ f[2] \in 1 .. filled[o]} \ listed

ListTrades(o) ==
  /\ Unlisted(o) # {}
  /\ listed' = listed \cup Unlisted(o)
  /\ UNCHANGED <<store, booked, state, filled, old, pc, locals, lost, budget>>

AgeTrades(o) ==
  /\ budget.age /\ o \notin old
  /\ state[o] \in {"closed", "canceled"}
  /\ old' = old \cup {o}
  /\ UNCHANGED <<store, booked, state, filled, listed, pc, locals, lost,
                 budget>>

-----------------------------------------------------------------------------
Submit(w) ==
  \/ Claim(w) \/ PlaceAccepted(w) \/ PlaceAmbiguous(w) \/ PlaceRefused(w)
  \/ MarkUnknown(w) \/ MarkSubmitted(w) \/ SetSubmitted(w)

Reconcile(w) ==
  \/ RetryCanonicalFills(w) \/ CompleteReconcileFill(w)
  \/ FetchOrder(w) \/ FetchTrades(w) \/ AddTrade(w) \/ Close(w)
  \/ AddSynthetic(w) \/ Settle(w) \/ Finish(w)
  \/ MarkTerminal(w)

Next ==
  \/ \E w \in Workers :
        \/ \E i \in Intents : BeginSubmit(w, i) \/ BeginReconcile(w, i)
        \/ Submit(w) \/ Reconcile(w) \/ Crash(w)
  \/ \E o \in Orders :
        TradeUnit(o) \/ EndOrder(o) \/ ListTrades(o) \/ AgeTrades(o)

Spec == Init /\ [][Next]_vars

(* The service keeps ticking, submit first and reconcile after it, over    *)
(* all its intents; a tool started by hand need not go on.  The venue      *)
(* lists a trade at last.                                                  *)
FairSpec ==
  /\ Spec
  /\ \A w \in Submitters :
        /\ WF_vars(Submit(w) \/ Reconcile(w))
        /\ \A i \in Intents : /\ SF_vars(BeginSubmit(w, i))
                              /\ SF_vars(BeginReconcile(w, i))
  /\ \A o \in Orders : WF_vars(ListTrades(o))

-----------------------------------------------------------------------------
Labels == {"idle", "claim", "place", "unsure", "mark", "status", "retry",
           "complete", "fetch", "trades", "add", "close", "synth", "settle",
           "finish", "terminal"}

(* Every column and local keeps its type; a delivery is marked completed   *)
(* only for a recorded fill, and the sink gets no other fill.              *)
TypeOK ==
  /\ status \in [Intents -> Terminal \cup {"pending", "submitted",
                                           "partially_filled"}]
  /\ reason \in [Intents -> Remote]
  /\ row \in [Intents -> {"absent", "created", "submitted", "unknown", "error",
                          "terminal"}]
  /\ rid \in [Intents -> Orders \cup {NoOrder}]
  /\ fills \subseteq FillIds \X Units
  /\ done \subseteq {r[1] : r \in fills}
  /\ booked \subseteq {r[1] : r \in fills}
  /\ state \in [Orders -> {"none", "open", "closed", "canceled"}]
  /\ filled \in [Orders -> 0 .. Size]
  /\ \A f \in listed : f[2] \in 1 .. filled[f[1]]
  /\ old \subseteq Orders
  /\ pc \in [Workers -> Labels]
  /\ it \in [Workers -> Intents]
  /\ seen \in [Workers -> Answers]
  /\ todo \in [Workers -> SUBSET FillIds]
  /\ then \in [Workers -> {"idle", "fetch", "traded", "untraded", "settle"}]
  /\ lost \subseteq Intents
  /\ budget.faults \in Nat

(* exchange_client.submit_order: with one submitting process an intent has *)
(* a second order only after the acceptance of the first was not written   *)
(* down: the process died, or mark_submitted or mark_unknown failed, in    *)
(* between.  No timeout, refusal, answer without id or failed status write *)
(* leads there.                                                            *)
SecondOrderNeedsLoss ==
  \A i \in Intents : Cardinality(OrdersOf(i)) > 1 => i \in lost

(* The order of the venue an intent is followed by. *)
Followed(i) == IF reason[i] = NoOrder THEN rid[i] ELSE reason[i]

(* reconcile_live: an intent is filled or canceled only when the order it  *)
(* is followed by has ended that way, the recorded fills add up to what    *)
(* the venue filled, and the sink has answered ok for each of them,        *)
(* whatever two reconcilers, crashes and failing calls do.                 *)
TerminalAccounted ==
  \A i \in Intents : status[i] \in Terminal =>
     LET o == Followed(i)
     IN /\ o \in Orders
        /\ state[o] = IF status[i] = "filled" THEN "closed" ELSE "canceled"
        /\ Quantity(i) = filled[o]
        /\ Recorded(i) \subseteq booked

(* add_fill: real and made-up fills of an intent, written by two           *)
(* reconcilers from stale answers, never add up to more than the order     *)
(* traded.                                                                 *)
RecordedWithinVenue ==
  \A i \in Intents : Recorded(i) # {} =>
     Followed(i) \in Orders /\ Quantity(i) <= filled[Followed(i)]

(* The states that keep an intent from ever ending, each of them one the   *)
(* code has no way out of: an order whose acceptance was not written down, *)
(* after which a second one is sent under the same client id; a timed-out  *)
(* send, which is never looked up again; an accepted order without id; a   *)
(* closed order that traded nothing; a made-up fill whose trades are       *)
(* listed after all; trades that left the window unrecorded.               *)
Stranded(i) ==
  \/ i \in lost
  \/ row[i] = "unknown"
  \/ row[i] = "submitted" /\ rid[i] = NoOrder
  \/ \E o \in OrdersOf(i) :
        \/ state[o] = "closed" /\ filled[o] = 0
        \/ <<o, 0>> \in Recorded(i) /\ Listed(i) # {}
        \/ o \in old /\ Quantity(i) < filled[o]

(* run_tick: an intent whose order has ended at the venue is at last       *)
(* filled or canceled, through crashes and failing calls at any step,      *)
(* unless it is stranded in one of the named ways.                         *)
EndedSettles ==
  \A i \in Intents :
     (\E o \in OrdersOf(i) : state[o] \in {"closed", "canceled"})
        ~> (status[i] \in Terminal \/ Stranded(i))
=============================================================================
