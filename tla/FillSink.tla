------------------------------ MODULE FillSink ------------------------------
(***************************************************************************)
(* Accounting of a fill: CanonicalFillSink.on_fill                         *)
(* (services/journal/fill_sink.py) called at the same time by several      *)
(* deliverers (live reconciler, user stream, fills poller, backfill        *)
(* script) on one execution.sqlite. One call is five transactions, each a  *)
(* step: the symbol-loss cutover, the canonical journal, the position, the *)
(* daily risk total, the per-symbol loss streak. The deliverer may die     *)
(* between any two of them and deliver again. A failure raises             *)
(* risk_sink_failed.flag, which blocks new orders until                    *)
(* scripts/repair_risk_sink_failed.py removes it. A failure of the daily   *)
(* total is the exception: it is logged, and the delivery goes on.         *)
(*                                                                         *)
(* Every deliverer names its fills (both reconcilers pass over a trade     *)
(* without an id, the backfill refuses it, stream and poller make one up), *)
(* so on_fill's way for a fill without an id is never taken. One venue,    *)
(* one symbol, one UTC day. Fees travel with the realized PnL in the same  *)
(* UPDATE and are left out. Money is an integer: prices given to a model   *)
(* are multiples of every quantity a position can reach, so that the       *)
(* average price is exact. Two history variables record what no store      *)
(* does and the properties name: daily totals that failed unnoticed        *)
(* (swallowed) and failures for which no flag was left (unflagged).        *)
(***************************************************************************)
EXTENDS Integers, FiniteSets, FiniteSetsExt

CONSTANTS
  Fills,          \* (venue, fill_id) pairs
  Side,           \* "buy" or "sell" of each fill
  Qty, Price,     \* of each fill
  VenuePnl,       \* realized PnL the venue would report for each fill
  Old, OldPnl,    \* fills an earlier version accounted, without loss events
  Sinks,          \* concurrent deliverers
  PnlSinks,       \* those whose deliveries carry the venue's PnL
  NoFill,         \* no fill in hand
  LossLimit,      \* CBP_SYMBOL_LOSS_LIMIT
  AllowNullPnl,   \* --allow-null-pnl
  MaxDeliveries,  \* bound: calls of on_fill
  MaxCrashes,     \* bound: crashes of deliverers
  MaxRepairs      \* bound: runs of the repair script

ASSUME SinkAssumption ==
  /\ NoFill \notin Fills
  /\ Side \in [Fills -> {"buy", "sell"}]
  /\ Qty \in [Fills -> Nat \ {0}]
  /\ Price \in [Fills -> Nat \ {0}]
  /\ VenuePnl \in [Fills -> Int]
  /\ IsFiniteSet(Fills)
  /\ Old \subseteq Fills
  /\ OldPnl \in Int
  /\ PnlSinks \subseteq Sinks
  /\ LossLimit \in Nat \ {0}
  /\ AllowNullPnl \in BOOLEAN
  /\ MaxDeliveries \in Nat
  /\ MaxCrashes \in Nat
  /\ MaxRepairs \in Nat

VARIABLES
  \* canonical_fills
  jrow,      \* rowid of a fill, 0 when there is no row
  jlast,     \* the last rowid
  jknown,    \* rows whose realized_pnl_usd is not NULL
  \* symbol_loss_cutover, symbol_loss_legacy_fills
  cutover, legacy,
  \* live_positions, live_position_fills
  posQty, posAvg, posDone, posPnl,
  \* risk_daily, risk_daily_fills
  dayPnl, riskDone,
  \* symbol_locks, symbol_loss_fill_events
  lossCount, locked, lossDone, lossPnl,
  \* risk_sink_failed.flag
  flag,
  \* locals of each deliverer: its step, its fill, the PnL it has for it
  pc, fill, known, pnl,
  \* fills on_fill answered ok for, and journaled ones whose last call did not
  acked, nacked,
  \* history
  swallowed,  \* fills whose daily total failed in a call that went on
  unflagged,  \* fills whose last call failed and left no flag
  \* locals of the repair script
  rep, repWork, repFailed,
  \* bounds
  deliveries, crashes, repairs

journalVars == <<jrow, jlast, jknown>>
cutoverVars == <<cutover, legacy>>
positionVars == <<posQty, posAvg, posDone, posPnl>>
riskVars == <<dayPnl, riskDone>>
lossVars == <<lossCount, locked, lossDone, lossPnl>>
localVars == <<fill, known, pnl>>
answerVars == <<acked, nacked, swallowed, unflagged>>
repairVars == <<rep, repWork, repFailed, repairs>>
vars == <<journalVars, cutoverVars, positionVars, riskVars, lossVars, flag, pc,
          localVars, answerVars, repairVars, deliveries, crashes>>

Steps == {"idle", "cutover", "journal", "position", "risk", "loss", "failed"}

(* Every variable has its type. *)
TypeOK ==
  /\ jrow \in [Fills -> Nat] /\ jlast \in Nat /\ jknown \in SUBSET Fills
  /\ cutover \in BOOLEAN /\ legacy \in SUBSET Fills
  /\ posQty \in Nat /\ posAvg \in Nat
  /\ posDone \in SUBSET Fills /\ posPnl \in [Fills -> Int]
  /\ dayPnl \in Int /\ riskDone \in SUBSET Fills
  /\ lossCount \in Nat /\ locked \in BOOLEAN
  /\ lossDone \in SUBSET Fills /\ lossPnl \in [Fills -> Int]
  /\ flag \in BOOLEAN
  /\ pc \in [Sinks -> Steps]
  /\ fill \in [Sinks -> Fills \cup {NoFill}]
  /\ known \in [Sinks -> BOOLEAN] /\ pnl \in [Sinks -> Int]
  /\ acked \in SUBSET Fills /\ nacked \in SUBSET Fills
  /\ swallowed \in SUBSET Fills /\ unflagged \in SUBSET Fills
  /\ rep \in {"off", "replay", "clear"}
  /\ repWork \in SUBSET Fills /\ repFailed \in BOOLEAN
  /\ deliveries \in Nat /\ crashes \in Nat /\ repairs \in Nat

(* The journal of the earlier version, in any order; it accounted its      *)
(* fills in risk_daily and kept no loss events.                            *)
Init ==
  /\ jlast = Cardinality(Old)
  /\ \E order \in [Old -> 1..jlast] :
       /\ \A f, g \in Old : order[f] = order[g] => f = g
       /\ jrow = [f \in Fills |-> IF f \in Old THEN order[f] ELSE 0]
  /\ jknown = Old
  /\ cutover = FALSE /\ legacy = {}
  /\ posQty = 0 /\ posAvg = 0 /\ posDone = {} /\ posPnl = [f \in Fills |-> 0]
  /\ riskDone = Old /\ dayPnl = OldPnl
  /\ lossCount = 0 /\ locked = FALSE
  /\ lossDone = {} /\ lossPnl = [f \in Fills |-> 0]
  /\ flag = FALSE
  /\ pc = [s \in Sinks |-> "idle"]
  /\ fill = [s \in Sinks |-> NoFill]
  /\ known = [s \in Sinks |-> FALSE] /\ pnl = [s \in Sinks |-> 0]
  /\ acked = {} /\ nacked = {} /\ swallowed = {} /\ unflagged = {}
  /\ rep = "off" /\ repWork = {} /\ repFailed = FALSE
  /\ deliveries = 0 /\ crashes = 0 /\ repairs = 0

-----------------------------------------------------------------------------
(* on_fill *)

Journaled == {f \in Fills : jrow[f] # 0}

Goto(s, to) == pc' = [pc EXCEPT ![s] = to]

(* A deliverer calls on_fill. *)
Deliver(s, f) ==
  /\ pc[s] = "idle"
  /\ deliveries < MaxDeliveries
  /\ deliveries' = deliveries + 1
  /\ fill' = [fill EXCEPT ![s] = f]
  /\ known' = [known EXCEPT ![s] = s \in PnlSinks]
  /\ pnl' = [pnl EXCEPT ![s] = IF s \in PnlSinks THEN VenuePnl[f] ELSE 0]
  /\ nacked' = nacked \ {f}
  /\ unflagged' = unflagged \ {f}
  /\ Goto(s, "cutover")
  /\ UNCHANGED <<journalVars, cutoverVars, positionVars, riskVars, lossVars, flag,
                 acked, swallowed, repairVars, crashes>>

(* A fill without an amount or a side (stream and poller pass on what the  *)
(* venue sends): on_fill answers not ok, and no store and no flag tells.   *)
Incomplete(s) ==
  /\ pc[s] = "cutover"
  /\ ~ known[s]
  /\ nacked' = nacked \cup ({fill[s]} \cap Journaled)
  /\ unflagged' = IF flag /\ rep # "clear" THEN unflagged ELSE unflagged \cup {fill[s]}
  /\ Goto(s, "idle")
  /\ UNCHANGED <<journalVars, cutoverVars, positionVars, riskVars, lossVars, flag,
                 localVars, acked, swallowed, repairVars, deliveries, crashes>>

(* activate_symbol_loss_cutover: the first call of all makes what the      *)
(* journal holds legacy.                                                   *)
Cutover(s) ==
  /\ pc[s] = "cutover"
  /\ cutover' = TRUE
  /\ legacy' = IF cutover THEN legacy ELSE Journaled \ lossDone
  /\ Goto(s, "journal")
  /\ UNCHANGED <<journalVars, positionVars, riskVars, lossVars, flag, localVars,
                 answerVars, repairVars, deliveries, crashes>>

(* CanonicalJournal.record_fill: INSERT OR IGNORE. *)
Journal(s) ==
  /\ pc[s] = "journal"
  /\ IF fill[s] \in Journaled
       THEN UNCHANGED journalVars
       ELSE /\ jlast' = jlast + 1
            /\ jrow' = [jrow EXCEPT ![fill[s]] = jlast + 1]
            /\ jknown' = IF known[s] THEN jknown \cup {fill[s]} ELSE jknown
  /\ Goto(s, IF known[s] THEN "risk" ELSE "position")
  /\ UNCHANGED <<cutoverVars, positionVars, riskVars, lossVars, flag, localVars,
                 answerVars, repairVars, deliveries, crashes>>

(* What LivePositionStore.apply_fill raises for: a sell of more than there *)
(* is.                                                                     *)
Oversell(f) == Side[f] = "sell" /\ Qty[f] > posQty

(* A position store that has no PnL to answer for a duplicate. *)
PositionForgets(s) ==
  LET f == fill[s] IN
  /\ pc[s] = "position"
  /\ f \in posDone \/ ~ Oversell(f)
  /\ pnl' = [pnl EXCEPT ![s] = IF f \in posDone \/ Side[f] = "buy" THEN 0
                              ELSE (Price[f] - posAvg) * Qty[f]]
  /\ posDone' = posDone \cup {f}
  /\ posQty' = IF f \in posDone THEN posQty
               ELSE IF Side[f] = "buy" THEN posQty + Qty[f] ELSE posQty - Qty[f]
  /\ posAvg' = IF f \in posDone \/ Side[f] = "sell" THEN posAvg
               ELSE (posQty * posAvg + Qty[f] * Price[f]) \div (posQty + Qty[f])
  /\ Goto(s, "risk")
  /\ UNCHANGED <<posPnl, journalVars, cutoverVars, riskVars, lossVars, flag, fill, known,
                 answerVars, repairVars, deliveries, crashes>>

(* LivePositionStore.apply_fill: weighted average cost, once per fill. A   *)
(* fill applied before answers with the PnL it had then.                   *)
Position(s) ==
  LET f == fill[s] IN
  /\ pc[s] = "position"
  /\ \/ /\ f \in posDone
        /\ pnl' = [pnl EXCEPT ![s] = posPnl[f]]
        /\ UNCHANGED positionVars
     \/ /\ f \notin posDone
        /\ Side[f] = "buy"
        /\ posQty' = posQty + Qty[f]
        /\ posAvg' = (posQty * posAvg + Qty[f] * Price[f]) \div (posQty + Qty[f])
        /\ posDone' = posDone \cup {f}
        /\ UNCHANGED <<posPnl, pnl>>
     \/ /\ f \notin posDone
        /\ Side[f] = "sell"
        /\ ~ Oversell(f)
        /\ posQty' = posQty - Qty[f]
        /\ posAvg' = IF posQty = Qty[f] THEN 0 ELSE posAvg
        /\ posDone' = posDone \cup {f}
        /\ posPnl' = [posPnl EXCEPT ![f] = (Price[f] - posAvg) * Qty[f]]
        /\ pnl' = [pnl EXCEPT ![s] = (Price[f] - posAvg) * Qty[f]]
  /\ Goto(s, "risk")
  /\ UNCHANGED <<journalVars, cutoverVars, riskVars, lossVars, flag, fill, known,
                 answerVars, repairVars, deliveries, crashes>>

(* apply_fill raises. *)
PositionRefused(s) ==
  /\ pc[s] = "position"
  /\ fill[s] \notin posDone
  /\ Oversell(fill[s])
  /\ Goto(s, "failed")
  /\ UNCHANGED <<journalVars, cutoverVars, positionVars, riskVars, lossVars, flag,
                 localVars, answerVars, repairVars, deliveries, crashes>>

(* RiskDailyDB.apply_fill_once: the dedupe row and the total in one        *)
(* transaction; a second time the primary key refuses.                     *)
ApplyFillOnce(f, amount) ==
  /\ dayPnl' = IF f \in riskDone THEN dayPnl ELSE dayPnl + amount
  /\ riskDone' = riskDone \cup {f}

Risk(s) ==
  /\ pc[s] = "risk"
  /\ ApplyFillOnce(fill[s], pnl[s])
  /\ Goto(s, "loss")
  /\ UNCHANGED <<journalVars, cutoverVars, positionVars, lossVars, flag, localVars,
                 answerVars, repairVars, deliveries, crashes>>

(* The transaction fails: apply_fill_once rolls back, logs and answers     *)
(* False, which on_fill does not look at.                                  *)
RiskSwallowed(s) ==
  /\ pc[s] = "risk"
  /\ swallowed' = swallowed \cup ({fill[s]} \ riskDone)
  /\ Goto(s, "loss")
  /\ UNCHANGED <<journalVars, cutoverVars, positionVars, riskVars, lossVars, flag,
                 localVars, acked, nacked, unflagged, repairVars, deliveries, crashes>>

(* A streak that does not wait for the fills before. *)
EarlierIgnored(f) == FALSE

(* A journaled fill before f has no loss event yet. *)
EarlierUnapplied(f) ==
  \E g \in Journaled \ (legacy \cup lossDone) : jrow[g] < jrow[f]

(* apply_symbol_loss_fill_once raises: the fill was applied with another   *)
(* PnL, or one before it is still to be applied.                           *)
LossRefuses(s) ==
  LET f == fill[s] IN
  /\ f \notin legacy
  /\ IF f \in lossDone THEN lossPnl[f] # pnl[s] ELSE EarlierUnapplied(f)

LossRefused(s) ==
  /\ pc[s] = "loss"
  /\ LossRefuses(s)
  /\ Goto(s, "failed")
  /\ UNCHANGED <<journalVars, cutoverVars, positionVars, riskVars, lossVars, flag,
                 localVars, answerVars, repairVars, deliveries, crashes>>

(* apply_symbol_loss_fill_once: streak, lock and event row in one          *)
(* transaction; whatever is not a loss ends streak and lock. on_fill       *)
(* answers ok.                                                             *)
Loss(s) ==
  LET f == fill[s]
      count == IF pnl[s] < 0 THEN lossCount + 1 ELSE 0 IN
  /\ pc[s] = "loss"
  /\ ~ LossRefuses(s)
  /\ IF f \in legacy \cup lossDone
       THEN UNCHANGED lossVars
       ELSE /\ lossCount' = count
            /\ locked' = (count >= LossLimit \/ (pnl[s] < 0 /\ locked))
            /\ lossDone' = lossDone \cup {f}
            /\ lossPnl' = [lossPnl EXCEPT ![f] = pnl[s]]
  /\ acked' = acked \cup {f}
  /\ nacked' = nacked \ {f}
  /\ unflagged' = unflagged \ {f}
  /\ Goto(s, "idle")
  /\ UNCHANGED <<journalVars, cutoverVars, positionVars, riskVars, flag, localVars,
                 swallowed, repairVars, deliveries, crashes>>

(* A database call raises at any step. *)
StoreFails(s) ==
  /\ pc[s] \in {"cutover", "journal", "position", "risk", "loss"}
  /\ Goto(s, "failed")
  /\ UNCHANGED <<journalVars, cutoverVars, positionVars, riskVars, lossVars, flag,
                 localVars, answerVars, repairVars, deliveries, crashes>>

(* A failure answered as a success. *)
FailAnswersOk(s) ==
  /\ pc[s] = "failed"
  /\ flag' = TRUE
  /\ acked' = acked \cup {fill[s]}
  /\ Goto(s, "idle")
  /\ UNCHANGED <<journalVars, cutoverVars, positionVars, riskVars, lossVars,
                 localVars, nacked, swallowed, unflagged, repairVars, deliveries, crashes>>

(* _write_risk_sink_failed, and on_fill answers not ok. Should even that   *)
(* raise, _on_fill turns the exception into not ok. A repair that has      *)
(* verified already removes the flag whatever it says by then.             *)
Fail(s) ==
  /\ pc[s] = "failed"
  /\ flag' \in {flag, TRUE}
  /\ nacked' = nacked \cup ({fill[s]} \cap Journaled)
  /\ unflagged' = IF flag' /\ rep # "clear" THEN unflagged ELSE unflagged \cup {fill[s]}
  /\ Goto(s, "idle")
  /\ UNCHANGED <<journalVars, cutoverVars, positionVars, riskVars, lossVars,
                 localVars, acked, swallowed, repairVars, deliveries, crashes>>

(* The deliverer dies in the middle. *)
Crash(s) ==
  /\ pc[s] # "idle"
  /\ crashes < MaxCrashes
  /\ crashes' = crashes + 1
  /\ Goto(s, "idle")
  /\ UNCHANGED <<journalVars, cutoverVars, positionVars, riskVars, lossVars, flag,
                 localVars, answerVars, repairVars, deliveries>>

-----------------------------------------------------------------------------
(* The symbol lock and the repair script *)

(* locked_until_ms passes: get_symbol_lock no longer reports the lock. *)
LockExpires ==
  /\ locked
  /\ locked' = FALSE
  /\ UNCHANGED <<journalVars, cutoverVars, positionVars, riskVars, lossCount,
                 lossDone, lossPnl, flag, pc, localVars, answerVars, repairVars,
                 deliveries, crashes>>

Missing == Journaled \ riskDone

(* The script does nothing without a flag; else it lists the journal rows  *)
(* that risk_daily_fills lacks.                                            *)
RepairStart ==
  /\ rep = "off"
  /\ flag
  /\ repairs < MaxRepairs
  /\ rep' = "replay"
  /\ repWork' = Missing
  /\ repFailed' = FALSE
  /\ repairs' = repairs + 1
  /\ UNCHANGED <<journalVars, cutoverVars, positionVars, riskVars, lossVars, flag,
                 pc, localVars, answerVars, deliveries, crashes>>

(* replay: refuses a row without PnL unless told to count it as zero. *)
RepairReplay(f) ==
  /\ rep = "replay"
  /\ f \in repWork
  /\ repWork' = repWork \ {f}
  /\ \/ /\ f \in jknown \/ AllowNullPnl
        /\ \/ ApplyFillOnce(f, IF f \in jknown THEN VenuePnl[f] ELSE 0)
           \/ UNCHANGED riskVars
        /\ UNCHANGED repFailed
     \/ /\ f \notin jknown
        /\ ~ AllowNullPnl
        /\ repFailed' = TRUE
        /\ UNCHANGED riskVars
  /\ UNCHANGED <<journalVars, cutoverVars, positionVars, lossVars, flag, pc,
                 localVars, answerVars, rep, repairs, deliveries, crashes>>

(* A script that clears the flag whatever its replays answered. *)
RepairVerifyNot ==
  /\ rep = "replay"
  /\ repWork = {}
  /\ rep' = "clear"
  /\ UNCHANGED <<journalVars, cutoverVars, positionVars, riskVars, lossVars, flag,
                 pc, localVars, answerVars, repWork, repFailed, repairs, deliveries,
                 crashes>>

(* The second listing: the flag is kept when a replay failed or a row is   *)
(* still missing.                                                          *)
RepairVerify ==
  /\ rep = "replay"
  /\ repWork = {}
  /\ rep' = IF repFailed \/ Missing # {} THEN "off" ELSE "clear"
  /\ UNCHANGED <<journalVars, cutoverVars, positionVars, riskVars, lossVars, flag,
                 pc, localVars, answerVars, repWork, repFailed, repairs, deliveries,
                 crashes>>

(* flag.unlink *)
RepairClear ==
  /\ rep = "clear"
  /\ rep' = "off"
  /\ flag' = FALSE
  /\ UNCHANGED <<journalVars, cutoverVars, positionVars, riskVars, lossVars, pc,
                 localVars, answerVars, repWork, repFailed, repairs, deliveries,
                 crashes>>

-----------------------------------------------------------------------------
Sink(s) ==
  \/ \E f \in Fills : Deliver(s, f)
  \/ Incomplete(s) \/ Cutover(s) \/ Journal(s) \/ Position(s) \/ PositionRefused(s)
  \/ Risk(s) \/ RiskSwallowed(s) \/ LossRefused(s) \/ Loss(s)
  \/ StoreFails(s) \/ Fail(s) \/ Crash(s)

Repair == \/ RepairStart \/ RepairVerify \/ RepairClear
          \/ \E f \in Fills : RepairReplay(f)

Next == (\E s \in Sinks : Sink(s)) \/ Repair \/ LockExpires

Spec == Init /\ [][Next]_vars

-----------------------------------------------------------------------------
(* Properties *)

(* The PnL of a fill: what the position store computed, else what the      *)
(* venue reported.                                                         *)
Realized == [f \in Fills |-> IF f \in posDone THEN posPnl[f] ELSE VenuePnl[f]]

SignedQty == [f \in Fills |-> IF Side[f] = "buy" THEN Qty[f] ELSE 0 - Qty[f]]

(* "Apply a fill's realized pnl + fees to today's risk_daily EXACTLY       *)
(* ONCE": whatever crashes, is delivered twice or at the same time by two  *)
(* deliverers, the daily total is the sum over the fills it has seen of    *)
(* what the position store, a different transaction, realized for them,    *)
(* and the position is the sum of its fills.                               *)
AccountsAgree ==
  /\ dayPnl = OldPnl + SumFunctionOnSet(Realized, riskDone \ Old)
  /\ posQty = SumFunctionOnSet(SignedQty, posDone)

(* The fills applied to the streak that come after the last one that was   *)
(* not a loss.                                                             *)
TrailingLosses ==
  {f \in lossDone :
     \A g \in lossDone : jrow[g] >= jrow[f] => lossPnl[g] < 0}

(* "Later effects refuse while earlier nonlegacy effects remain            *)
(* unapplied": the streak is the one the journal shows up to some row,     *)
(* however deliveries interleave, and only a streak at its limit locks.    *)
LossesInJournalOrder ==
  /\ lossDone \subseteq Journaled
  /\ \A f \in lossDone, g \in Journaled \ legacy : jrow[g] < jrow[f] => g \in lossDone
  /\ lossCount = Cardinality(TrailingLosses)
  /\ locked => lossCount >= LossLimit

(* "Return True only when canonical fill accounting succeeds": a fill      *)
(* whose deliverer was told ok, and whose cursor moves on, is in the       *)
(* journal, in the streak unless it is legacy, and in the daily total      *)
(* unless the failure of that one transaction was swallowed.               *)
AckedAccounted ==
  acked \subseteq Journaled \cap (riskDone \cup swallowed) \cap (lossDone \cup legacy)

(* risk_sink_failed.flag "blocks all new orders until a human or repair    *)
(* command verifies accounting": while a journaled fill whose delivery     *)
(* failed is missing from the daily total, the flag stands, whatever is    *)
(* delivered while a repair runs; unless no flag was left by that failure: *)
(* it could not be written, fell between the verification of a repair and  *)
(* its unlink, or was one that raises none.                                *)
FailureBlocks == nacked \cap Missing \subseteq unflagged \/ flag

(* In the accounts: in the daily total and in the streak, or legacy. *)
Accounted == Journaled \cap riskDone \cap (lossDone \cup legacy)

Contract == INSTANCE FillContract WITH journaled <- Journaled, accounted <- Accounted

(* The five transactions of on_fill, whatever happens between them, are to *)
(* a deliverer what FillContract says: journal, accounts, answer, and a    *)
(* failure of the daily total that nobody is told of.                      *)
ImplementsContract == Contract!Spec
=============================================================================
