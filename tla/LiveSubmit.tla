----------------------------- MODULE LiveSubmit -----------------------------
(***************************************************************************)
(* The submission path of live trading: the intent consumer                *)
(* (services/execution/live_intent_consumer.py) takes queued intents from  *)
(* the live intent queue, claims each one in the order dedupe store, and   *)
(* sends one order to the venue; when the outcome of a send is unknown it  *)
(* parks the intent at submit_unknown, and the reconciler                  *)
(* (services/execution/live_reconciler.py) looks the order up until it     *)
(* finds it or gives the intent up.                                        *)
(*                                                                         *)
(* Queue, dedupe store and live_orders are separate SQLite files: each     *)
(* commit is a step of its own and a process may die between two of them.  *)
(* The venue keeps the orders it accepted; a request whose caller gave up  *)
(* may still arrive (wire). Time is abstracted: an age check may come out  *)
(* either way whenever the code makes it. Two history variables record     *)
(* what the code knows nothing of and the properties name: lookups that    *)
(* failed (missed) and rows a sweep passed over (left).                    *)
(***************************************************************************)
EXTENDS IntentStatus, Naturals, FiniteSets

CONSTANTS
  Intents,        \* intent ids
  Consumers,      \* consumer processes; one when the instance lock holds
  NoIntent,       \* no intent in hand
  BatchLimit,     \* claim_next_queued(limit=...)
  MinObs,         \* _su_not_found_min_obs
  MaxInserts,     \* bound: how often one intent id is inserted
  MaxCrashes,     \* bound: how many crashes
  MaxRestores     \* bound: how many restores of a backup

ASSUME ConstantsAssumption ==
  /\ NoIntent \notin Intents
  /\ BatchLimit \in Nat \ {0}
  /\ MinObs \in Nat \ {0}
  /\ MaxInserts \in Nat
  /\ MaxCrashes \in Nat
  /\ MaxRestores \in Nat

VARIABLES
  \* live_intent_queue.sqlite
  qstatus,   \* status column, "absent" when there is no row
  qoid,      \* exchange_order_id column, 0 for NULL
  obs,       \* count of the su_not_found:<intent> record, 0 when cleared
  \* execution.sqlite, table order_dedupe
  dstatus,   \* status column, "none" when there is no row
  doid,      \* remote_order_id column, 0 for NULL
  \* live_trading.sqlite, table live_orders
  lstatus,   \* status column, "none" when there is no row
  \* the venue and the network
  venue,     \* orders accepted under the intent's client_order_id
  wire,      \* requests whose sender gave up and that may still arrive
  \* locals of each consumer
  pc, mode, work, cur, oid, nxt, guarded,
  \* locals of the reconciler
  rpc, rwork, rcur, roid, rnxt,
  \* bounds
  inserts, crashes,
  \* the last backup of the three files, taken one file after the other
  bk,
  \* history
  missed,    \* intents whose order a lookup failed to see
  left       \* submitting rows that the last sweep left untouched

queueVars == <<qstatus, qoid>>
dedupeVars == <<dstatus, doid>>
venueVars == <<venue, wire>>
consumerVars == <<pc, mode, work, cur, oid, nxt, guarded>>
reconVars == <<rpc, rwork, rcur, roid, rnxt>>
boundVars == <<inserts, crashes, bk>>
histVars == <<missed, left>>
envVars == <<boundVars, histVars>>
vars == <<queueVars, obs, dedupeVars, lstatus, venueVars, consumerVars,
          reconVars, envVars>>

LC == INSTANCE IntentLifecycle WITH status <- qstatus

DedupeStatuses == {"none", "created", "submitted", "unknown"}
LedgerStatuses == {"none", "submitted", "submit_unknown", "rejected", "error"}
ConsumerSteps == {"down", "idle", "pick", "lookup", "gate", "claim", "route", "find",
                  "submit", "unknown", "mark", "write", "ledger", "handler"}
ReconSteps == {"idle", "pick", "write", "ledger", "clear"}
ReconTargets == {"submitted", "error"}
BackupStages == {"none", "dedupe", "queue", "complete"}
Backups == [stage : BackupStages, restores : Nat,
            dstatus : [Intents -> DedupeStatuses], doid : [Intents -> Nat],
            qstatus : [Intents -> RowStatuses], qoid : [Intents -> Nat],
            obs : [Intents -> 0..MinObs], lstatus : [Intents -> LedgerStatuses]]

(* Every variable has its type. *)
TypeOK ==
  /\ qstatus \in [Intents -> RowStatuses]
  /\ qoid \in [Intents -> Nat]
  /\ obs \in [Intents -> 0..MinObs]
  /\ dstatus \in [Intents -> DedupeStatuses]
  /\ doid \in [Intents -> Nat]
  /\ lstatus \in [Intents -> LedgerStatuses]
  /\ venue \in [Intents -> Nat]
  /\ wire \in [Intents -> Nat]
  /\ pc \in [Consumers -> ConsumerSteps]
  /\ mode \in [Consumers -> {"recover", "batch"}]
  /\ work \in [Consumers -> SUBSET Intents]
  /\ cur \in [Consumers -> Intents \cup {NoIntent}]
  /\ oid \in [Consumers -> Nat]
  /\ nxt \in [Consumers -> {"submitted", "submit_unknown", "rejected"}]
  /\ guarded \in [Consumers -> BOOLEAN]
  /\ rpc \in ReconSteps
  /\ rwork \in SUBSET Intents
  /\ rcur \in Intents \cup {NoIntent}
  /\ roid \in Nat
  /\ rnxt \in ReconTargets
  /\ inserts \in [Intents -> Nat]
  /\ crashes \in Nat
  /\ bk \in Backups
  /\ missed \in SUBSET Intents
  /\ left \in SUBSET Intents

Init ==
  /\ qstatus = [i \in Intents |-> "absent"]
  /\ qoid = [i \in Intents |-> 0]
  /\ obs = [i \in Intents |-> 0]
  /\ dstatus = [i \in Intents |-> "none"]
  /\ doid = [i \in Intents |-> 0]
  /\ lstatus = [i \in Intents |-> "none"]
  /\ venue = [i \in Intents |-> 0]
  /\ wire = [i \in Intents |-> 0]
  /\ pc = [c \in Consumers |-> "down"]
  /\ mode = [c \in Consumers |-> "recover"]
  /\ work = [c \in Consumers |-> {}]
  /\ cur = [c \in Consumers |-> NoIntent]
  /\ oid = [c \in Consumers |-> 0]
  /\ nxt = [c \in Consumers |-> "submitted"]
  /\ guarded = [c \in Consumers |-> FALSE]
  /\ rpc = "idle"
  /\ rwork = {}
  /\ rcur = NoIntent
  /\ roid = 0
  /\ rnxt = "submitted"
  /\ inserts = [i \in Intents |-> 0]
  /\ crashes = 0
  /\ bk = [stage |-> "none", restores |-> 0, dstatus |-> dstatus, doid |-> doid,
           qstatus |-> qstatus, qoid |-> qoid, obs |-> obs, lstatus |-> lstatus]
  /\ missed = {}
  /\ left = {}

-----------------------------------------------------------------------------
(* Store operations *)

(* update_status(i, s, exchange_order_id=o) when the row admits it;        *)
(* COALESCE keeps the order id when none is given.                         *)
UpdateStatus(i, s, o) ==
  /\ qstatus' = [qstatus EXCEPT ![i] = s]
  /\ qoid' = [qoid EXCEPT ![i] = IF o = 0 THEN @ ELSE o]

TryUpdateStatus(i, s) ==
  IF SqlAllows(qstatus[i], s) THEN UpdateStatus(i, s, 0) ELSE UNCHANGED queueVars

(* OrderDedupeStore.mark_submitted *)
MarkSubmitted(i, o) ==
  /\ dstatus' = [dstatus EXCEPT ![i] = IF @ = "none" THEN @ ELSE "submitted"]
  /\ doid' = [doid EXCEPT ![i] = IF dstatus[i] = "none" \/ @ # 0 THEN @ ELSE o]

(* find_order_by_client_oid answers None for an absent order, and at any   *)
(* time when the venue could not be asked: both fetches are wrapped in     *)
(* `except Exception: pass`. Its caller cannot tell which it was.          *)
LookupMiss(i) == missed' = IF venue[i] = 0 THEN missed ELSE missed \cup {i}

(* It answers any of the orders that carry the client order id. *)
LookupHits(i) == 1..venue[i]

(* A step of a consumer that touches neither a store nor the venue. *)
Quiet == UNCHANGED <<queueVars, obs, dedupeVars, lstatus, venueVars, reconVars, boundVars>>

Goto(c, to) == pc' = [pc EXCEPT ![c] = to]

(* Consumer c only moves on. *)
Step(c, from, to) ==
  /\ pc[c] = from
  /\ Goto(c, to)
  /\ Quiet
  /\ UNCHANGED <<histVars, mode, work, cur, oid, nxt, guarded>>

(* Consumer c is to report status n with order id o; g: inside try. *)
Report(c, from, n, o, g, to) ==
  /\ pc[c] = from
  /\ nxt' = [nxt EXCEPT ![c] = n]
  /\ oid' = [oid EXCEPT ![c] = o]
  /\ guarded' = [guarded EXCEPT ![c] = g]
  /\ Goto(c, to)
  /\ Quiet
  /\ UNCHANGED <<left, mode, work, cur>>

(* It decides so without asking the venue, or because the venue has it. *)
Decide(c, from, n, o, g, to) == Report(c, from, n, o, g, to) /\ UNCHANGED missed

-----------------------------------------------------------------------------
(* The consumer: start, recovery sweep, batches *)

(* run_forever takes the lock and _recover_stale_submitting lists the      *)
(* submitting rows; S are the aged ones (120 s by default). A restart that *)
(* comes early, or a configuration that cannot be loaded, leaves the rest  *)
(* untouched until the next start.                                         *)
Start(c) ==
  /\ pc[c] = "down"
  /\ LET stranded == {i \in Intents : qstatus[i] = "submitting"} IN
     \E S \in SUBSET stranded :
       /\ work' = [work EXCEPT ![c] = S]
       /\ left' = stranded \ S
  /\ mode' = [mode EXCEPT ![c] = "recover"]
  /\ Goto(c, "pick")
  /\ Quiet
  /\ UNCHANGED <<missed, cur, oid, nxt, guarded>>

(* claim_next_queued: one transaction moves the claimed rows to            *)
(* submitting; the copies the consumer keeps say submitting too.           *)
ClaimNextQueued(c) ==
  /\ pc[c] = "idle"
  /\ LET queued == {i \in Intents : qstatus[i] = "queued"} IN
     \E S \in SUBSET queued :
       /\ S # {}
       /\ Cardinality(S) <= BatchLimit
       /\ S = queued \/ Cardinality(S) = BatchLimit
       /\ qstatus' = [i \in Intents |-> IF i \in S THEN "submitting" ELSE qstatus[i]]
       /\ work' = [work EXCEPT ![c] = S]
  /\ mode' = [mode EXCEPT ![c] = "batch"]
  /\ Goto(c, "pick")
  /\ UNCHANGED <<qoid, obs, dedupeVars, lstatus, venueVars, cur, oid, nxt,
                 guarded, reconVars, envVars>>

(* The next row of the sweep or of the batch. *)
Pick(c) ==
  /\ pc[c] = "pick"
  /\ \E i \in work[c] :
       /\ cur' = [cur EXCEPT ![c] = i]
       /\ work' = [work EXCEPT ![c] = @ \ {i}]
  /\ oid' = [oid EXCEPT ![c] = 0]
  /\ guarded' = [guarded EXCEPT ![c] = FALSE]
  /\ Goto(c, IF mode[c] = "recover" THEN "lookup" ELSE "gate")
  /\ Quiet
  /\ UNCHANGED <<histVars, mode, nxt>>

(* End of the sweep or of the batch: back to the polling loop. *)
Finish(c) == work[c] = {} /\ Step(c, "pick", "idle")

(* Recovery, venue lookup. An order that was found goes through            *)
(* dedupe.claim, mark_submitted, the queue and live_orders.                *)
RecoverFound(c) ==
  /\ pc[c] = "lookup"
  /\ \E o \in LookupHits(cur[c]) : Decide(c, "lookup", "submitted", o, FALSE, "claim")

(* Recovery, no order: the row is parked at submit_unknown. *)
RecoverMiss(c) ==
  /\ pc[c] = "lookup"
  /\ LookupMiss(cur[c])
  /\ Report(c, "lookup", "submit_unknown", 0, FALSE, "write")

(* Recovery, the adapter could not be built: the row is left untouched     *)
(* until the next start.                                                   *)
RecoverSkip(c) ==
  /\ pc[c] = "lookup"
  /\ left' = left \cup {cur[c]}
  /\ Goto(c, "pick")
  /\ Quiet
  /\ UNCHANGED <<missed, mode, work, cur, oid, nxt, guarded>>

-----------------------------------------------------------------------------
(* The consumer: one intent of a batch *)

(* A write of the queue and nothing else. *)
GateWrite(c) ==
  /\ Goto(c, "pick")
  /\ UNCHANGED <<obs, dedupeVars, venueVars, mode, work, cur, oid, nxt, guarded,
                 reconVars, envVars>>

(* The intent outlived its TTL: expired, and live_orders is not told. *)
GateExpire(c) ==
  /\ pc[c] = "gate"
  /\ TryUpdateStatus(cur[c], "expired")
  /\ GateWrite(c)
  /\ UNCHANGED lstatus

(* Market quality, venue clock or daily risk refuse the intent: rejected,  *)
(* else submit_unknown, else the row keeps its status. live_orders is not  *)
(* told.                                                                   *)
GateReject(c) ==
  /\ pc[c] = "gate"
  /\ IF SqlAllows(qstatus[cur[c]], "rejected")
       THEN UpdateStatus(cur[c], "rejected", 0)
       ELSE TryUpdateStatus(cur[c], "submit_unknown")
  /\ GateWrite(c)
  /\ UNCHANGED lstatus

(* All gates pass. *)
GatePass(c) == Step(c, "gate", "claim")

(* A consumer that ignores what the dedupe store answered. *)
DedupeClaimIgnored(c) ==
  /\ pc[c] = "claim"
  /\ dstatus' = [dstatus EXCEPT ![cur[c]] = IF @ = "none" THEN "created" ELSE @]
  /\ Goto(c, IF mode[c] = "recover" THEN "mark" ELSE "route")
  /\ UNCHANGED <<queueVars, obs, doid, lstatus, venueVars, mode, work, cur, oid,
                 nxt, guarded, reconVars, envVars>>

(* The statuses of a dedupe row with which a batch goes on to send: its    *)
(* own new row, one marked error, and one marked acked or terminal without *)
(* an id. The last three are written by the executor path alone, for       *)
(* intents of its own store, and no row of a live intent has them.         *)
MaySend(i) ==
  \/ dstatus[i] \in {"none", "error"}
  \/ dstatus[i] \in {"acked", "terminal"} /\ doid[i] = 0

(* OrderDedupeStore.claim inserts the row or finds it. A batch that may    *)
(* not send skips the intent, whose queue row stays submitting; the        *)
(* recovery sweep goes on either way.                                      *)
DedupeClaim(c) ==
  /\ pc[c] = "claim"
  /\ dstatus' = [dstatus EXCEPT ![cur[c]] = IF @ = "none" THEN "created" ELSE @]
  /\ Goto(c, IF mode[c] = "recover" THEN "mark"
             ELSE IF MaySend(cur[c]) THEN "route" ELSE "pick")
  /\ UNCHANGED <<queueVars, obs, doid, lstatus, venueVars, mode, work, cur, oid,
                 nxt, guarded, reconVars, envVars>>

(* live_orders told before the queue. *)
RouteRejectLedgerFirst(c) ==
  /\ pc[c] = "route"
  /\ lstatus' = [lstatus EXCEPT ![cur[c]] = "rejected"]
  /\ nxt' = [nxt EXCEPT ![c] = "rejected"]
  /\ Goto(c, "write")
  /\ UNCHANGED <<queueVars, obs, dedupeVars, venueVars, mode, work, cur, oid, guarded,
                 reconVars, envVars>>

(* decide_order refuses: rejected in the queue and then in live_orders. *)
RouteReject(c) == Decide(c, "route", "rejected", 0, FALSE, "write")

(* decide_order allows the order; the try block begins. *)
RoutePass(c) == Decide(c, "route", nxt[c], 0, TRUE, "find")

(* LiveExchangeAdapter(venue) raises: the handler has no adapter to look   *)
(* the order up with.                                                      *)
AdapterFails(c) == Decide(c, "find", "submit_unknown", 0, FALSE, "write")

(* The lookup before the send finds an order: the queue and live_orders    *)
(* are told, the dedupe store is not.                                      *)
FindHit(c) ==
  /\ pc[c] = "find"
  /\ \E o \in LookupHits(cur[c]) : Decide(c, "find", "submitted", o, TRUE, "write")

(* A send that does not wait for the answer of the lookup. *)
FindMissUnchecked(c) == Step(c, "find", "submit")

(* The lookup before the send finds no order, or fails. *)
FindMiss(c) ==
  /\ pc[c] = "find"
  /\ LookupMiss(cur[c])
  /\ Goto(c, "submit")
  /\ Quiet
  /\ UNCHANGED <<left, mode, work, cur, oid, nxt, guarded>>

(* place_order refuses (a gate of the order boundary), or the venue does:  *)
(* an exception, and no order.                                             *)
SubmitRefused(c) == Step(c, "submit", "handler")

(* A response without an order id taken for a submission. *)
SubmitAcceptedNoIdCheck(c) ==
  /\ pc[c] = "submit"
  /\ venue' = [venue EXCEPT ![cur[c]] = @ + 1]
  /\ \E o \in {0, venue[cur[c]] + 1} : oid' = [oid EXCEPT ![c] = o]
  /\ nxt' = [nxt EXCEPT ![c] = "submitted"]
  /\ Goto(c, "mark")
  /\ UNCHANGED <<queueVars, obs, dedupeVars, lstatus, wire, mode, work, cur,
                 guarded, reconVars, envVars>>

(* The venue accepts; the response carries an order id or it does not. *)
SubmitAccepted(c) ==
  /\ pc[c] = "submit"
  /\ venue' = [venue EXCEPT ![cur[c]] = @ + 1]
  /\ \/ /\ oid' = [oid EXCEPT ![c] = venue[cur[c]] + 1]
        /\ nxt' = [nxt EXCEPT ![c] = "submitted"]
        /\ Goto(c, "mark")
     \/ /\ nxt' = [nxt EXCEPT ![c] = "submit_unknown"]
        /\ Goto(c, "unknown")
        /\ UNCHANGED oid
  /\ UNCHANGED <<queueVars, obs, dedupeVars, lstatus, wire, mode, work, cur,
                 guarded, reconVars, envVars>>

(* A send that is tried again after a timeout. *)
SubmitTimeoutRetries(c) ==
  /\ pc[c] = "submit"
  /\ wire[cur[c]] < 2
  /\ wire' = [wire EXCEPT ![cur[c]] = @ + 1]
  /\ UNCHANGED <<queueVars, obs, dedupeVars, lstatus, venue, consumerVars,
                 reconVars, envVars>>

(* The request times out; it may still reach the venue later. *)
SubmitTimeout(c) ==
  /\ pc[c] = "submit"
  /\ wire' = [wire EXCEPT ![cur[c]] = @ + 1]
  /\ Goto(c, "handler")
  /\ UNCHANGED <<queueVars, obs, dedupeVars, lstatus, venue, mode, work, cur,
                 oid, nxt, guarded, reconVars, envVars>>

(* dedupe.mark_unknown, after a response without an order id. *)
MarkUnknown(c) ==
  /\ pc[c] = "unknown"
  /\ dstatus' = [dstatus EXCEPT ![cur[c]] = IF @ = "none" THEN @ ELSE "unknown"]
  /\ Goto(c, "write")
  /\ UNCHANGED <<queueVars, obs, doid, lstatus, venueVars, mode, work, cur, oid,
                 nxt, guarded, reconVars, envVars>>

(* dedupe.mark_submitted *)
Mark(c) ==
  /\ pc[c] = "mark"
  /\ MarkSubmitted(cur[c], oid[c])
  /\ Goto(c, "write")
  /\ UNCHANGED <<queueVars, obs, lstatus, venueVars, mode, work, cur, oid, nxt,
                 guarded, reconVars, envVars>>

(* The write of a consumer that trusts its copy of the row. *)
WriteUnchecked(c) ==
  /\ pc[c] = "write"
  /\ IF SubmitOwnerMay("submitting", nxt[c]) /\ qstatus[cur[c]] # "absent"
       THEN UpdateStatus(cur[c], nxt[c], oid[c]) /\ Goto(c, "ledger")
       ELSE UNCHANGED queueVars /\ Goto(c, "pick")
  /\ UNCHANGED <<obs, dedupeVars, lstatus, venueVars, mode, work, cur, oid, nxt,
                 guarded, reconVars, envVars>>

(* update_live_queue_status_as_intent_consumer: the authority check sees   *)
(* the copy (submitting), the store sees the row; when either refuses the  *)
(* intent is skipped and live_orders is not told.                          *)
Write(c) ==
  /\ pc[c] = "write"
  /\ IF SubmitOwnerMay("submitting", nxt[c]) /\ SqlAllows(qstatus[cur[c]], nxt[c])
       THEN UpdateStatus(cur[c], nxt[c], oid[c]) /\ Goto(c, "ledger")
       ELSE UNCHANGED queueVars /\ Goto(c, "pick")
  /\ UNCHANGED <<obs, dedupeVars, lstatus, venueVars, mode, work, cur, oid, nxt,
                 guarded, reconVars, envVars>>

(* ldb.upsert_order *)
WriteLedger(c) ==
  /\ pc[c] = "ledger"
  /\ lstatus' = [lstatus EXCEPT ![cur[c]] = nxt[c]]
  /\ Goto(c, "pick")
  /\ UNCHANGED <<queueVars, obs, dedupeVars, venueVars, mode, work, cur, oid, nxt,
                 guarded, reconVars, envVars>>

(* A store raises inside the try block (a locked or a full database). *)
StoreError(c) ==
  /\ guarded[c]
  /\ \E from \in {"unknown", "mark", "write", "ledger"} : Step(c, from, "handler")

(* The except clause looks the order up once more. *)
HandlerHit(c) ==
  /\ pc[c] = "handler"
  /\ \E o \in LookupHits(cur[c]) : Decide(c, "handler", "submitted", o, FALSE, "mark")

(* A handler that takes a failed send for a rejected one. *)
HandlerMissRejects(c) ==
  /\ pc[c] = "handler"
  /\ LookupMiss(cur[c])
  /\ Report(c, "handler", "rejected", 0, FALSE, "write")

(* It finds none: submit_unknown, without an order id, and the dedupe row  *)
(* is left as it is.                                                       *)
HandlerMiss(c) ==
  /\ pc[c] = "handler"
  /\ LookupMiss(cur[c])
  /\ Report(c, "handler", "submit_unknown", 0, FALSE, "write")

(* The process dies, or a store raises outside the try block, or the stop  *)
(* file ends the loop.                                                     *)
Crash(c) ==
  /\ pc[c] # "down"
  /\ crashes < MaxCrashes
  /\ crashes' = crashes + 1
  /\ work' = [work EXCEPT ![c] = {}]
  /\ cur' = [cur EXCEPT ![c] = NoIntent]
  /\ oid' = [oid EXCEPT ![c] = 0]
  /\ nxt' = [nxt EXCEPT ![c] = "submitted"]
  /\ guarded' = [guarded EXCEPT ![c] = FALSE]
  /\ Goto(c, "down")
  /\ UNCHANGED <<queueVars, obs, dedupeVars, lstatus, venueVars, mode, reconVars,
                 inserts, bk, histVars>>

-----------------------------------------------------------------------------
(* The reconciler, lane of the submit_unknown intents *)

(* run_forever lists the submit_unknown rows; those that carry an order id *)
(* belong to the order lane.                                               *)
ReconStart ==
  /\ rpc = "idle"
  /\ rwork' = {i \in Intents : qstatus[i] = "submit_unknown" /\ qoid[i] = 0}
  /\ rwork' # {}
  /\ rpc' = "pick"
  /\ UNCHANGED <<queueVars, obs, dedupeVars, lstatus, venueVars, consumerVars,
                 rcur, roid, rnxt, envVars>>

(* The reconciler takes row i of its pass to write status n, order id o. *)
ReconDecide(i, n, o) ==
  /\ rpc = "pick"
  /\ i \in rwork
  /\ rwork' = rwork \ {i}
  /\ rcur' = i
  /\ rnxt' = n
  /\ roid' = o
  /\ rpc' = "write"
  /\ UNCHANGED <<queueVars, dedupeVars, lstatus, venueVars, consumerVars, boundVars, left>>

(* The lookup finds the order. *)
ReconFound(i) ==
  /\ \E o \in LookupHits(i) : ReconDecide(i, "submitted", o)
  /\ UNCHANGED <<obs, missed>>

(* _record_su_not_found, counted up to MinObs. *)
RecordNotFound(i) == obs' = [obs EXCEPT ![i] = IF @ < MinObs THEN @ + 1 ELSE @]

(* The age of a first observation reaches _su_not_found_terminal_ms (15    *)
(* minutes): longer than a request stays in the network.                   *)
AgeMayElapse(i) == wire[i] = 0

(* Giving up after a single look, without waiting for the age. *)
ReconGiveUpAtOnce(i) == LookupMiss(i) /\ RecordNotFound(i) /\ ReconDecide(i, "error", 0)

(* Not found often enough and for long enough (the first observation has   *)
(* age 0): the intent is given up.                                         *)
ReconGiveUp(i) ==
  /\ LookupMiss(i)
  /\ obs[i] >= 1 /\ obs[i] + 1 >= MinObs
  /\ AgeMayElapse(i)
  /\ RecordNotFound(i)
  /\ ReconDecide(i, "error", 0)

(* The reconciler skips row i of its pass. *)
ReconSkip(i) ==
  /\ rpc = "pick"
  /\ i \in rwork
  /\ rwork' = rwork \ {i}
  /\ UNCHANGED <<queueVars, dedupeVars, lstatus, venueVars, consumerVars, rpc, rcur,
                 roid, rnxt, boundVars, left>>

(* Not found, and set_state fails: the failure is swallowed and the miss   *)
(* is not counted.                                                         *)
ReconMissUnsaved(i) == LookupMiss(i) /\ ReconSkip(i) /\ UNCHANGED obs

(* Not found, and the wait goes on. *)
ReconMiss(i) == LookupMiss(i) /\ ReconSkip(i) /\ RecordNotFound(i)

(* update_live_queue_status_as_reconciler on the copy listed at the start  *)
(* of the pass (submit_unknown); refused by the store, the row is skipped. *)
ReconWrite ==
  /\ rpc = "write"
  /\ IF ReconcilerMay("submit_unknown", rnxt) /\ SqlAllows(qstatus[rcur], rnxt)
       THEN UpdateStatus(rcur, rnxt, roid) /\ rpc' = "ledger"
       ELSE UNCHANGED queueVars /\ rpc' = "pick"
  /\ UNCHANGED <<obs, dedupeVars, lstatus, venueVars, consumerVars, rwork, rcur,
                 roid, rnxt, envVars>>

(* ldb.upsert_order *)
ReconLedger ==
  /\ rpc = "ledger"
  /\ lstatus' = [lstatus EXCEPT ![rcur] = rnxt]
  /\ rpc' = "clear"
  /\ UNCHANGED <<queueVars, obs, dedupeVars, venueVars, consumerVars, rwork, rcur,
                 roid, rnxt, envVars>>

(* _clear_su_not_found, a failure of which is swallowed. *)
ReconClear ==
  /\ rpc = "clear"
  /\ \/ obs' = [obs EXCEPT ![rcur] = 0]
     \/ UNCHANGED obs
  /\ rpc' = "pick"
  /\ UNCHANGED <<queueVars, dedupeVars, lstatus, venueVars, consumerVars, rwork,
                 rcur, roid, rnxt, envVars>>

(* End of a pass. *)
ReconFinish ==
  /\ rpc = "pick"
  /\ rwork = {}
  /\ rpc' = "idle"
  /\ UNCHANGED <<queueVars, obs, dedupeVars, lstatus, venueVars, consumerVars,
                 rwork, rcur, roid, rnxt, envVars>>

(* The process dies, or a call outside the per-intent try raises. *)
ReconCrash ==
  /\ rpc # "idle"
  /\ crashes < MaxCrashes
  /\ crashes' = crashes + 1
  /\ rpc' = "idle"
  /\ rwork' = {}
  /\ rcur' = NoIntent
  /\ roid' = 0
  /\ rnxt' = "submitted"
  /\ UNCHANGED <<queueVars, obs, dedupeVars, lstatus, venueVars, consumerVars,
                 inserts, bk, histVars>>

-----------------------------------------------------------------------------
(* Their environment *)

(* upsert_intent by a producer: INSERT OR IGNORE, so an existing row stays *)
(* as it is and a deleted one comes back as queued.                        *)
Enqueue(i) ==
  /\ qstatus[i] = "absent"
  /\ inserts[i] < MaxInserts
  /\ inserts' = [inserts EXCEPT ![i] = @ + 1]
  /\ qstatus' = [qstatus EXCEPT ![i] = "queued"]
  /\ UNCHANGED <<qoid, obs, dedupeVars, lstatus, venueVars, consumerVars, reconVars,
                 crashes, bk, histVars>>

(* An administrator deletes a stuck row with sqlite3; the other two files  *)
(* keep theirs.                                                            *)
ForceDelete(i) ==
  /\ qstatus[i] # "absent"
  /\ inserts[i] < MaxInserts
  /\ qstatus' = [qstatus EXCEPT ![i] = "absent"]
  /\ qoid' = [qoid EXCEPT ![i] = 0]
  /\ UNCHANGED <<obs, dedupeVars, lstatus, venueVars, consumerVars, reconVars, envVars>>

(* A request its sender gave up reaches the venue after all, or is lost. *)
Deliver(i) ==
  /\ wire[i] > 0
  /\ wire' = [wire EXCEPT ![i] = @ - 1]
  /\ venue' = [venue EXCEPT ![i] = @ + 1]
  /\ UNCHANGED <<queueVars, obs, dedupeVars, lstatus, consumerVars, reconVars, envVars>>

Lose(i) ==
  /\ wire[i] > 0
  /\ wire' = [wire EXCEPT ![i] = @ - 1]
  /\ UNCHANGED <<queueVars, obs, dedupeVars, lstatus, venue, consumerVars, reconVars,
                 envVars>>

(* scripts/backup_state.py copies the files in the order of their names    *)
(* (execution, live_intent_queue, live_trading) while the services run.    *)
Backup ==
  /\ bk.restores < MaxRestores
  /\ \/ /\ bk.stage = "none"
        /\ bk' = [bk EXCEPT !.stage = "dedupe", !.dstatus = dstatus, !.doid = doid]
     \/ /\ bk.stage = "dedupe"
        /\ bk' = [bk EXCEPT !.stage = "queue", !.qstatus = qstatus, !.qoid = qoid, !.obs = obs]
     \/ /\ bk.stage = "queue"
        /\ bk' = [bk EXCEPT !.stage = "complete", !.lstatus = lstatus]
  /\ UNCHANGED <<queueVars, obs, dedupeVars, lstatus, venueVars, consumerVars,
                 reconVars, inserts, crashes, histVars>>

(* restore_backup puts the three files back. It refuses while a lock file  *)
(* exists; by the time the operator is done no request is in the network.  *)
Restore ==
  /\ bk.stage = "complete"
  /\ bk.restores < MaxRestores
  /\ \A c \in Consumers : pc[c] = "down"
  /\ rpc = "idle"
  /\ \A i \in Intents : wire[i] = 0
  /\ dstatus' = bk.dstatus /\ doid' = bk.doid
  /\ qstatus' = bk.qstatus /\ qoid' = bk.qoid /\ obs' = bk.obs
  /\ lstatus' = bk.lstatus
  /\ bk' = [bk EXCEPT !.stage = "none", !.restores = @ + 1]
  /\ UNCHANGED <<venueVars, consumerVars, reconVars, inserts, crashes, histVars>>

-----------------------------------------------------------------------------
Consumer(c) ==
  \/ Start(c) \/ ClaimNextQueued(c) \/ Pick(c) \/ Finish(c)
  \/ RecoverFound(c) \/ RecoverMiss(c) \/ RecoverSkip(c)
  \/ GateExpire(c) \/ GateReject(c) \/ GatePass(c) \/ DedupeClaim(c)
  \/ RouteReject(c) \/ RoutePass(c) \/ AdapterFails(c) \/ FindHit(c) \/ FindMiss(c)
  \/ SubmitRefused(c) \/ SubmitAccepted(c) \/ SubmitTimeout(c)
  \/ MarkUnknown(c) \/ Mark(c) \/ Write(c) \/ WriteLedger(c)
  \/ StoreError(c) \/ HandlerHit(c) \/ HandlerMiss(c)

Recon ==
  \/ ReconStart \/ ReconWrite \/ ReconLedger \/ ReconClear \/ ReconFinish
  \/ \E i \in Intents : ReconFound(i) \/ ReconGiveUp(i) \/ ReconMiss(i) \/ ReconMissUnsaved(i)

Network(i) == Deliver(i) \/ Lose(i)

Next ==
  \/ \E c \in Consumers : Consumer(c) \/ Crash(c)
  \/ Recon \/ ReconCrash \/ Backup \/ Restore
  \/ \E i \in Intents : Enqueue(i) \/ ForceDelete(i) \/ Network(i)

Spec == Init /\ [][Next]_vars

(* The supervisor keeps both processes running and armed, so each of them  *)
(* takes its next step in time; a request leaves the network in time; and  *)
(* a pass of the reconciler that keeps coming back to a row does not       *)
(* always fail to save the count, find the age too low, or miss an order.  *)
Fairness ==
  /\ \A c \in Consumers : WF_vars(Consumer(c))
  /\ WF_vars(Recon)
  /\ \A i \in Intents : /\ WF_vars(Network(i))
                        /\ SF_vars(ReconFound(i))
                        /\ SF_vars(ReconGiveUp(i))
                        /\ SF_vars(ReconMiss(i))

FairSpec == Spec /\ Fairness

-----------------------------------------------------------------------------
(* Properties *)

(* Orders at the venue, or on their way there, for an intent. *)
Exposure(i) == venue[i] + wire[i]

(* "Exactly-once venue submission per intent across all phases (the money  *)
(* invariant)": at most one order is ever sent for an intent, whatever     *)
(* crashes, times out, is looked up in vain, or is deleted and enqueued    *)
(* again, and even when two consumers run at once. A restored backup takes *)
(* the dedupe row back; then a second order needs a lookup that failed to  *)
(* see the first.                                                          *)
AtMostOneOrder ==
  \A i \in Intents : Exposure(i) <= 1 \/ (bk.restores > 0 /\ i \in missed)

(* An intent that was refused before the send (rejected or expired) has no *)
(* order, nor will it have one from a consumer still holding it: no        *)
(* interleaving of gates, sweep and reconciler turns a sent intent into a  *)
(* refused one.                                                            *)
RefusedHasNoOrder ==
  \A i \in Intents :
    inserts[i] = 1 /\ qstatus[i] \in {"rejected", "expired"} =>
      /\ Exposure(i) = 0
      /\ \A c \in Consumers : ~ (cur[c] = i /\ pc[c] \in {"find", "submit"})

(* A submitted row carries the id of an order the venue has, and so does   *)
(* the dedupe row once it carries one: no recovery path records an id that *)
(* was never assigned.                                                     *)
SubmittedHasOrder ==
  \A i \in Intents :
    /\ qstatus[i] = "submitted" => qoid[i] \in 1..venue[i]
    /\ doid[i] # 0 => doid[i] \in 1..venue[i]

(* live_orders, written last and by two processes, never says submitted    *)
(* without an order at the venue, nor rejected or error of an intent that  *)
(* the queue still holds open.                                             *)
LedgerBacked ==
  \A i \in Intents :
    inserts[i] = 1 =>
      /\ lstatus[i] = "submitted" => venue[i] >= 1
      /\ lstatus[i] \in {"rejected", "error"} =>
           qstatus[i] \in {lstatus[i], "absent"}

(* The reconciler gives an intent up only when the venue has no order for  *)
(* it and will get none, unless a lookup failed to see one. (The comment   *)
(* says that "only clean not-found answers reach this (lookup exceptions   *)
(* propagate before it)": the adapter swallows them.)                      *)
GivenUpHasNoOrder ==
  \A i \in Intents :
    inserts[i] = 1 /\ qstatus[i] = "error" /\ i \notin missed =>
      /\ Exposure(i) = 0
      /\ \A c \in Consumers : ~ (cur[c] = i /\ pc[c] \in {"find", "submit"})

(* Every write of the queue, by any process and from any stale copy,       *)
(* follows the transition table: terminal rows stay as they are.           *)
FollowsLifecycle == LC!Spec

(* "Crash/restart cases that were previously safe-but-stranded now         *)
(* converge": an intent in the consumer's or the reconciler's hands is at  *)
(* last submitted or terminal, unless a restored backup does not have it,  *)
(* or the sweep of the last start passed its submitting row over (too      *)
(* young, or no adapter): nobody looks at that row before the next start.  *)
Settles ==
  \A i \in Intents :
    qstatus[i] \in {"submitting", "submit_unknown"} ~>
      \/ qstatus[i] \in TerminalStatuses \cup {"submitted", "absent"}
      \/ qstatus[i] = "submitting" /\ i \in left
=============================================================================
