-------------------------- MODULE LiveSubmitProofs --------------------------
(***************************************************************************)
(* Theorems about LiveSubmit for any number of intents, consumers,         *)
(* crashes, insertions and observations.                                   *)
(***************************************************************************)
EXTENDS LiveSubmit, TLAPS

(* A process that is past its pick holds an intent. *)
InHand ==
  /\ \A c \in Consumers : pc[c] \notin {"down", "idle", "pick"} => cur[c] \in Intents
  /\ rpc \notin {"idle", "pick"} => rcur \in Intents

TypeInv == TypeOK /\ InHand

USE DEF TerminalStatuses, LiveStatuses, Statuses, RowStatuses, DedupeStatuses,
        LedgerStatuses, ConsumerSteps, ReconSteps, ReconTargets, BackupStages

(* The initial state has the types. *)
LEMMA TypeInit == ASSUME ConstantsAssumption, Init PROVE TypeInv
  BY DEF ConstantsAssumption, Init, TypeInv, TypeOK, InHand, Backups

(* A step of a consumer that only moves on preserves the types. *)
LEMMA TypeStep ==
  ASSUME TypeInv, ConstantsAssumption, NEW c \in Consumers, NEW from, NEW to \in ConsumerSteps,
         Step(c, from, to), from \notin {"down", "idle", "pick"} \/ to \in {"down", "idle", "pick"}
  PROVE  TypeInv'
  BY DEF Step, Goto, Quiet, TypeInv, TypeOK, InHand, queueVars, dedupeVars, venueVars,
         reconVars, envVars, boundVars, histVars

(* So does a step that reports an outcome. *)
LEMMA TypeDecide ==
  ASSUME TypeInv, ConstantsAssumption, NEW c \in Consumers,
         NEW from \in ConsumerSteps \ {"down", "idle", "pick"}, NEW to \in ConsumerSteps,
         NEW n \in {"submitted", "submit_unknown", "rejected"}, NEW o \in Nat, NEW g \in BOOLEAN,
         Report(c, from, n, o, g, to), missed' \in SUBSET Intents
  PROVE  TypeInv'
  BY DEF Decide, Report, Goto, Quiet, TypeInv, TypeOK, InHand, queueVars, dedupeVars, venueVars,
         reconVars, envVars, boundVars, histVars

(* A decision made without a failing lookup is such a step. *)
LEMMA TypeDecided ==
  ASSUME TypeInv, ConstantsAssumption, NEW c \in Consumers,
         NEW from \in ConsumerSteps \ {"down", "idle", "pick"}, NEW to \in ConsumerSteps,
         NEW n \in {"submitted", "submit_unknown", "rejected"}, NEW o \in Nat, NEW g \in BOOLEAN,
         Decide(c, from, n, o, g, to)
  PROVE  TypeInv'
<1>1. missed' \in SUBSET Intents BY DEF Decide, TypeInv, TypeOK
<1>2. Report(c, from, n, o, g, to) BY DEF Decide
<1> QED BY <1>1, <1>2, TypeDecide

(* What a lookup answers is the id of an order the venue has. *)
LEMMA LookupHitsNat ==
  ASSUME TypeInv, NEW i \in Intents, NEW o \in LookupHits(i)
  PROVE  o \in Nat /\ venue[i] \in Nat /\ o <= venue[i] /\ 0 < o
  BY DEF TypeInv, TypeOK, LookupHits

(* A lookup that misses. *)
LEMMA MissType ==
  ASSUME TypeInv, NEW i \in Intents, LookupMiss(i)
  PROVE  missed' \in SUBSET Intents /\ missed \subseteq missed'
  BY DEF LookupMiss, TypeInv, TypeOK

(* Every step of a consumer preserves the types. *)
LEMMA TypeConsumer ==
  ASSUME TypeInv, ConstantsAssumption, NEW c \in Consumers, Consumer(c) \/ Crash(c)
  PROVE  TypeInv'
<1> USE DEF Goto, queueVars, dedupeVars, venueVars, consumerVars, reconVars, envVars, boundVars, histVars
<1>1. CASE Start(c)
  BY <1>1 DEF Start, TypeInv, TypeOK, InHand, ConstantsAssumption, Quiet
<1>2. CASE ClaimNextQueued(c)
  BY <1>2 DEF ClaimNextQueued, TypeInv, TypeOK, InHand, ConstantsAssumption
<1>3. CASE Pick(c)
  BY <1>3 DEF Pick, TypeInv, TypeOK, InHand, ConstantsAssumption, Quiet
<1>4. CASE GateExpire(c)
  BY <1>4 DEF GateExpire, TypeInv, TypeOK, InHand, ConstantsAssumption, GateWrite, TryUpdateStatus, UpdateStatus
<1>5. CASE GateReject(c)
  BY <1>5 DEF GateReject, TypeInv, TypeOK, InHand, ConstantsAssumption, GateWrite, TryUpdateStatus, UpdateStatus
<1>6. CASE DedupeClaim(c)
  <2>1. cur[c] \in Intents BY <1>6 DEF DedupeClaim, TypeInv, InHand
  <2>2. dstatus' \in [Intents -> DedupeStatuses]
    BY <1>6, <2>1 DEF DedupeClaim, TypeInv, TypeOK
  <2>3. pc' \in [Consumers -> ConsumerSteps]
    BY <1>6, <2>1 DEF DedupeClaim, TypeInv, TypeOK
  <2>4. InHand'
    BY <1>6, <2>1 DEF DedupeClaim, TypeInv, InHand, TypeOK
  <2> QED BY <1>6, <2>1, <2>2, <2>3, <2>4 DEF DedupeClaim, TypeInv, TypeOK
<1>7. CASE SubmitAccepted(c)
  <2>1. cur[c] \in Intents BY <1>7 DEF SubmitAccepted, TypeInv, InHand
  <2>2. venue' \in [Intents -> Nat]
    BY <1>7, <2>1 DEF SubmitAccepted, TypeInv, TypeOK
  <2>3. oid' \in [Consumers -> Nat]
    BY <1>7, <2>1 DEF SubmitAccepted, TypeInv, TypeOK
  <2>4. nxt' \in [Consumers -> {"submitted", "submit_unknown", "rejected"}]
    BY <1>7, <2>1 DEF SubmitAccepted, TypeInv, TypeOK
  <2>5. pc' \in [Consumers -> ConsumerSteps]
    BY <1>7, <2>1 DEF SubmitAccepted, TypeInv, TypeOK
  <2>6. InHand'
    BY <1>7, <2>1 DEF SubmitAccepted, TypeInv, InHand, TypeOK
  <2> QED BY <1>7, <2>1, <2>2, <2>3, <2>4, <2>5, <2>6 DEF SubmitAccepted, TypeInv, TypeOK
<1>8. CASE SubmitTimeout(c)
  BY <1>8 DEF SubmitTimeout, TypeInv, TypeOK, InHand, ConstantsAssumption
<1>9. CASE MarkUnknown(c)
  BY <1>9 DEF MarkUnknown, TypeInv, TypeOK, InHand, ConstantsAssumption
<1>10. CASE Mark(c)
  <2>1. cur[c] \in Intents BY <1>10 DEF Mark, TypeInv, InHand
  <2>2. dstatus' \in [Intents -> DedupeStatuses] /\ doid' \in [Intents -> Nat]
    BY <1>10, <2>1 DEF Mark, TypeInv, TypeOK, MarkSubmitted
  <2>3. pc' \in [Consumers -> ConsumerSteps]
    BY <1>10, <2>1 DEF Mark, TypeInv, TypeOK, MarkSubmitted
  <2>4. InHand'
    BY <1>10, <2>1 DEF Mark, TypeInv, InHand, TypeOK
  <2> QED BY <1>10, <2>1, <2>2, <2>3, <2>4 DEF Mark, TypeInv, TypeOK
<1>11. CASE Write(c)
  <2>1. cur[c] \in Intents BY <1>11 DEF Write, TypeInv, InHand
  <2>2. qstatus' \in [Intents -> RowStatuses] /\ qoid' \in [Intents -> Nat]
    BY <1>11, <2>1 DEF Write, TypeInv, TypeOK, UpdateStatus
  <2>3. pc' \in [Consumers -> ConsumerSteps]
    BY <1>11, <2>1 DEF Write, TypeInv, TypeOK, UpdateStatus
  <2>4. InHand'
    BY <1>11, <2>1 DEF Write, TypeInv, InHand, TypeOK
  <2> QED BY <1>11, <2>1, <2>2, <2>3, <2>4 DEF Write, TypeInv, TypeOK
<1>12. CASE WriteLedger(c)
  BY <1>12 DEF WriteLedger, TypeInv, TypeOK, InHand, ConstantsAssumption
<1>13. CASE Crash(c)
  BY <1>13 DEF Crash, TypeInv, TypeOK, InHand, ConstantsAssumption
<1>14. CASE Finish(c)
  BY <1>14, TypeStep DEF Finish
<1>15. CASE RecoverSkip(c)
  <2>1. cur[c] \in Intents BY <1>15 DEF RecoverSkip, TypeInv, InHand
  <2> QED BY <1>15, <2>1 DEF RecoverSkip, Quiet, TypeInv, TypeOK, InHand
<1>16. CASE GatePass(c)
  BY <1>16, TypeStep DEF GatePass
<1>17. CASE FindMiss(c)
  <2>1. cur[c] \in Intents BY <1>17 DEF FindMiss, TypeInv, InHand
  <2>2. missed' \in SUBSET Intents BY <1>17, <2>1, MissType DEF FindMiss
  <2> QED BY <1>17, <2>1, <2>2 DEF FindMiss, Quiet, TypeInv, TypeOK, InHand
<1>18. CASE SubmitRefused(c)
  BY <1>18, TypeStep DEF SubmitRefused
<1>19. CASE StoreError(c)
  BY <1>19, TypeStep DEF StoreError
<1>20. CASE RouteReject(c)
  BY <1>20, TypeDecided DEF RouteReject, Decide, Report
<1>21. CASE RoutePass(c)
  BY <1>21, TypeDecided DEF RoutePass, Decide, Report, TypeInv, TypeOK
<1>22. CASE AdapterFails(c)
  BY <1>22, TypeDecided DEF AdapterFails, Decide, Report
<1>23. CASE RecoverMiss(c)
  BY <1>23, TypeDecide, MissType DEF RecoverMiss, TypeInv, InHand
<1>24. CASE HandlerMiss(c)
  BY <1>24, TypeDecide, MissType DEF HandlerMiss, TypeInv, InHand
<1>25. CASE RecoverFound(c)
  <2>1. cur[c] \in Intents BY <1>25 DEF RecoverFound, TypeInv, InHand
  <2>2. \A o \in LookupHits(cur[c]) : o \in Nat BY <2>1, LookupHitsNat
  <2> QED BY <1>25, <2>2, TypeDecided DEF RecoverFound, Decide, Report
<1>26. CASE FindHit(c)
  <2>1. cur[c] \in Intents BY <1>26 DEF FindHit, TypeInv, InHand
  <2>2. \A o \in LookupHits(cur[c]) : o \in Nat BY <2>1, LookupHitsNat
  <2> QED BY <1>26, <2>2, TypeDecided DEF FindHit, Decide, Report
<1>27. CASE HandlerHit(c)
  <2>1. cur[c] \in Intents BY <1>27 DEF HandlerHit, TypeInv, InHand
  <2>2. \A o \in LookupHits(cur[c]) : o \in Nat BY <2>1, LookupHitsNat
  <2> QED BY <1>27, <2>2, TypeDecided DEF HandlerHit, Decide, Report
<1> QED
  BY <1>1, <1>2, <1>3, <1>4, <1>5, <1>6, <1>7, <1>8, <1>9, <1>10, <1>11, <1>12, <1>13, <1>14, <1>15, <1>16, <1>17, <1>18, <1>19, <1>20, <1>21, <1>22, <1>23, <1>24, <1>25, <1>26, <1>27 DEF Consumer

(* Every step of the reconciler preserves the types. *)
LEMMA TypeRecon ==
  ASSUME TypeInv, ConstantsAssumption, Recon \/ ReconCrash
  PROVE  TypeInv'
<1> USE DEF queueVars, dedupeVars, venueVars, consumerVars, reconVars, envVars, boundVars, histVars
<1>1. CASE ReconStart
  BY <1>1 DEF ReconStart, TypeInv, TypeOK, InHand
<1>2. CASE ReconWrite
  <2>1. rcur \in Intents BY <1>2 DEF ReconWrite, TypeInv, InHand
  <2>2. qstatus' \in [Intents -> RowStatuses] /\ qoid' \in [Intents -> Nat]
    BY <1>2, <2>1 DEF ReconWrite, UpdateStatus, TypeInv, TypeOK
  <2>3. rpc' \in ReconSteps BY <1>2 DEF ReconWrite
  <2> QED BY <1>2, <2>1, <2>2, <2>3 DEF ReconWrite, TypeInv, TypeOK, InHand
<1>3. CASE ReconLedger
  BY <1>3 DEF ReconLedger, TypeInv, TypeOK, InHand
<1>4. CASE ReconClear
  <2>1. obs' \in [Intents -> 0..MinObs]
    BY <1>4 DEF ReconClear, TypeInv, TypeOK, ConstantsAssumption
  <2> QED BY <1>4, <2>1 DEF ReconClear, TypeInv, TypeOK, InHand
<1>5. CASE ReconFinish
  BY <1>5 DEF ReconFinish, TypeInv, TypeOK, InHand
<1>6. ASSUME NEW i \in Intents, NEW n \in ReconTargets, NEW o \in Nat,
             ReconDecide(i, n, o), obs' \in [Intents -> 0..MinObs],
             missed' \in SUBSET Intents
      PROVE  TypeInv'
  BY <1>6 DEF ReconDecide, TypeInv, TypeOK, InHand
<1>7. ASSUME NEW i \in Intents, RecordNotFound(i)
      PROVE  obs' \in [Intents -> 0..MinObs]
  BY <1>7 DEF RecordNotFound, TypeInv, TypeOK, ConstantsAssumption
<1>8. ASSUME NEW i \in Intents, ReconFound(i)
      PROVE  TypeInv'
  <2>1. PICK o \in LookupHits(i) : ReconDecide(i, "submitted", o) BY <1>8 DEF ReconFound
  <2>2. o \in Nat BY LookupHitsNat
  <2>3. obs' \in [Intents -> 0..MinObs] /\ missed' \in SUBSET Intents
    BY <1>8 DEF ReconFound, TypeInv, TypeOK
  <2> QED BY <2>1, <2>2, <2>3, <1>6
<1>9. ASSUME NEW i \in Intents, ReconGiveUp(i)
      PROVE  TypeInv'
  BY <1>9, <1>6, <1>7, MissType DEF ReconGiveUp
<1>10. ASSUME NEW i \in Intents, ReconSkip(i), obs' \in [Intents -> 0..MinObs],
              missed' \in SUBSET Intents
       PROVE  TypeInv'
  BY <1>10 DEF ReconSkip, TypeInv, TypeOK, InHand
<1>11. ASSUME NEW i \in Intents, ReconMiss(i) \/ ReconMissUnsaved(i)
       PROVE  TypeInv'
  <2>1. obs' \in [Intents -> 0..MinObs]
    BY <1>11, <1>7 DEF ReconMiss, ReconMissUnsaved, TypeInv, TypeOK
  <2> QED BY <1>11, <2>1, <1>10, MissType DEF ReconMiss, ReconMissUnsaved
<1>12. CASE ReconCrash
  BY <1>12 DEF ReconCrash, TypeInv, TypeOK, InHand, ConstantsAssumption
<1> QED
  BY <1>1, <1>2, <1>3, <1>4, <1>5, <1>8, <1>9, <1>11, <1>12 DEF Recon

(* So does every step of the environment. *)
LEMMA TypeEnv ==
  ASSUME TypeInv, ConstantsAssumption,
         \/ \E i \in Intents : Enqueue(i) \/ ForceDelete(i) \/ Network(i)
         \/ Backup \/ Restore
  PROVE  TypeInv'
<1> USE DEF queueVars, dedupeVars, venueVars, consumerVars, reconVars, envVars, boundVars, histVars
<1>1. ASSUME NEW i \in Intents, Enqueue(i) PROVE TypeInv'
  BY <1>1 DEF Enqueue, TypeInv, TypeOK, InHand
<1>2. ASSUME NEW i \in Intents, ForceDelete(i) PROVE TypeInv'
  BY <1>2 DEF ForceDelete, TypeInv, TypeOK, InHand
<1>3. ASSUME NEW i \in Intents, Deliver(i) PROVE TypeInv'
  BY <1>3 DEF Deliver, TypeInv, TypeOK, InHand
<1>4. ASSUME NEW i \in Intents, Lose(i) PROVE TypeInv'
  BY <1>4 DEF Lose, TypeInv, TypeOK, InHand
<1>5. CASE Backup
  <2>1. bk \in Backups BY DEF TypeInv, TypeOK
  <2>2. bk' \in Backups
    <3>1. CASE bk' = [bk EXCEPT !.stage = "dedupe", !.dstatus = dstatus, !.doid = doid]
      BY <2>1, <3>1 DEF TypeInv, TypeOK, Backups
    <3>2. CASE bk' = [bk EXCEPT !.stage = "queue", !.qstatus = qstatus, !.qoid = qoid, !.obs = obs]
      BY <2>1, <3>2 DEF TypeInv, TypeOK, Backups
    <3>3. CASE bk' = [bk EXCEPT !.stage = "complete", !.lstatus = lstatus]
      BY <2>1, <3>3 DEF TypeInv, TypeOK, Backups
    <3> QED BY <1>5, <3>1, <3>2, <3>3 DEF Backup
  <2> QED BY <1>5, <2>2 DEF Backup, TypeInv, TypeOK, InHand
<1>6. CASE Restore
  <2>1. /\ bk.dstatus \in [Intents -> DedupeStatuses] /\ bk.doid \in [Intents -> Nat]
        /\ bk.qstatus \in [Intents -> RowStatuses] /\ bk.qoid \in [Intents -> Nat]
        /\ bk.obs \in [Intents -> 0..MinObs] /\ bk.lstatus \in [Intents -> LedgerStatuses]
    BY DEF TypeInv, TypeOK, Backups
  <2>2. bk' = [bk EXCEPT !.stage = "none", !.restores = bk.restores + 1]
    BY <1>6 DEF Restore
  <2>3. bk' \in Backups
    <3>1. bk \in Backups BY DEF TypeInv, TypeOK
    <3>2. bk.restores + 1 \in Nat BY <3>1 DEF Backups
    <3>3. \A n \in Nat : [bk EXCEPT !.stage = "none", !.restores = n] \in Backups
      BY <3>1 DEF Backups
    <3> QED BY <2>2, <3>2, <3>3
  <2> QED BY <1>6, <2>1, <2>3 DEF Restore, TypeInv, TypeOK, InHand
<1> QED BY <1>1, <1>2, <1>3, <1>4, <1>5, <1>6 DEF Network

(* Stuttering changes no type. *)
LEMMA TypeStutter == ASSUME TypeInv, UNCHANGED vars PROVE TypeInv'
  BY DEF TypeInv, TypeOK, InHand, vars, queueVars, dedupeVars, venueVars, consumerVars,
         reconVars, envVars, boundVars, histVars

(* One step of the system preserves the types. *)
LEMMA TypeNext == ASSUME TypeInv, ConstantsAssumption, [Next]_vars PROVE TypeInv'
  BY TypeConsumer, TypeRecon, TypeEnv, TypeStutter DEF Next

(* So it holds always. *)
LEMMA TypesAlways == Spec => []TypeInv
<1>1. Init => TypeInv BY TypeInit, ConstantsAssumption
<1>2. TypeInv /\ [Next]_vars => TypeInv' BY TypeNext, ConstantsAssumption
<1> QED BY <1>1, <1>2, PTL DEF Spec

(* Type correctness: every variable keeps its type in every reachable      *)
(* state, and a process past its pick holds an intent.                     *)
THEOREM TypeCorrect == Spec => []TypeOK
<1>1. TypeInv => TypeOK BY DEF TypeInv
<1> QED BY <1>1, TypesAlways, PTL

-----------------------------------------------------------------------------
(* One order at most. The dedupe row is what separates the one consumer    *)
(* that may send from all others: while it does not exist nothing was      *)
(* sent, and the consumer that inserted it is alone past the claim and has *)
(* not sent yet. AtMostOneOrder by itself is not inductive: it says        *)
(* nothing of a consumer about to send.                                    *)

Sending(c) == pc[c] \in {"route", "find", "submit"}

UnclaimedUnsent == \A i \in Intents : dstatus[i] = "none" => Exposure(i) = 0

SenderFirst ==
  \A c \in Consumers : Sending(c) => Exposure(cur[c]) = 0 /\ dstatus[cur[c]] # "none"

SenderAlone ==
  \A c, d \in Consumers : Sending(c) /\ Sending(d) /\ cur[c] = cur[d] => c = d

SentOnce == \A i \in Intents : Exposure(i) <= 1

OrderInv == UnclaimedUnsent /\ SenderFirst /\ SenderAlone /\ SentOnce

(* A step that sends nothing, removes no dedupe row and brings no consumer *)
(* past its claim, nor to its send without a lookup that missed.           *)
CarriesOn ==
  /\ UNCHANGED venueVars
  /\ missed \subseteq missed'
  /\ \A i \in Intents : dstatus'[i] = "none" => dstatus[i] = "none"
  /\ \A c \in Consumers : Sending(c)' =>
       /\ Sending(c) /\ cur'[c] = cur[c]
       /\ pc'[c] = "submit" => pc[c] = "submit" \/ LookupMiss(cur[c])

(* It preserves the invariant. *)
LEMMA OrderFrame ==
  ASSUME TypeInv, OrderInv, CarriesOn
  PROVE  OrderInv'
<1>1. \A c \in Consumers : Sending(c) => cur[c] \in Intents
  BY DEF Sending, TypeInv, InHand
<1> QED
  BY <1>1 DEF OrderInv, UnclaimedUnsent, SenderFirst, SenderAlone, SentOnce,
     Exposure, venueVars, CarriesOn

(* The steps of a consumer that neither claim nor send. *)
LEMMA OrderConsumerQuiet ==
  ASSUME TypeInv, NEW c \in Consumers,
         \/ Start(c) \/ ClaimNextQueued(c) \/ Pick(c) \/ GateExpire(c)
         \/ GateReject(c) \/ MarkUnknown(c) \/ Mark(c) \/ Write(c)
         \/ WriteLedger(c) \/ Crash(c) \/ Finish(c) \/ RecoverSkip(c)
         \/ GatePass(c) \/ FindMiss(c) \/ SubmitRefused(c) \/ StoreError(c)
         \/ RecoverFound(c) \/ FindHit(c) \/ HandlerHit(c) \/ RouteReject(c)
         \/ RoutePass(c) \/ AdapterFails(c) \/ RecoverMiss(c) \/ HandlerMiss(c)
  PROVE  CarriesOn
<1> USE DEF Goto, Sending, queueVars, dedupeVars, venueVars, consumerVars, reconVars, envVars, boundVars, histVars,
            TypeInv, TypeOK, CarriesOn
<1>1. CASE Start(c)
  BY <1>1 DEF Start, Quiet
<1>2. CASE ClaimNextQueued(c)
  BY <1>2 DEF ClaimNextQueued
<1>3. CASE Pick(c)
  BY <1>3 DEF Pick, Quiet
<1>4. CASE GateExpire(c)
  BY <1>4 DEF GateExpire, GateWrite
<1>5. CASE GateReject(c)
  BY <1>5 DEF GateReject, GateWrite
<1>6. CASE MarkUnknown(c)
  BY <1>6 DEF MarkUnknown
<1>7. CASE Mark(c)
  BY <1>7 DEF Mark, MarkSubmitted
<1>8. CASE Write(c)
  BY <1>8 DEF Write
<1>9. CASE WriteLedger(c)
  BY <1>9 DEF WriteLedger
<1>10. CASE Crash(c)
  BY <1>10 DEF Crash
<1>11. ASSUME NEW from, NEW to, Step(c, from, to),
            to \in {"route", "find", "submit"} => from \in {"route", "find", "submit"},
            to # "submit"
      PROVE  CarriesOn
  BY <1>11 DEF Step, Quiet
<1>12. CASE \/ Finish(c) \/ GatePass(c) \/ SubmitRefused(c) \/ StoreError(c)
  BY <1>12, <1>11 DEF Finish, GatePass, SubmitRefused, StoreError
<1>14. CASE RecoverSkip(c) \/ FindMiss(c)
  BY <1>14 DEF RecoverSkip, FindMiss, LookupMiss, Quiet
<1>13. CASE \/ RecoverFound(c) \/ FindHit(c) \/ HandlerHit(c) \/ RouteReject(c)
           \/ RoutePass(c) \/ AdapterFails(c) \/ RecoverMiss(c) \/ HandlerMiss(c)
  <2>1. CASE RecoverFound(c) \/ RecoverMiss(c)
    BY <2>1 DEF Decide, Report, Quiet, RecoverFound, RecoverMiss, LookupMiss
  <2>2. CASE FindHit(c) \/ AdapterFails(c)
    BY <2>2 DEF Decide, Report, Quiet, FindHit, AdapterFails
  <2>3. CASE HandlerHit(c) \/ HandlerMiss(c)
    BY <2>3 DEF Decide, Report, Quiet, HandlerHit, HandlerMiss, LookupMiss
  <2>4. CASE RouteReject(c)
    BY <2>4 DEF Decide, Report, Quiet, RouteReject
  <2>5. CASE RoutePass(c)
    BY <2>5 DEF Decide, Report, Quiet, RoutePass
  <2> QED
    BY <1>13, <2>1, <2>2, <2>3, <2>4, <2>5
<1> QED BY <1>1, <1>2, <1>3, <1>4, <1>5, <1>6, <1>7, <1>8, <1>9, <1>10, <1>11, <1>12, <1>13, <1>14

(* The claim brings at most one consumer past it, and only one that found  *)
(* no dedupe row: nothing was sent so far.                                 *)
LEMMA OrderClaim ==
  ASSUME TypeInv, OrderInv, NEW c \in Consumers, DedupeClaim(c)
  PROVE  OrderInv'
<1> DEFINE i == cur[c]
<1>1. i \in Intents BY DEF DedupeClaim, TypeInv, InHand
<1>2. CASE dstatus[i] = "none"
  <2>1. Exposure(i) = 0 BY <1>1, <1>2 DEF OrderInv, UnclaimedUnsent
  <2>2. \A d \in Consumers : d # c => pc'[d] = pc[d] BY DEF DedupeClaim, Goto, TypeInv, TypeOK
  <2>3. cur' = cur /\ venue' = venue /\ wire' = wire BY DEF DedupeClaim, venueVars
  <2>4. dstatus' = [dstatus EXCEPT ![i] = "created"]
    BY <1>1, <1>2 DEF DedupeClaim, TypeInv, TypeOK
  <2>5. \A d \in Consumers : Sending(d) => cur[d] \in Intents /\ cur[d] # i
    BY <1>2 DEF OrderInv, SenderFirst, Sending, TypeInv, InHand
  <2>6. UnclaimedUnsent' /\ SentOnce'
    BY <1>1, <2>3, <2>4 DEF OrderInv, UnclaimedUnsent, SentOnce, Exposure, TypeInv, TypeOK
  <2>7. SenderFirst'
    BY <1>1, <2>1, <2>2, <2>3, <2>4, <2>5
    DEF OrderInv, SenderFirst, Sending, Exposure, TypeInv, TypeOK
  <2>8. SenderAlone'
    BY <2>2, <2>3, <2>5 DEF OrderInv, SenderAlone, Sending
  <2> QED BY <2>6, <2>7, <2>8 DEF OrderInv
<1>3. CASE dstatus[i] # "none"
  BY <1>1, <1>3, OrderFrame DEF DedupeClaim, MaySend, Goto, Sending, venueVars, TypeInv, TypeOK, CarriesOn,
     envVars, histVars
<1> QED BY <1>2, <1>3

(* The send is the first one, and whoever sends leaves the senders.        *)
LEMMA OrderSend ==
  ASSUME TypeInv, OrderInv, NEW c \in Consumers, SubmitAccepted(c) \/ SubmitTimeout(c)
  PROVE  OrderInv'
<1> DEFINE i == cur[c]
<1>1. Sending(c) /\ i \in Intents
  BY DEF SubmitAccepted, SubmitTimeout, Sending, TypeInv, InHand
<1>2. Exposure(i) = 0 /\ dstatus[i] # "none" BY <1>1 DEF OrderInv, SenderFirst
<1>3. /\ cur' = cur /\ dstatus' = dstatus
      /\ \A d \in Consumers : Sending(d)' => Sending(d) /\ d # c
  BY DEF SubmitAccepted, SubmitTimeout, Goto, Sending, dedupeVars, TypeInv, TypeOK
<1>4. Exposure(i)' = 1 /\ \A j \in Intents : j # i => Exposure(j)' = Exposure(j)
  <2>1. CASE SubmitAccepted(c)
    BY <2>1, <1>1, <1>2 DEF SubmitAccepted, Exposure, TypeInv, TypeOK
  <2>2. CASE SubmitTimeout(c)
    BY <2>2, <1>1, <1>2 DEF SubmitTimeout, Exposure, TypeInv, TypeOK
  <2> QED BY <2>1, <2>2
<1>5. \A d \in Consumers : Sending(d)' => cur[d] \in Intents /\ cur[d] # i
  BY <1>1, <1>3 DEF OrderInv, SenderAlone, Sending, TypeInv, InHand
<1>6. UnclaimedUnsent' BY <1>2, <1>3, <1>4 DEF OrderInv, UnclaimedUnsent
<1>7. SenderFirst' BY <1>3, <1>4, <1>5 DEF OrderInv, SenderFirst
<1>8. SenderAlone' BY <1>3 DEF OrderInv, SenderAlone
<1>9. SentOnce'
  <2>1. \A j \in Intents : Exposure(j)' <= 1 BY <1>1, <1>3, <1>4 DEF OrderInv, SentOnce
  <2> QED BY <2>1 DEF SentOnce, Exposure
<1> QED BY <1>6, <1>7, <1>8, <1>9 DEF OrderInv

(* The reconciler sends nothing. *)
LEMMA OrderRecon ==
  ASSUME Recon \/ ReconCrash
  PROVE  CarriesOn
  BY DEF CarriesOn, Recon, ReconCrash, ReconStart, ReconWrite, ReconLedger, ReconClear,
     ReconFinish, ReconFound, ReconGiveUp, ReconMiss, ReconMissUnsaved, ReconDecide,
     ReconSkip, LookupMiss, Sending, dedupeVars, venueVars, consumerVars,
     envVars, histVars

(* A producer, an administrator and a backup remove no dedupe row. *)
LEMMA OrderStores ==
  ASSUME (\E i \in Intents : Enqueue(i) \/ ForceDelete(i)) \/ Backup \/ UNCHANGED vars
  PROVE  CarriesOn
  BY DEF CarriesOn, Enqueue, ForceDelete, Backup, vars, Sending, dedupeVars, venueVars, consumerVars,
     envVars, histVars

(* The network creates no request. *)
LEMMA OrderNetwork ==
  ASSUME TypeInv, OrderInv, NEW i \in Intents, Network(i)
  PROVE  OrderInv'
<1>1. dstatus' = dstatus /\ pc' = pc /\ cur' = cur
  BY DEF Network, Deliver, Lose, dedupeVars, consumerVars
<1>2. \A j \in Intents : Exposure(j) \in Nat /\ Exposure(j)' \in Nat /\ Exposure(j)' <= Exposure(j)
  <2>1. CASE Deliver(i) BY <2>1 DEF Deliver, Exposure, TypeInv, TypeOK
  <2>2. CASE Lose(i) BY <2>2 DEF Lose, Exposure, TypeInv, TypeOK
  <2> QED BY <2>1, <2>2 DEF Network
<1>3. \A c \in Consumers : Sending(c) => cur[c] \in Intents
  BY DEF Sending, TypeInv, InHand
<1>4. UnclaimedUnsent' /\ SentOnce'
  BY <1>1, <1>2 DEF OrderInv, UnclaimedUnsent, SentOnce
<1>5. SenderFirst' /\ SenderAlone'
  BY <1>1, <1>2, <1>3 DEF OrderInv, SenderFirst, SenderAlone, Sending
<1> QED BY <1>4, <1>5 DEF OrderInv

(* The processes do not touch the copies. *)
LEMMA ProcessesKeepBackup ==
  ASSUME Recon \/ ReconCrash \/ \E c \in Consumers : Consumer(c) \/ Crash(c)
  PROVE  bk' = bk
<1>1. ASSUME NEW c \in Consumers, Consumer(c) \/ Crash(c)
      PROVE  bk' = bk
  BY <1>1 DEF Consumer, DedupeClaim, SubmitAccepted, SubmitTimeout, MarkUnknown, Mark, WriteLedger, Crash,
     GateExpire, GateReject, GateWrite, Write, ClaimNextQueued, Start, Pick, Finish, RecoverFound, RecoverMiss,
     RecoverSkip, GatePass, RouteReject, RoutePass, AdapterFails, FindHit, FindMiss, SubmitRefused, StoreError,
     HandlerHit, HandlerMiss, Step, Decide, Report, Quiet, envVars, boundVars, histVars
<1>2. CASE Recon \/ ReconCrash
  BY <1>2 DEF envVars, boundVars, histVars, Recon, ReconCrash, ReconStart, ReconWrite, ReconLedger, ReconClear, ReconFinish,
     ReconFound, ReconGiveUp, ReconMiss, ReconMissUnsaved, ReconDecide, ReconSkip
<1> QED
  BY <1>1, <1>2

(* Nothing but a backup and a restore does. *)
LEMMA BackupFrame ==
  ASSUME TypeInv, [Next]_vars
  PROVE  Backup \/ Restore \/ bk' = bk
<1>1. CASE UNCHANGED vars \/ \E i \in Intents : Enqueue(i) \/ ForceDelete(i) \/ Network(i)
  BY <1>1 DEF vars, envVars, boundVars, histVars, Enqueue, ForceDelete, Network, Deliver, Lose
<1> QED
  BY <1>1, ProcessesKeepBackup DEF Next

(* No failed lookup is forgotten. *)
LEMMA MissedGrows ==
  ASSUME TypeInv, [Next]_vars
  PROVE  missed \subseteq missed'
<1>1. ASSUME NEW c \in Consumers, DedupeClaim(c) \/ SubmitAccepted(c) \/ SubmitTimeout(c)
      PROVE  missed \subseteq missed'
  BY <1>1 DEF DedupeClaim, SubmitAccepted, SubmitTimeout, envVars, histVars
<1>2. ASSUME NEW c \in Consumers, Consumer(c) \/ Crash(c)
      PROVE  missed \subseteq missed'
  BY <1>1, <1>2, OrderConsumerQuiet DEF Consumer, CarriesOn
<1>3. CASE Restore \/ \E i \in Intents : Network(i)
  BY <1>3 DEF Restore, Network, Deliver, Lose, envVars, histVars
<1> QED
  BY <1>2, <1>3, OrderRecon, OrderStores DEF Next, CarriesOn

(* Restores are counted, and nothing takes the count back. *)
LEMMA BackupCounts ==
  ASSUME TypeInv, [Next]_vars, bk'.restores = 0
  PROVE  ~ Restore /\ bk.restores = 0
<1>1. bk \in Backups /\ bk.restores \in Nat
  BY DEF TypeInv, TypeOK, Backups
<1>2. Restore => bk'.restores = bk.restores + 1
  BY <1>1 DEF Restore, Backups
<1>3. Backup => bk'.restores = bk.restores
  BY <1>1 DEF Backup, Backups
<1> QED
  BY <1>1, <1>2, <1>3, BackupFrame

(* So until a backup is restored every intent is sent once at most. *)
LEMMA OrderAlways == Spec => [](bk.restores = 0 => OrderInv)
<1>1. Init => TypeInv /\ OrderInv
  <2>1. Init => TypeInv BY TypeInit, ConstantsAssumption
  <2>2. Init => OrderInv
    BY DEF Init, OrderInv, UnclaimedUnsent, SenderFirst, SenderAlone, Sending,
           SentOnce, Exposure
  <2> QED BY <2>1, <2>2
<1>2. /\ TypeInv /\ (bk.restores = 0 => OrderInv) /\ [Next]_vars
      => (TypeInv /\ (bk.restores = 0 => OrderInv))'
  <2> SUFFICES ASSUME TypeInv, bk.restores = 0 => OrderInv, [Next]_vars
               PROVE  TypeInv' /\ (bk'.restores = 0 => OrderInv')
    OBVIOUS
  <2>1. TypeInv' BY TypeNext, ConstantsAssumption
  <2> SUFFICES ASSUME bk'.restores = 0 PROVE OrderInv'
    BY <2>1
  <2>2. ~ Restore /\ bk.restores = 0
    BY BackupCounts
  <2>3. ASSUME NEW c \in Consumers, Consumer(c) \/ Crash(c) PROVE OrderInv'
    BY <2>2, <2>3, OrderFrame, OrderConsumerQuiet, OrderClaim, OrderSend DEF Consumer
  <2> QED BY <2>2, <2>3, OrderFrame, OrderRecon, OrderStores, OrderNetwork DEF Next
<1> QED BY <1>1, <1>2, PTL DEF Spec

-----------------------------------------------------------------------------
(* One order at most, with backups restored.  A restored dedupe file may   *)
(* lack the row of an intent that was sent, so that its claim says nothing *)
(* any more; what is left is the lookup before the send, as long as it     *)
(* sees the order, and that a restore waits until no request is in the     *)
(* network.                                                                *)

(* A request in the network has its dedupe row. *)
WireClaimed == \A i \in Intents : wire[i] > 0 => dstatus[i] # "none"

(* A sender's claim holds, no request for its intent is in the network,    *)
(* and when it comes to send the venue has no order that a lookup saw.     *)
SenderChecked ==
  \A c \in Consumers :
    /\ Sending(c) => wire[cur[c]] = 0 /\ dstatus[cur[c]] # "none"
    /\ pc[c] = "submit" /\ cur[c] \notin missed => venue[cur[c]] = 0

SeenSentOnce == \A i \in Intents \ missed : Exposure(i) <= 1

CheckedInv == WireClaimed /\ SenderChecked /\ SenderAlone /\ SeenSentOnce

(* A step that carries on preserves it. *)
LEMMA CheckedFrame ==
  ASSUME TypeInv, CheckedInv, CarriesOn
  PROVE  CheckedInv'
<1>1. \A c \in Consumers : Sending(c) => cur[c] \in Intents
  BY DEF Sending, TypeInv, InHand
<1>2. \A c \in Consumers : pc'[c] = "submit" => Sending(c)'
  BY DEF Sending
<1>3. venue' = venue /\ wire' = wire
  BY DEF CarriesOn, venueVars
<1>4. WireClaimed' /\ SeenSentOnce'
  BY <1>3 DEF CheckedInv, WireClaimed, SeenSentOnce, Exposure, CarriesOn
<1>5. SenderAlone'
  BY DEF CheckedInv, SenderAlone, CarriesOn
<1>6. SenderChecked'
  BY <1>1, <1>2, <1>3 DEF CheckedInv, SenderChecked, CarriesOn, LookupMiss
<1> QED
  BY <1>4, <1>5, <1>6 DEF CheckedInv

(* The claim. *)
LEMMA CheckedClaim ==
  ASSUME TypeInv, CheckedInv, NEW c \in Consumers, DedupeClaim(c)
  PROVE  CheckedInv'
<1> DEFINE i == cur[c]
<1>1. i \in Intents BY DEF DedupeClaim, TypeInv, InHand
<1>2. CASE dstatus[i] = "none"
  <2>1. wire[i] = 0 BY <1>1, <1>2 DEF CheckedInv, WireClaimed, TypeInv, TypeOK
  <2>2. \A d \in Consumers : d # c => pc'[d] = pc[d] BY DEF DedupeClaim, Goto, TypeInv, TypeOK
  <2>3. cur' = cur /\ venue' = venue /\ wire' = wire /\ missed' = missed
    BY DEF DedupeClaim, venueVars, envVars, histVars
  <2>4. dstatus' = [dstatus EXCEPT ![i] = "created"]
    BY <1>1, <1>2 DEF DedupeClaim, TypeInv, TypeOK
  <2>5. \A d \in Consumers : Sending(d) => cur[d] \in Intents /\ cur[d] # i
    BY <1>2 DEF CheckedInv, SenderChecked, Sending, TypeInv, InHand
  <2>6. WireClaimed' /\ SeenSentOnce'
    BY <1>1, <2>3, <2>4 DEF CheckedInv, WireClaimed, SeenSentOnce, Exposure, TypeInv, TypeOK
  <2>7. pc'[c] # "submit"
    BY DEF DedupeClaim, Goto, TypeInv, TypeOK
  <2>8. SenderChecked'
    BY <1>1, <2>1, <2>2, <2>3, <2>4, <2>5, <2>7
    DEF CheckedInv, SenderChecked, Sending, TypeInv, TypeOK
  <2>9. SenderAlone'
    BY <2>2, <2>3, <2>5 DEF CheckedInv, SenderAlone, Sending
  <2> QED BY <2>6, <2>8, <2>9 DEF CheckedInv
<1>3. CASE dstatus[i] # "none"
  <2>1. CarriesOn
    BY <1>1, <1>3 DEF DedupeClaim, MaySend, Goto, Sending, venueVars, TypeInv, TypeOK, CarriesOn,
       envVars, histVars
  <2> QED
    BY <2>1, CheckedFrame
<1> QED BY <1>2, <1>3

(* The send. *)
LEMMA CheckedSend ==
  ASSUME TypeInv, CheckedInv, NEW c \in Consumers, SubmitAccepted(c) \/ SubmitTimeout(c)
  PROVE  CheckedInv'
<1> DEFINE i == cur[c]
<1>1. Sending(c) /\ pc[c] = "submit" /\ i \in Intents
  BY DEF SubmitAccepted, SubmitTimeout, Sending, TypeInv, InHand
<1>2. wire[i] = 0 /\ (i \notin missed => venue[i] = 0) /\ dstatus[i] # "none"
  BY <1>1 DEF CheckedInv, SenderChecked
<1>3. /\ cur' = cur /\ dstatus' = dstatus /\ missed' = missed
      /\ \A d \in Consumers : Sending(d)' => Sending(d) /\ d # c
      /\ \A d \in Consumers : pc'[d] = "submit" => pc[d] = "submit" /\ Sending(d)'
  BY DEF SubmitAccepted, SubmitTimeout, Goto, Sending, dedupeVars, TypeInv, TypeOK,
         envVars, histVars
<1>4. \A d \in Consumers : Sending(d)' => cur[d] \in Intents /\ cur[d] # i
  BY <1>1, <1>3 DEF CheckedInv, SenderAlone, Sending, TypeInv, InHand
<1>5. /\ venue'[i] \in Nat /\ wire'[i] \in Nat
      /\ i \notin missed => venue'[i] + wire'[i] = 1
      /\ \A j \in Intents : j # i => venue'[j] = venue[j] /\ wire'[j] = wire[j]
  <2>1. CASE SubmitAccepted(c)
    BY <2>1, <1>1, <1>2 DEF SubmitAccepted, TypeInv, TypeOK
  <2>2. CASE SubmitTimeout(c)
    BY <2>2, <1>1, <1>2 DEF SubmitTimeout, TypeInv, TypeOK
  <2> QED BY <2>1, <2>2
<1>6. WireClaimed' BY <1>2, <1>3, <1>5 DEF CheckedInv, WireClaimed
<1>7. SenderChecked' BY <1>3, <1>4, <1>5 DEF CheckedInv, SenderChecked
<1>8. SenderAlone' BY <1>3 DEF CheckedInv, SenderAlone
<1>9. SeenSentOnce' BY <1>1, <1>2, <1>3, <1>5 DEF CheckedInv, SeenSentOnce, Exposure
<1> QED BY <1>6, <1>7, <1>8, <1>9 DEF CheckedInv

(* The network delivers what was sent, of intents that no one sends. *)
LEMMA CheckedNetwork ==
  ASSUME TypeInv, CheckedInv, NEW i \in Intents, Network(i)
  PROVE  CheckedInv'
<1>1. dstatus' = dstatus /\ pc' = pc /\ cur' = cur /\ missed' = missed
  BY DEF Network, Deliver, Lose, dedupeVars, consumerVars, envVars, histVars
<1>2. /\ wire[i] > 0
      /\ \A j \in Intents : /\ venue'[j] \in Nat /\ wire'[j] \in Nat /\ wire'[j] <= wire[j]
                            /\ venue'[j] + wire'[j] <= venue[j] + wire[j]
                            /\ j # i => venue'[j] = venue[j]
  <2>1. CASE Deliver(i) BY <2>1 DEF Deliver, TypeInv, TypeOK
  <2>2. CASE Lose(i) BY <2>2 DEF Lose, TypeInv, TypeOK
  <2> QED BY <2>1, <2>2 DEF Network
<1>3. \A j \in Intents : venue[j] \in Nat /\ wire[j] \in Nat
  BY DEF TypeInv, TypeOK
<1>4. \A c \in Consumers : Sending(c) => cur[c] \in Intents /\ cur[c] # i
  BY <1>2, <1>3 DEF CheckedInv, SenderChecked, Sending, TypeInv, InHand
<1>5. \A c \in Consumers : pc[c] = "submit" => Sending(c)
  BY DEF Sending
<1>6. WireClaimed'
  BY <1>1, <1>2, <1>3 DEF CheckedInv, WireClaimed
<1>7. SenderAlone'
  BY <1>1 DEF CheckedInv, SenderAlone, Sending
<1>8. SenderChecked'
  BY <1>1, <1>2, <1>3, <1>4, <1>5 DEF CheckedInv, SenderChecked, Sending
<1>9. SeenSentOnce'
  BY <1>1, <1>2, <1>3 DEF CheckedInv, SeenSentOnce, Exposure
<1> QED BY <1>6, <1>7, <1>8, <1>9 DEF CheckedInv

(* A restore finds no sender and no request in the network. *)
LEMMA CheckedRestore ==
  ASSUME TypeInv, CheckedInv, Restore
  PROVE  CheckedInv'
<1>1. /\ venue' = venue /\ wire' = wire
      /\ \A c \in Consumers : ~ Sending(c)' /\ pc'[c] # "submit"
      /\ \A i \in Intents : wire'[i] = 0
      /\ missed' = missed
  BY DEF Restore, Sending, venueVars, consumerVars, histVars
<1> QED
  BY <1>1 DEF CheckedInv, WireClaimed, SenderChecked, SenderAlone, SeenSentOnce, Exposure

(* However many backups are restored, an intent of which every lookup saw  *)
(* the order is sent once at most: a row that comes back without its       *)
(* dedupe row is claimed again, and the lookup before the send finds it.   *)
LEMMA CheckedAlways == Spec => []CheckedInv
<1>1. Init => TypeInv /\ CheckedInv
  <2>1. Init => TypeInv BY TypeInit, ConstantsAssumption
  <2>2. Init => CheckedInv
    BY DEF Init, CheckedInv, WireClaimed, SenderChecked, SenderAlone, Sending,
           SeenSentOnce, Exposure
  <2> QED BY <2>1, <2>2
<1>2. TypeInv /\ CheckedInv /\ [Next]_vars => (TypeInv /\ CheckedInv)'
  <2> SUFFICES ASSUME TypeInv, CheckedInv, [Next]_vars PROVE TypeInv' /\ CheckedInv'
    OBVIOUS
  <2>1. TypeInv' BY TypeNext, ConstantsAssumption
  <2>2. ASSUME NEW c \in Consumers, Consumer(c) \/ Crash(c) PROVE CheckedInv'
    BY <2>2, CheckedFrame, OrderConsumerQuiet, CheckedClaim, CheckedSend DEF Consumer
  <2> QED
    BY <2>1, <2>2, CheckedFrame, OrderRecon, OrderStores, CheckedNetwork, CheckedRestore DEF Next
<1> QED BY <1>1, <1>2, PTL DEF Spec

(* "Exactly-once venue submission per intent (the money invariant)", for   *)
(* any number of consumers, crashes, insertions and restored backups: a    *)
(* second order needs both a restored backup and a lookup that failed to   *)
(* see the first.                                                          *)
THEOREM OneOrder == Spec => []AtMostOneOrder
<1>1. TypeInv /\ (bk.restores = 0 => OrderInv) /\ CheckedInv => AtMostOneOrder
  BY DEF OrderInv, CheckedInv, SentOnce, SeenSentOnce, AtMostOneOrder, TypeInv, TypeOK, Backups
<1> QED
  BY <1>1, TypesAlways, OrderAlways, CheckedAlways, PTL

-----------------------------------------------------------------------------
(* LiveSubmit implements IntentLifecycle. *)

(* What the WHERE clause of update_status admits is in the table of        *)
(* intent_lifecycle.py.                                                    *)
LEMMA SqlWithinTable ==
  ASSUME NEW s, NEW t, SqlAllows(s, t)
  PROVE  s \in Statuses /\ TransitionAllowed(s, t)
  BY DEF SqlAllows, TransitionAllowed, StatusTransitions

(* A write of the queue that the store admits is a move of the lifecycle. *)
LEMMA WriteMoves ==
  ASSUME TypeInv, NEW i \in Intents, NEW t \in Statuses, SqlAllows(qstatus[i], t),
         NEW o, UpdateStatus(i, t, o)
  PROVE  LC!Next
<1>1. qstatus[i] \in Statuses /\ TransitionAllowed(qstatus[i], t) BY SqlWithinTable
<1>2. LC!Move(i, t) BY <1>1 DEF LC!Move, UpdateStatus, LC!Statuses, LC!TerminalStatuses,
  LC!LiveStatuses, TransitionAllowed, LC!TransitionAllowed, StatusTransitions, LC!StatusTransitions
<1>3. t \in LC!Statuses BY DEF LC!Statuses, LC!TerminalStatuses, LC!LiveStatuses
<1> QED BY <1>2, <1>3 DEF LC!Next

(* Every step of a consumer is a step of the lifecycle or none of its      *)
(* business.                                                               *)
LEMMA ConsumerRefines ==
  ASSUME TypeInv, NEW c \in Consumers, Consumer(c) \/ Crash(c)
  PROVE  LC!Next \/ qstatus' = qstatus
<1> USE DEF queueVars
<1>1. CASE GateExpire(c)
  <2>1. cur[c] \in Intents BY <1>1 DEF GateExpire, TypeInv, InHand
  <2> QED BY <1>1, <2>1, WriteMoves DEF GateExpire, TryUpdateStatus
<1>2. CASE GateReject(c)
  <2>1. cur[c] \in Intents BY <1>2 DEF GateReject, TypeInv, InHand
  <2> QED BY <1>2, <2>1, WriteMoves DEF GateReject, TryUpdateStatus
<1>3. CASE Write(c)
  <2>1. cur[c] \in Intents /\ nxt[c] \in Statuses BY <1>3 DEF Write, TypeInv, TypeOK, InHand
  <2> QED BY <1>3, <2>1, WriteMoves DEF Write
<1>4. CASE ClaimNextQueued(c)
  <2>1. PICK S \in SUBSET Intents :
          /\ \A i \in S : qstatus[i] = "queued"
          /\ qstatus' = [i \in Intents |-> IF i \in S THEN "submitting" ELSE qstatus[i]]
    BY <1>4 DEF ClaimNextQueued
  <2> QED BY <2>1 DEF LC!Next, LC!ClaimBatch
<1>5. CASE \/ Start(c) \/ Pick(c) \/ Finish(c) \/ RecoverFound(c) \/ RecoverMiss(c)
          \/ RecoverSkip(c) \/ GatePass(c) \/ RouteReject(c) \/ RoutePass(c)
          \/ AdapterFails(c) \/ FindHit(c) \/ FindMiss(c) \/ SubmitRefused(c)
          \/ StoreError(c) \/ HandlerHit(c) \/ HandlerMiss(c)
  BY <1>5 DEF Start, Pick, Finish, RecoverFound, RecoverMiss, RecoverSkip, GatePass,
     RouteReject, RoutePass, AdapterFails, FindHit, FindMiss, SubmitRefused, StoreError,
     HandlerHit, HandlerMiss, Step, Decide, Report, Quiet
<1>6. CASE \/ DedupeClaim(c) \/ SubmitAccepted(c) \/ SubmitTimeout(c) \/ MarkUnknown(c)
          \/ Mark(c) \/ WriteLedger(c) \/ Crash(c)
  BY <1>6 DEF DedupeClaim, SubmitAccepted, SubmitTimeout, MarkUnknown, Mark, WriteLedger, Crash
<1> QED BY <1>1, <1>2, <1>3, <1>4, <1>5, <1>6 DEF Consumer

(* So is every step of the reconciler. *)
LEMMA ReconRefines ==
  ASSUME TypeInv, Recon \/ ReconCrash
  PROVE  LC!Next \/ qstatus' = qstatus
<1> USE DEF queueVars
<1>1. CASE ReconWrite
  <2>1. rcur \in Intents /\ rnxt \in Statuses BY <1>1 DEF ReconWrite, TypeInv, TypeOK, InHand
  <2> QED BY <1>1, <2>1, WriteMoves DEF ReconWrite
<1>2. CASE ~ ReconWrite
  BY <1>2 DEF Recon, ReconCrash, ReconStart, ReconLedger, ReconClear, ReconFinish, ReconFound,
     ReconGiveUp, ReconMiss, ReconMissUnsaved, ReconDecide, ReconSkip
<1> QED BY <1>1, <1>2

(* Every write of the live queue, by any process and from any stale copy,  *)
(* follows the transition table of intent_lifecycle.py: LiveSubmit         *)
(* implements IntentLifecycle, as long as no backup is restored.           *)
THEOREM ImplementsLifecycle == ASSUME MaxRestores = 0 PROVE Spec => FollowsLifecycle
<1>1. Init => LC!Init BY DEF Init, LC!Init
<1>2. Init => TypeInv BY TypeInit, ConstantsAssumption
<1>3. TypeInv /\ [Next]_vars => TypeInv' BY TypeNext, ConstantsAssumption
<1>4. TypeInv /\ [Next]_vars => [LC!Next]_qstatus
  <2> SUFFICES ASSUME TypeInv, [Next]_vars PROVE LC!Next \/ qstatus' = qstatus
    OBVIOUS
  <2>1. CASE UNCHANGED vars BY <2>1 DEF vars, queueVars
  <2>2. ASSUME NEW i \in Intents, Enqueue(i) PROVE LC!Next
    BY <2>2 DEF Enqueue, LC!Next, LC!Insert
  <2>3. ASSUME NEW i \in Intents, ForceDelete(i) PROVE LC!Next
    BY <2>3 DEF ForceDelete, LC!Next, LC!Delete
  <2>4. ASSUME NEW i \in Intents, Network(i) PROVE qstatus' = qstatus
    BY <2>4 DEF Network, Deliver, Lose, queueVars
  <2>5. CASE Backup BY <2>5 DEF Backup, queueVars
  <2>6. ~ Restore BY DEF Restore, TypeInv, TypeOK, Backups
  <2> QED BY <2>1, <2>2, <2>3, <2>4, <2>5, <2>6, ConsumerRefines, ReconRefines DEF Next
<1> QED BY <1>1, <1>2, <1>3, <1>4, PTL DEF Spec, FollowsLifecycle, LC!Spec

-----------------------------------------------------------------------------
(* What a consumer knows where it stands.                                  *)

(* The paths through a consumer: only a batch passes the gates and sends;  *)
(* the intent in hand is no longer in the work; the sweep claims only for  *)
(* an order it has found; and "submitted" is reported with an order id.    *)
PathAt(c) ==
  /\ pc[c] \in {"gate", "route", "find", "submit"} => mode[c] = "batch"
  /\ pc[c] = "lookup" => mode[c] = "recover"
  /\ pc[c] = "write" /\ nxt[c] = "rejected" => mode[c] = "batch"
  /\ pc[c] \notin {"down", "idle", "pick"} => cur[c] \notin work[c]
  /\ pc[c] = "claim" /\ mode[c] = "recover" => nxt[c] = "submitted" /\ oid[c] # 0
  /\ pc[c] = "mark" => nxt[c] = "submitted"
  /\ pc[c] = "unknown" => nxt[c] = "submit_unknown"
  /\ pc[c] \in {"mark", "write", "ledger"} /\ nxt[c] = "submitted" => oid[c] # 0

PathInv == \A c \in Consumers : PathAt(c)

(* The other consumers are where they were. *)
Alone(c) ==
  \A d \in Consumers \ {c} :
    /\ pc'[d] = pc[d] /\ mode'[d] = mode[d] /\ work'[d] = work[d]
    /\ cur'[d] = cur[d] /\ oid'[d] = oid[d] /\ nxt'[d] = nxt[d]

(* A consumer's step moves that consumer, and keeps it on its paths. *)
LEMMA ConsumerPath ==
  ASSUME TypeInv, PathInv, NEW c \in Consumers, Consumer(c) \/ Crash(c)
  PROVE  Alone(c) /\ PathAt(c)'
<1> USE DEF Goto, queueVars, dedupeVars, venueVars, consumerVars, reconVars, envVars, boundVars, histVars
<1>0. /\ PathAt(c)
      /\ pc \in [Consumers -> ConsumerSteps] /\ mode \in [Consumers -> {"recover", "batch"}]
      /\ work \in [Consumers -> SUBSET Intents] /\ cur \in [Consumers -> Intents \cup {NoIntent}]
      /\ oid \in [Consumers -> Nat] /\ nxt \in [Consumers -> {"submitted", "submit_unknown", "rejected"}]
  BY DEF PathInv, TypeInv, TypeOK
<1>1. CASE Start(c) \/ Pick(c)
  BY <1>0, <1>1 DEF Start, Pick, Alone, PathAt
<1>2. CASE ClaimNextQueued(c)
  BY <1>0, <1>2 DEF ClaimNextQueued, Alone, PathAt
<1>3. CASE GateExpire(c) \/ GateReject(c)
  BY <1>0, <1>3 DEF GateExpire, GateReject, GateWrite, Alone, PathAt
<1>4. CASE DedupeClaim(c)
  BY <1>0, <1>4 DEF DedupeClaim, Alone, PathAt
<1>5. CASE SubmitAccepted(c)
  <2>1. cur[c] \in Intents /\ venue[cur[c]] \in Nat
    BY <1>5 DEF SubmitAccepted, TypeInv, TypeOK, InHand
  <2>2. venue[cur[c]] + 1 # 0
    BY <2>1
  <2> QED
    BY <1>0, <1>5, <2>2 DEF SubmitAccepted, Alone, PathAt
<1>6. CASE SubmitTimeout(c) \/ MarkUnknown(c) \/ Mark(c) \/ WriteLedger(c)
  BY <1>0, <1>6 DEF SubmitTimeout, MarkUnknown, Mark, WriteLedger, Alone, PathAt
<1>7. CASE Write(c)
  BY <1>0, <1>7 DEF Write, Alone, PathAt
<1>8. CASE Crash(c)
  BY <1>0, <1>8 DEF Crash, Alone, PathAt
<1>9. CASE \/ Finish(c) \/ RecoverSkip(c) \/ GatePass(c) \/ FindMiss(c)
           \/ SubmitRefused(c) \/ StoreError(c)
  BY <1>0, <1>9 DEF Finish, RecoverSkip, GatePass, FindMiss, SubmitRefused, StoreError, Step, Alone, PathAt
<1>10. CASE RouteReject(c) \/ RoutePass(c) \/ AdapterFails(c) \/ RecoverMiss(c) \/ HandlerMiss(c)
  BY <1>0, <1>10 DEF RouteReject, RoutePass, AdapterFails, RecoverMiss, HandlerMiss, Decide, Report, Alone, PathAt
<1>11. CASE RecoverFound(c) \/ FindHit(c) \/ HandlerHit(c)
  <2>1. cur[c] \in Intents
    BY <1>11 DEF RecoverFound, FindHit, HandlerHit, TypeInv, InHand
  <2>2. \A o \in LookupHits(cur[c]) : o # 0
    BY <2>1, LookupHitsNat
  <2> QED
    BY <1>0, <1>11, <2>2 DEF RecoverFound, FindHit, HandlerHit, Decide, Report, Alone, PathAt
<1> QED
  BY <1>1, <1>2, <1>3, <1>4, <1>5, <1>6, <1>7, <1>8, <1>9, <1>10, <1>11 DEF Consumer

(* Nothing else moves a consumer. *)
LEMMA ConsumersStay ==
  ASSUME Recon \/ ReconCrash \/ Backup \/ Restore \/ UNCHANGED vars
           \/ \E i \in Intents : Enqueue(i) \/ ForceDelete(i) \/ Network(i)
  PROVE  UNCHANGED consumerVars
  BY DEF vars, Recon, ReconCrash, Backup, Restore, Enqueue, ForceDelete, Network, Deliver, Lose,
         ReconStart, ReconWrite, ReconLedger, ReconClear, ReconFinish, ReconFound, ReconGiveUp,
         ReconMiss, ReconMissUnsaved, ReconDecide, ReconSkip

(* One step of the system keeps every consumer on its paths. *)
LEMMA PathNext ==
  ASSUME TypeInv, PathInv, [Next]_vars
  PROVE  PathInv'
<1>1. ASSUME NEW c \in Consumers, Consumer(c) \/ Crash(c)
      PROVE  PathInv'
  <2>1. Alone(c) /\ PathAt(c)'
    BY <1>1, ConsumerPath
  <2> QED
    BY <2>1 DEF PathInv, PathAt, Alone
<1>2. CASE UNCHANGED consumerVars
  BY <1>2 DEF PathInv, PathAt, consumerVars
<1> QED
  BY <1>1, <1>2, ConsumersStay DEF Next

-----------------------------------------------------------------------------
(* Order ids.                                                              *)

(* No id, or one the venue has assigned. *)
Known(i, o) == o = 0 \/ o \in 1 .. venue[i]

(* Every order id that is stored or carried is one the venue has assigned, *)
(* and what is reported as submitted has one.                              *)
QueueIds ==
  \A i \in Intents : Known(i, qoid[i]) /\ (qstatus[i] = "submitted" => qoid[i] # 0)
DedupeIds == \A i \in Intents : Known(i, doid[i])
LedgerIds == \A i \in Intents : lstatus[i] = "submitted" => venue[i] # 0
HeldIds == \A c \in Consumers : oid[c] # 0 => cur[c] \in Intents /\ Known(cur[c], oid[c])
ReconIds ==
  /\ roid # 0 => rcur \in Intents /\ Known(rcur, roid)
  /\ rpc \in {"write", "ledger"} /\ rnxt = "submitted" => roid # 0

(* The copies of a backup say no more than the files did. *)
BackupIds ==
  \A i \in Intents :
    /\ Known(i, bk.qoid[i]) /\ (bk.qstatus[i] = "submitted" => bk.qoid[i] # 0)
    /\ Known(i, bk.doid[i])
    /\ bk.lstatus[i] = "submitted" => venue[i] # 0

IdInv == QueueIds /\ DedupeIds /\ LedgerIds /\ HeldIds /\ ReconIds /\ BackupIds

(* The venue forgets no order. *)
VenueGrows == \A i \in Intents : venue[i] \in Nat /\ venue'[i] \in Nat /\ venue[i] <= venue'[i]

(* Of all steps only an accepted send and a late delivery touch it. *)
LEMMA NextVenue ==
  ASSUME TypeInv, [Next]_vars
  PROVE  VenueGrows
<1> USE DEF queueVars, dedupeVars, venueVars, consumerVars, reconVars, envVars, boundVars, histVars
<1>0. venue \in [Intents -> Nat]
  BY DEF TypeInv, TypeOK
<1>1. CASE venue' = venue
  BY <1>0, <1>1 DEF VenueGrows
<1>2. ASSUME NEW i \in Intents, venue' = [venue EXCEPT ![i] = @ + 1]
      PROVE  VenueGrows
  BY <1>0, <1>2 DEF VenueGrows
<1>3. ASSUME NEW c \in Consumers, Consumer(c) \/ Crash(c)
      PROVE  VenueGrows
  <2>1. CASE SubmitAccepted(c)
    <3>1. cur[c] \in Intents /\ venue' = [venue EXCEPT ![cur[c]] = @ + 1]
      BY <2>1 DEF SubmitAccepted, TypeInv, InHand
    <3> QED
      BY <1>2, <3>1
  <2>2. CASE ~SubmitAccepted(c)
    <3>1. CASE \/ Start(c) \/ Pick(c) \/ Finish(c) \/ RecoverFound(c) \/ RecoverMiss(c)
               \/ RecoverSkip(c) \/ GatePass(c) \/ RouteReject(c) \/ RoutePass(c)
               \/ AdapterFails(c) \/ FindHit(c) \/ FindMiss(c) \/ SubmitRefused(c)
               \/ StoreError(c) \/ HandlerHit(c) \/ HandlerMiss(c)
      BY <1>1, <3>1 DEF Start, Pick, Finish, RecoverFound, RecoverMiss, RecoverSkip, GatePass,
         RouteReject, RoutePass, AdapterFails, FindHit, FindMiss, SubmitRefused, StoreError,
         HandlerHit, HandlerMiss, Step, Decide, Report, Quiet
    <3>2. CASE \/ DedupeClaim(c) \/ SubmitTimeout(c) \/ MarkUnknown(c) \/ Mark(c)
               \/ WriteLedger(c) \/ Crash(c) \/ GateExpire(c) \/ GateReject(c) \/ Write(c)
               \/ ClaimNextQueued(c)
      BY <1>1, <3>2 DEF DedupeClaim, SubmitTimeout, MarkUnknown, Mark, WriteLedger, Crash,
         GateExpire, GateReject, GateWrite, Write, ClaimNextQueued
    <3> QED
      BY <1>3, <2>2, <3>1, <3>2 DEF Consumer
  <2> QED
    BY <2>1, <2>2
<1>4. CASE Recon \/ ReconCrash \/ Backup \/ Restore \/ UNCHANGED vars
  BY <1>1, <1>4 DEF vars, Recon, ReconCrash, Backup, Restore, ReconStart, ReconWrite, ReconLedger,
     ReconClear, ReconFinish, ReconFound, ReconGiveUp, ReconMiss, ReconMissUnsaved, ReconDecide, ReconSkip
<1>5. ASSUME NEW i \in Intents, Enqueue(i) \/ ForceDelete(i) \/ Network(i)
      PROVE  VenueGrows
  BY <1>1, <1>2, <1>5 DEF Enqueue, ForceDelete, Network, Deliver, Lose
<1> QED
  BY <1>3, <1>4, <1>5 DEF Next

(* An assigned id stays assigned. *)
LEMMA KnownStays ==
  ASSUME VenueGrows, NEW i \in Intents, NEW o \in Nat, Known(i, o)
  PROVE  o = 0 \/ o \in 1 .. venue'[i]
<1>1. venue[i] \in Nat /\ venue'[i] \in Nat /\ venue[i] <= venue'[i]
  BY DEF VenueGrows
<1> QED
  BY <1>1 DEF Known

(* The columns a backup has, by their names. *)
LEMMA BackupType ==
  ASSUME TypeInv
  PROVE  /\ bk.stage \in BackupStages
         /\ bk.qstatus \in [Intents -> RowStatuses] /\ bk.qoid \in [Intents -> Nat]
         /\ bk.dstatus \in [Intents -> DedupeStatuses] /\ bk.doid \in [Intents -> Nat]
         /\ bk.lstatus \in [Intents -> LedgerStatuses]
  BY DEF TypeInv, TypeOK, Backups

(* A backup copies two columns of a file at most at a time. *)
LEMMA BackupMoves ==
  ASSUME TypeInv, Backup
  PROVE  /\ (bk'.qstatus = bk.qstatus /\ bk'.qoid = bk.qoid) \/ (bk'.qstatus = qstatus /\ bk'.qoid = qoid)
         /\ bk'.doid = bk.doid \/ bk'.doid = doid
         /\ bk'.lstatus = bk.lstatus \/ bk'.lstatus = lstatus
<1>1. bk \in Backups
  BY DEF TypeInv, TypeOK
<1>2. CASE bk' = [bk EXCEPT !.stage = "dedupe", !.dstatus = dstatus, !.doid = doid]
  BY <1>1, <1>2 DEF Backups
<1>3. CASE bk' = [bk EXCEPT !.stage = "queue", !.qstatus = qstatus, !.qoid = qoid, !.obs = obs]
  BY <1>1, <1>3 DEF Backups
<1>4. CASE bk' = [bk EXCEPT !.stage = "complete", !.lstatus = lstatus]
  BY <1>1, <1>4 DEF Backups
<1> QED
  BY <1>2, <1>3, <1>4 DEF Backup

(* A restore leaves the columns of the copies. *)
LEMMA BackupStays ==
  ASSUME TypeInv, [Next]_vars
  PROVE  Backup \/ (/\ bk'.qstatus = bk.qstatus /\ bk'.qoid = bk.qoid /\ bk'.doid = bk.doid
                    /\ bk'.dstatus = bk.dstatus /\ bk'.lstatus = bk.lstatus)
<1>1. CASE Restore
  <2>1. bk \in Backups /\ bk' = [bk EXCEPT !.stage = "none", !.restores = bk.restores + 1]
    BY <1>1 DEF Restore, TypeInv, TypeOK
  <2> QED
    BY <2>1 DEF Backups
<1> QED
  BY <1>1, BackupFrame

(* What the copies say stays backed by the venue. *)
LEMMA BackupIdsNext ==
  ASSUME TypeInv, IdInv, VenueGrows, [Next]_vars
  PROVE  BackupIds'
<1>1. /\ QueueIds /\ DedupeIds /\ LedgerIds /\ BackupIds
      /\ qoid \in [Intents -> Nat] /\ doid \in [Intents -> Nat]
      /\ bk.qoid \in [Intents -> Nat] /\ bk.doid \in [Intents -> Nat]
  BY BackupType DEF IdInv, TypeInv, TypeOK
<1>2. /\ (bk'.qstatus = bk.qstatus /\ bk'.qoid = bk.qoid) \/ (bk'.qstatus = qstatus /\ bk'.qoid = qoid)
      /\ bk'.doid = bk.doid \/ bk'.doid = doid
      /\ bk'.lstatus = bk.lstatus \/ bk'.lstatus = lstatus
  BY BackupStays, BackupMoves
<1>3. SUFFICES ASSUME NEW i \in Intents
               PROVE  /\ bk'.qoid[i] = 0 \/ bk'.qoid[i] \in 1 .. venue'[i]
                      /\ bk'.qstatus[i] = "submitted" => bk'.qoid[i] # 0
                      /\ bk'.doid[i] = 0 \/ bk'.doid[i] \in 1 .. venue'[i]
                      /\ bk'.lstatus[i] = "submitted" => venue'[i] # 0
  BY DEF BackupIds, Known
<1>4. /\ qoid[i] = 0 \/ qoid[i] \in 1 .. venue'[i]
      /\ bk.qoid[i] = 0 \/ bk.qoid[i] \in 1 .. venue'[i]
      /\ doid[i] = 0 \/ doid[i] \in 1 .. venue'[i]
      /\ bk.doid[i] = 0 \/ bk.doid[i] \in 1 .. venue'[i]
  BY <1>1, KnownStays DEF QueueIds, DedupeIds, BackupIds
<1>5. /\ qstatus[i] = "submitted" => qoid[i] # 0
      /\ bk.qstatus[i] = "submitted" => bk.qoid[i] # 0
      /\ lstatus[i] = "submitted" \/ bk.lstatus[i] = "submitted" => venue'[i] # 0
  BY <1>1 DEF QueueIds, LedgerIds, BackupIds, VenueGrows
<1> QED
  BY <1>2, <1>4, <1>5

(* A write of the queue that reports "submitted" only with an id. *)
LEMMA QueueIdsWrite ==
  ASSUME TypeInv, QueueIds, VenueGrows, NEW i \in Intents, NEW t, NEW o \in Nat,
         Known(i, o), t = "submitted" => o # 0, UpdateStatus(i, t, o)
  PROVE  QueueIds'
<1>1. qstatus \in [Intents -> RowStatuses] /\ qoid \in [Intents -> Nat]
  BY DEF TypeInv, TypeOK
<1>2. ASSUME NEW j \in Intents
      PROVE  /\ qoid'[j] = 0 \/ qoid'[j] \in 1 .. venue'[j]
             /\ qstatus'[j] = "submitted" => qoid'[j] # 0
  <2>1. (qoid[j] = 0 \/ qoid[j] \in 1 .. venue'[j]) /\ (qstatus[j] = "submitted" => qoid[j] # 0)
    BY <1>1, KnownStays DEF QueueIds
  <2>2. o = 0 \/ o \in 1 .. venue'[i]
    BY KnownStays
  <2>3. CASE j = i
    BY <1>1, <2>1, <2>2, <2>3 DEF UpdateStatus
  <2>4. CASE j # i
    BY <1>1, <2>1, <2>4 DEF UpdateStatus
  <2> QED
    BY <2>3, <2>4
<1> QED
  BY <1>2 DEF QueueIds, Known

(* The queue's ids. *)
LEMMA QueueIdsNext ==
  ASSUME TypeInv, PathInv, IdInv, VenueGrows, [Next]_vars
  PROVE  QueueIds'
<1> USE DEF queueVars, dedupeVars, venueVars, consumerVars, reconVars, envVars, boundVars, histVars
<1>0. QueueIds /\ HeldIds /\ ReconIds /\ qstatus \in [Intents -> RowStatuses] /\ qoid \in [Intents -> Nat]
  BY DEF IdInv, TypeInv, TypeOK
<1>1. CASE UNCHANGED queueVars
  <2>1. \A i \in Intents : qoid[i] = 0 \/ qoid[i] \in 1 .. venue'[i]
    BY <1>0, KnownStays DEF QueueIds
  <2> QED
    BY <1>0, <1>1, <2>1 DEF QueueIds, Known
<1>2. ASSUME NEW i \in Intents, NEW t, t # "submitted", UpdateStatus(i, t, 0)
      PROVE  QueueIds'
  BY <1>0, <1>2, QueueIdsWrite DEF Known
<1>3. ASSUME NEW i \in Intents, NEW t, t # "submitted", TryUpdateStatus(i, t)
      PROVE  QueueIds'
  BY <1>1, <1>2, <1>3 DEF TryUpdateStatus
<1>4. ASSUME NEW c \in Consumers, Consumer(c) \/ Crash(c)
      PROVE  QueueIds'
  <2>1. CASE GateExpire(c)
    <3>1. cur[c] \in Intents BY <2>1 DEF GateExpire, TypeInv, InHand
    <3> QED BY <2>1, <3>1, <1>3 DEF GateExpire
  <2>2. CASE GateReject(c)
    <3>1. cur[c] \in Intents BY <2>2 DEF GateReject, TypeInv, InHand
    <3> QED BY <2>2, <3>1, <1>2, <1>3 DEF GateReject
  <2>3. CASE Write(c)
    <3>1. cur[c] \in Intents /\ oid[c] \in Nat BY <2>3 DEF Write, TypeInv, TypeOK, InHand
    <3>2. Known(cur[c], oid[c]) BY <1>0 DEF HeldIds, Known
    <3>3. nxt[c] = "submitted" => oid[c] # 0 BY <2>3 DEF Write, PathInv, PathAt
    <3>4. CASE UpdateStatus(cur[c], nxt[c], oid[c])
      BY <1>0, <3>1, <3>2, <3>3, <3>4, QueueIdsWrite
    <3> QED BY <1>1, <2>3, <3>4 DEF Write
  <2>4. CASE ClaimNextQueued(c)
    <3>1. /\ qoid' = qoid /\ venue' = venue
          /\ \A i \in Intents : qstatus'[i] = "submitted" => qstatus[i] = "submitted"
      BY <2>4, <1>0 DEF ClaimNextQueued
    <3> QED BY <1>0, <3>1 DEF QueueIds, Known
  <2>5. CASE \/ Start(c) \/ Pick(c) \/ Finish(c) \/ RecoverFound(c) \/ RecoverMiss(c)
            \/ RecoverSkip(c) \/ GatePass(c) \/ RouteReject(c) \/ RoutePass(c)
            \/ AdapterFails(c) \/ FindHit(c) \/ FindMiss(c) \/ SubmitRefused(c)
            \/ StoreError(c) \/ HandlerHit(c) \/ HandlerMiss(c)
    BY <1>1, <2>5 DEF Start, Pick, Finish, RecoverFound, RecoverMiss, RecoverSkip, GatePass,
       RouteReject, RoutePass, AdapterFails, FindHit, FindMiss, SubmitRefused, StoreError,
       HandlerHit, HandlerMiss, Step, Decide, Report, Quiet
  <2>6. CASE \/ DedupeClaim(c) \/ SubmitAccepted(c) \/ SubmitTimeout(c) \/ MarkUnknown(c)
            \/ Mark(c) \/ WriteLedger(c) \/ Crash(c)
    BY <1>1, <2>6 DEF DedupeClaim, SubmitAccepted, SubmitTimeout, MarkUnknown, Mark, WriteLedger, Crash
  <2> QED BY <1>4, <2>1, <2>2, <2>3, <2>4, <2>5, <2>6 DEF Consumer
<1>5. CASE ReconWrite
  <2>1. rcur \in Intents /\ roid \in Nat BY <1>5 DEF ReconWrite, TypeInv, TypeOK, InHand
  <2>2. Known(rcur, roid) /\ (rnxt = "submitted" => roid # 0)
    BY <1>0, <1>5 DEF ReconIds, Known, ReconWrite
  <2>3. CASE UpdateStatus(rcur, rnxt, roid)
    BY <1>0, <2>1, <2>2, <2>3, QueueIdsWrite
  <2> QED BY <1>1, <1>5, <2>3 DEF ReconWrite
<1>6. CASE (Recon /\ ~ReconWrite) \/ ReconCrash \/ Backup \/ UNCHANGED vars
  BY <1>1, <1>6 DEF vars, Recon, ReconCrash, Backup, ReconStart, ReconLedger,
     ReconClear, ReconFinish, ReconFound, ReconGiveUp, ReconMiss, ReconMissUnsaved, ReconDecide, ReconSkip
<1>7. ASSUME NEW i \in Intents, Enqueue(i) \/ ForceDelete(i)
      PROVE  QueueIds'
  <2>1. /\ venue' = venue /\ qoid' \in [Intents -> Nat]
        /\ \A j \in Intents : qoid'[j] \in {0, qoid[j]}
        /\ \A j \in Intents : qstatus'[j] = "submitted" => qstatus[j] = "submitted" /\ qoid'[j] = qoid[j]
    BY <1>0, <1>7 DEF Enqueue, ForceDelete
  <2> QED BY <1>0, <2>1 DEF QueueIds, Known
<1>8. ASSUME NEW i \in Intents, Network(i)
      PROVE  QueueIds'
  BY <1>1, <1>8 DEF Network, Deliver, Lose
<1>9. CASE Restore
  <2>1. qstatus' = bk.qstatus /\ qoid' = bk.qoid /\ venue' = venue
    BY <1>9 DEF Restore
  <2>2. \A i \in Intents : Known(i, bk.qoid[i]) /\ (bk.qstatus[i] = "submitted" => bk.qoid[i] # 0)
    BY DEF IdInv, BackupIds
  <2> QED BY <2>1, <2>2 DEF QueueIds, Known
<1> QED BY <1>4, <1>5, <1>6, <1>7, <1>8, <1>9 DEF Next

(* The dedupe store's ids, and the ledger's orders. *)
LEMMA StoreIdsNext ==
  ASSUME TypeInv, PathInv, IdInv, VenueGrows, [Next]_vars
  PROVE  DedupeIds' /\ LedgerIds'
<1> USE DEF queueVars, dedupeVars, venueVars, consumerVars, reconVars, envVars, boundVars, histVars
<1>0. /\ DedupeIds /\ LedgerIds /\ HeldIds /\ ReconIds
      /\ doid \in [Intents -> Nat] /\ lstatus \in [Intents -> LedgerStatuses]
  BY DEF IdInv, TypeInv, TypeOK
<1>1. \A i \in Intents : doid[i] = 0 \/ doid[i] \in 1 .. venue'[i]
  BY <1>0, KnownStays DEF DedupeIds
<1>2. \A i \in Intents : venue[i] # 0 => venue'[i] # 0
  BY DEF VenueGrows
<1>3. ASSUME doid' = doid PROVE DedupeIds'
  BY <1>1, <1>3 DEF DedupeIds, Known
<1>4. ASSUME lstatus' = lstatus PROVE LedgerIds'
  BY <1>0, <1>2, <1>4 DEF LedgerIds
<1>5. ASSUME NEW i \in Intents, NEW o \in Nat, o # 0, Known(i, o)
      PROVE  venue[i] # 0
  <2>1. venue[i] \in Nat /\ o \in 1 .. venue[i]
    BY <1>5 DEF VenueGrows, Known
  <2> QED
    BY <2>1
<1>6. ASSUME NEW c \in Consumers, Consumer(c) \/ Crash(c)
      PROVE  DedupeIds' /\ LedgerIds'
  <2>1. CASE Mark(c)
    <3>1. cur[c] \in Intents /\ oid[c] \in Nat
      BY <2>1 DEF Mark, TypeInv, TypeOK, InHand
    <3>2. Known(cur[c], oid[c])
      BY <1>0 DEF HeldIds, Known
    <3>3. oid[c] = 0 \/ oid[c] \in 1 .. venue'[cur[c]]
      BY <3>1, <3>2, KnownStays
    <3>4. \A i \in Intents : doid'[i] = doid[i] \/ (i = cur[c] /\ doid'[i] = oid[c])
      BY <1>0, <2>1, <3>1 DEF Mark, MarkSubmitted
    <3>5. DedupeIds'
      BY <1>1, <3>3, <3>4 DEF DedupeIds, Known
    <3>6. lstatus' = lstatus
      BY <2>1 DEF Mark
    <3> QED
      BY <1>4, <3>5, <3>6
  <2>2. CASE WriteLedger(c)
    <3>1. cur[c] \in Intents /\ oid[c] \in Nat
      BY <2>2 DEF WriteLedger, TypeInv, TypeOK, InHand
    <3>2. nxt[c] = "submitted" => venue[cur[c]] # 0
      <4>1. nxt[c] = "submitted" => oid[c] # 0
        BY <2>2 DEF WriteLedger, PathInv, PathAt
      <4>2. Known(cur[c], oid[c])
        BY <1>0 DEF HeldIds, Known
      <4> QED
        BY <3>1, <4>1, <4>2, <1>5
    <3>3. \A i \in Intents : lstatus'[i] = lstatus[i] \/ (i = cur[c] /\ lstatus'[i] = nxt[c])
      BY <1>0, <2>2, <3>1 DEF WriteLedger
    <3>4. LedgerIds'
      BY <1>0, <1>2, <3>2, <3>3 DEF LedgerIds
    <3>5. doid' = doid
      BY <2>2 DEF WriteLedger
    <3> QED
      BY <1>3, <3>4, <3>5
  <2>3. CASE \/ Start(c) \/ Pick(c) \/ Finish(c) \/ RecoverFound(c) \/ RecoverMiss(c)
            \/ RecoverSkip(c) \/ GatePass(c) \/ RouteReject(c) \/ RoutePass(c)
            \/ AdapterFails(c) \/ FindHit(c) \/ FindMiss(c) \/ SubmitRefused(c)
            \/ StoreError(c) \/ HandlerHit(c) \/ HandlerMiss(c)
    BY <1>3, <1>4, <2>3 DEF Start, Pick, Finish, RecoverFound, RecoverMiss, RecoverSkip, GatePass,
       RouteReject, RoutePass, AdapterFails, FindHit, FindMiss, SubmitRefused, StoreError,
       HandlerHit, HandlerMiss, Step, Decide, Report, Quiet
  <2>4. CASE \/ DedupeClaim(c) \/ SubmitAccepted(c) \/ SubmitTimeout(c) \/ MarkUnknown(c)
            \/ Crash(c) \/ GateExpire(c) \/ GateReject(c) \/ Write(c) \/ ClaimNextQueued(c)
    BY <1>3, <1>4, <2>4 DEF DedupeClaim, SubmitAccepted, SubmitTimeout, MarkUnknown, Crash,
       GateExpire, GateReject, GateWrite, Write, ClaimNextQueued
  <2> QED
    BY <1>6, <2>1, <2>2, <2>3, <2>4 DEF Consumer
<1>7. CASE ReconLedger
  <2>1. rcur \in Intents /\ roid \in Nat
    BY <1>7 DEF ReconLedger, TypeInv, TypeOK, InHand
  <2>2. rnxt = "submitted" => venue[rcur] # 0
    BY <1>0, <1>5, <1>7, <2>1 DEF ReconIds, ReconLedger
  <2>3. \A i \in Intents : lstatus'[i] = lstatus[i] \/ (i = rcur /\ lstatus'[i] = rnxt)
    BY <1>0, <1>7, <2>1 DEF ReconLedger
  <2>4. LedgerIds'
    BY <1>0, <1>2, <2>2, <2>3 DEF LedgerIds
  <2>5. doid' = doid
    BY <1>7 DEF ReconLedger
  <2> QED
    BY <1>3, <2>4, <2>5
<1>8. CASE (Recon /\ ~ReconLedger) \/ ReconCrash \/ Backup \/ UNCHANGED vars
  BY <1>3, <1>4, <1>8 DEF vars, Recon, ReconCrash, Backup, ReconStart, ReconWrite,
     ReconClear, ReconFinish, ReconFound, ReconGiveUp, ReconMiss, ReconMissUnsaved, ReconDecide, ReconSkip
<1>9. ASSUME NEW i \in Intents, Enqueue(i) \/ ForceDelete(i) \/ Network(i)
      PROVE  DedupeIds' /\ LedgerIds'
  BY <1>3, <1>4, <1>9 DEF Enqueue, ForceDelete, Network, Deliver, Lose
<1>10. CASE Restore
  <2>1. doid' = bk.doid /\ lstatus' = bk.lstatus /\ venue' = venue
    BY <1>10 DEF Restore
  <2>2. \A i \in Intents : Known(i, bk.doid[i]) /\ (bk.lstatus[i] = "submitted" => venue[i] # 0)
    BY DEF IdInv, BackupIds
  <2> QED BY <2>1, <2>2 DEF DedupeIds, LedgerIds, Known
<1> QED
  BY <1>6, <1>7, <1>8, <1>9, <1>10 DEF Next

(* The ids in the hands of the consumers. *)
LEMMA HeldIdsNext ==
  ASSUME TypeInv, PathInv, IdInv, VenueGrows, [Next]_vars
  PROVE  HeldIds'
<1> USE DEF Goto, queueVars, dedupeVars, venueVars, consumerVars, reconVars, envVars, boundVars, histVars
<1>0. /\ cur \in [Consumers -> Intents \cup {NoIntent}] /\ oid \in [Consumers -> Nat]
      /\ HeldIds
  BY DEF TypeInv, TypeOK, IdInv
<1>1. ASSUME NEW d \in Consumers, cur'[d] = cur[d], oid'[d] = oid[d]
      PROVE  oid'[d] # 0 => cur'[d] \in Intents /\ (oid'[d] = 0 \/ oid'[d] \in 1 .. venue'[cur'[d]])
  BY <1>0, <1>1, KnownStays DEF HeldIds
<1>2. CASE cur' = cur /\ oid' = oid
  BY <1>1, <1>2 DEF HeldIds, Known
<1>3. ASSUME NEW c \in Consumers, Alone(c),
             oid'[c] # 0 => cur'[c] \in Intents /\ oid'[c] \in 1 .. venue'[cur'[c]]
      PROVE  HeldIds'
  BY <1>1, <1>3 DEF HeldIds, Known, Alone
<1>4. ASSUME NEW c \in Consumers, Consumer(c) \/ Crash(c)
      PROVE  HeldIds'
  <2>0. Alone(c)
    BY <1>4, ConsumerPath
  <2>1. CASE oid'[c] = 0
    BY <1>3, <2>0, <2>1
  <2>2. CASE RecoverFound(c) \/ FindHit(c) \/ HandlerHit(c)
    <3>1. cur[c] \in Intents
      BY <2>2 DEF RecoverFound, FindHit, HandlerHit, TypeInv, InHand
    <3>2. PICK o \in LookupHits(cur[c]) : oid'[c] = o /\ cur'[c] = cur[c]
      BY <1>0, <2>2 DEF RecoverFound, FindHit, HandlerHit, Decide, Report
    <3>3. o \in Nat /\ Known(cur[c], o) /\ o # 0
      BY <3>1, LookupHitsNat DEF LookupHits, Known
    <3>4. o \in 1 .. venue'[cur[c]]
      BY <3>1, <3>3, KnownStays
    <3> QED
      BY <1>3, <2>0, <3>1, <3>2, <3>4
  <2>3. CASE SubmitAccepted(c)
    <3>1. cur[c] \in Intents /\ cur' = cur /\ venue \in [Intents -> Nat]
      BY <2>3 DEF SubmitAccepted, TypeInv, TypeOK, InHand
    <3>2. CASE oid' = oid
      BY <1>2, <3>1, <3>2
    <3>3. CASE oid' = [oid EXCEPT ![c] = venue[cur[c]] + 1]
      <4>1. venue'[cur[c]] = venue[cur[c]] + 1 /\ venue[cur[c]] \in Nat
        BY <2>3, <3>1 DEF SubmitAccepted
      <4>2. oid'[c] = venue[cur[c]] + 1
        BY <1>0, <3>3
      <4>3. oid'[c] \in 1 .. venue'[cur[c]]
        BY <4>1, <4>2
      <4> QED
        BY <1>3, <2>0, <3>1, <4>3
    <3> QED
      BY <2>3, <3>2, <3>3 DEF SubmitAccepted
  <2>4. CASE Pick(c) \/ Crash(c) \/ RecoverMiss(c) \/ RouteReject(c) \/ RoutePass(c) \/ AdapterFails(c) \/ HandlerMiss(c)
    BY <1>0, <2>1, <2>4 DEF Pick, Crash, RecoverMiss, RouteReject, RoutePass, AdapterFails, HandlerMiss, Decide, Report
  <2>5. CASE \/ Start(c) \/ Finish(c) \/ RecoverSkip(c) \/ GatePass(c)
            \/ FindMiss(c) \/ SubmitRefused(c) \/ StoreError(c)
    BY <1>2, <2>5 DEF Start, Finish, RecoverSkip, GatePass, FindMiss, SubmitRefused, StoreError, Step
  <2>6. CASE \/ DedupeClaim(c) \/ SubmitTimeout(c) \/ MarkUnknown(c) \/ Mark(c) \/ WriteLedger(c)
            \/ GateExpire(c) \/ GateReject(c) \/ Write(c) \/ ClaimNextQueued(c)
    BY <1>2, <2>6 DEF DedupeClaim, SubmitTimeout, MarkUnknown, Mark, WriteLedger,
       GateExpire, GateReject, GateWrite, Write, ClaimNextQueued
  <2> QED
    BY <1>4, <2>2, <2>3, <2>4, <2>5, <2>6 DEF Consumer
<1>5. CASE UNCHANGED consumerVars
  BY <1>2, <1>5
<1> QED
  BY <1>4, <1>5, ConsumersStay DEF Next

(* The reconciler's locals change by its own steps alone. *)
LEMMA ReconStays ==
  ASSUME \/ Backup \/ Restore \/ UNCHANGED vars
         \/ \E i \in Intents : Enqueue(i) \/ ForceDelete(i) \/ Network(i)
         \/ \E c \in Consumers : Consumer(c) \/ Crash(c)
  PROVE  UNCHANGED reconVars
<1>1. ASSUME NEW c \in Consumers, Consumer(c) \/ Crash(c)
      PROVE  UNCHANGED reconVars
  BY <1>1 DEF Consumer, DedupeClaim, SubmitAccepted, SubmitTimeout, MarkUnknown, Mark, WriteLedger, Crash,
       GateExpire, GateReject, GateWrite, Write, ClaimNextQueued, Start, Pick, Finish, RecoverFound, RecoverMiss,
       RecoverSkip, GatePass, RouteReject, RoutePass, AdapterFails, FindHit, FindMiss, SubmitRefused, StoreError,
       HandlerHit, HandlerMiss, Step, Decide, Report, Quiet
<1> QED
  BY <1>1 DEF vars, Backup, Restore, Enqueue, ForceDelete, Network, Deliver, Lose

(* A consumer inserts nothing. *)
LEMMA ConsumerInserts ==
  ASSUME NEW c \in Consumers, Consumer(c) \/ Crash(c)
  PROVE  inserts' = inserts
  BY DEF Consumer, DedupeClaim, SubmitAccepted, SubmitTimeout, MarkUnknown, Mark, WriteLedger, Crash,
     GateExpire, GateReject, GateWrite, Write, ClaimNextQueued, Start, Pick, Finish, RecoverFound, RecoverMiss,
     RecoverSkip, GatePass, RouteReject, RoutePass, AdapterFails, FindHit, FindMiss, SubmitRefused, StoreError,
     HandlerHit, HandlerMiss, Step, Decide, Report, Quiet, envVars, boundVars, histVars

(* The id in the hand of the reconciler. *)
LEMMA ReconIdsNext ==
  ASSUME TypeInv, IdInv, VenueGrows, [Next]_vars
  PROVE  ReconIds'
<1> USE DEF queueVars, dedupeVars, venueVars, consumerVars, reconVars, envVars, boundVars, histVars
<1>0. ReconIds /\ roid \in Nat
  BY DEF TypeInv, TypeOK, IdInv
<1>1. roid # 0 => rcur \in Intents /\ (roid = 0 \/ roid \in 1 .. venue'[rcur])
  BY <1>0, KnownStays DEF ReconIds
<1>2. CASE UNCHANGED <<rcur, roid, rnxt>> /\ (rpc' \in {"write", "ledger"} => rpc \in {"write", "ledger"})
  BY <1>0, <1>1, <1>2 DEF ReconIds, Known
<1>3. ASSUME NEW i \in Intents, ReconFound(i)
      PROVE  ReconIds'
  <2>1. PICK o \in LookupHits(i) : rcur' = i /\ roid' = o
    BY <1>3 DEF ReconFound, ReconDecide
  <2>2. o \in Nat /\ Known(i, o) /\ o # 0
    BY LookupHitsNat DEF LookupHits, Known
  <2>3. o \in 1 .. venue'[i]
    BY <2>2, KnownStays
  <2> QED
    BY <2>1, <2>2, <2>3 DEF ReconIds, Known
<1>4. ASSUME NEW i \in Intents, ReconGiveUp(i)
      PROVE  ReconIds'
  BY <1>4 DEF ReconGiveUp, ReconDecide, ReconIds
<1>5. ASSUME NEW i \in Intents, ReconMiss(i) \/ ReconMissUnsaved(i)
      PROVE  ReconIds'
  BY <1>2, <1>5 DEF ReconMiss, ReconMissUnsaved, ReconSkip
<1>6. CASE ReconCrash
  BY <1>6 DEF ReconCrash, ReconIds
<1>7. CASE ReconStart \/ ReconWrite \/ ReconLedger \/ ReconClear \/ ReconFinish
  BY <1>2, <1>7 DEF ReconStart, ReconWrite, ReconLedger, ReconClear, ReconFinish
<1>8. CASE UNCHANGED reconVars
  BY <1>2, <1>8
<1> QED
  BY <1>3, <1>4, <1>5, <1>6, <1>7, <1>8, ReconStays DEF Next, Recon

(* Paths and ids, together with the types, in every reachable state. *)
LEMMA IdsAlways == Spec => [](TypeInv /\ PathInv /\ IdInv)
<1>1. Init => TypeInv /\ PathInv /\ IdInv
  <2>1. Init => TypeInv
    BY TypeInit, ConstantsAssumption
  <2>2. Init => PathInv /\ IdInv
    BY DEF Init, PathInv, PathAt, IdInv, QueueIds, DedupeIds, LedgerIds, HeldIds, ReconIds,
           BackupIds, Known
  <2> QED
    BY <2>1, <2>2
<1>2. TypeInv /\ PathInv /\ IdInv /\ [Next]_vars => (TypeInv /\ PathInv /\ IdInv)'
  <2> SUFFICES ASSUME TypeInv, PathInv, IdInv, [Next]_vars
               PROVE  TypeInv' /\ PathInv' /\ IdInv'
    OBVIOUS
  <2>1. TypeInv' /\ VenueGrows
    BY TypeNext, NextVenue, ConstantsAssumption
  <2>2. PathInv'
    BY PathNext
  <2>3. IdInv'
    BY <2>1, QueueIdsNext, StoreIdsNext, HeldIdsNext, ReconIdsNext, BackupIdsNext DEF IdInv
  <2> QED
    BY <2>1, <2>2, <2>3
<1> QED
  BY <1>1, <1>2, PTL DEF Spec

(* A submitted row carries the id of an order the venue has, and so does   *)
(* the dedupe row once it carries one, for any number of consumers,        *)
(* crashes, deletions, insertions and restored backups, and whatever the   *)
(* lookups miss: a backup is older than the venue, which forgets nothing.  *)
THEOREM SubmittedOrders == Spec => []SubmittedHasOrder
<1>1. TypeInv /\ IdInv => SubmittedHasOrder
  BY DEF IdInv, QueueIds, DedupeIds, Known, SubmittedHasOrder
<1> QED
  BY <1>1, IdsAlways, PTL

(* The part of LedgerBacked that a restore does not end: live_orders says  *)
(* submitted only of an intent for which the venue has an order.           *)
LedgerHasOrder == \A i \in Intents : lstatus[i] = "submitted" => venue[i] >= 1

(* It holds for any consumers, crashes, insertions and restores.           *)
THEOREM LedgerOrders == Spec => []LedgerHasOrder
<1>1. TypeInv /\ IdInv => LedgerHasOrder
  BY DEF IdInv, LedgerIds, LedgerHasOrder, TypeInv, TypeOK
<1> QED
  BY <1>1, IdsAlways, PTL

-----------------------------------------------------------------------------
(* Intents inserted once: the row is claimed by one batch only, so that    *)
(* whoever refuses an intent is the only one that could have sent it.      *)

(* A batch holds the intent and has not sent it yet. *)
Unsent(c, i) ==
  /\ mode[c] = "batch"
  /\ \/ i \in work[c]
     \/ /\ cur[c] = i
        /\ \/ pc[c] \in {"gate", "claim", "route", "find", "submit"}
           \/ pc[c] = "write" /\ nxt[c] = "rejected"

Refused == {"rejected", "expired"}

(* What a step of consumer c may do to intent i and to its rows. *)
Takes(c, i) == Unsent(c, i)' /\ ~Unsent(c, i) => qstatus[i] = "queued" /\ qstatus'[i] = "submitting"
Sends(c, i) ==
  Exposure(i)' # Exposure(i) => Unsent(c, i) /\ ~Unsent(c, i)' /\ qstatus'[i] = qstatus[i]
Writes(c, i) ==
  qstatus'[i] # qstatus[i] =>
    \/ qstatus[i] = "queued" /\ qstatus'[i] = "submitting"
    \/ /\ ~Unsent(c, i)' /\ qstatus[i] \in LiveStatuses
       /\ qstatus'[i] \in {"submitted", "submit_unknown"} \cup Refused
       /\ qstatus'[i] \in Refused => Unsent(c, i)
Tells(c, i) ==
  /\ lstatus'[i] # lstatus[i] => pc[c] = "ledger" /\ cur[c] = i /\ lstatus'[i] = nxt[c]
                                   /\ qstatus'[i] = qstatus[i]
  /\ pc'[c] = "ledger" /\ cur'[c] = i /\ nxt'[c] = "rejected" => qstatus'[i] = "rejected"
Effect(c, i) == Takes(c, i) /\ Sends(c, i) /\ Writes(c, i) /\ Tells(c, i)

(* A step that leaves the rows and the venue alone and takes nothing. *)
LEMMA EffectQuiet ==
  ASSUME NEW c \in Consumers, NEW i \in Intents, Quiet, pc'[c] # "ledger",
         Unsent(c, i)' => Unsent(c, i)
  PROVE  Effect(c, i)
<1>1. Exposure(i)' = Exposure(i)
  BY DEF Quiet, venueVars, Exposure
<1> QED
  BY <1>1 DEF Effect, Takes, Sends, Writes, Tells, Quiet, queueVars

(* Every step of a consumer has these effects. *)
LEMMA ConsumerEffect ==
  ASSUME TypeInv, PathInv, NEW c \in Consumers, NEW i \in Intents, Consumer(c) \/ Crash(c)
  PROVE  Effect(c, i)
<1> USE DEF Goto, queueVars, dedupeVars, venueVars, consumerVars, reconVars, envVars, boundVars, histVars
<1>0. /\ PathAt(c)
      /\ pc \in [Consumers -> ConsumerSteps] /\ mode \in [Consumers -> {"recover", "batch"}]
      /\ work \in [Consumers -> SUBSET Intents] /\ cur \in [Consumers -> Intents \cup {NoIntent}]
      /\ nxt \in [Consumers -> {"submitted", "submit_unknown", "rejected"}]
      /\ qstatus \in [Intents -> RowStatuses] /\ lstatus \in [Intents -> LedgerStatuses]
  BY DEF PathInv, TypeInv, TypeOK
<1>1. CASE Start(c) \/ Pick(c)
  <2>1. Quiet /\ pc'[c] # "ledger"
    BY <1>0, <1>1 DEF Start, Pick
  <2>2. Unsent(c, i)' => Unsent(c, i)
    BY <1>0, <1>1 DEF Start, Pick, Unsent
  <2> QED
    BY <2>1, <2>2, EffectQuiet
<1>2. CASE \/ Finish(c) \/ RecoverSkip(c) \/ GatePass(c) \/ FindMiss(c)
           \/ SubmitRefused(c) \/ StoreError(c)
  <2>1. Quiet /\ pc'[c] # "ledger"
    BY <1>0, <1>2 DEF Finish, RecoverSkip, GatePass, FindMiss, SubmitRefused, StoreError, Step
  <2>2. Unsent(c, i)' => Unsent(c, i)
    BY <1>0, <1>2 DEF Finish, RecoverSkip, GatePass, FindMiss, SubmitRefused, StoreError, Step, Unsent
  <2> QED
    BY <2>1, <2>2, EffectQuiet
<1>3. CASE \/ RouteReject(c) \/ RoutePass(c) \/ AdapterFails(c) \/ RecoverMiss(c) \/ HandlerMiss(c)
           \/ RecoverFound(c) \/ FindHit(c) \/ HandlerHit(c)
  <2>1. Quiet /\ pc'[c] # "ledger"
    BY <1>0, <1>3 DEF RouteReject, RoutePass, AdapterFails, RecoverMiss, HandlerMiss,
       RecoverFound, FindHit, HandlerHit, Decide, Report
  <2>2. pc[c] = "lookup" /\ pc'[c] = "claim" => mode'[c] = "recover"
    BY <1>0, <1>3 DEF RouteReject, RoutePass, AdapterFails, RecoverMiss, HandlerMiss,
       RecoverFound, FindHit, HandlerHit, Decide, Report, PathAt
  <2>3. Unsent(c, i)' => Unsent(c, i)
    BY <1>0, <1>3, <2>2 DEF RouteReject, RoutePass, AdapterFails, RecoverMiss, HandlerMiss,
       RecoverFound, FindHit, HandlerHit, Decide, Report, Unsent, PathAt
  <2> QED
    BY <2>1, <2>3, EffectQuiet
<1>4. ASSUME venue' = venue, wire' = wire
      PROVE  Exposure(i)' = Exposure(i)
  BY <1>4 DEF Exposure
<1>5. CASE ClaimNextQueued(c)
  BY <1>0, <1>4, <1>5 DEF ClaimNextQueued, Effect, Takes, Sends, Writes, Tells, Unsent
<1>6. CASE GateExpire(c) \/ GateReject(c)
  <2>1. /\ cur[c] \in Intents /\ pc[c] = "gate" /\ pc'[c] = "pick" /\ cur' = cur /\ work' = work
        /\ mode' = mode /\ lstatus' = lstatus
    BY <1>0, <1>6 DEF GateExpire, GateReject, GateWrite, TypeInv, InHand
  <2>2. Exposure(i)' = Exposure(i)
    BY <1>4, <1>6 DEF GateExpire, GateReject, GateWrite
  <2>3. qstatus'[i] # qstatus[i] => /\ i = cur[c] /\ qstatus[i] \in LiveStatuses
                                    /\ qstatus'[i] \in {"submit_unknown"} \cup Refused
    BY <1>0, <1>6, <2>1 DEF GateExpire, GateReject, TryUpdateStatus, UpdateStatus, SqlAllows, Refused
  <2>4. cur[c] \notin work[c] /\ mode[c] = "batch"
    BY <1>0, <2>1 DEF PathAt
  <2>5. i = cur[c] => Unsent(c, i) /\ ~Unsent(c, i)'
    BY <2>1, <2>4 DEF Unsent
  <2>6. Unsent(c, i)' => Unsent(c, i)
    BY <2>1 DEF Unsent
  <2> QED
    BY <2>1, <2>2, <2>3, <2>5, <2>6 DEF Effect, Takes, Sends, Writes, Tells
<1>7. CASE SubmitAccepted(c) \/ SubmitTimeout(c)
  <2>1. /\ cur[c] \in Intents /\ pc[c] = "submit" /\ pc'[c] \in {"mark", "unknown", "handler"}
        /\ cur' = cur /\ work' = work /\ mode' = mode
        /\ lstatus' = lstatus /\ qstatus' = qstatus
    BY <1>0, <1>7 DEF SubmitAccepted, SubmitTimeout, TypeInv, InHand
  <2>2. i # cur[c] => Exposure(i)' = Exposure(i)
    BY <1>7, <2>1 DEF SubmitAccepted, SubmitTimeout, Exposure, TypeInv, TypeOK
  <2>3. cur[c] \notin work[c] /\ mode[c] = "batch"
    BY <1>0, <2>1 DEF PathAt
  <2>4. i = cur[c] => Unsent(c, i) /\ ~Unsent(c, i)'
    BY <2>1, <2>3 DEF Unsent
  <2>5. Unsent(c, i)' => Unsent(c, i)
    BY <2>1 DEF Unsent
  <2> QED
    BY <2>1, <2>2, <2>4, <2>5 DEF Effect, Takes, Sends, Writes, Tells
<1>8. CASE DedupeClaim(c) \/ MarkUnknown(c) \/ Mark(c) \/ Crash(c)
  <2>1. pc'[c] # "ledger" /\ lstatus' = lstatus /\ qstatus' = qstatus
    BY <1>0, <1>8 DEF DedupeClaim, MarkUnknown, Mark, Crash
  <2>2. Exposure(i)' = Exposure(i)
    BY <1>4, <1>8 DEF DedupeClaim, MarkUnknown, Mark, Crash
  <2>3. Unsent(c, i)' => Unsent(c, i)
    BY <1>0, <1>8 DEF DedupeClaim, MarkUnknown, Mark, Crash, Unsent, PathAt
  <2> QED
    BY <2>1, <2>2, <2>3 DEF Effect, Takes, Sends, Writes, Tells
<1>9. CASE Write(c)
  <2>1. /\ cur[c] \in Intents /\ pc[c] = "write" /\ pc'[c] \in {"ledger", "pick"}
        /\ cur' = cur /\ work' = work /\ mode' = mode /\ nxt' = nxt /\ lstatus' = lstatus
    BY <1>0, <1>9 DEF Write, TypeInv, InHand
  <2>2. Exposure(i)' = Exposure(i)
    BY <1>4, <1>9 DEF Write
  <2>3. qstatus'[i] # qstatus[i] => i = cur[c] /\ qstatus[i] \in LiveStatuses /\ qstatus'[i] = nxt[c]
    BY <1>0, <1>9, <2>1 DEF Write, UpdateStatus, SqlAllows
  <2>4. pc'[c] = "ledger" /\ i = cur[c] => qstatus'[i] = nxt[c]
    BY <1>0, <1>9, <2>1 DEF Write, UpdateStatus
  <2>5. cur[c] \notin work[c] /\ (nxt[c] = "rejected" => mode[c] = "batch")
    BY <1>0, <2>1 DEF PathAt
  <2>6. i = cur[c] => ~Unsent(c, i)' /\ (nxt[c] = "rejected" => Unsent(c, i))
    BY <2>1, <2>5 DEF Unsent
  <2>7. Unsent(c, i)' => Unsent(c, i)
    BY <2>1 DEF Unsent
  <2>8. nxt[c] \in {"submitted", "submit_unknown", "rejected"}
    BY <1>0
  <2> QED
    BY <2>1, <2>2, <2>3, <2>4, <2>6, <2>7, <2>8 DEF Effect, Takes, Sends, Writes, Tells, Refused
<1>10. CASE WriteLedger(c)
  <2>1. /\ cur[c] \in Intents /\ pc[c] = "ledger" /\ pc'[c] = "pick"
        /\ cur' = cur /\ work' = work /\ mode' = mode /\ nxt' = nxt /\ qstatus' = qstatus
        /\ lstatus'[i] # lstatus[i] => i = cur[c] /\ lstatus'[i] = nxt[c]
    BY <1>0, <1>10 DEF WriteLedger, TypeInv, InHand
  <2>2. Exposure(i)' = Exposure(i)
    BY <1>4, <1>10 DEF WriteLedger
  <2>3. Unsent(c, i)' => Unsent(c, i)
    BY <2>1 DEF Unsent
  <2> QED
    BY <2>1, <2>2, <2>3 DEF Effect, Takes, Sends, Writes, Tells
<1> QED
  BY <1>1, <1>2, <1>3, <1>5, <1>6, <1>7, <1>8, <1>9, <1>10 DEF Consumer

(* A consumer comes by an intent only through a row that is queued or      *)
(* submitting.                                                             *)
LEMMA ConsumerPicks ==
  ASSUME TypeInv, NEW c \in Consumers, NEW i \in Intents, Consumer(c) \/ Crash(c),
         cur[c] # i, i \notin work[c], qstatus[i] = "absent"
  PROVE  cur'[c] # i /\ i \notin work'[c]
<1> USE DEF Goto, queueVars, dedupeVars, venueVars, consumerVars, reconVars, envVars, boundVars, histVars
<1>0. /\ work \in [Consumers -> SUBSET Intents] /\ cur \in [Consumers -> Intents \cup {NoIntent}]
      /\ NoIntent \notin Intents
  BY ConstantsAssumption DEF TypeInv, TypeOK
<1>1. CASE Start(c) \/ Pick(c) \/ ClaimNextQueued(c) \/ Crash(c)
  BY <1>0, <1>1 DEF Start, Pick, ClaimNextQueued, Crash
<1>2. CASE ~(Start(c) \/ Pick(c) \/ ClaimNextQueued(c) \/ Crash(c))
  <2>1. cur' = cur /\ work' = work
    BY <1>2 DEF Consumer, DedupeClaim, SubmitAccepted, SubmitTimeout, MarkUnknown, Mark, WriteLedger,
       GateExpire, GateReject, GateWrite, Write, Finish, RecoverFound, RecoverMiss,
       RecoverSkip, GatePass, RouteReject, RoutePass, AdapterFails, FindHit, FindMiss, SubmitRefused,
       StoreError, HandlerHit, HandlerMiss, Step, Decide, Report
  <2> QED
    BY <2>1
<1> QED
  BY <1>1, <1>2

(* What a step of the reconciler may do to intent i and to its rows. *)
ReconEffect(i) ==
  /\ qstatus'[i] # qstatus[i] =>
       rpc = "write" /\ rcur = i /\ qstatus[i] \in LiveStatuses /\ qstatus'[i] = rnxt
  /\ lstatus'[i] # lstatus[i] =>
       rpc = "ledger" /\ rcur = i /\ lstatus'[i] = rnxt /\ qstatus'[i] = qstatus[i]
  /\ rpc' = "ledger" /\ rcur' = i /\ rnxt' = "error" => qstatus'[i] = "error"
  /\ rcur' = i => rcur = i \/ i \in rwork
  /\ i \in rwork' => i \in rwork \/ (qstatus[i] = "submit_unknown" /\ qstatus'[i] = qstatus[i])
  /\ rpc' = "write" /\ rcur' = i => i \in rwork /\ qstatus'[i] = qstatus[i]
  /\ rpc' = "write" /\ rcur' = i /\ rnxt' = "error" => LookupMiss(i) /\ wire[i] = 0

(* Every step of the reconciler has these effects, and no other. *)
LEMMA ReconEffects ==
  ASSUME TypeInv, NEW i \in Intents, Recon \/ ReconCrash
  PROVE  /\ ReconEffect(i)
         /\ UNCHANGED <<consumerVars, venueVars, inserts>>
<1> USE DEF queueVars, dedupeVars, venueVars, consumerVars, reconVars, envVars, boundVars, histVars
<1>0. /\ qstatus \in [Intents -> RowStatuses] /\ lstatus \in [Intents -> LedgerStatuses]
      /\ NoIntent \notin Intents
  BY ConstantsAssumption DEF TypeInv, TypeOK
<1>1. CASE ReconStart \/ ReconClear \/ ReconFinish
  BY <1>1 DEF ReconStart, ReconClear, ReconFinish, ReconEffect
<1>2. CASE ReconCrash
  BY <1>0, <1>2 DEF ReconCrash, ReconEffect
<1>3. CASE ReconWrite
  <2>1. rcur \in Intents
    BY <1>3 DEF ReconWrite, TypeInv, InHand
  <2> QED
    BY <1>0, <1>3, <2>1 DEF ReconWrite, UpdateStatus, SqlAllows, ReconEffect
<1>4. CASE ReconLedger
  <2>1. rcur \in Intents
    BY <1>4 DEF ReconLedger, TypeInv, InHand
  <2> QED
    BY <1>0, <1>4, <2>1 DEF ReconLedger, ReconEffect
<1>5. ASSUME NEW j \in Intents, ReconFound(j)
      PROVE  ReconEffect(i) /\ UNCHANGED <<consumerVars, venueVars, inserts>>
  BY <1>5 DEF ReconFound, ReconDecide, ReconEffect
<1>6. ASSUME NEW j \in Intents, ReconGiveUp(j)
      PROVE  ReconEffect(i) /\ UNCHANGED <<consumerVars, venueVars, inserts>>
  BY <1>6 DEF ReconGiveUp, AgeMayElapse, ReconDecide, ReconEffect
<1>7. ASSUME NEW j \in Intents, ReconMiss(j) \/ ReconMissUnsaved(j)
      PROVE  ReconEffect(i) /\ UNCHANGED <<consumerVars, venueVars, inserts>>
  BY <1>7 DEF ReconMiss, ReconMissUnsaved, ReconSkip, ReconEffect
<1> QED
  BY <1>1, <1>2, <1>3, <1>4, <1>5, <1>6, <1>7 DEF Recon

(* An intent not inserted yet is in nobody's hands. *)
NewAt(i) ==
  /\ qstatus[i] = "absent" /\ lstatus[i] = "none" /\ Exposure(i) = 0
  /\ i \notin rwork /\ rcur # i
  /\ \A c \in Consumers : cur[c] # i /\ i \notin work[c]

(* An intent inserted once is unsent in one hand at most, and then it has  *)
(* no order and is not refused; refused or still queued it has none        *)
(* either.                                                                 *)
HoldAt(i) ==
  /\ \A c, d \in Consumers : Unsent(c, i) /\ Unsent(d, i) => c = d
  /\ \A c \in Consumers : Unsent(c, i) => Exposure(i) = 0 /\ qstatus[i] \notin Refused \cup {"queued"}
  /\ qstatus[i] \in Refused \cup {"queued"} => Exposure(i) = 0

(* live_orders says refused or given up only after the queue does. *)
TellAt(i) ==
  /\ lstatus[i] \in {"rejected", "error"} => qstatus[i] \in {lstatus[i], "absent"}
  /\ \A c \in Consumers : pc[c] = "ledger" /\ cur[c] = i /\ nxt[c] = "rejected"
                            => qstatus[i] \in {"rejected", "absent"}
  /\ rpc = "ledger" /\ rcur = i /\ rnxt = "error" => qstatus[i] \in {"error", "absent"}

OnceInv ==
  \A i \in Intents : /\ inserts[i] = 0 => NewAt(i)
                     /\ inserts[i] = 1 => HoldAt(i) /\ TellAt(i)

(* Intents inserted once: the steps of a consumer. *)
LEMMA OnceConsumer ==
  ASSUME TypeInv, PathInv, OnceInv, NEW c \in Consumers, Consumer(c) \/ Crash(c)
  PROVE  OnceInv'
<1>1. Alone(c)
  BY ConsumerPath
<1>2. inserts' = inserts /\ UNCHANGED reconVars
  BY ReconStays, ConsumerInserts
<1> SUFFICES ASSUME NEW i \in Intents
             PROVE  /\ inserts[i] = 0 => NewAt(i)'
                    /\ inserts[i] = 1 => HoldAt(i)' /\ TellAt(i)'
  BY <1>2 DEF OnceInv
<1>3. Takes(c, i) /\ Sends(c, i) /\ Writes(c, i) /\ Tells(c, i)
  BY ConsumerEffect DEF Effect
<1>4. \A d \in Consumers \ {c} : Unsent(d, i)' <=> Unsent(d, i)
  BY <1>1 DEF Alone, Unsent
<1>5. ASSUME inserts[i] = 0
      PROVE  NewAt(i)'
  <2>1. NewAt(i)
    BY <1>5 DEF OnceInv
  <2>2. cur'[c] # i /\ i \notin work'[c]
    BY <2>1, ConsumerPicks DEF NewAt
  <2>3. \A d \in Consumers : cur'[d] # i /\ i \notin work'[d]
    BY <1>1, <2>1, <2>2 DEF NewAt, Alone
  <2>4. qstatus'[i] = "absent"
    BY <1>3, <2>1 DEF Writes, NewAt
  <2>5. lstatus'[i] = "none"
    BY <1>3, <2>1 DEF Tells, NewAt
  <2>6. ~Unsent(c, i)
    BY <2>1 DEF Unsent, NewAt
  <2>7. Exposure(i)' = 0
    BY <1>3, <2>1, <2>6 DEF Sends, NewAt
  <2>8. i \notin rwork' /\ rcur' # i
    BY <1>2, <2>1 DEF NewAt, reconVars
  <2> QED
    BY <2>3, <2>4, <2>5, <2>7, <2>8 DEF NewAt
<1>6. ASSUME inserts[i] = 1
      PROVE  HoldAt(i)'
  <2>0. HoldAt(i)
    BY <1>6 DEF OnceInv
  <2>1. ASSUME NEW d \in Consumers, NEW e \in Consumers, Unsent(d, i)', Unsent(e, i)'
        PROVE  d = e
    <3>1. CASE Unsent(c, i)' /\ ~Unsent(c, i)
      BY <1>3, <1>4, <2>0, <2>1, <3>1 DEF Takes, HoldAt
    <3>2. CASE Unsent(c, i)' => Unsent(c, i)
      BY <1>4, <2>0, <2>1, <3>2 DEF HoldAt
    <3> QED
      BY <3>1, <3>2
  <2>2. ASSUME NEW d \in Consumers, Unsent(d, i)'
        PROVE  Exposure(i)' = 0 /\ qstatus'[i] \notin Refused \cup {"queued"}
    <3>1. CASE Unsent(c, i)' /\ ~Unsent(c, i)
      <4>1. qstatus[i] = "queued" /\ qstatus'[i] = "submitting"
        BY <1>3, <3>1 DEF Takes
      <4>2. Exposure(i)' = Exposure(i)
        BY <1>3, <4>1 DEF Sends
      <4> QED
        BY <2>0, <4>1, <4>2 DEF HoldAt, Refused
    <3>2. CASE Unsent(c, i)' /\ Unsent(c, i)
      <4>1. Exposure(i) = 0 /\ qstatus[i] \notin Refused \cup {"queued"}
        BY <2>0, <3>2 DEF HoldAt
      <4>2. Exposure(i)' = Exposure(i)
        BY <1>3, <3>2 DEF Sends
      <4>3. qstatus'[i] = qstatus[i]
        BY <1>3, <3>2, <4>1 DEF Writes
      <4> QED
        BY <4>1, <4>2, <4>3
    <3>3. CASE ~Unsent(c, i)'
      <4>1. Unsent(d, i) /\ d # c
        BY <1>4, <2>2, <3>3
      <4>2. ~Unsent(c, i)
        BY <2>0, <4>1 DEF HoldAt
      <4>3. Exposure(i) = 0 /\ qstatus[i] \notin Refused \cup {"queued"}
        BY <2>0, <4>1 DEF HoldAt
      <4>4. Exposure(i)' = Exposure(i)
        BY <1>3, <4>2 DEF Sends
      <4>5. qstatus'[i] \notin Refused \cup {"queued"}
        BY <1>3, <4>2, <4>3 DEF Writes, Refused
      <4> QED
        BY <4>3, <4>4, <4>5
    <3> QED
      BY <3>1, <3>2, <3>3
  <2>3. ASSUME qstatus'[i] \in Refused \cup {"queued"}
        PROVE  Exposure(i)' = 0
    <3>1. CASE qstatus'[i] = qstatus[i]
      <4>1. Exposure(i) = 0 /\ ~Unsent(c, i)
        BY <2>0, <2>3, <3>1 DEF HoldAt
      <4> QED
        BY <1>3, <4>1 DEF Sends
    <3>2. CASE qstatus'[i] # qstatus[i]
      <4>1. Unsent(c, i)
        BY <1>3, <2>3, <3>2 DEF Writes, Refused
      <4>2. Exposure(i) = 0
        BY <2>0, <4>1 DEF HoldAt
      <4> QED
        BY <1>3, <3>2, <4>2 DEF Sends
    <3> QED
      BY <3>1, <3>2
  <2> QED
    BY <2>1, <2>2, <2>3 DEF HoldAt
<1>7. ASSUME inserts[i] = 1
      PROVE  TellAt(i)'
  <2>0. TellAt(i)
    BY <1>7 DEF OnceInv
  <2>1. qstatus[i] \in {"rejected", "error", "absent"} => qstatus'[i] = qstatus[i]
    BY <1>3 DEF Writes
  <2>2. lstatus'[i] \in {"rejected", "error"} => qstatus'[i] \in {lstatus'[i], "absent"}
    <3>1. CASE lstatus'[i] = lstatus[i]
      BY <2>0, <2>1, <3>1 DEF TellAt
    <3>2. CASE lstatus'[i] # lstatus[i]
      <4>1. pc[c] = "ledger" /\ cur[c] = i /\ lstatus'[i] = nxt[c] /\ qstatus'[i] = qstatus[i]
        BY <1>3, <3>2 DEF Tells
      <4>2. nxt[c] # "error"
        BY DEF TypeInv, TypeOK
      <4> QED
        BY <2>0, <4>1, <4>2 DEF TellAt
    <3> QED
      BY <3>1, <3>2
  <2>3. ASSUME NEW d \in Consumers, pc'[d] = "ledger", cur'[d] = i, nxt'[d] = "rejected"
        PROVE  qstatus'[i] \in {"rejected", "absent"}
    <3>1. CASE d = c
      BY <1>3, <2>3, <3>1 DEF Tells
    <3>2. CASE d # c
      <4>1. pc[d] = "ledger" /\ cur[d] = i /\ nxt[d] = "rejected"
        BY <1>1, <2>3, <3>2 DEF Alone
      <4> QED
        BY <2>0, <2>1, <4>1 DEF TellAt
    <3> QED
      BY <3>1, <3>2
  <2>4. rpc' = "ledger" /\ rcur' = i /\ rnxt' = "error" => qstatus'[i] \in {"error", "absent"}
    BY <1>2, <2>0, <2>1 DEF TellAt, reconVars
  <2> QED
    BY <2>2, <2>3, <2>4 DEF TellAt
<1> QED
  BY <1>5, <1>6, <1>7

(* Intents inserted once: the steps of the reconciler. *)
LEMMA OnceRecon ==
  ASSUME TypeInv, OnceInv, Recon \/ ReconCrash
  PROVE  OnceInv'
<1> SUFFICES ASSUME NEW i \in Intents
             PROVE  /\ inserts'[i] = 0 => NewAt(i)'
                    /\ inserts'[i] = 1 => HoldAt(i)' /\ TellAt(i)'
  BY DEF OnceInv
<1>1. ReconEffect(i) /\ UNCHANGED <<consumerVars, venueVars, inserts>>
  BY ReconEffects
<1>2. Exposure(i)' = Exposure(i) /\ \A c \in Consumers : Unsent(c, i)' <=> Unsent(c, i)
  BY <1>1 DEF Exposure, Unsent, venueVars, consumerVars
<1>3. rnxt \in {"submitted", "error"}
  BY DEF TypeInv, TypeOK
<1>4. ASSUME inserts[i] = 0
      PROVE  NewAt(i)'
  <2>1. NewAt(i)
    BY <1>4 DEF OnceInv
  <2>2. qstatus'[i] = "absent" /\ lstatus'[i] = "none" /\ rcur' # i /\ i \notin rwork'
    BY <1>1, <2>1 DEF ReconEffect, NewAt
  <2> QED
    BY <1>1, <1>2, <2>1, <2>2 DEF NewAt, consumerVars
<1>5. ASSUME inserts[i] = 1
      PROVE  HoldAt(i)'
  <2>1. HoldAt(i)
    BY <1>5 DEF OnceInv
  <2>2. qstatus'[i] \in Refused \cup {"queued"} <=> qstatus[i] \in Refused \cup {"queued"} /\ qstatus'[i] = qstatus[i]
    BY <1>1, <1>3 DEF ReconEffect, Refused
  <2>3. ASSUME NEW c \in Consumers, Unsent(c, i)
        PROVE  Exposure(i)' = 0 /\ qstatus'[i] \notin Refused \cup {"queued"}
    BY <1>2, <2>1, <2>2, <2>3 DEF HoldAt
  <2>4. qstatus'[i] \in Refused \cup {"queued"} => Exposure(i)' = 0
    BY <1>2, <2>1, <2>2 DEF HoldAt
  <2>5. \A c, d \in Consumers : Unsent(c, i)' /\ Unsent(d, i)' => c = d
    BY <1>2, <2>1 DEF HoldAt
  <2>6. \A c \in Consumers : Unsent(c, i)' => Exposure(i)' = 0 /\ qstatus'[i] \notin Refused \cup {"queued"}
    BY <1>2, <2>3
  <2> QED
    BY <2>4, <2>5, <2>6 DEF HoldAt
<1>6. ASSUME inserts[i] = 1
      PROVE  TellAt(i)'
  <2>1. TellAt(i)
    BY <1>6 DEF OnceInv
  <2>2. qstatus[i] \in {"rejected", "error", "absent"} => qstatus'[i] = qstatus[i]
    BY <1>1 DEF ReconEffect
  <2>3. lstatus'[i] \in {"rejected", "error"} => qstatus'[i] \in {lstatus'[i], "absent"}
    <3>1. CASE lstatus'[i] = lstatus[i]
      BY <2>1, <2>2, <3>1 DEF TellAt
    <3>2. CASE lstatus'[i] # lstatus[i]
      BY <1>1, <1>3, <2>1, <3>2 DEF TellAt, ReconEffect
    <3> QED
      BY <3>1, <3>2
  <2>4. \A c \in Consumers : pc'[c] = "ledger" /\ cur'[c] = i /\ nxt'[c] = "rejected"
                               => qstatus'[i] \in {"rejected", "absent"}
    BY <1>1, <2>1, <2>2 DEF TellAt, consumerVars
  <2>5. rpc' = "ledger" /\ rcur' = i /\ rnxt' = "error" => qstatus'[i] \in {"error", "absent"}
    BY <1>1 DEF ReconEffect
  <2> QED
    BY <2>3, <2>4, <2>5 DEF TellAt
<1>7. inserts' = inserts
  BY <1>1
<1> QED
  BY <1>4, <1>5, <1>6, <1>7

(* What a step of the environment may do to intent i. *)
LEMMA EnvEffect ==
  ASSUME TypeInv, NEW i \in Intents,
         \/ \E j \in Intents : Enqueue(j) \/ ForceDelete(j) \/ Network(j)
         \/ Backup \/ UNCHANGED vars
  PROVE  /\ UNCHANGED <<consumerVars, reconVars, lstatus>>
         /\ Exposure(i) \in Nat /\ Exposure(i)' \in Nat /\ Exposure(i)' <= Exposure(i)
         /\ \/ inserts'[i] = inserts[i] /\ qstatus'[i] \in {qstatus[i], "absent"}
            \/ /\ inserts'[i] = inserts[i] + 1 /\ qstatus'[i] = "queued"
               /\ qstatus[i] = "absent" /\ Exposure(i)' = Exposure(i)
<1> USE DEF queueVars, dedupeVars, venueVars, envVars, boundVars, histVars
<1>0. /\ venue \in [Intents -> Nat] /\ wire \in [Intents -> Nat]
      /\ inserts \in [Intents -> Nat] /\ qstatus \in [Intents -> RowStatuses]
  BY DEF TypeInv, TypeOK
<1>1. ASSUME NEW j \in Intents, Enqueue(j) \/ ForceDelete(j)
      PROVE  /\ UNCHANGED <<consumerVars, reconVars, lstatus, venue, wire>>
             /\ \/ inserts'[i] = inserts[i] /\ qstatus'[i] \in {qstatus[i], "absent"}
                \/ inserts'[i] = inserts[i] + 1 /\ qstatus'[i] = "queued" /\ qstatus[i] = "absent"
  BY <1>0, <1>1 DEF Enqueue, ForceDelete
<1>2. ASSUME NEW j \in Intents, Network(j)
      PROVE  /\ UNCHANGED <<consumerVars, reconVars, lstatus, qstatus, inserts>>
             /\ Exposure(i)' \in Nat /\ Exposure(i)' <= Exposure(i)
  <2>1. CASE Deliver(j)
    BY <1>0, <2>1 DEF Deliver, Exposure
  <2>2. CASE Lose(j)
    BY <1>0, <2>2 DEF Lose, Exposure
  <2> QED
    BY <1>2, <2>1, <2>2 DEF Network
<1>3. CASE Backup \/ UNCHANGED vars
  BY <1>0, <1>3 DEF Backup, vars, Exposure
<1>4. Exposure(i) \in Nat
  BY <1>0 DEF Exposure
<1>5. CASE \E j \in Intents : Enqueue(j) \/ ForceDelete(j)
  BY <1>1, <1>4, <1>5 DEF Exposure
<1> QED
  BY <1>2, <1>3, <1>4, <1>5

(* Intents inserted once: the steps of the environment. *)
LEMMA OnceEnv ==
  ASSUME TypeInv, OnceInv,
         \/ \E j \in Intents : Enqueue(j) \/ ForceDelete(j) \/ Network(j)
         \/ Backup \/ UNCHANGED vars
  PROVE  OnceInv'
<1> SUFFICES ASSUME NEW i \in Intents
             PROVE  /\ inserts'[i] = 0 => NewAt(i)'
                    /\ inserts'[i] = 1 => HoldAt(i)' /\ TellAt(i)'
  BY DEF OnceInv
<1>1. /\ UNCHANGED <<consumerVars, reconVars, lstatus>>
      /\ Exposure(i) \in Nat /\ Exposure(i)' \in Nat /\ Exposure(i)' <= Exposure(i)
      /\ \/ inserts'[i] = inserts[i] /\ qstatus'[i] \in {qstatus[i], "absent"}
         \/ /\ inserts'[i] = inserts[i] + 1 /\ qstatus'[i] = "queued"
            /\ qstatus[i] = "absent" /\ Exposure(i)' = Exposure(i)
  BY EnvEffect
<1>2. Exposure(i) = 0 => Exposure(i)' = 0
  BY <1>1
<1>3. \A c \in Consumers : Unsent(c, i)' <=> Unsent(c, i)
  BY <1>1 DEF Unsent, consumerVars
<1>4. inserts[i] \in Nat /\ pc \in [Consumers -> ConsumerSteps]
  BY DEF TypeInv, TypeOK
<1>5. CASE inserts'[i] = inserts[i] /\ qstatus'[i] \in {qstatus[i], "absent"}
  <2>1. ASSUME inserts[i] = 0
        PROVE  NewAt(i)'
    <3>1. NewAt(i)
      BY <2>1 DEF OnceInv
    <3> QED
      BY <1>1, <1>2, <1>5, <3>1 DEF NewAt, consumerVars, reconVars
  <2>2. ASSUME inserts[i] = 1
        PROVE  HoldAt(i)'
    <3>1. HoldAt(i)
      BY <2>2 DEF OnceInv
    <3>2. \A c, d \in Consumers : Unsent(c, i)' /\ Unsent(d, i)' => c = d
      BY <1>3, <3>1 DEF HoldAt
    <3>3. \A c \in Consumers : Unsent(c, i)' => Exposure(i)' = 0 /\ qstatus'[i] \notin Refused \cup {"queued"}
      BY <1>2, <1>3, <1>5, <3>1 DEF HoldAt, Refused
    <3>4. qstatus'[i] \in Refused \cup {"queued"} => Exposure(i)' = 0
      BY <1>2, <1>5, <3>1 DEF HoldAt, Refused
    <3> QED
      BY <3>2, <3>3, <3>4 DEF HoldAt
  <2>3. ASSUME inserts[i] = 1
        PROVE  TellAt(i)'
    <3>1. TellAt(i)
      BY <2>3 DEF OnceInv
    <3> QED
      BY <1>1, <1>5, <3>1 DEF TellAt, consumerVars, reconVars
  <2> QED
    BY <1>5, <2>1, <2>2, <2>3
<1>6. CASE /\ inserts'[i] = inserts[i] + 1 /\ qstatus'[i] = "queued"
           /\ qstatus[i] = "absent" /\ Exposure(i)' = Exposure(i)
  <2>1. inserts'[i] # 0 /\ (inserts'[i] = 1 => inserts[i] = 0)
    BY <1>4, <1>6
  <2>2. ASSUME inserts[i] = 0
        PROVE  HoldAt(i)' /\ TellAt(i)'
    <3>1. NewAt(i)
      BY <2>2 DEF OnceInv
    <3>2. \A c \in Consumers : ~Unsent(c, i)
      BY <3>1 DEF NewAt, Unsent
    <3>3. HoldAt(i)'
      BY <1>3, <1>6, <3>1, <3>2 DEF HoldAt, NewAt
    <3>4. TellAt(i)'
      BY <1>1, <3>1 DEF TellAt, NewAt, consumerVars, reconVars
    <3> QED
      BY <3>3, <3>4
  <2> QED
    BY <2>1, <2>2
<1> QED
  BY <1>1, <1>5, <1>6

(* What holds of intents inserted once, in every reachable state. *)
LEMMA OnceAlways ==
  ASSUME MaxRestores = 0
  PROVE  Spec => [](TypeInv /\ PathInv /\ IdInv /\ OnceInv)
<1>1. Init => OnceInv
  <2>1. ASSUME Init, NEW i \in Intents
        PROVE  inserts[i] = 0 /\ NewAt(i)
    BY <2>1, ConstantsAssumption DEF Init, NewAt, Exposure, ConstantsAssumption
  <2> QED
    BY <2>1 DEF OnceInv
<1>2. TypeInv /\ PathInv /\ OnceInv /\ [Next]_vars => OnceInv'
  <2> SUFFICES ASSUME TypeInv, PathInv, OnceInv, [Next]_vars
               PROVE  OnceInv'
    OBVIOUS
  <2>1. ~ Restore
    BY DEF Restore, TypeInv, TypeOK, Backups
  <2> QED
    BY <2>1, OnceConsumer, OnceRecon, OnceEnv DEF Next
<1> QED
  BY <1>1, <1>2, IdsAlways, PTL DEF Spec

(* An intent inserted once and refused before the send has no order, nor   *)
(* is anybody about to send one, for any number of consumers and crashes,  *)
(* as long as no backup is restored.                                       *)
THEOREM RefusedUnsent == ASSUME MaxRestores = 0 PROVE Spec => []RefusedHasNoOrder
<1>1. PathInv /\ OnceInv => RefusedHasNoOrder
  <2> SUFFICES ASSUME PathInv, OnceInv, NEW i \in Intents, inserts[i] = 1,
                      qstatus[i] \in {"rejected", "expired"}
               PROVE  /\ Exposure(i) = 0
                      /\ \A c \in Consumers : ~ (cur[c] = i /\ pc[c] \in {"find", "submit"})
    BY DEF RefusedHasNoOrder
  <2>1. HoldAt(i)
    BY DEF OnceInv
  <2>2. \A c \in Consumers : cur[c] = i /\ pc[c] \in {"find", "submit"} => Unsent(c, i)
    BY DEF PathInv, PathAt, Unsent
  <2> QED
    BY <2>1, <2>2 DEF HoldAt, Refused
<1> QED
  BY <1>1, OnceAlways, PTL

(* live_orders says submitted only of an order the venue has, and refused  *)
(* or given up only of an intent, inserted once, that the queue does not   *)
(* hold open, for any number of consumers and crashes, as long as no       *)
(* backup is restored.                                                     *)
THEOREM LedgerFollows == ASSUME MaxRestores = 0 PROVE Spec => []LedgerBacked
<1>1. TypeInv /\ IdInv /\ OnceInv => LedgerBacked
  <2> SUFFICES ASSUME TypeInv, IdInv, OnceInv, NEW i \in Intents, inserts[i] = 1
               PROVE  /\ lstatus[i] = "submitted" => venue[i] >= 1
                      /\ lstatus[i] \in {"rejected", "error"} => qstatus[i] \in {lstatus[i], "absent"}
    BY DEF LedgerBacked
  <2>1. TellAt(i)
    BY DEF OnceInv
  <2>2. lstatus[i] = "submitted" => venue[i] # 0
    BY DEF IdInv, LedgerIds
  <2>3. venue[i] \in Nat
    BY DEF TypeInv, TypeOK
  <2>4. lstatus[i] = "submitted" => venue[i] >= 1
    BY <2>2, <2>3
  <2> QED
    BY <2>1, <2>4 DEF TellAt
<1> QED
  BY <1>1, OnceAlways, PTL

-----------------------------------------------------------------------------
(* Giving up.  With one consumer nobody can still send an intent that the  *)
(* reconciler has on its list: the sweep of a second one would park the    *)
(* intent while the first one holds it unsent.                             *)

(* The instance lock: one consumer process. *)
OneConsumer == \A c, d \in Consumers : c = d

GiveUpAt(i) ==
  /\ \A c \in Consumers : Unsent(c, i) => qstatus[i] \in {"submitting", "absent"}
  /\ i \in rwork \/ (rpc = "write" /\ rcur = i) => qstatus[i] \notin {"queued", "submitting"}
  /\ rpc = "write" /\ rcur = i /\ rnxt = "error" => qstatus[i] = "absent" \/ Exposure(i) = 0
  /\ qstatus[i] = "error" => Exposure(i) = 0

GiveUpInv == \A i \in Intents \ missed : inserts[i] = 1 => GiveUpAt(i)

(* An intent not inserted yet is in nobody's hands, nor is it in a backup. *)
Untouched(i) ==
  /\ qstatus[i] = "absent" /\ bk.qstatus[i] = "absent" /\ Exposure(i) = 0
  /\ i \notin rwork /\ rcur # i
  /\ \A c \in Consumers : cur[c] # i /\ i \notin work[c]

FreshInv == \A i \in Intents : inserts[i] = 0 => Untouched(i)

(* A process that is not running, or between two passes, has no work. *)
RestInv ==
  /\ \A c \in Consumers : pc[c] = "down" => work[c] = {}
  /\ rpc = "idle" => rwork = {}

(* An intent that a backup of the queue says was given up still is, or was *)
(* deleted; so a restore finds it without an order.                        *)
CopyAt(i) ==
  bk.stage \in {"queue", "complete"} /\ bk.qstatus[i] = "error" =>
    /\ Exposure(i) = 0 /\ qstatus[i] \in {"error", "absent"}
    /\ \A c \in Consumers : ~Unsent(c, i)

CopyInv == \A i \in Intents \ missed : inserts[i] = 1 => CopyAt(i)

(* The steps of the one consumer. *)
LEMMA GiveUpConsumer ==
  ASSUME OneConsumer, TypeInv, PathInv, GiveUpInv, NEW c \in Consumers, Consumer(c) \/ Crash(c)
  PROVE  GiveUpInv'
<1>1. inserts' = inserts /\ UNCHANGED reconVars
  BY ReconStays, ConsumerInserts
<1> SUFFICES ASSUME NEW i \in Intents \ missed, inserts[i] = 1
             PROVE  GiveUpAt(i)'
  BY <1>1, MissedGrows DEF GiveUpInv, Next
<1>2. Takes(c, i) /\ Sends(c, i) /\ Writes(c, i)
  BY ConsumerEffect DEF Effect
<1>3. GiveUpAt(i)
  BY DEF GiveUpInv
<1>4. ASSUME NEW d \in Consumers, Unsent(d, i)'
      PROVE  qstatus'[i] \in {"submitting", "absent"}
  <2>1. Unsent(c, i)'
    BY <1>4 DEF OneConsumer
  <2>2. CASE ~Unsent(c, i)
    BY <1>2, <2>1, <2>2 DEF Takes
  <2>3. CASE Unsent(c, i)
    <3>1. qstatus[i] \in {"submitting", "absent"}
      BY <1>3, <2>3 DEF GiveUpAt
    <3> QED
      BY <1>2, <2>1, <3>1 DEF Writes
  <2> QED
    BY <2>2, <2>3
<1>5. ASSUME i \in rwork \/ (rpc = "write" /\ rcur = i)
      PROVE  qstatus'[i] \notin {"queued", "submitting"}
  BY <1>2, <1>3, <1>5 DEF GiveUpAt, Writes, Refused
<1>6. qstatus[i] = "absent" => qstatus'[i] = "absent"
  BY <1>2 DEF Writes
<1>7. Exposure(i)' # Exposure(i) => qstatus[i] \in {"submitting", "absent"} /\ qstatus'[i] = qstatus[i]
  BY <1>2, <1>3 DEF Sends, GiveUpAt
<1>8. ASSUME rpc = "write", rcur = i, rnxt = "error"
      PROVE  qstatus'[i] = "absent" \/ Exposure(i)' = 0
  BY <1>3, <1>6, <1>7, <1>8 DEF GiveUpAt
<1>9. ASSUME qstatus'[i] = "error"
      PROVE  Exposure(i)' = 0
  <2>1. qstatus[i] = "error"
    BY <1>2, <1>9 DEF Writes, Refused
  <2> QED
    BY <1>3, <1>7, <2>1 DEF GiveUpAt
<1> QED
  BY <1>1, <1>4, <1>5, <1>8, <1>9 DEF GiveUpAt, reconVars

(* The steps of the reconciler, for an intent whose order lookups see. *)
LEMMA GiveUpRecon ==
  ASSUME TypeInv, GiveUpInv, Recon \/ ReconCrash
  PROVE  GiveUpInv'
<1> SUFFICES ASSUME NEW i \in Intents, i \notin missed', inserts'[i] = 1
             PROVE  GiveUpAt(i)'
  BY DEF GiveUpInv
<1>0. i \notin missed
  BY MissedGrows DEF Next
<1>1. ReconEffect(i) /\ UNCHANGED <<consumerVars, venueVars, inserts>>
  BY ReconEffects
<1>2. Exposure(i)' = Exposure(i) /\ \A c \in Consumers : Unsent(c, i)' <=> Unsent(c, i)
  BY <1>1 DEF Exposure, Unsent, venueVars, consumerVars
<1>3. GiveUpAt(i)
  BY <1>0, <1>1 DEF GiveUpInv
<1>4. rnxt \in {"submitted", "error"} /\ venue[i] \in Nat
  BY DEF TypeInv, TypeOK
<1>5. ASSUME qstatus'[i] # qstatus[i]
      PROVE  /\ rpc = "write" /\ rcur = i /\ qstatus[i] \in LiveStatuses /\ qstatus'[i] = rnxt
             /\ \A c \in Consumers : ~Unsent(c, i)
  BY <1>1, <1>3, <1>5 DEF ReconEffect, GiveUpAt
<1>6. \A c \in Consumers : Unsent(c, i)' => qstatus'[i] \in {"submitting", "absent"}
  BY <1>2, <1>3, <1>5 DEF GiveUpAt
<1>7. i \in rwork' \/ (rpc' = "write" /\ rcur' = i) => qstatus'[i] \notin {"queued", "submitting"}
  <2>1. CASE qstatus'[i] # qstatus[i]
    BY <1>4, <1>5, <2>1
  <2>2. CASE qstatus'[i] = qstatus[i]
    BY <1>1, <1>3, <2>2 DEF ReconEffect, GiveUpAt
  <2> QED
    BY <2>1, <2>2
<1>8. rpc' = "write" /\ rcur' = i /\ rnxt' = "error" => qstatus'[i] = "absent" \/ Exposure(i)' = 0
  <2>1. rpc' = "write" /\ rcur' = i /\ rnxt' = "error" => venue[i] = 0 /\ wire[i] = 0
    BY <1>1 DEF ReconEffect, LookupMiss
  <2>2. venue[i] = 0 /\ wire[i] = 0 => Exposure(i) = 0
    BY DEF Exposure
  <2> QED
    BY <1>2, <2>1, <2>2
<1>9. qstatus'[i] = "error" => Exposure(i)' = 0
  <2>1. CASE qstatus'[i] = qstatus[i]
    BY <1>2, <1>3, <2>1 DEF GiveUpAt
  <2>2. CASE qstatus'[i] # qstatus[i]
    BY <1>2, <1>3, <1>5, <2>2 DEF GiveUpAt
  <2> QED
    BY <2>1, <2>2
<1> QED
  BY <1>6, <1>7, <1>8, <1>9 DEF GiveUpAt

(* The steps of the environment. *)
LEMMA GiveUpEnv ==
  ASSUME TypeInv, FreshInv, GiveUpInv,
         \/ \E j \in Intents : Enqueue(j) \/ ForceDelete(j) \/ Network(j)
         \/ Backup \/ UNCHANGED vars
  PROVE  GiveUpInv'
<1> SUFFICES ASSUME NEW i \in Intents \ missed, inserts'[i] = 1
             PROVE  GiveUpAt(i)'
  BY MissedGrows DEF GiveUpInv, Next
<1>1. /\ UNCHANGED <<consumerVars, reconVars, lstatus>>
      /\ Exposure(i) \in Nat /\ Exposure(i)' \in Nat /\ Exposure(i)' <= Exposure(i)
      /\ \/ inserts'[i] = inserts[i] /\ qstatus'[i] \in {qstatus[i], "absent"}
         \/ /\ inserts'[i] = inserts[i] + 1 /\ qstatus'[i] = "queued"
            /\ qstatus[i] = "absent" /\ Exposure(i)' = Exposure(i)
  BY EnvEffect
<1>2. Exposure(i) = 0 => Exposure(i)' = 0
  BY <1>1
<1>3. \A c \in Consumers : Unsent(c, i)' <=> Unsent(c, i)
  BY <1>1 DEF Unsent, consumerVars
<1>4. inserts[i] \in Nat
  BY DEF TypeInv, TypeOK
<1>5. CASE inserts'[i] = inserts[i] /\ qstatus'[i] \in {qstatus[i], "absent"}
  <2>1. GiveUpAt(i)
    BY <1>5 DEF GiveUpInv
  <2>2. \A c \in Consumers : Unsent(c, i)' => qstatus'[i] \in {"submitting", "absent"}
    BY <1>3, <1>5, <2>1 DEF GiveUpAt
  <2> QED
    BY <1>1, <1>2, <1>5, <2>1, <2>2 DEF GiveUpAt, reconVars
<1>6. CASE inserts'[i] = inserts[i] + 1 /\ qstatus'[i] = "queued"
  <2>1. inserts[i] = 0
    BY <1>4, <1>6
  <2>2. Untouched(i)
    BY <2>1 DEF FreshInv
  <2>3. \A c \in Consumers : ~Unsent(c, i)
    BY <2>2 DEF Untouched, Unsent
  <2> QED
    BY <1>1, <1>3, <1>6, <2>2, <2>3 DEF GiveUpAt, Untouched, reconVars
<1> QED
  BY <1>1, <1>5, <1>6

(* A restore brings back no row that was given up and has an order. *)
LEMMA GiveUpRestore ==
  ASSUME TypeInv, RestInv, CopyInv, Restore
  PROVE  GiveUpInv'
<1>1. /\ UNCHANGED <<inserts, venueVars, consumerVars, reconVars>>
      /\ rpc = "idle" /\ rwork = {} /\ bk.stage = "complete" /\ qstatus' = bk.qstatus
      /\ \A c \in Consumers : pc[c] = "down" /\ work[c] = {}
  BY DEF Restore, RestInv
<1> SUFFICES ASSUME NEW i \in Intents \ missed, inserts[i] = 1
             PROVE  GiveUpAt(i)'
  BY <1>1, MissedGrows DEF GiveUpInv, Next
<1>2. \A c \in Consumers : ~Unsent(c, i)'
  BY <1>1 DEF Unsent, consumerVars
<1>3. Exposure(i)' = Exposure(i)
  BY <1>1 DEF Exposure, venueVars
<1>4. qstatus'[i] = "error" => Exposure(i)' = 0
  BY <1>1, <1>3 DEF CopyInv, CopyAt
<1> QED
  BY <1>1, <1>2, <1>4 DEF GiveUpAt, reconVars

(* Intents not inserted yet stay untouched. *)
LEMMA FreshStep ==
  ASSUME TypeInv, PathInv, FreshInv, [Next]_vars
  PROVE  FreshInv'
<1>0. /\ inserts \in [Intents -> Nat] /\ venue \in [Intents -> Nat] /\ wire \in [Intents -> Nat]
      /\ bk.qstatus \in [Intents -> RowStatuses]
  BY BackupType DEF TypeInv, TypeOK
<1>1. ASSUME NEW i \in Intents, inserts[i] = 0
      PROVE  Untouched(i) /\ \A c \in Consumers : ~Unsent(c, i)
  BY <1>1 DEF FreshInv, Untouched, Unsent
<1>2. ASSUME NEW c \in Consumers, Consumer(c) \/ Crash(c)
      PROVE  FreshInv'
  <2>1. Alone(c) /\ inserts' = inserts /\ UNCHANGED reconVars
    BY <1>2, ConsumerPath, ReconStays, ConsumerInserts
  <2>2. bk'.qstatus = bk.qstatus
    BY <1>2, ProcessesKeepBackup
  <2> SUFFICES ASSUME NEW i \in Intents, inserts[i] = 0
               PROVE  Untouched(i)'
    BY <2>1 DEF FreshInv
  <2>3. Untouched(i) /\ ~Unsent(c, i)
    BY <1>1
  <2>4. Sends(c, i) /\ Writes(c, i)
    BY <1>2, ConsumerEffect DEF Effect
  <2>5. qstatus'[i] = "absent" /\ Exposure(i)' = 0
    BY <2>3, <2>4 DEF Sends, Writes, Untouched
  <2>6. cur'[c] # i /\ i \notin work'[c]
    BY <1>2, <2>3, ConsumerPicks DEF Untouched
  <2>7. \A d \in Consumers : cur'[d] # i /\ i \notin work'[d]
    BY <2>1, <2>3, <2>6 DEF Alone, Untouched
  <2> QED
    BY <2>1, <2>2, <2>3, <2>5, <2>7 DEF Untouched, reconVars
<1>3. CASE Recon \/ ReconCrash
  <2>1. bk' = bk
    BY <1>3, ProcessesKeepBackup
  <2> SUFFICES ASSUME NEW i \in Intents, inserts'[i] = 0
               PROVE  Untouched(i)'
    BY DEF FreshInv
  <2>2. ReconEffect(i) /\ UNCHANGED <<consumerVars, venueVars, inserts>>
    BY <1>3, ReconEffects
  <2>3. Untouched(i)
    BY <1>1, <2>2
  <2> QED
    BY <2>1, <2>2, <2>3 DEF ReconEffect, Untouched, Exposure, consumerVars, venueVars
<1>4. CASE Restore
  <2>1. /\ UNCHANGED <<inserts, venueVars, consumerVars, reconVars>> /\ qstatus' = bk.qstatus
    BY <1>4 DEF Restore
  <2>2. bk'.qstatus = bk.qstatus
    <3>1. bk \in Backups /\ bk' = [bk EXCEPT !.stage = "none", !.restores = bk.restores + 1]
      BY <1>4 DEF Restore, TypeInv, TypeOK
    <3> QED
      BY <3>1 DEF Backups
  <2> QED
    BY <1>1, <2>1, <2>2 DEF FreshInv, Untouched, Exposure, consumerVars, venueVars, reconVars
<1>5. CASE \/ \E j \in Intents : Enqueue(j) \/ ForceDelete(j) \/ Network(j)
           \/ Backup \/ UNCHANGED vars
  <2> SUFFICES ASSUME NEW i \in Intents, inserts'[i] = 0
               PROVE  Untouched(i)'
    BY DEF FreshInv
  <2>1. /\ UNCHANGED <<consumerVars, reconVars, lstatus>>
        /\ Exposure(i) \in Nat /\ Exposure(i)' \in Nat /\ Exposure(i)' <= Exposure(i)
        /\ \/ inserts'[i] = inserts[i] /\ qstatus'[i] \in {qstatus[i], "absent"}
           \/ /\ inserts'[i] = inserts[i] + 1 /\ qstatus'[i] = "queued"
              /\ qstatus[i] = "absent" /\ Exposure(i)' = Exposure(i)
    BY <1>5, EnvEffect
  <2>2. inserts[i] = 0 /\ qstatus'[i] \in {qstatus[i], "absent"}
    BY <1>0, <2>1
  <2>3. Untouched(i)
    BY <1>1, <2>2
  <2>4. Exposure(i)' = 0
    BY <2>1, <2>3 DEF Untouched
  <2>5. bk'.qstatus = bk.qstatus \/ bk'.qstatus = qstatus
    BY BackupMoves, BackupStays
  <2> QED
    BY <2>1, <2>2, <2>3, <2>4, <2>5 DEF Untouched, consumerVars, reconVars
<1> QED
  BY <1>2, <1>3, <1>4, <1>5 DEF Next

(* Whoever stops or finishes drops its work. *)
LEMMA RestStep ==
  ASSUME TypeInv, PathInv, RestInv, [Next]_vars
  PROVE  RestInv'
<1> USE DEF Goto, queueVars, dedupeVars, venueVars, consumerVars, reconVars, envVars, boundVars, histVars
<1>0. pc \in [Consumers -> ConsumerSteps] /\ work \in [Consumers -> SUBSET Intents]
  BY DEF TypeInv, TypeOK
<1>1. ASSUME NEW c \in Consumers, Consumer(c) \/ Crash(c)
      PROVE  RestInv'
  <2>1. Alone(c) /\ UNCHANGED reconVars
    BY <1>1, ConsumerPath, ReconStays
  <2>2. CASE Crash(c)
    BY <1>0, <2>1, <2>2 DEF Crash, RestInv, Alone
  <2>3. CASE \/ Start(c) \/ ClaimNextQueued(c) \/ Pick(c) \/ GateExpire(c) \/ GateReject(c) \/ DedupeClaim(c)
             \/ SubmitAccepted(c) \/ SubmitTimeout(c) \/ MarkUnknown(c) \/ Mark(c) \/ Write(c) \/ WriteLedger(c)
    <3>1. pc'[c] # "down"
      BY <1>0, <2>3 DEF Start, ClaimNextQueued, Pick, GateExpire, GateReject, GateWrite, DedupeClaim,
         SubmitAccepted, SubmitTimeout, MarkUnknown, Mark, Write, WriteLedger
    <3> QED
      BY <2>1, <3>1 DEF RestInv, Alone
  <2>4. CASE \/ Finish(c) \/ RecoverSkip(c) \/ GatePass(c) \/ FindMiss(c) \/ SubmitRefused(c) \/ StoreError(c)
             \/ RouteReject(c) \/ RoutePass(c) \/ AdapterFails(c) \/ RecoverMiss(c) \/ HandlerMiss(c)
             \/ RecoverFound(c) \/ FindHit(c) \/ HandlerHit(c)
    <3>1. pc'[c] # "down"
      BY <1>0, <2>4 DEF Finish, RecoverSkip, GatePass, FindMiss, SubmitRefused, StoreError, Step,
         RouteReject, RoutePass, AdapterFails, RecoverMiss, HandlerMiss, RecoverFound, FindHit, HandlerHit, Decide, Report
    <3> QED
      BY <2>1, <3>1 DEF RestInv, Alone
  <2> QED
    BY <1>1, <2>2, <2>3, <2>4 DEF Consumer
<1>2. CASE Recon \/ ReconCrash
  <2>1. UNCHANGED consumerVars
    BY <1>2, ConsumersStay
  <2>2. rpc' = "idle" => rwork' = {}
    BY <1>2 DEF Recon, ReconCrash, ReconStart, ReconWrite, ReconLedger, ReconClear, ReconFinish,
       ReconFound, ReconGiveUp, ReconMiss, ReconMissUnsaved, ReconDecide, ReconSkip
  <2> QED
    BY <2>1, <2>2 DEF RestInv
<1>3. CASE \/ \E j \in Intents : Enqueue(j) \/ ForceDelete(j) \/ Network(j)
           \/ Backup \/ Restore \/ UNCHANGED vars
  BY <1>3, ConsumersStay, ReconStays DEF RestInv
<1> QED
  BY <1>1, <1>2, <1>3 DEF Next

(* What a backup says was given up stays given up, until the restore. *)
LEMMA CopyStep ==
  ASSUME OneConsumer, TypeInv, PathInv, FreshInv, GiveUpInv, CopyInv, [Next]_vars
  PROVE  CopyInv'
<1>0. inserts \in [Intents -> Nat]
  BY DEF TypeInv, TypeOK
<1>1. ASSUME NEW c \in Consumers, Consumer(c) \/ Crash(c), bk' = bk
      PROVE  CopyInv'
  <2>1. inserts' = inserts
    BY <1>1, ConsumerInserts
  <2> SUFFICES ASSUME NEW i \in Intents \ missed, inserts[i] = 1, bk.stage \in {"queue", "complete"},
                      bk.qstatus[i] = "error"
               PROVE  /\ Exposure(i)' = 0 /\ qstatus'[i] \in {"error", "absent"}
                      /\ \A d \in Consumers : ~Unsent(d, i)'
    BY <1>1, <2>1, MissedGrows DEF CopyInv, CopyAt
  <2>2. Exposure(i) = 0 /\ qstatus[i] \in {"error", "absent"} /\ ~Unsent(c, i)
    BY DEF CopyInv, CopyAt
  <2>3. Takes(c, i) /\ Sends(c, i) /\ Writes(c, i)
    BY <1>1, ConsumerEffect DEF Effect
  <2>4. ~Unsent(c, i)'
    BY <2>2, <2>3 DEF Takes
  <2>5. Exposure(i)' = 0 /\ qstatus'[i] = qstatus[i]
    BY <2>2, <2>3 DEF Sends, Writes, LiveStatuses
  <2> QED
    BY <2>2, <2>4, <2>5 DEF OneConsumer
<1>2. ASSUME Recon \/ ReconCrash, bk' = bk
      PROVE  CopyInv'
  <2> SUFFICES ASSUME NEW i \in Intents \ missed, inserts'[i] = 1, bk.stage \in {"queue", "complete"},
                      bk.qstatus[i] = "error"
               PROVE  /\ Exposure(i)' = 0 /\ qstatus'[i] \in {"error", "absent"}
                      /\ \A d \in Consumers : ~Unsent(d, i)'
    BY <1>2, MissedGrows DEF CopyInv, CopyAt
  <2>1. ReconEffect(i) /\ UNCHANGED <<consumerVars, venueVars, inserts>>
    BY <1>2, ReconEffects
  <2>2. /\ Exposure(i) = 0 /\ qstatus[i] \in {"error", "absent"}
        /\ \A d \in Consumers : ~Unsent(d, i)
    BY <2>1 DEF CopyInv, CopyAt
  <2>3. qstatus'[i] = qstatus[i]
    BY <2>1, <2>2 DEF ReconEffect, LiveStatuses
  <2>4. Exposure(i)' = Exposure(i) /\ \A d \in Consumers : Unsent(d, i)' <=> Unsent(d, i)
    BY <2>1 DEF Exposure, Unsent, venueVars, consumerVars
  <2> QED
    BY <2>2, <2>3, <2>4
<1>3. CASE Restore
  <2>1. bk'.stage = "none"
    BY <1>3 DEF Restore, TypeInv, TypeOK, Backups
  <2> QED
    BY <2>1 DEF CopyInv, CopyAt
<1>4. CASE \/ \E j \in Intents : Enqueue(j) \/ ForceDelete(j) \/ Network(j)
           \/ Backup \/ UNCHANGED vars
  <2> SUFFICES ASSUME NEW i \in Intents \ missed, inserts'[i] = 1, bk'.stage \in {"queue", "complete"},
                      bk'.qstatus[i] = "error"
               PROVE  /\ Exposure(i)' = 0 /\ qstatus'[i] \in {"error", "absent"}
                      /\ \A d \in Consumers : ~Unsent(d, i)'
    BY MissedGrows DEF CopyInv, CopyAt
  <2>1. /\ UNCHANGED <<consumerVars, reconVars, lstatus>>
        /\ Exposure(i) \in Nat /\ Exposure(i)' \in Nat /\ Exposure(i)' <= Exposure(i)
        /\ \/ inserts'[i] = inserts[i] /\ qstatus'[i] \in {qstatus[i], "absent"}
           \/ /\ inserts'[i] = inserts[i] + 1 /\ qstatus'[i] = "queued"
              /\ qstatus[i] = "absent" /\ Exposure(i)' = Exposure(i)
    BY <1>4, EnvEffect
  <2>2. inserts[i] = 1 /\ qstatus'[i] \in {qstatus[i], "absent"}
    <3>1. CASE inserts'[i] = inserts[i] /\ qstatus'[i] \in {qstatus[i], "absent"}
      BY <3>1
    <3>2. CASE inserts'[i] = inserts[i] + 1 /\ qstatus[i] = "absent"
      <4>1. inserts[i] = 0
        BY <1>0, <3>2
      <4>2. bk.qstatus[i] = "absent"
        BY <4>1 DEF FreshInv, Untouched
      <4>3. bk'.qstatus = bk.qstatus \/ bk'.qstatus = qstatus
        BY BackupMoves, BackupStays
      <4> QED
        BY <3>2, <4>2, <4>3
    <3> QED
      BY <2>1, <3>1, <3>2
  <2>3. \/ bk.stage \in {"queue", "complete"} /\ bk'.qstatus = bk.qstatus
        \/ bk'.qstatus = qstatus
    <3>1. CASE Backup
      <4>1. bk \in Backups
        BY DEF TypeInv, TypeOK
      <4>2. CASE bk' = [bk EXCEPT !.stage = "dedupe", !.dstatus = dstatus, !.doid = doid]
        BY <4>1, <4>2 DEF Backups
      <4>3. CASE bk' = [bk EXCEPT !.stage = "queue", !.qstatus = qstatus, !.qoid = qoid, !.obs = obs]
        BY <4>1, <4>3 DEF Backups
      <4>4. CASE bk.stage = "queue" /\ bk' = [bk EXCEPT !.stage = "complete", !.lstatus = lstatus]
        BY <4>1, <4>4 DEF Backups
      <4> QED
        BY <3>1, <4>2, <4>3, <4>4 DEF Backup
    <3>2. CASE bk' = bk
      BY <3>2
    <3>3. Restore => bk'.stage = "none"
      BY DEF Restore, TypeInv, TypeOK, Backups
    <3> QED
      BY <3>1, <3>2, <3>3, BackupFrame
  <2>4. /\ Exposure(i) = 0 /\ qstatus[i] \in {"error", "absent"}
        /\ \A d \in Consumers : ~Unsent(d, i)
    <3>1. CASE bk.stage \in {"queue", "complete"} /\ bk'.qstatus = bk.qstatus
      BY <2>2, <3>1 DEF CopyInv, CopyAt
    <3>2. CASE bk'.qstatus = qstatus
      BY <2>2, <3>2 DEF GiveUpInv, GiveUpAt
    <3> QED
      BY <2>3, <3>1, <3>2
  <2>5. Exposure(i)' = 0
    BY <2>1, <2>4
  <2>6. \A d \in Consumers : ~Unsent(d, i)'
    BY <2>1, <2>4 DEF Unsent, consumerVars
  <2> QED
    BY <2>2, <2>4, <2>5, <2>6
<1> QED
  BY <1>1, <1>2, <1>3, <1>4, ProcessesKeepBackup DEF Next

(* The reconciler gives an intent inserted once up only when the venue has *)
(* no order for it and will get none, or a lookup has failed to see one:   *)
(* one consumer, any number of crashes, failing lookups and restored       *)
(* backups.                                                                *)
THEOREM GivenUpUnsent ==
  ASSUME OneConsumer
  PROVE  Spec => []GivenUpHasNoOrder
<1> DEFINE GInv == GiveUpInv /\ FreshInv /\ RestInv /\ CopyInv
<1>1. Init => GInv
  <2>1. Init => FreshInv
    BY ConstantsAssumption DEF Init, FreshInv, Untouched, Exposure, ConstantsAssumption
  <2>2. Init => GiveUpInv /\ RestInv /\ CopyInv
    BY DEF Init, GiveUpInv, RestInv, CopyInv
  <2> QED
    BY <2>1, <2>2
<1>2. TypeInv /\ PathInv /\ GInv /\ [Next]_vars => GInv'
  <2> SUFFICES ASSUME TypeInv, PathInv, GInv, [Next]_vars
               PROVE  GInv'
    OBVIOUS
  <2>1. GiveUpInv'
    BY GiveUpConsumer, GiveUpRecon, GiveUpEnv, GiveUpRestore DEF Next
  <2> QED
    BY <2>1, FreshStep, RestStep, CopyStep
<1>3. PathInv /\ GInv => GivenUpHasNoOrder
  <2> SUFFICES ASSUME PathInv, GiveUpInv, NEW i \in Intents \ missed, inserts[i] = 1, qstatus[i] = "error"
               PROVE  /\ Exposure(i) = 0
                      /\ \A c \in Consumers : ~ (cur[c] = i /\ pc[c] \in {"find", "submit"})
    BY DEF GivenUpHasNoOrder
  <2>1. GiveUpAt(i)
    BY DEF GiveUpInv
  <2>2. \A c \in Consumers : cur[c] = i /\ pc[c] \in {"find", "submit"} => Unsent(c, i)
    BY DEF PathInv, PathAt, Unsent
  <2> QED
    BY <2>1, <2>2 DEF GiveUpAt
<1> QED
  BY <1>1, <1>2, <1>3, IdsAlways, PTL DEF Spec
=============================================================================
