------------------------- MODULE ExecutorPathProofs -------------------------
(***************************************************************************)
(* Theorems about ExecutorPath for any intents, workers, order sizes and   *)
(* number of failures.  That two orders never go out for one intent, and   *)
(* what rests on it, needs a single submitting process: the lock the       *)
(* executor service takes.                                                 *)
(***************************************************************************)
EXTENDS ExecutorPath, TLAPS, FiniteSetTheorems

(* The types, part by part, with what the proofs need beyond TypeOK: the   *)
(* fills are finitely many, only the sink's own are completed, and a       *)
(* delivery about to be completed is in the accounts.                      *)
StoreOK ==
  /\ status \in [Intents -> Terminal \cup {"pending", "submitted", "partially_filled"}]
  /\ reason \in [Intents -> Remote]
  /\ row \in [Intents -> {"absent", "created", "submitted", "unknown", "error", "terminal"}]
  /\ rid \in [Intents -> Orders \cup {NoOrder}]

FillsOK ==
  /\ fills \subseteq FillIds \X Units /\ IsFiniteSet(fills)
  /\ done \subseteq booked /\ booked \subseteq {r[1] : r \in fills}

VenueOK ==
  /\ state \in [Orders -> {"none", "open", "closed", "canceled"}]
  /\ filled \in [Orders -> 0 .. Size]
  /\ listed \subseteq FillIds /\ \A f \in listed : f[2] \in 1 .. filled[f[1]]
  /\ old \subseteq Orders

WorkersOK ==
  /\ pc \in [Workers -> Labels]
  /\ it \in [Workers -> Intents]
  /\ seen \in [Workers -> Answers]
  /\ todo \in [Workers -> SUBSET FillIds]
  /\ then \in [Workers -> {"idle", "fetch", "traded", "untraded", "settle"}]

BudgetOK ==
  budget \in [orders : 1 .. MaxOrders, tools : BOOLEAN, age : BOOLEAN, faults : Nat]

(* The worker follows the order it has fetched. *)
Following(w) ==
  \/ pc[w] \in {"trades", "add", "close", "synth", "settle", "finish", "terminal"}
  \/ pc[w] \in {"retry", "complete"} /\ then[w] # "fetch"

(* What a worker's locals are at its labels. *)
LocalInv ==
  \A w \in Workers :
    /\ pc[w] = "complete" => todo[w] \subseteq booked
    /\ pc[w] = "mark" => seen[w].order \in Orders \cup {NoOrder}
    /\ pc[w] \in {"retry", "complete"} => then[w] \in {"idle", "fetch", "settle"}
    /\ pc[w] = "synth" => then[w] = "settle"
    /\ pc[w] = "add" => \A f \in todo[w] : IntentOf(f) = it[w] /\ f[2] \in Units
    /\ Following(w) => seen[w].order \in Orders

TypeInv ==
  /\ StoreOK /\ FillsOK /\ VenueOK /\ WorkersOK /\ BudgetOK
  /\ LocalInv /\ lost \subseteq Intents

-----------------------------------------------------------------------------
(* Orders and ids.                                                         *)

USE DEF store, venue, locals

(* An order is an intent and a number; the two words for no id are none.   *)
LEMMA OrderFacts ==
  /\ NoOrder \notin Orders /\ NoneId \notin Orders /\ NoOrder # NoneId
  /\ \A o \in Orders : o = <<o[1], o[2]>> /\ o[1] \in Intents /\ o[2] \in 1 .. MaxOrders
  /\ \A i \in Intents, n \in 1 .. MaxOrders : <<i, n>> \in Orders
  /\ \A i, n : <<i, n>>[1] = i /\ <<i, n>>[2] = n
  BY DEF Orders, NoOrder, NoneId

(* The answer of a lookup that found nothing has its type. *)
LEMMA NoAnswerType == NoAnswer \in Answers /\ NoAnswer.order = NoOrder
  BY ExecutorAssumption DEF NoAnswer, Answers, Remote

(* What the worker that leaves its intent is left with. *)
LEMMA LeaveType ==
  ASSUME WorkersOK, NEW w \in Workers, Leave(w)
  PROVE  /\ WorkersOK'
         /\ pc'[w] = "idle" /\ todo'[w] = {} /\ then'[w] = "idle"
<1>1. (CHOOSE i \in Intents : TRUE) \in Intents
  BY ExecutorAssumption
<1> QED
  BY <1>1, NoAnswerType DEF Leave, Goto, WorkersOK, Labels

(* The others are as they were. *)
Others(w) ==
  \A v \in Workers \ {w} : /\ pc'[v] = pc[v] /\ it'[v] = it[v] /\ seen'[v] = seen[v]
                           /\ todo'[v] = todo[v] /\ then'[v] = then[v]

(* Leaving an intent moves no other worker. *)
LEMMA LeaveAlone ==
  ASSUME WorkersOK, NEW w \in Workers, Leave(w)
  PROVE  Others(w)
  BY DEF Leave, Goto, WorkersOK, Others

(* A step to another label leaves the worker's locals as they are. *)
LEMMA StayType ==
  ASSUME WorkersOK, NEW w \in Workers, NEW l \in Labels, Stay(w, l)
  PROVE  /\ WorkersOK'
         /\ pc'[w] = l /\ it'[w] = it[w] /\ seen'[w] = seen[w] /\ todo'[w] = todo[w] /\ then'[w] = then[w]
         /\ Others(w)
  BY DEF Stay, Goto, WorkersOK, Others

(* A fault spends a fault and sends no order. *)
LEMMA FaultType ==
  ASSUME BudgetOK, Fault
  PROVE  BudgetOK' /\ budget'.orders = budget.orders
  BY DEF BudgetOK, Fault

(* Marking a row keeps the store's types and touches that row alone. *)
LEMMA MarkType ==
  ASSUME StoreOK, NEW i \in Intents,
         NEW s \in {"created", "submitted", "unknown", "error"}, Mark(i, s)
  PROVE  /\ row' \in [Intents -> {"absent", "created", "submitted", "unknown", "error", "terminal"}]
         /\ row'[i] = IF row[i] = "terminal" THEN "terminal" ELSE s
         /\ \A j \in Intents \ {i} : row'[j] = row[j]
  BY DEF StoreOK, Mark

(* An intent out of sight is an intent, unless it has no order. *)
LEMMA LoseType ==
  ASSUME lost \subseteq Intents, NEW i \in Intents, LoseSight(i)
  PROVE  /\ lost' \subseteq Intents /\ lost \subseteq lost'
         /\ i \in lost' \/ OrdersOf(i) = {}
  BY DEF LoseSight

(* A status is set with its reason or not at all. *)
LEMMA SetStatusType ==
  ASSUME StoreOK, NEW i \in Intents, NEW s \in Terminal \cup {"submitted", "partially_filled"},
         NEW r \in Remote, SetStatus(i, s, r)
  PROVE  /\ status' \in [Intents -> Terminal \cup {"pending", "submitted", "partially_filled"}]
         /\ reason' \in [Intents -> Remote]
         /\ \A j \in Intents \ {i} : status'[j] = status[j] /\ reason'[j] = reason[j]
         /\ \/ status'[i] = status[i] /\ reason'[i] = reason[i]
            \/ status'[i] = s /\ reason'[i] = r /\ (status[i] \in Terminal => status[i] = s)
<1>1. status[i] = s \/ s \in Transitions(status[i]) => (status[i] \in Terminal => status[i] = s)
  BY DEF StoreOK, Transitions, Terminal
<1> QED
  BY <1>1 DEF StoreOK, SetStatus
-----------------------------------------------------------------------------
(* Types.                                                                  *)

(* A worker that left, or went on with its intent, completes nothing. *)
LEMMA LocalKeeps ==
  ASSUME LocalInv, NEW w \in Workers, Others(w), booked \subseteq booked',
         pc'[w] = "complete" => todo'[w] \subseteq booked',
         pc'[w] = "mark" => seen'[w].order \in Orders \cup {NoOrder},
         pc'[w] \in {"retry", "complete"} => then'[w] \in {"idle", "fetch", "settle"},
         pc'[w] = "synth" => then'[w] = "settle",
         pc'[w] = "add" => \A f \in todo'[w] : IntentOf(f) = it'[w] /\ f[2] \in Units,
         Following(w)' => seen'[w].order \in Orders
  PROVE  LocalInv'
  BY DEF LocalInv, Others, Following

(* Leaving keeps the types of the workers and their locals. *)
LEMMA TypeLeave ==
  ASSUME TypeInv, NEW w \in Workers, Leave(w), UNCHANGED booked
  PROVE  WorkersOK' /\ LocalInv'
  BY LeaveType, LeaveAlone, LocalKeeps DEF TypeInv, Following

(* The steps of submit_pending_live. *)
LEMMA TypeSubmit ==
  ASSUME TypeInv, NEW w \in Workers, Submit(w) \/ \E i \in Intents : BeginSubmit(w, i)
  PROVE  TypeInv'
<1> USE DEF TypeInv
<1>1. ASSUME NEW i \in Intents, BeginSubmit(w, i)
      PROVE  TypeInv'
  <2>1. WorkersOK' /\ Others(w) /\ pc'[w] = "claim"
    BY <1>1 DEF BeginSubmit, Goto, WorkersOK, Others, Labels
  <2>3. LocalInv'
    BY <1>1, <2>1, LocalKeeps DEF BeginSubmit, Following
  <2> QED
    BY <1>1, <2>1, <2>3 DEF BeginSubmit, StoreOK, FillsOK, VenueOK, BudgetOK
<1>2. CASE Claim(w)
  <2>1. row' \in [Intents -> {"absent", "created", "submitted", "unknown", "error", "terminal"}]
    BY <1>2 DEF Claim, StoreOK, WorkersOK
  <2>2. UNCHANGED <<status, reason, rid, fills, done, booked, venue, lost, budget>>
    BY <1>2 DEF Claim
  <2>3. Stay(w, "status") \/ Stay(w, "place") \/ Leave(w)
    BY <1>2 DEF Claim
  <2>4. WorkersOK' /\ LocalInv'
    <3>1. CASE Leave(w)
      BY <2>2, <3>1, TypeLeave
    <3>2. ASSUME NEW l \in {"status", "place"}, Stay(w, l)
          PROVE  WorkersOK' /\ LocalInv'
      <4>1. WorkersOK' /\ pc'[w] = l /\ Others(w)
        BY <3>2, StayType DEF Labels
      <4> QED
        BY <2>2, <4>1, LocalKeeps DEF Following
    <3> QED
      BY <2>3, <3>1, <3>2
  <2> QED
    BY <2>1, <2>2, <2>4 DEF StoreOK, FillsOK, VenueOK, BudgetOK
<1>3. CASE PlaceAccepted(w)
  <2>1. PICK o \in Orders : /\ o[1] = it[w] /\ Accept(o)
                            /\ \E id \in {o, NoOrder} :
                                  seen' = [seen EXCEPT ![w] = [NoAnswer EXCEPT !.order = id]]
    BY <1>3 DEF PlaceAccepted
  <2>2. VenueOK'
    BY <2>1 DEF Accept, VenueOK
  <2>3. seen' \in [Workers -> Answers]
    BY <2>1, NoAnswerType DEF Answers, Remote, WorkersOK
  <2>4. /\ WorkersOK' /\ Others(w) /\ pc'[w] = "mark"
        /\ seen'[w].order \in Orders \cup {NoOrder}
    BY <1>3, <2>1, <2>3 DEF PlaceAccepted, Goto, WorkersOK, Labels, Others, NoAnswer
  <2>5. LocalInv'
    BY <1>3, <2>4, LocalKeeps DEF PlaceAccepted, Following
  <2> QED
    BY <1>3, <2>2, <2>4, <2>5 DEF PlaceAccepted, StoreOK, FillsOK, BudgetOK
<1>4. CASE PlaceAmbiguous(w)
  <2>1. UNCHANGED <<store, booked, lost>> /\ Stay(w, "unsure")
    BY <1>4 DEF PlaceAmbiguous
  <2>2. VenueOK'
    BY <1>4 DEF PlaceAmbiguous, Accept, VenueOK
  <2>3. WorkersOK' /\ pc'[w] = "unsure" /\ Others(w)
    BY <2>1, StayType DEF Labels
  <2>4. LocalInv'
    BY <2>1, <2>3, LocalKeeps DEF Following
  <2>5. BudgetOK'
    BY <1>4, FaultType DEF PlaceAmbiguous
  <2> QED
    BY <2>1, <2>2, <2>3, <2>4, <2>5 DEF StoreOK, FillsOK
<1>8. CASE MarkUnknown(w)
  <2>0. it[w] \in Intents
    BY DEF WorkersOK
  <2>1. row' \in [Intents -> {"absent", "created", "submitted", "unknown", "error", "terminal"}]
    <3>1. CASE Mark(it[w], "unknown")
      BY <2>0, <3>1, MarkType
    <3>2. CASE row' = row
      BY <3>2 DEF StoreOK
    <3> QED
      BY <1>8, <3>1, <3>2 DEF MarkUnknown
  <2>2. lost' \subseteq Intents
    BY <1>8, <2>0, LoseType DEF MarkUnknown
  <2>3. UNCHANGED <<status, reason, rid, fills, done, booked, venue>>
    BY <1>8 DEF MarkUnknown
  <2>4. WorkersOK' /\ LocalInv'
    BY <1>8, <2>3, TypeLeave DEF MarkUnknown
  <2>5. BudgetOK'
    <3>1. budget' = budget \/ Fault
      BY <1>8 DEF MarkUnknown, NoFault
    <3> QED
      BY <3>1, FaultType DEF BudgetOK
  <2> QED
    BY <2>1, <2>2, <2>3, <2>4, <2>5 DEF StoreOK, FillsOK, VenueOK
<1>5. CASE PlaceRefused(w)
  <2>1. row' \in [Intents -> {"absent", "created", "submitted", "unknown", "error", "terminal"}]
    <3>1. CASE Mark(it[w], "error")
      BY <3>1, MarkType DEF WorkersOK
    <3>2. CASE row' = row
      BY <3>2 DEF StoreOK
    <3> QED
      BY <1>5, <3>1, <3>2 DEF PlaceRefused
  <2>3. UNCHANGED <<status, reason, rid, fills, done, booked, venue, lost>>
    BY <1>5 DEF PlaceRefused
  <2>4. WorkersOK' /\ LocalInv'
    BY <1>5, <2>3, TypeLeave DEF PlaceRefused
  <2>5. BudgetOK'
    BY <1>5, FaultType DEF PlaceRefused
  <2> QED
    BY <2>1, <2>3, <2>4, <2>5 DEF StoreOK, FillsOK, VenueOK
<1>6. CASE MarkSubmitted(w)
  <2>0. it[w] \in Intents /\ seen[w].order \in Orders \cup {NoOrder}
    BY <1>6 DEF MarkSubmitted, WorkersOK, LocalInv
  <2>1. row' \in [Intents -> {"absent", "created", "submitted", "unknown", "error", "terminal"}]
    <3>1. CASE Mark(it[w], "submitted") \/ Mark(it[w], "error")
      BY <2>0, <3>1, MarkType
    <3>2. CASE row' = row
      BY <3>2 DEF StoreOK
    <3> QED
      BY <1>6, <3>1, <3>2 DEF MarkSubmitted
  <2>2. rid' \in [Intents -> Orders \cup {NoOrder}]
    BY <1>6, <2>0 DEF MarkSubmitted, StoreOK
  <2>3. UNCHANGED <<status, reason, fills, done, booked, venue>> /\ lost' \subseteq Intents
    BY <1>6, <2>0, LoseType DEF MarkSubmitted
  <2>4. WorkersOK' /\ LocalInv'
    <3>1. CASE Leave(w)
      BY <2>3, <3>1, TypeLeave
    <3>2. CASE Stay(w, "status")
      <4>1. WorkersOK' /\ pc'[w] = "status" /\ Others(w)
        BY <3>2, StayType DEF Labels
      <4> QED
        BY <2>3, <4>1, LocalKeeps DEF Following
    <3> QED
      BY <1>6, <3>1, <3>2 DEF MarkSubmitted
  <2>5. BudgetOK'
    <3>1. budget' = budget \/ Fault
      BY <1>6 DEF MarkSubmitted, NoFault
    <3> QED
      BY <3>1, FaultType DEF BudgetOK
  <2> QED
    BY <2>1, <2>2, <2>3, <2>4, <2>5 DEF StoreOK, FillsOK, VenueOK
<1>7. CASE SetSubmitted(w)
  <2>0. it[w] \in Intents /\ rid[it[w]] \in Orders \cup {NoOrder}
    BY DEF WorkersOK, StoreOK
  <2>1. AsText(rid[it[w]]) \in Remote
    BY <2>0 DEF AsText, Remote
  <2>2. /\ status' \in [Intents -> Terminal \cup {"pending", "submitted", "partially_filled"}]
        /\ reason' \in [Intents -> Remote]
    <3>1. CASE UNCHANGED <<status, reason>>
      BY <3>1 DEF StoreOK
    <3>2. CASE SetStatus(it[w], "submitted", AsText(rid[it[w]]))
      BY <2>0, <2>1, <3>2, SetStatusType
    <3> QED
      BY <1>7, <3>1, <3>2 DEF SetSubmitted
  <2>3. UNCHANGED <<row, rid, fills, done, booked, venue, lost>>
    BY <1>7 DEF SetSubmitted
  <2>4. WorkersOK' /\ LocalInv'
    BY <1>7, <2>3, TypeLeave DEF SetSubmitted
  <2>5. BudgetOK'
    <3>1. budget' = budget \/ Fault
      BY <1>7 DEF SetSubmitted, NoFault
    <3> QED
      BY <3>1, FaultType DEF BudgetOK
  <2> QED
    BY <2>2, <2>3, <2>4, <2>5 DEF StoreOK, FillsOK, VenueOK
<1> QED
  BY <1>1, <1>2, <1>3, <1>4, <1>5, <1>6, <1>7, <1>8 DEF Submit

(* What is recorded of an intent is of the table of fills. *)
LEMMA RecordedType ==
  ASSUME FillsOK, NEW i \in Intents
  PROVE  Recorded(i) \subseteq FillIds /\ Recorded(i) \subseteq {r[1] : r \in fills}
<1>1. \A r \in fills : r[1] \in FillIds
  BY DEF FillsOK
<1> QED
  BY <1>1 DEF Recorded, Rows

(* Giving up after an error keeps the types too. *)
LEMMA GiveUpType ==
  ASSUME TypeInv, NEW w \in Workers, GiveUp(w), UNCHANGED booked
  PROVE  WorkersOK' /\ LocalInv' /\ BudgetOK'
  BY TypeLeave, FaultType DEF GiveUp, TypeInv

(* A move within an intent keeps what the workers' locals say. *)
LEMMA StayKeeps ==
  ASSUME TypeInv, NEW w \in Workers, NEW l \in Labels \ {"mark", "complete", "synth", "add"}, Stay(w, l),
         booked \subseteq booked',
         l = "retry" => then[w] \in {"idle", "fetch", "settle"},
         Following(w)' => Following(w)
  PROVE  WorkersOK' /\ LocalInv'
<1>1. WorkersOK' /\ pc'[w] = l /\ then'[w] = then[w] /\ seen'[w] = seen[w] /\ Others(w)
  BY StayType DEF TypeInv
<1>2. Following(w)' => seen'[w].order \in Orders
  BY <1>1 DEF TypeInv, LocalInv
<1> QED
  BY <1>1, <1>2, LocalKeeps DEF TypeInv

(* The steps of reconcile_live that leave the store alone. *)
LEMMA TypeLook ==
  ASSUME TypeInv, NEW w \in Workers,
         FetchOrder(w) \/ Close(w) \/ Settle(w) \/ \E i \in Intents : BeginReconcile(w, i)
  PROVE  TypeInv'
<1> USE DEF TypeInv
<1>0. UNCHANGED <<store, booked, venue, lost>>
  BY DEF FetchOrder, Close, Settle, BeginReconcile
<1>1. ASSUME WorkersOK', LocalInv', BudgetOK'
      PROVE  TypeInv'
  BY <1>0, <1>1 DEF StoreOK, FillsOK, VenueOK
<1>2. ASSUME NEW i \in Intents, BeginReconcile(w, i)
      PROVE  TypeInv'
  <2>1. [NoAnswer EXCEPT !.order = reason[i]] \in Answers
    BY NoAnswerType DEF Answers, StoreOK
  <2>2. WorkersOK' /\ Others(w) /\ pc'[w] = "retry" /\ then'[w] = "fetch"
    BY <1>2, <2>1 DEF BeginReconcile, Goto, WorkersOK, Labels, Others
  <2>3. LocalInv'
    BY <1>0, <2>2, LocalKeeps DEF Following
  <2> QED
    BY <1>1, <1>2, <2>2, <2>3 DEF BeginReconcile, BudgetOK
<1>3. CASE FetchOrder(w)
  <2>1. CASE Leave(w) /\ NoFault
    BY <1>0, <1>1, <2>1, TypeLeave DEF NoFault, BudgetOK
  <2>2. CASE GiveUp(w)
    BY <1>0, <1>1, <2>2, GiveUpType
  <2>3. CASE ~Leave(w)
    <3>0. it[w] \in Intents /\ seen[w] \in Answers
      BY DEF WorkersOK
    <3>1. PICK o \in Orders :
            /\ seen' = [seen EXCEPT ![w] = [order |-> o, state |-> state[o], filled |-> filled[o]]]
            /\ todo' = [todo EXCEPT ![w] = Recorded(it[w])]
            /\ Goto(w, "trades") /\ NoFault
            /\ UNCHANGED <<it, then>>
      BY <1>3, <2>3 DEF FetchOrder, GiveUp
    <3>2. [order |-> o, state |-> state[o], filled |-> filled[o]] \in Answers
      BY DEF Answers, Remote, VenueOK
    <3>3. Recorded(it[w]) \in SUBSET FillIds
      BY <3>0, RecordedType
    <3>4. WorkersOK' /\ Others(w) /\ pc'[w] = "trades" /\ seen'[w].order \in Orders
      BY <3>1, <3>2, <3>3 DEF Goto, WorkersOK, Labels, Others
    <3>5. LocalInv'
      BY <1>0, <3>4, LocalKeeps DEF Following
    <3> QED
      BY <1>1, <3>1, <3>4, <3>5 DEF NoFault, BudgetOK
  <2> QED
    BY <1>3, <2>1, <2>2, <2>3 DEF FetchOrder
<1>4. CASE Close(w) /\ GiveUp(w)
  BY <1>0, <1>1, <1>4, GiveUpType
<1>6. CASE Close(w) /\ ~GiveUp(w)
  <2>1. /\ WorkersOK' /\ Others(w) /\ pc'[w] \in {"synth", "retry"}
        /\ then'[w] \in {"idle", "settle"} /\ (pc'[w] = "synth" => then'[w] = "settle")
        /\ seen'[w] = seen[w]
    BY <1>6 DEF Close, Goto, WorkersOK, Labels, Others
  <2>2. seen[w].order \in Orders
    BY <1>6 DEF Close, LocalInv, Following
  <2>3. LocalInv'
    BY <1>0, <2>1, <2>2, LocalKeeps
  <2> QED
    BY <1>1, <1>6, <2>3, <2>1, <2>2 DEF Close, NoFault, BudgetOK
<1>5. CASE Settle(w)
  <2>1. WorkersOK' /\ LocalInv'
    <3>1. CASE Leave(w)
      BY <1>0, <3>1, TypeLeave
    <3>2. CASE Stay(w, "finish")
      BY <1>0, <1>5, <3>2, StayKeeps DEF Labels, Settle, Following
    <3> QED
      BY <1>5, <3>1, <3>2 DEF Settle
  <2> QED
    BY <1>1, <1>5, <2>1 DEF Settle, BudgetOK
<1> QED
  BY <1>2, <1>3, <1>4, <1>5, <1>6

(* The delivery of the fills to the sink. *)
LEMMA TypeDeliver ==
  ASSUME TypeInv, NEW w \in Workers, RetryCanonicalFills(w) \/ CompleteReconcileFill(w)
  PROVE  TypeInv'
<1> USE DEF TypeInv
<1>0. UNCHANGED <<status, reason, row, rid, fills, venue, lost>>
  BY DEF RetryCanonicalFills, CompleteReconcileFill
<1>1. ASSUME FillsOK', WorkersOK', LocalInv', BudgetOK'
      PROVE  TypeInv'
  BY <1>0, <1>1 DEF StoreOK, VenueOK
<1>2. it[w] \in Intents
  BY DEF WorkersOK
<1>3. Undone(it[w]) \subseteq FillIds /\ Undone(it[w]) \subseteq {r[1] : r \in fills}
  BY <1>2, RecordedType DEF Undone
<1>4. CASE RetryCanonicalFills(w)
  <2>1. CASE Undone(it[w]) = {}
    <3>1. /\ IF then[w] = "idle" THEN Leave(w) ELSE Stay(w, then[w])
          /\ UNCHANGED <<booked, done, budget>>
      BY <1>4, <2>1 DEF RetryCanonicalFills, NoFault
    <3>2. CASE Leave(w)
      BY <1>0, <1>1, <3>1, <3>2, TypeLeave DEF FillsOK, BudgetOK
    <3>3. CASE Stay(w, then[w])
      <4>1. pc[w] = "retry" /\ then[w] \in {"idle", "fetch", "settle"}
        BY <1>4 DEF RetryCanonicalFills, LocalInv
      <4>2. then[w] \in Labels \ {"mark", "complete", "retry", "synth", "add"}
        BY <4>1 DEF Labels
      <4>3. Following(w)' => Following(w)
        BY <3>3, <4>1, <4>2, StayType DEF Following
      <4> QED
        BY <1>0, <1>1, <3>1, <3>3, <4>2, <4>3, StayKeeps DEF FillsOK, BudgetOK
    <3> QED
      BY <3>1, <3>2, <3>3
  <2>2. CASE Undone(it[w]) # {}
    <3>1. PICK f \in Undone(it[w]) :
            \/ /\ booked' = booked \cup {f}
               /\ todo' = [todo EXCEPT ![w] = {f}]
               /\ Goto(w, "complete") /\ NoFault
               /\ UNCHANGED <<it, seen, then>>
            \/ GiveUp(w) /\ booked' \in {booked, booked \cup {f}}
      BY <1>4, <2>2 DEF RetryCanonicalFills
    <3>2. UNCHANGED done /\ booked \subseteq booked'
      BY <1>4, <3>1 DEF RetryCanonicalFills
    <3>3. FillsOK'
      BY <1>0, <1>3, <3>1, <3>2 DEF FillsOK
    <3>4. CASE GiveUp(w)
      <4>1. WorkersOK' /\ pc'[w] = "idle" /\ Others(w)
        BY <3>4, LeaveType, LeaveAlone DEF GiveUp
      <4>2. LocalInv'
        BY <3>2, <4>1, LocalKeeps DEF Following
      <4>3. BudgetOK'
        BY <3>4, FaultType DEF GiveUp
      <4> QED
        BY <1>1, <3>3, <4>1, <4>2, <4>3
    <3>5. CASE ~GiveUp(w)
      <4>1. {f} \in SUBSET FillIds
        BY <1>3
      <4>0. then[w] \in {"idle", "fetch", "settle"} /\ (then[w] # "fetch" => seen[w].order \in Orders)
        BY <1>4 DEF RetryCanonicalFills, LocalInv, Following
      <4>2. /\ WorkersOK' /\ Others(w) /\ pc'[w] = "complete" /\ todo'[w] \subseteq booked'
            /\ then'[w] = then[w] /\ seen'[w] = seen[w]
        BY <3>1, <3>5, <4>1 DEF Goto, WorkersOK, Labels, Others
      <4>3. LocalInv'
        BY <3>2, <4>0, <4>2, LocalKeeps DEF Following
      <4> QED
        BY <1>1, <3>1, <3>3, <3>5, <4>2, <4>3 DEF NoFault, BudgetOK
    <3> QED
      BY <3>4, <3>5
  <2> QED
    BY <2>1, <2>2
<1>5. CASE CompleteReconcileFill(w)
  <2>0. UNCHANGED booked
    BY <1>5 DEF CompleteReconcileFill
  <2>1. CASE GiveUp(w) /\ UNCHANGED done
    BY <1>0, <1>1, <2>0, <2>1, GiveUpType DEF FillsOK
  <2>2. CASE /\ done' = done \cup todo[w]
             /\ todo' = [todo EXCEPT ![w] = {}]
             /\ Goto(w, "retry") /\ NoFault
             /\ UNCHANGED <<it, seen, then>>
    <3>1. todo[w] \subseteq booked
      BY <1>5 DEF CompleteReconcileFill, LocalInv
    <3>2. FillsOK'
      BY <1>0, <2>0, <2>2, <3>1 DEF FillsOK
    <3>3. WorkersOK' /\ Others(w) /\ pc'[w] = "retry" /\ then'[w] = then[w] /\ seen'[w] = seen[w]
      BY <2>2 DEF Goto, WorkersOK, Labels, Others
    <3>4. then[w] \in {"idle", "fetch", "settle"} /\ (then[w] # "fetch" => seen[w].order \in Orders)
      BY <1>5 DEF CompleteReconcileFill, LocalInv, Following
    <3>5. LocalInv'
      BY <2>0, <3>3, <3>4, LocalKeeps DEF Following
    <3> QED
      BY <1>1, <2>2, <3>2, <3>3, <3>5 DEF NoFault, BudgetOK
  <2> QED
    BY <1>5, <2>1, <2>2 DEF CompleteReconcileFill
<1> QED
  BY <1>4, <1>5

(* The steps of reconcile_live that record what it found. *)
LEMMA TypeRecord ==
  ASSUME TypeInv, NEW w \in Workers,
         FetchTrades(w) \/ AddTrade(w) \/ AddSynthetic(w) \/ Finish(w) \/ MarkTerminal(w)
  PROVE  TypeInv'
<1> USE DEF TypeInv
<1>0. UNCHANGED <<rid, done, booked, venue, lost>>
  BY DEF FetchTrades, AddTrade, AddSynthetic, Finish, MarkTerminal
<1>1. it[w] \in Intents /\ seen[w] \in Answers
  BY DEF WorkersOK
<1>2. seen[w].order \in Orders
  BY DEF LocalInv, Following, FetchTrades, AddTrade, AddSynthetic, Finish, MarkTerminal
<1>3. ASSUME StoreOK', FillsOK', WorkersOK', LocalInv', BudgetOK'
      PROVE  TypeInv'
  BY <1>0, <1>3 DEF VenueOK
<1>4. budget' = budget \/ Fault
  BY DEF FetchTrades, AddTrade, AddSynthetic, Finish, MarkTerminal, NoFault, GiveUp
<1>5. BudgetOK'
  BY <1>4, FaultType DEF BudgetOK
<1>6. CASE FetchTrades(w)
  <2>1. StoreOK'
    <3>1. seen[w].order \in Remote
      BY <1>1 DEF Answers
    <3>2. /\ status' \in [Intents -> Terminal \cup {"pending", "submitted", "partially_filled"}]
          /\ reason' \in [Intents -> Remote]
      <4>1. CASE UNCHANGED <<status, reason>>
        BY <4>1 DEF StoreOK
      <4>2. CASE SetStatus(it[w], "partially_filled", seen[w].order)
        BY <1>1, <3>1, <4>2, SetStatusType
      <4> QED
        BY <1>6, <4>1, <4>2 DEF FetchTrades
    <3> QED
      BY <1>0, <1>6, <3>2 DEF FetchTrades, StoreOK
  <2>2. \A f \in Listed(it[w]) : f \in FillIds /\ IntentOf(f) = it[w] /\ f[2] \in Units
    <3>1. \A f \in listed : f \in FillIds /\ f[2] \in 1 .. filled[f[1]] /\ filled[f[1]] \in 0 .. Size
      BY DEF VenueOK, FillIds
    <3> QED
      BY <3>1, ExecutorAssumption DEF Listed, Units
  <2>3. /\ Others(w) /\ pc'[w] = "add" /\ it'[w] = it[w] /\ seen'[w] = seen[w]
        /\ todo'[w] \subseteq Listed(it[w])
    BY <1>6 DEF FetchTrades, Goto, WorkersOK, Others
  <2>4. WorkersOK'
    <3>1. todo' \in [Workers -> SUBSET FillIds]
      BY <1>6, <2>2 DEF FetchTrades, WorkersOK
    <3> QED
      BY <1>6, <3>1 DEF FetchTrades, Goto, WorkersOK, Labels
  <2>5. LocalInv'
    BY <1>0, <1>2, <2>2, <2>3, LocalKeeps
  <2> QED
    BY <1>0, <1>3, <1>5, <1>6, <2>1, <2>4, <2>5 DEF FetchTrades, FillsOK
<1>7. CASE AddTrade(w)
  <2>0. UNCHANGED <<status, reason, row>>
    BY <1>7 DEF AddTrade
  <2>1. CASE Stay(w, "close") /\ UNCHANGED fills
    <3>1. WorkersOK' /\ LocalInv'
      BY <1>0, <1>7, <2>1, StayKeeps DEF AddTrade, Labels, Following
    <3> QED
      BY <1>0, <1>3, <1>5, <2>0, <2>1, <3>1 DEF StoreOK, FillsOK
  <2>2. CASE Leave(w) /\ UNCHANGED fills
    BY <1>0, <1>3, <1>5, <2>0, <2>2, TypeLeave DEF StoreOK, FillsOK
  <2>3. ASSUME NEW f \in todo[w], fills' = fills \cup {<<f, f[2]>>},
               todo' = [todo EXCEPT ![w] = @ \ {f}], UNCHANGED <<pc, it, seen, then>>
        PROVE  TypeInv'
    <3>1. f \in FillIds /\ f[2] \in Units
      BY <1>7 DEF AddTrade, LocalInv, WorkersOK
    <3>2. FillsOK'
      <4>1. fills' \subseteq FillIds \X Units
        BY <2>3, <3>1 DEF FillsOK
      <4>2. IsFiniteSet(fills')
        BY <2>3, FS_AddElement DEF FillsOK
      <4> QED
        BY <1>0, <2>3, <4>1, <4>2 DEF FillsOK
    <3>3. WorkersOK'
      BY <2>3 DEF WorkersOK
    <3>4. LocalInv'
      BY <1>0, <2>3 DEF LocalInv, WorkersOK, Following
    <3> QED
      BY <1>0, <1>3, <1>5, <2>0, <3>2, <3>3, <3>4 DEF StoreOK
  <2> QED
    BY <1>7, <2>1, <2>2, <2>3 DEF AddTrade, GiveUp
<1>8. CASE AddSynthetic(w)
  <2>0. UNCHANGED <<status, reason, row>>
    BY <1>8 DEF AddSynthetic
  <2>1. CASE Leave(w) /\ UNCHANGED fills
    BY <1>0, <1>3, <1>5, <2>0, <2>1, TypeLeave DEF StoreOK, FillsOK
  <2>2. CASE ~(Leave(w) /\ UNCHANGED fills)
    <3> DEFINE f == <<seen[w].order, 0>>
               q == seen[w].filled
    <3>1. fills' = fills \cup {<<f, u>> : u \in 1 .. q} /\ Stay(w, "retry")
      BY <1>8, <2>2 DEF AddSynthetic, GiveUp
    <3>2. q \in 0 .. Size
      BY <1>1 DEF Answers
    <3>3. f \in FillIds
      BY <1>2, ExecutorAssumption DEF FillIds
    <3>4. IsFiniteSet({<<f, u>> : u \in 1 .. q})
      <4>1. IsFiniteSet(1 .. q)
        BY <3>2, ExecutorAssumption, FS_Interval
      <4> HIDE DEF f, q
      <4>2. [u \in 1 .. q |-> <<f, u>>] \in Surjection(1 .. q, {<<f, u>> : u \in 1 .. q})
        BY DEF Surjection
      <4> QED
        BY <4>1, <4>2, FS_Surjection
    <3>5. fills' \subseteq FillIds \X Units
      BY <3>1, <3>2, <3>3, ExecutorAssumption DEF FillsOK, Units
    <3>6. IsFiniteSet(fills')
      BY <3>1, <3>4, FS_Union DEF FillsOK
    <3>7. FillsOK'
      BY <1>0, <3>1, <3>5, <3>6 DEF FillsOK
    <3>8. WorkersOK' /\ LocalInv'
      BY <1>0, <1>8, <3>1, StayKeeps DEF AddSynthetic, Labels, Following, LocalInv
    <3> QED
      BY <1>0, <1>3, <1>5, <2>0, <3>7, <3>8 DEF StoreOK
  <2> QED
    BY <2>1, <2>2
<1>9. CASE Finish(w)
  <2>0. UNCHANGED <<row, fills>>
    BY <1>9 DEF Finish
  <2>1. CASE GiveUp(w) /\ UNCHANGED <<status, reason>>
    BY <1>0, <1>3, <1>5, <2>0, <2>1, TypeLeave DEF GiveUp, StoreOK, FillsOK
  <2>2. CASE /\ SetStatus(it[w], IF seen[w].state = "closed" THEN "filled" ELSE "canceled", seen[w].order)
             /\ Stay(w, "terminal")
    <3>1. seen[w].order \in Remote
      BY <1>1 DEF Answers
    <3>2. /\ status' \in [Intents -> Terminal \cup {"pending", "submitted", "partially_filled"}]
          /\ reason' \in [Intents -> Remote]
      BY <1>1, <2>2, <3>1, SetStatusType DEF Terminal
    <3>3. WorkersOK' /\ LocalInv'
      BY <1>0, <1>9, <2>2, StayKeeps DEF Finish, Labels, Following
    <3> QED
      BY <1>0, <1>3, <1>5, <2>0, <3>2, <3>3 DEF StoreOK, FillsOK
  <2> QED
    BY <1>9, <2>1, <2>2 DEF Finish
<1>10. CASE MarkTerminal(w)
  <2>1. row' \in [Intents -> {"absent", "created", "submitted", "unknown", "error", "terminal"}]
    BY <1>1, <1>10 DEF MarkTerminal, StoreOK
  <2>2. UNCHANGED <<status, reason, fills>> /\ Leave(w)
    BY <1>10 DEF MarkTerminal
  <2> QED
    BY <1>0, <1>3, <1>5, <2>1, <2>2, TypeLeave DEF StoreOK, FillsOK
<1> QED
  BY <1>6, <1>7, <1>8, <1>9, <1>10

(* A process that ends, and the venue. *)
LEMMA TypeOther ==
  ASSUME TypeInv,
         (\E w \in Workers : Crash(w))
           \/ \E o \in Orders : TradeUnit(o) \/ EndOrder(o) \/ ListTrades(o) \/ AgeTrades(o)
  PROVE  TypeInv'
<1> USE DEF TypeInv
<1>1. ASSUME NEW w \in Workers, Crash(w)
      PROVE  TypeInv'
  <2>1. UNCHANGED <<store, booked, venue>> /\ Leave(w) /\ Fault
    BY <1>1 DEF Crash
  <2>2. lost' \subseteq Intents
    <3>1. it[w] \in Intents
      BY DEF WorkersOK
    <3> QED
      BY <1>1, <3>1, LoseType DEF Crash
  <2> QED
    BY <2>1, <2>2, TypeLeave, FaultType DEF StoreOK, FillsOK, VenueOK
<1>2. ASSUME NEW o \in Orders, TradeUnit(o) \/ EndOrder(o) \/ ListTrades(o) \/ AgeTrades(o)
      PROVE  TypeInv'
  <2>1. VenueOK'
    <3>1. CASE TradeUnit(o)
      <4>1. filled' \in [Orders -> 0 .. Size] /\ \A p \in Orders : filled[p] <= filled'[p]
        BY <3>1, ExecutorAssumption DEF TradeUnit, VenueOK
      <4>2. \A f \in listed : f[1] \in Orders
        BY DEF VenueOK, FillIds
      <4>3. \A f \in listed : f[2] \in 1 .. filled'[f[1]]
        BY <4>1, <4>2, ExecutorAssumption DEF VenueOK
      <4> QED
        BY <3>1, <4>1, <4>3 DEF TradeUnit, VenueOK
    <3>2. CASE EndOrder(o)
      BY <3>2 DEF EndOrder, VenueOK
    <3>3. CASE ListTrades(o)
      BY <3>3 DEF ListTrades, VenueOK, Unlisted
    <3>4. CASE AgeTrades(o)
      BY <3>4 DEF AgeTrades, VenueOK
    <3> QED
      BY <1>2, <3>1, <3>2, <3>3, <3>4
  <2>2. UNCHANGED <<store, booked, pc, locals, lost, budget>>
    BY <1>2 DEF TradeUnit, EndOrder, ListTrades, AgeTrades
  <2> QED
    BY <2>1, <2>2 DEF StoreOK, FillsOK, WorkersOK, LocalInv, BudgetOK, Following
<1> QED
  BY <1>1, <1>2

(* Every type, in every behaviour. *)
LEMMA TypeAlways == Spec => []TypeInv
<1>1. Init => TypeInv
  <2> SUFFICES ASSUME Init PROVE TypeInv
    OBVIOUS
  <2>1. (CHOOSE i \in Intents : TRUE) \in Intents
    BY ExecutorAssumption
  <2>2. WorkersOK /\ LocalInv
    BY <2>1, NoAnswerType DEF Init, WorkersOK, LocalInv, Labels, Following
  <2>3. StoreOK /\ VenueOK /\ BudgetOK
    BY ExecutorAssumption DEF Init, StoreOK, VenueOK, BudgetOK, Remote
  <2>4. FillsOK /\ lost \subseteq Intents
    BY FS_EmptySet DEF Init, FillsOK
  <2> QED
    BY <2>2, <2>3, <2>4 DEF TypeInv
<1>2. TypeInv /\ [Next]_vars => TypeInv'
  <2> SUFFICES ASSUME TypeInv, [Next]_vars PROVE TypeInv'
    OBVIOUS
  <2>1. CASE UNCHANGED vars
    BY <2>1 DEF vars, TypeInv, StoreOK, FillsOK, VenueOK, WorkersOK, LocalInv, BudgetOK, Following
  <2> QED
    BY <2>1, TypeSubmit, TypeLook, TypeDeliver, TypeRecord, TypeOther DEF Next, Reconcile
<1> QED
  BY <1>1, <1>2, PTL DEF Spec

(* Every column and local keeps its type; a delivery is marked completed   *)
(* only for a recorded fill, and the sink gets no other fill: for any      *)
(* intents, workers, submitters among them, sizes and failures.            *)
THEOREM TypeCorrect == Spec => []TypeOK
<1>1. TypeInv => TypeOK
  BY DEF TypeInv, TypeOK, StoreOK, FillsOK, VenueOK, WorkersOK, BudgetOK
<1> QED
  BY <1>1, TypeAlways, PTL

-----------------------------------------------------------------------------
(* The dedupe row and the ids.                                             *)

(* The service takes a lock, so that one process submits. *)
OneSubmitter == \A v, w \in Submitters : v = w

Sent == {"submitted", "terminal"}

(* An id is in the row only once the row says so, and then for good; the   *)
(* reason has nothing but the row's id, or that there was none.            *)
RowInv ==
  \A i \in Intents :
    /\ rid[i] # NoOrder => row[i] \in Sent /\ rid[i][1] = i
    /\ row[i] = "terminal" => rid[i] # NoOrder
    /\ reason[i] # NoOrder => reason[i] = AsText(rid[i]) /\ row[i] \in Sent

(* Between the claim and the mark the row says that nothing was sent. *)
SubmitAt(w) ==
  /\ pc[w] \in {"claim", "place", "unsure", "mark", "status"} => w \in Submitters
  /\ pc[w] \in {"place", "unsure", "mark"} => row[it[w]] \in {"created", "error"}
  /\ pc[w] = "mark" /\ seen[w].order # NoOrder => seen[w].order[1] = it[w]
  /\ pc[w] = "status" => row[it[w]] \in Sent

(* A reconciler that has not asked the venue yet. *)
Asking(w) == pc[w] = "fetch" \/ (pc[w] \in {"retry", "complete"} /\ then[w] = "fetch")

(* The order a reconciler asks for and follows is the row's. *)
AskAt(w) ==
  /\ Asking(w) /\ seen[w].order # NoOrder => seen[w].order = AsText(rid[it[w]]) /\ row[it[w]] \in Sent
  /\ Following(w) => seen[w].order = rid[it[w]]

IdInv == RowInv /\ \A w \in Workers : SubmitAt(w) /\ AskAt(w)

(* A row that says sent keeps saying so, and its id; no other row changes  *)
(* but by the submitter.                                                   *)
RowMove(w) ==
  \A i \in Intents :
    /\ row[i] \in Sent => row'[i] \in Sent /\ rid'[i] = rid[i]
    /\ row'[i] # row[i] => w \in Submitters \/ row[i] \in Sent

(* What a worker does to the others' part of the invariant. *)
LEMMA IdOthers ==
  ASSUME OneSubmitter, TypeInv, IdInv, NEW w \in Workers, Others(w), RowMove(w),
         RowInv', SubmitAt(w)', AskAt(w)'
  PROVE  IdInv'
<1>1. ASSUME NEW v \in Workers, v # w
      PROVE  SubmitAt(v)' /\ AskAt(v)'
  <2>1. /\ pc'[v] = pc[v] /\ it'[v] = it[v] /\ seen'[v] = seen[v]
        /\ todo'[v] = todo[v] /\ then'[v] = then[v]
    BY <1>1 DEF Others
  <2>2. it[v] \in Intents
    BY DEF TypeInv, WorkersOK
  <2>3. SubmitAt(v) /\ AskAt(v)
    BY DEF IdInv
  <2>4. SubmitAt(v)'
    <3>1. ASSUME pc[v] \in {"place", "unsure", "mark"}
          PROVE  row'[it[v]] = row[it[v]]
      <4>1. w \notin Submitters
        BY <1>1, <2>3, <3>1 DEF SubmitAt, OneSubmitter
      <4>2. row[it[v]] \notin Sent
        BY <2>3, <3>1 DEF SubmitAt, Sent
      <4> QED
        BY <2>2, <4>1, <4>2 DEF RowMove
    <3> QED
      BY <2>1, <2>2, <2>3, <3>1 DEF SubmitAt, RowMove
  <2>5. AskAt(v)'
    <3>1. (Asking(v)' <=> Asking(v)) /\ (Following(v)' <=> Following(v))
      BY <2>1 DEF Asking, Following
    <3>2. ASSUME Following(v)
          PROVE  rid'[it[v]] = rid[it[v]]
      <4>1. rid[it[v]] \in Orders
        BY <2>3, <3>2 DEF TypeInv, LocalInv, AskAt
      <4>2. row[it[v]] \in Sent
        BY <2>2, <4>1, OrderFacts DEF IdInv, RowInv
      <4> QED
        BY <2>2, <4>2 DEF RowMove
    <3> QED
      BY <2>1, <2>2, <2>3, <3>1, <3>2 DEF AskAt, RowMove, AsText
  <2> QED
    BY <2>4, <2>5
<1> QED
  BY <1>1 DEF IdInv

(* A worker that leaves an intent with the rows as they are. *)
LEMMA IdStill ==
  ASSUME OneSubmitter, TypeInv, IdInv, NEW w \in Workers, Others(w), UNCHANGED <<row, rid, reason>>,
         SubmitAt(w)', AskAt(w)'
  PROVE  IdInv'
<1>1. RowMove(w)
  BY DEF RowMove
<1>2. RowInv'
  BY DEF IdInv, RowInv, AsText
<1> QED
  BY <1>1, <1>2, IdOthers

(* A worker that has left is neither submitting nor asking. *)
LEMMA IdLeft ==
  ASSUME TypeInv, NEW w \in Workers, Leave(w)
  PROVE  Others(w) /\ SubmitAt(w)' /\ AskAt(w)'
<1>1. Others(w) /\ pc'[w] = "idle"
  BY LeaveType, LeaveAlone DEF TypeInv
<1> QED
  BY <1>1 DEF SubmitAt, AskAt, Asking, Following

(* The steps of submit_pending_live. *)
LEMMA IdSubmit ==
  ASSUME OneSubmitter, TypeInv, IdInv, NEW w \in Workers,
         Submit(w) \/ \E i \in Intents : BeginSubmit(w, i)
  PROVE  IdInv'
<1> USE DEF TypeInv
<1>0. it[w] \in Intents /\ SubmitAt(w) /\ AskAt(w) /\ RowInv
  BY DEF WorkersOK, IdInv
<1>1. ASSUME NEW i \in Intents, BeginSubmit(w, i)
      PROVE  IdInv'
  <2>1. Others(w) /\ pc'[w] = "claim" /\ w \in Submitters /\ UNCHANGED <<row, rid, reason>>
    BY <1>1 DEF BeginSubmit, Goto, WorkersOK, Others
  <2>2. SubmitAt(w)' /\ AskAt(w)'
    BY <2>1 DEF SubmitAt, AskAt, Asking, Following
  <2> QED
    BY <2>1, <2>2, IdStill
<1>2. CASE Claim(w)
  <2>1. UNCHANGED <<rid, reason>>
    BY <1>2 DEF Claim
  <2>2. /\ row'[it[w]] = IF row[it[w]] = "absent" THEN "created" ELSE row[it[w]]
        /\ \A i \in Intents \ {it[w]} : row'[i] = row[i]
    BY <1>0, <1>2 DEF Claim, StoreOK
  <2>3. w \in Submitters
    BY <1>0, <1>2 DEF Claim, SubmitAt
  <2>4. RowMove(w)
    BY <1>0, <2>1, <2>2, <2>3 DEF RowMove, Sent
  <2>5. RowInv'
    BY <1>0, <2>1, <2>2 DEF RowInv, Sent, AsText
  <2>6. Others(w) /\ SubmitAt(w)' /\ AskAt(w)'
    <3>1. CASE Leave(w)
      BY <3>1, IdLeft
    <3>2. CASE ~Leave(w)
      <4>1. \/ Stay(w, "status") /\ row[it[w]] \in Sent
            \/ Stay(w, "place") /\ row[it[w]] \in {"absent", "created", "error"}
        <5>1. row[it[w]] \in {"absent", "created", "submitted", "unknown", "error", "terminal"}
          BY <1>0 DEF StoreOK
        <5>2. row[it[w]] = "terminal" => rid[it[w]] # NoOrder
          BY <1>0 DEF RowInv
        <5> QED
          BY <1>2, <3>2, <5>1, <5>2 DEF Claim, Sent
      <4>2. ASSUME NEW l \in {"status", "place"}, Stay(w, l)
            PROVE  pc'[w] = l /\ it'[w] = it[w] /\ Others(w)
        BY <4>2, StayType DEF Labels
      <4> QED
        BY <2>2, <2>3, <4>1, <4>2 DEF SubmitAt, AskAt, Asking, Following, Sent
    <3> QED
      BY <3>1, <3>2
  <2> QED
    BY <2>4, <2>5, <2>6, IdOthers
<1>3. CASE PlaceAccepted(w)
  <2>1. PICK o \in Orders : /\ o[1] = it[w]
                            /\ \E id \in {o, NoOrder} :
                                  seen' = [seen EXCEPT ![w] = [NoAnswer EXCEPT !.order = id]]
    BY <1>3 DEF PlaceAccepted
  <2>2. Others(w) /\ pc'[w] = "mark" /\ it'[w] = it[w] /\ UNCHANGED <<row, rid, reason>>
    BY <1>3, <2>1 DEF PlaceAccepted, Goto, WorkersOK, Others
  <2>3. seen'[w].order \in {o, NoOrder}
    BY <2>1 DEF WorkersOK, NoAnswer
  <2>4. SubmitAt(w)' /\ AskAt(w)'
    BY <1>0, <1>3, <2>1, <2>2, <2>3 DEF PlaceAccepted, SubmitAt, AskAt, Asking, Following
  <2> QED
    BY <2>2, <2>4, IdStill
<1>4. CASE PlaceAmbiguous(w)
  <2>1. UNCHANGED <<row, rid, reason>> /\ Stay(w, "unsure") /\ pc[w] = "place"
    BY <1>4 DEF PlaceAmbiguous
  <2>2. pc'[w] = "unsure" /\ it'[w] = it[w] /\ Others(w)
    BY <2>1, StayType DEF Labels
  <2>3. SubmitAt(w)' /\ AskAt(w)'
    BY <1>0, <2>1, <2>2 DEF SubmitAt, AskAt, Asking, Following
  <2> QED
    BY <2>1, <2>2, <2>3, IdStill
<1>7. CASE MarkUnknown(w) \/ PlaceRefused(w)
  <2>1. UNCHANGED <<rid, reason>> /\ Leave(w) /\ pc[w] \in {"unsure", "place"}
    BY <1>7 DEF MarkUnknown, PlaceRefused
  <2>2. w \in Submitters /\ row[it[w]] \in {"created", "error"}
    BY <1>0, <2>1 DEF SubmitAt
  <2>3. CASE UNCHANGED row
    BY <2>1, <2>3, IdLeft, IdStill
  <2>4. ASSUME NEW s \in {"unknown", "error"}, Mark(it[w], s)
        PROVE  IdInv'
    <3>1. row'[it[w]] = s /\ \A i \in Intents \ {it[w]} : row'[i] = row[i]
      BY <1>0, <2>2, <2>4, MarkType
    <3>2. RowMove(w)
      BY <1>0, <2>1, <2>2, <3>1 DEF RowMove, Sent
    <3>3. RowInv'
      BY <1>0, <2>1, <2>2, <2>4, <3>1 DEF RowInv, Sent, AsText
    <3> QED
      BY <2>1, <3>2, <3>3, IdLeft, IdOthers
  <2> QED
    BY <1>7, <2>3, <2>4 DEF MarkUnknown, PlaceRefused
<1>5. CASE MarkSubmitted(w)
  <2>1. UNCHANGED reason /\ pc[w] = "mark"
    BY <1>5 DEF MarkSubmitted
  <2>2. w \in Submitters /\ row[it[w]] \in {"created", "error"}
    BY <1>0, <2>1 DEF SubmitAt
  <2>3. rid[it[w]] = NoOrder /\ reason[it[w]] = NoOrder
    BY <1>0, <2>2 DEF RowInv, Sent
  <2>4. CASE /\ Mark(it[w], "submitted")
             /\ rid' = [rid EXCEPT ![it[w]] = IF @ = NoOrder THEN seen[w].order ELSE @]
             /\ Stay(w, "status")
    <3>1. row'[it[w]] = "submitted" /\ \A i \in Intents \ {it[w]} : row'[i] = row[i]
      BY <1>0, <2>2, <2>4, MarkType
    <3>2. rid'[it[w]] = seen[w].order /\ \A i \in Intents \ {it[w]} : rid'[i] = rid[i]
      BY <1>0, <2>3, <2>4 DEF StoreOK
    <3>3. RowMove(w)
      BY <1>0, <2>2, <3>1, <3>2 DEF RowMove, Sent
    <3>4. RowInv'
      <4>1. seen[w].order # NoOrder => seen[w].order[1] = it[w]
        BY <1>0, <2>1 DEF SubmitAt
      <4> QED
        BY <1>0, <2>1, <2>3, <3>1, <3>2, <4>1 DEF RowInv, Sent, AsText
    <3>5. pc'[w] = "status" /\ it'[w] = it[w] /\ Others(w)
      BY <2>4, StayType DEF Labels
    <3>6. SubmitAt(w)' /\ AskAt(w)'
      BY <2>2, <3>1, <3>5 DEF SubmitAt, AskAt, Asking, Following, Sent
    <3> QED
      BY <3>3, <3>4, <3>5, <3>6, IdOthers
  <2>5. CASE Mark(it[w], "error") /\ Leave(w) /\ UNCHANGED rid
    <3>1. row'[it[w]] = "error" /\ \A i \in Intents \ {it[w]} : row'[i] = row[i]
      BY <1>0, <2>2, <2>5, MarkType
    <3>2. RowMove(w)
      BY <1>0, <2>2, <2>5, <3>1 DEF RowMove, Sent
    <3>3. RowInv'
      BY <1>0, <2>1, <2>3, <2>5, <3>1 DEF RowInv, Sent, AsText
    <3> QED
      BY <2>5, <3>2, <3>3, IdLeft, IdOthers
  <2>6. CASE UNCHANGED <<row, rid>> /\ Leave(w)
    BY <2>1, <2>6, IdLeft, IdStill
  <2> QED
    BY <1>5, <2>4, <2>5, <2>6 DEF MarkSubmitted
<1>6. CASE SetSubmitted(w)
  <2>1. UNCHANGED <<row, rid>> /\ Leave(w) /\ pc[w] = "status"
    BY <1>6 DEF SetSubmitted
  <2>2. CASE UNCHANGED reason
    BY <2>1, <2>2, IdLeft, IdStill
  <2>3. CASE SetStatus(it[w], "submitted", AsText(rid[it[w]]))
    <3>1. AsText(rid[it[w]]) \in Remote
      BY <1>0 DEF AsText, Remote, StoreOK
    <3>2. /\ \A j \in Intents \ {it[w]} : reason'[j] = reason[j]
          /\ reason'[it[w]] = reason[it[w]] \/ reason'[it[w]] = AsText(rid[it[w]])
      BY <1>0, <2>3, <3>1, SetStatusType
    <3>3. row[it[w]] \in Sent
      BY <1>0, <2>1 DEF SubmitAt
    <3>4. RowInv'
      BY <1>0, <2>1, <3>2, <3>3 DEF RowInv, AsText
    <3>5. RowMove(w)
      BY <2>1 DEF RowMove
    <3> QED
      BY <2>1, <3>4, <3>5, IdLeft, IdOthers
  <2> QED
    BY <1>6, <2>2, <2>3 DEF SetSubmitted
<1> QED
  BY <1>1, <1>2, <1>3, <1>4, <1>5, <1>6, <1>7 DEF Submit

Ended == {"closed", "canceled"}

(* The worker has an order before it that has ended. *)
Ending(w) ==
  \/ pc[w] \in {"synth", "settle", "finish", "terminal"}
  \/ pc[w] \in {"retry", "complete"} /\ then[w] = "settle"

(* Where a step of reconcile_live leads, with the intent and the answer it *)
(* has: away from the intent, or on, asking only what it asked and         *)
(* following only what it followed.                                        *)
GoesOn(w) ==
  /\ Others(w)
  /\ \/ pc'[w] = "idle"
     \/ /\ it'[w] = it[w] /\ seen'[w] = seen[w]
        /\ pc'[w] \notin {"claim", "place", "unsure", "mark", "status"}
        /\ Asking(w)' => Asking(w)
        /\ Following(w)' => Following(w)
        /\ Ending(w)' => Ending(w) \/ seen[w].state \in Ended

(* A worker that leaves carries no answer on. *)
LEMMA GoesOnLeave ==
  ASSUME TypeInv, NEW w \in Workers, Leave(w)
  PROVE  GoesOn(w)
  BY LeaveType, LeaveAlone DEF GoesOn, TypeInv

(* A worker that moves on carries the answer it had. *)
LEMMA GoesOnStay ==
  ASSUME TypeInv, NEW w \in Workers, NEW l \in Labels \ {"claim", "place", "unsure", "mark", "status"}, Stay(w, l),
         l = "fetch" => Asking(w),
         l \in {"trades", "add", "close", "synth", "settle", "finish", "terminal"} => Following(w),
         l \in {"synth", "settle", "finish", "terminal"} => Ending(w),
         l \in {"retry", "complete"} => pc[w] \in {"retry", "complete", "synth"}
  PROVE  GoesOn(w)
<1>1. /\ pc'[w] = l /\ it'[w] = it[w] /\ seen'[w] = seen[w] /\ then'[w] = then[w]
      /\ Others(w)
  BY StayType DEF TypeInv
<1>2. pc[w] = "synth" => then[w] = "settle"
  BY DEF TypeInv, LocalInv
<1> QED
  BY <1>1, <1>2 DEF GoesOn, Asking, Following, Ending

(* All but the step that asks the venue go on so. *)
LEMMA ReconcileGoesOn ==
  ASSUME TypeInv, NEW w \in Workers, Reconcile(w), ~FetchOrder(w)
  PROVE  GoesOn(w)
<1> USE DEF TypeInv
<1>1. CASE RetryCanonicalFills(w)
  <2>0. pc[w] = "retry" /\ then[w] \in {"idle", "fetch", "settle"}
    BY <1>1 DEF RetryCanonicalFills, LocalInv
  <2>1. CASE Leave(w)
    BY <2>1, GoesOnLeave
  <2>2. CASE Stay(w, then[w]) /\ then[w] # "idle"
    BY <2>0, <2>2, GoesOnStay DEF Labels, Asking, Following, Ending
  <2>3. CASE /\ \E f : todo' = [todo EXCEPT ![w] = {f}]
             /\ Goto(w, "complete")
             /\ UNCHANGED <<it, seen, then>>
    BY <2>0, <2>3 DEF Goto, WorkersOK, GoesOn, Others, Asking, Following, Ending
  <2> QED
    BY <1>1, <2>1, <2>2, <2>3 DEF RetryCanonicalFills, GiveUp
<1>2. CASE CompleteReconcileFill(w)
  <2>1. CASE Leave(w)
    BY <2>1, GoesOnLeave
  <2>2. CASE ~Leave(w)
    BY <1>2, <2>2 DEF CompleteReconcileFill, GiveUp, Goto, WorkersOK, GoesOn, Others, Asking, Following, Ending
  <2> QED
    BY <2>1, <2>2
<1>3. CASE FetchTrades(w)
  BY <1>3 DEF FetchTrades, Goto, WorkersOK, GoesOn, Others, Asking, Following, Ending
<1>4. CASE AddTrade(w)
  <2>1. CASE Leave(w)
    BY <2>1, GoesOnLeave
  <2>2. CASE Stay(w, "close")
    BY <1>4, <2>2, GoesOnStay DEF AddTrade, Labels, Following
  <2>3. CASE ~Leave(w) /\ ~Stay(w, "close")
    <3>1. (\E f : todo' = [todo EXCEPT ![w] = @ \ {f}]) /\ UNCHANGED <<pc, it, seen, then>>
      BY <1>4, <2>3 DEF AddTrade, GiveUp
    <3> QED
      BY <1>4, <3>1 DEF AddTrade, WorkersOK, GoesOn, Others, Asking, Following, Ending
  <2> QED
    BY <2>1, <2>2, <2>3
<1>5. CASE Close(w)
  <2>1. CASE Leave(w)
    BY <2>1, GoesOnLeave
  <2>2. CASE ~Leave(w)
    BY <1>5, <2>2 DEF Close, GiveUp, Goto, WorkersOK, GoesOn, Others, Asking, Following, Ending, Ended
  <2> QED
    BY <2>1, <2>2
<1>6. CASE AddSynthetic(w)
  <2>1. CASE Leave(w)
    BY <2>1, GoesOnLeave
  <2>2. CASE Stay(w, "retry")
    BY <1>6, <2>2, GoesOnStay DEF AddSynthetic, Labels
  <2> QED
    BY <1>6, <2>1, <2>2 DEF AddSynthetic, GiveUp
<1>7. CASE Settle(w)
  <2>1. CASE Leave(w)
    BY <2>1, GoesOnLeave
  <2>2. CASE Stay(w, "finish")
    BY <1>7, <2>2, GoesOnStay DEF Settle, Labels, Following, Ending
  <2> QED
    BY <1>7, <2>1, <2>2 DEF Settle
<1>8. CASE Finish(w)
  <2>1. CASE Leave(w)
    BY <2>1, GoesOnLeave
  <2>2. CASE Stay(w, "terminal")
    BY <1>8, <2>2, GoesOnStay DEF Finish, Labels, Following, Ending
  <2> QED
    BY <1>8, <2>1, <2>2 DEF Finish, GiveUp
<1>9. CASE MarkTerminal(w)
  BY <1>9, GoesOnLeave DEF MarkTerminal
<1> QED
  BY <1>1, <1>2, <1>3, <1>4, <1>5, <1>6, <1>7, <1>8, <1>9 DEF Reconcile

(* What the venue is asked for is the row's order. *)
LEMMA Fetched ==
  ASSUME TypeInv, NEW w \in Workers, AskAt(w), FetchOrder(w)
  PROVE  /\ UNCHANGED <<store, booked, venue, lost>>
         /\ \/ Leave(w)
            \/ /\ rid[it[w]] \in Orders
               /\ seen'[w] = [order |-> rid[it[w]], state |-> state[rid[it[w]]], filled |-> filled[rid[it[w]]]]
               /\ pc'[w] = "trades" /\ it'[w] = it[w] /\ Others(w)
<1>0. it[w] \in Intents /\ rid[it[w]] \in Orders \cup {NoOrder}
  BY DEF TypeInv, WorkersOK, StoreOK
<1> DEFINE o == IF seen[w].order = NoOrder THEN rid[it[w]] ELSE seen[w].order
<1>1. o \in Orders => o = rid[it[w]]
  <2>1. seen[w].order # NoOrder => seen[w].order = AsText(rid[it[w]])
    BY DEF AskAt, Asking, FetchOrder
  <2> QED
    BY <1>0, <2>1, OrderFacts DEF AsText
<1>2. UNCHANGED <<store, booked, venue, lost>>
  BY DEF FetchOrder
<1>3. CASE ~Leave(w)
  <2>1. /\ o \in Orders
        /\ seen' = [seen EXCEPT ![w] = [order |-> o, state |-> state[o], filled |-> filled[o]]]
        /\ todo' = [todo EXCEPT ![w] = Recorded(it[w])]
        /\ Goto(w, "trades")
        /\ UNCHANGED <<it, then>>
    BY <1>3 DEF FetchOrder, GiveUp
  <2> QED
    BY <1>1, <1>2, <2>1 DEF Goto, TypeInv, WorkersOK, Others
<1> QED
  BY <1>2, <1>3

(* The steps of reconcile_live. *)
LEMMA IdReconcile ==
  ASSUME OneSubmitter, TypeInv, IdInv, NEW w \in Workers,
         Reconcile(w) \/ \E i \in Intents : BeginReconcile(w, i)
  PROVE  IdInv'
<1> USE DEF TypeInv
<1>0. it[w] \in Intents /\ SubmitAt(w) /\ AskAt(w) /\ RowInv
  BY DEF WorkersOK, IdInv
<1>1. ASSUME NEW i \in Intents, BeginReconcile(w, i)
      PROVE  IdInv'
  <2>1. /\ Others(w) /\ pc'[w] = "retry" /\ then'[w] = "fetch" /\ it'[w] = i
        /\ seen'[w].order = reason[i] /\ UNCHANGED <<row, rid, reason>>
    BY <1>1 DEF BeginReconcile, Goto, WorkersOK, Others, NoAnswer
  <2>2. SubmitAt(w)' /\ AskAt(w)'
    BY <1>0, <2>1 DEF SubmitAt, AskAt, Asking, Following, RowInv, AsText
  <2> QED
    BY <2>1, <2>2, IdStill
<1>2. CASE FetchOrder(w)
  <2>1. UNCHANGED <<row, rid, reason>>
    BY <1>2 DEF FetchOrder
  <2>2. CASE Leave(w)
    BY <2>1, <2>2, IdLeft, IdStill
  <2>3. CASE ~Leave(w)
    <3>0. /\ seen'[w] = [order |-> rid[it[w]], state |-> state[rid[it[w]]], filled |-> filled[rid[it[w]]]]
          /\ pc'[w] = "trades" /\ it'[w] = it[w] /\ Others(w)
      <4> HIDE DEF TypeInv
      <4> QED
        BY <1>0, <1>2, <2>3, Fetched, Zenon
    <3>1. pc'[w] = "trades" /\ it'[w] = it[w] /\ Others(w) /\ seen'[w].order = rid[it[w]]
      BY <3>0
    <3>2. SubmitAt(w)' /\ AskAt(w)'
      BY <2>1, <3>1 DEF SubmitAt, AskAt, Asking, Following
    <3> QED
      BY <2>1, <3>1, <3>2, IdStill
  <2> QED
    BY <2>2, <2>3
<1>3. CASE Reconcile(w) /\ ~FetchOrder(w)
  <2>1. GoesOn(w) /\ Others(w)
    BY <1>3, ReconcileGoesOn DEF GoesOn
  <2>2. UNCHANGED rid
    BY <1>3 DEF Reconcile, RetryCanonicalFills, CompleteReconcileFill, FetchTrades, AddTrade, Close,
       AddSynthetic, Settle, Finish, MarkTerminal
  <2>3. Following(w) => rid[it[w]] \in Orders /\ row[it[w]] \in Sent
    BY <1>0, OrderFacts DEF LocalInv, AskAt, RowInv
  <2>4. RowMove(w) /\ (row[it[w]] \in Sent => row'[it[w]] \in Sent)
    <3>1. CASE MarkTerminal(w)
      <4>1. row[it[w]] \in Sent
        BY <2>3, <3>1 DEF MarkTerminal, Following
      <4> QED
        BY <1>0, <2>2, <3>1, <4>1 DEF MarkTerminal, RowMove, StoreOK, Sent
    <3>2. CASE ~MarkTerminal(w)
      <4>1. UNCHANGED row
        BY <1>3, <3>2 DEF Reconcile, RetryCanonicalFills, CompleteReconcileFill, FetchTrades, AddTrade, Close,
           AddSynthetic, Settle, Finish
      <4> QED
        BY <2>2, <4>1 DEF RowMove
    <3> QED
      BY <3>1, <3>2
  <2>5. RowInv'
    <3>1. CASE MarkTerminal(w)
      <4>1. row[it[w]] \in Sent /\ rid[it[w]] # NoOrder
        BY <2>3, <3>1, OrderFacts DEF MarkTerminal, Following
      <4> QED
        BY <1>0, <2>2, <3>1, <4>1 DEF MarkTerminal, RowInv, StoreOK, Sent, AsText
    <3>2. CASE FetchTrades(w) \/ Finish(w)
      <4>1. UNCHANGED row /\ Following(w) /\ seen[w].order = rid[it[w]]
        BY <1>0, <3>2 DEF FetchTrades, Finish, Following, AskAt
      <4>2. /\ \A j \in Intents \ {it[w]} : reason'[j] = reason[j]
            /\ reason'[it[w]] \in {reason[it[w]], seen[w].order}
        <5>1. CASE UNCHANGED <<status, reason>>
          BY <5>1
        <5>2. ASSUME NEW t \in Terminal \cup {"partially_filled"}, SetStatus(it[w], t, seen[w].order)
              PROVE  /\ \A j \in Intents \ {it[w]} : reason'[j] = reason[j]
                     /\ reason'[it[w]] \in {reason[it[w]], seen[w].order}
          <6>1. seen[w].order \in Remote
            BY <2>3, <4>1 DEF Remote
          <6> QED
            BY <1>0, <5>2, <6>1, SetStatusType
        <5> QED
          BY <3>2, <5>1, <5>2 DEF FetchTrades, Finish, GiveUp, Terminal
      <4>3. AsText(rid[it[w]]) = rid[it[w]]
        BY <2>3, <4>1, OrderFacts DEF AsText
      <4> QED
        BY <1>0, <2>2, <2>3, <4>1, <4>2, <4>3 DEF RowInv, AsText
    <3>3. CASE UNCHANGED <<row, reason>>
      BY <1>0, <2>2, <3>3 DEF RowInv, AsText
    <3> QED
      BY <1>3, <3>1, <3>2, <3>3 DEF Reconcile, RetryCanonicalFills, CompleteReconcileFill, AddTrade, Close,
         AddSynthetic, Settle
  <2>6. SubmitAt(w)' /\ AskAt(w)'
    <3>1. CASE pc'[w] = "idle"
      BY <3>1 DEF SubmitAt, AskAt, Asking, Following
    <3>2. CASE pc'[w] # "idle"
      BY <1>0, <2>1, <2>2, <2>4, <3>2 DEF GoesOn, SubmitAt, AskAt, AsText
    <3> QED
      BY <3>1, <3>2
  <2> QED
    BY <2>1, <2>4, <2>5, <2>6, IdOthers
<1> QED
  BY <1>1, <1>2, <1>3

(* Under the service's lock, what a worker knows of its id always holds. *)
LEMMA IdAlways ==
  ASSUME OneSubmitter
  PROVE  Spec => []IdInv
<1>1. Init => IdInv
  BY NoAnswerType DEF Init, IdInv, RowInv, SubmitAt, AskAt, Asking, Following, Sent
<1>2. TypeInv /\ IdInv /\ [Next]_vars => IdInv'
  <2> SUFFICES ASSUME TypeInv, IdInv, [Next]_vars PROVE IdInv'
    OBVIOUS
  <2>1. ASSUME NEW w \in Workers, Crash(w)
        PROVE  IdInv'
    BY <2>1, IdLeft, IdStill DEF Crash
  <2>2. CASE UNCHANGED <<store, pc, locals>>
    BY <2>2 DEF IdInv, RowInv, SubmitAt, AskAt, Asking, Following, AsText
  <2>3. ASSUME NEW o \in Orders, TradeUnit(o) \/ EndOrder(o) \/ ListTrades(o) \/ AgeTrades(o)
        PROVE  IdInv'
    BY <2>2, <2>3 DEF TradeUnit, EndOrder, ListTrades, AgeTrades
  <2>4. CASE UNCHANGED vars
    BY <2>2, <2>4 DEF vars
  <2> QED
    BY <2>1, <2>3, <2>4, IdSubmit, IdReconcile DEF Next
<1> QED
  BY <1>1, <1>2, TypeAlways, PTL DEF Spec

-----------------------------------------------------------------------------
(* Fills and ends.                                                         *)

(* What never shrinks or turns back. *)
Grows ==
  /\ fills \subseteq fills' /\ done \subseteq done'
  /\ \A o \in Orders : /\ filled[o] <= filled'[o]
                       /\ state[o] \in Ended => state'[o] = state[o] /\ filled'[o] = filled[o]
  /\ \A i \in Intents : rid[i] # NoOrder => rid'[i] = rid[i]

(* No step takes a fill or a completed delivery out of the store, changes  *)
(* an id in a row, or changes an order that has ended.                     *)
LEMMA NextGrows ==
  ASSUME TypeInv, [Next]_vars
  PROVE  Grows
<1> USE DEF TypeInv
<1>0. \A o \in Orders : filled[o] \in Nat /\ state[o] \in {"none", "open", "closed", "canceled"}
  BY ExecutorAssumption DEF VenueOK
<1>1. ASSUME fills \subseteq fills', done \subseteq done', UNCHANGED <<rid, state, filled>>
      PROVE  Grows
  BY <1>0, <1>1 DEF Grows
<1>2. ASSUME NEW w \in Workers, Submit(w)
      PROVE  Grows
  <2>1. CASE Claim(w) \/ PlaceRefused(w) \/ MarkUnknown(w) \/ SetSubmitted(w)
    BY <1>1, <2>1 DEF Claim, PlaceRefused, MarkUnknown, SetSubmitted
  <2>2. CASE PlaceAccepted(w) \/ PlaceAmbiguous(w)
    <3>1. UNCHANGED <<fills, done, rid, filled>>
      BY <2>2 DEF PlaceAccepted, PlaceAmbiguous, Accept
    <3>2. \A o \in Orders : state[o] \in Ended => state'[o] = state[o]
      BY <2>2 DEF PlaceAccepted, PlaceAmbiguous, Accept, Ended, VenueOK
    <3> QED
      BY <1>0, <3>1, <3>2 DEF Grows
  <2>3. CASE MarkSubmitted(w)
    <3>1. UNCHANGED <<fills, done, state, filled>>
      BY <2>3 DEF MarkSubmitted
    <3>2. \A i \in Intents : rid[i] # NoOrder => rid'[i] = rid[i]
      BY <2>3 DEF MarkSubmitted, StoreOK, WorkersOK
    <3> QED
      BY <1>0, <3>1, <3>2 DEF Grows
  <2> QED
    BY <1>2, <2>1, <2>2, <2>3 DEF Submit
<1>3. ASSUME NEW w \in Workers, Reconcile(w)
      PROVE  Grows
  <2>1. UNCHANGED <<rid, state, filled>>
    BY <1>3 DEF Reconcile, RetryCanonicalFills, CompleteReconcileFill, FetchOrder, FetchTrades, AddTrade, Close,
       AddSynthetic, Settle, Finish, MarkTerminal
  <2>2. fills \subseteq fills'
    BY <1>3 DEF Reconcile, RetryCanonicalFills, CompleteReconcileFill, FetchOrder, FetchTrades, AddTrade, Close,
       AddSynthetic, Settle, Finish, MarkTerminal
  <2>3. done \subseteq done'
    BY <1>3 DEF Reconcile, RetryCanonicalFills, CompleteReconcileFill, FetchOrder, FetchTrades, AddTrade, Close,
       AddSynthetic, Settle, Finish, MarkTerminal
  <2> QED
    BY <1>1, <2>1, <2>2, <2>3
<1>4. ASSUME NEW w \in Workers,
             Crash(w) \/ \E i \in Intents : BeginSubmit(w, i) \/ BeginReconcile(w, i)
      PROVE  Grows
  BY <1>1, <1>4 DEF Crash, BeginSubmit, BeginReconcile
<1>5. ASSUME NEW o \in Orders, TradeUnit(o) \/ EndOrder(o) \/ ListTrades(o) \/ AgeTrades(o)
      PROVE  Grows
  <2>1. UNCHANGED <<fills, done, rid>>
    BY <1>5 DEF TradeUnit, EndOrder, ListTrades, AgeTrades
  <2>2. CASE TradeUnit(o)
    <3>1. \A p \in Orders : filled[p] <= filled'[p] /\ (p # o => filled'[p] = filled[p])
      BY <1>0, <2>2 DEF TradeUnit, VenueOK
    <3> QED
      BY <2>1, <2>2, <3>1 DEF TradeUnit, Grows, Ended
  <2>3. CASE EndOrder(o)
    BY <1>0, <2>1, <2>3 DEF EndOrder, Grows, Ended, VenueOK
  <2>4. CASE ListTrades(o) \/ AgeTrades(o)
    BY <1>1, <2>1, <2>4 DEF ListTrades, AgeTrades
  <2> QED
    BY <1>5, <2>2, <2>3, <2>4
<1>6. CASE UNCHANGED vars
  BY <1>1, <1>6 DEF vars
<1> QED
  BY <1>2, <1>3, <1>4, <1>5, <1>6 DEF Next

(* What a reconciler knows of the order it follows is a past state of it,  *)
(* and the present one once that was the end.                              *)
AnswerAt(w) ==
  /\ Following(w) => /\ seen[w].filled <= filled[seen[w].order]
                     /\ seen[w].state \in Ended => /\ state[seen[w].order] = seen[w].state
                                                   /\ filled[seen[w].order] = seen[w].filled
  /\ Ending(w) => seen[w].state \in Ended

AnswerInv == \A w \in Workers : AnswerAt(w)

(* A worker that goes on with what it has, while the venue goes on. *)
LEMMA AnswerKeeps ==
  ASSUME TypeInv, TypeInv', AnswerInv, Grows, NEW v \in Workers, seen'[v] = seen[v],
         Following(v)' => Following(v), Ending(v)' => Ending(v) \/ seen[v].state \in Ended
  PROVE  AnswerAt(v)'
<1>1. AnswerAt(v)
  BY DEF AnswerInv
<1>2. CASE Following(v)
  <2>1. seen[v].order \in Orders
    BY <1>2 DEF TypeInv, LocalInv
  <2>2. seen[v].filled \in Nat /\ filled[seen[v].order] \in Nat /\ filled'[seen[v].order] \in Nat
    BY <2>1, ExecutorAssumption DEF TypeInv, VenueOK, WorkersOK, Answers
  <2>3. /\ filled[seen[v].order] <= filled'[seen[v].order]
        /\ state[seen[v].order] \in Ended => /\ state'[seen[v].order] = state[seen[v].order]
                                             /\ filled'[seen[v].order] = filled[seen[v].order]
    BY <2>1 DEF Grows
  <2>4. seen[v].filled <= filled'[seen[v].order]
    BY <1>1, <1>2, <2>2, <2>3 DEF AnswerAt
  <2>5. seen[v].state \in Ended => /\ state'[seen[v].order] = seen[v].state
                                   /\ filled'[seen[v].order] = seen[v].filled
    BY <1>1, <1>2, <2>3 DEF AnswerAt
  <2> QED
    BY <1>1, <2>4, <2>5 DEF AnswerAt
<1>3. CASE ~Following(v)
  BY <1>1, <1>3 DEF AnswerAt
<1> QED
  BY <1>2, <1>3

(* Every step keeps the answers in hand true of the venue's order. *)
LEMMA AnswerNext ==
  ASSUME TypeInv, TypeInv', IdInv, AnswerInv, [Next]_vars
  PROVE  AnswerInv'
<1>0. Grows
  BY NextGrows
<1>1. ASSUME NEW w \in Workers, Others(w), AnswerAt(w)'
      PROVE  AnswerInv'
  <2>1. ASSUME NEW v \in Workers, v # w
        PROVE  AnswerAt(v)'
    <3>1. /\ pc'[v] = pc[v] /\ it'[v] = it[v] /\ seen'[v] = seen[v]
          /\ todo'[v] = todo[v] /\ then'[v] = then[v]
      BY <1>1, <2>1 DEF Others
    <3>2. (Following(v)' => Following(v)) /\ (Ending(v)' => Ending(v))
      BY <3>1 DEF Following, Ending
    <3> QED
      BY <1>0, <3>1, <3>2, AnswerKeeps
  <2> QED
    BY <1>1, <2>1 DEF AnswerInv
<1>2. ASSUME NEW w \in Workers,
             pc'[w] \in {"idle", "claim", "place", "unsure", "mark", "status"}
               \/ (pc'[w] \in {"retry", "complete"} /\ then'[w] = "fetch")
      PROVE  AnswerAt(w)'
  BY <1>2 DEF AnswerAt, Following, Ending
<1>3. ASSUME NEW w \in Workers, Leave(w)
      PROVE  AnswerInv'
  BY <1>1, <1>2, <1>3, LeaveType, LeaveAlone DEF TypeInv
<1>4. ASSUME NEW w \in Workers, Submit(w) \/ \E i \in Intents : BeginSubmit(w, i)
      PROVE  AnswerInv'
  <2>1. CASE ~Leave(w)
    <3>1. Others(w) /\ pc'[w] \in {"claim", "place", "unsure", "mark", "status"}
      <4>1. CASE \E i \in Intents : BeginSubmit(w, i)
        BY <4>1 DEF BeginSubmit, Goto, TypeInv, WorkersOK, Others
      <4>2. CASE PlaceAccepted(w)
        BY <4>2 DEF PlaceAccepted, Goto, TypeInv, WorkersOK, Others
      <4>3. CASE Claim(w) \/ PlaceAmbiguous(w) \/ MarkSubmitted(w)
        <5>1. Stay(w, "status") \/ Stay(w, "place") \/ Stay(w, "unsure")
          BY <2>1, <4>3 DEF Claim, PlaceAmbiguous, MarkSubmitted
        <5> QED
          BY <5>1, StayType DEF TypeInv, Labels
      <4> QED
        BY <1>4, <2>1, <4>1, <4>2, <4>3 DEF Submit, PlaceRefused, MarkUnknown, SetSubmitted
    <3> QED
      BY <1>1, <1>2, <3>1
  <2> QED
    BY <1>3, <2>1
<1>5. ASSUME NEW w \in Workers, NEW i \in Intents, BeginReconcile(w, i)
      PROVE  AnswerInv'
  <2>1. Others(w) /\ pc'[w] = "retry" /\ then'[w] = "fetch"
    BY <1>5 DEF BeginReconcile, Goto, TypeInv, WorkersOK, Others
  <2> QED
    BY <1>1, <1>2, <2>1
<1>6. ASSUME NEW w \in Workers, FetchOrder(w)
      PROVE  AnswerInv'
  <2>1. CASE ~Leave(w)
    <3>0. AskAt(w)
      BY DEF IdInv
    <3>1. /\ UNCHANGED <<state, filled>>
          /\ rid[it[w]] \in Orders
          /\ seen'[w] = [order |-> rid[it[w]], state |-> state[rid[it[w]]], filled |-> filled[rid[it[w]]]]
          /\ pc'[w] = "trades" /\ Others(w)
      BY <1>6, <2>1, <3>0, Fetched
    <3>2. filled[rid[it[w]]] \in Nat
      BY <3>1, ExecutorAssumption DEF TypeInv, VenueOK
    <3>3. AnswerAt(w)'
      BY <3>1, <3>2 DEF AnswerAt, Following, Ending
    <3> QED
      BY <1>1, <3>1, <3>3
  <2> QED
    BY <1>3, <2>1
<1>7. ASSUME NEW w \in Workers, Reconcile(w), ~FetchOrder(w)
      PROVE  AnswerInv'
  <2>1. GoesOn(w)
    BY <1>7, ReconcileGoesOn
  <2>2. AnswerAt(w)'
    <3>1. CASE pc'[w] = "idle"
      BY <1>2, <3>1
    <3>2. CASE pc'[w] # "idle"
      BY <1>0, <2>1, <3>2, AnswerKeeps DEF GoesOn
    <3> QED
      BY <3>1, <3>2
  <2> QED
    BY <1>1, <2>1, <2>2 DEF GoesOn
<1>8. CASE UNCHANGED <<pc, locals>>
  <2>1. ASSUME NEW v \in Workers PROVE AnswerAt(v)'
    BY <1>0, <1>8, AnswerKeeps DEF Following, Ending
  <2> QED
    BY <2>1 DEF AnswerInv
<1>9. ASSUME NEW o \in Orders, TradeUnit(o) \/ EndOrder(o) \/ ListTrades(o) \/ AgeTrades(o)
      PROVE  AnswerInv'
  BY <1>8, <1>9 DEF TradeUnit, EndOrder, ListTrades, AgeTrades
<1>10. CASE UNCHANGED vars
  BY <1>8, <1>10 DEF vars
<1>11. ASSUME NEW w \in Workers, Crash(w)
       PROVE  AnswerInv'
  BY <1>3, <1>11 DEF Crash
<1> QED
  BY <1>4, <1>5, <1>6, <1>7, <1>9, <1>10, <1>11 DEF Next

(* The fills of an intent: of the row's order, no more than it has traded, *)
(* and a real one a single unit.                                           *)
FillInv ==
  /\ \A i \in Intents : Rows(i) # {} => rid[i] \in Orders /\ Quantity(i) <= filled[rid[i]]
  /\ \A r \in fills : r[1][2] # 0 => r[2] = r[1][2]

(* The recorded quantity is a natural number, zero without fills. *)
LEMMA QuantityType ==
  ASSUME FillsOK, NEW i \in Intents
  PROVE  IsFiniteSet(Rows(i)) /\ Quantity(i) \in Nat /\ (Quantity(i) = 0 <=> Rows(i) = {})
<1>1. Rows(i) \subseteq fills
  BY DEF Rows
<1>2. IsFiniteSet(Rows(i))
  BY <1>1, FS_Subset DEF FillsOK
<1> QED
  BY <1>2, FS_CardinalityType, FS_EmptySet DEF Quantity

(* Where the fills are as they were. *)
LEMMA FillKeeps ==
  ASSUME TypeInv, TypeInv', FillInv, Grows, UNCHANGED fills
  PROVE  FillInv'
<1>1. ASSUME NEW i \in Intents, Rows(i)' # {}
      PROVE  rid'[i] \in Orders /\ Quantity(i)' <= filled'[rid'[i]]
  <2>1. Rows(i)' = Rows(i) /\ Quantity(i)' = Quantity(i)
    BY DEF Rows, Quantity
  <2>2. rid[i] \in Orders /\ Quantity(i) <= filled[rid[i]]
    BY <1>1, <2>1 DEF FillInv
  <2>3. rid'[i] = rid[i]
    BY <2>2, OrderFacts DEF Grows
  <2>4. filled[rid[i]] \in Nat /\ filled'[rid[i]] \in Nat /\ filled[rid[i]] <= filled'[rid[i]]
    BY <2>2, ExecutorAssumption DEF Grows, TypeInv, VenueOK
  <2>5. Quantity(i) \in Nat
    BY QuantityType DEF TypeInv
  <2> QED
    BY <2>1, <2>2, <2>3, <2>4, <2>5
<1> QED
  BY <1>1 DEF FillInv

(* Where a fill of the intent a worker follows is added, within what the   *)
(* worker was told.                                                        *)
LEMMA FillAdds ==
  ASSUME TypeInv, TypeInv', IdInv, AnswerInv, FillInv, NEW w \in Workers, Following(w),
         UNCHANGED <<rid, filled>>, NEW S, fills' = fills \cup S,
         \A r \in S : IntentOf(r[1]) = it[w] /\ (r[1][2] # 0 => r[2] = r[1][2]),
         Cardinality(Rows(it[w]) \cup S) <= seen[w].filled
  PROVE  FillInv'
<1>0. PICK i \in Intents : i = it[w]
  BY DEF TypeInv, WorkersOK
<1>1. rid[i] \in Orders /\ seen[w].filled <= filled[rid[i]]
  <2>1. seen[w].order = rid[i] /\ seen[w].order \in Orders
    BY <1>0 DEF IdInv, AskAt, TypeInv, LocalInv
  <2> QED
    BY <2>1 DEF AnswerInv, AnswerAt
<1>2. Rows(i)' = Rows(i) \cup S
  BY <1>0 DEF Rows
<1>3. Quantity(i)' <= filled[rid[i]]
  <2>1. Quantity(i)' = Cardinality(Rows(i) \cup S)
    BY <1>2 DEF Quantity
  <2>2. Quantity(i)' \in Nat
    <3>1. Rows(i)' \in SUBSET fills' /\ IsFiniteSet(fills')
      BY DEF Rows, TypeInv, FillsOK
    <3> QED
      BY <3>1, FS_Subset, FS_CardinalityType DEF Quantity
  <2>3. seen[w].filled \in Nat /\ filled[rid[i]] \in Nat
    BY <1>1, ExecutorAssumption DEF TypeInv, VenueOK, WorkersOK, Answers
  <2> QED
    BY <1>0, <1>1, <2>1, <2>2, <2>3
<1>4. ASSUME NEW j \in Intents, j # i
      PROVE  Rows(j)' = Rows(j) /\ Quantity(j)' = Quantity(j)
  BY <1>0, <1>4 DEF Rows, Quantity
<1>5. \A j \in Intents : Rows(j)' # {} => rid'[j] \in Orders /\ Quantity(j)' <= filled'[rid'[j]]
  BY <1>1, <1>3, <1>4 DEF FillInv
<1>6. \A r \in fills' : r[1][2] # 0 => r[2] = r[1][2]
  BY DEF FillInv
<1> QED
  BY <1>5, <1>6 DEF FillInv

(* The checks of add_fill keep the fills within the order. *)
LEMMA FillNext ==
  ASSUME TypeInv, TypeInv', IdInv, AnswerInv, FillInv, [Next]_vars
  PROVE  FillInv'
<1>0. Grows
  BY NextGrows
<1>1. ASSUME NEW w \in Workers, AddTrade(w), fills' # fills
      PROVE  FillInv'
  <2>1. PICK f \in todo[w] : Fits(it[w], f, 1, seen[w].filled) /\ fills' = fills \cup {<<f, f[2]>>}
    BY <1>1 DEF AddTrade, GiveUp
  <2>2. /\ f \in FillIds /\ IntentOf(f) = it[w] /\ f[2] \in Units /\ it[w] \in Intents
        /\ Following(w) /\ UNCHANGED <<rid, filled>>
    BY <1>1 DEF AddTrade, TypeInv, LocalInv, WorkersOK, Following
  <2>3. f[2] # 0
    BY <2>2, ExecutorAssumption DEF Units
  <2>4. IsFiniteSet(Rows(it[w])) /\ Quantity(it[w]) \in Nat
    BY <2>2, QuantityType DEF TypeInv
  <2>5. CASE f \in Recorded(it[w])
    <3>1. PICK r \in Rows(it[w]) : r[1] = f
      BY <2>5 DEF Recorded
    <3>2. r \in fills /\ r = <<r[1], r[2]>>
      BY <3>1 DEF Rows, TypeInv, FillsOK
    <3>3. r = <<f, f[2]>>
      BY <2>3, <3>1, <3>2 DEF FillInv
    <3> QED
      BY <1>1, <2>1, <3>2, <3>3
  <2>6. CASE f \notin Recorded(it[w])
    <3>1. <<f, f[2]>> \notin Rows(it[w])
      BY <2>6 DEF Recorded
    <3>2. Cardinality(Rows(it[w]) \cup {<<f, f[2]>>}) = Quantity(it[w]) + 1
      BY <2>4, <3>1, FS_AddElement DEF Quantity
    <3>3. Cardinality(Rows(it[w]) \cup {<<f, f[2]>>}) <= seen[w].filled
      BY <2>1, <2>6, <3>2 DEF Fits
    <3> DEFINE S == {<<f, f[2]>>}
    <3>4. \A r \in S : IntentOf(r[1]) = it[w] /\ (r[1][2] # 0 => r[2] = r[1][2])
      BY <2>2
    <3>5. fills' = fills \cup S /\ Cardinality(Rows(it[w]) \cup S) <= seen[w].filled
      BY <2>1, <3>3
    <3> HIDE DEF S
    <3> QED
      BY <2>2, <3>4, <3>5, FillAdds
  <2> QED
    BY <2>5, <2>6
<1>2. ASSUME NEW w \in Workers, AddSynthetic(w), fills' # fills
      PROVE  FillInv'
  <2> DEFINE f == <<seen[w].order, 0>>
             q == seen[w].filled
             S == {<<f, u>> : u \in 1 .. q}
  <2>1. f \notin Recorded(it[w]) /\ Fits(it[w], f, q, q) /\ fills' = fills \cup S
    BY <1>2 DEF AddSynthetic, GiveUp
  <2>2. it[w] \in Intents /\ q \in Nat /\ Following(w) /\ UNCHANGED <<rid, filled>>
    BY <1>2, ExecutorAssumption DEF AddSynthetic, TypeInv, WorkersOK, Answers, Following
  <2>3. IsFiniteSet(Rows(it[w])) /\ Quantity(it[w]) \in Nat /\ (Quantity(it[w]) = 0 <=> Rows(it[w]) = {})
    BY <2>2, QuantityType DEF TypeInv
  <2>4. Rows(it[w]) = {}
    BY <2>1, <2>2, <2>3 DEF Fits
  <2>5. seen[w].order[1] = it[w]
    <3>1. seen[w].order = rid[it[w]] /\ seen[w].order # NoOrder
      BY <2>2, OrderFacts DEF IdInv, AskAt, TypeInv, LocalInv
    <3> QED
      BY <2>2, <3>1 DEF IdInv, RowInv
  <2>6. \A r \in S : IntentOf(r[1]) = it[w] /\ (r[1][2] # 0 => r[2] = r[1][2])
    BY <2>5 DEF IntentOf
  <2>7. Cardinality(S) <= q
    <3> HIDE DEF f, q
    <3>1. [u \in 1 .. q |-> <<f, u>>] \in Surjection(1 .. q, S)
      BY DEF Surjection
    <3>2. ExistsSurjection(1 .. q, S)
      BY <3>1 DEF ExistsSurjection
    <3> QED
      BY <2>2, <3>2, FS_SurjCardinalityBound
  <2>8. Cardinality(Rows(it[w]) \cup S) <= seen[w].filled
    <3>1. Rows(it[w]) \cup S = S
      BY <2>4
    <3> QED
      BY <2>7, <3>1
  <2> HIDE DEF S
  <2> QED
    BY <2>1, <2>2, <2>6, <2>8, FillAdds
<1>3. CASE UNCHANGED fills
  BY <1>0, <1>3, FillKeeps
<1>4. ASSUME fills' # fills
      PROVE  \E w \in Workers : AddTrade(w) \/ AddSynthetic(w)
  <2>1. Next
    BY <1>4 DEF vars
  <2>2. ASSUME NEW w \in Workers, NEW i \in Intents PROVE ~BeginSubmit(w, i) /\ ~BeginReconcile(w, i)
    BY <1>4 DEF BeginSubmit, BeginReconcile
  <2>3. ASSUME NEW w \in Workers PROVE ~Submit(w) /\ ~Crash(w)
    BY <1>4 DEF Submit, Claim, PlaceAccepted, PlaceAmbiguous, PlaceRefused, MarkUnknown, MarkSubmitted, SetSubmitted,
       Crash
  <2>4. ASSUME NEW o \in Orders PROVE ~(TradeUnit(o) \/ EndOrder(o) \/ ListTrades(o) \/ AgeTrades(o))
    BY <1>4 DEF TradeUnit, EndOrder, ListTrades, AgeTrades
  <2>5. ASSUME NEW w \in Workers, Reconcile(w) PROVE AddTrade(w) \/ AddSynthetic(w)
    BY <1>4, <2>5 DEF Reconcile, RetryCanonicalFills, CompleteReconcileFill, FetchOrder, FetchTrades, Close,
       Settle, Finish, MarkTerminal
  <2> QED
    BY <2>1, <2>2, <2>3, <2>4, <2>5 DEF Next
<1> QED
  BY <1>1, <1>2, <1>3, <1>4

(* All that the order traded is recorded, and all of it accounted. *)
Settled(i) ==
  /\ rid[i] \in Orders /\ state[rid[i]] \in Ended
  /\ Quantity(i) = filled[rid[i]] /\ Recorded(i) \subseteq done

(* An intent is about to end, or has ended, only where that is so. *)
EndInv ==
  /\ \A w \in Workers : pc[w] = "finish" => Settled(it[w])
  /\ \A i \in Intents : status[i] \in Terminal =>
       /\ Settled(i) /\ reason[i] = rid[i]
       /\ state[rid[i]] = IF status[i] = "filled" THEN "closed" ELSE "canceled"

(* What is settled stays so: the order has ended, and there is no room for *)
(* another fill of it.                                                     *)
LEMMA SettledStays ==
  ASSUME TypeInv, TypeInv', FillInv', Grows, NEW i \in Intents, Settled(i)
  PROVE  /\ Settled(i)' /\ Rows(i)' = Rows(i)
         /\ rid'[i] = rid[i] /\ state'[rid[i]] = state[rid[i]]
<1>1. rid'[i] = rid[i]
  BY OrderFacts DEF Settled, Grows
<1>2. state'[rid[i]] = state[rid[i]] /\ filled'[rid[i]] = filled[rid[i]]
  BY DEF Settled, Grows
<1>3. Rows(i) \in SUBSET Rows(i)' /\ Rows(i)' \in SUBSET fills' /\ IsFiniteSet(fills')
  BY DEF Rows, Grows, TypeInv, FillsOK
<1>4. IsFiniteSet(Rows(i)') /\ Quantity(i)' \in Nat
  BY <1>3, FS_Subset, FS_CardinalityType DEF Quantity
<1>5. /\ Quantity(i) \in Nat /\ Quantity(i) <= Quantity(i)'
      /\ Quantity(i)' = Quantity(i) => Rows(i)' = Rows(i)
  BY <1>3, <1>4, FS_Subset, QuantityType DEF Quantity, TypeInv
<1>6. Rows(i)' = Rows(i)
  <2>1. CASE Rows(i)' = {}
    BY <1>3, <2>1
  <2>2. CASE Rows(i)' # {}
    <3>1. Quantity(i)' <= filled'[rid'[i]]
      BY <2>2 DEF FillInv
    <3>2. Quantity(i)' <= Quantity(i)
      BY <1>1, <1>2, <3>1 DEF Settled
    <3> QED
      BY <1>4, <1>5, <3>2
  <2> QED
    BY <2>1, <2>2
<1>7. Recorded(i)' = Recorded(i) /\ Quantity(i)' = Quantity(i)
  BY <1>6 DEF Recorded, Quantity
<1> QED
  BY <1>1, <1>2, <1>6, <1>7 DEF Settled, Grows

(* A status becomes terminal in Finish, and not otherwise. *)
LEMMA StatusMoves ==
  ASSUME TypeInv, [Next]_vars, NEW i \in Intents, status'[i] \in Terminal
  PROVE  \/ status'[i] = status[i] /\ reason'[i] = reason[i]
         \/ \E w \in Workers :
              /\ pc[w] = "finish" /\ it[w] = i
              /\ status'[i] = IF seen[w].state = "closed" THEN "filled" ELSE "canceled"
              /\ reason'[i] = seen[w].order
<1> USE DEF TypeInv
<1>1. CASE UNCHANGED <<status, reason>>
  BY <1>1
<1>2. ASSUME NEW w \in Workers, NEW s \in {"submitted", "partially_filled"}, NEW r \in Remote,
             SetStatus(it[w], s, r)
      PROVE  status'[i] = status[i] /\ reason'[i] = reason[i]
  <2>1. it[w] \in Intents /\ s \in Terminal \cup {"submitted", "partially_filled"} /\ s \notin Terminal
    BY DEF WorkersOK, Terminal
  <2> QED
    BY <1>2, <2>1, SetStatusType
<1>3. ASSUME NEW w \in Workers, SetSubmitted(w)
      PROVE  status'[i] = status[i] /\ reason'[i] = reason[i]
  <2>1. AsText(rid[it[w]]) \in Remote
    BY DEF AsText, Remote, StoreOK, WorkersOK
  <2> QED
    BY <1>1, <1>2, <1>3, <2>1 DEF SetSubmitted
<1>4. ASSUME NEW w \in Workers, FetchTrades(w)
      PROVE  status'[i] = status[i] /\ reason'[i] = reason[i]
  <2>1. seen[w].order \in Remote
    BY DEF WorkersOK, Answers
  <2> QED
    BY <1>1, <1>2, <1>4, <2>1 DEF FetchTrades
<1>5. ASSUME NEW w \in Workers, Finish(w)
      PROVE  \/ status'[i] = status[i] /\ reason'[i] = reason[i]
             \/ /\ pc[w] = "finish" /\ it[w] = i
                /\ status'[i] = IF seen[w].state = "closed" THEN "filled" ELSE "canceled"
                /\ reason'[i] = seen[w].order
  <2>1. seen[w].order \in Remote /\ it[w] \in Intents /\ pc[w] = "finish"
    BY <1>5 DEF WorkersOK, Answers, Finish
  <2> DEFINE t == IF seen[w].state = "closed" THEN "filled" ELSE "canceled"
  <2>2. t \in Terminal
    BY DEF Terminal
  <2>3. CASE UNCHANGED <<status, reason>>
    BY <2>3
  <2>4. CASE SetStatus(it[w], t, seen[w].order)
    <3> HIDE DEF t
    <3>1. /\ \A j \in Intents \ {it[w]} : status'[j] = status[j] /\ reason'[j] = reason[j]
          /\ \/ status'[it[w]] = status[it[w]] /\ reason'[it[w]] = reason[it[w]]
             \/ status'[it[w]] = t /\ reason'[it[w]] = seen[w].order
      BY <2>1, <2>2, <2>4, SetStatusType
    <3>2. \/ status'[i] = status[i] /\ reason'[i] = reason[i]
          \/ it[w] = i /\ status'[i] = t /\ reason'[i] = seen[w].order
      BY <3>1
    <3> QED
      BY <2>1, <3>2 DEF t
  <2> QED
    BY <1>5, <2>3, <2>4 DEF Finish
<1>6. ASSUME ~UNCHANGED <<status, reason>>
      PROVE  \E w \in Workers : SetSubmitted(w) \/ FetchTrades(w) \/ Finish(w)
  <2>1. Next
    BY <1>6 DEF vars
  <2>2. ASSUME NEW w \in Workers, NEW j \in Intents PROVE ~BeginSubmit(w, j) /\ ~BeginReconcile(w, j)
    BY <1>6 DEF BeginSubmit, BeginReconcile
  <2>3. ASSUME NEW w \in Workers, Submit(w) \/ Crash(w) PROVE SetSubmitted(w)
    BY <1>6, <2>3 DEF Submit, Claim, PlaceAccepted, PlaceAmbiguous, PlaceRefused, MarkUnknown, MarkSubmitted, Crash
  <2>4. ASSUME NEW o \in Orders PROVE ~(TradeUnit(o) \/ EndOrder(o) \/ ListTrades(o) \/ AgeTrades(o))
    BY <1>6 DEF TradeUnit, EndOrder, ListTrades, AgeTrades
  <2>5. ASSUME NEW w \in Workers, Reconcile(w) PROVE FetchTrades(w) \/ Finish(w)
    BY <1>6, <2>5 DEF Reconcile, RetryCanonicalFills, CompleteReconcileFill, FetchOrder, AddTrade, Close,
       AddSynthetic, Settle, MarkTerminal
  <2> QED
    BY <2>1, <2>2, <2>3, <2>4, <2>5 DEF Next
<1> QED
  BY <1>1, <1>3, <1>4, <1>5, <1>6

(* A worker comes to finish from a settle that found the accounts ready. *)
LEMMA FinishMoves ==
  ASSUME TypeInv, [Next]_vars, NEW w \in Workers, pc'[w] = "finish"
  PROVE  it'[w] = it[w] /\ (pc[w] = "finish" \/ (pc[w] = "settle" /\ Ready(w)))
<1> USE DEF TypeInv
<1>1. CASE UNCHANGED <<pc, locals>>
  BY <1>1
<1>2. ASSUME NEW v \in Workers, v # w, Others(v)
      PROVE  pc'[w] = pc[w] /\ it'[w] = it[w]
  BY <1>2 DEF Others
<1>3. ASSUME NEW v \in Workers, Submit(v) \/ Crash(v) \/ \E i \in Intents : BeginSubmit(v, i)
      PROVE  Others(v) /\ pc'[v] # "finish"
  <2>1. CASE Leave(v)
    BY <2>1, LeaveType, LeaveAlone
  <2>2. CASE \E i \in Intents : BeginSubmit(v, i)
    BY <2>2 DEF BeginSubmit, Goto, WorkersOK, Others
  <2>3. CASE PlaceAccepted(v)
    BY <2>3 DEF PlaceAccepted, Goto, WorkersOK, Others
  <2>4. CASE Stay(v, "status") \/ Stay(v, "place") \/ Stay(v, "unsure")
    BY <2>4, StayType DEF Labels
  <2> QED
    BY <1>3, <2>1, <2>2, <2>3, <2>4 DEF Submit, Claim, MarkSubmitted, PlaceAmbiguous, PlaceRefused, MarkUnknown,
       SetSubmitted, Crash
<1>4. ASSUME NEW v \in Workers, NEW i \in Intents, BeginReconcile(v, i)
      PROVE  Others(v) /\ pc'[v] # "finish"
  BY <1>4 DEF BeginReconcile, Goto, WorkersOK, Others
<1>5. ASSUME NEW v \in Workers, FetchOrder(v)
      PROVE  Others(v) /\ pc'[v] # "finish"
  <2>1. CASE Leave(v)
    BY <2>1, LeaveType, LeaveAlone
  <2>2. CASE ~Leave(v)
    BY <1>5, <2>2 DEF FetchOrder, GiveUp, Goto, WorkersOK, Others
  <2> QED
    BY <2>1, <2>2
<1>6. ASSUME NEW v \in Workers, Reconcile(v), ~FetchOrder(v)
      PROVE  Others(v) /\ (pc'[v] = "finish" => Settle(v) /\ it'[v] = it[v] /\ Ready(v))
  <2>1. GoesOn(v)
    BY <1>6, ReconcileGoesOn
  <2>2. pc'[v] = "finish" => Settle(v)
    <3>1. CASE Leave(v)
      BY <3>1, LeaveType
    <3>2. CASE RetryCanonicalFills(v)
      <4>1. then[v] \in {"idle", "fetch", "settle"}
        BY <3>2 DEF RetryCanonicalFills, LocalInv
      <4>2. pc'[v] = "idle" \/ pc'[v] = then[v] \/ pc'[v] = "complete"
        BY <3>2, LeaveType DEF RetryCanonicalFills, GiveUp, Goto, Stay, WorkersOK
      <4> QED
        BY <4>1, <4>2
    <3>3. CASE ~RetryCanonicalFills(v) /\ ~Leave(v)
      BY <1>6, <3>3 DEF Reconcile, CompleteReconcileFill, FetchTrades, AddTrade, Close, AddSynthetic, Finish,
         MarkTerminal, GiveUp, Stay, Goto, WorkersOK
    <3> QED
      BY <3>1, <3>2, <3>3
  <2>3. pc'[v] = "finish" => Ready(v)
    <3>1. CASE Leave(v)
      BY <3>1, LeaveType
    <3> QED
      BY <2>2, <3>1 DEF Settle
  <2> QED
    BY <2>1, <2>2, <2>3 DEF GoesOn
<1>7. ASSUME NEW o \in Orders, TradeUnit(o) \/ EndOrder(o) \/ ListTrades(o) \/ AgeTrades(o)
      PROVE  UNCHANGED <<pc, locals>>
  BY <1>7 DEF TradeUnit, EndOrder, ListTrades, AgeTrades
<1> QED
  BY <1>1, <1>2, <1>3, <1>4, <1>5, <1>6, <1>7 DEF Next, vars, Settle

(* The end of an intent, step by step. *)
LEMMA EndNext ==
  ASSUME TypeInv, TypeInv', IdInv, AnswerInv, FillInv, FillInv', EndInv, [Next]_vars
  PROVE  EndInv'
<1>0. Grows
  BY NextGrows
<1>1. ASSUME NEW w \in Workers, pc'[w] = "finish"
      PROVE  Settled(it[w])' /\ it'[w] = it[w]
  <2>1. it'[w] = it[w] /\ (pc[w] = "finish" \/ (pc[w] = "settle" /\ Ready(w)))
    BY <1>1, FinishMoves
  <2>2. PICK i \in Intents : i = it[w]
    BY DEF TypeInv, WorkersOK
  <2>3. Settled(i)
    <3>1. CASE pc[w] = "finish"
      BY <2>2, <3>1 DEF EndInv
    <3>2. CASE pc[w] = "settle" /\ Ready(w)
      <4>1. seen[w].order = rid[i] /\ rid[i] \in Orders
        BY <2>2, <3>2 DEF IdInv, AskAt, Following, TypeInv, LocalInv
      <4>2. seen[w].state \in Ended /\ state[rid[i]] = seen[w].state /\ filled[rid[i]] = seen[w].filled
        BY <3>2, <4>1 DEF AnswerInv, AnswerAt, Following, Ending
      <4>3. Recorded(i) \subseteq done /\ Quantity(i) = seen[w].filled
        BY <2>2, <3>2 DEF Ready, Undone
      <4> QED
        BY <4>1, <4>2, <4>3 DEF Settled
    <3> QED
      BY <2>1, <3>1, <3>2
  <2>4. Settled(i)'
    BY <1>0, <2>3, SettledStays
  <2> QED
    BY <2>1, <2>2, <2>4
<1>2. ASSUME NEW i \in Intents, status'[i] \in Terminal
      PROVE  /\ Settled(i)' /\ reason'[i] = rid'[i]
             /\ state'[rid'[i]] = IF status'[i] = "filled" THEN "closed" ELSE "canceled"
  <2>1. /\ Settled(i) /\ reason'[i] = rid[i]
        /\ state[rid[i]] = IF status'[i] = "filled" THEN "closed" ELSE "canceled"
    <3>1. CASE status'[i] = status[i] /\ reason'[i] = reason[i]
      BY <1>2, <3>1 DEF EndInv
    <3>2. ASSUME NEW w \in Workers, pc[w] = "finish", it[w] = i,
                 status'[i] = IF seen[w].state = "closed" THEN "filled" ELSE "canceled",
                 reason'[i] = seen[w].order
          PROVE  /\ Settled(i) /\ reason'[i] = rid[i]
                 /\ state[rid[i]] = IF status'[i] = "filled" THEN "closed" ELSE "canceled"
      <4>1. Settled(i)
        BY <3>2 DEF EndInv
      <4>2. seen[w].order = rid[i]
        BY <3>2 DEF IdInv, AskAt, Following
      <4>3. seen[w].state \in Ended /\ state[rid[i]] = seen[w].state
        BY <3>2, <4>2 DEF AnswerInv, AnswerAt, Following, Ending
      <4> QED
        BY <3>2, <4>1, <4>2, <4>3 DEF Ended
    <3> QED
      BY <1>2, <3>1, <3>2, StatusMoves
  <2>2. Settled(i)' /\ rid'[i] = rid[i] /\ state'[rid[i]] = state[rid[i]]
    BY <1>0, <2>1, SettledStays
  <2> QED
    BY <2>1, <2>2
<1>3. \A w \in Workers : pc'[w] = "finish" => Settled(it[w])'
  BY <1>1
<1> QED
  BY <1>2, <1>3 DEF EndInv

(* What holds of the answers, the fills and the ends. *)
LEMMA FillsAlways ==
  ASSUME OneSubmitter
  PROVE  Spec => [](TypeInv /\ IdInv /\ AnswerInv /\ FillInv /\ EndInv)
<1>1. Init => AnswerInv /\ FillInv /\ EndInv
  <2> SUFFICES ASSUME Init PROVE AnswerInv /\ FillInv /\ EndInv
    OBVIOUS
  <2>1. AnswerInv
    BY DEF Init, AnswerInv, AnswerAt, Following, Ending
  <2>2. FillInv
    BY DEF Init, FillInv, Rows
  <2>3. EndInv
    BY DEF Init, EndInv, Terminal
  <2> QED
    BY <2>1, <2>2, <2>3
<1>2. /\ TypeInv /\ IdInv /\ AnswerInv /\ FillInv /\ EndInv
      /\ TypeInv' /\ [Next]_vars
      => AnswerInv' /\ FillInv' /\ EndInv'
  BY AnswerNext, FillNext, EndNext
<1> QED
  BY <1>1, <1>2, TypeAlways, IdAlways, PTL DEF Spec

(* One process submitting, any number reconciling: the fills recorded for  *)
(* an intent are of the order it is followed by and never more than that   *)
(* order has traded.                                                       *)
THEOREM FillsWithinVenue ==
  ASSUME OneSubmitter
  PROVE  Spec => []RecordedWithinVenue
<1>1. TypeInv /\ IdInv /\ FillInv => RecordedWithinVenue
  <2> SUFFICES ASSUME TypeInv, IdInv, FillInv, NEW i \in Intents, Recorded(i) # {}
               PROVE  Followed(i) \in Orders /\ Quantity(i) <= filled[Followed(i)]
    BY DEF RecordedWithinVenue
  <2>1. rid[i] \in Orders /\ Quantity(i) <= filled[rid[i]]
    BY DEF FillInv, Recorded
  <2>2. reason[i] # NoOrder => reason[i] = AsText(rid[i])
    BY DEF IdInv, RowInv
  <2>3. Followed(i) = rid[i]
    BY <2>1, <2>2, OrderFacts DEF Followed, AsText
  <2> QED
    BY <2>1, <2>3
<1> QED
  BY <1>1, FillsAlways, PTL

(* One process submitting, any number reconciling: an intent is filled or  *)
(* canceled only when its order has ended that way and every fill of it is *)
(* recorded and accounted.                                                 *)
THEOREM EndsAccounted ==
  ASSUME OneSubmitter
  PROVE  Spec => []TerminalAccounted
<1>1. TypeInv /\ EndInv => TerminalAccounted
  <2> SUFFICES ASSUME TypeInv, EndInv, NEW i \in Intents, status[i] \in Terminal
               PROVE  /\ Followed(i) \in Orders
                      /\ state[Followed(i)] = IF status[i] = "filled" THEN "closed" ELSE "canceled"
                      /\ Quantity(i) = filled[Followed(i)]
                      /\ Recorded(i) \subseteq booked
    BY DEF TerminalAccounted
  <2>1. /\ Settled(i) /\ reason[i] = rid[i]
        /\ state[rid[i]] = IF status[i] = "filled" THEN "closed" ELSE "canceled"
    BY DEF EndInv
  <2>2. Followed(i) = rid[i]
    BY <2>1 DEF Followed
  <2>3. Recorded(i) \subseteq booked
    BY <2>1 DEF Settled, TypeInv, FillsOK
  <2> QED
    BY <2>1, <2>2, <2>3 DEF Settled
<1> QED
  BY <1>1, FillsAlways, PTL

(* No write changes the status of an intent that has ended. *)
LEMMA StatusStays ==
  ASSUME TypeInv, [Next]_vars, NEW i \in Intents, status[i] \in Terminal
  PROVE  status'[i] = status[i]
<1> USE DEF TypeInv
<1>1. ASSUME NEW w \in Workers, NEW s \in Terminal \cup {"submitted", "partially_filled"}, NEW r \in Remote,
             SetStatus(it[w], s, r)
      PROVE  status'[i] = status[i]
  <2>1. it[w] \in Intents
    BY DEF WorkersOK
  <2> QED
    BY <1>1, <2>1, SetStatusType
<1>2. ASSUME NEW w \in Workers, SetSubmitted(w)
      PROVE  status'[i] = status[i]
  <2>1. AsText(rid[it[w]]) \in Remote
    BY DEF AsText, Remote, StoreOK, WorkersOK
  <2> QED
    BY <1>1, <1>2, <2>1 DEF SetSubmitted
<1>3. ASSUME NEW w \in Workers, FetchTrades(w) \/ Finish(w)
      PROVE  status'[i] = status[i]
  <2>1. seen[w].order \in Remote
    BY DEF WorkersOK, Answers
  <2>2. CASE FetchTrades(w)
    BY <1>1, <2>1, <2>2 DEF FetchTrades
  <2>3. CASE Finish(w)
    BY <1>1, <2>1, <2>3 DEF Finish, Terminal
  <2> QED
    BY <1>3, <2>2, <2>3
<1>4. ASSUME NEW w \in Workers, Submit(w), ~SetSubmitted(w)
      PROVE  UNCHANGED status
  BY <1>4 DEF Submit, Claim, PlaceAccepted, PlaceAmbiguous, PlaceRefused, MarkUnknown, MarkSubmitted
<1>5. ASSUME NEW w \in Workers, Reconcile(w), ~FetchTrades(w), ~Finish(w)
      PROVE  UNCHANGED status
  BY <1>5 DEF Reconcile, RetryCanonicalFills, CompleteReconcileFill, FetchOrder, AddTrade, Close,
     AddSynthetic, Settle, MarkTerminal
<1>6. ASSUME NEW w \in Workers, Crash(w) \/ \E j \in Intents : BeginSubmit(w, j) \/ BeginReconcile(w, j)
      PROVE  UNCHANGED status
  BY <1>6 DEF Crash, BeginSubmit, BeginReconcile
<1>7. ASSUME NEW o \in Orders, TradeUnit(o) \/ EndOrder(o) \/ ListTrades(o) \/ AgeTrades(o)
      PROVE  UNCHANGED status
  BY <1>7 DEF TradeUnit, EndOrder, ListTrades, AgeTrades
<1>8. CASE UNCHANGED vars
  BY <1>8 DEF vars
<1> QED
  BY <1>2, <1>3, <1>4, <1>5, <1>6, <1>7, <1>8 DEF Next

(* reconcile_live, as an action property: no step changes the end of an    *)
(* intent, the order it names or the fills recorded for it.                *)
EndIsFinal ==
  \A i \in Intents : status[i] \in Terminal =>
     status'[i] = status[i] /\ reason'[i] = reason[i] /\ Rows(i)' = Rows(i)

(* One process submitting, any number reconciling: a reconciler that asked *)
(* the venue before another one ended the intent, and goes on with its     *)
(* answer afterwards, adds no fill to it and gives it no other end; nor    *)
(* does a crash or a failing call at any step of either.                   *)
THEOREM EndsAreFinal ==
  ASSUME OneSubmitter
  PROVE  Spec => [][EndIsFinal]_vars
<1> DEFINE I == TypeInv /\ IdInv /\ AnswerInv /\ FillInv /\ EndInv
<1>1. I /\ I' /\ [Next]_vars => [EndIsFinal]_vars
  <2> SUFFICES ASSUME I, I', [Next]_vars, NEW i \in Intents, status[i] \in Terminal
               PROVE  status'[i] = status[i] /\ reason'[i] = reason[i] /\ Rows(i)' = Rows(i)
    BY DEF EndIsFinal
  <2>1. status'[i] = status[i]
    BY StatusStays
  <2>2. Settled(i) /\ reason[i] = rid[i]
    BY DEF EndInv
  <2>3. rid'[i] = rid[i] /\ Rows(i)' = Rows(i)
    BY <2>2, NextGrows, SettledStays
  <2>4. reason'[i] = rid'[i]
    BY <2>1 DEF EndInv
  <2> QED
    BY <2>1, <2>2, <2>3, <2>4
<1> QED
  BY <1>1, FillsAlways, PTL DEF Spec

-----------------------------------------------------------------------------
(* One order.                                                              *)

(* What the row says once an order may be out. *)
Written == {"submitted", "unknown", "terminal"}

(* Where its submitter still has to put that down. *)
Sending == {"unsure", "mark"}

(* What holds of an intent none of whose acceptances was lost: one order   *)
(* at most; if it has it, that shows in its row, or its submitter is about *)
(* to write it there; and when it is about to be sent it has none.         *)
OneOrderAt(i) ==
  /\ \A o \in Orders : o[1] = i /\ o[2] # 1 => state[o] = "none"
  /\ state[<<i, 1>>] # "none" => \/ row[i] \in Written
                                 \/ \E w \in Submitters : pc[w] \in Sending /\ it[w] = i
  /\ \A w \in Workers : pc[w] = "place" /\ it[w] = i => state[<<i, 1>>] = "none"

SecondInv == \A i \in Intents \ lost : OneOrderAt(i)

(* A step that makes no order and leaves no row behind what it was. *)
LEMMA SecondKeeps ==
  ASSUME TypeInv, SecondInv, lost \subseteq lost',
         \A o \in Orders : state[o] = "none" => state'[o] = "none",
         \A i \in Intents : row[i] \in Written => row'[i] \in Written,
         \A w \in Workers : pc'[w] = "place" => \/ pc[w] = "place" /\ it'[w] = it[w]
                                                \/ it'[w] \in lost'
                                                \/ state'[<<it'[w], 1>>] = "none",
         \A w \in Submitters : pc[w] \in Sending => \/ pc'[w] \in Sending /\ it'[w] = it[w]
                                                    \/ it[w] \in lost' \/ OrdersOf(it[w]) = {}
                                                    \/ row'[it[w]] \in Written
  PROVE  SecondInv'
<1> SUFFICES ASSUME NEW i \in Intents, i \notin lost'
             PROVE  OneOrderAt(i)'
  BY DEF SecondInv
<1>0. OneOrderAt(i)
  BY DEF SecondInv
<1>1. <<i, 1>> \in Orders
  BY OrderFacts, ExecutorAssumption
<1>2. ASSUME NEW o \in Orders, o[1] = i, o[2] # 1
      PROVE  state'[o] = "none"
  <2>1. state[o] = "none"
    BY <1>0, <1>2 DEF OneOrderAt
  <2> QED
    BY <2>1
<1>3. ASSUME state'[<<i, 1>>] # "none"
      PROVE  \/ row'[i] \in Written
             \/ \E w \in Submitters : pc'[w] \in Sending /\ it'[w] = i
  <2>1. state[<<i, 1>>] # "none"
    BY <1>1, <1>3
  <2>2. CASE row[i] \in Written
    BY <2>2
  <2>3. ASSUME NEW w \in Submitters, pc[w] \in Sending, it[w] = i
        PROVE  \/ row'[i] \in Written
               \/ pc'[w] \in Sending /\ it'[w] = i
    <3>1. <<i, 1>> \in OrdersOf(i)
      BY <1>1, <2>1, OrderFacts DEF OrdersOf
    <3> QED
      BY <2>3, <3>1
  <2> QED
    BY <1>0, <2>1, <2>2, <2>3 DEF OneOrderAt
<1>4. ASSUME NEW w \in Workers, pc'[w] = "place", it'[w] = i
      PROVE  state'[<<i, 1>>] = "none"
  <2>1. CASE pc[w] = "place" /\ it'[w] = it[w]
    <3>1. state[<<i, 1>>] = "none"
      BY <1>0, <1>4, <2>1 DEF OneOrderAt
    <3> QED
      BY <1>1, <3>1
  <2>2. \/ pc[w] = "place" /\ it'[w] = it[w]
        \/ it'[w] \in lost'
        \/ state'[<<it'[w], 1>>] = "none"
    BY <1>4
  <2> QED
    BY <1>4, <2>1, <2>2
<1> QED
  BY <1>2, <1>3, <1>4 DEF OneOrderAt

(* The venue takes the order of a submitter that stands before the venue:  *)
(* it is the first, and the submitter has yet to write it down.            *)
LEMMA SecondPlaced ==
  ASSUME OneSubmitter, TypeInv, IdInv, SecondInv, lost' = lost,
         NEW w \in Workers, pc[w] = "place", Others(w), pc'[w] # "place",
         NEW o \in Orders, o[1] = it[w], Accept(o),
         pc'[w] \in Sending, it'[w] = it[w],
         \A i \in Intents : row[i] \in Written => row'[i] \in Written
  PROVE  SecondInv'
<1> SUFFICES ASSUME NEW i \in Intents, i \notin lost
             PROVE  OneOrderAt(i)'
  BY DEF SecondInv
<1>0. OneOrderAt(i)
  BY DEF SecondInv
<1>1. <<i, 1>> \in Orders
  BY OrderFacts, ExecutorAssumption
<1>2. w \in Submitters /\ it[w] \in Intents
  BY DEF IdInv, SubmitAt, TypeInv, WorkersOK
<1>3. \A v \in Workers : pc'[v] = "place" => v # w /\ v \notin Submitters /\ pc[v] = "place"
  BY <1>2 DEF Others, OneSubmitter
<1>4. \A v \in Workers : pc'[v] # "place"
  BY <1>3 DEF IdInv, SubmitAt
<1>5. state' = [state EXCEPT ![o] = "open"] /\ state \in [Orders -> {"none", "open", "closed", "canceled"}]
  BY DEF Accept, TypeInv, VenueOK
<1>6. CASE i = it[w]
  <2>1. state[<<i, 1>>] = "none"
    BY <1>0, <1>6 DEF OneOrderAt
  <2>2. o[2] = 1
    <3>1. o[2] \in 1 .. MaxOrders /\ \A n \in 1 .. o[2] - 1 : state[<<i, n>>] # "none"
      BY <1>6, OrderFacts DEF Accept
    <3>2. o[2] # 1 => 1 \in 1 .. o[2] - 1
      BY <3>1, ExecutorAssumption
    <3> QED
      BY <2>1, <3>1, <3>2
  <2>3. ASSUME NEW q \in Orders, q[1] = i, q[2] # 1
        PROVE  state'[q] = "none"
    <3>1. state[q] = "none" /\ q # o
      BY <1>0, <2>2, <2>3 DEF OneOrderAt
    <3> QED
      BY <1>5, <3>1
  <2>4. row'[i] \in Written \/ \E v \in Submitters : pc'[v] \in Sending /\ it'[v] = i
    BY <1>2, <1>6
  <2> QED
    BY <1>4, <2>3, <2>4 DEF OneOrderAt
<1>7. CASE i # it[w]
  <2>1. \A q \in Orders : q[1] = i => state'[q] = state[q]
    BY <1>5, <1>7
  <2>2. state'[<<i, 1>>] = state[<<i, 1>>]
    BY <1>1, <2>1, OrderFacts
  <2>3. \A v \in Submitters : pc[v] \notin Sending
    BY <1>2 DEF OneSubmitter, Sending
  <2>4. state'[<<i, 1>>] # "none" => row'[i] \in Written
    BY <1>0, <2>2, <2>3 DEF OneOrderAt
  <2>5. \A q \in Orders : q[1] = i /\ q[2] # 1 => state'[q] = "none"
    BY <1>0, <2>1 DEF OneOrderAt
  <2> QED
    BY <1>4, <2>4, <2>5 DEF OneOrderAt
<1> QED
  BY <1>6, <1>7

(* The submitter's steps. *)
LEMMA SecondSubmit ==
  ASSUME OneSubmitter, TypeInv, IdInv, SecondInv, NEW w \in Workers, Submit(w)
  PROVE  SecondInv'
<1>0. /\ it[w] \in Intents /\ <<it[w], 1>> \in Orders /\ WorkersOK /\ StoreOK
      /\ row \in [Intents -> {"absent", "created", "submitted", "unknown", "error", "terminal"}]
      /\ pc \in [Workers -> Labels] /\ it \in [Workers -> Intents]
  BY OrderFacts, ExecutorAssumption DEF TypeInv, WorkersOK, StoreOK
<1>1. SubmitAt(w) /\ RowInv
  BY DEF IdInv
<1>2. ASSUME NEW v \in Submitters, pc[w] \in {"claim", "place", "unsure", "mark", "status"}
      PROVE  v = w
  BY <1>1, <1>2 DEF SubmitAt, OneSubmitter
<1>3. CASE Claim(w)
  <2>1. /\ \A v \in Workers \ {w} : pc'[v] = pc[v] /\ it'[v] = it[v]
        /\ pc'[w] = "place" => it'[w] = it[w] /\ row[it[w]] \notin Written
    <3>1. row[it[w]] = "terminal" => rid[it[w]] # NoOrder
      BY <1>0, <1>1 DEF RowInv
    <3> QED
      BY <1>0, <1>3, <3>1, LeaveType, LeaveAlone DEF Claim, Stay, Goto, Others, Written
  <2>2. pc[w] = "claim"
    BY <1>3 DEF Claim
  <2>3. \A v \in Submitters : pc[v] \notin Sending
    BY <1>2, <2>2 DEF Sending
  <2>4. pc'[w] = "place" => it'[w] \in lost \/ state[<<it'[w], 1>>] = "none"
    BY <1>0, <2>1, <2>3 DEF SecondInv, OneOrderAt
  <2>5. lost' = lost /\ state' = state
    BY <1>3 DEF Claim
  <2>6. \A i \in Intents : row[i] \in Written => row'[i] \in Written
    BY <1>0, <1>3 DEF Claim, Written
  <2>7. \A v \in Workers : pc'[v] = "place" => \/ pc[v] = "place" /\ it'[v] = it[v]
                                               \/ it'[v] \in lost'
                                               \/ state'[<<it'[v], 1>>] = "none"
    BY <2>1, <2>4, <2>5
  <2> QED
    BY <2>3, <2>5, <2>6, <2>7, SecondKeeps
<1>4. CASE PlaceAccepted(w)
  <2>1. PICK o \in Orders : o[1] = it[w] /\ Accept(o)
    BY <1>4 DEF PlaceAccepted
  <2>2. /\ pc[w] = "place" /\ pc'[w] = "mark" /\ it'[w] = it[w]
        /\ Others(w) /\ lost' = lost /\ row' = row
    BY <1>0, <1>4 DEF PlaceAccepted, Goto, Others, WorkersOK
  <2> QED
    BY <2>1, <2>2, SecondPlaced DEF Sending
<1>5. CASE PlaceAmbiguous(w)
  <2>1. /\ pc[w] = "place" /\ pc'[w] = "unsure" /\ it'[w] = it[w]
        /\ Others(w) /\ lost' = lost /\ row' = row
    BY <1>0, <1>5, StayType DEF PlaceAmbiguous, Labels
  <2>2. CASE UNCHANGED venue
    <3>1. state' = state
      BY <2>2
    <3>2. \A v \in Workers : pc'[v] = "place" => pc[v] = "place" /\ it'[v] = it[v]
      BY <2>1 DEF Others
    <3>3. \A v \in Submitters : pc[v] \notin Sending
      BY <1>2, <2>1 DEF Sending
    <3> QED
      BY <2>1, <3>1, <3>2, <3>3, SecondKeeps
  <2>3. ASSUME NEW o \in Orders, o[1] = it[w], Accept(o)
        PROVE  SecondInv'
    BY <2>1, <2>3, SecondPlaced DEF Sending
  <2> QED
    BY <1>5, <2>2, <2>3 DEF PlaceAmbiguous
<1>9. CASE MarkUnknown(w)
  <2>1. pc[w] = "unsure" /\ pc'[w] = "idle" /\ Others(w) /\ state' = state
    BY <1>0, <1>9, LeaveType, LeaveAlone DEF MarkUnknown
  <2>2. \A v \in Workers : pc'[v] = "place" => pc[v] = "place" /\ it'[v] = it[v]
    BY <2>1 DEF Others
  <2>3. lost \subseteq lost' /\ \A i \in Intents : row[i] \in Written => row'[i] \in Written
    BY <1>0, <1>9, LoseType DEF MarkUnknown, Mark, Written, TypeInv
  <2>4. it[w] \in lost' \/ OrdersOf(it[w]) = {} \/ row'[it[w]] \in Written
    BY <1>0, <1>9, LoseType DEF MarkUnknown, Mark, Written, TypeInv
  <2>5. \A v \in Submitters : pc[v] \in Sending => v = w
    BY <1>2, <2>1
  <2> QED
    BY <2>1, <2>2, <2>3, <2>4, <2>5, SecondKeeps
<1>6. CASE PlaceRefused(w)
  <2>1. pc[w] = "place" /\ pc'[w] = "idle" /\ Others(w) /\ lost' = lost /\ state' = state
    BY <1>0, <1>6, LeaveType, LeaveAlone DEF PlaceRefused
  <2>2. \A v \in Workers : pc'[v] = "place" => pc[v] = "place" /\ it'[v] = it[v]
    BY <2>1 DEF Others
  <2>3. \A v \in Submitters : pc[v] \notin Sending
    BY <1>2, <2>1 DEF Sending
  <2>4. row[it[w]] \notin Written
    BY <1>1, <2>1 DEF SubmitAt, Written
  <2>5. \A i \in Intents : row[i] \in Written => row'[i] \in Written
    BY <1>0, <1>6, <2>4 DEF PlaceRefused, Mark
  <2> QED
    BY <2>1, <2>2, <2>3, <2>5, SecondKeeps
<1>7. CASE MarkSubmitted(w)
  <2>1. pc[w] = "mark" /\ pc'[w] # "place" /\ Others(w) /\ state' = state
    BY <1>0, <1>7, LeaveType, LeaveAlone DEF MarkSubmitted, Stay, Goto, Others, WorkersOK
  <2>7. lost \subseteq lost'
    BY <1>0, <1>7, LoseType DEF MarkSubmitted, TypeInv
  <2>2. \A v \in Workers : pc'[v] = "place" => pc[v] = "place" /\ it'[v] = it[v]
    BY <2>1 DEF Others
  <2>3. row[it[w]] \notin Written
    BY <1>1, <2>1 DEF SubmitAt, Written
  <2>4. \A i \in Intents : row[i] \in Written => row'[i] \in Written
    BY <1>0, <1>7, <2>3 DEF MarkSubmitted, Mark
  <2>5. it[w] \in lost' \/ OrdersOf(it[w]) = {} \/ row'[it[w]] \in Written
    BY <1>0, <1>7, LoseType DEF MarkSubmitted, Mark, Written, TypeInv
  <2>6. \A v \in Submitters : pc[v] \in Sending => v = w
    BY <1>2, <2>1
  <2> QED
    BY <2>1, <2>2, <2>4, <2>5, <2>6, <2>7, SecondKeeps
<1>8. CASE SetSubmitted(w)
  <2>1. pc[w] = "status" /\ pc'[w] = "idle" /\ Others(w) /\ lost' = lost /\ state' = state /\ row' = row
    BY <1>0, <1>8, LeaveType, LeaveAlone DEF SetSubmitted
  <2>2. \A v \in Workers : pc'[v] = "place" => pc[v] = "place" /\ it'[v] = it[v]
    BY <2>1 DEF Others
  <2>3. \A v \in Submitters : pc[v] \notin Sending
    BY <1>2, <2>1 DEF Sending
  <2> QED
    BY <2>1, <2>2, <2>3, SecondKeeps
<1> QED
  BY <1>3, <1>4, <1>5, <1>6, <1>7, <1>8, <1>9 DEF Submit

(* No other step makes an order or takes a row back. *)
LEMMA SecondNext ==
  ASSUME OneSubmitter, TypeInv, IdInv, SecondInv, [Next]_vars
  PROVE  SecondInv'
<1>0. /\ \A w \in Workers : it[w] \in Intents
      /\ WorkersOK /\ VenueOK /\ Submitters \subseteq Workers
      /\ row \in [Intents -> {"absent", "created", "submitted", "unknown", "error", "terminal"}]
      /\ pc \in [Workers -> Labels] /\ it \in [Workers -> Intents]
  BY ExecutorAssumption DEF TypeInv, WorkersOK, StoreOK
<1>1. ASSUME NEW w \in Workers, NEW i \in Intents, BeginSubmit(w, i) \/ BeginReconcile(w, i)
      PROVE  SecondInv'
  <2>1. pc[w] = "idle" /\ pc'[w] # "place" /\ Others(w) /\ lost' = lost /\ state' = state /\ row' = row
    BY <1>0, <1>1 DEF BeginSubmit, BeginReconcile, Goto, Others, WorkersOK
  <2>2. \A v \in Workers : pc[v] \in Sending => pc'[v] \in Sending /\ it'[v] = it[v]
    BY <2>1 DEF Others, Sending
  <2>3. \A v \in Workers : pc'[v] = "place" => pc[v] = "place" /\ it'[v] = it[v]
    BY <2>1 DEF Others
  <2> QED
    BY <1>0, <2>1, <2>2, <2>3, SecondKeeps
<1>2. ASSUME NEW w \in Workers, Reconcile(w)
      PROVE  SecondInv'
  <2>1. pc[w] \notin {"unsure", "mark", "place"} /\ pc'[w] # "place" /\ Others(w)
    <3>1. pc[w] \notin {"unsure", "mark", "place"}
      BY <1>2 DEF Reconcile, RetryCanonicalFills, CompleteReconcileFill, FetchOrder, FetchTrades,
                  AddTrade, Close, AddSynthetic, Settle, Finish, MarkTerminal
    <3>2. CASE FetchOrder(w)
      <4>1. AskAt(w)
        BY DEF IdInv
      <4> QED
        BY <1>0, <3>1, <3>2, <4>1, Fetched, LeaveType, LeaveAlone
    <3>3. CASE ~FetchOrder(w)
      BY <1>2, <3>1, <3>3, ReconcileGoesOn DEF GoesOn
    <3> QED
      BY <3>2, <3>3
  <2>2. lost' = lost /\ state' = state
    BY <1>2 DEF Reconcile, RetryCanonicalFills, CompleteReconcileFill, FetchOrder, FetchTrades,
                AddTrade, Close, AddSynthetic, Settle, Finish, MarkTerminal
  <2>3. \A i \in Intents : row[i] \in Written => row'[i] \in Written
    <3>1. row' = row \/ row' = [row EXCEPT ![it[w]] = IF @ = "absent" THEN @ ELSE "terminal"]
      BY <1>2 DEF Reconcile, RetryCanonicalFills, CompleteReconcileFill, FetchOrder, FetchTrades,
                  AddTrade, Close, AddSynthetic, Settle, Finish, MarkTerminal
    <3> QED
      BY <1>0, <3>1 DEF Written
  <2>4. \A v \in Workers : pc[v] \in Sending => pc'[v] \in Sending /\ it'[v] = it[v]
    BY <2>1 DEF Others, Sending
  <2>5. \A v \in Workers : pc'[v] = "place" => pc[v] = "place" /\ it'[v] = it[v]
    BY <2>1 DEF Others
  <2> QED
    BY <1>0, <2>2, <2>3, <2>4, <2>5, SecondKeeps
<1>3. ASSUME NEW w \in Workers, Crash(w)
      PROVE  SecondInv'
  <2>1. /\ pc'[w] = "idle" /\ Others(w) /\ state' = state /\ row' = row
        /\ lost \subseteq lost'
        /\ pc[w] \in Sending => it[w] \in lost' \/ OrdersOf(it[w]) = {}
    BY <1>0, <1>3, LeaveType, LeaveAlone, LoseType DEF Crash, Sending, TypeInv
  <2>2. \A v \in Workers : pc[v] \in Sending => \/ pc'[v] \in Sending /\ it'[v] = it[v]
                                               \/ it[v] \in lost' \/ OrdersOf(it[v]) = {}
    BY <2>1 DEF Others
  <2>3. \A v \in Workers : pc'[v] = "place" => pc[v] = "place" /\ it'[v] = it[v]
    BY <2>1 DEF Others
  <2> QED
    BY <1>0, <2>1, <2>2, <2>3, SecondKeeps
<1>4. ASSUME NEW o \in Orders, TradeUnit(o) \/ EndOrder(o) \/ ListTrades(o) \/ AgeTrades(o)
      PROVE  SecondInv'
  <2>1. pc' = pc /\ it' = it /\ lost' = lost /\ row' = row
    BY <1>4 DEF TradeUnit, EndOrder, ListTrades, AgeTrades
  <2>2. \A q \in Orders : state[q] = "none" => state'[q] = "none"
    BY <1>0, <1>4 DEF TradeUnit, EndOrder, ListTrades, AgeTrades, VenueOK
  <2> QED
    BY <2>1, <2>2, SecondKeeps
<1>5. CASE UNCHANGED vars
  BY <1>5, SecondKeeps DEF vars
<1> QED
  BY <1>1, <1>2, <1>3, <1>4, <1>5, SecondSubmit DEF Next

(* One process submitting: an intent has a second order at the venue only  *)
(* after the acceptance of the first was not written down.                 *)
THEOREM OneOrder ==
  ASSUME OneSubmitter
  PROVE  Spec => []SecondOrderNeedsLoss
<1>1. Init => SecondInv
  <2>1. \A i \in Intents : <<i, 1>> \in Orders
    BY OrderFacts, ExecutorAssumption
  <2>2. Init => \A o \in Orders : state[o] = "none"
    BY DEF Init
  <2> QED
    BY <2>1, <2>2 DEF SecondInv, OneOrderAt
<1>2. TypeInv /\ IdInv /\ SecondInv /\ [Next]_vars => SecondInv'
  BY SecondNext
<1>3. SecondInv => SecondOrderNeedsLoss
  <2> SUFFICES ASSUME SecondInv, NEW i \in Intents, i \notin lost
               PROVE  ~(Cardinality(OrdersOf(i)) > 1)
    BY DEF SecondOrderNeedsLoss
  <2>1. OrdersOf(i) \subseteq {<<i, 1>>}
    <3>1. \A o \in Orders : o[1] = i /\ o[2] # 1 => state[o] = "none"
      BY DEF SecondInv, OneOrderAt
    <3>2. ASSUME NEW o \in OrdersOf(i)
          PROVE  o = <<i, 1>>
      <4>1. o \in Orders /\ o[1] = i /\ o[2] = 1
        BY <3>1, <3>2 DEF OrdersOf
      <4> QED
        BY <4>1, OrderFacts
    <3> QED
      BY <3>2
  <2>2. IsFiniteSet({<<i, 1>>}) /\ Cardinality({<<i, 1>>}) = 1
    BY FS_Singleton
  <2>3. IsFiniteSet(OrdersOf(i)) /\ Cardinality(OrdersOf(i)) <= Cardinality({<<i, 1>>})
    BY <2>1, <2>2, FS_Subset
  <2>4. Cardinality(OrdersOf(i)) \in Nat
    BY <2>3, FS_CardinalityType
  <2> QED
    BY <2>2, <2>3, <2>4
<1> QED
  BY <1>1, <1>2, <1>3, TypeAlways, IdAlways, PTL DEF Spec

=============================================================================
