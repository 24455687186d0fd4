---------------------------- MODULE FillContract ----------------------------
(***************************************************************************)
(* What CanonicalFillSink.on_fill promises a deliverer: a fill is first in *)
(* the journal, then in the accounts (daily total and loss streak), and ok *)
(* is answered only for a fill that is in both, or whose daily total       *)
(* failed without the deliverer being told; nothing ever leaves them.      *)
(* A call may end between the two, with a journal row and no accounts.     *)
(* FillSink implements this; FillReconcile is built on it.                 *)
(***************************************************************************)
CONSTANT Fills

VARIABLES journaled, accounted, swallowed, acked

sinkVars == <<journaled, accounted, swallowed, acked>>

Init ==
  /\ journaled \in SUBSET Fills
  /\ accounted = {}
  /\ swallowed = {}
  /\ acked = {}

(* canonical_fills gets a row. *)
Journal(f) ==
  /\ journaled' = journaled \cup {f}
  /\ UNCHANGED <<accounted, swallowed, acked>>

(* Fills enter the accounts without an answer to anybody: a delivery that  *)
(* ends before its answer, the cutover, the repair script.                 *)
Account(S) ==
  /\ S \subseteq journaled
  /\ accounted' = accounted \cup S
  /\ UNCHANGED <<journaled, swallowed, acked>>

(* apply_fill_once rolls back, logs and answers False. *)
Swallow(f) ==
  /\ f \in journaled
  /\ swallowed' = swallowed \cup {f}
  /\ UNCHANGED <<journaled, accounted, acked>>

(* The delivery is answered ok. *)
Answer(f) ==
  /\ f \in journaled
  /\ accounted' \in {accounted, accounted \cup {f}}
  /\ f \in accounted' \cup swallowed
  /\ acked' = acked \cup {f}
  /\ UNCHANGED <<journaled, swallowed>>

Next ==
  \/ \E f \in Fills : Journal(f) \/ Swallow(f) \/ Answer(f)
  \/ \E S \in SUBSET Fills : Account(S)

Spec == Init /\ [][Next]_sinkVars
=============================================================================
