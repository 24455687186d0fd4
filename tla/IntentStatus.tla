---------------------------- MODULE IntentStatus ----------------------------
(***************************************************************************)
(* The statuses of a live intent and the three places that decide which    *)
(* change of status is legal:                                              *)
(*   - the table LIVE_QUEUE_STATUS_TRANSITIONS of intent_lifecycle.py;     *)
(*   - the two authority checks made on the caller's COPY of the row       *)
(*     (submit owner and reconciler) before the store is called;           *)
(*   - the WHERE clause of LiveIntentQueueSQLite.update_status, made on    *)
(*     the row itself inside BEGIN IMMEDIATE.                              *)
(* normalize_live_queue_status has nothing to do here: every status in     *)
(* the model is already lower case. "cancelled" (a legacy spelling nobody  *)
(* writes) is folded into "canceled". "absent" says that the table has no  *)
(* row with this intent_id.                                                *)
(***************************************************************************)

TerminalStatuses == {"filled", "canceled", "rejected", "error", "expired"}

LiveStatuses == {"queued", "submitting", "submitted", "submit_unknown", "held"}

Statuses == TerminalStatuses \cup LiveStatuses

RowStatuses == Statuses \cup {"absent"}

(* LIVE_QUEUE_STATUS_TRANSITIONS *)
StatusTransitions(s) ==
  CASE s = "queued"         -> {"queued", "submitting", "submitted", "rejected",
                                "held", "submit_unknown", "expired"}
    [] s = "submitting"     -> {"submitted", "rejected", "submit_unknown", "expired"}
    [] s = "submitted"      -> {"submitted", "filled", "canceled", "rejected",
                                "error", "held"}
    [] s = "submit_unknown" -> {"submitted", "rejected", "error"}
    [] s = "held"           -> {"queued", "rejected"}
    [] OTHER                -> {}

(* live_queue_transition_allowed *)
TransitionAllowed(s, t) == s = t \/ t \in StatusTransitions(s)

(* validate_submit_owner_live_queue_transition *)
SubmitOwnerMay(s, t) ==
  /\ t \in {"queued", "submitting", "submitted", "rejected", "submit_unknown", "expired"}
  /\ s \in {"queued", "submitting"}

(* validate_reconciler_live_queue_transition *)
ReconcilerMay(s, t) ==
  \/ s = "submitted" /\ t \in {"submitted", "filled", "canceled", "rejected", "error"}
  \/ s = "submit_unknown" /\ t \in {"submitted", "error"}

(* The WHERE clause of update_status: it matches no row that is absent or  *)
(* terminal, and else the listed pairs or a rewrite of the same status.    *)
SqlAllows(s, t) ==
  /\ s \in LiveStatuses
  /\ \/ s = t
     \/ s = "queued" /\ t \in {"submitting", "submitted", "rejected", "held",
                               "submit_unknown", "expired"}
     \/ s = "submitting" /\ t \in {"submitted", "rejected", "submit_unknown", "expired"}
     \/ s = "submitted" /\ t \in {"filled", "canceled", "rejected", "error", "held"}
     \/ s = "submit_unknown" /\ t \in {"submitted", "rejected", "error"}
     \/ s = "held" /\ t \in {"queued", "rejected"}
=============================================================================
