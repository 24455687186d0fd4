-------------------------- MODULE IntentLifecycle --------------------------
(***************************************************************************)
(* What the live intent queue promises about one intent, whoever writes    *)
(* it: a row is inserted as queued, it moves only along the transition     *)
(* table of intent_lifecycle.py, and it disappears only when an            *)
(* administrator deletes it. LiveSubmit implements this, and PaperPath,    *)
(* whose queue shares the table; FillReconcile's rows take its steps.      *)
(***************************************************************************)
EXTENDS IntentStatus

CONSTANT Intents

VARIABLE status

TypeOK == status \in [Intents -> RowStatuses]

Init == status = [i \in Intents |-> "absent"]

Insert(i) == /\ status[i] = "absent"
             /\ status' = [status EXCEPT ![i] = "queued"]

Move(i, t) == /\ status[i] \in Statuses
              /\ TransitionAllowed(status[i], t)
              /\ status' = [status EXCEPT ![i] = t]

Delete(i) == status' = [status EXCEPT ![i] = "absent"]

(* claim_next_queued moves a whole batch in one transaction. *)
ClaimBatch(S) == /\ \A i \in S : status[i] = "queued"
                 /\ status' = [i \in Intents |-> IF i \in S THEN "submitting" ELSE status[i]]

Next == \/ \E i \in Intents : \/ Insert(i)
                              \/ Delete(i)
                              \/ \E t \in Statuses : Move(i, t)
        \/ \E S \in SUBSET Intents : ClaimBatch(S)

Spec == Init /\ [][Next]_status
=============================================================================
