--------------------------- MODULE UploadLifecycle ---------------------------
(***************************************************************************)
(* What the database rows of a process's uploads promise to someone who    *)
(* only reads them: statuses follow validTransitions, a recorded part is   *)
(* forgotten by nothing but a cancellation, and COMPLETED is only written  *)
(* over a row that records every part.  UploadService is shown to          *)
(* implement it for a careful client.                                      *)
(***************************************************************************)
EXTENDS UploadDomain

CONSTANTS Files, Parts

VARIABLES
  status,   \* status of each upload, "ABSENT" before it is created
  saved     \* parts recorded in each upload's row

lifeVars == <<status, saved>>

Init == /\ status = [f \in Files |-> "ABSENT"]
        /\ saved = [f \in Files |-> {}]

Move(f, next) == status' = [status EXCEPT ![f] = next]

Create(f) == /\ status[f] = "ABSENT"
             /\ Move(f, "PENDING")
             /\ UNCHANGED saved

\* A transition, with whatever parts were collected since the last write.
Transition(f) ==
  \E next \in Status \ {"CANCELLED"}, parts \in SUBSET Parts :
    /\ status[f] \in Status
    /\ CanTransitionTo(status[f], next)
    /\ saved[f] \subseteq parts
    /\ next = "COMPLETED" => parts = Parts
    /\ Move(f, next)
    /\ saved' = [saved EXCEPT ![f] = parts]

Record(f) ==
  \E parts \in SUBSET Parts :
    /\ status[f] = "IN_PROGRESS"
    /\ saved[f] \subseteq parts
    /\ saved' = [saved EXCEPT ![f] = parts]
    /\ UNCHANGED status

Cancel(f) == /\ status[f] \in Status
             /\ CanTransitionTo(status[f], "CANCELLED")
             /\ Move(f, "CANCELLED")
             /\ saved' = [saved EXCEPT ![f] = {}]

Next == \E f \in Files : Create(f) \/ Transition(f) \/ Record(f) \/ Cancel(f)

Spec == Init /\ [][Next]_lifeVars

=============================================================================
