-------------------------- MODULE RequestLifecycle --------------------------
(***************************************************************************)
(* What a viewer is told about a request: it is pending until one decision *)
(* is taken, a declined request may be reconsidered, an approved one can   *)
(* only become available, and available is the end.  Only two managers who *)
(* decide about it at once may overrule each other, or what was fulfilled  *)
(* meanwhile.                                                              *)
(***************************************************************************)
EXTENDS Naturals

CONSTANT Requests                 \* the ids of the rows

VARIABLES status,                 \* the status column, "absent" = no such row
          contested               \* the rows that two managers decide about at once

RequestStatus == {"absent", "pending", "approved", "declined", "available"}

Init ==
    /\ status = [r \in Requests |-> "absent"]
    /\ contested = {}

Move(r, from, to) ==
    /\ status[r] \in from
    /\ status' = [status EXCEPT ![r] = to]

(* A request is stored as pending or, auto-approved, as approved.          *)
Submit(r) == \E s \in {"pending", "approved"} : Move(r, {"absent"}, s)
Approve(r) == Move(r, {"pending", "declined"}, "approved")
Decline(r) == Move(r, {"pending"}, "declined")

(* The later of two decisions stands, whatever came before it.             *)
Overrule(r) ==
    /\ r \in contested
    /\ \E s \in {"approved", "declined"} : Move(r, RequestStatus \ {"absent"}, s)

(* One pass may fulfil several requests at once.                           *)
Fulfil ==
    \E done \in SUBSET {r \in Requests : status[r] = "approved"} :
        status' = [r \in Requests |-> IF r \in done THEN "available" ELSE status[r]]

(* A manager looks at a row, or has answered.                              *)
Look ==
    /\ contested' \subseteq Requests
    /\ UNCHANGED status

Next ==
    \/ (\E r \in Requests : Submit(r) \/ Approve(r) \/ Decline(r) \/ Overrule(r))
         /\ contested' \subseteq contested
    \/ Fulfil /\ UNCHANGED contested
    \/ Look

Spec == Init /\ [][Next]_<<status, contested>>
=============================================================================
