--------------------------- MODULE ConsentRegistry ---------------------------
(***************************************************************************)
(* What the store of one process promises: a registry of units that enters *)
(* each unit once, privately, and then changes one unit at a time, to what *)
(* a human decides.  Restarts and overlapping requests do not show.        *)
(***************************************************************************)
EXTENDS Naturals

CONSTANTS Units

VARIABLE status

Absent == "absent"

Init == status = [u \in Units |-> Absent]

Enter(u) ==
    /\ status[u] = Absent
    /\ status' = [status EXCEPT ![u] = "private"]

Decide(u) ==
    /\ status[u] # Absent
    /\ \E s \in {"memory_approved", "training_approved", "rejected"} :
          status' = [status EXCEPT ![u] = s]

Next == \E u \in Units : Enter(u) \/ Decide(u)

Spec == Init /\ [][Next]_status
=============================================================================
