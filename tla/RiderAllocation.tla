--------------------------- MODULE RiderAllocation ---------------------------
(***************************************************************************)
(* What dispatching promises, whatever offers, races and retries it takes: *)
(* a rider carries at most one delivery at a time, a delivery is carried   *)
(* by at most one rider, and a delivery that was carried to its end is     *)
(* never given to a rider again (deliveries/dispatch/assignment.py).       *)
(***************************************************************************)
CONSTANTS Deliveries, Riders, NoRider

VARIABLES
    carrier,   \* the rider who carries each delivery, or NoRider
    finished   \* the deliveries that were carried to their end

Init ==
    /\ carrier = [d \in Deliveries |-> NoRider]
    /\ finished = {}

Free(r) == \A d \in Deliveries : carrier[d] # r

Allocate(d, r) ==
    /\ carrier[d] = NoRider
    /\ d \notin finished
    /\ Free(r)
    /\ carrier' = [carrier EXCEPT ![d] = r]
    /\ UNCHANGED finished

\* Taken back from the rider: the delivery may be allocated again.
Release(d) ==
    /\ carrier[d] # NoRider
    /\ carrier' = [carrier EXCEPT ![d] = NoRider]
    /\ UNCHANGED finished

Finish(d) ==
    /\ carrier[d] # NoRider
    /\ carrier' = [carrier EXCEPT ![d] = NoRider]
    /\ finished' = finished \cup {d}

Next ==
    \E d \in Deliveries :
        \/ \E r \in Riders : Allocate(d, r)
        \/ Release(d)
        \/ Finish(d)

Spec == Init /\ [][Next]_<<carrier, finished>>

=============================================================================
