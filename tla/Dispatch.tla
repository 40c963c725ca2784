------------------------------ MODULE Dispatch ------------------------------
(***************************************************************************)
(* Finding a rider for a delivery: DispatchCoordinator, DispatchPipeline,  *)
(* DeliveryOfferService and AssignmentService (deliveries/dispatch/).      *)
(*                                                                         *)
(* A handler that runs inside transaction.atomic is one action.  A call of *)
(* DispatchCoordinator.dispatch does not: it is made from an on_commit     *)
(* hook or from a request, in autocommit, so each of its statements        *)
(* commits on its own and the call is a sequence of steps of a Worker      *)
(* (a request thread or a Celery process) that interleaves with everything *)
(* else.  The row lock it asks for at its first statement is gone when     *)
(* that statement ends.                                                    *)
(***************************************************************************)
EXTENDS Integers, FiniteSets, Scoring

CONSTANTS
    Deliveries,       \* the deliveries that may be created
    Riders,           \* users with role RIDER
    Offers,           \* identities for DeliveryOffer rows (bounds their number)
    Workers,          \* threads and processes that can run dispatch()
    NoRider,          \* the rider of an assignment row that does not exist
    NoDelivery,       \* the delivery of an offer row that does not exist
    Distance,         \* [Deliveries -> [Riders -> Nat]], rider to pickup
    InitialRadius,    \* DispatchConfiguration.initial_search_radius_km
    Increment,        \* ....search_radius_increment_km
    MaximumRadius,    \* ....maximum_search_radius_km
    MaxActive,        \* ....maximum_active_deliveries
    Strategy,         \* ....dispatch_strategy
    AutoRedispatch,   \* ....auto_redispatch
    RowLocks,         \* the backend executes FOR UPDATE (PostgreSQL: TRUE,
                      \* the SQLite of config/test_settings.py: FALSE)
    Crashes           \* whether a worker may die in the middle of dispatch()

ASSUME ConfigurationAssumption ==
    /\ NoRider \notin Riders
    /\ NoDelivery \notin Deliveries
    /\ Distance \in [Deliveries -> [Riders -> Nat]]
    /\ InitialRadius \in Nat \ {0}
    /\ Increment \in Nat \ {0}
    /\ MaximumRadius \in Nat /\ MaximumRadius >= InitialRadius
    /\ MaxActive \in Nat \ {0}
    /\ Strategy \in Strategies
    /\ AutoRedispatch \in BOOLEAN /\ RowLocks \in BOOLEAN /\ Crashes \in BOOLEAN

VARIABLES
    delivery,     \* Delivery.status, or "ABSENT" before the row exists
    assignment,   \* the one DeliveryAssignment row of each delivery
    offer,        \* the DeliveryOffer rows
    profile,      \* RiderProfile: online (fit to be matched) and available
    worker        \* what each worker is doing

vars == <<delivery, assignment, offer, profile, worker>>

-----------------------------------------------------------------------------
\* Statuses, as in models/delivery.py, delivery_offer.py, delivery_assignment.py

DeliveryStatus == {"PENDING", "WAITING_FOR_RIDER", "RIDER_ASSIGNED",
    "RIDER_ACCEPTED", "PICKED_UP", "IN_TRANSIT", "DELIVERED", "CANCELLED", "FAILED"}

OfferStatus == {"PENDING", "ACCEPTED", "REJECTED", "EXPIRED", "CANCELLED"}

ActiveStatus == {"ASSIGNED", "ACCEPTED", "EN_ROUTE_PICKUP", "ARRIVED_PICKUP",
    "PICKED_UP", "OUT_FOR_DELIVERY", "ARRIVED_DESTINATION"}

AdminCancellable == {"ASSIGNED", "ACCEPTED", "EN_ROUTE_PICKUP", "ARRIVED_PICKUP"}

\* is_dispatch_terminal and TERMINAL_DELIVERY_STATUSES are the same set.
Terminal == {"DELIVERED", "CANCELLED", "FAILED"}

Assignable == {"PENDING", "WAITING_FOR_RIDER"}

\* The statuses from which the pipeline moves a delivery to WAITING_FOR_RIDER.
Dispatchable == {"PENDING", "WAITING_FOR_RIDER", "FAILED"}

AssignmentRows ==
    [status : ActiveStatus \cup {"NONE", "COMPLETED", "CANCELLED"},
     rider : Riders \cup {NoRider}, active : BOOLEAN]

OfferRows ==
    [status : OfferStatus \cup {"FREE"}, delivery : Deliveries \cup {NoDelivery},
     rider : Riders \cup {NoRider}, late : BOOLEAN]

\* "dispatch": about to read the delivery; "waiting": about to write
\* WAITING_FOR_RIDER; "match": about to query riders; "offer": trying candidates.
WorkerStates ==
    [pc : {"idle", "dispatch", "waiting", "match", "offer"},
     delivery : Deliveries \cup {NoDelivery},
     seen : DeliveryStatus \cup {"NONE"},
     excluded : SUBSET Riders, radius : 0..MaximumRadius, ranked : SUBSET Riders]

NoAssignment == [status |-> "NONE", rider |-> NoRider, active |-> FALSE]
FreeOffer == [status |-> "FREE", delivery |-> NoDelivery, rider |-> NoRider, late |-> FALSE]
Idle == [pc |-> "idle", delivery |-> NoDelivery, seen |-> "NONE", excluded |-> {},
         radius |-> 0, ranked |-> {}]

Init ==
    /\ delivery = [d \in Deliveries |-> "ABSENT"]
    /\ assignment = [d \in Deliveries |-> NoAssignment]
    /\ offer = [o \in Offers |-> FreeOffer]
    /\ profile = [r \in Riders |-> [online |-> TRUE, available |-> TRUE]]
    /\ worker = [w \in Workers |-> Idle]

-----------------------------------------------------------------------------
\* Queries

Pending(o) == offer[o].status = "PENDING"

OffersOf(d) == {o \in Offers : offer[o].delivery = d}

\* _get_excluded_rider_ids: every rider ever offered this delivery.
Excluded(d) == {offer[o].rider : o \in OffersOf(d)}

\* An assignment counts against its rider while it is active in an active status.
Carries(r, d) ==
    /\ assignment[d].rider = r
    /\ assignment[d].active
    /\ assignment[d].status \in ActiveStatus

Workload(r) == Cardinality({d \in Deliveries : Carries(r, d)})

\* Mutant: no backend can execute the lock.
NoLockAtAll == FALSE

\* Every lock of a delivery row is select_for_update().select_related(...) over
\* the nullable vendor and pickup_store: an outer join, which a backend that
\* executes FOR UPDATE refuses (and outside a transaction Django refuses it first).
CanLockDelivery == ~RowLocks

\* DeliveryOfferService._validate_delivery
CanReceiveOffer(d) ==
    /\ delivery[d] \in Assignable
    /\ \/ assignment[d].status = "NONE"
       \/ assignment[d].status = "CANCELLED" /\ delivery[d] = "WAITING_FOR_RIDER"

\* RiderEligibilityService.get_available_riders; the workload is counted by status.
Available(excluded) ==
    {r \in Riders :
        /\ profile[r].online
        /\ profile[r].available
        /\ Cardinality({d \in Deliveries : /\ assignment[d].rider = r
                                           /\ assignment[d].status \in ActiveStatus}) < MaxActive
        /\ r \notin excluded}

-----------------------------------------------------------------------------
\* Offers withdrawn in bulk by AssignmentService

\* Mutant: competing offers are left alone.
WithdrawnNone(d, keep) == offer

\* Mutant: the bulk update lost its status filter.
WithdrawnAny(d, keep) ==
    [o \in Offers |->
        IF offer[o].delivery = d /\ offer[o].rider \notin keep
        THEN [offer[o] EXCEPT !.status = "CANCELLED"] ELSE offer[o]]

Withdrawn(d, keep) ==
    [o \in Offers |->
        IF Pending(o) /\ offer[o].delivery = d /\ offer[o].rider \notin keep
        THEN [offer[o] EXCEPT !.status = "CANCELLED"] ELSE offer[o]]

\* _set_rider_availability_if_free, after d has stopped being r's assignment.
FreedBy(r, d) ==
    IF \E e \in Deliveries \ {d} : Carries(r, e)
    THEN profile ELSE [profile EXCEPT ![r].available = TRUE]

-----------------------------------------------------------------------------
\* Entering dispatch()

StartDispatch(w, d) ==
    worker' = [worker EXCEPT ![w] = [Idle EXCEPT !.pc = "dispatch", !.delivery = d]]

\* delivery_created: the row is committed, then its on_commit hook dispatches it.
DeliveryCreated(w, d) ==
    /\ delivery[d] = "ABSENT"
    /\ worker[w].pc = "idle"
    /\ delivery' = [delivery EXCEPT ![d] = "PENDING"]
    /\ StartDispatch(w, d)
    /\ UNCHANGED <<assignment, offer, profile>>

\* TriggerDispatchView and DispatchDeliveryView: staff dispatch any delivery.
StaffDispatch(w, d) ==
    /\ delivery[d] # "ABSENT"
    /\ worker[w].pc = "idle"
    /\ StartDispatch(w, d)
    /\ UNCHANGED <<delivery, assignment, offer, profile>>

\* The worker goes on to _redispatch_after_offer once its transaction committed.
Redispatch(w, d) ==
    IF AutoRedispatch THEN StartDispatch(w, d) ELSE UNCHANGED worker

\* dispatch(): the delivery and the excluded riders are read; the "lock" of the
\* first read ends with it.  A terminal delivery, or a lock that raises, ends the call.
DispatchRead(w) ==
    LET d == worker[w].delivery
    IN  /\ worker[w].pc = "dispatch"
        /\ worker' = [worker EXCEPT ![w] =
                IF CanLockDelivery /\ delivery[d] \notin Terminal
                THEN [@ EXCEPT !.pc = "waiting", !.seen = delivery[d], !.excluded = Excluded(d)]
                ELSE Idle]
        /\ UNCHANGED <<delivery, assignment, offer, profile>>

\* _set_delivery_waiting_for_rider decides on the instance read before and saves
\* only the status column: whatever was committed in between is overwritten.
SetDeliveryWaitingForRider(w) ==
    /\ worker[w].pc = "waiting"
    /\ IF worker[w].seen \in Dispatchable
       THEN /\ delivery' = [delivery EXCEPT ![worker[w].delivery] = "WAITING_FOR_RIDER"]
            /\ worker' = [worker EXCEPT ![w].pc = "match", ![w].radius = InitialRadius]
       ELSE /\ worker' = [worker EXCEPT ![w] = Idle]
            /\ UNCHANGED delivery
    /\ UNCHANGED <<assignment, offer, profile>>

\* _rank_matches.  A strategy that raises ends the call: run() turns any exception
\* into a failed result, and the delivery stays WAITING_FOR_RIDER without an offer.
Ranked(call, matches) ==
    IF CanScore(Strategy)
    THEN [call EXCEPT !.pc = "offer", !.ranked = matches]
    ELSE Idle

\* Mutant: the maximum radius is not searched.
FindMatchesShort(w) ==
    LET matches == {r \in Available(worker[w].excluded) :
                        Distance[worker[w].delivery][r] <= worker[w].radius}
        next    == worker[w].radius + Increment
    IN  /\ worker[w].pc = "match"
        /\ worker' = [worker EXCEPT ![w] =
                IF matches # {} THEN Ranked(@, matches)
                ELSE IF next < MaximumRadius THEN [@ EXCEPT !.radius = next] ELSE Idle]
        /\ UNCHANGED <<delivery, assignment, offer, profile>>

\* Mutant: the radius grows past the maximum.
FindMatchesFar(w) ==
    LET matches == {r \in Available(worker[w].excluded) :
                        Distance[worker[w].delivery][r] <= worker[w].radius}
    IN  /\ worker[w].pc = "match"
        /\ worker' = [worker EXCEPT ![w] =
                IF matches # {} THEN Ranked(@, matches)
                ELSE IF @.radius <= MaximumRadius THEN [@ EXCEPT !.radius = @ + Increment] ELSE Idle]
        /\ UNCHANGED <<delivery, assignment, offer, profile>>

\* One turn of the loop of _find_matches, a query of its own: the available riders
\* within the current radius, or the next radius while it is at most the maximum,
\* or NoAvailableRider, which ends the call.
FindMatches(w) ==
    LET matches == {r \in Available(worker[w].excluded) :
                        Distance[worker[w].delivery][r] <= worker[w].radius}
        next    == worker[w].radius + Increment
    IN  /\ worker[w].pc = "match"
        /\ worker' = [worker EXCEPT ![w] =
                IF matches # {} THEN Ranked(@, matches)
                ELSE IF next <= MaximumRadius THEN [@ EXCEPT !.radius = next] ELSE Idle]
        /\ UNCHANGED <<delivery, assignment, offer, profile>>

\* r is the next of the ranked riders; riders at the same distance come in any order.
NextRanked(w, r) ==
    LET km == Distance[worker[w].delivery]
    IN  /\ r \in worker[w].ranked
        /\ \A other \in worker[w].ranked : ~Precedes(km[other], km[r])

\* Mutant: create does not look for a pending offer to the same rider.
CreateOfferTwice(w, r, o) ==
    LET d == worker[w].delivery
    IN  /\ worker[w].pc = "offer"
        /\ NextRanked(w, r)
        /\ Workload(r) < MaxActive
        /\ CanReceiveOffer(d)
        /\ offer[o].status = "FREE"
        /\ offer' = [offer EXCEPT ![o] =
                [status |-> "PENDING", delivery |-> d, rider |-> r, late |-> FALSE]]
        /\ worker' = [worker EXCEPT ![w] = Idle]
        /\ UNCHANGED <<delivery, assignment, profile>>

\* One turn of _offer_first_rider.  The rider instance was loaded by FindMatches,
\* so is_eligible re-reads only the workload; DeliveryOfferService.create locks and
\* validates the delivery afresh.  The row identities in Offers bound the number of
\* offers.
CreateOffer(w, r, o) ==
    LET d == worker[w].delivery
    IN  /\ worker[w].pc = "offer"
        /\ NextRanked(w, r)
        /\ Workload(r) < MaxActive
        /\ CanReceiveOffer(d)
        /\ ~ \E p \in OffersOf(d) : Pending(p) /\ offer[p].rider = r
        /\ offer[o].status = "FREE"
        /\ offer' = [offer EXCEPT ![o] =
                [status |-> "PENDING", delivery |-> d, rider |-> r, late |-> FALSE]]
        /\ worker' = [worker EXCEPT ![w] = Idle]
        /\ UNCHANGED <<delivery, assignment, profile>>

\* The other turn: the rider became ineligible or the offer was refused
\* (InvalidOfferState), and the next ranked rider is tried.
ExcludeRider(w, r) ==
    LET d == worker[w].delivery
    IN  /\ worker[w].pc = "offer"
        /\ NextRanked(w, r)
        /\ \/ Workload(r) >= MaxActive
           \/ ~CanReceiveOffer(d)
           \/ \E p \in OffersOf(d) : Pending(p) /\ offer[p].rider = r
        /\ worker' = [worker EXCEPT ![w].ranked = @ \ {r}]
        /\ UNCHANGED <<delivery, assignment, offer, profile>>

\* NoAvailableRider: the delivery stays as it is and nobody tries again.
NoRiderRemains(w) ==
    /\ worker[w].pc = "offer"
    /\ worker[w].ranked = {}
    /\ worker' = [worker EXCEPT ![w] = Idle]
    /\ UNCHANGED <<delivery, assignment, offer, profile>>

\* The process dies; what it had not written is lost, and no task re-runs it.
Crash(w) ==
    /\ Crashes
    /\ worker[w].pc # "idle"
    /\ worker' = [worker EXCEPT ![w] = Idle]
    /\ UNCHANGED <<delivery, assignment, offer, profile>>

-----------------------------------------------------------------------------
\* The answers to an offer

\* expires_at passes.
DeadlinePasses(o) ==
    /\ Pending(o) /\ ~offer[o].late
    /\ offer' = [offer EXCEPT ![o].late = TRUE]
    /\ UNCHANGED <<delivery, assignment, profile, worker>>

\* Mutant: assign trusts what the dispatch found out about the rider.
RiderAssignableOnline(r, d) == profile[r].online

\* _ensure_rider_assignable
RiderAssignable(r, d) ==
    /\ profile[r].online
    /\ profile[r].available
    /\ ~ \E e \in Deliveries \ {d} : Carries(r, e)

\* The part of AssignmentService.assign that looks at the assignment row.
RowAssignable(d) ==
    IF assignment[d].status = "NONE"
    THEN delivery[d] \in Assignable
    ELSE /\ delivery[d] = "WAITING_FOR_RIDER"
         /\ assignment[d].status = "CANCELLED"
         /\ ~assignment[d].active

\* Mutant: the rider is assigned but the offer is not marked ACCEPTED.
AcceptOfferUnmarked(o) ==
    LET d == offer[o].delivery
        r == offer[o].rider
    IN  /\ Pending(o) /\ ~offer[o].late
        /\ CanReceiveOffer(d) /\ RowAssignable(d) /\ RiderAssignable(r, d)
        /\ assignment' = [assignment EXCEPT ![d] =
                [status |-> "ASSIGNED", rider |-> r, active |-> TRUE]]
        /\ profile' = [profile EXCEPT ![r].available = FALSE]
        /\ delivery' = [delivery EXCEPT ![d] = "RIDER_ASSIGNED"]
        /\ offer' = Withdrawn(d, {r})
        /\ UNCHANGED worker

\* _accept_offer: the offer is accepted and the rider assigned in one transaction,
\* so if the assignment is refused the offer stays PENDING.
AcceptOffer(o) ==
    LET d == offer[o].delivery
        r == offer[o].rider
    IN  /\ Pending(o) /\ ~offer[o].late
        /\ CanLockDelivery
        /\ delivery[d] \notin Terminal
        /\ CanReceiveOffer(d)
        /\ RowAssignable(d)
        /\ RiderAssignable(r, d)
        /\ assignment' = [assignment EXCEPT ![d] =
                [status |-> "ASSIGNED", rider |-> r, active |-> TRUE]]
        /\ profile' = [profile EXCEPT ![r].available = FALSE]
        /\ delivery' = [delivery EXCEPT ![d] = "RIDER_ASSIGNED"]
        /\ offer' = [Withdrawn(d, {r}) EXCEPT ![o].status = "ACCEPTED"]
        /\ UNCHANGED worker

\* _reject_offer, then redispatch.
RejectOffer(w, o) ==
    /\ worker[w].pc = "idle"
    /\ Pending(o) /\ ~offer[o].late
    /\ CanLockDelivery
    /\ offer' = [offer EXCEPT ![o].status = "REJECTED"]
    /\ Redispatch(w, offer[o].delivery)
    /\ UNCHANGED <<delivery, assignment, profile>>

\* Mutant: the comparison with expires_at is inverted.
ExpireOfferEarly(w, o) ==
    /\ worker[w].pc = "idle"
    /\ Pending(o) /\ ~offer[o].late
    /\ offer' = [offer EXCEPT ![o].status = "EXPIRED"]
    /\ Redispatch(w, offer[o].delivery)
    /\ UNCHANGED <<delivery, assignment, profile>>

\* offer_expired, called by the expire_stale_offers sweep (every 60 s), by the
\* expire_delivery_offer task, by the management command or by staff.
ExpireOffer(w, o) ==
    /\ worker[w].pc = "idle"
    /\ Pending(o) /\ offer[o].late
    /\ CanLockDelivery
    /\ offer' = [offer EXCEPT ![o].status = "EXPIRED"]
    /\ Redispatch(w, offer[o].delivery)
    /\ UNCHANGED <<delivery, assignment, profile>>

\* cancel_offer: nothing is redispatched.  Its lock joins no nullable column.
CancelOffer(o) ==
    /\ Pending(o) /\ ~offer[o].late
    /\ offer' = [offer EXCEPT ![o].status = "CANCELLED"]
    /\ UNCHANGED <<delivery, assignment, profile, worker>>

-----------------------------------------------------------------------------
\* The assignment lifecycle (AssignmentService)

\* The shape of a lifecycle step: both rows are locked, the assignment must be
\* active in status `from` and the delivery in `dfrom`.
Advance(d, from, dfrom, to, dto) ==
    /\ CanLockDelivery
    /\ assignment[d].status = from
    /\ assignment[d].active
    /\ delivery[d] = dfrom
    /\ assignment' = [assignment EXCEPT ![d].status = to]
    /\ delivery' = [delivery EXCEPT ![d] = dto]
    /\ UNCHANGED <<offer, profile, worker>>

AcceptAssignment(d) ==
    Advance(d, "ASSIGNED", "RIDER_ASSIGNED", "ACCEPTED", "RIDER_ACCEPTED")
StartPickup(d) ==
    Advance(d, "ACCEPTED", "RIDER_ACCEPTED", "EN_ROUTE_PICKUP", "RIDER_ACCEPTED")
ArrivePickup(d) ==
    Advance(d, "EN_ROUTE_PICKUP", "RIDER_ACCEPTED", "ARRIVED_PICKUP", "RIDER_ACCEPTED")
PickupCompleted(d) ==
    Advance(d, "ARRIVED_PICKUP", "RIDER_ACCEPTED", "PICKED_UP", "PICKED_UP")

\* Mutant: the delivery row is not updated with the assignment.
StartDeliveryAlone(d) ==
    Advance(d, "PICKED_UP", "PICKED_UP", "OUT_FOR_DELIVERY", "PICKED_UP")

StartDelivery(d) ==
    Advance(d, "PICKED_UP", "PICKED_UP", "OUT_FOR_DELIVERY", "IN_TRANSIT")
ArriveDestination(d) ==
    Advance(d, "OUT_FOR_DELIVERY", "IN_TRANSIT", "ARRIVED_DESTINATION", "IN_TRANSIT")

Complete(d) ==
    /\ CanLockDelivery
    /\ assignment[d].status = "ARRIVED_DESTINATION"
    /\ assignment[d].active
    /\ delivery[d] = "IN_TRANSIT"
    /\ assignment' = [assignment EXCEPT ![d].status = "COMPLETED", ![d].active = FALSE]
    /\ delivery' = [delivery EXCEPT ![d] = "DELIVERED"]
    /\ profile' = FreedBy(assignment[d].rider, d)
    /\ UNCHANGED <<offer, worker>>

\* Mutant: the rider is not made available again.
CancelByAdminBusy(d) ==
    /\ assignment[d].active
    /\ assignment[d].status \in AdminCancellable
    /\ delivery[d] \notin Terminal
    /\ assignment' = [assignment EXCEPT ![d].status = "CANCELLED", ![d].active = FALSE]
    /\ delivery' = [delivery EXCEPT ![d] = "CANCELLED"]
    /\ offer' = Withdrawn(d, {})
    /\ UNCHANGED <<profile, worker>>

CancelByAdmin(d) ==
    /\ CanLockDelivery
    /\ assignment[d].active
    /\ assignment[d].status \in AdminCancellable
    /\ delivery[d] \notin Terminal
    /\ assignment' = [assignment EXCEPT ![d].status = "CANCELLED", ![d].active = FALSE]
    /\ delivery' = [delivery EXCEPT ![d] = "CANCELLED"]
    /\ profile' = FreedBy(assignment[d].rider, d)
    /\ offer' = Withdrawn(d, {})
    /\ UNCHANGED worker

\* No dispatch follows: the delivery waits until staff dispatch it.
RestartCancelledAssignment(d) ==
    /\ CanLockDelivery
    /\ assignment[d].status = "CANCELLED"
    /\ ~assignment[d].active
    /\ delivery[d] = "CANCELLED"
    /\ offer' = Withdrawn(d, {})
    /\ delivery' = [delivery EXCEPT ![d] = "WAITING_FOR_RIDER"]
    /\ UNCHANGED <<assignment, profile, worker>>

\* cancel_fulfillment without an active assignment.  With one it delegates to
\* cancel_by_admin (and raises when that does), which is CancelByAdmin.
CancelFulfillment(d) ==
    /\ delivery[d] \notin {"ABSENT", "DELIVERED", "CANCELLED"}
    /\ CanLockDelivery
    /\ ~assignment[d].active
    /\ delivery' = [delivery EXCEPT ![d] = "CANCELLED"]
    /\ offer' = Withdrawn(d, {})
    /\ UNCHANGED <<assignment, profile, worker>>

\* Not in src/: the rider's device or staff change whether the rider is matched.
ToggleOnline(r) ==
    /\ profile' = [profile EXCEPT ![r].online = ~@]
    /\ UNCHANGED <<delivery, assignment, offer, worker>>

-----------------------------------------------------------------------------
DispatchStep(w) ==
    \/ DispatchRead(w)
    \/ SetDeliveryWaitingForRider(w)
    \/ FindMatches(w)
    \/ \E r \in Riders : \/ \E o \in Offers : CreateOffer(w, r, o)
                         \/ ExcludeRider(w, r)
    \/ NoRiderRemains(w)

OfferStep(o) ==
    \/ DeadlinePasses(o)
    \/ AcceptOffer(o)
    \/ CancelOffer(o)
    \/ \E w \in Workers : RejectOffer(w, o) \/ ExpireOffer(w, o)

LifecycleStep(d) ==
    \/ AcceptAssignment(d)
    \/ StartPickup(d)
    \/ ArrivePickup(d)
    \/ PickupCompleted(d)
    \/ StartDelivery(d)
    \/ ArriveDestination(d)
    \/ Complete(d)
    \/ CancelByAdmin(d)
    \/ RestartCancelledAssignment(d)
    \/ CancelFulfillment(d)

Next ==
    \/ \E w \in Workers : DispatchStep(w) \/ Crash(w)
    \/ \E w \in Workers, d \in Deliveries : DeliveryCreated(w, d) \/ StaffDispatch(w, d)
    \/ \E o \in Offers : OfferStep(o)
    \/ \E d \in Deliveries : LifecycleStep(d)
    \/ \E r \in Riders : ToggleOnline(r)

Spec == Init /\ [][Next]_vars

\* A running dispatch() goes on; time passes; and the sweep, which Celery beat
\* starts every 60 seconds, finds an idle process again and again.
Fairness ==
    /\ \A w \in Workers : WF_vars(DispatchStep(w))
    /\ \A o \in Offers :
        /\ WF_vars(DeadlinePasses(o))
        /\ SF_vars(\E w \in Workers : ExpireOffer(w, o))

FairSpec == Spec /\ Fairness

-----------------------------------------------------------------------------
\* Invariants

\* Every row and every dispatch() in progress has the shape the models give it.
TypeOK ==
    /\ delivery \in [Deliveries -> DeliveryStatus \cup {"ABSENT"}]
    /\ assignment \in [Deliveries -> AssignmentRows]
    /\ offer \in [Offers -> OfferRows]
    /\ profile \in [Riders -> [online : BOOLEAN, available : BOOLEAN]]
    /\ worker \in [Workers -> WorkerStates]

\* The rows fit together.  is_active stands exactly beside the active statuses, so
\* the workload counted by status alone (get_available_riders) and the one counted
\* by both (is_eligible, assign) are the same number; only a row that exists names
\* a rider; and offers and running dispatches are for deliveries that exist.
RowsLinked ==
    /\ \A d \in Deliveries :
        /\ assignment[d].active <=> assignment[d].status \in ActiveStatus
        /\ assignment[d].rider = NoRider <=> assignment[d].status = "NONE"
    /\ \A o \in Offers :
        offer[o].status # "FREE" =>
            /\ offer[o].delivery \in Deliveries /\ delivery[offer[o].delivery] # "ABSENT"
            /\ offer[o].rider \in Riders
    /\ \A o \in Offers : offer[o].status = "FREE" => offer[o].delivery = NoDelivery
    /\ \A w \in Workers :
        worker[w].pc # "idle" =>
            worker[w].delivery \in Deliveries /\ delivery[worker[w].delivery] # "ABSENT"

\* A rider never holds two active assignments, however many offers for different
\* deliveries were pending and accepted at once (_ensure_rider_assignable).
OneActiveAssignmentPerRider ==
    \A r \in Riders : \A d, e \in Deliveries :
        Carries(r, d) /\ Carries(r, e) => d = e

\* is_available, the flag assign clears and complete and cancel set again, says
\* exactly whether the rider carries a delivery: nobody stays blocked, nobody is
\* matched while busy.
RiderAvailability ==
    \A r \in Riders :
        profile[r].available <=> \A d \in Deliveries : ~Carries(r, d)

\* An offer a rider can still answer is for a delivery nobody carries, although
\* offers of several dispatch() calls can be pending together.
PendingOfferOpen ==
    \A o \in Offers : Pending(o) => CanReceiveOffer(offer[o].delivery)

\* The partial unique constraint (delivery, rider, PENDING) is never what stops
\* a second offer: the check under create's lock is enough.
OnePendingOfferPerRider ==
    \A o, p \in Offers :
        /\ Pending(o) /\ Pending(p)
        /\ offer[o].delivery = offer[p].delivery
        /\ offer[o].rider = offer[p].rider
        => o = p

\* A rider carries only a delivery he was offered and accepted.
AssignmentAccepted ==
    \A d \in Deliveries : assignment[d].active =>
        \E o \in OffersOf(d) :
            offer[o].status = "ACCEPTED" /\ offer[o].rider = assignment[d].rider

\* What _update_delivery_status keeps beside each active assignment status.
StatusBeside ==
    [ASSIGNED |-> "RIDER_ASSIGNED", ACCEPTED |-> "RIDER_ACCEPTED",
     EN_ROUTE_PICKUP |-> "RIDER_ACCEPTED", ARRIVED_PICKUP |-> "RIDER_ACCEPTED",
     PICKED_UP |-> "PICKED_UP", OUT_FOR_DELIVERY |-> "IN_TRANSIT",
     ARRIVED_DESTINATION |-> "IN_TRANSIT"]

\* A dispatch() that read the delivery before the assignment writes WAITING_FOR_RIDER
\* over it; apart from that no other status ever stands beside an active assignment.
StatusesInStepOrReset ==
    \A d \in Deliveries : assignment[d].active =>
        delivery[d] \in {StatusBeside[assignment[d].status], "WAITING_FOR_RIDER"}

-----------------------------------------------------------------------------
\* Action properties

\* An answered offer is never answered again or made pending again, and keeps its
\* delivery and rider ("An offer can never return to PENDING", offer.py:72).
AnsweredOfferIsFinal ==
    [][\A o \in Offers : offer[o].status \notin {"FREE", "PENDING"}
            => offer'[o] = offer[o]]_vars

\* The one assignment row is reused only after the explicit restart
\* (assignment.py:36-50): no other step takes a cancelled delivery out of CANCELLED.
ReuseOnlyAfterRestart ==
    [][\A d \in Deliveries :
            /\ assignment[d].status = "CANCELLED" /\ delivery[d] = "CANCELLED"
            /\ delivery'[d] # "CANCELLED"
            => RestartCancelledAssignment(d)]_vars

\* Riders are allocated as RiderAllocation promises.
Allocation == INSTANCE RiderAllocation WITH
    carrier <- [d \in Deliveries |->
                    IF assignment[d].active THEN assignment[d].rider ELSE NoRider],
    finished <- {d \in Deliveries : assignment[d].status = "COMPLETED"}

AllocationSpec == Allocation!Spec

-----------------------------------------------------------------------------
\* Liveness

\* A created delivery does not stay PENDING: somebody starts looking for a rider.
CreatedIsDispatched ==
    \A d \in Deliveries : delivery[d] = "PENDING" ~> delivery[d] # "PENDING"

\* The radii searched, in order: initial, initial + increment, ... <= maximum.
Radii == {r \in InitialRadius..MaximumRadius : (r - InitialRadius) % Increment = 0}

\* r can be found for d: fit, free and within a radius that is searched, and d is
\* looking for a rider without anyone having withdrawn an offer.
Findable(d, r) ==
    /\ profile[r].online /\ profile[r].available
    /\ \E radius \in Radii : Distance[d][r] <= radius
    /\ delivery[d] \in {"ABSENT"} \cup Assignable
    /\ assignment[d].status = "NONE"
    /\ \A o \in OffersOf(d) : offer[o].status # "CANCELLED"

\* As long as nobody takes the delivery, the expiry sweep and the redispatch it
\* starts get to every rider who can be found, the nearest radius first.
EveryRiderIsTried ==
    \A d \in Deliveries, r \in Riders :
        []Findable(d, r) /\ <>(delivery[d] # "ABSENT") => <>(r \in Excluded(d))

\* A pending offer is answered or expires; none blocks its delivery for ever.
OfferIsClosed ==
    \A o \in Offers : Pending(o) ~> ~Pending(o)

=============================================================================
