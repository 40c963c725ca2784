---------------------------- MODULE Fulfillment ----------------------------
(***************************************************************************)
(* Preparing and handing over what one store sells in an order:            *)
(* OrderFulfillmentService (order/services/order_fulfillment_service.py)   *)
(* on top of dispatching.                                                  *)
(*                                                                         *)
(* A fulfillment has at most one Delivery (a OneToOneField), so both are   *)
(* named by the same element of Deliveries, and the deliveries are those   *)
(* of the fulfillments of one order.  Every step either is a step of       *)
(* Dispatch, possibly with its cascade into the fulfillment, or leaves the *)
(* variables of Dispatch alone.  Every method is transaction.atomic and    *)
(* locks the fulfillment first, hence one action.                          *)
(***************************************************************************)
EXTENDS Dispatch

CONSTANTS
    Boxes,            \* identities for the packages of a fulfillment
    ItemCount,        \* order items of each fulfillment
    OtpMaxAttempts    \* OTP_MAX_ATTEMPTS

ASSUME FulfillmentAssumption ==
    ItemCount \in Nat \ {0} /\ OtpMaxAttempts \in Nat \ {0}

VARIABLES
    fulfillment,  \* OrderFulfillment: status, OTP issued?, attempts, items
                  \* that are still PENDING
    package,      \* Package.status of each box, or "ABSENT"
    order,        \* Order: paid, status
    wrong         \* wrong OTPs submitted; not in the database, counted to OtpMaxAttempts

preparation == <<fulfillment, package, order, wrong>>
allVars == <<vars, preparation>>

FulfillmentStatus == {"PENDING", "PROCESSING", "PACKING", "READY_FOR_DISPATCH",
    "DISPATCHED", "OUT_FOR_DELIVERY", "DELIVERED", "CANCELLED", "FAILED"}

TerminalFulfillment == {"DELIVERED", "CANCELLED", "FAILED"}

PackageStatus == {"ABSENT", "CREATED", "PACKING", "PACKED", "READY_FOR_PICKUP", "DELIVERED"}

\* No code sets CANCELLED or FAILED.
OrderStatus == {"PENDING", "CONFIRMED", "PROCESSING", "READY_FOR_DISPATCH",
    "OUT_FOR_DELIVERY", "DELIVERED"}

NewFulfillment ==
    [status |-> "PENDING", otp |-> FALSE, attempts |-> 0, pending |-> ItemCount]

FulfillmentInit ==
    /\ Init
    /\ fulfillment = [f \in Deliveries |-> NewFulfillment]
    /\ package = [f \in Deliveries |-> [b \in Boxes |-> "ABSENT"]]
    /\ order = [paid |-> FALSE, status |-> "PENDING"]
    /\ wrong = [f \in Deliveries |-> 0]

-----------------------------------------------------------------------------
\* Helpers

Status(f) == fulfillment[f].status

Move(f, to) == fulfillment' = [fulfillment EXCEPT ![f].status = to]

\* ABSENT boxes are no rows.
Existing(f) == {b \in Boxes : package[f][b] # "ABSENT"}

Preparing == {"PROCESSING", "PACKING"}

\* Mutant: a fulfillment that failed does not count either.
RecalculatedIgnoringFailed(rows) ==
    IF {rows[f].status : f \in Deliveries} \ {"CANCELLED", "FAILED"} = {"DELIVERED"}
    THEN "DELIVERED" ELSE order.status

\* _update_order_status: the first rule that applies to the statuses of the
\* fulfillments that are not cancelled; if none does the order keeps its status.
Recalculated(rows) ==
    LET active == {rows[f].status : f \in Deliveries} \ {"CANCELLED"}
    IN  IF active = {"DELIVERED"} THEN "DELIVERED"
        ELSE IF "OUT_FOR_DELIVERY" \in active THEN "OUT_FOR_DELIVERY"
        ELSE IF "DISPATCHED" \in active THEN "PROCESSING"
        ELSE IF "READY_FOR_DISPATCH" \in active THEN "READY_FOR_DISPATCH"
        ELSE IF active \cap Preparing # {} THEN "PROCESSING"
        ELSE IF "PENDING" \in active THEN "PENDING"
        ELSE order.status

RecalculateOrder == order' = [order EXCEPT !.status = Recalculated(fulfillment')]

-----------------------------------------------------------------------------
\* Payment and preparation

\* _settle_order_payment, the part that concerns the order.
OrderPaid ==
    /\ ~order.paid
    /\ order' = [paid |-> TRUE,
                 status |-> IF order.status = "PENDING" THEN "CONFIRMED" ELSE order.status]
    /\ UNCHANGED <<vars, fulfillment, package, wrong>>

StartProcessing(f) ==
    /\ Status(f) = "PENDING"
    /\ order.paid
    /\ Move(f, "PROCESSING")
    /\ UNCHANGED <<vars, package, order, wrong>>

StartPacking(f) ==
    /\ Status(f) = "PROCESSING"
    /\ order.paid
    /\ Move(f, "PACKING")
    /\ UNCHANGED <<vars, package, order, wrong>>

SetPackage(f, b, to) ==
    /\ package' = [package EXCEPT ![f][b] = to]
    /\ UNCHANGED <<vars, fulfillment, order, wrong>>

\* Mutant: the status of the fulfillment is not checked.
CreatePackageAnytime(f, b) ==
    /\ package[f][b] = "ABSENT"
    /\ order.paid
    /\ SetPackage(f, b, "CREATED")

CreatePackage(f, b) ==
    /\ package[f][b] = "ABSENT"
    /\ Status(f) \in Preparing
    /\ order.paid
    /\ SetPackage(f, b, "CREATED")

StartPackagePacking(f, b) ==
    /\ package[f][b] = "CREATED"
    /\ Status(f) \in Preparing
    /\ SetPackage(f, b, "PACKING")

\* Whatever the fulfillment's status is.
MarkPackagePacked(f, b) ==
    /\ package[f][b] \in {"CREATED", "PACKING"}
    /\ SetPackage(f, b, "PACKED")

\* What mark_ready_for_dispatch does once its checks have passed: the fulfillment
\* moves on and its delivery is created.
ReadyForDispatch(w, f) ==
    /\ order.paid
    /\ Existing(f)' # {}
    /\ \A b \in Existing(f)' : package'[f][b] = "READY_FOR_PICKUP"
    /\ Move(f, "READY_FOR_DISPATCH")
    /\ DeliveryCreated(w, f)

MarkReadyForDispatch(w, f) ==
    /\ Status(f) \in Preparing
    /\ UNCHANGED <<package, order, wrong>>
    /\ ReadyForDispatch(w, f)

\* mark_package_ready, and _maybe_auto_ready_for_dispatch when this was the last
\* package of a fulfillment being packed.  Creating the delivery may fail (price,
\* destination); the exception is swallowed and the package stays ready.
MarkPackageReady(w, f, b) ==
    /\ package[f][b] = "PACKED"
    /\ package' = [package EXCEPT ![f][b] = "READY_FOR_PICKUP"]
    /\ UNCHANGED <<order, wrong>>
    /\ \/ Status(f) = "PACKING" /\ ReadyForDispatch(w, f)
       \/ UNCHANGED <<vars, fulfillment>>

-----------------------------------------------------------------------------
\* The cascades of AssignmentService; one that is refused is logged and swallowed

\* Mutant: the cascade asks for a rider who has accepted already.
MarkDispatchedLate(f) ==
    IF Status(f) = "READY_FOR_DISPATCH" /\ delivery'[f] = "RIDER_ACCEPTED"
    THEN Move(f, "DISPATCHED")
    ELSE UNCHANGED fulfillment

\* mark_dispatched
MarkDispatched(f) ==
    IF Status(f) = "READY_FOR_DISPATCH" /\ delivery'[f] \in {"RIDER_ASSIGNED", "RIDER_ACCEPTED"}
    THEN Move(f, "DISPATCHED")
    ELSE UNCHANGED fulfillment

AcceptOfferCascading(o) ==
    /\ AcceptOffer(o)
    /\ MarkDispatched(offer[o].delivery)
    /\ UNCHANGED <<package, order, wrong>>

\* Mutant: the fulfillment goes out without a code.
MarkOutForDeliverySilently(f) ==
    IF Status(f) = "DISPATCHED" THEN Move(f, "OUT_FOR_DELIVERY") ELSE UNCHANGED fulfillment

\* _ensure_delivery_otp
WithOtp(row) == IF row.otp THEN row ELSE [row EXCEPT !.otp = TRUE, !.attempts = 0]

\* mark_out_for_delivery
MarkOutForDelivery(f) ==
    IF Status(f) = "DISPATCHED"
    THEN fulfillment' = [fulfillment EXCEPT ![f] =
            [WithOtp(fulfillment[f]) EXCEPT !.status = "OUT_FOR_DELIVERY"]]
    ELSE UNCHANGED fulfillment

StartDeliveryCascading(f) ==
    /\ StartDelivery(f)
    /\ MarkOutForDelivery(f)
    /\ UNCHANGED <<package, order, wrong>>

-----------------------------------------------------------------------------
\* Handing over

\* The checks of verify_delivery_otp before it compares the codes.
OtpExpected(f) ==
    /\ assignment[f].active
    /\ Status(f) = "OUT_FOR_DELIVERY"
    /\ fulfillment[f].attempts < OtpMaxAttempts
    /\ fulfillment[f].otp

\* verify_delivery_otp with the wrong code: the row saved with one attempt more is
\* rolled back by the ValueError that leaves the transaction.atomic method.
SubmitWrongOtp(f) ==
    /\ OtpExpected(f)
    /\ wrong[f] < OtpMaxAttempts
    /\ wrong' = [wrong EXCEPT ![f] = @ + 1]
    /\ UNCHANGED <<vars, fulfillment, package, order>>

\* verify_delivery_otp with the right code.
VerifyDeliveryOtp(f) ==
    /\ OtpExpected(f)
    /\ Complete(f)
    /\ package' = [package EXCEPT ![f] =
            [b \in Boxes |-> IF b \in Existing(f) THEN "DELIVERED" ELSE "ABSENT"]]
    /\ fulfillment' = [fulfillment EXCEPT ![f].status = "DELIVERED", ![f].otp = FALSE]
    /\ RecalculateOrder
    /\ UNCHANGED wrong

\* CompleteDeliveryView calls AssignmentService.complete and nothing else.
CompleteDirectly(f) == Complete(f) /\ UNCHANGED preparation

-----------------------------------------------------------------------------
\* Giving up

Closed(f, status) ==
    [fulfillment[f] EXCEPT !.status = status, !.otp = FALSE, !.attempts = 0]

\* AssignmentService.cancel_fulfillment finds nothing to cancel.
NothingToCancel(f) == delivery[f] \in {"ABSENT", "DELIVERED", "CANCELLED"}

\* Mutant: a delivered fulfillment can be cancelled.
CancelAnything(f) ==
    /\ Status(f) # "CANCELLED"
    /\ fulfillment' = [fulfillment EXCEPT ![f] = Closed(f, "CANCELLED")]
    /\ NothingToCancel(f)
    /\ UNCHANGED <<vars, package, order, wrong>>

\* cancel, by staff.  If cancel_fulfillment raises (the rider has picked up)
\* everything is rolled back.  The order is not recalculated.
Cancel(f) ==
    /\ Status(f) \notin {"DELIVERED", "CANCELLED"}
    /\ fulfillment' = [fulfillment EXCEPT ![f] = Closed(f, "CANCELLED")]
    /\ \/ NothingToCancel(f) /\ UNCHANGED vars
       \/ ~NothingToCancel(f) /\ CancelByAdmin(f)
       \/ CancelFulfillment(f)
    /\ UNCHANGED <<package, order, wrong>>

\* Mutant: the delivery row alone is cancelled.
CancelDeliveryOfFailedAlone(f) ==
    IF NothingToCancel(f) THEN UNCHANGED vars
    ELSE /\ delivery' = [delivery EXCEPT ![f] = "CANCELLED"]
         /\ UNCHANGED <<assignment, offer, profile, worker>>

\* The delivery of a fulfillment that failed.  A vendor is no staff member, so
\* with an active assignment cancel_by_admin raises; the exception is swallowed.
CancelDeliveryOfFailed(f) ==
    IF CanLockDelivery /\ ~NothingToCancel(f) /\ ~assignment[f].active
    THEN CancelFulfillment(f)
    ELSE UNCHANGED vars

\* Mutant: an item that is not pending any more is marked once more.
VendorCannotFulfillAgain(f, n) ==
    /\ Status(f) \notin TerminalFulfillment
    /\ fulfillment' = [fulfillment EXCEPT ![f].pending = @ - n]
    /\ UNCHANGED <<vars, package, order, wrong>>

\* vendor_cannot_fulfill with n items that are still pending; 0 when another request
\* marked them between this one's reading and its lock.  Nothing ever makes an item
\* FULFILLED.  What it refunds is in Settlement; a refund that raises (no wallet) takes the
\* whole call back.
VendorCannotFulfill(f, n) ==
    LET pending == fulfillment[f].pending - n
        marked  == [fulfillment[f] EXCEPT !.pending = pending]
    IN  /\ Status(f) \notin TerminalFulfillment
        /\ pending >= 0 /\ pending < ItemCount
        /\ IF pending > 0
           THEN /\ fulfillment' = [fulfillment EXCEPT ![f] = marked]
                /\ UNCHANGED vars
           ELSE /\ fulfillment' = [fulfillment EXCEPT ![f] =
                        [marked EXCEPT !.status = "FAILED", !.otp = FALSE, !.attempts = 0]]
                /\ CancelDeliveryOfFailed(f)
        /\ RecalculateOrder
        /\ UNCHANGED <<package, wrong>>

-----------------------------------------------------------------------------
PreparationStep(f) ==
    \/ StartProcessing(f)
    \/ StartPacking(f)
    \/ \E b \in Boxes :
        \/ CreatePackage(f, b)
        \/ StartPackagePacking(f, b)
        \/ MarkPackagePacked(f, b)
        \/ \E w \in Workers : MarkPackageReady(w, f, b)
    \/ \E w \in Workers : MarkReadyForDispatch(w, f)

HandoverStep(f) ==
    \/ StartDeliveryCascading(f)
    \/ SubmitWrongOtp(f)
    \/ VerifyDeliveryOtp(f)
    \/ CompleteDirectly(f)
    \/ Cancel(f)
    \/ \E n \in 0..ItemCount : VendorCannotFulfill(f, n)

\* The steps of dispatching that no fulfillment takes part in.
DispatchAlone ==
    \/ \E w \in Workers : DispatchStep(w) \/ Crash(w)
    \/ \E w \in Workers, d \in Deliveries : StaffDispatch(w, d)
    \/ \E o \in Offers : \/ DeadlinePasses(o)
                         \/ CancelOffer(o)
                         \/ \E w \in Workers : RejectOffer(w, o) \/ ExpireOffer(w, o)
    \/ \E d \in Deliveries : \/ AcceptAssignment(d)
                             \/ StartPickup(d)
                             \/ ArrivePickup(d)
                             \/ PickupCompleted(d)
                             \/ ArriveDestination(d)
                             \/ CancelByAdmin(d)
                             \/ RestartCancelledAssignment(d)
    \/ \E r \in Riders : ToggleOnline(r)

FulfillmentNext ==
    \/ OrderPaid
    \/ \E f \in Deliveries : PreparationStep(f) \/ HandoverStep(f)
    \/ \E o \in Offers : AcceptOfferCascading(o)
    \/ DispatchAlone /\ UNCHANGED preparation

FulfillmentSpec == FulfillmentInit /\ [][FulfillmentNext]_allVars

-----------------------------------------------------------------------------
\* Invariants

\* The rows of the order side have the shape the models give them.
FulfillmentTypeOK ==
    /\ fulfillment \in [Deliveries ->
            [status : FulfillmentStatus, otp : BOOLEAN, attempts : 0..OtpMaxAttempts,
             pending : 0..ItemCount]]
    /\ package \in [Deliveries -> [Boxes -> PackageStatus]]
    /\ order \in [paid : BOOLEAN, status : OrderStatus]
    /\ wrong \in [Deliveries -> 0..OtpMaxAttempts]

\* What the status of a live fulfillment says of its delivery's assignment.
Beside ==
    [PENDING            |-> {"NONE"},
     PROCESSING         |-> {"NONE"},
     PACKING            |-> {"NONE"},
     READY_FOR_DISPATCH |-> {"NONE"},
     DISPATCHED         |-> AdminCancellable \cup {"PICKED_UP", "CANCELLED"},
     OUT_FOR_DELIVERY   |-> {"OUT_FOR_DELIVERY", "ARRIVED_DESTINATION", "COMPLETED"},
     DELIVERED          |-> {"COMPLETED"}]

\* The cascades are best effort (their exceptions are swallowed), and the dispatch
\* restarts and cancellations do not touch the fulfillment; still a fulfillment that
\* is neither cancelled nor failed is never ahead of its assignment or behind it, and
\* it has a delivery exactly from READY_FOR_DISPATCH on.
FulfillmentInStep ==
    \A f \in Deliveries : Status(f) \notin {"CANCELLED", "FAILED"} =>
        /\ assignment[f].status \in Beside[Status(f)]
        /\ delivery[f] = "ABSENT" <=> Status(f) \in {"PENDING", "PROCESSING", "PACKING"}

\* Nothing is handed to a rider half packed: from READY_FOR_DISPATCH on there is a
\* package, all are ready for pickup, and all are delivered with the fulfillment.
NothingHalfPacked ==
    \A f \in Deliveries :
        Status(f) \in {"READY_FOR_DISPATCH", "DISPATCHED", "OUT_FOR_DELIVERY", "DELIVERED"} =>
            /\ Existing(f) # {}
            /\ \A b \in Existing(f) : package[f][b] =
                    IF Status(f) = "DELIVERED" THEN "DELIVERED" ELSE "READY_FOR_PICKUP"

\* A code exists exactly while the fulfillment is out, so sweep_missing_delivery_otps
\* (order/tasks.py) never finds one to issue and no code outlives its delivery.
OtpWhileOut ==
    \A f \in Deliveries : fulfillment[f].otp <=> Status(f) = "OUT_FOR_DELIVERY"

\* An order reads DELIVERED only when every fulfillment that was not cancelled is
\* delivered, and stays so whatever is cancelled, failed or paid later.
OrderDeliveredMeansAll ==
    order.status = "DELIVERED" =>
        {Status(f) : f \in Deliveries} \ {"CANCELLED"} = {"DELIVERED"}

\* What the docstring of verify_delivery_otp says of a wrong code.
AttemptsCounted ==
    \A f \in Deliveries : Status(f) = "OUT_FOR_DELIVERY" => fulfillment[f].attempts = wrong[f]

\* "verify_delivery_otp, which is the sole entry point for delivery completion"
\* (assignment.py:878): no delivery is completed without its fulfillment.
CompletedIsConfirmed ==
    \A f \in Deliveries : assignment[f].status = "COMPLETED" => Status(f) = "DELIVERED"

\* The order "becomes DELIVERED once all its active fulfillments are delivered".
AllDeliveredMeansOrder ==
    {Status(f) : f \in Deliveries} \ {"CANCELLED"} = {"DELIVERED"} => order.status = "DELIVERED"

-----------------------------------------------------------------------------
\* Action properties

\* The way of a fulfillment, in the order of its statuses.
Rank ==
    [PENDING |-> 0, PROCESSING |-> 1, PACKING |-> 2, READY_FOR_DISPATCH |-> 3,
     DISPATCHED |-> 4, OUT_FOR_DELIVERY |-> 5, DELIVERED |-> 6, FAILED |-> 7, CANCELLED |-> 8]

\* A fulfillment never goes back, whichever of vendor, rider, staff and cascade is
\* late, and one that is delivered or cancelled stays so.
FulfillmentMovesForward ==
    [][\A f \in Deliveries :
            /\ Rank[Status(f)] <= Rank[Status(f)']
            /\ Status(f) = "DELIVERED" => Status(f)' = "DELIVERED"]_allVars

\* With its fulfillments, dispatching still does what Dispatch says and no more.
DispatchSpec == Spec

=============================================================================
