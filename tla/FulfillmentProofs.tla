------------------------- MODULE FulfillmentProofs -------------------------
(***************************************************************************)
(* Proofs about Fulfillment, for any number of fulfillments, packages,     *)
(* items, riders, offers and workers.                                      *)
(***************************************************************************)
EXTENDS Fulfillment, DispatchProofs

-----------------------------------------------------------------------------
(* Every step with its cascade is a step of Dispatch or leaves it alone, so   *)
(* what is proved of Dispatch holds here.                                     *)

LEMMA PreparationIsDispatch ==
  ASSUME NEW f \in Deliveries, PreparationStep(f)
  PROVE  [Next]_vars
  <1>1. ASSUME NEW w \in Workers, DeliveryCreated(w, f) PROVE Next BY <1>1 DEF Next
  <1>2. ASSUME NEW w \in Workers, MarkReadyForDispatch(w, f) PROVE Next
    BY <1>1, <1>2 DEF MarkReadyForDispatch, ReadyForDispatch
  <1>3. ASSUME NEW w \in Workers, NEW b \in Boxes, MarkPackageReady(w, f, b)
        PROVE  [Next]_vars
    BY <1>1, <1>3 DEF MarkPackageReady, ReadyForDispatch
  <1>4. CASE \/ StartProcessing(f) \/ StartPacking(f)
             \/ \E b \in Boxes : \/ CreatePackage(f, b)
                                 \/ StartPackagePacking(f, b)
                                 \/ MarkPackagePacked(f, b)
    BY <1>4 DEF StartProcessing, StartPacking, CreatePackage, StartPackagePacking,
                MarkPackagePacked, SetPackage
  <1> QED BY <1>2, <1>3, <1>4 DEF PreparationStep

LEMMA HandoverIsDispatch ==
  ASSUME NEW f \in Deliveries, HandoverStep(f)
  PROVE  [Next]_vars
  <1>1. ASSUME LifecycleStep(f) PROVE Next BY <1>1 DEF Next
  <1>2. CASE StartDeliveryCascading(f)
    BY <1>1, <1>2 DEF StartDeliveryCascading, LifecycleStep
  <1>3. CASE VerifyDeliveryOtp(f) \/ CompleteDirectly(f)
    BY <1>1, <1>3 DEF VerifyDeliveryOtp, CompleteDirectly, LifecycleStep
  <1>4. CASE SubmitWrongOtp(f) BY <1>4 DEF SubmitWrongOtp
  <1>5. CASE Cancel(f) BY <1>1, <1>5 DEF Cancel, LifecycleStep
  <1>6. ASSUME NEW n \in 0..ItemCount, VendorCannotFulfill(f, n) PROVE [Next]_vars
    BY <1>1, <1>6 DEF VendorCannotFulfill, CancelDeliveryOfFailed, LifecycleStep
  <1> QED BY <1>2, <1>3, <1>4, <1>5, <1>6 DEF HandoverStep

LEMMA AloneIsDispatch == DispatchAlone => Next
  BY DEF DispatchAlone, Next, OfferStep, LifecycleStep

LEMMA StepIsDispatch == [FulfillmentNext]_allVars => [Next]_vars
  <1>1. ASSUME NEW o \in Offers, AcceptOfferCascading(o) PROVE Next
    BY <1>1 DEF AcceptOfferCascading, Next, OfferStep
  <1>2. OrderPaid => UNCHANGED vars BY DEF OrderPaid
  <1> QED BY <1>1, <1>2, PreparationIsDispatch, HandoverIsDispatch, AloneIsDispatch
          DEF FulfillmentNext, allVars

\* The fulfillments, their cascades and their cancellations drive dispatching only
\* through its own operations (DispatchSpec), so exclusivity, availability and the
\* refinement of RiderAllocation carry over.
THEOREM DispatchImplemented == FulfillmentSpec => DispatchSpec
  <1>1. FulfillmentInit => Init BY DEF FulfillmentInit
  <1> QED BY <1>1, StepIsDispatch, PTL DEF FulfillmentSpec, DispatchSpec, Spec

LEMMA AlwaysFine == FulfillmentSpec => []Fine
  <1>1. Spec => []Fine BY InitFine, NextFine, PTL DEF Spec
  <1> QED BY <1>1, DispatchImplemented, PTL DEF DispatchSpec

-----------------------------------------------------------------------------
(* The shape of the rows, and the way of a fulfillment.                       *)

FulfillmentRows ==
    [status : FulfillmentStatus, otp : BOOLEAN, attempts : 0..OtpMaxAttempts,
     pending : 0..ItemCount]

\* The row has a code exactly if it is out.
OtpFits(x) == x.otp <=> x.status = "OUT_FOR_DELIVERY"

\* The fulfillment fails with its last item.
ItemsFit(x) ==
    /\ x.pending = 0 => x.status \in {"FAILED", "CANCELLED"}
    /\ x.status = "FAILED" => x.pending = 0

\* The row of f becomes x, a row that is further on its way.
Forward(f, x) ==
    /\ x \in FulfillmentRows
    /\ OtpFits(fulfillment[f]) => OtpFits(x)
    /\ ItemsFit(fulfillment[f]) => ItemsFit(x)
    /\ fulfillment[f].attempts = 0 => x.attempts = 0
    /\ Rank[Status(f)] <= Rank[x.status]
    /\ Status(f) = "DELIVERED" => x.status = "DELIVERED"

RowsForward ==
    \/ UNCHANGED fulfillment
    \/ \E f \in Deliveries : \E x \in FulfillmentRows :
            Forward(f, x) /\ fulfillment' = [fulfillment EXCEPT ![f] = x]

LEMMA Zeros == 0 \in 0..ItemCount /\ 0 \in 0..OtpMaxAttempts /\ ItemCount \in 0..ItemCount
  BY FulfillmentAssumption

LEMMA MovedForward ==
  ASSUME FulfillmentTypeOK, NEW f \in Deliveries, NEW to \in FulfillmentStatus,
         Move(f, to), Rank[Status(f)] <= Rank[to],
         Status(f) \notin TerminalFulfillment \cup {"OUT_FOR_DELIVERY"},
         to \notin TerminalFulfillment \cup {"OUT_FOR_DELIVERY"}
  PROVE  RowsForward
  <1> DEFINE x == [fulfillment[f] EXCEPT !.status = to]
  <1>1. /\ x \in FulfillmentRows /\ x.status = to
        /\ x.attempts = fulfillment[f].attempts
        /\ OtpFits(fulfillment[f]) => OtpFits(x)
        /\ ItemsFit(fulfillment[f]) => ItemsFit(x)
    BY DEF FulfillmentTypeOK, FulfillmentRows, OtpFits, ItemsFit, Status, TerminalFulfillment
  <1>2. fulfillment' = [fulfillment EXCEPT ![f] = x] BY DEF Move
  <1> HIDE DEF x
  <1> QED BY <1>1, <1>2 DEF RowsForward, Forward, TerminalFulfillment

LEMMA ClosedForward ==
  ASSUME FulfillmentTypeOK, NEW f \in Deliveries,
         Rank[Status(f)] <= Rank["CANCELLED"], Status(f) # "DELIVERED"
  PROVE  Forward(f, Closed(f, "CANCELLED"))
  BY Zeros DEF FulfillmentTypeOK, FulfillmentRows, FulfillmentStatus, Forward, Closed, OtpFits,
     ItemsFit

LEMMA PreparationForward ==
  ASSUME FulfillmentTypeOK, NEW f \in Deliveries, PreparationStep(f)
  PROVE  RowsForward
  <1>1. CASE \/ StartProcessing(f) \/ StartPacking(f)
             \/ \E w \in Workers : ReadyForDispatch(w, f) /\ Status(f) \in Preparing
    BY <1>1, MovedForward
       DEF StartProcessing, StartPacking, ReadyForDispatch, Preparing, FulfillmentStatus, Rank,
           TerminalFulfillment
  <1>2. CASE \E b \in Boxes : \/ CreatePackage(f, b)
                              \/ StartPackagePacking(f, b)
                              \/ MarkPackagePacked(f, b)
    BY <1>2 DEF CreatePackage, StartPackagePacking, MarkPackagePacked, SetPackage, RowsForward
  <1>3. ASSUME NEW w \in Workers, NEW b \in Boxes, MarkPackageReady(w, f, b)
        PROVE  RowsForward
    BY <1>1, <1>3 DEF MarkPackageReady, RowsForward, Preparing
  <1> QED BY <1>1, <1>2, <1>3 DEF PreparationStep, MarkReadyForDispatch

LEMMA HandoverForward ==
  ASSUME FulfillmentTypeOK, NEW f \in Deliveries, HandoverStep(f)
  PROVE  RowsForward
  <1>s. /\ Status(f) \in FulfillmentStatus
        /\ fulfillment[f] \in FulfillmentRows
    BY DEF FulfillmentTypeOK, FulfillmentRows, Status
  <1>1. CASE StartDeliveryCascading(f)
    <2> DEFINE x == [WithOtp(fulfillment[f]) EXCEPT !.status = "OUT_FOR_DELIVERY"]
    <2>1. CASE Status(f) = "DISPATCHED"
      <3>1. /\ x \in FulfillmentRows /\ x.status = "OUT_FOR_DELIVERY" /\ OtpFits(x)
            /\ fulfillment[f].attempts = 0 => x.attempts = 0
            /\ ItemsFit(fulfillment[f]) => ItemsFit(x)
        BY <1>s, <2>1, Zeros
           DEF FulfillmentRows, FulfillmentStatus, WithOtp, OtpFits, ItemsFit, Status
      <3>2. Forward(f, x) BY <2>1, <3>1 DEF Forward, Rank
      <3>3. fulfillment' = [fulfillment EXCEPT ![f] = x]
        BY <1>1, <2>1 DEF StartDeliveryCascading, MarkOutForDelivery
      <3> QED BY <3>1, <3>2, <3>3 DEF RowsForward
    <2> QED BY <1>1, <2>1 DEF StartDeliveryCascading, MarkOutForDelivery, RowsForward
  <1>2. CASE SubmitWrongOtp(f) \/ CompleteDirectly(f)
    BY <1>2 DEF SubmitWrongOtp, CompleteDirectly, preparation, RowsForward
  <1>3. CASE VerifyDeliveryOtp(f)
    <2> DEFINE x == [fulfillment[f] EXCEPT !.status = "DELIVERED", !.otp = FALSE]
    <2>2. Status(f) = "OUT_FOR_DELIVERY" BY <1>3 DEF VerifyDeliveryOtp, OtpExpected
    <2>1. /\ x \in FulfillmentRows /\ x.status = "DELIVERED" /\ OtpFits(x)
          /\ x.attempts = fulfillment[f].attempts
          /\ ItemsFit(fulfillment[f]) => ItemsFit(x)
      BY <1>s, <2>2 DEF FulfillmentRows, FulfillmentStatus, OtpFits, ItemsFit, Status
    <2>3. Forward(f, x) BY <2>1, <2>2 DEF Forward, Rank
    <2>4. fulfillment' = [fulfillment EXCEPT ![f] = x]
      BY <1>3 DEF VerifyDeliveryOtp, FulfillmentTypeOK
    <2> QED BY <2>1, <2>3, <2>4 DEF RowsForward
  <1>4. CASE Cancel(f)
    <2>1. Rank[Status(f)] <= Rank["CANCELLED"] /\ Status(f) # "DELIVERED"
      BY <1>s, <1>4 DEF Cancel, Rank, FulfillmentStatus
    <2>2. Forward(f, Closed(f, "CANCELLED")) BY <2>1, ClosedForward
    <2> QED BY <1>4, <2>2 DEF Cancel, RowsForward, Forward
  <1>5. ASSUME NEW n \in 0..ItemCount, VendorCannotFulfill(f, n)
        PROVE  RowsForward
    <2> DEFINE pending == fulfillment[f].pending - n
               marked == [fulfillment[f] EXCEPT !.pending = pending]
               failed == [marked EXCEPT !.status = "FAILED", !.otp = FALSE, !.attempts = 0]
    <2>1. pending \in 0..ItemCount
      BY <1>s, <1>5, FulfillmentAssumption DEF VendorCannotFulfill, FulfillmentRows
    <2>3. Status(f) \notin TerminalFulfillment BY <1>5 DEF VendorCannotFulfill
    <2> HIDE DEF pending
    <2>4. /\ marked \in FulfillmentRows /\ marked.status = Status(f)
          /\ marked.attempts = fulfillment[f].attempts
          /\ marked.pending = pending
          /\ OtpFits(fulfillment[f]) => OtpFits(marked)
      BY <1>s, <2>1 DEF FulfillmentRows, Status, OtpFits
    <2>5. /\ failed \in FulfillmentRows /\ failed.status = "FAILED" /\ OtpFits(failed)
          /\ failed.attempts = 0 /\ failed.pending = pending
      BY <2>4, Zeros DEF FulfillmentRows, FulfillmentStatus, OtpFits
    <2> HIDE DEF marked, failed
    <2>6. CASE pending > 0
      <3>1. ItemsFit(fulfillment[f]) => ItemsFit(marked)
        BY <2>1, <2>3, <2>4, <2>6 DEF ItemsFit, TerminalFulfillment
      <3>2. Rank[Status(f)] <= Rank[marked.status]
        BY <1>s, <2>4 DEF Rank, FulfillmentStatus
      <3>3. Forward(f, marked)
        BY <2>3, <2>4, <3>1, <3>2 DEF Forward, TerminalFulfillment
      <3>4. fulfillment' = [fulfillment EXCEPT ![f] = marked]
        BY <1>5, <2>6 DEF VendorCannotFulfill, pending, marked
      <3> QED BY <2>4, <3>3, <3>4 DEF RowsForward
    <2>7. CASE pending = 0
      <3>1. ItemsFit(fulfillment[f]) => ItemsFit(failed)
        BY <2>1, <2>5, <2>7 DEF ItemsFit
      <3>2. Rank[Status(f)] <= Rank["FAILED"]
        BY <1>s, <2>3 DEF Rank, FulfillmentStatus, TerminalFulfillment
      <3>3. Forward(f, failed)
        BY <2>3, <2>5, <3>1, <3>2 DEF Forward, TerminalFulfillment
      <3>4. fulfillment' = [fulfillment EXCEPT ![f] = failed]
        BY <1>5, <2>7 DEF VendorCannotFulfill, pending, marked, failed
      <3> QED BY <2>5, <3>3, <3>4 DEF RowsForward
    <2> QED BY <2>1, <2>6, <2>7
  <1> QED BY <1>1, <1>2, <1>3, <1>4, <1>5 DEF HandoverStep

LEMMA PackagesFine ==
  ASSUME FulfillmentTypeOK, [FulfillmentNext]_allVars
  PROVE  /\ package' \in [Deliveries -> [Boxes -> PackageStatus]]
         /\ order' \in [paid : BOOLEAN, status : OrderStatus]
         /\ wrong' \in [Deliveries -> 0..OtpMaxAttempts]
  <1>o. ASSUME RecalculateOrder
        PROVE  order' \in [paid : BOOLEAN, status : OrderStatus]
    BY <1>o DEF RecalculateOrder, Recalculated, FulfillmentTypeOK, OrderStatus
  <1> USE DEF FulfillmentTypeOK
  <1>1. CASE OrderPaid BY <1>1 DEF OrderPaid, OrderStatus
  <1>2. ASSUME NEW f \in Deliveries, PreparationStep(f)
        PROVE  /\ package' \in [Deliveries -> [Boxes -> PackageStatus]]
               /\ UNCHANGED <<order, wrong>>
    <2>1. CASE \/ StartProcessing(f) \/ StartPacking(f)
               \/ \E w \in Workers : MarkReadyForDispatch(w, f)
      BY <2>1 DEF StartProcessing, StartPacking, MarkReadyForDispatch
    <2>2. ASSUME NEW b \in Boxes,
                 \/ CreatePackage(f, b) \/ StartPackagePacking(f, b) \/ MarkPackagePacked(f, b)
                 \/ \E w \in Workers : MarkPackageReady(w, f, b)
          PROVE  /\ package' \in [Deliveries -> [Boxes -> PackageStatus]]
                 /\ UNCHANGED <<order, wrong>>
      <3>1. PICK to \in PackageStatus : package' = [package EXCEPT ![f][b] = to]
        BY <2>2 DEF CreatePackage, StartPackagePacking, MarkPackagePacked, MarkPackageReady,
                    SetPackage, PackageStatus
      <3>2. UNCHANGED <<order, wrong>>
        BY <2>2 DEF CreatePackage, StartPackagePacking, MarkPackagePacked, MarkPackageReady,
                    SetPackage
      <3> QED BY <3>1, <3>2
    <2> QED BY <1>2, <2>1, <2>2 DEF PreparationStep
  <1>3. ASSUME NEW f \in Deliveries, HandoverStep(f)
        PROVE  /\ package' \in [Deliveries -> [Boxes -> PackageStatus]]
               /\ order' \in [paid : BOOLEAN, status : OrderStatus]
               /\ wrong' \in [Deliveries -> 0..OtpMaxAttempts]
    <2>1. CASE StartDeliveryCascading(f) \/ CompleteDirectly(f) \/ Cancel(f)
      BY <2>1 DEF StartDeliveryCascading, CompleteDirectly, Cancel, preparation
    <2>2. CASE SubmitWrongOtp(f)
      BY <2>2, FulfillmentAssumption DEF SubmitWrongOtp
    <2>3. CASE VerifyDeliveryOtp(f)
      BY <1>o, <2>3 DEF VerifyDeliveryOtp, PackageStatus
    <2>4. CASE \E n \in 0..ItemCount : VendorCannotFulfill(f, n)
      BY <1>o, <2>4 DEF VendorCannotFulfill
    <2> QED BY <1>3, <2>1, <2>2, <2>3, <2>4 DEF HandoverStep
  <1>4. CASE \E o \in Offers : AcceptOfferCascading(o)
    BY <1>4 DEF AcceptOfferCascading
  <1>5. CASE (DispatchAlone /\ UNCHANGED preparation) \/ UNCHANGED allVars
    BY <1>5 DEF preparation, allVars
  <1> QED BY <1>1, <1>2, <1>3, <1>4, <1>5 DEF FulfillmentNext

LEMMA StepForward ==
  ASSUME FulfillmentTypeOK, Fine, [FulfillmentNext]_allVars
  PROVE  RowsForward
  <1>1. CASE OrderPaid BY <1>1 DEF OrderPaid, RowsForward
  <1>2. ASSUME NEW o \in Offers, AcceptOfferCascading(o) PROVE RowsForward
    <2>1. offer[o].delivery \in Deliveries
      BY <1>2 DEF AcceptOfferCascading, AcceptOffer, Pending, Fine, OffersFine, OfferFine
    <2> QED BY <1>2, <2>1, MovedForward
            DEF AcceptOfferCascading, MarkDispatched, RowsForward, Rank, FulfillmentStatus,
                TerminalFulfillment
  <1>3. CASE (DispatchAlone /\ UNCHANGED preparation) \/ UNCHANGED allVars
    BY <1>3 DEF preparation, allVars, RowsForward
  <1> QED BY <1>1, <1>2, <1>3, PreparationForward, HandoverForward DEF FulfillmentNext

LEMMA ForwardIsFine ==
  ASSUME FulfillmentTypeOK, RowsForward
  PROVE  /\ fulfillment' \in [Deliveries -> FulfillmentRows]
         /\ \A f \in Deliveries :
                /\ Rank[Status(f)] <= Rank[Status(f)']
                /\ Status(f) = "DELIVERED" => Status(f)' = "DELIVERED"
                /\ OtpFits(fulfillment[f]) => OtpFits(fulfillment'[f])
                /\ ItemsFit(fulfillment[f]) => ItemsFit(fulfillment'[f])
                /\ fulfillment[f].attempts = 0 => fulfillment'[f].attempts = 0
  <1>1. \A f \in Deliveries : Rank[Status(f)] <= Rank[Status(f)]
    BY DEF Rank, Status, FulfillmentTypeOK, FulfillmentStatus
  <1>2. CASE UNCHANGED fulfillment
    BY <1>1, <1>2 DEF FulfillmentTypeOK, FulfillmentRows, Status
  <1>3. ASSUME NEW g \in Deliveries, NEW x \in FulfillmentRows, Forward(g, x),
               fulfillment' = [fulfillment EXCEPT ![g] = x]
        PROVE  /\ fulfillment' \in [Deliveries -> FulfillmentRows]
               /\ \A f \in Deliveries : fulfillment'[f] = IF f = g THEN x ELSE fulfillment[f]
    BY <1>3 DEF FulfillmentTypeOK, FulfillmentRows
  <1> QED BY <1>1, <1>2, <1>3 DEF RowsForward, Forward, Status

LEMMA InitFulfillmentFine == FulfillmentInit => FulfillmentTypeOK
  BY Zeros DEF FulfillmentInit, FulfillmentTypeOK, NewFulfillment, FulfillmentStatus,
     PackageStatus, OrderStatus

LEMMA NextFulfillmentFine ==
  FulfillmentTypeOK /\ Fine /\ [FulfillmentNext]_allVars => FulfillmentTypeOK'
  BY PackagesFine, StepForward, ForwardIsFine DEF FulfillmentTypeOK, FulfillmentRows

\* The rows of the order side keep their shape (FulfillmentTypeOK): the item counts
\* and OTP attempts of vendor_cannot_fulfill and verify_delivery_otp stay in range.
THEOREM FulfillmentShape == FulfillmentSpec => []FulfillmentTypeOK
  BY InitFulfillmentFine, NextFulfillmentFine, AlwaysFine, PTL DEF FulfillmentSpec

\* No interleaving of vendor, rider, staff and cascade takes a fulfillment back, and
\* a delivered one stays delivered (FulfillmentMovesForward).
THEOREM ForwardOnly == FulfillmentSpec => FulfillmentMovesForward
  <1>1. FulfillmentTypeOK /\ Fine /\ [FulfillmentNext]_allVars =>
            [\A f \in Deliveries :
                /\ Rank[Status(f)] <= Rank[Status(f)']
                /\ Status(f) = "DELIVERED" => Status(f)' = "DELIVERED"]_allVars
    BY StepForward, ForwardIsFine
  <1> QED BY <1>1, FulfillmentShape, AlwaysFine, PTL
          DEF FulfillmentSpec, FulfillmentMovesForward

\* Every code is issued on the way out and cleared on every way to an end
\* (OtpWhileOut), so the sweep for missing codes has nothing to repair.
THEOREM OtpInvariant == FulfillmentSpec => []OtpWhileOut
  <1>1. FulfillmentInit => OtpWhileOut
    BY DEF FulfillmentInit, NewFulfillment, OtpWhileOut, Status
  <1>2. FulfillmentTypeOK /\ Fine /\ OtpWhileOut /\ [FulfillmentNext]_allVars => OtpWhileOut'
    BY StepForward, ForwardIsFine DEF OtpWhileOut, OtpFits, Status
  <1> QED BY <1>1, <1>2, FulfillmentShape, AlwaysFine, PTL DEF FulfillmentSpec

-----------------------------------------------------------------------------
(* The fulfillment and its assignment.  No cascade is ever refused where it   *)
(* matters: an offer can only be accepted for a delivery that exists, whose   *)
(* fulfillment is READY_FOR_DISPATCH the first time and DISPATCHED after a    *)
(* cancellation, and PICKED_UP stands only beside DISPATCHED.                 *)

InStep(f) ==
    Status(f) \notin {"CANCELLED", "FAILED"} =>
        /\ assignment[f].status \in Beside[Status(f)]
        /\ delivery[f] = "ABSENT" <=> Status(f) \in {"PENDING", "PROCESSING", "PACKING"}

\* What InStep depends on is unchanged.
Same(f) ==
    /\ Status(f)' = Status(f)
    /\ assignment'[f].status = assignment[f].status
    /\ delivery'[f] = "ABSENT" <=> delivery[f] = "ABSENT"

LEMMA SameInStep ==
  ASSUME NEW f \in Deliveries, InStep(f), Same(f)
  PROVE  InStep(f)'
  BY DEF InStep, Same

LEMMA InStepAt ==
  ASSUME FulfillmentInStep, NEW f \in Deliveries,
         \A g \in Deliveries \ {f} : Same(g), InStep(f)'
  PROVE  FulfillmentInStep'
  <1>1. \A g \in Deliveries : InStep(g) BY DEF FulfillmentInStep, InStep
  <1>2. \A g \in Deliveries : InStep(g)' BY <1>1, SameInStep
  <1> QED BY <1>2 DEF FulfillmentInStep, InStep

LEMMA AllSame ==
  ASSUME FulfillmentInStep, \A g \in Deliveries : Same(g)
  PROVE  FulfillmentInStep'
  <1>1. \A g \in Deliveries : InStep(g) BY DEF FulfillmentInStep, InStep
  <1>2. \A g \in Deliveries : InStep(g)' BY <1>1, SameInStep
  <1> QED BY <1>2 DEF FulfillmentInStep, InStep

\* The steps that leave the assignments alone and create no delivery.
LEMMA QuietSame ==
  ASSUME FulfillmentInStep, UNCHANGED <<fulfillment, assignment>>,
         \A g \in Deliveries : delivery'[g] = "ABSENT" <=> delivery[g] = "ABSENT"
  PROVE  FulfillmentInStep'
  BY AllSame DEF Same, Status

LEMMA AdvanceInStep ==
  ASSUME FulfillmentTypeOK, Fine, FulfillmentInStep, NEW f \in Deliveries,
         NEW from, NEW dfrom \in DeliveryStatus, NEW to, NEW dto \in DeliveryStatus,
         Advance(f, from, dfrom, to, dto), UNCHANGED fulfillment,
         \A s \in FulfillmentStatus \ {"CANCELLED", "FAILED"} :
                from \in Beside[s] => to \in Beside[s]
  PROVE  FulfillmentInStep'
  <1>1. \A g \in Deliveries \ {f} : Same(g)
    BY DEF Same, Status, Advance, Fine, AssignmentFine, DeliveryFine
  <1>2. Status(f) \in FulfillmentStatus /\ InStep(f)
    BY DEF FulfillmentTypeOK, Status, FulfillmentInStep, InStep
  <1>3. assignment'[f].status = to /\ assignment[f].status = from
    BY DEF Advance, Fine, AssignmentFine, AssignmentRows
  <1>4. delivery[f] # "ABSENT" /\ delivery'[f] # "ABSENT"
    BY DEF Advance, Fine, DeliveryFine, DeliveryStatus
  <1>5. InStep(f)' BY <1>2, <1>3, <1>4 DEF InStep, Status
  <1> QED BY <1>1, <1>5, InStepAt

LEMMA AloneInStep ==
  ASSUME FulfillmentTypeOK, Fine, FulfillmentInStep, DispatchAlone, UNCHANGED preparation
  PROVE  FulfillmentInStep'
  <1> USE DEF preparation
  <1>1. ASSUME NEW w \in Workers, DispatchStep(w) \/ Crash(w) PROVE FulfillmentInStep'
    <2>1. UNCHANGED assignment
      BY <1>1 DEF DispatchStep, Crash, DispatchRead, SetDeliveryWaitingForRider, FindMatches,
                  CreateOffer, ExcludeRider, NoRiderRemains
    <2>2. \A g \in Deliveries : delivery'[g] = "ABSENT" <=> delivery[g] = "ABSENT"
      BY <1>1 DEF DispatchStep, Crash, DispatchRead, SetDeliveryWaitingForRider, FindMatches,
                  CreateOffer, ExcludeRider, NoRiderRemains, Fine, DeliveryFine,
                  WorkersFine, WorkerFine
    <2> QED BY <2>1, <2>2, QuietSame
  <1>2. CASE \/ \E w \in Workers, d \in Deliveries : StaffDispatch(w, d)
             \/ \E r \in Riders : ToggleOnline(r)
    BY <1>2, QuietSame DEF StaffDispatch, ToggleOnline
  <1>3. CASE \E o \in Offers : \/ DeadlinePasses(o)
                               \/ CancelOffer(o)
                               \/ \E w \in Workers : RejectOffer(w, o) \/ ExpireOffer(w, o)
    BY <1>3, QuietSame DEF DeadlinePasses, CancelOffer, RejectOffer, ExpireOffer
  <1>4. ASSUME NEW d \in Deliveries,
               \/ AcceptAssignment(d) \/ StartPickup(d) \/ ArrivePickup(d)
               \/ PickupCompleted(d) \/ ArriveDestination(d)
        PROVE  FulfillmentInStep'
    <2> DEFINE Live == FulfillmentStatus \ {"CANCELLED", "FAILED"}
    <2>b. \A s \in Live :
            /\ "ASSIGNED" \in Beside[s] => "ACCEPTED" \in Beside[s]
            /\ "ACCEPTED" \in Beside[s] => "EN_ROUTE_PICKUP" \in Beside[s]
            /\ "EN_ROUTE_PICKUP" \in Beside[s] => "ARRIVED_PICKUP" \in Beside[s]
            /\ "ARRIVED_PICKUP" \in Beside[s] => "PICKED_UP" \in Beside[s]
            /\ "OUT_FOR_DELIVERY" \in Beside[s] => "ARRIVED_DESTINATION" \in Beside[s]
      BY DEF Beside, AdminCancellable, FulfillmentStatus
    <2>d. {"RIDER_ASSIGNED", "RIDER_ACCEPTED", "PICKED_UP", "IN_TRANSIT"} \subseteq DeliveryStatus
      BY DEF DeliveryStatus
    <2>1. CASE AcceptAssignment(d)
      BY <2>1, <2>b, <2>d, AdvanceInStep DEF AcceptAssignment
    <2>2. CASE StartPickup(d)
      BY <2>2, <2>b, <2>d, AdvanceInStep DEF StartPickup
    <2>3. CASE ArrivePickup(d)
      BY <2>3, <2>b, <2>d, AdvanceInStep DEF ArrivePickup
    <2>4. CASE PickupCompleted(d)
      BY <2>4, <2>b, <2>d, AdvanceInStep DEF PickupCompleted
    <2>5. CASE ArriveDestination(d)
      BY <2>5, <2>b, <2>d, AdvanceInStep DEF ArriveDestination
    <2> QED BY <1>4, <2>1, <2>2, <2>3, <2>4, <2>5
  <1>5. ASSUME NEW d \in Deliveries, CancelByAdmin(d) PROVE FulfillmentInStep'
    <2>1. assignment[d].status \in AdminCancellable /\ assignment'[d].status = "CANCELLED"
      BY <1>5 DEF CancelByAdmin, Fine, AssignmentFine, AssignmentRows
    <2>2. \A g \in Deliveries \ {d} : Same(g)
      BY <1>5 DEF Same, Status, CancelByAdmin, Fine, AssignmentFine, DeliveryFine
    <2>3. Status(d) \in FulfillmentStatus /\ InStep(d)
      BY DEF FulfillmentTypeOK, Status, FulfillmentInStep, InStep
    <2>4. Status(d) \in {"DISPATCHED", "CANCELLED", "FAILED"}
      BY <2>1, <2>3 DEF InStep, Beside, FulfillmentStatus, AdminCancellable
    <2>5. delivery'[d] = "CANCELLED" BY <1>5 DEF CancelByAdmin, Fine, DeliveryFine
    <2>6. InStep(d)' BY <2>1, <2>4, <2>5 DEF InStep, Status, Beside
    <2> QED BY <2>2, <2>6, InStepAt
  <1>6. ASSUME NEW d \in Deliveries, RestartCancelledAssignment(d) PROVE FulfillmentInStep'
    BY <1>6, QuietSame DEF RestartCancelledAssignment, Fine, DeliveryFine
  <1> QED BY <1>1, <1>2, <1>3, <1>4, <1>5, <1>6 DEF DispatchAlone

LEMMA PreparationInStep ==
  ASSUME FulfillmentTypeOK, Fine, FulfillmentInStep, NEW f \in Deliveries, PreparationStep(f)
  PROVE  FulfillmentInStep'
  <1>i. InStep(f) BY DEF FulfillmentInStep, InStep
  <1>1. CASE StartProcessing(f) \/ StartPacking(f)
    <2>1. \A g \in Deliveries \ {f} : Same(g)
      BY <1>1 DEF Same, Status, StartProcessing, StartPacking, Move, vars, FulfillmentTypeOK
    <2>2. InStep(f)'
      BY <1>1, <1>i DEF InStep, Status, StartProcessing, StartPacking, Move, vars,
                        FulfillmentTypeOK, Beside
    <2> QED BY <2>1, <2>2, InStepAt
  <1>2. ASSUME NEW w \in Workers, ReadyForDispatch(w, f), Status(f) \in Preparing
        PROVE  FulfillmentInStep'
    <2> USE DEF ReadyForDispatch, DeliveryCreated, Move, FulfillmentTypeOK, Fine, DeliveryFine
    <2>1. \A g \in Deliveries \ {f} : Same(g) BY <1>2 DEF Same, Status
    <2>2. InStep(f)' BY <1>2, <1>i DEF InStep, Status, Preparing, Beside
    <2> QED BY <2>1, <2>2, InStepAt
  <1>3. ASSUME NEW b \in Boxes, CreatePackage(f, b) \/ StartPackagePacking(f, b)
                                  \/ MarkPackagePacked(f, b)
        PROVE  FulfillmentInStep'
    BY <1>3, QuietSame DEF CreatePackage, StartPackagePacking, MarkPackagePacked, SetPackage, vars
  <1>4. ASSUME NEW w \in Workers, NEW b \in Boxes, MarkPackageReady(w, f, b)
        PROVE  FulfillmentInStep'
    BY <1>2, <1>4, QuietSame DEF MarkPackageReady, vars, Preparing
  <1> QED BY <1>1, <1>2, <1>3, <1>4 DEF PreparationStep, MarkReadyForDispatch

\* What happens to a fulfillment that is given up does not matter to the others.
LEMMA GivenUpInStep ==
  ASSUME FulfillmentInStep, NEW f \in Deliveries, Status(f)' \in {"CANCELLED", "FAILED"},
         \A g \in Deliveries \ {f} : Same(g)
  PROVE  FulfillmentInStep'
  <1>1. InStep(f)' BY DEF InStep
  <1> QED BY <1>1, InStepAt

LEMMA CancelSame ==
  ASSUME FulfillmentTypeOK, Fine, NEW f \in Deliveries, NEW row,
         fulfillment' = [fulfillment EXCEPT ![f] = row],
         UNCHANGED vars \/ CancelByAdmin(f) \/ CancelFulfillment(f)
  PROVE  \A g \in Deliveries \ {f} : Same(g)
  BY DEF Same, Status, vars, CancelByAdmin, CancelFulfillment, FulfillmentTypeOK, Fine,
         DeliveryFine, AssignmentFine

LEMMA HandoverInStep ==
  ASSUME FulfillmentTypeOK, Fine, FulfillmentInStep, NEW f \in Deliveries, HandoverStep(f)
  PROVE  FulfillmentInStep'
  <1>i. InStep(f) /\ Status(f) \in FulfillmentStatus
    BY DEF FulfillmentInStep, InStep, FulfillmentTypeOK, Status
  <1>e. fulfillment \in [Deliveries -> FulfillmentRows]
    BY DEF FulfillmentTypeOK, FulfillmentRows
  <1>1. CASE StartDeliveryCascading(f)
    <2> USE <1>1 DEF StartDeliveryCascading, StartDelivery, Advance
    <2>1. /\ assignment[f].status = "PICKED_UP" /\ assignment'[f].status = "OUT_FOR_DELIVERY"
          /\ delivery[f] # "ABSENT" /\ delivery'[f] # "ABSENT"
      BY DEF Fine, AssignmentFine, AssignmentRows, DeliveryFine
    <2>2. Status(f) \in {"DISPATCHED", "CANCELLED", "FAILED"}
      BY <1>i, <2>1 DEF InStep, Beside, FulfillmentStatus, AdminCancellable
    <2>3. \A g \in Deliveries \ {f} : Same(g)
      BY <1>e DEF MarkOutForDelivery, Same, Status, Fine, AssignmentFine, DeliveryFine
    <2>4. Status(f)' = IF Status(f) = "DISPATCHED" THEN "OUT_FOR_DELIVERY" ELSE Status(f)
      BY <1>e DEF MarkOutForDelivery, Status, WithOtp, FulfillmentRows
    <2>5. InStep(f)' BY <2>1, <2>2, <2>4 DEF InStep, Beside
    <2> QED BY <2>3, <2>5, InStepAt
  <1>2. CASE SubmitWrongOtp(f) BY <1>2, QuietSame DEF SubmitWrongOtp, vars
  <1>3. CASE VerifyDeliveryOtp(f) \/ CompleteDirectly(f)
    <2> USE <1>3 DEF VerifyDeliveryOtp, CompleteDirectly, Complete, preparation
    <2>1. /\ assignment[f].status = "ARRIVED_DESTINATION" /\ assignment'[f].status = "COMPLETED"
          /\ delivery[f] # "ABSENT" /\ delivery'[f] # "ABSENT"
      BY DEF Fine, AssignmentFine, AssignmentRows, DeliveryFine
    <2>2. Status(f) \in {"OUT_FOR_DELIVERY", "CANCELLED", "FAILED"}
      BY <1>i, <2>1 DEF InStep, Beside, FulfillmentStatus, AdminCancellable
    <2>3. \A g \in Deliveries \ {f} : Same(g)
      BY <1>e DEF Same, Status, Fine, AssignmentFine, DeliveryFine
    <2>4. Status(f)' = Status(f) \/ (Status(f) = "OUT_FOR_DELIVERY" /\ Status(f)' = "DELIVERED")
      BY <1>e DEF Status, FulfillmentRows, OtpExpected
    <2>5. InStep(f)' BY <2>1, <2>2, <2>4 DEF InStep, Beside
    <2> QED BY <2>3, <2>5, InStepAt
  <1>4. CASE Cancel(f)
    <2>1. Status(f)' = "CANCELLED" BY <1>4, <1>e DEF Cancel, Closed, Status, FulfillmentRows
    <2>2. \A g \in Deliveries \ {f} : Same(g) BY <1>4, CancelSame DEF Cancel
    <2> QED BY <2>1, <2>2, GivenUpInStep
  <1>5. ASSUME NEW n \in 0..ItemCount, VendorCannotFulfill(f, n)
        PROVE  FulfillmentInStep'
    <2>1. /\ \A g \in Deliveries \ {f} : Same(g)
          /\ \/ UNCHANGED vars /\ Status(f)' = Status(f)
             \/ Status(f)' = "FAILED"
      <3>1. PICK row : fulfillment' = [fulfillment EXCEPT ![f] = row]
        BY <1>5 DEF VendorCannotFulfill
      <3>2. UNCHANGED vars \/ CancelFulfillment(f)
        BY <1>5 DEF VendorCannotFulfill, CancelDeliveryOfFailed
      <3>3. \A g \in Deliveries \ {f} : Same(g) BY <3>1, <3>2, CancelSame
      <3> QED BY <1>5, <1>e, <3>3 DEF VendorCannotFulfill, Status, FulfillmentRows
    <2>2. CASE UNCHANGED vars /\ Status(f)' = Status(f)
      BY <2>1, <2>2, AllSame DEF Same, vars
    <2> QED BY <2>1, <2>2, GivenUpInStep
  <1> QED BY <1>1, <1>2, <1>3, <1>4, <1>5 DEF HandoverStep

LEMMA AcceptInStep ==
  ASSUME FulfillmentTypeOK, Fine, FulfillmentInStep, NEW o \in Offers, AcceptOfferCascading(o)
  PROVE  FulfillmentInStep'
  <1>1. PICK d \in Deliveries :
            d = offer[o].delivery /\ offer[o].rider \in Riders /\ delivery[d] # "ABSENT"
    BY DEF AcceptOfferCascading, AcceptOffer, Pending, Fine, OffersFine, OfferFine
  <1>2. assignment[d].status \in {"NONE", "CANCELLED"}
    BY <1>1 DEF AcceptOfferCascading, AcceptOffer, RowAssignable
  <1>3. assignment'[d].status = "ASSIGNED" /\ delivery'[d] = "RIDER_ASSIGNED"
    BY <1>1 DEF AcceptOfferCascading, AcceptOffer, Fine, AssignmentFine, DeliveryFine
  <1>4. \A g \in Deliveries \ {d} : Same(g)
    BY <1>1 DEF AcceptOfferCascading, AcceptOffer, MarkDispatched, Move, Same, Status, Fine,
                AssignmentFine, DeliveryFine, FulfillmentTypeOK
  <1>5. InStep(d) /\ Status(d) \in FulfillmentStatus
    BY <1>1 DEF FulfillmentInStep, InStep, FulfillmentTypeOK, Status
  <1>6. Status(d) \in {"READY_FOR_DISPATCH", "DISPATCHED", "CANCELLED", "FAILED"}
    BY <1>1, <1>2, <1>5 DEF InStep, Beside, FulfillmentStatus
  <1>7. Status(d)' = IF Status(d) = "READY_FOR_DISPATCH" THEN "DISPATCHED" ELSE Status(d)
    BY <1>1, <1>3 DEF AcceptOfferCascading, MarkDispatched, Move, Status, FulfillmentTypeOK
  <1>8. InStep(d)' BY <1>3, <1>6, <1>7 DEF InStep, Beside, AdminCancellable
  <1> QED BY <1>1, <1>4, <1>8, InStepAt

LEMMA NextInStep ==
  FulfillmentTypeOK /\ Fine /\ FulfillmentInStep /\ [FulfillmentNext]_allVars
      => FulfillmentInStep'
  <1> SUFFICES ASSUME FulfillmentTypeOK, Fine, FulfillmentInStep, [FulfillmentNext]_allVars
               PROVE  FulfillmentInStep'
    OBVIOUS
  <1>1. CASE OrderPaid \/ UNCHANGED allVars
    BY <1>1, QuietSame DEF OrderPaid, allVars, vars, preparation
  <1> QED BY <1>1, PreparationInStep, HandoverInStep, AcceptInStep, AloneInStep
          DEF FulfillmentNext

LEMMA InitInStep == FulfillmentInit => FulfillmentInStep
  BY DEF FulfillmentInit, Init, NoAssignment, NewFulfillment, FulfillmentInStep, Status, Beside

\* However the best-effort cascades, cancellations and restarts fall, a fulfillment
\* that is not given up stands beside its assignment as it should (FulfillmentInStep).
THEOREM InStepInvariant == FulfillmentSpec => []FulfillmentInStep
  BY InitInStep, NextInStep, FulfillmentShape, AlwaysFine, PTL DEF FulfillmentSpec

-----------------------------------------------------------------------------
(* The packages.  mark_package_packed and mark_package_ready do not look at   *)
(* the fulfillment; they are refused from READY_FOR_DISPATCH on because no    *)
(* package is left in a status they accept.                                   *)

Late == {"READY_FOR_DISPATCH", "DISPATCHED", "OUT_FOR_DELIVERY", "DELIVERED"}

Packed(f) ==
    Status(f) \in Late =>
        /\ Existing(f) # {}
        /\ \A b \in Existing(f) : package[f][b] =
                IF Status(f) = "DELIVERED" THEN "DELIVERED" ELSE "READY_FOR_PICKUP"

LEMMA PackedAt ==
  ASSUME NothingHalfPacked, NEW f \in Deliveries, Packed(f)',
         \A g \in Deliveries \ {f} : Status(g)' = Status(g) /\ package'[g] = package[g]
  PROVE  NothingHalfPacked'
  <1>1. \A g \in Deliveries \ {f} : Packed(g)' BY DEF NothingHalfPacked, Packed, Late, Existing
  <1> QED BY <1>1 DEF NothingHalfPacked, Packed, Late

\* The packages stay as they are, and f at most moves within the late statuses.
LEMMA PackedMoved ==
  ASSUME NothingHalfPacked, NEW f \in Deliveries, UNCHANGED package,
         \A g \in Deliveries \ {f} : Status(g)' = Status(g),
         \/ Status(f)' = Status(f)
         \/ Status(f)' \notin Late
         \/ {Status(f), Status(f)'} \subseteq Late \ {"DELIVERED"}
  PROVE  NothingHalfPacked'
  <1>1. Packed(f)' BY DEF NothingHalfPacked, Packed, Late, Existing
  <1> QED BY <1>1, PackedAt

LEMMA PackedSame ==
  ASSUME NothingHalfPacked, UNCHANGED <<fulfillment, package>>
  PROVE  NothingHalfPacked'
  BY DEF NothingHalfPacked, Status, Existing

LEMMA PreparationPacked ==
  ASSUME FulfillmentTypeOK, NothingHalfPacked, NEW f \in Deliveries, PreparationStep(f)
  PROVE  NothingHalfPacked'
  <1> USE DEF FulfillmentTypeOK
  <1>i. Packed(f) BY DEF NothingHalfPacked, Packed, Late
  <1>1. CASE StartProcessing(f) \/ StartPacking(f)
    BY <1>1, PackedMoved DEF StartProcessing, StartPacking, Move, Status, Late
  <1>2. ASSUME NEW w \in Workers, ReadyForDispatch(w, f),
               \A g \in Deliveries \ {f} : package'[g] = package[g]
        PROVE  NothingHalfPacked'
    <2>1. Packed(f)' BY <1>2 DEF ReadyForDispatch, Move, Packed, Status
    <2> QED BY <1>2, <2>1, PackedAt DEF ReadyForDispatch, Move, Status
  <1>3. ASSUME NEW b \in Boxes, CreatePackage(f, b) \/ StartPackagePacking(f, b)
                                  \/ MarkPackagePacked(f, b)
        PROVE  NothingHalfPacked'
    <2> USE <1>3 DEF CreatePackage, StartPackagePacking, MarkPackagePacked, SetPackage
    <2>1. Status(f) \notin Late BY <1>i DEF Packed, Late, Preparing, Existing
    <2>2. Packed(f)' BY <2>1 DEF Packed, Status
    <2> QED BY <2>2, PackedAt DEF Status
  <1>4. ASSUME NEW w \in Workers, NEW b \in Boxes, MarkPackageReady(w, f, b)
        PROVE  NothingHalfPacked'
    <2>1. \A g \in Deliveries \ {f} : package'[g] = package[g]
      BY <1>4 DEF MarkPackageReady
    <2>2. Status(f) \notin Late BY <1>i, <1>4 DEF MarkPackageReady, Packed, Existing
    <2>3. CASE UNCHANGED fulfillment
      BY <2>1, <2>2, <2>3, PackedAt DEF Packed, Status
    <2> QED BY <1>2, <1>4, <2>1, <2>3 DEF MarkPackageReady
  <1>5. ASSUME NEW w \in Workers, MarkReadyForDispatch(w, f) PROVE NothingHalfPacked'
    BY <1>2, <1>5 DEF MarkReadyForDispatch
  <1> QED BY <1>1, <1>3, <1>4, <1>5 DEF PreparationStep

LEMMA HandoverPacked ==
  ASSUME FulfillmentTypeOK, NothingHalfPacked, NEW f \in Deliveries, HandoverStep(f)
  PROVE  NothingHalfPacked'
  <1>e. fulfillment \in [Deliveries -> FulfillmentRows]
    BY DEF FulfillmentTypeOK, FulfillmentRows
  <1>1. CASE StartDeliveryCascading(f)
    <2> USE <1>1 DEF StartDeliveryCascading, MarkOutForDelivery
    <2>1. \A g \in Deliveries \ {f} : Status(g)' = Status(g) BY <1>e DEF Status
    <2>2. \/ Status(f)' = Status(f)
          \/ Status(f) = "DISPATCHED" /\ Status(f)' = "OUT_FOR_DELIVERY"
      BY <1>e DEF Status, WithOtp, FulfillmentRows
    <2> QED BY <2>1, <2>2, PackedMoved DEF Late
  <1>2. CASE SubmitWrongOtp(f) \/ CompleteDirectly(f)
    BY <1>2, PackedSame DEF SubmitWrongOtp, CompleteDirectly, preparation
  <1>3. CASE VerifyDeliveryOtp(f)
    <2> USE <1>3 DEF VerifyDeliveryOtp, OtpExpected
    <2>1. \A g \in Deliveries \ {f} : Status(g)' = Status(g) /\ package'[g] = package[g]
      BY <1>e DEF Status, FulfillmentTypeOK
    <2>2. Existing(f) # {} BY DEF NothingHalfPacked, Late
    <2>3. package'[f] = [b \in Boxes |-> IF b \in Existing(f) THEN "DELIVERED" ELSE "ABSENT"]
      BY DEF FulfillmentTypeOK
    <2>4. Existing(f)' = Existing(f) BY <2>3 DEF Existing
    <2>5. Status(f)' = "DELIVERED" BY <1>e DEF Status, FulfillmentRows
    <2>6. Packed(f)' BY <2>2, <2>3, <2>4, <2>5 DEF Packed, Existing
    <2> QED BY <2>1, <2>6, PackedAt
  <1>4. CASE Cancel(f)
    BY <1>4, <1>e, PackedMoved DEF Cancel, Closed, Status, FulfillmentRows, Late
  <1>5. ASSUME NEW n \in 0..ItemCount, VendorCannotFulfill(f, n)
        PROVE  NothingHalfPacked'
    <2>1. \A g \in Deliveries \ {f} : Status(g)' = Status(g)
      BY <1>5, <1>e DEF VendorCannotFulfill, Status
    <2>2. Status(f)' = Status(f) \/ Status(f)' = "FAILED"
      BY <1>5, <1>e DEF VendorCannotFulfill, Status, FulfillmentRows
    <2> QED BY <1>5, <2>1, <2>2, PackedMoved DEF VendorCannotFulfill, Late
  <1> QED BY <1>1, <1>2, <1>3, <1>4, <1>5 DEF HandoverStep

LEMMA NextPacked ==
  FulfillmentTypeOK /\ Fine /\ NothingHalfPacked /\ [FulfillmentNext]_allVars
      => NothingHalfPacked'
  <1> SUFFICES ASSUME FulfillmentTypeOK, Fine, NothingHalfPacked, [FulfillmentNext]_allVars
               PROVE  NothingHalfPacked'
    OBVIOUS
  <1>1. CASE OrderPaid \/ (DispatchAlone /\ UNCHANGED preparation) \/ UNCHANGED allVars
    BY <1>1, PackedSame DEF OrderPaid, allVars, preparation
  <1>2. ASSUME NEW o \in Offers, AcceptOfferCascading(o) PROVE NothingHalfPacked'
    <2>1. PICK d \in Deliveries : d = offer[o].delivery
      BY <1>2 DEF AcceptOfferCascading, AcceptOffer, Pending, Fine, OffersFine, OfferFine
    <2>2. \A g \in Deliveries \ {d} : Status(g)' = Status(g)
      BY <1>2, <2>1 DEF AcceptOfferCascading, MarkDispatched, Move, Status, FulfillmentTypeOK
    <2>3. \/ Status(d)' = Status(d)
          \/ Status(d) = "READY_FOR_DISPATCH" /\ Status(d)' = "DISPATCHED"
      BY <1>2, <2>1 DEF AcceptOfferCascading, MarkDispatched, Move, Status, FulfillmentTypeOK
    <2> QED BY <1>2, <2>1, <2>2, <2>3, PackedMoved DEF AcceptOfferCascading, Late
  <1> QED BY <1>1, <1>2, PreparationPacked, HandoverPacked DEF FulfillmentNext

\* A rider is never sent for a fulfillment that is not packed, and its packages end
\* with it (NothingHalfPacked).
THEOREM PackedInvariant == FulfillmentSpec => []NothingHalfPacked
  <1>1. FulfillmentInit => NothingHalfPacked
    BY DEF FulfillmentInit, NewFulfillment, NothingHalfPacked, Status
  <1> QED BY <1>1, NextPacked, FulfillmentShape, AlwaysFine, PTL DEF FulfillmentSpec

-----------------------------------------------------------------------------
(* The order.                                                                 *)

LEMMA OrderChange ==
  ASSUME [FulfillmentNext]_allVars
  PROVE  \/ order'.status = order.status
         \/ order'.status = "CONFIRMED"
         \/ RecalculateOrder
  <1>1. CASE OrderPaid BY <1>1 DEF OrderPaid
  <1>2. ASSUME NEW f \in Deliveries, PreparationStep(f) PROVE UNCHANGED order
    BY <1>2 DEF PreparationStep, StartProcessing, StartPacking, CreatePackage, SetPackage,
       StartPackagePacking, MarkPackagePacked, MarkPackageReady, MarkReadyForDispatch
  <1>3. ASSUME NEW f \in Deliveries, HandoverStep(f) PROVE UNCHANGED order \/ RecalculateOrder
    BY <1>3 DEF HandoverStep, StartDeliveryCascading, SubmitWrongOtp, VerifyDeliveryOtp,
       CompleteDirectly, Cancel, VendorCannotFulfill, preparation
  <1>4. CASE \E o \in Offers : AcceptOfferCascading(o) BY <1>4 DEF AcceptOfferCascading
  <1>5. CASE (DispatchAlone /\ UNCHANGED preparation) \/ UNCHANGED allVars
    BY <1>5 DEF preparation, allVars
  <1> QED BY <1>1, <1>2, <1>3, <1>4, <1>5 DEF FulfillmentNext

AllDelivered == {Status(f) : f \in Deliveries} \ {"CANCELLED"} = {"DELIVERED"}

\* Delivered and cancelled fulfillments stay what they are.
LEMMA AllDeliveredStays ==
  ASSUME FulfillmentTypeOK, RowsForward, AllDelivered
  PROVE  AllDelivered'
  <1>1. \A f \in Deliveries : Status(f) \in {"DELIVERED", "CANCELLED"} BY DEF AllDelivered
  <1>2. ASSUME NEW f \in Deliveries PROVE Status(f)' = Status(f)
    <2>1. Status(f)' \in FulfillmentStatus
      BY ForwardIsFine DEF FulfillmentRows, Status
    <2>2. Rank[Status(f)] <= Rank[Status(f)]' /\ (Status(f) = "DELIVERED" => Status(f)' = "DELIVERED")
      BY ForwardIsFine DEF Rank
    <2> QED BY <1>1, <2>1, <2>2 DEF Rank, FulfillmentStatus
  <1> QED BY <1>2 DEF AllDelivered

LEMMA NextOrder ==
  FulfillmentTypeOK /\ Fine /\ OrderDeliveredMeansAll /\ [FulfillmentNext]_allVars
      => OrderDeliveredMeansAll'
  <1> SUFFICES ASSUME FulfillmentTypeOK, Fine, OrderDeliveredMeansAll,
                      [FulfillmentNext]_allVars, order'.status = "DELIVERED"
               PROVE  AllDelivered'
    BY DEF OrderDeliveredMeansAll, AllDelivered
  <1>1. CASE order.status = "DELIVERED"
    BY <1>1, StepForward, AllDeliveredStays DEF OrderDeliveredMeansAll, AllDelivered
  <1>2. CASE order.status # "DELIVERED" /\ RecalculateOrder
    <2>1. order'.status = Recalculated(fulfillment')
      BY <1>2 DEF RecalculateOrder, FulfillmentTypeOK
    <2>2. {fulfillment'[f].status : f \in Deliveries} \ {"CANCELLED"} = {"DELIVERED"}
      BY <1>2, <2>1 DEF Recalculated
    <2> QED BY <2>2 DEF AllDelivered, Status
  <1> QED BY <1>1, <1>2, OrderChange

\* An order never reads DELIVERED while something of it may still come or has failed
\* (OrderDeliveredMeansAll).
THEOREM OrderInvariant == FulfillmentSpec => []OrderDeliveredMeansAll
  <1>1. FulfillmentInit => OrderDeliveredMeansAll
    BY DEF FulfillmentInit, OrderDeliveredMeansAll
  <1> QED BY <1>1, NextOrder, FulfillmentShape, AlwaysFine, PTL DEF FulfillmentSpec

-----------------------------------------------------------------------------
(* Items and attempts: what Forward says of them.                             *)

ItemsAccounted == \A f \in Deliveries : ItemsFit(fulfillment[f])

\* A fulfillment fails exactly with its last item, so nothing is ever prepared, sent out or
\* delivered of which no item is left, although vendor_cannot_fulfill may come in parts,
\* while the rider is on his way too, and overlap with everything else.
THEOREM ItemsInvariant == FulfillmentSpec => []ItemsAccounted
  <1>1. FulfillmentInit => ItemsAccounted
    BY FulfillmentAssumption DEF FulfillmentInit, NewFulfillment, ItemsAccounted, ItemsFit
  <1>2. FulfillmentTypeOK /\ Fine /\ ItemsAccounted /\ [FulfillmentNext]_allVars => ItemsAccounted'
    BY StepForward, ForwardIsFine DEF ItemsAccounted, ItemsFit
  <1> QED BY <1>1, <1>2, FulfillmentShape, AlwaysFine, PTL DEF FulfillmentSpec

NoAttemptCounted == \A f \in Deliveries : fulfillment[f].attempts = 0

\* However many wrong codes are submitted, the stored number of attempts stays 0, so
\* OTP_MAX_ATTEMPTS never stops anybody: each increment is rolled back with its error.
THEOREM AttemptsNeverCount == FulfillmentSpec => []NoAttemptCounted
  <1>1. FulfillmentInit => NoAttemptCounted
    BY DEF FulfillmentInit, NewFulfillment, NoAttemptCounted
  <1>2. FulfillmentTypeOK /\ Fine /\ NoAttemptCounted /\ [FulfillmentNext]_allVars => NoAttemptCounted'
    BY StepForward, ForwardIsFine DEF NoAttemptCounted
  <1> QED BY <1>1, <1>2, FulfillmentShape, AlwaysFine, PTL DEF FulfillmentSpec

-----------------------------------------------------------------------------
(* An order that is not paid.                                                 *)

\* Before the payment is settled nothing is prepared, no delivery exists, no rider comes.
NothingMovesUnpaid ==
    ~order.paid => \A f \in Deliveries :
        /\ delivery[f] = "ABSENT" /\ assignment[f].status = "NONE"
        /\ Existing(f) = {}
        /\ Status(f) \in {"PENDING", "CANCELLED", "FAILED"}

LEMMA PaidStays ==
  ASSUME FulfillmentTypeOK, [FulfillmentNext]_allVars, order.paid
  PROVE  order'.paid
  <1>1. RecalculateOrder => order'.paid = order.paid
    BY DEF RecalculateOrder, FulfillmentTypeOK
  <1>2. ASSUME NEW f \in Deliveries, PreparationStep(f) PROVE order'.paid
    BY <1>2 DEF PreparationStep, StartProcessing, StartPacking, CreatePackage, StartPackagePacking,
       MarkPackagePacked, SetPackage, MarkPackageReady, MarkReadyForDispatch
  <1>3. ASSUME NEW f \in Deliveries, HandoverStep(f) PROVE order'.paid
    BY <1>1, <1>3 DEF HandoverStep, StartDeliveryCascading, SubmitWrongOtp, VerifyDeliveryOtp,
       CompleteDirectly, Cancel, VendorCannotFulfill, preparation
  <1> QED BY <1>2, <1>3 DEF FulfillmentNext, OrderPaid, AcceptOfferCascading, preparation, allVars

\* With no delivery there is nothing to dispatch.
LEMMA NothingToDispatch ==
  ASSUME Fine, \A f \in Deliveries : delivery[f] = "ABSENT" /\ assignment[f].status = "NONE"
  PROVE  /\ DispatchAlone => UNCHANGED <<delivery, assignment>>
         /\ \A o \in Offers : ~AcceptOffer(o)
         /\ \A f \in Deliveries : /\ ~StartDelivery(f) /\ ~Complete(f)
                                   /\ ~CancelByAdmin(f) /\ ~CancelFulfillment(f)
  <1>1. \A w \in Workers : worker[w].pc = "idle" BY DEF Fine, WorkersFine, WorkerFine
  <1>2. \A o \in Offers : offer[o].status = "FREE" BY DEF Fine, OffersFine, OfferFine
  <1>3. \A f \in Deliveries : ~assignment[f].active BY DEF Fine, AssignmentFine, ActiveStatus
  <1>4. \A o \in Offers : ~AcceptOffer(o) BY <1>2 DEF AcceptOffer, Pending
  <1>5. ASSUME NEW f \in Deliveries
        PROVE  /\ ~StartDelivery(f) /\ ~Complete(f) /\ ~CancelByAdmin(f) /\ ~CancelFulfillment(f)
               /\ ~AcceptAssignment(f) /\ ~StartPickup(f) /\ ~ArrivePickup(f)
               /\ ~PickupCompleted(f) /\ ~ArriveDestination(f) /\ ~RestartCancelledAssignment(f)
    BY <1>3 DEF StartDelivery, Complete, CancelByAdmin, CancelFulfillment, AcceptAssignment,
       StartPickup, ArrivePickup, PickupCompleted, ArriveDestination, Advance,
       RestartCancelledAssignment
  <1>6. DispatchAlone => UNCHANGED <<delivery, assignment>>
    BY <1>1, <1>2, <1>5 DEF DispatchAlone, DispatchStep, DispatchRead, SetDeliveryWaitingForRider,
       FindMatches, CreateOffer, ExcludeRider, NoRiderRemains, Crash, StaffDispatch,
       DeadlinePasses, CancelOffer, RejectOffer, ExpireOffer, Pending, ToggleOnline
  <1> QED BY <1>4, <1>5, <1>6

LEMMA NextUnpaid ==
  ASSUME FulfillmentTypeOK, Fine, NothingMovesUnpaid, [FulfillmentNext]_allVars
  PROVE  NothingMovesUnpaid'
  <1> SUFFICES ASSUME ~order.paid, ~order'.paid
               PROVE  \A f \in Deliveries : /\ delivery'[f] = "ABSENT" /\ assignment'[f].status = "NONE"
                                            /\ Existing(f)' = {}
                                            /\ Status(f)' \in {"PENDING", "CANCELLED", "FAILED"}
    BY PaidStays DEF NothingMovesUnpaid
  <1>0. \A f \in Deliveries : /\ delivery[f] = "ABSENT" /\ assignment[f].status = "NONE"
                              /\ Existing(f) = {}
                              /\ Status(f) \in {"PENDING", "CANCELLED", "FAILED"}
    BY DEF NothingMovesUnpaid
  <1>1. ASSUME UNCHANGED <<delivery, assignment, package, fulfillment>>
        PROVE  \A f \in Deliveries : /\ delivery'[f] = "ABSENT" /\ assignment'[f].status = "NONE"
                                     /\ Existing(f)' = {}
                                     /\ Status(f)' \in {"PENDING", "CANCELLED", "FAILED"}
    BY <1>0, <1>1 DEF Existing, Status
  <1>2. ASSUME NEW f \in Deliveries, PreparationStep(f) PROVE FALSE
    <2>1. \A b \in Boxes : package[f][b] = "ABSENT" BY <1>0 DEF Existing
    <2> QED BY <1>0, <1>2, <2>1 DEF PreparationStep, StartProcessing, StartPacking, CreatePackage,
            StartPackagePacking, MarkPackagePacked, MarkPackageReady, MarkReadyForDispatch, Preparing
  <1>3. ASSUME NEW f \in Deliveries, HandoverStep(f)
        PROVE  \A g \in Deliveries : /\ delivery'[g] = "ABSENT" /\ assignment'[g].status = "NONE"
                                     /\ Existing(g)' = {}
                                     /\ Status(g)' \in {"PENDING", "CANCELLED", "FAILED"}
    <2>1. CASE SubmitWrongOtp(f) BY <1>1, <2>1 DEF SubmitWrongOtp, vars
    <2>2. CASE Cancel(f)
      <3>1. UNCHANGED <<delivery, assignment, package>>
        BY <1>0, <2>2, NothingToDispatch DEF Cancel, vars
      <3>2. \A g \in Deliveries : Status(g)' \in {Status(g), "CANCELLED"}
        BY <2>2 DEF Cancel, Closed, Status, FulfillmentTypeOK
      <3> QED BY <1>0, <3>1, <3>2 DEF Existing
    <2>3. ASSUME NEW n \in 0..ItemCount, VendorCannotFulfill(f, n)
          PROVE  /\ UNCHANGED <<delivery, assignment, package>>
                 /\ \A g \in Deliveries : Status(g)' \in {Status(g), "FAILED"}
      <3>1. UNCHANGED <<delivery, assignment, package>>
        BY <1>0, <2>3, NothingToDispatch DEF VendorCannotFulfill, CancelDeliveryOfFailed, vars
      <3> DEFINE pending == fulfillment[f].pending - n
                 marked == [fulfillment[f] EXCEPT !.pending = pending]
                 failed == [marked EXCEPT !.status = "FAILED", !.otp = FALSE, !.attempts = 0]
      <3>a. marked.status = Status(f) /\ failed.status = "FAILED"
        BY DEF Status, FulfillmentTypeOK
      <3>b. \/ fulfillment' = [fulfillment EXCEPT ![f] = marked]
            \/ fulfillment' = [fulfillment EXCEPT ![f] = failed]
        BY <2>3 DEF VendorCannotFulfill
      <3> HIDE DEF marked, failed
      <3>2. \A g \in Deliveries : Status(g)' \in {Status(g), "FAILED"}
        BY <3>a, <3>b DEF Status, FulfillmentTypeOK
      <3> QED BY <3>1, <3>2
    <2>4. CASE \E n \in 0..ItemCount : VendorCannotFulfill(f, n)
      BY <1>0, <2>3, <2>4 DEF Existing
    <2> QED BY <1>0, <1>3, <2>1, <2>2, <2>4, NothingToDispatch
            DEF HandoverStep, StartDeliveryCascading, VerifyDeliveryOtp, CompleteDirectly
  <1>4. CASE DispatchAlone /\ UNCHANGED preparation
    BY <1>0, <1>1, <1>4, NothingToDispatch DEF preparation
  <1>5. CASE UNCHANGED allVars BY <1>1, <1>5 DEF allVars, vars, preparation
  <1>6. ~OrderPaid BY DEF OrderPaid
  <1>7. \A o \in Offers : ~AcceptOfferCascading(o)
    BY <1>0, NothingToDispatch DEF AcceptOfferCascading
  <1> QED BY <1>2, <1>3, <1>4, <1>5, <1>6, <1>7 DEF FulfillmentNext

\* Only start_processing, start_packing, create_package and mark_ready_for_dispatch ask
\* whether the order is paid; that is enough to keep every later step, of packages,
\* riders and staff, from an order that is not.
THEOREM UnpaidInvariant == FulfillmentSpec => []NothingMovesUnpaid
  <1>1. FulfillmentInit => NothingMovesUnpaid
    BY DEF FulfillmentInit, Init, NothingMovesUnpaid, NewFulfillment, NoAssignment, Existing, Status
  <1>2. FulfillmentTypeOK /\ Fine /\ NothingMovesUnpaid /\ [FulfillmentNext]_allVars
            => NothingMovesUnpaid'
    BY NextUnpaid
  <1> QED BY <1>1, <1>2, FulfillmentShape, AlwaysFine, PTL DEF FulfillmentSpec

-----------------------------------------------------------------------------
(* What a delivered fulfillment has behind it, and when there are none.       *)

\* Its order was paid, it had packages and all of them arrived, an item was left in it,
\* a rider carried it to the end, and its code is gone.
DeliveredIsComplete ==
    \A f \in Deliveries : Status(f) = "DELIVERED" =>
        /\ order.paid
        /\ Existing(f) # {} /\ \A b \in Existing(f) : package[f][b] = "DELIVERED"
        /\ fulfillment[f].pending > 0
        /\ assignment[f].status = "COMPLETED" /\ assignment[f].rider \in Riders
        /\ ~fulfillment[f].otp

\* Whatever payment, vendor, rider, staff and dispatch did in whatever order, a
\* fulfillment reads DELIVERED only when all that belongs to a delivery has happened.
THEOREM DeliveryIsComplete == FulfillmentSpec => []DeliveredIsComplete
  <1>1. /\ FulfillmentTypeOK /\ Fine /\ NothingMovesUnpaid /\ NothingHalfPacked /\ ItemsAccounted
        /\ FulfillmentInStep /\ OtpWhileOut
        => DeliveredIsComplete
    <2> SUFFICES ASSUME FulfillmentTypeOK, Fine, NothingMovesUnpaid, NothingHalfPacked,
                        ItemsAccounted, FulfillmentInStep, OtpWhileOut,
                        NEW f \in Deliveries, Status(f) = "DELIVERED"
                 PROVE  /\ order.paid
                        /\ Existing(f) # {} /\ \A b \in Existing(f) : package[f][b] = "DELIVERED"
                        /\ fulfillment[f].pending > 0
                        /\ assignment[f].status = "COMPLETED" /\ assignment[f].rider \in Riders
                        /\ ~fulfillment[f].otp
      BY DEF DeliveredIsComplete
    <2>1. order.paid BY DEF NothingMovesUnpaid
    <2>2. Existing(f) # {} /\ \A b \in Existing(f) : package[f][b] = "DELIVERED"
      BY DEF NothingHalfPacked
    <2>3. fulfillment[f].pending > 0
      <3>1. fulfillment[f].pending \in 0..ItemCount BY DEF FulfillmentTypeOK
      <3>2. fulfillment[f].pending # 0 BY DEF ItemsAccounted, ItemsFit, Status
      <3> QED BY <3>1, <3>2, FulfillmentAssumption
    <2>4. assignment[f].status = "COMPLETED" BY DEF FulfillmentInStep, Beside
    <2>5. assignment[f].rider \in Riders BY <2>4 DEF Fine, AssignmentFine, AssignmentRows
    <2>6. ~fulfillment[f].otp BY DEF OtpWhileOut
    <2> QED BY <2>1, <2>2, <2>3, <2>4, <2>5, <2>6
  <1> QED BY <1>1, FulfillmentShape, AlwaysFine, UnpaidInvariant, PackedInvariant, ItemsInvariant,
          InStepInvariant, OtpInvariant, PTL

\* Nothing has left the store.
NothingGoesOut ==
    /\ \A f \in Deliveries : Status(f) \notin {"DISPATCHED", "OUT_FOR_DELIVERY", "DELIVERED"}
    /\ order.status # "DELIVERED"

\* With a strategy that cannot score, or with a database that refuses the dispatch lock,
\* no order is ever delivered: the cascades wait for an assignment that never comes.
THEOREM NothingIsDelivered ==
  ASSUME Strategy # "NEAREST" \/ RowLocks
  PROVE  FulfillmentSpec => []NothingGoesOut
  <1>1. Spec => []NothingOffered
    <2>1. CASE Strategy # "NEAREST" BY <2>1, BrokenStrategyOffersNothing
    <2>2. CASE RowLocks BY <2>2, LocksStopDispatch, PTL
    <2> QED BY <2>1, <2>2
  <1>2. NothingOffered /\ FulfillmentInStep /\ OrderDeliveredMeansAll => NothingGoesOut
    <2> SUFFICES ASSUME NothingOffered, FulfillmentInStep, OrderDeliveredMeansAll
                 PROVE  NothingGoesOut
      OBVIOUS
    <2>1. \A f \in Deliveries : Status(f) \notin {"DISPATCHED", "OUT_FOR_DELIVERY", "DELIVERED"}
      BY DEF NothingOffered, FulfillmentInStep, Beside, AdminCancellable
    <2>2. order.status # "DELIVERED" BY <2>1 DEF OrderDeliveredMeansAll
    <2> QED BY <2>1, <2>2 DEF NothingGoesOut
  <1> QED BY <1>1, <1>2, DispatchImplemented, InStepInvariant, OrderInvariant, PTL DEF DispatchSpec

=============================================================================
