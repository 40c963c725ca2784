--------------------------- MODULE DispatchProofs ---------------------------
(***************************************************************************)
(* Proofs about Dispatch, for any number of deliveries, riders, offers and *)
(* workers, any distances and any configuration.                           *)
(***************************************************************************)
EXTENDS Dispatch, FiniteSetTheorems, TLAPS

-----------------------------------------------------------------------------
(* The shape of the rows.  TypeOK is not inductive without RowsLinked: the   *)
(* riders excluded by a dispatch are the riders of offer rows.  The two are  *)
(* regrouped by variable, because most steps touch only one of them.         *)

DeliveryFine == delivery \in [Deliveries -> DeliveryStatus \cup {"ABSENT"}]

AssignmentFine ==
    /\ assignment \in [Deliveries -> AssignmentRows]
    /\ \A d \in Deliveries :
        /\ assignment[d].active <=> assignment[d].status \in ActiveStatus
        /\ assignment[d].rider = NoRider <=> assignment[d].status = "NONE"

ProfileFine == profile \in [Riders -> [online : BOOLEAN, available : BOOLEAN]]

\* The row x refers to a delivery that exists.
OfferFine(x) ==
    /\ x \in OfferRows
    /\ x.status # "FREE" => /\ x.delivery \in Deliveries
                            /\ delivery[x.delivery] # "ABSENT"
                            /\ x.rider \in Riders
    /\ x.status = "FREE" => x.delivery = NoDelivery

WorkerFine(x) ==
    /\ x \in WorkerStates
    /\ x.pc # "idle" => x.delivery \in Deliveries /\ delivery[x.delivery] # "ABSENT"

OffersFine == offer \in [Offers -> OfferRows] /\ \A o \in Offers : OfferFine(offer[o])
WorkersFine == worker \in [Workers -> WorkerStates] /\ \A w \in Workers : WorkerFine(worker[w])

Fine == DeliveryFine /\ AssignmentFine /\ ProfileFine /\ OffersFine /\ WorkersFine

\* No step removes a delivery.
Persists == \A d \in Deliveries : delivery[d] # "ABSENT" => delivery'[d] # "ABSENT"

LEMMA FineIsShape == TypeOK /\ RowsLinked <=> Fine
  <1>1. TypeOK /\ RowsLinked => Fine
    BY DEF TypeOK, RowsLinked, Fine, DeliveryFine, AssignmentFine, ProfileFine,
           OffersFine, WorkersFine, OfferFine, WorkerFine
  <1>2. Fine => TypeOK /\ RowsLinked
    BY DEF TypeOK, RowsLinked, Fine, DeliveryFine, AssignmentFine, ProfileFine,
           OffersFine, WorkersFine, OfferFine, WorkerFine
  <1> QED BY <1>1, <1>2

LEMMA OffersStay ==
  ASSUME OffersFine, Persists, UNCHANGED offer
  PROVE  OffersFine'
  BY DEF OffersFine, OfferFine, Persists

LEMMA WorkersStay ==
  ASSUME WorkersFine, Persists, UNCHANGED worker
  PROVE  WorkersFine'
  BY DEF WorkersFine, WorkerFine, Persists

LEMMA WorkerSet ==
  ASSUME WorkersFine, Persists, NEW w \in Workers, NEW x, WorkerFine(x),
         worker' = [worker EXCEPT ![w] = x]
  PROVE  WorkersFine'
  <1>1. worker' \in [Workers -> WorkerStates] BY DEF WorkersFine, WorkerFine
  <1>2. ASSUME NEW v \in Workers PROVE WorkerFine(worker[v])'
    <2>1. WorkerFine(worker'[v]) BY DEF WorkersFine
    <2> QED BY <2>1 DEF WorkerFine, Persists
  <1> QED BY <1>1, <1>2 DEF WorkersFine

LEMMA OfferSet ==
  ASSUME OffersFine, Persists, NEW o \in Offers, NEW x, OfferFine(x),
         offer' = [offer EXCEPT ![o] = x]
  PROVE  OffersFine'
  <1>1. offer' \in [Offers -> OfferRows] BY DEF OffersFine, OfferFine
  <1>2. ASSUME NEW p \in Offers PROVE OfferFine(offer[p])'
    <2>1. OfferFine(offer'[p]) BY DEF OffersFine
    <2> QED BY <2>1 DEF OfferFine, Persists
  <1> QED BY <1>1, <1>2 DEF OffersFine

\* Writing a status other than FREE into a row that exists.
LEMMA OfferMarked ==
  ASSUME NEW x, OfferFine(x), x.status # "FREE", NEW s \in OfferStatus
  PROVE  OfferFine([x EXCEPT !.status = s])
  BY DEF OfferFine, OfferRows, OfferStatus

LEMMA OffersWithdrawn ==
  ASSUME OffersFine, NEW d, NEW keep
  PROVE  /\ Withdrawn(d, keep) \in [Offers -> OfferRows]
         /\ \A o \in Offers : OfferFine(Withdrawn(d, keep)[o])
  <1>1. ASSUME NEW o \in Offers PROVE OfferFine(Withdrawn(d, keep)[o])
    <2>1. OfferFine(offer[o]) BY DEF OffersFine
    <2>2. "CANCELLED" \in OfferStatus BY DEF OfferStatus
    <2>3. Pending(o) => OfferFine([offer[o] EXCEPT !.status = "CANCELLED"])
      BY <2>1, <2>2, OfferMarked DEF Pending
    <2> QED BY <2>1, <2>3 DEF Withdrawn
  <1>2. Withdrawn(d, keep) \in [Offers -> OfferRows] BY <1>1 DEF Withdrawn, OfferFine
  <1> QED BY <1>1, <1>2

LEMMA OffersReplaced ==
  ASSUME Persists, offer' \in [Offers -> OfferRows], \A o \in Offers : OfferFine(offer'[o])
  PROVE  OffersFine'
  BY DEF OffersFine, OfferFine, Persists

-----------------------------------------------------------------------------
\* A running dispatch()

LEMMA RadiusFine == 0 \in 0..MaximumRadius /\ InitialRadius \in 0..MaximumRadius
  BY ConfigurationAssumption

LEMMA IdleFine == WorkerFine(Idle)
  BY RadiusFine DEF WorkerFine, WorkerStates, Idle

LEMMA StartFine ==
  ASSUME NEW d \in Deliveries, delivery[d] # "ABSENT"
  PROVE  WorkerFine([Idle EXCEPT !.pc = "dispatch", !.delivery = d])
  BY RadiusFine DEF WorkerFine, WorkerStates, Idle

LEMMA DispatchStepFine ==
  ASSUME Fine, NEW w \in Workers, DispatchStep(w) \/ Crash(w)
  PROVE  Fine'
  <1> DEFINE d == worker[w].delivery
  <1>w. WorkerFine(worker[w]) BY DEF Fine, WorkersFine
  <1>d. worker[w].pc # "idle" => d \in Deliveries /\ delivery[d] # "ABSENT"
    BY <1>w DEF WorkerFine
  <1>s. ASSUME UNCHANGED <<delivery, assignment, offer, profile>>,
               NEW x, WorkerFine(x), worker' = [worker EXCEPT ![w] = x]
        PROVE  Fine'
    <2>1. Persists BY <1>s DEF Persists
    <2>2. WorkersFine' BY <1>s, <2>1, WorkerSet DEF Fine
    <2>3. OffersFine' BY <1>s, <2>1, OffersStay DEF Fine
    <2> QED BY <1>s, <2>2, <2>3 DEF Fine, DeliveryFine, AssignmentFine, ProfileFine
  <1>1. CASE DispatchRead(w)
    <2> DEFINE x == IF CanLockDelivery /\ delivery[d] \notin Terminal
                    THEN [worker[w] EXCEPT !.pc = "waiting", !.seen = delivery[d],
                                           !.excluded = Excluded(d)]
                    ELSE Idle
    <2>1. Excluded(d) \subseteq Riders
      <3>1. ASSUME NEW o \in OffersOf(d) PROVE offer[o].rider \in Riders
        BY <1>1, <1>d, <3>1, ConfigurationAssumption
        DEF DispatchRead, OffersOf, Fine, OffersFine, OfferFine
      <3> QED BY <3>1 DEF Excluded
    <2>2. delivery[d] \in DeliveryStatus
      BY <1>1, <1>d DEF DispatchRead, Fine, DeliveryFine
    <2>3. WorkerFine([worker[w] EXCEPT !.pc = "waiting", !.seen = delivery[d],
                                       !.excluded = Excluded(d)])
      BY <1>1, <1>w, <1>d, <2>1, <2>2 DEF DispatchRead, WorkerFine, WorkerStates
    <2>4. WorkerFine(x) BY <2>3, IdleFine
    <2> QED BY <1>1, <1>s, <2>4 DEF DispatchRead
  <1>2. CASE SetDeliveryWaitingForRider(w)
    <2>1. CASE worker[w].seen \in Dispatchable
      <3>1. WorkerFine([worker[w] EXCEPT !.pc = "match", !.radius = InitialRadius])
        BY <1>2, <1>w, <1>d, RadiusFine
        DEF SetDeliveryWaitingForRider, WorkerFine, WorkerStates
      <3>2. /\ delivery' = [delivery EXCEPT ![d] = "WAITING_FOR_RIDER"]
            /\ worker' = [worker EXCEPT ![w] =
                    [worker[w] EXCEPT !.pc = "match", !.radius = InitialRadius]]
            /\ UNCHANGED <<assignment, offer, profile>>
        BY <1>2, <2>1 DEF SetDeliveryWaitingForRider, Fine, WorkersFine
      <3>3. DeliveryFine' BY <3>2 DEF Fine, DeliveryFine, DeliveryStatus
      <3>4. Persists BY <3>2 DEF Persists, Fine, DeliveryFine
      <3>5. WorkersFine' BY <3>1, <3>2, <3>4, WorkerSet DEF Fine
      <3>6. OffersFine' BY <3>2, <3>4, OffersStay DEF Fine
      <3> QED BY <3>2, <3>3, <3>5, <3>6 DEF Fine, AssignmentFine, ProfileFine
    <2>2. CASE worker[w].seen \notin Dispatchable
      BY <1>2, <1>s, <2>2, IdleFine DEF SetDeliveryWaitingForRider
    <2> QED BY <2>1, <2>2
  <1>3. CASE FindMatches(w)
    <2> DEFINE matches == {r \in Available(worker[w].excluded) :
                                Distance[d][r] <= worker[w].radius}
               next == worker[w].radius + Increment
               x == IF matches # {}
                    THEN Ranked(worker[w], matches)
                    ELSE IF next <= MaximumRadius
                         THEN [worker[w] EXCEPT !.radius = next] ELSE Idle
    <2>1. matches \subseteq Riders BY DEF Available
    <2>2. WorkerFine([worker[w] EXCEPT !.pc = "offer", !.ranked = matches])
      BY <1>3, <1>w, <1>d, <2>1 DEF FindMatches, WorkerFine, WorkerStates
    <2>3. next <= MaximumRadius => WorkerFine([worker[w] EXCEPT !.radius = next])
      BY <1>w, <1>d, ConfigurationAssumption DEF WorkerFine, WorkerStates
    <2>4. WorkerFine(x) BY <2>2, <2>3, IdleFine DEF Ranked
    <2> QED BY <1>3, <1>s, <2>4 DEF FindMatches
  <1>4. ASSUME NEW r \in Riders, NEW o \in Offers, CreateOffer(w, r, o) PROVE Fine'
    <2> DEFINE x == [status |-> "PENDING", delivery |-> d, rider |-> r, late |-> FALSE]
    <2>1. OfferFine(x) BY <1>4, <1>d DEF CreateOffer, OfferFine, OfferRows, OfferStatus
    <2>2. Persists BY <1>4 DEF CreateOffer, Persists
    <2>3. OffersFine' BY <1>4, <2>1, <2>2, OfferSet DEF CreateOffer, Fine
    <2>4. WorkersFine' BY <1>4, <2>2, IdleFine, WorkerSet DEF CreateOffer, Fine
    <2> QED BY <1>4, <2>3, <2>4
        DEF CreateOffer, Fine, DeliveryFine, AssignmentFine, ProfileFine
  <1>5. ASSUME NEW r \in Riders, ExcludeRider(w, r) PROVE Fine'
    <2>1. WorkerFine([worker[w] EXCEPT !.ranked = @ \ {r}])
      BY <1>w DEF WorkerFine, WorkerStates
    <2>2. worker' = [worker EXCEPT ![w] = [worker[w] EXCEPT !.ranked = @ \ {r}]]
      BY <1>5 DEF ExcludeRider, Fine, WorkersFine
    <2> QED BY <1>5, <1>s, <2>1, <2>2 DEF ExcludeRider
  <1>6. CASE NoRiderRemains(w) \/ Crash(w)
    BY <1>6, <1>s, IdleFine DEF NoRiderRemains, Crash
  <1> QED BY <1>1, <1>2, <1>3, <1>4, <1>5, <1>6 DEF DispatchStep

-----------------------------------------------------------------------------
\* The other steps

LEMMA DeliverySet ==
  ASSUME DeliveryFine, NEW d, NEW s \in DeliveryStatus,
         delivery' = [delivery EXCEPT ![d] = s]
  PROVE  DeliveryFine' /\ Persists
  BY DEF DeliveryFine, Persists, DeliveryStatus

LEMMA DeliveryStays ==
  ASSUME DeliveryFine, UNCHANGED delivery
  PROVE  DeliveryFine' /\ Persists
  BY DEF DeliveryFine, Persists

\* The new value of an assignment row keeps its flag and its rider in step.
LEMMA AssignmentSet ==
  ASSUME AssignmentFine, NEW d \in Deliveries, NEW x \in AssignmentRows,
         x.active <=> x.status \in ActiveStatus,
         x.rider = NoRider <=> x.status = "NONE",
         assignment' = [assignment EXCEPT ![d] = x]
  PROVE  AssignmentFine'
  BY DEF AssignmentFine

LEMMA ProfileSet ==
  ASSUME ProfileFine, NEW r, NEW b \in BOOLEAN,
         profile' \in {profile, [profile EXCEPT ![r].available = b]}
  PROVE  ProfileFine'
  BY DEF ProfileFine

LEMMA FreedFine ==
  ASSUME ProfileFine, NEW r, NEW d, profile' = FreedBy(r, d)
  PROVE  ProfileFine'
  BY ProfileSet DEF FreedBy

LEMMA RedispatchFine ==
  ASSUME WorkersFine, Persists, NEW w \in Workers,
         NEW d \in Deliveries, delivery[d] # "ABSENT", Redispatch(w, d)
  PROVE  WorkersFine'
  <1>1. CASE AutoRedispatch
    BY <1>1, StartFine, WorkerSet DEF Redispatch, StartDispatch
  <1>2. CASE ~AutoRedispatch BY <1>2, WorkersStay DEF Redispatch
  <1> QED BY <1>1, <1>2

LEMMA EntryFine ==
  ASSUME Fine, NEW w \in Workers, NEW d \in Deliveries,
         DeliveryCreated(w, d) \/ StaffDispatch(w, d)
  PROVE  Fine'
  <1>1. CASE DeliveryCreated(w, d)
    <2>1. "PENDING" \in DeliveryStatus BY DEF DeliveryStatus
    <2>2. DeliveryFine' /\ Persists
      BY <1>1, <2>1, DeliverySet DEF DeliveryCreated, Fine
    <2>3. WorkerFine([Idle EXCEPT !.pc = "dispatch", !.delivery = d])'
      <3>1. delivery'[d] # "ABSENT" BY <1>1 DEF DeliveryCreated, Fine, DeliveryFine
      <3> QED BY <3>1, RadiusFine DEF WorkerFine, WorkerStates, Idle
    <2>4. WorkersFine'
      <3>1. worker' = [worker EXCEPT ![w] = [Idle EXCEPT !.pc = "dispatch", !.delivery = d]]
        BY <1>1 DEF DeliveryCreated, StartDispatch
      <3>2. worker' \in [Workers -> WorkerStates]
        BY <2>3, <3>1 DEF Fine, WorkersFine, WorkerFine
      <3>3. ASSUME NEW v \in Workers PROVE WorkerFine(worker[v])'
        <4>1. CASE v = w BY <2>3, <3>1, <4>1 DEF Fine, WorkersFine
        <4>2. CASE v # w
          BY <2>2, <3>1, <4>2 DEF Fine, WorkersFine, WorkerFine, Persists
        <4> QED BY <4>1, <4>2
      <3> QED BY <3>2, <3>3 DEF WorkersFine
    <2>5. OffersFine' BY <1>1, <2>2, OffersStay DEF DeliveryCreated, Fine
    <2> QED BY <1>1, <2>2, <2>4, <2>5 DEF DeliveryCreated, Fine, AssignmentFine, ProfileFine
  <1>2. CASE StaffDispatch(w, d)
    <2>1. DeliveryFine' /\ Persists BY <1>2, DeliveryStays DEF StaffDispatch, Fine
    <2>2. WorkersFine'
      BY <1>2, <2>1, StartFine, WorkerSet DEF StaffDispatch, StartDispatch, Fine
    <2>3. OffersFine' BY <1>2, <2>1, OffersStay DEF StaffDispatch, Fine
    <2> QED BY <1>2, <2>1, <2>2, <2>3 DEF StaffDispatch, Fine, AssignmentFine, ProfileFine
  <1> QED BY <1>1, <1>2

LEMMA OfferStepFine ==
  ASSUME Fine, NEW o \in Offers, OfferStep(o)
  PROVE  Fine'
  <1> DEFINE d == offer[o].delivery
             r == offer[o].rider
  <1>o. OfferFine(offer[o]) BY DEF Fine, OffersFine
  <1>d. Pending(o) => d \in Deliveries /\ delivery[d] # "ABSENT" /\ r \in Riders
    BY <1>o DEF Pending, OfferFine
  <1>m. ASSUME Pending(o), NEW s \in OfferStatus, Persists,
               offer' = [offer EXCEPT ![o].status = s]
        PROVE  OffersFine'
    <2>1. OfferFine([offer[o] EXCEPT !.status = s]) BY <1>m, <1>o, OfferMarked DEF Pending
    <2>2. offer' = [offer EXCEPT ![o] = [offer[o] EXCEPT !.status = s]]
      BY <1>m DEF Fine, OffersFine
    <2> QED BY <1>m, <2>1, <2>2, OfferSet DEF Fine
  <1>s. {"ACCEPTED", "REJECTED", "EXPIRED", "CANCELLED"} \subseteq OfferStatus
    BY DEF OfferStatus
  <1>1. CASE DeadlinePasses(o)
    <2>1. DeliveryFine' /\ Persists BY <1>1, DeliveryStays DEF DeadlinePasses, Fine
    <2>2. OfferFine([offer[o] EXCEPT !.late = TRUE]) BY <1>o DEF OfferFine, OfferRows
    <2>3. offer' = [offer EXCEPT ![o] = [offer[o] EXCEPT !.late = TRUE]]
      BY <1>1 DEF DeadlinePasses, Fine, OffersFine
    <2>4. OffersFine' BY <2>1, <2>2, <2>3, OfferSet DEF Fine
    <2>5. WorkersFine' BY <1>1, <2>1, WorkersStay DEF DeadlinePasses, Fine
    <2> QED BY <1>1, <2>1, <2>4, <2>5 DEF DeadlinePasses, Fine, AssignmentFine, ProfileFine
  <1>2. CASE AcceptOffer(o)
    <2>1. d \in Deliveries /\ delivery[d] # "ABSENT" /\ r \in Riders
      BY <1>2, <1>d DEF AcceptOffer
    <2>2. "RIDER_ASSIGNED" \in DeliveryStatus BY DEF DeliveryStatus
    <2>3. DeliveryFine' /\ Persists BY <1>2, <2>2, DeliverySet DEF AcceptOffer, Fine
    <2>4. AssignmentFine'
      BY <1>2, <2>1, AssignmentSet, ConfigurationAssumption
      DEF AcceptOffer, Fine, AssignmentRows, ActiveStatus
    <2>5. ProfileFine' BY <1>2, ProfileSet DEF AcceptOffer, Fine
    <2>6. OffersFine'
      <3>1. OfferFine(Withdrawn(d, {r})[o]) BY OffersWithdrawn DEF Fine
      <3>2. Withdrawn(d, {r})[o] = offer[o] BY DEF Withdrawn
      <3>3. OfferFine([offer[o] EXCEPT !.status = "ACCEPTED"])
        BY <1>2, <1>o, <1>s, OfferMarked DEF AcceptOffer, Pending
      <3>4. offer' = [Withdrawn(d, {r}) EXCEPT ![o] = [offer[o] EXCEPT !.status = "ACCEPTED"]]
        BY <1>2, <3>2 DEF AcceptOffer, Withdrawn
      <3>5. Withdrawn(d, {r}) \in [Offers -> OfferRows] BY OffersWithdrawn DEF Fine
      <3>6. offer' \in [Offers -> OfferRows] BY <3>3, <3>4, <3>5 DEF OfferFine
      <3>7. \A p \in Offers : OfferFine(offer'[p])
        BY <3>3, <3>4, <3>5, OffersWithdrawn DEF Fine
      <3> QED BY <2>3, <3>6, <3>7, OffersReplaced
    <2>7. WorkersFine' BY <1>2, <2>3, WorkersStay DEF AcceptOffer, Fine
    <2> QED BY <2>3, <2>4, <2>5, <2>6, <2>7 DEF Fine
  <1>3. CASE CancelOffer(o)
    <2>1. DeliveryFine' /\ Persists BY <1>3, DeliveryStays DEF CancelOffer, Fine
    <2>2. OffersFine' BY <1>3, <1>m, <1>s, <2>1 DEF CancelOffer
    <2>3. WorkersFine' BY <1>3, <2>1, WorkersStay DEF CancelOffer, Fine
    <2> QED BY <1>3, <2>1, <2>2, <2>3 DEF CancelOffer, Fine, AssignmentFine, ProfileFine
  <1>4. ASSUME NEW w \in Workers, RejectOffer(w, o) \/ ExpireOffer(w, o) PROVE Fine'
    <2> USE <1>4 DEF RejectOffer, ExpireOffer
    <2>1. DeliveryFine' /\ Persists BY DeliveryStays DEF Fine
    <2>2. OffersFine' BY <1>m, <1>s, <2>1
    <2>3. WorkersFine' BY <1>d, <2>1, RedispatchFine DEF Fine
    <2> QED BY <2>1, <2>2, <2>3 DEF Fine, AssignmentFine, ProfileFine
  <1> QED BY <1>1, <1>2, <1>3, <1>4 DEF OfferStep

\* A lifecycle step that leaves offers, profiles and workers alone.
LEMMA AdvanceFine ==
  ASSUME Fine, NEW d \in Deliveries, NEW from \in ActiveStatus, NEW dfrom,
         NEW to \in ActiveStatus, NEW dto \in DeliveryStatus,
         Advance(d, from, dfrom, to, dto)
  PROVE  Fine'
  <1> USE DEF Advance
  <1>1. DeliveryFine' /\ Persists BY DeliverySet DEF Fine
  <1>2. AssignmentFine'
    <2>1. assignment' = [assignment EXCEPT ![d] = [assignment[d] EXCEPT !.status = to]]
      BY DEF Fine, AssignmentFine
    <2>2. to # "NONE" /\ from # "NONE" BY DEF ActiveStatus
    <2>3. [assignment[d] EXCEPT !.status = to] \in AssignmentRows
      BY DEF Fine, AssignmentFine, AssignmentRows
    <2> QED BY <2>1, <2>2, <2>3, AssignmentSet DEF Fine, AssignmentFine, AssignmentRows
  <1>3. OffersFine' /\ WorkersFine' BY <1>1, OffersStay, WorkersStay DEF Fine
  <1> QED BY <1>1, <1>2, <1>3 DEF Fine, ProfileFine

\* A lifecycle step that ends the assignment.
LEMMA EndedFine ==
  ASSUME AssignmentFine, NEW d \in Deliveries, assignment[d].active,
         NEW s \in {"COMPLETED", "CANCELLED"},
         assignment' = [assignment EXCEPT ![d].status = s, ![d].active = FALSE]
  PROVE  AssignmentFine'
  <1>1. assignment' = [assignment EXCEPT ![d] =
                          [assignment[d] EXCEPT !.status = s, !.active = FALSE]]
    BY DEF AssignmentFine
  <1>2. [assignment[d] EXCEPT !.status = s, !.active = FALSE] \in AssignmentRows
    BY DEF AssignmentFine, AssignmentRows
  <1>3. s # "NONE" /\ s \notin ActiveStatus /\ assignment[d].status # "NONE"
    BY DEF AssignmentFine, ActiveStatus
  <1> QED BY <1>1, <1>2, <1>3, AssignmentSet DEF AssignmentFine, AssignmentRows

LEMMA LifecycleStepFine ==
  ASSUME Fine, NEW d \in Deliveries, LifecycleStep(d)
  PROVE  Fine'
  <1>s. {"CANCELLED", "DELIVERED", "WAITING_FOR_RIDER"} \subseteq DeliveryStatus
    BY DEF DeliveryStatus
  <1>1. CASE AcceptAssignment(d) \/ StartPickup(d) \/ ArrivePickup(d)
             \/ PickupCompleted(d) \/ StartDelivery(d) \/ ArriveDestination(d)
    BY <1>1, AdvanceFine DEF ActiveStatus, DeliveryStatus, AcceptAssignment, StartPickup,
       ArrivePickup, PickupCompleted, StartDelivery, ArriveDestination
  <1>2. CASE Complete(d)
    <2> USE <1>2 DEF Complete
    <2>1. DeliveryFine' /\ Persists BY <1>s, DeliverySet DEF Fine
    <2>2. AssignmentFine' BY EndedFine DEF Fine
    <2>3. ProfileFine' BY FreedFine DEF Fine
    <2>4. OffersFine' /\ WorkersFine' BY <2>1, OffersStay, WorkersStay DEF Fine
    <2> QED BY <2>1, <2>2, <2>3, <2>4 DEF Fine
  <1>3. CASE CancelByAdmin(d)
    <2> USE <1>3 DEF CancelByAdmin
    <2>1. DeliveryFine' /\ Persists BY <1>s, DeliverySet DEF Fine
    <2>2. AssignmentFine' BY EndedFine DEF Fine
    <2>3. ProfileFine' BY FreedFine DEF Fine
    <2>4. OffersFine' BY <2>1, OffersWithdrawn, OffersReplaced DEF Fine
    <2>5. WorkersFine' BY <2>1, WorkersStay DEF Fine
    <2> QED BY <2>1, <2>2, <2>3, <2>4, <2>5 DEF Fine
  <1>4. CASE RestartCancelledAssignment(d) \/ CancelFulfillment(d)
    <2> USE <1>4 DEF RestartCancelledAssignment, CancelFulfillment
    <2>1. DeliveryFine' /\ Persists BY <1>s, DeliverySet DEF Fine
    <2>2. OffersFine' BY <2>1, OffersWithdrawn, OffersReplaced DEF Fine
    <2>3. WorkersFine' BY <2>1, WorkersStay DEF Fine
    <2> QED BY <2>1, <2>2, <2>3 DEF Fine, AssignmentFine, ProfileFine
  <1> QED BY <1>1, <1>2, <1>3, <1>4 DEF LifecycleStep

LEMMA ToggleFine ==
  ASSUME Fine, NEW r \in Riders, ToggleOnline(r)
  PROVE  Fine'
  <1> USE DEF ToggleOnline
  <1>1. DeliveryFine' /\ Persists BY DeliveryStays DEF Fine
  <1>2. OffersFine' /\ WorkersFine' BY <1>1, OffersStay, WorkersStay DEF Fine
  <1>3. ProfileFine' BY DEF Fine, ProfileFine
  <1> QED BY <1>1, <1>2, <1>3 DEF Fine, AssignmentFine

LEMMA StutterFine ==
  ASSUME Fine, UNCHANGED vars
  PROVE  Fine'
  BY DEF vars, Fine, DeliveryFine, AssignmentFine, ProfileFine, OffersFine, WorkersFine,
         OfferFine, WorkerFine

LEMMA InitFine == Init => Fine
  <1> SUFFICES ASSUME Init PROVE Fine OBVIOUS
  <1> USE DEF Init
  <1>1. DeliveryFine /\ ProfileFine BY DEF DeliveryFine, ProfileFine
  <1>2. AssignmentFine
    BY ConfigurationAssumption DEF AssignmentFine, AssignmentRows, NoAssignment, ActiveStatus
  <1>3. OfferFine(FreeOffer) BY DEF OfferFine, OfferRows, FreeOffer
  <1>4. OffersFine BY <1>3 DEF OffersFine, OfferFine
  <1>5. WorkersFine BY IdleFine DEF WorkersFine, WorkerFine
  <1> QED BY <1>1, <1>2, <1>4, <1>5 DEF Fine

LEMMA NextFine == Fine /\ [Next]_vars => Fine'
  BY DispatchStepFine, EntryFine, OfferStepFine, LifecycleStepFine, ToggleFine, StutterFine
  DEF Next

\* Every row keeps its type and its links, however the handlers interleave: the shape
\* on which eligibility and assignment rely (TypeOK and RowsLinked of Dispatch).
THEOREM ShapeInvariant == Spec => [](TypeOK /\ RowsLinked)
  <1>1. Spec => []Fine BY InitFine, NextFine, PTL DEF Spec
  <1> QED BY <1>1, FineIsShape, PTL

\* Eligibility's two ways of counting a rider's workload agree, and no offer or running
\* dispatch refers to what does not exist (RowsLinked).
THEOREM LinksInvariant == Spec => []RowsLinked
  BY ShapeInvariant, PTL

-----------------------------------------------------------------------------
(* Who carries what.  Exclusivity rests on availability and the other way    *)
(* round: assign refuses a rider who is not available, and a rider is made   *)
(* available again only because no second assignment of his can be active.   *)

Exclusive == OneActiveAssignmentPerRider /\ RiderAvailability

LEMMA CarriesActive ==
  ASSUME AssignmentFine, NEW r \in Riders, NEW d \in Deliveries
  PROVE  Carries(r, d) <=> assignment[d].active /\ assignment[d].rider = r
  BY DEF AssignmentFine, Carries

\* The steps after which everybody carries what he carried before.
CarriesSame ==
    /\ \A r \in Riders, d \in Deliveries : Carries(r, d)' <=> Carries(r, d)
    /\ \A r \in Riders : profile'[r].available = profile[r].available

LEMMA SameExclusive ==
  ASSUME Exclusive, CarriesSame
  PROVE  Exclusive'
  <1>1. OneActiveAssignmentPerRider'
    BY DEF Exclusive, CarriesSame, OneActiveAssignmentPerRider
  <1>2. RiderAvailability' BY DEF Exclusive, CarriesSame, RiderAvailability
  <1> QED BY <1>1, <1>2 DEF Exclusive

LEMMA UnchangedSame ==
  ASSUME UNCHANGED <<assignment, profile>>
  PROVE  CarriesSame
  BY DEF CarriesSame, Carries

LEMMA AdvanceSame ==
  ASSUME Fine, NEW d \in Deliveries, NEW from \in ActiveStatus, NEW dfrom,
         NEW to \in ActiveStatus, NEW dto, Advance(d, from, dfrom, to, dto)
  PROVE  CarriesSame
  <1>1. ASSUME NEW r \in Riders, NEW e \in Deliveries
        PROVE  Carries(r, e)' <=> Carries(r, e)
    BY DEF Advance, Carries, Fine, AssignmentFine, AssignmentRows
  <1> QED BY <1>1 DEF CarriesSame, Advance

\* The end of an assignment: its rider carries nothing else, so he is freed.
LEMMA EndedExclusive ==
  ASSUME Fine, Exclusive, NEW d \in Deliveries, assignment[d].active,
         NEW s \in {"COMPLETED", "CANCELLED"},
         assignment' = [assignment EXCEPT ![d].status = s, ![d].active = FALSE],
         profile' = FreedBy(assignment[d].rider, d)
  PROVE  Exclusive'
  <1> DEFINE r == assignment[d].rider
  <1>1. r \in Riders
    BY DEF Fine, AssignmentFine, AssignmentRows, ActiveStatus
  <1>2. Carries(r, d) BY <1>1, CarriesActive DEF Fine
  <1>3. \A e \in Deliveries \ {d} : ~Carries(r, e)
    BY <1>1, <1>2 DEF Exclusive, OneActiveAssignmentPerRider
  <1>4. profile' = [profile EXCEPT ![r].available = TRUE] BY <1>3 DEF FreedBy
  <1>5. \A q \in Riders : ~Carries(q, d)' BY DEF Carries, Fine, AssignmentFine
  <1>6. \A q \in Riders : \A e \in Deliveries \ {d} : Carries(q, e)' <=> Carries(q, e)
    BY DEF Carries, Fine, AssignmentFine
  <1>7. OneActiveAssignmentPerRider'
    BY <1>5, <1>6 DEF Exclusive, OneActiveAssignmentPerRider
  <1>8. ASSUME NEW q \in Riders
        PROVE  profile'[q].available <=> \A e \in Deliveries : ~Carries(q, e)'
    <2>1. CASE q = r BY <1>3, <1>4, <1>5, <1>6, <2>1 DEF Fine, ProfileFine
    <2>2. CASE q # r
      <3>1. profile'[q].available = profile[q].available
        BY <1>4, <2>2 DEF Fine, ProfileFine
      <3>2. ~Carries(q, d) BY <2>2 DEF Carries
      <3> QED BY <1>5, <1>6, <3>1, <3>2 DEF Exclusive, RiderAvailability
    <2> QED BY <2>1, <2>2
  <1> QED BY <1>7, <1>8 DEF Exclusive, RiderAvailability

LEMMA AcceptExclusive ==
  ASSUME Fine, Exclusive, NEW o \in Offers, AcceptOffer(o)
  PROVE  Exclusive'
  <1>1. PICK d \in Deliveries, r \in Riders : d = offer[o].delivery /\ r = offer[o].rider
    BY DEF AcceptOffer, Pending, Fine, OffersFine, OfferFine
  <1>2. ~assignment[d].active
    BY <1>1 DEF AcceptOffer, RowAssignable, Fine, AssignmentFine, ActiveStatus
  <1>3. \A e \in Deliveries : ~Carries(r, e)
    BY <1>1 DEF AcceptOffer, RiderAssignable, Exclusive, RiderAvailability
  <1>4. \A q \in Riders : Carries(q, d)' <=> q = r
    BY <1>1 DEF AcceptOffer, Carries, Fine, AssignmentFine, ActiveStatus
  <1>5. \A q \in Riders : \A e \in Deliveries \ {d} : Carries(q, e)' <=> Carries(q, e)
    BY <1>1 DEF AcceptOffer, Carries, Fine, AssignmentFine
  <1>6. \A q \in Riders : ~Carries(q, d) BY <1>2 DEF Carries
  <1>7. OneActiveAssignmentPerRider'
    BY <1>3, <1>4, <1>5 DEF Exclusive, OneActiveAssignmentPerRider
  <1>8. ASSUME NEW q \in Riders
        PROVE  profile'[q].available <=> \A e \in Deliveries : ~Carries(q, e)'
    <2>1. CASE q = r
      BY <1>1, <1>4, <2>1 DEF AcceptOffer, Fine, ProfileFine
    <2>2. CASE q # r
      <3>1. profile'[q].available = profile[q].available
        BY <1>1, <2>2 DEF AcceptOffer, Fine, ProfileFine
      <3> QED BY <1>4, <1>5, <1>6, <2>2, <3>1 DEF Exclusive, RiderAvailability
    <2> QED BY <2>1, <2>2
  <1> QED BY <1>7, <1>8 DEF Exclusive, RiderAvailability

LEMMA NextExclusive == Fine /\ Exclusive /\ [Next]_vars => Exclusive'
  <1> SUFFICES ASSUME Fine, Exclusive, [Next]_vars PROVE Exclusive' OBVIOUS
  <1>1. CASE UNCHANGED vars BY <1>1, UnchangedSame, SameExclusive DEF vars
  <1>2. ASSUME NEW w \in Workers, DispatchStep(w) \/ Crash(w) PROVE Exclusive'
    BY <1>2, UnchangedSame, SameExclusive
    DEF DispatchStep, DispatchRead, SetDeliveryWaitingForRider, FindMatches, CreateOffer,
        ExcludeRider, NoRiderRemains, Crash
  <1>3. ASSUME NEW w \in Workers, NEW d \in Deliveries,
               DeliveryCreated(w, d) \/ StaffDispatch(w, d)
        PROVE  Exclusive'
    BY <1>3, UnchangedSame, SameExclusive DEF DeliveryCreated, StaffDispatch
  <1>4. ASSUME NEW o \in Offers, OfferStep(o) PROVE Exclusive'
    <2>1. CASE AcceptOffer(o) BY <2>1, AcceptExclusive
    <2>2. CASE ~AcceptOffer(o)
      BY <1>4, <2>2, UnchangedSame, SameExclusive
      DEF OfferStep, DeadlinePasses, CancelOffer, RejectOffer, ExpireOffer
    <2> QED BY <2>1, <2>2
  <1>5. ASSUME NEW d \in Deliveries, LifecycleStep(d) PROVE Exclusive'
    <2>1. CASE AcceptAssignment(d) \/ StartPickup(d) \/ ArrivePickup(d)
               \/ PickupCompleted(d) \/ StartDelivery(d) \/ ArriveDestination(d)
      BY <2>1, AdvanceSame, SameExclusive
      DEF ActiveStatus, AcceptAssignment, StartPickup, ArrivePickup, PickupCompleted,
          StartDelivery, ArriveDestination
    <2>2. CASE Complete(d) BY <2>2, EndedExclusive DEF Complete
    <2>3. CASE CancelByAdmin(d) BY <2>3, EndedExclusive DEF CancelByAdmin
    <2>4. CASE RestartCancelledAssignment(d) \/ CancelFulfillment(d)
      BY <2>4, UnchangedSame, SameExclusive DEF RestartCancelledAssignment, CancelFulfillment
    <2> QED BY <1>5, <2>1, <2>2, <2>3, <2>4 DEF LifecycleStep
  <1>6. ASSUME NEW r \in Riders, ToggleOnline(r) PROVE Exclusive'
    <2>1. CarriesSame
      BY <1>6 DEF ToggleOnline, CarriesSame, Carries, Fine, ProfileFine
    <2> QED BY <2>1, SameExclusive
  <1> QED BY <1>1, <1>2, <1>3, <1>4, <1>5, <1>6 DEF Next

LEMMA InitExclusive == Init => Exclusive
  BY DEF Init, Exclusive, OneActiveAssignmentPerRider, RiderAvailability, Carries, NoAssignment

LEMMA AlwaysFineAndExclusive == Spec => [](Fine /\ Exclusive)
  <1>1. Init => Fine /\ Exclusive BY InitFine, InitExclusive
  <1>2. (Fine /\ Exclusive) /\ [Next]_vars => (Fine /\ Exclusive)'
    BY NextFine, NextExclusive
  <1> QED BY <1>1, <1>2, PTL DEF Spec

\* No rider ever has two active assignments, whatever offers he accepts in whatever
\* order (OneActiveAssignmentPerRider), for any number of riders and deliveries.
THEOREM RiderExclusivity == Spec => []OneActiveAssignmentPerRider
  BY AlwaysFineAndExclusive, PTL DEF Exclusive

\* is_available says exactly whether a rider carries a delivery (RiderAvailability).
THEOREM AvailabilityInvariant == Spec => []RiderAvailability
  BY AlwaysFineAndExclusive, PTL DEF Exclusive

\* maximum_active_deliveries makes no difference above 1: whatever it is set to, the
\* workload is_eligible compares it with is never more than 1, because
\* _ensure_rider_assignable refuses a second delivery without asking the configuration.
THEOREM WorkloadIsAtMostOne == Spec => [](\A r \in Riders : Workload(r) \in {0, 1})
  <1>1. OneActiveAssignmentPerRider => \A r \in Riders : Workload(r) \in {0, 1}
    <2> SUFFICES ASSUME OneActiveAssignmentPerRider, NEW r \in Riders
                 PROVE  Workload(r) \in {0, 1}
      OBVIOUS
    <2> DEFINE carried == {d \in Deliveries : Carries(r, d)}
    <2>1. CASE carried = {} BY <2>1, FS_EmptySet DEF Workload
    <2>2. ASSUME NEW d \in carried PROVE Workload(r) = 1
      <3>1. carried = {d} BY <2>2 DEF OneActiveAssignmentPerRider
      <3> QED BY <3>1, FS_Singleton DEF Workload
    <2> QED BY <2>1, <2>2
  <1> QED BY <1>1, RiderExclusivity, PTL

-----------------------------------------------------------------------------
(* Dispatch implements RiderAllocation: the carrier of a delivery is the     *)
(* rider of its active assignment, and it is finished when that assignment   *)
(* is COMPLETED.  AcceptOffer allocates, CancelByAdmin releases, Complete    *)
(* finishes, and every other step stutters.                                  *)

carrier == [d \in Deliveries |-> IF assignment[d].active THEN assignment[d].rider ELSE NoRider]
finished == {d \in Deliveries : assignment[d].status = "COMPLETED"}

\* The assignments change, but neither who carries them nor what is finished.
LEMMA AdvanceStutters ==
  ASSUME Fine, NEW d \in Deliveries, NEW from \in ActiveStatus, NEW dfrom,
         NEW to \in ActiveStatus, NEW dto, Advance(d, from, dfrom, to, dto)
  PROVE  UNCHANGED <<carrier, finished>>
  <1>1. ASSUME NEW e \in Deliveries
        PROVE  /\ assignment'[e].active = assignment[e].active
               /\ assignment'[e].rider = assignment[e].rider
               /\ assignment'[e].status = "COMPLETED" <=> assignment[e].status = "COMPLETED"
    BY DEF Advance, Fine, AssignmentFine, AssignmentRows, ActiveStatus
  <1>2. carrier' = carrier BY <1>1 DEF carrier
  <1>3. finished' = finished BY <1>1 DEF finished
  <1> QED BY <1>2, <1>3

LEMMA AcceptAllocates ==
  ASSUME Fine, Exclusive, NEW o \in Offers, AcceptOffer(o)
  PROVE  Allocation!Next
  <1>1. PICK d \in Deliveries, r \in Riders : d = offer[o].delivery /\ r = offer[o].rider
    BY DEF AcceptOffer, Pending, Fine, OffersFine, OfferFine
  <1>2. ~assignment[d].active /\ assignment[d].status # "COMPLETED"
    BY <1>1 DEF AcceptOffer, RowAssignable, Fine, AssignmentFine, ActiveStatus
  <1>3. \A e \in Deliveries : ~Carries(r, e)
    BY <1>1 DEF AcceptOffer, RiderAssignable, Exclusive, RiderAvailability
  <1>4. assignment' = [assignment EXCEPT ![d] =
                          [status |-> "ASSIGNED", rider |-> r, active |-> TRUE]]
    BY <1>1 DEF AcceptOffer
  <1>5. carrier[d] = NoRider /\ d \notin finished BY <1>2 DEF carrier, finished
  <1>6. \A e \in Deliveries : carrier[e] # r
    BY <1>3, CarriesActive, ConfigurationAssumption DEF carrier, Fine
  <1>7. carrier' = [carrier EXCEPT ![d] = r]
    BY <1>4 DEF carrier, Fine, AssignmentFine
  <1>8. finished' = finished BY <1>2, <1>4 DEF finished, Fine, AssignmentFine
  <1>9. Allocation!Allocate(d, r)
    BY <1>5, <1>6, <1>7, <1>8 DEF Allocation!Allocate, Allocation!Free, carrier, finished
  <1> QED BY <1>9 DEF Allocation!Next

LEMMA EndedStep ==
  ASSUME Fine, NEW d \in Deliveries, assignment[d].active,
         NEW s \in {"COMPLETED", "CANCELLED"},
         assignment' = [assignment EXCEPT ![d].status = s, ![d].active = FALSE]
  PROVE  Allocation!Next
  <1>1. carrier[d] # NoRider
    BY DEF carrier, Fine, AssignmentFine, AssignmentRows, ActiveStatus
  <1>2. carrier' = [carrier EXCEPT ![d] = NoRider]
    <2>1. ~assignment'[d].active BY DEF Fine, AssignmentFine, AssignmentRows
    <2>2. \A e \in Deliveries \ {d} : assignment'[e] = assignment[e]
      BY DEF Fine, AssignmentFine
    <2>3. \A e \in Deliveries :
            carrier'[e] = IF assignment'[e].active THEN assignment'[e].rider ELSE NoRider
      BY DEF carrier
    <2>4. carrier'[d] = NoRider BY <2>1, <2>3
    <2>5. \A e \in Deliveries : carrier[e] =
            IF assignment[e].active THEN assignment[e].rider ELSE NoRider
      BY DEF carrier
    <2>6. \A e \in Deliveries \ {d} : carrier'[e] = carrier[e]
      <3> DEFINE of(x) == IF x.active THEN x.rider ELSE NoRider
      <3>1. \A e \in Deliveries : carrier'[e] = of(assignment'[e]) /\ carrier[e] = of(assignment[e])
        BY <2>3, <2>5
      <3> HIDE DEF of
      <3> QED BY <2>2, <3>1
    <2>7. /\ carrier' = [e \in Deliveries |-> carrier'[e]]
          /\ carrier = [e \in Deliveries |-> carrier[e]]
      BY DEF carrier
    <2> HIDE DEF carrier
    <2> QED BY <2>4, <2>6, <2>7
  <1>3. d \notin finished BY DEF finished, Fine, AssignmentFine, ActiveStatus
  <1>4. s = "COMPLETED" => finished' = finished \cup {d}
    BY DEF finished, Fine, AssignmentFine
  <1>5. s = "CANCELLED" => finished' = finished
    BY <1>3 DEF finished, Fine, AssignmentFine
  <1>6. Allocation!Finish(d) \/ Allocation!Release(d)
    BY <1>1, <1>2, <1>4, <1>5 DEF Allocation!Finish, Allocation!Release, carrier, finished
  <1> QED BY <1>6 DEF Allocation!Next

LEMMA InitAllocation == Init => Allocation!Init
  BY DEF Init, Allocation!Init, NoAssignment

LEMMA NextAllocation ==
  ASSUME Fine, Exclusive, [Next]_vars
  PROVE  Allocation!Next \/ UNCHANGED <<carrier, finished>>
  <1>u. UNCHANGED assignment => UNCHANGED <<carrier, finished>> BY DEF carrier, finished
  <1>1. CASE UNCHANGED vars BY <1>1, <1>u DEF vars
  <1>2. CASE \E w \in Workers : DispatchStep(w) \/ Crash(w)
    BY <1>2, <1>u
    DEF DispatchStep, DispatchRead, SetDeliveryWaitingForRider, FindMatches, CreateOffer,
        ExcludeRider, NoRiderRemains, Crash
  <1>3. CASE \E w \in Workers, d \in Deliveries : DeliveryCreated(w, d) \/ StaffDispatch(w, d)
    BY <1>3, <1>u DEF DeliveryCreated, StaffDispatch
  <1>4. ASSUME NEW o \in Offers, OfferStep(o)
        PROVE  Allocation!Next \/ UNCHANGED <<carrier, finished>>
    <2>1. CASE AcceptOffer(o) BY <2>1, AcceptAllocates
    <2>2. CASE ~AcceptOffer(o)
      BY <1>4, <2>2, <1>u DEF OfferStep, DeadlinePasses, CancelOffer, RejectOffer, ExpireOffer
    <2> QED BY <2>1, <2>2
  <1>5. ASSUME NEW d \in Deliveries, LifecycleStep(d)
        PROVE  Allocation!Next \/ UNCHANGED <<carrier, finished>>
    <2>1. CASE AcceptAssignment(d) \/ StartPickup(d) \/ ArrivePickup(d)
               \/ PickupCompleted(d) \/ StartDelivery(d) \/ ArriveDestination(d)
      BY <2>1, AdvanceStutters
      DEF ActiveStatus, AcceptAssignment, StartPickup, ArrivePickup, PickupCompleted,
          StartDelivery, ArriveDestination
    <2>2. CASE Complete(d) BY <2>2, EndedStep DEF Complete
    <2>3. CASE CancelByAdmin(d) BY <2>3, EndedStep DEF CancelByAdmin
    <2>4. CASE RestartCancelledAssignment(d) \/ CancelFulfillment(d)
      BY <2>4, <1>u DEF RestartCancelledAssignment, CancelFulfillment
    <2> QED BY <1>5, <2>1, <2>2, <2>3, <2>4 DEF LifecycleStep
  <1>6. CASE \E r \in Riders : ToggleOnline(r) BY <1>6, <1>u DEF ToggleOnline
  <1> QED BY <1>1, <1>2, <1>3, <1>4, <1>5, <1>6 DEF Next

\* Dispatching implements RiderAllocation (AllocationSpec): a rider gets one delivery
\* at a time, a delivery one rider, and a completed delivery is not given out again.
THEOREM Refinement == Spec => AllocationSpec
  <1>1. Fine /\ Exclusive /\ [Next]_vars
            => [Allocation!Next]_<<carrier, finished>>
    BY NextAllocation
  <1>2. Init => Allocation!Init BY InitAllocation
  <1>3. Spec => Allocation!Spec
    BY <1>1, <1>2, AlwaysFineAndExclusive, PTL DEF Spec, Allocation!Spec, carrier, finished
  <1> QED BY <1>3 DEF AllocationSpec

-----------------------------------------------------------------------------
(* Offers.  A pending offer is for a delivery nobody carries: a step that    *)
(* gives the delivery to a rider or takes it away withdraws the offers it    *)
(* would contradict, and accepting needs the uniqueness of pending offers to *)
(* know that the offers to the rider himself, which it keeps, are just one.  *)

OffersOpen == PendingOfferOpen /\ OnePendingOfferPerRider

\* No offer became pending, and nothing changed about the deliveries of those left.
Narrowed ==
    \A p \in Offers : Pending(p)' =>
        /\ Pending(p)
        /\ offer'[p].delivery = offer[p].delivery
        /\ offer'[p].rider = offer[p].rider
        /\ delivery'[offer[p].delivery] = delivery[offer[p].delivery]
        /\ assignment'[offer[p].delivery] = assignment[offer[p].delivery]

LEMMA NarrowedOpen ==
  ASSUME OffersOpen, Narrowed
  PROVE  OffersOpen'
  <1>1. PendingOfferOpen'
    <2> SUFFICES ASSUME NEW p \in Offers, Pending(p)'
                 PROVE  CanReceiveOffer(offer[p].delivery)'
      BY DEF PendingOfferOpen
    <2>1. CanReceiveOffer(offer[p].delivery)
      BY DEF OffersOpen, PendingOfferOpen, Narrowed
    <2> QED BY <2>1 DEF CanReceiveOffer, Narrowed
  <1>2. OnePendingOfferPerRider'
    BY DEF OffersOpen, OnePendingOfferPerRider, Narrowed
  <1> QED BY <1>1, <1>2 DEF OffersOpen

\* A delivery somebody carries has no pending offer.
LEMMA CarriedIsClosed ==
  ASSUME Fine, OffersOpen, NEW d \in Deliveries, assignment[d].active
  PROVE  \A p \in Offers : Pending(p) => offer[p].delivery # d
  BY DEF Fine, AssignmentFine, ActiveStatus, OffersOpen, PendingOfferOpen, CanReceiveOffer

LEMMA WithdrawnNarrowed ==
  ASSUME NEW d, offer' = Withdrawn(d, {}),
         \A e \in Deliveries \ {d} :
            delivery'[e] = delivery[e] /\ assignment'[e] = assignment[e],
         Fine
  PROVE  Narrowed
  <1> SUFFICES ASSUME NEW p \in Offers, Pending(p)'
               PROVE  /\ Pending(p) /\ offer'[p] = offer[p]
                      /\ offer[p].delivery \in Deliveries \ {d}
    BY DEF Narrowed
  <1>1. Pending(p) /\ offer'[p] = offer[p] /\ offer[p].delivery # d
    BY DEF Withdrawn, Pending, Fine, OffersFine, OfferRows
  <1> QED BY <1>1 DEF Fine, OffersFine, OfferFine, Pending

LEMMA ElsewhereNarrowed ==
  ASSUME Fine, NEW d \in Deliveries, UNCHANGED offer,
         \A p \in Offers : Pending(p) => offer[p].delivery # d,
         \A e \in Deliveries \ {d} :
            delivery'[e] = delivery[e] /\ assignment'[e] = assignment[e]
  PROVE  Narrowed
  BY DEF Narrowed, Pending, Fine, OffersFine, OfferFine

LEMMA SetWaitingOpen ==
  ASSUME Fine, OffersOpen, NEW d \in Deliveries, UNCHANGED <<assignment, offer>>,
         delivery' = [delivery EXCEPT ![d] = "WAITING_FOR_RIDER"]
  PROVE  OffersOpen'
  <1>1. ASSUME NEW p \in Offers, Pending(p)'
        PROVE  CanReceiveOffer(offer[p].delivery)'
    <2>1. CanReceiveOffer(offer[p].delivery) /\ offer[p].delivery \in Deliveries
      BY <1>1 DEF OffersOpen, PendingOfferOpen, Pending, Fine, OffersFine, OfferFine
    <2> QED BY <2>1 DEF CanReceiveOffer, Assignable, Fine, DeliveryFine
  <1>2. OnePendingOfferPerRider'
    BY DEF OffersOpen, OnePendingOfferPerRider, Pending
  <1> QED BY <1>1, <1>2 DEF OffersOpen, PendingOfferOpen

LEMMA CreateOpen ==
  ASSUME Fine, OffersOpen, NEW w \in Workers, NEW r \in Riders, NEW o \in Offers,
         CreateOffer(w, r, o)
  PROVE  OffersOpen'
  <1> USE DEF CreateOffer
  <1>1. PICK d : d = worker[w].delivery OBVIOUS
  <1>2. offer'[o] = [status |-> "PENDING", delivery |-> d, rider |-> r, late |-> FALSE]
    BY <1>1 DEF Fine, OffersFine
  <1>3. \A p \in Offers \ {o} : offer'[p] = offer[p] BY DEF Fine, OffersFine
  <1>4. ASSUME NEW p \in Offers, Pending(p)'
        PROVE  CanReceiveOffer(offer[p].delivery)'
    <2>1. CASE p = o BY <1>1, <1>2, <2>1 DEF CanReceiveOffer
    <2>2. CASE p # o
      BY <1>3, <1>4, <2>2 DEF OffersOpen, PendingOfferOpen, Pending, CanReceiveOffer
    <2> QED BY <2>1, <2>2
  <1>5. ASSUME NEW p \in Offers \ {o}
        PROVE  ~(Pending(p) /\ offer[p].delivery = d /\ offer[p].rider = r)
    BY <1>1 DEF OffersOf
  <1>6. OnePendingOfferPerRider'
    BY <1>2, <1>3, <1>5 DEF OffersOpen, OnePendingOfferPerRider, Pending
  <1> QED BY <1>4, <1>6 DEF OffersOpen, PendingOfferOpen

LEMMA AcceptNarrowed ==
  ASSUME Fine, OffersOpen, NEW o \in Offers, AcceptOffer(o)
  PROVE  Narrowed
  <1>1. PICK d \in Deliveries, r \in Riders : d = offer[o].delivery /\ r = offer[o].rider
    BY DEF AcceptOffer, Pending, Fine, OffersFine, OfferFine
  <1> SUFFICES ASSUME NEW p \in Offers, Pending(p)'
               PROVE  /\ Pending(p) /\ offer'[p] = offer[p]
                      /\ offer[p].delivery \in Deliveries \ {d}
    BY <1>1 DEF Narrowed, AcceptOffer, Fine, DeliveryFine, AssignmentFine
  <1>2. offer'[o].status = "ACCEPTED"
    BY DEF AcceptOffer, Withdrawn, Pending, Fine, OffersFine, OfferRows
  <1>3. p # o BY <1>2 DEF Pending
  <1>4. offer'[p] = Withdrawn(d, {r})[p] BY <1>1, <1>3 DEF AcceptOffer, Withdrawn
  <1>5. /\ Pending(p) /\ offer'[p] = offer[p]
        /\ offer[p].delivery = d => offer[p].rider = r
    BY <1>4 DEF Withdrawn, Pending, Fine, OffersFine, OfferRows
  <1>6. offer[p].delivery # d
    BY <1>1, <1>3, <1>5 DEF OffersOpen, OnePendingOfferPerRider, AcceptOffer
  <1> QED BY <1>5, <1>6 DEF Fine, OffersFine, OfferFine, Pending

LEMMA NextOpen == Fine /\ OffersOpen /\ [Next]_vars => OffersOpen'
  <1> SUFFICES ASSUME Fine, OffersOpen, [Next]_vars PROVE OffersOpen' OBVIOUS
  <1>u. UNCHANGED <<delivery, assignment, offer>> => OffersOpen'
    BY NarrowedOpen DEF Narrowed, Pending
  <1>1. CASE UNCHANGED vars BY <1>1, <1>u DEF vars
  <1>2. ASSUME NEW w \in Workers, DispatchStep(w) \/ Crash(w) PROVE OffersOpen'
    <2>1. CASE SetDeliveryWaitingForRider(w)
      <3>1. worker[w].delivery \in Deliveries
        BY <2>1 DEF SetDeliveryWaitingForRider, Fine, WorkersFine, WorkerFine
      <3> QED BY <2>1, <3>1, <1>u, SetWaitingOpen DEF SetDeliveryWaitingForRider
    <2>2. CASE \E r \in Riders, o \in Offers : CreateOffer(w, r, o) BY <2>2, CreateOpen
    <2>3. CASE DispatchRead(w) \/ FindMatches(w) \/ NoRiderRemains(w) \/ Crash(w)
               \/ \E r \in Riders : ExcludeRider(w, r)
      BY <2>3, <1>u DEF DispatchRead, FindMatches, ExcludeRider, NoRiderRemains, Crash
    <2> QED BY <1>2, <2>1, <2>2, <2>3 DEF DispatchStep
  <1>3. ASSUME NEW w \in Workers, NEW d \in Deliveries,
               DeliveryCreated(w, d) \/ StaffDispatch(w, d)
        PROVE  OffersOpen'
    <2>1. CASE DeliveryCreated(w, d)
      <3>1. \A p \in Offers : Pending(p) => offer[p].delivery # d
        BY <2>1 DEF DeliveryCreated, Pending, Fine, OffersFine, OfferFine
      <3>2. Narrowed
        BY <2>1, <3>1, ElsewhereNarrowed DEF DeliveryCreated, Fine, DeliveryFine
      <3> QED BY <3>2, NarrowedOpen
    <2>2. CASE StaffDispatch(w, d) BY <2>2, <1>u DEF StaffDispatch
    <2> QED BY <1>3, <2>1, <2>2
  <1>4. ASSUME NEW o \in Offers, OfferStep(o) PROVE OffersOpen'
    <2>1. CASE AcceptOffer(o) BY <2>1, AcceptNarrowed, NarrowedOpen
    <2>2. CASE ~AcceptOffer(o)
      <3>1. \E s \in OfferStatus, late \in BOOLEAN :
              /\ Pending(o) /\ UNCHANGED <<delivery, assignment>>
              /\ offer' = [offer EXCEPT ![o].status = s, ![o].late = late]
        <4>1. CASE DeadlinePasses(o)
          <5>1. offer' = [offer EXCEPT ![o].status = "PENDING", ![o].late = TRUE]
            BY <4>1 DEF DeadlinePasses, Pending, Fine, OffersFine, OfferRows
          <5> QED BY <4>1, <5>1 DEF DeadlinePasses, OfferStatus
        <4>2. CASE CancelOffer(o) \/ \E w \in Workers : RejectOffer(w, o)
          <5>1. \E s \in OfferStatus : offer' = [offer EXCEPT ![o].status = s, ![o].late = FALSE]
            BY <4>2 DEF CancelOffer, RejectOffer, OfferStatus, Fine, OffersFine, OfferRows
          <5> QED BY <4>2, <5>1 DEF CancelOffer, RejectOffer
        <4>3. CASE \E w \in Workers : ExpireOffer(w, o)
          <5>1. offer' = [offer EXCEPT ![o].status = "EXPIRED", ![o].late = TRUE]
            BY <4>3 DEF ExpireOffer, Fine, OffersFine, OfferRows
          <5> QED BY <4>3, <5>1 DEF ExpireOffer, OfferStatus
        <4> QED BY <1>4, <2>2, <4>1, <4>2, <4>3 DEF OfferStep
      <3>2. Narrowed BY <3>1 DEF Narrowed, Pending, Fine, OffersFine, OfferRows
      <3> QED BY <3>2, NarrowedOpen
    <2> QED BY <2>1, <2>2
  <1>5. ASSUME NEW d \in Deliveries, LifecycleStep(d) PROVE OffersOpen'
    <2>1. CASE AcceptAssignment(d) \/ StartPickup(d) \/ ArrivePickup(d)
               \/ PickupCompleted(d) \/ StartDelivery(d) \/ ArriveDestination(d) \/ Complete(d)
      <3>1. /\ assignment[d].active /\ UNCHANGED offer
            /\ \A e \in Deliveries \ {d} :
                    delivery'[e] = delivery[e] /\ assignment'[e] = assignment[e]
        BY <2>1 DEF Advance, AcceptAssignment, StartPickup, ArrivePickup, PickupCompleted,
           StartDelivery, ArriveDestination, Complete, Fine, DeliveryFine, AssignmentFine
      <3>2. Narrowed BY <3>1, CarriedIsClosed, ElsewhereNarrowed
      <3> QED BY <3>2, NarrowedOpen
    <2>2. CASE CancelByAdmin(d) \/ RestartCancelledAssignment(d) \/ CancelFulfillment(d)
      <3>1. /\ offer' = Withdrawn(d, {})
            /\ \A e \in Deliveries \ {d} :
                    delivery'[e] = delivery[e] /\ assignment'[e] = assignment[e]
        BY <2>2 DEF CancelByAdmin, RestartCancelledAssignment, CancelFulfillment,
           Fine, DeliveryFine, AssignmentFine
      <3> QED BY <3>1, WithdrawnNarrowed, NarrowedOpen
    <2> QED BY <1>5, <2>1, <2>2 DEF LifecycleStep
  <1>6. ASSUME NEW r \in Riders, ToggleOnline(r) PROVE OffersOpen'
    BY <1>6, <1>u DEF ToggleOnline
  <1> QED BY <1>1, <1>2, <1>3, <1>4, <1>5, <1>6 DEF Next

LEMMA AlwaysOffersOpen == Spec => [](Fine /\ OffersOpen)
  <1>1. Init => OffersOpen
    BY DEF Init, OffersOpen, PendingOfferOpen, OnePendingOfferPerRider, Pending, FreeOffer
  <1>2. (Fine /\ OffersOpen) /\ [Next]_vars => (Fine /\ OffersOpen)' BY NextFine, NextOpen
  <1> QED BY <1>1, <1>2, InitFine, PTL DEF Spec

\* An offer a rider can still answer is for a delivery nobody carries, for any number
\* of dispatches that create offers side by side (PendingOfferOpen).
THEOREM OfferInvariant == Spec => []PendingOfferOpen
  BY AlwaysOffersOpen, PTL DEF OffersOpen

\* However many dispatches overlap, the check under create's lock keeps a rider from
\* having two pending offers of one delivery (OnePendingOfferPerRider).
THEOREM PendingOffersDistinct == Spec => []OnePendingOfferPerRider
  BY AlwaysOffersOpen, PTL DEF OffersOpen

-----------------------------------------------------------------------------
(* Answers.  Every step writes only rows that are free or pending, so the    *)
(* acceptance an assignment rests on is still there when the assignment ends. *)

AnswersKept ==
    \A p \in Offers : offer[p].status \notin {"FREE", "PENDING"} => offer'[p] = offer[p]

LEMMA WithdrawnKeeps ==
  ASSUME NEW d, NEW keep, NEW p \in Offers, ~Pending(p)
  PROVE  Withdrawn(d, keep)[p] = offer[p]
  BY DEF Withdrawn

LEMMA NextKeeps ==
  ASSUME Fine, [Next]_vars
  PROVE  AnswersKept
  <1> SUFFICES ASSUME NEW p \in Offers, offer[p].status \notin {"FREE", "PENDING"}
               PROVE  offer'[p] = offer[p]
    BY DEF AnswersKept
  <1>p. ~Pending(p) BY DEF Pending
  <1>1. CASE UNCHANGED vars BY <1>1 DEF vars
  <1>2. ASSUME NEW w \in Workers, DispatchStep(w) \/ Crash(w) PROVE offer'[p] = offer[p]
    <2>1. ASSUME NEW r \in Riders, NEW o \in Offers, CreateOffer(w, r, o)
          PROVE  offer'[p] = offer[p]
      BY <2>1 DEF CreateOffer
    <2> QED
      BY <1>2, <2>1 DEF DispatchStep, DispatchRead, SetDeliveryWaitingForRider, FindMatches,
         ExcludeRider, NoRiderRemains, Crash
  <1>3. ASSUME NEW w \in Workers, NEW d \in Deliveries,
               DeliveryCreated(w, d) \/ StaffDispatch(w, d)
        PROVE  offer'[p] = offer[p]
    BY <1>3 DEF DeliveryCreated, StaffDispatch
  <1>4. ASSUME NEW o \in Offers, OfferStep(o) PROVE offer'[p] = offer[p]
    <2>1. Pending(o)
      BY <1>4 DEF OfferStep, DeadlinePasses, AcceptOffer, CancelOffer, RejectOffer, ExpireOffer
    <2>2. p # o BY <1>p, <2>1
    <2>3. CASE AcceptOffer(o) BY <1>p, <2>2, <2>3, WithdrawnKeeps DEF AcceptOffer
    <2>4. CASE ~AcceptOffer(o)
      BY <1>4, <2>2, <2>4
      DEF OfferStep, DeadlinePasses, CancelOffer, RejectOffer, ExpireOffer, Fine, OffersFine
    <2> QED BY <2>3, <2>4
  <1>5. ASSUME NEW d \in Deliveries, LifecycleStep(d) PROVE offer'[p] = offer[p]
    BY <1>5, <1>p, WithdrawnKeeps
    DEF LifecycleStep, Advance, AcceptAssignment, StartPickup, ArrivePickup, PickupCompleted,
        StartDelivery, ArriveDestination, Complete, CancelByAdmin,
        RestartCancelledAssignment, CancelFulfillment
  <1>6. ASSUME NEW r \in Riders, ToggleOnline(r) PROVE offer'[p] = offer[p]
    BY <1>6 DEF ToggleOnline
  <1> QED BY <1>1, <1>2, <1>3, <1>4, <1>5, <1>6 DEF Next

\* No sweep, late answer or bulk withdrawal touches an offer that was answered
\* (AnsweredOfferIsFinal), however many of them race for it.
THEOREM AnswersAreFinal == Spec => AnsweredOfferIsFinal
  <1> DEFINE Kept == \A o \in Offers : offer[o].status \notin {"FREE", "PENDING"}
                        => offer'[o] = offer[o]
  <1>1. Fine /\ [Next]_vars => [Kept]_vars BY NextKeeps DEF AnswersKept
  <1>2. Spec => []Fine BY InitFine, NextFine, PTL DEF Spec
  <1> QED BY <1>1, <1>2, PTL DEF Spec, AnsweredOfferIsFinal

\* What is active after a step was so before, with the same rider, or was just accepted.
LEMMA ActiveBefore ==
  ASSUME Fine, [Next]_vars, NEW d \in Deliveries, assignment'[d].active
  PROVE  \/ assignment[d].active /\ assignment'[d].rider = assignment[d].rider
         \/ \E o \in Offers : /\ AcceptOffer(o)
                              /\ offer[o].delivery = d
                              /\ assignment'[d].rider = offer[o].rider
  <1>u. UNCHANGED assignment => assignment[d].active /\ assignment'[d].rider = assignment[d].rider
    OBVIOUS
  <1>1. CASE UNCHANGED vars BY <1>1, <1>u DEF vars
  <1>2. CASE \E w \in Workers : DispatchStep(w) \/ Crash(w)
    BY <1>2, <1>u
    DEF DispatchStep, DispatchRead, SetDeliveryWaitingForRider, FindMatches, CreateOffer,
        ExcludeRider, NoRiderRemains, Crash
  <1>3. CASE \E w \in Workers, e \in Deliveries : DeliveryCreated(w, e) \/ StaffDispatch(w, e)
    BY <1>3, <1>u DEF DeliveryCreated, StaffDispatch
  <1>4. ASSUME NEW o \in Offers, OfferStep(o)
        PROVE  \/ UNCHANGED assignment
               \/ AcceptOffer(o)
    BY <1>4 DEF OfferStep, DeadlinePasses, CancelOffer, RejectOffer, ExpireOffer
  <1>5. ASSUME NEW o \in Offers, AcceptOffer(o)
        PROVE  IF offer[o].delivery = d THEN assignment'[d].rider = offer[o].rider
                                        ELSE assignment'[d] = assignment[d]
    BY <1>5 DEF AcceptOffer, Fine, AssignmentFine
  <1>6. ASSUME NEW e \in Deliveries, LifecycleStep(e)
        PROVE  assignment[d].active /\ assignment'[d].rider = assignment[d].rider
    <2>1. CASE d # e
      <3>1. assignment'[d] = assignment[d]
        BY <1>6, <2>1
        DEF LifecycleStep, Advance, AcceptAssignment, StartPickup, ArrivePickup,
            PickupCompleted, StartDelivery, ArriveDestination, Complete, CancelByAdmin,
            RestartCancelledAssignment, CancelFulfillment, Fine, AssignmentFine
      <3> QED BY <3>1
    <2>2. CASE d = e
      <3>1. CASE Complete(d) \/ CancelByAdmin(d)
        BY <3>1 DEF Complete, CancelByAdmin, Fine, AssignmentFine, AssignmentRows
      <3>2. CASE AcceptAssignment(d) \/ StartPickup(d) \/ ArrivePickup(d)
                 \/ PickupCompleted(d) \/ StartDelivery(d) \/ ArriveDestination(d)
        BY <3>2
        DEF Advance, AcceptAssignment, StartPickup, ArrivePickup, PickupCompleted,
            StartDelivery, ArriveDestination, Fine, AssignmentFine, AssignmentRows
      <3>3. CASE RestartCancelledAssignment(d) \/ CancelFulfillment(d)
        BY <3>3, <1>u DEF RestartCancelledAssignment, CancelFulfillment
      <3> QED BY <1>6, <2>2, <3>1, <3>2, <3>3 DEF LifecycleStep
    <2> QED BY <2>1, <2>2
  <1>7. CASE \E r \in Riders : ToggleOnline(r) BY <1>7, <1>u DEF ToggleOnline
  <1>8. CASE \E o \in Offers : OfferStep(o)
    <2>1. PICK o \in Offers : OfferStep(o) BY <1>8
    <2>2. CASE UNCHANGED assignment BY <2>2, <1>u
    <2>3. CASE AcceptOffer(o) BY <2>1, <2>3, <1>5
    <2> QED BY <1>4, <2>1, <2>2, <2>3
  <1> QED BY <1>1, <1>2, <1>3, <1>6, <1>7, <1>8 DEF Next

LEMMA NextAccepted == Fine /\ AssignmentAccepted /\ [Next]_vars => AssignmentAccepted'
  <1> SUFFICES ASSUME Fine, AssignmentAccepted, [Next]_vars, NEW d \in Deliveries,
                      assignment'[d].active
               PROVE  \E p \in Offers : /\ offer'[p].delivery = d
                                        /\ offer'[p].status = "ACCEPTED"
                                        /\ offer'[p].rider = assignment'[d].rider
    BY DEF AssignmentAccepted, OffersOf
  <1>1. CASE assignment[d].active /\ assignment'[d].rider = assignment[d].rider
    <2>1. PICK p \in Offers : /\ offer[p].delivery = d
                              /\ offer[p].status = "ACCEPTED"
                              /\ offer[p].rider = assignment[d].rider
      BY <1>1 DEF AssignmentAccepted, OffersOf
    <2>2. offer'[p] = offer[p] BY <2>1, NextKeeps DEF AnswersKept
    <2> QED BY <1>1, <2>1, <2>2
  <1>2. ASSUME NEW o \in Offers, AcceptOffer(o), offer[o].delivery = d,
               assignment'[d].rider = offer[o].rider
        PROVE  /\ offer'[o].delivery = d /\ offer'[o].status = "ACCEPTED"
               /\ offer'[o].rider = assignment'[d].rider
    <2>1. Withdrawn(d, {offer[o].rider})[o] = offer[o] BY <1>2 DEF Withdrawn
    <2>2. offer'[o] = [offer[o] EXCEPT !.status = "ACCEPTED"]
      BY <1>2, <2>1 DEF AcceptOffer, Withdrawn
    <2> QED BY <1>2, <2>2 DEF Fine, OffersFine, OfferRows
  <1> QED BY <1>1, <1>2, ActiveBefore

\* A rider carries only what he was offered and accepted (AssignmentAccepted), also
\* after the row was cancelled, restarted and given to somebody else.
THEOREM AcceptedInvariant == Spec => []AssignmentAccepted
  <1>1. Init => AssignmentAccepted BY DEF Init, AssignmentAccepted, NoAssignment
  <1>2. Spec => []Fine BY InitFine, NextFine, PTL DEF Spec
  <1> QED BY <1>1, <1>2, NextAccepted, PTL DEF Spec

-----------------------------------------------------------------------------
(* The status of the delivery beside that of its assignment.                *)

InStepOrReset(d) ==
    assignment[d].active =>
        delivery[d] \in {StatusBeside[assignment[d].status], "WAITING_FOR_RIDER"}

\* A step leaves both rows of d alone, or leaves d without an active assignment.
Undisturbed(d) ==
    \/ assignment'[d] = assignment[d] /\ delivery'[d] \in {delivery[d], "WAITING_FOR_RIDER"}
    \/ ~assignment'[d].active

LEMMA UndisturbedInStep ==
  ASSUME NEW d \in Deliveries, InStepOrReset(d), Undisturbed(d)
  PROVE  InStepOrReset(d)'
  BY DEF InStepOrReset, Undisturbed

LEMMA AdvanceKeepsStep ==
  ASSUME Fine, NEW d \in Deliveries, NEW e \in Deliveries, InStepOrReset(d),
         NEW from, NEW dfrom, NEW to \in ActiveStatus, NEW dto,
         dto = StatusBeside[to], Advance(e, from, dfrom, to, dto)
  PROVE  InStepOrReset(d)'
  <1>1. CASE d = e
    BY <1>1 DEF InStepOrReset, Advance, Fine, DeliveryFine, AssignmentFine, AssignmentRows
  <1>2. CASE d # e
    <2>1. assignment'[d] = assignment[d] /\ delivery'[d] = delivery[d]
      BY <1>2 DEF Advance, Fine, DeliveryFine, AssignmentFine
    <2> QED BY <2>1, UndisturbedInStep DEF Undisturbed
  <1> QED BY <1>1, <1>2

LEMMA NextKeepsStep == Fine /\ StatusesInStepOrReset /\ [Next]_vars => StatusesInStepOrReset'
  <1> SUFFICES ASSUME Fine, [Next]_vars, NEW d \in Deliveries, InStepOrReset(d)
               PROVE  InStepOrReset(d)'
    BY DEF StatusesInStepOrReset, InStepOrReset
  <1>u. UNCHANGED <<delivery, assignment>> => InStepOrReset(d)'
    BY UndisturbedInStep DEF Undisturbed
  <1>1. CASE UNCHANGED vars BY <1>1, <1>u DEF vars
  <1>2. ASSUME NEW w \in Workers, DispatchStep(w) \/ Crash(w) PROVE InStepOrReset(d)'
    <2>1. CASE SetDeliveryWaitingForRider(w)
      <3>1. Undisturbed(d)
        BY <2>1 DEF SetDeliveryWaitingForRider, Undisturbed, Fine, DeliveryFine
      <3> QED BY <3>1, UndisturbedInStep
    <2>2. CASE ~SetDeliveryWaitingForRider(w)
      BY <1>2, <2>2, <1>u
      DEF DispatchStep, DispatchRead, FindMatches, CreateOffer, ExcludeRider, NoRiderRemains,
          Crash
    <2> QED BY <2>1, <2>2
  <1>3. ASSUME NEW w \in Workers, NEW e \in Deliveries,
               DeliveryCreated(w, e) \/ StaffDispatch(w, e)
        PROVE  InStepOrReset(d)'
    <2>1. CASE DeliveryCreated(w, e)
      <3>1. CASE d = e
        <4>1. ~assignment[d].active
          <5>1. assignment[d].active =>
                  StatusBeside[assignment[d].status] # "ABSENT"
            BY DEF Fine, AssignmentFine, ActiveStatus, StatusBeside
          <5> QED BY <2>1, <3>1, <5>1 DEF DeliveryCreated, InStepOrReset
        <4>2. assignment'[d] = assignment[d] BY <2>1 DEF DeliveryCreated
        <4> QED BY <4>1, <4>2, UndisturbedInStep DEF Undisturbed
      <3>2. CASE d # e
        <4>1. assignment'[d] = assignment[d] /\ delivery'[d] = delivery[d]
          BY <2>1, <3>2 DEF DeliveryCreated, Fine, DeliveryFine
        <4> QED BY <4>1, UndisturbedInStep DEF Undisturbed
      <3> QED BY <3>1, <3>2
    <2>2. CASE StaffDispatch(w, e) BY <2>2, <1>u DEF StaffDispatch
    <2> QED BY <1>3, <2>1, <2>2
  <1>4. ASSUME NEW o \in Offers, OfferStep(o) PROVE InStepOrReset(d)'
    <2>1. CASE AcceptOffer(o)
      <3>1. CASE d = offer[o].delivery
        <4>1. /\ assignment'[d].status = "ASSIGNED"
              /\ delivery'[d] = "RIDER_ASSIGNED"
          BY <2>1, <3>1 DEF AcceptOffer, Fine, DeliveryFine, AssignmentFine
        <4> QED BY <4>1 DEF InStepOrReset, StatusBeside
      <3>2. CASE d # offer[o].delivery
        <4>1. assignment'[d] = assignment[d] /\ delivery'[d] = delivery[d]
          BY <2>1, <3>2 DEF AcceptOffer, Fine, DeliveryFine, AssignmentFine
        <4> QED BY <4>1, UndisturbedInStep DEF Undisturbed
      <3> QED BY <3>1, <3>2
    <2>2. CASE ~AcceptOffer(o)
      BY <1>4, <2>2, <1>u DEF OfferStep, DeadlinePasses, CancelOffer, RejectOffer, ExpireOffer
    <2> QED BY <2>1, <2>2
  <1>5. ASSUME NEW e \in Deliveries, LifecycleStep(e) PROVE InStepOrReset(d)'
    <2>1. CASE AcceptAssignment(e) \/ StartPickup(e) \/ ArrivePickup(e)
               \/ PickupCompleted(e) \/ StartDelivery(e) \/ ArriveDestination(e)
      BY <2>1, AdvanceKeepsStep
      DEF ActiveStatus, StatusBeside, AcceptAssignment, StartPickup, ArrivePickup,
          PickupCompleted, StartDelivery, ArriveDestination
    <2>2. CASE Complete(e) \/ CancelByAdmin(e) \/ RestartCancelledAssignment(e)
               \/ CancelFulfillment(e)
      <3>1. CASE d = e
        <4>1. ~assignment'[d].active
          BY <2>2, <3>1
          DEF Complete, CancelByAdmin, RestartCancelledAssignment, CancelFulfillment, Fine,
              AssignmentFine, AssignmentRows
        <4> QED BY <4>1 DEF InStepOrReset
      <3>2. CASE d # e
        <4>1. assignment'[d] = assignment[d] /\ delivery'[d] = delivery[d]
          BY <2>2, <3>2
          DEF Complete, CancelByAdmin, RestartCancelledAssignment, CancelFulfillment, Fine,
              DeliveryFine, AssignmentFine
        <4> QED BY <4>1, UndisturbedInStep DEF Undisturbed
      <3> QED BY <3>1, <3>2
    <2> QED BY <1>5, <2>1, <2>2 DEF LifecycleStep
  <1>6. ASSUME NEW r \in Riders, ToggleOnline(r) PROVE InStepOrReset(d)'
    BY <1>6, <1>u DEF ToggleOnline
  <1> QED BY <1>1, <1>2, <1>3, <1>4, <1>5, <1>6 DEF Next

\* The one status that ever stands wrongly beside an active assignment is a late
\* WAITING_FOR_RIDER (StatusesInStepOrReset), for any number of stale dispatches.
THEOREM InStepOrResetInvariant == Spec => []StatusesInStepOrReset
  <1>1. Init => StatusesInStepOrReset BY DEF Init, StatusesInStepOrReset, NoAssignment
  <1>2. Spec => []Fine BY InitFine, NextFine, PTL DEF Spec
  <1> QED BY <1>1, <1>2, NextKeepsStep, PTL DEF Spec

-----------------------------------------------------------------------------
(* What the configuration decides: the order of the offers, and whether there *)
(* are any.                                                                   *)

\* Of the strategies DispatchStrategyFactory knows, NEAREST alone reads nothing that
\* RiderMatch lacks; scoring with any other raises AttributeError.
THEOREM NearestAlone ==
  ASSUME NEW s \in Strategies
  PROVE  CanScore(s) <=> s = "NEAREST"
  <1>1. "rating" \notin MatchAttributes /\ "distance" \in MatchAttributes
    BY DEF MatchAttributes
  <1>2. s # "NEAREST" => "rating" \in Reads[s]
    BY DEF Strategies, Reads, BalancedReads, PerformanceReads, VendorPriorityReads,
           CustomerPriorityReads, FairDistributionReads, ExpressReads
  <1>3. Reads["NEAREST"] = {"distance"} BY DEF Reads, NearestReads
  <1> QED BY <1>1, <1>2, <1>3 DEF CanScore

\* Beyond the base score all riders score 0, but the distance in the sort key still
\* tells them apart: NEAREST ranks by distance, however far the riders are.
THEOREM NearestOrder ==
  ASSUME NEW km \in Nat, NEW other \in Nat
  PROVE  Precedes(km, other) <=> km < other
  BY DEF Precedes, NearestScore, BaseScore

\* An offer goes to one of the nearest of the riders who are left.
OffersNearestFirst ==
  \A w \in Workers, r \in Riders, o \in Offers :
    CreateOffer(w, r, o) =>
        LET km == Distance[worker[w].delivery]
        IN  \A other \in worker[w].ranked : km[r] <= km[other]

\* _offer_first_rider offers the delivery to the nearest rider left, whatever the
\* scores are cut to and whatever happened between the ranking and the offer.
THEOREM NearestFirst == Spec => [][OffersNearestFirst]_vars
  <1>1. Fine => OffersNearestFirst
    <2> SUFFICES ASSUME Fine, NEW w \in Workers, NEW r \in Riders, NEW o \in Offers,
                        CreateOffer(w, r, o), NEW other \in worker[w].ranked
                 PROVE  Distance[worker[w].delivery][r] <= Distance[worker[w].delivery][other]
      BY DEF OffersNearestFirst
    <2>1. worker[w].delivery \in Deliveries /\ other \in Riders
      BY DEF CreateOffer, Fine, WorkersFine, WorkerFine, WorkerStates
    <2>2. /\ Distance[worker[w].delivery][r] \in Nat
          /\ Distance[worker[w].delivery][other] \in Nat
      BY <2>1, ConfigurationAssumption
    <2>3. ~Precedes(Distance[worker[w].delivery][other], Distance[worker[w].delivery][r])
      BY DEF CreateOffer, NextRanked
    <2> QED BY <2>2, <2>3, NearestOrder
  <1>2. Spec => []Fine BY InitFine, NextFine, PTL DEF Spec
  <1> QED BY <1>1, <1>2, PTL DEF Spec

\* No offer was ever made, and no rider ever assigned.
NothingOffered ==
    /\ \A o \in Offers : offer[o].status = "FREE"
    /\ \A d \in Deliveries : assignment[d].status = "NONE"

\* Without an offer that was made nothing can be answered or carried out.
LEMMA NothingToAnswer ==
  ASSUME Fine, NothingOffered
  PROVE  /\ \A o \in Offers : OfferStep(o) => FALSE
         /\ \A d \in Deliveries : LifecycleStep(d) => NothingOffered' /\ UNCHANGED worker
         /\ \A d \in Deliveries : LifecycleStep(d) => CanLockDelivery
  <1>1. \A o \in Offers : ~Pending(o) BY DEF NothingOffered, Pending
  <1>2. \A d \in Deliveries : ~assignment[d].active
    BY DEF Fine, AssignmentFine, NothingOffered, ActiveStatus
  <1>3. ASSUME NEW o \in Offers, OfferStep(o) PROVE FALSE
    BY <1>1, <1>3 DEF OfferStep, DeadlinePasses, AcceptOffer, CancelOffer, RejectOffer, ExpireOffer
  <1>4. ASSUME NEW d \in Deliveries, LifecycleStep(d) PROVE CancelFulfillment(d)
    BY <1>2, <1>4 DEF LifecycleStep, AcceptAssignment, StartPickup, ArrivePickup, PickupCompleted,
       StartDelivery, ArriveDestination, Advance, Complete, CancelByAdmin,
       RestartCancelledAssignment, NothingOffered
  <1>5. ASSUME NEW d \in Deliveries, CancelFulfillment(d)
        PROVE  NothingOffered' /\ UNCHANGED worker /\ CanLockDelivery
    BY <1>1, <1>5 DEF CancelFulfillment, Withdrawn, NothingOffered
  <1> QED BY <1>3, <1>4, <1>5

\* A strategy that cannot score leaves every dispatch before its first offer.
NoCandidates == NothingOffered /\ \A w \in Workers : worker[w].pc # "offer"

LEMMA NextNoCandidates ==
  ASSUME ~CanScore(Strategy), Fine, NoCandidates, [Next]_vars
  PROVE  NoCandidates'
  <1>0. NothingOffered BY DEF NoCandidates
  <1>1. ASSUME UNCHANGED <<offer, assignment>>, NEW w \in Workers, NEW x, x.pc # "offer",
               worker' = [worker EXCEPT ![w] = x]
        PROVE  NoCandidates'
    BY <1>1 DEF NoCandidates, NothingOffered, Fine, WorkersFine
  <1>i. Idle.pc = "idle" BY DEF Idle
  <1>2. ASSUME NEW w \in Workers, DispatchStep(w) \/ Crash(w) PROVE NoCandidates'
    <2>1. CASE FindMatches(w)
      <3>1. \A matches : Ranked(worker[w], matches) = Idle BY DEF Ranked
      <3>2. [worker[w] EXCEPT !.radius = worker[w].radius + Increment].pc = "match"
        BY <2>1 DEF FindMatches, Fine, WorkersFine, WorkerStates
      <3> QED BY <2>1, <1>1, <1>i, <3>1, <3>2 DEF FindMatches
    <2>2. CASE DispatchRead(w) \/ Crash(w)
      BY <2>2, <1>i DEF DispatchRead, Crash, NoCandidates, NothingOffered, Fine, WorkersFine,
         WorkerStates
    <2>3. CASE SetDeliveryWaitingForRider(w)
      <3>1. UNCHANGED <<offer, assignment>> BY <2>3 DEF SetDeliveryWaitingForRider
      <3>2. \A v \in Workers : worker'[v].pc # "offer"
        BY <2>3, <1>i DEF SetDeliveryWaitingForRider, NoCandidates, Fine, WorkersFine, WorkerStates
      <3> QED BY <3>1, <3>2 DEF NoCandidates, NothingOffered
    <2> QED BY <1>2, <2>1, <2>2, <2>3
            DEF DispatchStep, CreateOffer, ExcludeRider, NoRiderRemains, NoCandidates
  <1>3. ASSUME NEW w \in Workers, NEW d \in Deliveries, DeliveryCreated(w, d) \/ StaffDispatch(w, d)
        PROVE  NoCandidates'
    <2>1. [Idle EXCEPT !.pc = "dispatch", !.delivery = d].pc = "dispatch" BY DEF Idle
    <2> QED BY <1>1, <1>3, <2>1 DEF DeliveryCreated, StaffDispatch, StartDispatch
  <1>4. ASSUME NEW d \in Deliveries, LifecycleStep(d) PROVE NoCandidates'
    BY <1>0, <1>4, NothingToAnswer DEF NoCandidates
  <1>5. ASSUME NEW r \in Riders, ToggleOnline(r) PROVE NoCandidates'
    BY <1>5 DEF ToggleOnline, NoCandidates, NothingOffered
  <1>6. CASE UNCHANGED vars BY <1>6 DEF vars, NoCandidates, NothingOffered
  <1> QED BY <1>0, <1>2, <1>3, <1>4, <1>5, <1>6, NothingToAnswer DEF Next

\* Under any strategy but NEAREST, the default among them, no rider is ever offered or
\* assigned a delivery, however often it is dispatched.
THEOREM BrokenStrategyOffersNothing ==
  ASSUME Strategy # "NEAREST"
  PROVE  Spec => []NothingOffered
  <1>1. ~CanScore(Strategy) BY NearestAlone, ConfigurationAssumption
  <1>2. Init => NoCandidates
    BY DEF Init, NoCandidates, NothingOffered, FreeOffer, NoAssignment, Idle
  <1>3. Fine /\ NoCandidates /\ [Next]_vars => NoCandidates' BY <1>1, NextNoCandidates
  <1>4. NoCandidates => NothingOffered BY DEF NoCandidates
  <1>5. Spec => []Fine BY InitFine, NextFine, PTL DEF Spec
  <1> QED BY <1>2, <1>3, <1>4, <1>5, PTL DEF Spec

\* Where the first lock of dispatch() raises, a delivery that was created waits for good.
LocksRefused ==
    /\ NothingOffered
    /\ \A d \in Deliveries : delivery[d] \in {"ABSENT", "PENDING"}
    /\ \A w \in Workers : worker[w].pc \in {"idle", "dispatch"}

LEMMA NextLocksRefused ==
  ASSUME RowLocks, Fine, LocksRefused, [Next]_vars
  PROVE  LocksRefused'
  <1>0. NothingOffered /\ ~CanLockDelivery BY DEF LocksRefused, CanLockDelivery
  <1>i. Idle.pc = "idle" BY DEF Idle
  <1>1. ASSUME NEW w \in Workers, DispatchStep(w) \/ Crash(w) PROVE LocksRefused'
    <2>1. CASE DispatchRead(w) \/ Crash(w)
      BY <1>0, <1>i, <2>1 DEF DispatchRead, Crash, LocksRefused, NothingOffered, Fine, WorkersFine
    <2> QED BY <1>1, <2>1 DEF DispatchStep, SetDeliveryWaitingForRider, FindMatches, CreateOffer,
            ExcludeRider, NoRiderRemains, LocksRefused
  <1>2. ASSUME NEW w \in Workers, NEW d \in Deliveries, DeliveryCreated(w, d) \/ StaffDispatch(w, d)
        PROVE  LocksRefused'
    <2>1. [Idle EXCEPT !.pc = "dispatch", !.delivery = d].pc = "dispatch" BY DEF Idle
    <2>2. \A v \in Workers : worker'[v].pc \in {"idle", "dispatch"}
      BY <1>2, <2>1 DEF DeliveryCreated, StaffDispatch, StartDispatch, LocksRefused, Fine, WorkersFine
    <2> QED BY <1>2, <2>2 DEF DeliveryCreated, StaffDispatch, LocksRefused, NothingOffered, Fine,
            DeliveryFine
  <1>3. ASSUME NEW r \in Riders, ToggleOnline(r) PROVE LocksRefused'
    BY <1>3 DEF ToggleOnline, LocksRefused, NothingOffered
  <1>4. CASE UNCHANGED vars BY <1>4 DEF vars, LocksRefused, NothingOffered
  <1> QED BY <1>0, <1>1, <1>2, <1>3, <1>4, NothingToAnswer DEF Next

\* On a backend that executes FOR UPDATE no delivery ever leaves PENDING.
THEOREM LocksStopDispatch ==
  ASSUME RowLocks
  PROVE  Spec => [](NothingOffered /\ \A d \in Deliveries : delivery[d] \in {"ABSENT", "PENDING"})
  <1>1. Init => LocksRefused
    BY DEF Init, LocksRefused, NothingOffered, FreeOffer, NoAssignment, Idle
  <1>2. Fine /\ LocksRefused /\ [Next]_vars => LocksRefused' BY NextLocksRefused
  <1>3. LocksRefused => NothingOffered /\ \A d \in Deliveries : delivery[d] \in {"ABSENT", "PENDING"}
    BY DEF LocksRefused
  <1>4. Spec => []Fine BY InitFine, NextFine, PTL DEF Spec
  <1> QED BY <1>1, <1>2, <1>3, <1>4, PTL DEF Spec

=============================================================================
