------------------------------ MODULE Scoring ------------------------------
(***************************************************************************)
(* How the matched riders of a delivery are put in order: RiderMatch,      *)
(* RiderScorer, RiderRanker and the strategies DispatchStrategyFactory     *)
(* knows (deliveries/dispatch/).                                           *)
(*                                                                         *)
(* A strategy scores a RiderMatch from the attributes it reads.  RiderMatch *)
(* is a dataclass with slots, so reading an attribute that it does not     *)
(* declare raises AttributeError, and the ranking of all matches with it.  *)
(***************************************************************************)
EXTENDS Naturals

\* The fields and properties RiderMatch declares that a score could be made of.
MatchAttributes ==
    {"distance_km", "distance", "search_radius", "active_delivery_count"}

-----------------------------------------------------------------------------
\* What the score() of each strategy reads from the match it is given.

NearestReads == {"distance"}

BalancedReads ==
    {"rating", "distance", "active_delivery_count", "acceptance_rate",
     "completion_rate", "cancellation_rate", "completed_deliveries"}

ExpressReads ==
    {"rating", "acceptance_rate", "completion_rate", "distance",
     "active_delivery_count", "cancellation_rate"}

PerformanceReads ==
    {"rating", "completion_rate", "acceptance_rate", "cancellation_rate",
     "active_delivery_count", "distance"}

VendorPriorityReads ==
    {"rating", "acceptance_rate", "completion_rate", "cancellation_rate",
     "completed_deliveries", "active_jobs", "distance_km"}

CustomerPriorityReads ==
    {"rating", "acceptance_rate", "completion_rate", "cancellation_rate",
     "completed_deliveries", "active_jobs", "distance_km"}

FairDistributionReads ==
    {"rating", "acceptance_rate", "completion_rate", "cancellation_rate",
     "completed_deliveries", "active_jobs", "distance_km"}

\* DispatchStrategyFactory.STRATEGIES
Reads ==
    [BALANCED |-> BalancedReads, NEAREST |-> NearestReads,
     PERFORMANCE |-> PerformanceReads, VENDOR_PRIORITY |-> VendorPriorityReads,
     CUSTOMER_PRIORITY |-> CustomerPriorityReads,
     FAIR_DISTRIBUTION |-> FairDistributionReads, EXPRESS |-> ExpressReads]

Strategies == DOMAIN Reads

\* RiderScorer.score returns rather than raises.
CanScore(strategy) == Reads[strategy] \subseteq MatchAttributes

-----------------------------------------------------------------------------
\* The scores of the one strategy that can score, in the unit of the distances.

BaseScore == 100000

\* NearestDispatchStrategy.score; RiderScorer._normalize_score changes nothing more.
NearestScore(km) == IF km > BaseScore THEN 0 ELSE BaseScore - km

\* RiderRanker.rank: the key is (-score, distance_km).
Precedes(km, other) ==
    \/ NearestScore(km) > NearestScore(other)
    \/ NearestScore(km) = NearestScore(other) /\ km < other
=============================================================================
