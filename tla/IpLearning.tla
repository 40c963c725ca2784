----------------------------- MODULE IpLearning -----------------------------
(***************************************************************************)
(* The table of client addresses and Nigerian states that the shop learns  *)
(* from its users: IPStateMapping (common/models.py), the votes of         *)
(* common/utils/ip_learning.py, the cleanup task and the administrator.    *)
(*                                                                         *)
(* A vote is one transaction on the locked row of its address, so it is    *)
(* one step here.  The same request also saves the selection to User.state *)
(* and the providers that geo.py asks when nothing was learned answer from *)
(* outside; neither touches this table.                                    *)
(***************************************************************************)
EXTENDS Integers, Sequences, FiniteSets

CONSTANTS
    Users,
    IPs,                \* public addresses; private and loopback ones are never recorded
    States,             \* VALID_STATE_CODES
    MIN_CONFIDENCE,     \* votes that make a mapping trusted
    CHALLENGER_MARGIN   \* votes a challenger must be ahead of the incumbent state

CONSTANT NoMapping      \* the address has no row
CONSTANT NoState        \* nothing learned

ASSUME IpAssumption ==
    /\ IsFiniteSet(Users)
    /\ MIN_CONFIDENCE \in Nat
    /\ CHALLENGER_MARGIN \in Nat \ {0}
    /\ NoState \notin States

VARIABLES
    mapping,            \* the row of an address
    verified,           \* users with is_phone_verified
    picks               \* history: who selected what where, while verified

ipVars == <<mapping, verified, picks>>

\* A row; stale says its last vote is MAPPING_TTL_DAYS old.
Mappings ==
    [state : States, confidence : 1..Cardinality(Users), evidence : [States -> Seq(Users)],
     stale : BOOLEAN]

ASSUME NoMappingAssumption == NoMapping \notin Mappings

\* The rows keep their shape; no confidence is zero or beyond the number of users.
IpTypeOK ==
    /\ mapping \in [IPs -> Mappings \cup {NoMapping}]
    /\ verified \subseteq Users
    /\ picks \subseteq Users \X IPs \X States

IpInit ==
    /\ mapping = [ip \in IPs |-> NoMapping]
    /\ verified = {}
    /\ picks = {}

Known(ip) == mapping[ip] # NoMapping

-----------------------------------------------------------------------------
\* Mutants: a challenger must be further ahead than the margin; the last vote wins.
IncumbentAfterMore(state, s, evidence) ==
    IF Len(evidence[s]) > Len(evidence[state]) + CHALLENGER_MARGIN THEN s ELSE state

IncumbentIsLast(state, s, evidence) == s

\* The state of the row after a vote for s.
Incumbent(state, s, evidence) ==
    IF s # state /\ Len(evidence[s]) >= Len(evidence[state]) + CHALLENGER_MARGIN
    THEN s
    ELSE state

\* Mutant: the first vote of a row leaves the default, 0.
CountedLate(row, u, s) ==
    LET evidence == [row.evidence EXCEPT ![s] = Append(@, u)] IN
    [state |-> Incumbent(row.state, s, evidence), confidence |-> Len(row.evidence[row.state]),
     evidence |-> evidence, stale |-> FALSE]

\* Mutant: every vote on the address counts for the incumbent.
CountedTogether(row, u, s) ==
    LET evidence == [row.evidence EXCEPT ![s] = Append(@, u)] IN
    [state |-> Incumbent(row.state, s, evidence), confidence |-> row.confidence + 1,
     evidence |-> evidence, stale |-> FALSE]

\* The row with the vote of u for s, as saved.
Counted(row, u, s) ==
    LET evidence == [row.evidence EXCEPT ![s] = Append(@, u)]
        state == Incumbent(row.state, s, evidence) IN
    [state |-> state, confidence |-> Len(evidence[state]), evidence |-> evidence,
     stale |-> FALSE]

\* get_or_create's row for the first vote.
Fresh(s) ==
    [state |-> s, confidence |-> 0, evidence |-> [t \in States |-> <<>>], stale |-> FALSE]

Row(ip, s) == IF Known(ip) THEN mapping[ip] ELSE Fresh(s)

Votes(row, u, s) == \E i \in 1..Len(row.evidence[s]) : row.evidence[s][i] = u

\* Mutant: only the voters of the selected state are looked through.
RecordSelectionPerState(u, ip, s) ==
    /\ u \in verified
    /\ picks' = picks \cup {<<u, ip, s>>}
    /\ mapping' = IF Votes(Row(ip, s), u, s)
                  THEN mapping
                  ELSE [mapping EXCEPT ![ip] = Counted(Row(ip, s), u, s)]
    /\ UNCHANGED verified

\* record_state_selection: a verified user picks a state; the first pick of a user on
\* an address is a vote, later ones change nothing.
RecordSelection(u, ip, s) ==
    /\ u \in verified
    /\ picks' = picks \cup {<<u, ip, s>>}
    /\ mapping' = IF \E t \in States : Votes(Row(ip, s), u, t)
                  THEN mapping
                  ELSE [mapping EXCEPT ![ip] = Counted(Row(ip, s), u, s)]
    /\ UNCHANGED verified

\* VerifyPhone, or the administrator's edit of the user either way.
SetVerified(u, flag) ==
    /\ verified' = IF flag THEN verified \cup {u} ELSE verified \ {u}
    /\ UNCHANGED <<mapping, picks>>

\* MAPPING_TTL_DAYS pass without a vote on the address.
GrowStale(ip) ==
    /\ Known(ip)
    /\ mapping' = [mapping EXCEPT ![ip].stale = TRUE]
    /\ UNCHANGED <<verified, picks>>

\* cleanup_ip_state_mappings, the daily task and the management command.
Cleanup ==
    /\ mapping' = [ip \in IPs |-> IF Known(ip) /\ mapping[ip].stale THEN NoMapping
                                  ELSE mapping[ip]]
    /\ UNCHANGED <<verified, picks>>

\* The administrator deletes rows, trusted or not.
ClearMappings(selected) ==
    /\ mapping' = [ip \in IPs |-> IF ip \in selected THEN NoMapping ELSE mapping[ip]]
    /\ UNCHANGED <<verified, picks>>

\* lookup_learned_state.
LearnedState(ip) ==
    IF Known(ip) /\ mapping[ip].confidence >= MIN_CONFIDENCE THEN mapping[ip].state ELSE NoState

IpNext ==
    \/ \E u \in Users, ip \in IPs, s \in States : RecordSelection(u, ip, s)
    \/ \E u \in Users, flag \in BOOLEAN : SetVerified(u, flag)
    \/ \E ip \in IPs : GrowStale(ip)
    \/ Cleanup
    \/ \E selected \in SUBSET IPs : ClearMappings(selected)

IpSpec == IpInit /\ [][IpNext]_ipVars

-----------------------------------------------------------------------------
\* ip_learning.py, rule 4: "Each user votes at most once per IP", for whatever state.
OneVotePerUser ==
    \A ip \in IPs : Known(ip) =>
        LET evidence == mapping[ip].evidence IN
        \A s, t \in States : \A i \in 1..Len(evidence[s]), j \in 1..Len(evidence[t]) :
            evidence[s][i] = evidence[t][j] => s = t /\ i = j

\* models.py: "A mapping is only trusted once MIN_CONFIDENCE distinct, phone-verified
\* users have explicitly selected the same state via ?state= while on the same IP":
\* the state a page is scoped to was picked there by as many users, as the history of
\* their requests tells, not the row's own bookkeeping.
TrustIsEarned ==
    \A ip \in IPs : LearnedState(ip) # NoState =>
        Cardinality({u \in Users : <<u, ip, LearnedState(ip)>> \in picks}) >= MIN_CONFIDENCE

\* Rule 5: a challenger that is a margin ahead has taken over; none is left waiting
\* behind an incumbent it beat, whatever the order of the votes.
NoChallengerAhead ==
    \A ip \in IPs : Known(ip) =>
        LET row == mapping[ip] IN
        \A s \in States : Len(row.evidence[s]) < Len(row.evidence[row.state]) + CHALLENGER_MARGIN

\* ip_learning.py: the margin "prevents a single noisy voter from flipping a
\* well-established mapping": votes, those for another state included, never make a
\* trusted row untrusted; only its deletion does.
TrustIsKept ==
    [][\A ip \in IPs : (Known(ip) /\ Known(ip)') =>
          mapping'[ip].confidence >= mapping[ip].confidence]_ipVars

=============================================================================
