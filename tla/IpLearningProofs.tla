-------------------------- MODULE IpLearningProofs --------------------------
(***************************************************************************)
(* What the table of addresses and states keeps, for every number of       *)
(* users, addresses and states, every threshold and every margin.          *)
(***************************************************************************)
EXTENDS IpLearning, FiniteSetTheorems, FunctionTheorems, TLAPS

\* What is true of a row, given the history of picks P: its votes are distinct users
\* who picked that state, its confidence counts the incumbent's, nobody is ahead.
Distinct(evidence) ==
    \A s, t \in States : \A i \in 1..Len(evidence[s]), j \in 1..Len(evidence[t]) :
        evidence[s][i] = evidence[t][j] => s = t /\ i = j

Picked(ip, evidence, P) ==
    \A s \in States : \A i \in 1..Len(evidence[s]) : <<evidence[s][i], ip, s>> \in P

Unbeaten(state, evidence) ==
    \A s \in States : Len(evidence[s]) < Len(evidence[state]) + CHALLENGER_MARGIN

RowOK(ip, row, P) ==
    /\ row \in [state : States, confidence : Nat, evidence : [States -> Seq(Users)],
               stale : BOOLEAN]
    /\ row.confidence = Len(row.evidence[row.state])
    /\ Distinct(row.evidence)
    /\ Picked(ip, row.evidence, P)
    /\ Unbeaten(row.state, row.evidence)

IpInv ==
    /\ verified \subseteq Users
    /\ picks \subseteq Users \X IPs \X States
    /\ DOMAIN mapping = IPs
    /\ mapping = [ip \in IPs |-> mapping[ip]]
    /\ \A ip \in IPs : Known(ip) => RowOK(ip, mapping[ip], picks) /\ mapping[ip].confidence > 0

-----------------------------------------------------------------------------
\* A sequence of distinct members of a finite set is no longer than the set.
LEMMA DistinctLength ==
    ASSUME NEW T, IsFiniteSet(T), NEW q \in Seq(Users),
           \A i \in 1..Len(q) : q[i] \in T,
           \A i, j \in 1..Len(q) : q[i] = q[j] => i = j
    PROVE  Len(q) <= Cardinality(T)
<1>1. Len(q) \in Nat
  OBVIOUS
<1>2. q \in [1..Len(q) -> T]
  OBVIOUS
<1>3. q \in Injection(1..Len(q), T)
  BY <1>2 DEF Injection, IsInjective
<1>4. Cardinality(1..Len(q)) <= Cardinality(T)
  BY <1>3, FS_Injection
<1>5. Cardinality(1..Len(q)) = Len(q)
  <2>1. Cardinality(1..Len(q)) = IF 1 > Len(q) THEN 0 ELSE Len(q) - 1 + 1
    BY <1>1, FS_Interval
  <2> QED
    BY <1>1, <2>1
<1> QED
  BY <1>4, <1>5

\* A vote leaves the row as it should be, and never lowers its confidence.
LEMMA CountedRow ==
    ASSUME NEW ip \in IPs, NEW P, NEW row, RowOK(ip, row, P),
           NEW u \in Users, NEW s \in States,
           \A t \in States : ~Votes(row, u, t),
           row.confidence > 0 \/ row.state = s
    PROVE  /\ RowOK(ip, Counted(row, u, s), P \cup {<<u, ip, s>>})
           /\ Counted(row, u, s).confidence > 0
           /\ Counted(row, u, s).confidence >= row.confidence
<1> DEFINE old == row.evidence
           new == [old EXCEPT ![s] = Append(@, u)]
           state == Incumbent(row.state, s, new)
<1>1. /\ old \in [States -> Seq(Users)]
      /\ row.state \in States
      /\ CHALLENGER_MARGIN \in Nat \ {0}
  BY IpAssumption DEF RowOK
<1>2. /\ new \in [States -> Seq(Users)]
      /\ \A t \in States : t # s => new[t] = old[t]
      /\ new[s] = Append(old[s], u)
  BY <1>1
<1>3. /\ \A t \in States : Len(old[t]) \in Nat /\ Len(new[t]) \in Nat
      /\ Len(new[s]) = Len(old[s]) + 1
      /\ \A i \in 1..Len(old[s]) : new[s][i] = old[s][i]
      /\ new[s][Len(old[s]) + 1] = u
  BY <1>1, <1>2
<1> HIDE DEF old, new
<1>4. state \in States
  BY <1>1 DEF Incumbent
<1>5. Distinct(new)
  <2> SUFFICES ASSUME NEW a \in States, NEW b \in States,
                      NEW i \in 1..Len(new[a]), NEW j \in 1..Len(new[b]),
                      new[a][i] = new[b][j]
               PROVE  a = b /\ i = j
    BY DEF Distinct
  <2>1. \A t \in States : \A k \in 1..Len(old[t]) : old[t][k] # u
    BY DEF Votes, old
  <2>2. Distinct(old)
    BY DEF RowOK, old
  <2>3. \A t \in States : \A k \in 1..Len(new[t]) :
            \/ k \in 1..Len(old[t]) /\ new[t][k] = old[t][k] /\ new[t][k] # u
            \/ t = s /\ k = Len(old[s]) + 1 /\ new[t][k] = u
    <3> SUFFICES ASSUME NEW t \in States, NEW k \in 1..Len(new[t])
                 PROVE  \/ k \in 1..Len(old[t]) /\ new[t][k] = old[t][k] /\ new[t][k] # u
                        \/ t = s /\ k = Len(old[s]) + 1 /\ new[t][k] = u
      OBVIOUS
    <3>1. CASE t # s
      BY <3>1, <1>2, <2>1
    <3>2. CASE t = s
      BY <3>2, <1>3, <2>1
    <3> QED
      BY <3>1, <3>2
  <2>4. CASE new[a][i] = u
    BY <2>3, <2>4
  <2>5. CASE new[a][i] # u
    BY <2>2, <2>3, <2>5 DEF Distinct
  <2> QED
    BY <2>4, <2>5
<1>6. Picked(ip, new, P \cup {<<u, ip, s>>})
  <2> SUFFICES ASSUME NEW t \in States, NEW i \in 1..Len(new[t])
               PROVE  <<new[t][i], ip, t>> \in P \cup {<<u, ip, s>>}
    BY DEF Picked
  <2>1. \A k \in 1..Len(old[t]) : <<old[t][k], ip, t>> \in P
    BY DEF RowOK, Picked, old
  <2>2. CASE t # s
    BY <2>1, <2>2, <1>2
  <2>3. CASE t = s
    BY <2>1, <2>3, <1>3
  <2> QED
    BY <2>2, <2>3
<1>7. \A t \in States : Len(old[t]) < Len(old[row.state]) + CHALLENGER_MARGIN
  BY DEF RowOK, Unbeaten, old
<1>8. Unbeaten(state, new)
  <2> SUFFICES ASSUME NEW t \in States
               PROVE  Len(new[t]) < Len(new[state]) + CHALLENGER_MARGIN
    BY DEF Unbeaten
  <2> DEFINE before == Len(old[row.state])
             after == Len(new[row.state])
             votes == Len(new[s])
  <2>1. /\ before \in Nat /\ after \in Nat /\ votes \in Nat /\ Len(new[t]) \in Nat
        /\ before <= after
        /\ Len(new[t]) < before + CHALLENGER_MARGIN \/ t = s
        /\ row.state = s => after = votes
    BY <1>1, <1>2, <1>3, <1>7
  <2>2. \/ state = s /\ s # row.state /\ votes >= after + CHALLENGER_MARGIN
        \/ state = row.state /\ (s = row.state \/ votes < after + CHALLENGER_MARGIN)
    BY <2>1, <1>1 DEF Incumbent
  <2> HIDE DEF state, before, after, votes
  <2>3. CASE state = s /\ s # row.state /\ votes >= after + CHALLENGER_MARGIN
    <3>1. Len(new[state]) = votes /\ (t = s => Len(new[t]) = votes)
      BY <2>3 DEF votes
    <3> QED
      BY <1>1, <2>1, <2>3, <3>1
  <2>4. CASE state = row.state /\ (s = row.state \/ votes < after + CHALLENGER_MARGIN)
    <3>1. Len(new[state]) = after /\ (t = s => Len(new[t]) = votes)
      BY <2>4 DEF votes, after
    <3> QED
      BY <1>1, <2>1, <2>4, <3>1
  <2> QED
    BY <2>2, <2>3, <2>4
<1>9. row.confidence = Len(old[row.state])
  BY DEF RowOK, old
<1>10. Len(new[state]) > 0 /\ Len(new[state]) >= row.confidence
  BY <1>1, <1>2, <1>3, <1>7, <1>9 DEF Incumbent
<1>11. Counted(row, u, s) = [state |-> state, confidence |-> Len(new[state]),
                             evidence |-> new, stale |-> FALSE]
  BY DEF Counted, old, new
<1> HIDE DEF state
<1> QED
  BY <1>2, <1>4, <1>5, <1>6, <1>8, <1>10, <1>11 DEF RowOK

\* A new row is as it should be before its first vote.
LEMMA FreshRow ==
    ASSUME NEW ip, NEW P, NEW s \in States
    PROVE  /\ RowOK(ip, Fresh(s), P)
           /\ Fresh(s).state = s
<1> DEFINE empty == [t \in States |-> <<>>]
<1>1. \A t \in States : empty[t] = <<>> /\ Len(empty[t]) = 0
  OBVIOUS
<1>2. empty \in [States -> Seq(Users)]
  OBVIOUS
<1>3. Fresh(s) = [state |-> s, confidence |-> 0, evidence |-> empty, stale |-> FALSE]
  BY DEF Fresh
<1> HIDE DEF empty
<1>4. Distinct(empty) /\ Picked(ip, empty, P)
  BY <1>1 DEF Distinct, Picked
<1>5. Unbeaten(s, empty)
  BY <1>1, IpAssumption DEF Unbeaten
<1> QED
  BY <1>1, <1>2, <1>3, <1>4, <1>5 DEF RowOK

\* More history disturbs no row.
LEMMA MorePicks ==
    ASSUME NEW ip, NEW row, NEW P, NEW Q, P \subseteq Q, RowOK(ip, row, P)
    PROVE  RowOK(ip, row, Q)
<1>1. Picked(ip, row.evidence, Q)
  BY DEF RowOK, Picked
<1> QED
  BY <1>1 DEF RowOK

-----------------------------------------------------------------------------
\* The row a vote works on.
LEMMA VotedRow ==
    ASSUME IpInv, NEW ip \in IPs, NEW s \in States
    PROVE  /\ RowOK(ip, Row(ip, s), picks)
           /\ Row(ip, s).confidence > 0 \/ Row(ip, s).state = s
           /\ Known(ip) => Row(ip, s) = mapping[ip]
  BY FreshRow DEF IpInv, Row

LEMMA IpInitInv == IpInit => IpInv
  BY DEF IpInit, IpInv, Known

\* A selection keeps every row in order, and lowers no confidence.
LEMMA SelectionStep ==
    ASSUME IpInv, NEW u \in Users, NEW ip \in IPs, NEW s \in States, RecordSelection(u, ip, s)
    PROVE  /\ IpInv'
           /\ \A home \in IPs : Known(home) => mapping'[home].confidence >= mapping[home].confidence
<1>1. /\ verified' \subseteq Users
      /\ picks' \subseteq Users \X IPs \X States
      /\ picks \subseteq picks'
  BY DEF RecordSelection, IpInv
<1>2. \A home \in IPs : Known(home) =>
          RowOK(home, mapping[home], picks') /\ mapping[home].confidence > 0
                                             /\ mapping[home].confidence \in Int
  <2> SUFFICES ASSUME NEW home \in IPs, Known(home)
               PROVE  RowOK(home, mapping[home], picks') /\ mapping[home].confidence > 0
                                                         /\ mapping[home].confidence \in Int
    OBVIOUS
  <2>1. RowOK(home, mapping[home], picks) /\ mapping[home].confidence > 0
    BY DEF IpInv
  <2>2. mapping[home].confidence \in Int
    BY <2>1 DEF RowOK
  <2> QED
    BY <1>1, <2>1, <2>2, MorePicks
<1>3. CASE mapping' = mapping
  BY <1>1, <1>2, <1>3 DEF IpInv, Known
<1>4. CASE ~\E t \in States : Votes(Row(ip, s), u, t)
  <2> DEFINE row == Row(ip, s)
             voted == Counted(row, u, s)
  <2>1. /\ RowOK(ip, voted, picks')
        /\ voted.confidence > 0
        /\ voted.confidence >= row.confidence
    BY <1>4, VotedRow, CountedRow DEF RecordSelection
  <2>2. Known(ip) => row = mapping[ip]
    BY VotedRow
  <2>3. mapping' = [mapping EXCEPT ![ip] = voted]
    BY <1>4 DEF RecordSelection
  <2> HIDE DEF voted, row
  <2>4. /\ DOMAIN mapping' = IPs
        /\ mapping' = [home \in IPs |-> mapping'[home]]
        /\ mapping'[ip] = voted
        /\ \A home \in IPs : home # ip => mapping'[home] = mapping[home]
    BY <2>3 DEF IpInv
  <2>5. \A home \in IPs : Known(home)' =>
            RowOK(home, mapping'[home], picks') /\ mapping'[home].confidence > 0
    BY <1>2, <2>1, <2>4 DEF Known
  <2>6. \A home \in IPs : Known(home) => mapping'[home].confidence >= mapping[home].confidence
    BY <1>2, <2>1, <2>2, <2>4
  <2> QED
    BY <1>1, <2>4, <2>5, <2>6 DEF IpInv
<1> QED
  BY <1>3, <1>4 DEF RecordSelection

\* No other step writes a vote.
LEMMA OtherStep ==
    ASSUME IpInv,
           \/ \E u \in Users, flag \in BOOLEAN : SetVerified(u, flag)
           \/ \E ip \in IPs : GrowStale(ip)
           \/ Cleanup
           \/ \E selected \in SUBSET IPs : ClearMappings(selected)
           \/ UNCHANGED ipVars
    PROVE  /\ IpInv'
           /\ \A ip \in IPs : (Known(ip) /\ Known(ip)') =>
                mapping'[ip].confidence >= mapping[ip].confidence
<1>0. \A ip \in IPs : Known(ip) => mapping[ip].confidence \in Int
  BY DEF IpInv, RowOK
<1>1. ASSUME NEW u \in Users, NEW flag \in BOOLEAN, SetVerified(u, flag)
      PROVE  IpInv' /\ mapping' = mapping
  BY <1>1 DEF SetVerified, IpInv, Known
<1>2. ASSUME NEW ip \in IPs, GrowStale(ip)
      PROVE  IpInv' /\ \A home \in IPs : Known(home) =>
                           mapping'[home].confidence = mapping[home].confidence
  <2> DEFINE row == mapping[ip]
             aged == [row EXCEPT !.stale = TRUE]
  <2>1. RowOK(ip, row, picks) /\ row.confidence > 0
    BY <1>2 DEF IpInv, GrowStale
  <2>2. /\ aged \in [state : States, confidence : Nat, evidence : [States -> Seq(Users)],
                      stale : BOOLEAN]
        /\ aged.state = row.state
        /\ aged.confidence = row.confidence
        /\ aged.evidence = row.evidence
    BY <2>1 DEF RowOK
  <2>3. RowOK(ip, aged, picks) /\ aged.confidence = row.confidence
    <3> HIDE DEF aged
    <3> QED
      BY <2>1, <2>2 DEF RowOK
  <2>4. mapping' = [mapping EXCEPT ![ip] = aged]
    BY <1>2 DEF GrowStale
  <2> HIDE DEF aged
  <2>5. /\ DOMAIN mapping' = IPs
        /\ mapping' = [home \in IPs |-> mapping'[home]]
        /\ mapping'[ip] = aged
        /\ \A home \in IPs : home # ip => mapping'[home] = mapping[home]
    BY <2>4 DEF IpInv
  <2> QED
    BY <1>2, <2>1, <2>3, <2>5 DEF IpInv, GrowStale, Known
<1>3. ASSUME Cleanup \/ \E selected \in SUBSET IPs : ClearMappings(selected)
      PROVE  IpInv' /\ \A ip \in IPs : Known(ip)' => mapping'[ip] = mapping[ip]
  <2>1. \A ip \in IPs : mapping'[ip] \in {mapping[ip], NoMapping}
    BY <1>3 DEF Cleanup, ClearMappings
  <2>2. DOMAIN mapping' = IPs /\ mapping' = [ip \in IPs |-> mapping'[ip]]
    BY <1>3 DEF Cleanup, ClearMappings
  <2>3. verified' = verified /\ picks' = picks
    BY <1>3 DEF Cleanup, ClearMappings
  <2> QED
    BY <2>1, <2>2, <2>3 DEF IpInv, Known
<1>4. CASE UNCHANGED ipVars
  BY <1>0, <1>4 DEF IpInv, Known, ipVars
<1>5. ASSUME NEW u \in Users, NEW flag \in BOOLEAN, SetVerified(u, flag)
      PROVE  \A ip \in IPs : Known(ip) => mapping'[ip].confidence >= mapping[ip].confidence
  BY <1>0, <1>1, <1>5
<1> QED
  BY <1>0, <1>1, <1>2, <1>3, <1>4, <1>5

\* The invariant is inductive.
LEMMA IpInvariant == IpSpec => []IpInv
<1>1. IpInv /\ [IpNext]_ipVars => IpInv'
  <2> SUFFICES ASSUME IpInv, [IpNext]_ipVars PROVE IpInv'
    OBVIOUS
  <2> QED
    BY SelectionStep, OtherStep DEF IpNext
<1> QED
  BY <1>1, IpInitInv, PTL DEF IpSpec

-----------------------------------------------------------------------------
\* Every row is shaped as the table says, with a confidence the users can give.
THEOREM IpShape == IpSpec => []IpTypeOK
<1>1. ASSUME IpInv, NEW ip \in IPs, Known(ip)
      PROVE  mapping[ip] \in Mappings
  <2> DEFINE row == mapping[ip]
             voters == row.evidence[row.state]
  <2>1. RowOK(ip, row, picks) /\ row.confidence > 0
    BY <1>1 DEF IpInv
  <2>2. voters \in Seq(Users) /\ \A i \in 1..Len(voters) : voters[i] \in Users
    <3>1. voters \in Seq(Users)
      BY <2>1 DEF RowOK
    <3> HIDE DEF voters
    <3> QED
      BY <3>1
  <2>3. \A i, j \in 1..Len(voters) : voters[i] = voters[j] => i = j
    <3>1. Distinct(row.evidence) /\ row.state \in States
      BY <2>1 DEF RowOK
    <3> QED
      BY <3>1 DEF Distinct
  <2>4. Len(voters) <= Cardinality(Users)
    BY <2>2, <2>3, IpAssumption, DistinctLength
  <2>5. Cardinality(Users) \in Nat
    BY IpAssumption, FS_CardinalityType
  <2>6. row.confidence \in 1..Cardinality(Users)
    BY <2>1, <2>2, <2>4, <2>5 DEF RowOK
  <2> QED
    BY <2>1, <2>6 DEF RowOK, Mappings
<1>2. IpInv => IpTypeOK
  BY <1>1 DEF IpInv, IpTypeOK, Known
<1> QED
  BY <1>2, IpInvariant, PTL

\* No user counts twice on an address, for one state or for two.
THEOREM VotesAreSingle == IpSpec => []OneVotePerUser
<1>1. IpInv => OneVotePerUser
  BY DEF IpInv, OneVotePerUser, RowOK, Distinct
<1> QED
  BY <1>1, IpInvariant, PTL

\* A row is backed by as many distinct users, by the history, as its confidence says.
LEMMA RowIsBacked ==
    ASSUME NEW ip, NEW P, NEW row, RowOK(ip, row, P)
    PROVE  LET backers == {u \in Users : <<u, ip, row.state>> \in P} IN
           /\ row.confidence \in Nat /\ Cardinality(backers) \in Nat
           /\ row.confidence <= Cardinality(backers)
<1> DEFINE voters == row.evidence[row.state]
           backers == {u \in Users : <<u, ip, row.state>> \in P}
<1>1. voters \in Seq(Users) /\ \A i \in 1..Len(voters) : voters[i] \in backers
  BY DEF RowOK, Picked
<1>2. \A i, j \in 1..Len(voters) : voters[i] = voters[j] => i = j
  BY DEF RowOK, Distinct
<1>3. IsFiniteSet(backers) /\ Cardinality(backers) \in Nat
  BY IpAssumption, FS_Subset, FS_CardinalityType
<1>4. Len(voters) <= Cardinality(backers)
  <2> HIDE DEF voters, backers
  <2> QED
    BY <1>1, <1>2, <1>3, DistinctLength
<1>5. row.confidence = Len(voters) /\ row.confidence \in Nat
  BY DEF RowOK
<1> HIDE DEF voters
<1> QED
  BY <1>3, <1>4, <1>5

\* A learned state was picked on its address by as many verified users as the threshold says.
THEOREM TrustInvariant == IpSpec => []TrustIsEarned
<1>1. ASSUME IpInv, NEW ip \in IPs, LearnedState(ip) # NoState
      PROVE  Cardinality({u \in Users : <<u, ip, LearnedState(ip)>> \in picks}) >= MIN_CONFIDENCE
  <2> DEFINE row == mapping[ip]
  <2>1. Known(ip) /\ row.confidence >= MIN_CONFIDENCE /\ LearnedState(ip) = row.state
    BY <1>1 DEF LearnedState
  <2>2. RowOK(ip, row, picks)
    BY <1>1, <2>1 DEF IpInv
  <2> DEFINE backing == Cardinality({u \in Users : <<u, ip, row.state>> \in picks})
  <2>3. row.confidence \in Nat /\ backing \in Nat /\ row.confidence <= backing
    BY <2>2, RowIsBacked
  <2>4. backing >= MIN_CONFIDENCE
    <3> HIDE DEF row, backing
    <3> QED
      BY <2>1, <2>3, IpAssumption
  <2> QED
    BY <2>1, <2>4
<1>2. IpInv => TrustIsEarned
  BY <1>1 DEF TrustIsEarned
<1> QED
  BY <1>2, IpInvariant, PTL

\* No state waits a margin ahead of the incumbent.
THEOREM ChallengerInvariant == IpSpec => []NoChallengerAhead
<1>1. IpInv => NoChallengerAhead
  BY DEF IpInv, NoChallengerAhead, RowOK, Unbeaten
<1> QED
  BY <1>1, IpInvariant, PTL

\* Votes never take trust from a row.
THEOREM TrustOnlyGrows == IpSpec => TrustIsKept
<1>1. ASSUME IpInv, [IpNext]_ipVars
      PROVE  \A ip \in IPs : (Known(ip) /\ Known(ip)') =>
                mapping'[ip].confidence >= mapping[ip].confidence
  BY <1>1, SelectionStep, OtherStep DEF IpNext
<1>2. IpInv /\ [IpNext]_ipVars =>
          [\A ip \in IPs : (Known(ip) /\ Known(ip)') =>
              mapping'[ip].confidence >= mapping[ip].confidence]_ipVars
  BY <1>1
<1> QED
  BY <1>2, IpInvariant, PTL DEF IpSpec, TrustIsKept

\* ip_learning.py, rule 5, for what a visitor sees: the state an address is scoped to
\* gives way to another one only when as many distinct verified users as the threshold
\* and the margin together picked that one there, whatever the order of all votes.
FlipIsOutvoted ==
    [][\A ip \in IPs :
          (LearnedState(ip) # NoState /\ LearnedState(ip)' \notin {NoState, LearnedState(ip)}) =>
              Cardinality({u \in Users : <<u, ip, LearnedState(ip)'>> \in picks'})
                  >= MIN_CONFIDENCE + CHALLENGER_MARGIN]_ipVars

\* A vote that changes the state of a row makes it that of a challenger ahead by the margin.
LEMMA TakeoverRow ==
    ASSUME NEW ip, NEW P, NEW row, RowOK(ip, row, P), NEW u \in Users, NEW s \in States,
           Counted(row, u, s).state # row.state
    PROVE  Counted(row, u, s).confidence >= row.confidence + CHALLENGER_MARGIN
<1> DEFINE old == row.evidence
           new == [old EXCEPT ![s] = Append(@, u)]
<1>1. old \in [States -> Seq(Users)] /\ row.state \in States /\ row.confidence = Len(old[row.state])
  BY DEF RowOK
<1>2. Counted(row, u, s) = [state |-> Incumbent(row.state, s, new),
                            confidence |-> Len(new[Incumbent(row.state, s, new)]),
                            evidence |-> new, stale |-> FALSE]
  BY DEF Counted
<1>3. row.state # s => new[row.state] = old[row.state]
  BY <1>1
<1> HIDE DEF old, new
<1> QED
  BY <1>1, <1>2, <1>3 DEF Incumbent

\* What a visitor's address is scoped to is displaced by a clear majority only.
THEOREM FlipNeedsMajority == IpSpec => FlipIsOutvoted
<1>1. ASSUME IpInv, IpInv', [IpNext]_ipVars, NEW ip \in IPs,
             LearnedState(ip) # NoState, LearnedState(ip)' \notin {NoState, LearnedState(ip)}
      PROVE  Cardinality({u \in Users : <<u, ip, LearnedState(ip)'>> \in picks'})
                 >= MIN_CONFIDENCE + CHALLENGER_MARGIN
  <2> DEFINE before == mapping[ip]
             after == mapping'[ip]
  <2>1. /\ Known(ip) /\ before.confidence >= MIN_CONFIDENCE /\ LearnedState(ip) = before.state
        /\ Known(ip)' /\ LearnedState(ip)' = after.state
        /\ after.state # before.state
    BY <1>1 DEF LearnedState
  <2>2. RowOK(ip, before, picks) /\ RowOK(ip, after, picks')
    BY <1>1, <2>1 DEF IpInv
  <2>3. /\ before.confidence \in Nat /\ after.confidence \in Nat
        /\ MIN_CONFIDENCE \in Nat /\ CHALLENGER_MARGIN \in Nat
    BY <2>2, IpAssumption DEF RowOK
  <2>4. after.confidence >= before.confidence + CHALLENGER_MARGIN
    <3>1. PICK u \in Users, home \in IPs, s \in States : RecordSelection(u, home, s)
      <4>1. CASE \E u \in Users, flag \in BOOLEAN : SetVerified(u, flag)
        BY <4>1, <2>1 DEF SetVerified
      <4>2. CASE \E home \in IPs : GrowStale(home)
        BY <4>2, <2>1, <1>1 DEF GrowStale, IpInv, RowOK
      <4>3. CASE Cleanup \/ \E selected \in SUBSET IPs : ClearMappings(selected)
        BY <4>3, <2>1 DEF Cleanup, ClearMappings, Known
      <4>4. CASE UNCHANGED ipVars
        BY <4>4, <2>1 DEF ipVars
      <4> QED
        BY <1>1, <4>1, <4>2, <4>3, <4>4 DEF IpNext
    <3>2. home = ip /\ Row(ip, s) = before /\ after = Counted(before, u, s)
      BY <1>1, <2>1, <3>1 DEF RecordSelection, Row, IpInv
    <3> QED
      BY <2>1, <2>2, <3>1, <3>2, TakeoverRow
  <2>5. after.confidence <= Cardinality({u \in Users : <<u, ip, after.state>> \in picks'})
    BY <2>2, RowIsBacked
  <2>6. Cardinality({u \in Users : <<u, ip, after.state>> \in picks'}) \in Nat
    BY <2>2, RowIsBacked
  <2> HIDE DEF before, after
  <2> QED
    BY <2>1, <2>3, <2>4, <2>5, <2>6
<1>2. IpInv /\ IpInv' /\ [IpNext]_ipVars =>
          [\A ip \in IPs :
              (LearnedState(ip) # NoState /\ LearnedState(ip)' \notin {NoState, LearnedState(ip)}) =>
                  Cardinality({u \in Users : <<u, ip, LearnedState(ip)'>> \in picks'})
                      >= MIN_CONFIDENCE + CHALLENGER_MARGIN]_ipVars
  BY <1>1
<1> QED
  BY <1>2, IpInvariant, PTL DEF IpSpec, FlipIsOutvoted

=============================================================================
