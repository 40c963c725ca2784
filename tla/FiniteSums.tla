----------------------------- MODULE FiniteSums -----------------------------
(***************************************************************************)
(* What the proofs need to know of sums over finite sets and of finite     *)
(* sets in general.  Each induction is over the finite subsets of a set,   *)
(* in the form of its smallest counterexample: strict inclusion is well    *)
(* founded, so among the sets that refute a claim one has no proper subset *)
(* that does.                                                              *)
(***************************************************************************)
EXTENDS Integers, FiniteSetsExt, FiniteSetTheorems, TLAPS

\* The sum of f[x] over the x in S.
Total(f, S) == MapThenSumSet(LAMBDA x : f[x], S)

\* The element the fold takes next.
First(S) == CHOOSE x \in S : TRUE

Rest(S) == S \ {First(S)}

\* g is the table of the fold for the subsets of S.
IsTable(g, f, S) ==
    g = [T \in SUBSET S |-> IF T = {} THEN 0 ELSE f[First(T)] + g[Rest(T)]]

\* A table of the fold, if there is one.
Table(f, S) == CHOOSE g : IsTable(g, f, S)

-----------------------------------------------------------------------------
(* Induction.                                                               *)

\* Among finite sets one includes no other (well-foundedness of strict inclusion).
LEMMA MinimalSet ==
  ASSUME NEW S, NEW F \in SUBSET FiniteSubsetsOf(S), F # {}
  PROVE  \E T \in F : \A U \in F : U \subseteq T => U = T
  <1>1. \E T \in F : \A U \in F : <<U, T>> \notin StrictSubsetOrdering(S)
    BY FS_StrictSubsetOrderingWellFounded, WFMin
  <1>2. F \subseteq SUBSET S BY DEF FiniteSubsetsOf
  <1> QED BY <1>1, <1>2 DEF StrictSubsetOrdering

\* The same for sets of subsets of a finite set.
LEMMA MinimalSubset ==
  ASSUME NEW S, IsFiniteSet(S), NEW F \in SUBSET SUBSET S, F # {}
  PROVE  \E T \in F : \A U \in F : U \subseteq T => U = T
  <1>1. F \in SUBSET FiniteSubsetsOf(S) BY FS_FiniteSubsetsOfFinite
  <1> QED BY <1>1, MinimalSet

\* A set of naturals that is not empty has a least element (the intervals up to its
\* elements are finite sets, and the smallest of them ends at the least).
LEMMA LeastNatural ==
  ASSUME NEW N \in SUBSET Nat, N # {}
  PROVE  \E n \in N : \A m \in N : n <= m
  <1> DEFINE F == {0 .. n : n \in N}
  <1>1. F \in SUBSET FiniteSubsetsOf(Nat)
    <2>1. \A n \in N : IsFiniteSet(0 .. n) /\ 0 .. n \subseteq Nat BY FS_Interval
    <2> QED BY <2>1 DEF FiniteSubsetsOf
  <1>a. F # {} OBVIOUS
  <1> HIDE DEF F
  <1>2. PICK T \in F : \A U \in F : U \subseteq T => U = T BY <1>1, <1>a, MinimalSet
  <1> USE DEF F
  <1>3. PICK n \in N : T = 0 .. n OBVIOUS
  <1>4. ASSUME NEW m \in N, m < n PROVE FALSE
    <2>1. 0 .. m \in F /\ 0 .. m \subseteq T BY <1>3, <1>4
    <2>2. 0 .. m = 0 .. n BY <1>2, <1>3, <2>1
    <2>3. n \in 0 .. n /\ n \notin 0 .. m BY <1>4
    <2> QED BY <2>2, <2>3
  <1> QED BY <1>4

-----------------------------------------------------------------------------
(* The fold has a value.                                                    *)

LEMMA RestSmaller ==
  ASSUME NEW T, T # {}
  PROVE  First(T) \in T /\ Rest(T) \subseteq T /\ Rest(T) # T
  BY DEF First, Rest

\* Two tables agree on the sets they share.
LEMMA TableUnique ==
  ASSUME NEW f, NEW S, IsFiniteSet(S), NEW U \in SUBSET S, NEW g, NEW h,
         IsTable(g, f, S), IsTable(h, f, U)
  PROVE  \A T \in SUBSET U : g[T] = h[T]
  <1> DEFINE F == {T \in SUBSET U : g[T] # h[T]}
  <1>1. SUFFICES ASSUME F # {} PROVE FALSE OBVIOUS
  <1>2. IsFiniteSet(U) BY FS_Subset
  <1>a. F \in SUBSET SUBSET U OBVIOUS
  <1> HIDE DEF F
  <1>3. PICK T \in F : \A V \in F : V \subseteq T => V = T
    BY <1>1, <1>2, <1>a, MinimalSubset
  <1> USE DEF F
  <1>4. /\ g[T] = IF T = {} THEN 0 ELSE f[First(T)] + g[Rest(T)]
        /\ h[T] = IF T = {} THEN 0 ELSE f[First(T)] + h[Rest(T)]
    BY DEF IsTable
  <1>5. T # {} BY <1>4
  <1>6. Rest(T) \notin F BY <1>3, <1>5, RestSmaller
  <1> QED BY <1>4, <1>5, <1>6, RestSmaller

\* Every finite set has a table.
LEMMA TableExists ==
  ASSUME NEW f, NEW S, IsFiniteSet(S)
  PROVE  IsTable(Table(f, S), f, S)
  <1> DEFINE F == {T \in SUBSET S : ~IsTable(Table(f, T), f, T)}
  <1>1. SUFFICES ASSUME F # {} PROVE FALSE OBVIOUS
  <1>a. F \in SUBSET SUBSET S OBVIOUS
  <1> HIDE DEF F
  <1>2. PICK T \in F : \A U \in F : U \subseteq T => U = T BY <1>1, <1>a, MinimalSubset
  <1> USE DEF F
  <1> DEFINE Value(U) == Table(f, U)[U]
             g == [U \in SUBSET T |-> IF U = {} THEN 0 ELSE f[First(U)] + Value(Rest(U))]
  <1>3. \A U \in SUBSET T : U # T => IsTable(Table(f, U), f, U) BY <1>2
  <1>4. ASSUME NEW U \in SUBSET T, U # T PROVE Value(U) = g[U]
    <2>1. IsTable(Table(f, U), f, U) BY <1>3, <1>4
    <2>2. Value(U) = IF U = {} THEN 0 ELSE f[First(U)] + Table(f, U)[Rest(U)]
      BY <2>1 DEF IsTable
    <2>3. CASE U = {} BY <2>2, <2>3
    <2>4. CASE U # {}
      <3>1. Rest(U) \in SUBSET U /\ Rest(U) \in SUBSET T /\ Rest(U) # T
        BY <1>4, <2>4, RestSmaller
      <3>2. IsTable(Table(f, Rest(U)), f, Rest(U)) BY <1>3, <3>1
      <3>3. IsFiniteSet(U) BY FS_Subset
      <3>4. Table(f, U)[Rest(U)] = Value(Rest(U)) BY <2>1, <3>1, <3>2, <3>3, TableUnique
      <3> QED BY <2>2, <2>4, <3>4
    <2> QED BY <2>3, <2>4
  <1>5. \A U \in SUBSET T : U # {} => Rest(U) \in SUBSET T /\ Rest(U) # T
    BY RestSmaller
  <1>6. IsTable(g, f, T) BY <1>4, <1>5 DEF IsTable
  <1>7. IsTable(Table(f, T), f, T) BY <1>6 DEF Table
  <1> QED BY <1>7

\* MapThenSumSet is the last entry of the table.
LEMMA TotalIsEntry ==
  ASSUME NEW f, NEW S
  PROVE  Total(f, S) = Table(f, S)[S]
  BY DEF Total, MapThenSumSet, MapThenFoldSet, Table, IsTable, First, Rest

\* The equation of the fold.
LEMMA TotalStep ==
  ASSUME NEW f, NEW S, IsFiniteSet(S)
  PROVE  Total(f, S) = IF S = {} THEN 0 ELSE f[First(S)] + Total(f, Rest(S))
  <1>1. IsTable(Table(f, S), f, S) BY TableExists
  <1>2. Table(f, S)[S] = IF S = {} THEN 0 ELSE f[First(S)] + Table(f, S)[Rest(S)]
    BY <1>1 DEF IsTable
  <1>3. ASSUME S # {} PROVE Table(f, S)[Rest(S)] = Table(f, Rest(S))[Rest(S)]
    <2>1. Rest(S) \in SUBSET S BY <1>3, RestSmaller
    <2>2. IsFiniteSet(Rest(S)) BY <2>1, FS_Subset
    <2>3. IsTable(Table(f, Rest(S)), f, Rest(S)) BY <2>2, TableExists
    <2>4. Rest(S) \in SUBSET Rest(S) OBVIOUS
    <2> QED BY <1>1, <2>1, <2>3, <2>4, TableUnique
  <1> QED BY <1>2, <1>3, TotalIsEntry

-----------------------------------------------------------------------------
(* Sums of integers.                                                        *)

LEMMA TotalIsInteger ==
  ASSUME NEW f, NEW S, IsFiniteSet(S), \A x \in S : f[x] \in Int
  PROVE  Total(f, S) \in Int
  <1> DEFINE F == {T \in SUBSET S : Total(f, T) \notin Int}
  <1>1. SUFFICES ASSUME F # {} PROVE FALSE OBVIOUS
  <1>2. F \in SUBSET SUBSET S OBVIOUS
  <1> HIDE DEF F
  <1>3. PICK T \in F : \A U \in F : U \subseteq T => U = T
    BY <1>1, <1>2, MinimalSubset
  <1> USE DEF F
  <1>4. IsFiniteSet(T) BY FS_Subset
  <1>5. Total(f, T) = IF T = {} THEN 0 ELSE f[First(T)] + Total(f, Rest(T))
    BY <1>4, TotalStep
  <1>6. T # {} BY <1>5
  <1>7. Rest(T) \notin F /\ Rest(T) \in SUBSET S /\ First(T) \in S BY <1>3, <1>6, RestSmaller
  <1>8. Total(f, Rest(T)) \in Int BY <1>7
  <1> QED BY <1>5, <1>6, <1>7, <1>8

\* Any element can be taken out of the sum, not only the one the fold takes.
LEMMA TotalRemove ==
  ASSUME NEW f, NEW S, IsFiniteSet(S), \A x \in S : f[x] \in Int, NEW e \in S
  PROVE  Total(f, S) = f[e] + Total(f, S \ {e})
  <1> DEFINE F == {T \in SUBSET S : \E x \in T : Total(f, T) # f[x] + Total(f, T \ {x})}
  <1>1. SUFFICES ASSUME F # {} PROVE FALSE OBVIOUS
  <1>2. F \in SUBSET SUBSET S OBVIOUS
  <1> HIDE DEF F
  <1>3. PICK T \in F : \A U \in F : U \subseteq T => U = T
    BY <1>1, <1>2, MinimalSubset
  <1> USE DEF F
  <1>4. PICK x \in T : Total(f, T) # f[x] + Total(f, T \ {x}) OBVIOUS
  <1>5. IsFiniteSet(T) /\ \A U \in SUBSET T : IsFiniteSet(U) BY FS_Subset
  <1> DEFINE y == First(T)
             V == T \ {x, y}
  <1>6. y \in T /\ Rest(T) = T \ {y} BY RestSmaller DEF Rest
  <1>7. Total(f, T) = f[y] + Total(f, T \ {y}) BY <1>5, <1>6, TotalStep
  <1>8. x # y BY <1>4, <1>7
  <1>9. T \ {y} \notin F /\ T \ {x} \notin F BY <1>3, <1>6
  <1>10. Total(f, T \ {y}) = f[x] + Total(f, V)
    <2>1. x \in T \ {y} /\ (T \ {y}) \ {x} = V BY <1>8
    <2> QED BY <1>9, <2>1
  <1>11. Total(f, T \ {x}) = f[y] + Total(f, V)
    <2>1. y \in T \ {x} /\ (T \ {x}) \ {y} = V BY <1>6, <1>8
    <2> QED BY <1>9, <2>1
  <1>12. Total(f, V) \in Int /\ f[x] \in Int /\ f[y] \in Int
    <2>1. IsFiniteSet(V) /\ \A z \in V : f[z] \in Int BY <1>5
    <2>2. Total(f, V) \in Int BY <2>1, TotalIsInteger
    <2> QED BY <1>6, <2>2
  <1> HIDE DEF y, V
  <1> QED BY <1>4, <1>7, <1>10, <1>11, <1>12

\* The sum depends on the values at the elements and on nothing else.
LEMMA TotalCongruence ==
  ASSUME NEW f, NEW g, NEW S, IsFiniteSet(S), \A x \in S : f[x] = g[x]
  PROVE  Total(f, S) = Total(g, S)
  <1> DEFINE F == {T \in SUBSET S : Total(f, T) # Total(g, T)}
  <1>1. SUFFICES ASSUME F # {} PROVE FALSE OBVIOUS
  <1>2. F \in SUBSET SUBSET S OBVIOUS
  <1> HIDE DEF F
  <1>3. PICK T \in F : \A U \in F : U \subseteq T => U = T
    BY <1>1, <1>2, MinimalSubset
  <1> USE DEF F
  <1>4. IsFiniteSet(T) BY FS_Subset
  <1>5. /\ Total(f, T) = IF T = {} THEN 0 ELSE f[First(T)] + Total(f, Rest(T))
        /\ Total(g, T) = IF T = {} THEN 0 ELSE g[First(T)] + Total(g, Rest(T))
    BY <1>4, TotalStep
  <1>6. T # {} BY <1>5
  <1>7. Rest(T) \notin F /\ Rest(T) \in SUBSET S /\ First(T) \in S BY <1>3, <1>6, RestSmaller
  <1>8. Total(f, Rest(T)) = Total(g, Rest(T)) BY <1>7
  <1> QED BY <1>5, <1>6, <1>7, <1>8

LEMMA TotalZero ==
  ASSUME NEW f, NEW S, IsFiniteSet(S), \A x \in S : f[x] = 0
  PROVE  Total(f, S) = 0
  <1> DEFINE F == {T \in SUBSET S : Total(f, T) # 0}
  <1>1. SUFFICES ASSUME F # {} PROVE FALSE OBVIOUS
  <1>2. F \in SUBSET SUBSET S OBVIOUS
  <1> HIDE DEF F
  <1>3. PICK T \in F : \A U \in F : U \subseteq T => U = T
    BY <1>1, <1>2, MinimalSubset
  <1> USE DEF F
  <1>4. IsFiniteSet(T) BY FS_Subset
  <1>5. Total(f, T) = IF T = {} THEN 0 ELSE f[First(T)] + Total(f, Rest(T))
    BY <1>4, TotalStep
  <1>6. T # {} BY <1>5
  <1>7. Rest(T) \notin F /\ Rest(T) \in SUBSET S /\ First(T) \in S BY <1>3, <1>6, RestSmaller
  <1>8. Total(f, Rest(T)) = 0 /\ f[First(T)] = 0 BY <1>7
  <1> QED BY <1>5, <1>6, <1>8

\* A new element adds its value.
LEMMA TotalInsert ==
  ASSUME NEW f, NEW S, IsFiniteSet(S), NEW e, e \notin S, f[e] \in Int,
         \A x \in S : f[x] \in Int
  PROVE  Total(f, S \cup {e}) = Total(f, S) + f[e]
  <1> DEFINE T == S \cup {e}
  <1>1. IsFiniteSet(T) /\ e \in T /\ T \ {e} = S /\ \A x \in T : f[x] \in Int
    BY FS_AddElement
  <1> HIDE DEF T
  <1>2. Total(f, T) = f[e] + Total(f, T \ {e}) BY <1>1, TotalRemove
  <1>3. Total(f, S) \in Int BY TotalIsInteger
  <1>4. Total(f, T \ {e}) = Total(f, S) BY <1>1
  <1>5. Total(f, T) = Total(f, S) + f[e] BY <1>2, <1>3, <1>4
  <1> QED BY <1>5 DEF T

\* Where one value changes the sum changes by as much.
LEMMA TotalUpdate ==
  ASSUME NEW f, NEW g, NEW S, IsFiniteSet(S), NEW e \in S,
         \A x \in S : f[x] \in Int /\ g[x] \in Int,
         \A x \in S \ {e} : f[x] = g[x]
  PROVE  Total(g, S) = Total(f, S) - f[e] + g[e]
  <1> DEFINE V == S \ {e}
  <1>1. IsFiniteSet(V) /\ (\A x \in V : f[x] \in Int) /\ (\A x \in V : f[x] = g[x])
    BY FS_Subset
  <1>2. Total(f, S) = f[e] + Total(f, V) /\ Total(g, S) = g[e] + Total(g, V)
    BY TotalRemove
  <1> HIDE DEF V
  <1>3. Total(f, V) = Total(g, V) /\ Total(f, V) \in Int
    BY <1>1, TotalCongruence, TotalIsInteger
  <1> QED BY <1>2, <1>3

-----------------------------------------------------------------------------
(* Sums of naturals.                                                        *)

LEMMA TotalType ==
  ASSUME NEW f, NEW S, IsFiniteSet(S), \A x \in S : f[x] \in Nat
  PROVE  Total(f, S) \in Nat
  <1> DEFINE F == {T \in SUBSET S : Total(f, T) \notin Nat}
  <1>1. SUFFICES ASSUME F # {} PROVE FALSE OBVIOUS
  <1>2. F \in SUBSET SUBSET S OBVIOUS
  <1> HIDE DEF F
  <1>3. PICK T \in F : \A U \in F : U \subseteq T => U = T
    BY <1>1, <1>2, MinimalSubset
  <1> USE DEF F
  <1>4. IsFiniteSet(T) BY FS_Subset
  <1>5. Total(f, T) = IF T = {} THEN 0 ELSE f[First(T)] + Total(f, Rest(T))
    BY <1>4, TotalStep
  <1>6. T # {} BY <1>5
  <1>7. Rest(T) \notin F /\ Rest(T) \in SUBSET S /\ First(T) \in S BY <1>3, <1>6, RestSmaller
  <1>8. Total(f, Rest(T)) \in Nat BY <1>7
  <1> QED BY <1>5, <1>6, <1>7, <1>8

\* A part sums to no more than the whole.
LEMMA TotalMonotone ==
  ASSUME NEW f, NEW S, IsFiniteSet(S), \A x \in S : f[x] \in Nat, NEW P \in SUBSET S
  PROVE  Total(f, P) <= Total(f, S)
  <1> DEFINE F == {T \in SUBSET S : P \subseteq T /\ ~(Total(f, P) <= Total(f, T))}
  <1>1. SUFFICES ASSUME F # {} PROVE FALSE OBVIOUS
  <1>2. F \in SUBSET SUBSET S OBVIOUS
  <1> HIDE DEF F
  <1>3. PICK T \in F : \A U \in F : U \subseteq T => U = T
    BY <1>1, <1>2, MinimalSubset
  <1> USE DEF F
  <1>4. IsFiniteSet(T) /\ IsFiniteSet(P) BY FS_Subset
  <1>5. Total(f, P) \in Nat /\ Total(f, T) \in Nat
    <2>1. (\A z \in T : f[z] \in Nat) /\ (\A z \in P : f[z] \in Nat) OBVIOUS
    <2> QED BY <1>4, <2>1, TotalType
  <1>6. PICK x \in T : x \notin P BY <1>5
  <1>7. T \ {x} \notin F BY <1>3
  <1>8. Total(f, P) <= Total(f, T \ {x}) BY <1>6, <1>7
  <1>9. Total(f, T) = f[x] + Total(f, T \ {x}) BY <1>4, TotalRemove
  <1>10. Total(f, T \ {x}) \in Nat /\ f[x] \in Nat
    <2>1. IsFiniteSet(T \ {x}) /\ \A z \in T \ {x} : f[z] \in Nat BY <1>4, FS_Subset
    <2> QED BY <2>1, TotalType
  <1> QED BY <1>5, <1>8, <1>9, <1>10
=============================================================================
