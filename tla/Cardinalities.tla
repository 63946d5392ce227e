---------------------------- MODULE Cardinalities ----------------------------
(***************************************************************************)
(* Facts about the size of finite sets that more than one proof rests on.   *)
(* The two check-then-act proofs count things in place together with the   *)
(* processes about to add one: a process that ends may leave one thing more *)
(* in place, and is one process fewer.                                     *)
(***************************************************************************)
EXTENDS Integers, TLAPS, FiniteSetTheorems

\* A part of a finite set is finite and no larger.
LEMMA PartOf ==
    ASSUME NEW S, IsFiniteSet(S), NEW T, T \subseteq S
    PROVE  /\ IsFiniteSet(T) /\ Cardinality(T) \in Nat /\ Cardinality(S) \in Nat
           /\ Cardinality(T) <= Cardinality(S)
BY FS_Subset, FS_CardinalityType

\* What a set of cycles holds is no larger than the set.
LEMMA AtMostOneEach ==
    ASSUME NEW S, IsFiniteSet(S), NEW f, NEW T, IsFiniteSet(T),
           \A t \in T : \E s \in S : f[s] = t
    PROVE  Cardinality(T) <= Cardinality(S)
<1> DEFINE S0 == {s \in S : f[s] \in T}
           g == [s \in S0 |-> f[s]]
<1>1. IsFiniteSet(S0) /\ Cardinality(S0) <= Cardinality(S)
  BY PartOf
<1>2. g \in Surjection(S0, T)
  BY DEF Surjection
<1>3. Cardinality(T) <= Cardinality(S0)
  BY <1>1, <1>2, FS_Surjection
<1>4. Cardinality(T) \in Nat /\ Cardinality(S0) \in Nat /\ Cardinality(S) \in Nat
  BY <1>1, FS_CardinalityType
<1> QED BY <1>1, <1>3, <1>4

\* Two parts that cover a set, the second held by a set of cycles.
LEMMA Cover ==
    ASSUME NEW U, NEW L, IsFiniteSet(L), IsFiniteSet(U), NEW S, IsFiniteSet(S), NEW f,
           \A u \in U : u \in L \/ \E s \in S : f[s] = u
    PROVE  Cardinality(U) <= Cardinality(L) + Cardinality(S)
<1> DEFINE T == U \ L
<1>1. IsFiniteSet(T) /\ Cardinality(T) <= Cardinality(S)
  <2>1. IsFiniteSet(T)
    BY PartOf
  <2> QED BY <2>1, AtMostOneEach
<1>2. /\ IsFiniteSet(L \cup T)
      /\ Cardinality(L \cup T) = Cardinality(L) + Cardinality(T) - Cardinality(L \cap T)
  BY <1>1, FS_Union
<1>3. L \cap T = {}
  OBVIOUS
<1>4. Cardinality(L \cap T) = 0
  BY <1>3, FS_EmptySet
<1>5. Cardinality(U) <= Cardinality(L \cup T) /\ Cardinality(U) \in Nat
  BY <1>2, PartOf
<1> QED BY <1>1, <1>2, <1>4, <1>5, FS_CardinalityType

\* S shrinks by at least G while L gains at most what G held.
LEMMA Traded ==
    ASSUME NEW L, IsFiniteSet(L), NEW L1, IsFiniteSet(L1), NEW S, IsFiniteSet(S),
           NEW G, G \subseteq S, NEW S1, S1 \subseteq S \ G, NEW f,
           \A i \in L1 : i \in L \/ \E c \in G : f[c] = i
    PROVE  Cardinality(L1) + Cardinality(S1) <= Cardinality(L) + Cardinality(S)
<1>1. IsFiniteSet(G) /\ IsFiniteSet(S1)
  BY PartOf
<1>2. Cardinality(L1) <= Cardinality(L) + Cardinality(G)
  BY <1>1, Cover
<1>3. Cardinality(S1 \cup G) = Cardinality(S1) + Cardinality(G) - Cardinality(S1 \cap G)
  BY <1>1, FS_Union
<1>4. S1 \cap G = {} /\ S1 \cup G \subseteq S
  OBVIOUS
<1>5. Cardinality(S1 \cap G) = 0
  BY <1>4, FS_EmptySet
<1>6. Cardinality(S1 \cup G) <= Cardinality(S)
  BY <1>4, PartOf
<1> QED BY <1>1, <1>2, <1>3, <1>5, <1>6, FS_CardinalityType
=============================================================================
