------------------------ MODULE RoyaltyLedgerProofs ------------------------
(***************************************************************************)
(* What the rounding of the royalty ledger keeps, for amounts of any size. *)
(***************************************************************************)
EXTENDS RoyaltyLedger, TLAPS

\* The whole share of an amount is the amount: the debit of an event is its gross.
THEOREM WholeShare ==
    ASSUME NEW g \in Int
    PROVE  Net(g, BASIS_POINTS) = g
<1>1. CASE g >= 0
    <2>1. Net(g, BASIS_POINTS) = (g * 10000 + 10000 \div 2) \div 10000
        BY <1>1 DEF Net, Nearest, BASIS_POINTS, Magnitude, Sign
    <2> QED BY <2>1, <1>1
<1>2. CASE g < 0
    <2>1. Net(g, BASIS_POINTS) = -(((-g) * 10000 + 10000 \div 2) \div 10000)
        BY <1>2 DEF Net, Nearest, BASIS_POINTS, Magnitude, Sign
    <2> QED BY <2>1, <1>2
<1> QED BY <1>1, <1>2

\* Rounding is to the nearest unit: a share is off by half a unit at the most.
THEOREM WithinHalfAUnit ==
    ASSUME NEW n \in Int
    PROVE  /\ Nearest(n, BASIS_POINTS) \in Int
           /\ 2 * Magnitude(n - Nearest(n, BASIS_POINTS) * BASIS_POINTS) <= BASIS_POINTS
<1> DEFINE q(k) == (k + 10000 \div 2) \div 10000
<1>1. ASSUME NEW k \in Nat
      PROVE  /\ q(k) \in Int
             /\ k - q(k) * 10000 <= 5000
             /\ q(k) * 10000 - k <= 5000
    OBVIOUS
<1>2. CASE n >= 0
    <2>1. Nearest(n, BASIS_POINTS) = q(n)
        BY <1>2 DEF Nearest, BASIS_POINTS, Magnitude, Sign
    <2> QED BY <2>1, <1>1, <1>2 DEF BASIS_POINTS, Magnitude
<1>3. CASE n < 0
    <2>1. Nearest(n, BASIS_POINTS) = -q(-n)
        BY <1>3 DEF Nearest, BASIS_POINTS, Magnitude, Sign
    <2>2. -n \in Nat
        BY <1>3
    <2> QED BY <2>1, <2>2, <1>1, <1>3 DEF BASIS_POINTS, Magnitude
<1> QED BY <1>2, <1>3

\* Two shares that make up the whole miss its units by one at the most: no more
\* than that is left for the last credit to take.
THEOREM TwoSharesMakeUp ==
    ASSUME NEW g \in Int, NEW s \in 0 .. BASIS_POINTS
    PROVE  Magnitude(g - (Net(g, s) + Net(g, BASIS_POINTS - s))) <= 1
<1> DEFINE a == g * s
           b == g * (BASIS_POINTS - s)
<1>1. a \in Int /\ b \in Int /\ a + b = g * BASIS_POINTS
    BY DEF BASIS_POINTS
<1>2. /\ Net(g, s) \in Int
      /\ 2 * Magnitude(a - Net(g, s) * BASIS_POINTS) <= BASIS_POINTS
    BY <1>1, WithinHalfAUnit DEF Net
<1>3. /\ Net(g, BASIS_POINTS - s) \in Int
      /\ 2 * Magnitude(b - Net(g, BASIS_POINTS - s) * BASIS_POINTS) <= BASIS_POINTS
    BY <1>1, WithinHalfAUnit DEF Net
<1> HIDE DEF a, b
<1> QED BY <1>1, <1>2, <1>3 DEF BASIS_POINTS, Magnitude

\* A level of the tree is half the one below it, rounded up, so that the
\* construction of the root comes to an end.
THEOREM LevelsShrink ==
    ASSUME NEW S, NEW nodes \in Seq(S), Len(nodes) > 1
    PROVE  /\ Len(Level(nodes)) = (Len(nodes) + 1) \div 2
           /\ Len(Level(nodes)) < Len(nodes)
<1>1. Len(nodes) \in Nat /\ (Len(nodes) + 1) \div 2 \in Nat
    OBVIOUS
<1>2. Len(Level(nodes)) = (Len(nodes) + 1) \div 2
    BY <1>1 DEF Level
<1> QED BY <1>1, <1>2
=============================================================================
