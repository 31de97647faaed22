---------------------------- MODULE DataInduction ----------------------------
(***************************************************************************)
(* Induction over the natural numbers, and recursive functions, stated for *)
(* sets and functions.  NaturalsInduction states both for operators, which *)
(* the provers cannot instantiate; these follow from the well-foundedness  *)
(* of the natural numbers.                                                 *)
(***************************************************************************)
EXTENDS Integers, WellFoundedInduction, TLAPS

LEMMA LeastElement ==
  ASSUME NEW T, T \subseteq Nat, T # {}
  PROVE  \E m \in T : \A n \in T : m <= n
<1>1. IsWellFoundedOn(OpToRel(<, Nat), Nat)
      BY NatLessThanWellFounded
<1>2. PICK m \in T : \A n \in T : ~ (<<n, m>> \in OpToRel(<, Nat))
      BY <1>1, WFMin
<1>3. \A n \in T : ~(n < m)
      BY <1>2 DEF OpToRel
<1> QED BY <1>3

\* A set that holds 0 and the successor of each of its elements up to n.
LEMMA UpTo ==
  ASSUME NEW n \in Nat, NEW S, 0 \in S,
         \A i \in 0..(n - 1) : i \in S => i + 1 \in S
  PROVE  0..n \subseteq S
<1> SUFFICES ASSUME ~ (0..n \subseteq S) PROVE FALSE
    OBVIOUS
<1> DEFINE T == {i \in 0..n : i \notin S}
<1>0. T \subseteq Nat /\ T # {}
      OBVIOUS
<1> HIDE DEF T
<1>1. PICK m \in T : \A i \in T : m <= i
      BY <1>0, LeastElement
<1> USE DEF T
<1>2. m # 0 /\ m - 1 \in 0..(n - 1) /\ m - 1 \notin T
      BY <1>1
<1>3. m - 1 \in S /\ (m - 1) + 1 = m
      BY <1>2
<1>4. m \in S
      BY <1>2, <1>3
<1> QED BY <1>4

\* f starts with base and goes on with next, up to n.
Follows(f, n, base, next) ==
  f[0] = base /\ \A i \in 1..n : f[i] = next[<<i, f[i - 1]>>]

\* A function on 0..n that is given at 0 and at i from its value at i - 1.
LEMMA Recursion ==
  ASSUME NEW n \in Nat, NEW V, NEW base \in V,
         NEW next \in [(1..n) \X V -> V]
  PROVE  \E f \in [0..n -> V] : Follows(f, n, base, next)
<1> USE DEF Follows
<1> DEFINE Fits(m, f) == Follows(f, m, base, next)
           S == {m \in 0..n : \E f \in [0..m -> V] : Fits(m, f)}
<1>1. 0 \in S
  <2>1. [i \in 0..0 |-> base] \in [0..0 -> V]
        OBVIOUS
  <2>2. Fits(0, [i \in 0..0 |-> base])
        OBVIOUS
  <2>3. 0 \in 0..n
        OBVIOUS
  <2> QED BY <2>1, <2>2, <2>3
<1>2. ASSUME NEW m \in 0..(n - 1), m \in S PROVE m + 1 \in S
  <2>1. PICK f \in [0..m -> V] : Fits(m, f)
        BY <1>2
  <2> DEFINE g == [i \in 0..(m + 1) |->
                     IF i = m + 1 THEN next[<<m + 1, f[m]>>] ELSE f[i]]
  <2>2. f[m] \in V /\ <<m + 1, f[m]>> \in (1..n) \X V
        OBVIOUS
  <2>3. g \in [0..(m + 1) -> V]
        BY <2>2
  <2>4. g[m + 1] = next[<<m + 1, f[m]>>] /\ \A i \in 0..m : g[i] = f[i]
        OBVIOUS
  <2> HIDE DEF g
  <2>5. g[0] = base
        BY <2>1, <2>4
  <2>6. ASSUME NEW i \in 1..(m + 1) PROVE g[i] = next[<<i, g[i - 1]>>]
    <3>1. CASE i = m + 1
          BY <2>4, <3>1
    <3>2. CASE i # m + 1
      <4>1. i \in 1..m /\ i \in 0..m /\ i - 1 \in 0..m
            BY <3>2
      <4> QED BY <2>1, <2>4, <4>1
    <3> QED BY <3>1, <3>2
  <2>7. m + 1 \in 0..n
        OBVIOUS
  <2> QED BY <2>3, <2>5, <2>6, <2>7
<1> HIDE DEF S
<1>3. 0..n \subseteq S
      BY <1>1, <1>2, UpTo
<1>4. n \in S
      BY <1>3
<1> QED BY <1>4 DEF S

LEMMA FollowsUnique ==
  ASSUME NEW n \in Nat, NEW base, NEW next, NEW f, NEW g,
         Follows(f, n, base, next), Follows(g, n, base, next)
  PROVE  \A i \in 0..n : f[i] = g[i]
<1> DEFINE S == {i \in 0..n : f[i] = g[i]}
<1>1. 0 \in S
      BY DEF Follows
<1>2. ASSUME NEW i \in 0..(n - 1), i \in S PROVE i + 1 \in S
  <2>1. i + 1 \in 1..n /\ i + 1 \in 0..n /\ (i + 1) - 1 = i /\ f[i] = g[i]
        BY <1>2
  <2>2. f[i + 1] = next[<<i + 1, f[i]>>] /\ g[i + 1] = next[<<i + 1, g[i]>>]
        BY <2>1 DEF Follows
  <2> QED BY <2>1, <2>2
<1> HIDE DEF S
<1>3. 0..n \subseteq S
      BY <1>1, <1>2, UpTo
<1> QED BY <1>3 DEF S

\* The same for a function on all the natural numbers.
LEMMA RecursionNat ==
  ASSUME NEW V, NEW base \in V, NEW next \in [(Nat \ {0}) \X V -> V]
  PROVE  \E f \in [Nat -> V] : \A n \in Nat : Follows(f, n, base, next)
<1> DEFINE part(n) == CHOOSE f : f \in [0..n -> V] /\ Follows(f, n, base, next)
<1>1. ASSUME NEW n \in Nat
      PROVE  part(n) \in [0..n -> V] /\ Follows(part(n), n, base, next)
  <2> DEFINE cut == [a \in (1..n) \X V |-> next[a]]
             P(f) == f \in [0..n -> V] /\ Follows(f, n, base, next)
  <2>1. (1..n) \X V \subseteq (Nat \ {0}) \X V
        OBVIOUS
  <2>2. cut \in [(1..n) \X V -> V]
        BY <2>1
  <2>3. \A a \in (1..n) \X V : cut[a] = next[a]
        OBVIOUS
  <2> HIDE DEF cut
  <2>4. PICK f \in [0..n -> V] : Follows(f, n, base, cut)
        BY <2>2, Recursion
  <2>5. ASSUME NEW i \in 1..n PROVE f[i] = next[<<i, f[i - 1]>>]
    <3>1. <<i, f[i - 1]>> \in (1..n) \X V
          OBVIOUS
    <3> QED BY <2>3, <2>4, <3>1 DEF Follows
  <2>6. P(f)
        BY <2>4, <2>5 DEF Follows
  <2> HIDE DEF P
  <2>7. P(CHOOSE g : P(g))
        BY <2>6, Zenon
  <2> QED BY <2>7, Zenon DEF P
<1> HIDE DEF part
<1> DEFINE f == [n \in Nat |-> part(n)[n]]
<1>2. ASSUME NEW n \in Nat, NEW i \in 0..n PROVE f[i] = part(n)[i]
  <2>1. i \in Nat /\ Follows(part(i), i, base, next)
        BY <1>1
  <2>2. Follows(part(n), i, base, next)
    <3>1. Follows(part(n), n, base, next) /\ 1..i \subseteq 1..n
          BY <1>1
    <3> QED BY <3>1 DEF Follows
  <2>3. i \in 0..i
        OBVIOUS
  <2>4. part(i)[i] = part(n)[i]
        BY <2>1, <2>2, <2>3, FollowsUnique
  <2> QED BY <2>1, <2>4
<1>3. f \in [Nat -> V]
  <2>1. ASSUME NEW n \in Nat PROVE part(n)[n] \in V
        BY <1>1
  <2> QED BY <2>1
<1>4. ASSUME NEW n \in Nat PROVE Follows(f, n, base, next)
  <2> HIDE DEF f
  <2>1. Follows(part(n), n, base, next)
        BY <1>1
  <2>2. f[0] = base
    <3>1. 0 \in 0..n
          OBVIOUS
    <3> QED BY <1>2, <2>1, <3>1 DEF Follows
  <2>3. ASSUME NEW i \in 1..n PROVE f[i] = next[<<i, f[i - 1]>>]
    <3>1. i \in 0..n /\ i - 1 \in 0..n
          OBVIOUS
    <3> QED BY <1>2, <2>1, <3>1 DEF Follows
  <2> QED BY <2>2, <2>3 DEF Follows
<1> QED BY <1>3, <1>4
==============================================================================
