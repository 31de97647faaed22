--------------------------- MODULE PdSelectProofs ---------------------------
(***************************************************************************)
(* The choice of handle_source_capabilities, for whatever objects a source *)
(* offers: the fold over pdos[..num_pdos] finds the first of the objects   *)
(* with the most power, by induction over the slots it has looked at.      *)
(***************************************************************************)
EXTENDS PdSelect, DataInduction

Pdo == [raw_max_current : 0..FieldMax, raw_voltage : 0..FieldMax]

\* The arithmetic of voltage, max_current and power, which are u32: the largest
\* product of two 10-bit fields is far from 2^32, so none of it wraps.
THEOREM PowerFits ==
  ASSUME NEW pdo \in Pdo
  PROVE  /\ Voltage(pdo) \in Nat /\ Voltage(pdo) <= 51150
         /\ MaxCurrent(pdo) \in Nat /\ MaxCurrent(pdo) <= 10230
         /\ Voltage(pdo) * MaxCurrent(pdo) <= 523264500
         /\ Power(pdo) \in Nat
         /\ RawCurrent(MaxCurrent(pdo)) = pdo.raw_max_current
<1>0. pdo.raw_voltage \in Nat /\ pdo.raw_voltage <= 1023
      BY DEF Pdo, FieldMax
<1>1. pdo.raw_max_current \in Nat /\ pdo.raw_max_current <= 1023
      BY DEF Pdo, FieldMax
<1>2. Voltage(pdo) \in Nat /\ Voltage(pdo) <= 51150
      BY <1>0, SMT DEF Voltage
<1>3. MaxCurrent(pdo) \in Nat /\ MaxCurrent(pdo) <= 10230
      BY <1>1, SMT DEF MaxCurrent
<1>4. ASSUME NEW a \in Nat, NEW b \in Nat, a <= 51150, b <= 10230
      PROVE  a * b \in Nat /\ a * b <= 51150 * b /\ 51150 * b <= 523264500
      BY <1>4, SMT
<1>5. /\ Voltage(pdo) * MaxCurrent(pdo) \in Nat
      /\ Voltage(pdo) * MaxCurrent(pdo) <= 523264500
      BY <1>2, <1>3, <1>4, SMT
<1>6. Power(pdo) \in Nat
      BY <1>5, SMT DEF Power
<1>7. RawCurrent(MaxCurrent(pdo)) = pdo.raw_max_current
      BY <1>1, SMT DEF RawCurrent, MaxCurrent
<1> QED BY <1>2, <1>3, <1>5, <1>6, <1>7, SMT

Choice == [index : Nat, power : Nat]

LEMMA BetterType ==
  ASSUME NEW best \in Choice, NEW pdo \in Pdo, NEW i \in Nat
  PROVE  Better(best, pdo, i) \in Choice
<1>1. Power(pdo) \in Nat
      BY PowerFits, SMT
<1> QED BY <1>1 DEF Better, Choice

\* The fold as a function of the number of slots it has looked at.
LEMMA BestFold ==
  ASSUME NEW n \in Nat, NEW objs, \A i \in 0..(n - 1) : objs[i] \in Pdo
  PROVE  \E f \in [0..n -> Choice] :
           /\ f[0] = NoChoice
           /\ \A i \in 1..n : f[i] = Better(f[i - 1], objs[i - 1], i - 1)
           /\ Best(objs, n) = f[n]
<1> DEFINE next == [a \in (1..n) \X Choice |->
                      Better(a[2], objs[a[1] - 1], a[1] - 1)]
           Def(f) == [i \in 0..n |-> IF i = 0 THEN NoChoice
                        ELSE Better(f[i - 1], objs[i - 1], i - 1)]
           best == CHOOSE f : f = Def(f)
<1>1. next \in [(1..n) \X Choice -> Choice]
  <2>1. ASSUME NEW a \in (1..n) \X Choice
        PROVE  Better(a[2], objs[a[1] - 1], a[1] - 1) \in Choice
    <3>1. a[1] - 1 \in 0..(n - 1) /\ a[2] \in Choice /\ a[1] - 1 \in Nat
          OBVIOUS
    <3> QED BY <3>1, BetterType
  <2> QED BY <2>1
<1>2. NoChoice \in Choice
      BY DEF NoChoice, Choice
<1> HIDE DEF next
<1>3. PICK f \in [0..n -> Choice] : Follows(f, n, NoChoice, next)
      BY <1>1, <1>2, Recursion
<1> USE DEF next
<1>4. ASSUME NEW i \in 1..n
      PROVE  f[i] = Better(f[i - 1], objs[i - 1], i - 1)
  <2>1. <<i, f[i - 1]>> \in (1..n) \X Choice
        OBVIOUS
  <2> QED BY <1>3, <2>1 DEF Follows
<1>5. f = Def(f)
      BY <1>3, <1>4 DEF Follows
<1>6. best = Def(best)
  <2> DEFINE P(g) == g = Def(g)
  <2>1. P(f)
        BY <1>5
  <2> HIDE DEF P
  <2>2. P(CHOOSE g : P(g))
        BY <2>1, Zenon
  <2> QED BY <2>2, Zenon DEF P
<1>7. best \in [0..n -> Choice] /\ best[0] = NoChoice
      /\ \A i \in 1..n : best[i] = Better(best[i - 1], objs[i - 1], i - 1)
  <2> HIDE DEF best
  <2>1. DOMAIN best = 0..n /\ best = [i \in 0..n |-> best[i]]
        BY <1>6
  <2>2. best[0] = NoChoice
        BY <1>6
  <2>3. ASSUME NEW i \in 1..n
        PROVE  best[i] = Better(best[i - 1], objs[i - 1], i - 1)
    <3>1. i \in 0..n /\ i # 0
          OBVIOUS
    <3> QED BY <1>6, <3>1
  <2> DEFINE S == {i \in 0..n : best[i] \in Choice}
  <2>4. 0 \in S
        BY <1>2, <2>2
  <2>5. ASSUME NEW i \in 0..(n - 1), i \in S PROVE i + 1 \in S
    <3>1. best[i + 1] = Better(best[i], objs[i], i)
      <4>1. i + 1 \in 1..n /\ (i + 1) - 1 = i
            OBVIOUS
      <4> QED BY <2>3, <4>1
    <3>2. best[i + 1] \in Choice
          BY <3>1, <2>5, BetterType
    <3> QED BY <3>2
  <2> HIDE DEF S
  <2>6. 0..n \subseteq S
        BY <2>4, <2>5, UpTo
  <2>7. \A i \in 0..n : best[i] \in Choice
        BY <2>6 DEF S
  <2> QED BY <2>1, <2>2, <2>3, <2>7
<1>8. Best(objs, n) = best[n]
      BY Zenon DEF Best
<1> HIDE DEF best
<1> QED BY <1>7, <1>8

\* What the fold knows after i slots.
Found(c, objs, i) ==
  \/ /\ c = NoChoice
     /\ \A j \in 0..(i - 1) : Allowed(objs[j]) => Power(objs[j]) = 0
  \/ /\ c.index \in 0..(i - 1) /\ Allowed(objs[c.index])
     /\ c.power = Power(objs[c.index]) /\ c.power > 0
     /\ \A j \in 0..(i - 1) : Allowed(objs[j]) => Power(objs[j]) <= c.power

LEMMA BetterFound ==
  ASSUME NEW i \in Nat, NEW objs, \A j \in 0..i : objs[j] \in Pdo,
         NEW c \in Choice, Found(c, objs, i)
  PROVE  Found(Better(c, objs[i], i), objs, i + 1)
<1>1. \A j \in 0..i : Power(objs[j]) \in Nat
      BY PowerFits
<1>2. c.power \in Nat
      BY DEF Choice
<1>3. /\ 0..((i + 1) - 1) = 0..i /\ i \in 0..i
      /\ \A j \in 0..i : j = i \/ j \in 0..(i - 1)
      /\ \A j \in 0..(i - 1) : j \in 0..i
      OBVIOUS
<1>4. CASE Allowed(objs[i]) /\ Power(objs[i]) > c.power
  <2> DEFINE b == [index |-> i, power |-> Power(objs[i])]
  <2>1. Better(c, objs[i], i) = b /\ b.index = i /\ b.power = Power(objs[i])
        BY <1>4 DEF Better
  <2>2. \A j \in 0..(i - 1) : Allowed(objs[j]) => Power(objs[j]) <= c.power
    <3>1. CASE c = NoChoice /\ \A j \in 0..(i - 1) :
                 Allowed(objs[j]) => Power(objs[j]) = 0
          BY <3>1 DEF NoChoice
    <3> QED BY <3>1 DEF Found
  <2>3. \A j \in 0..i : Allowed(objs[j]) => Power(objs[j]) <= Power(objs[i])
        BY <1>1, <1>2, <1>3, <1>4, <2>2
  <2> HIDE DEF b
  <2>4. b.index \in 0..((i + 1) - 1) /\ Allowed(objs[b.index]) /\ b.power > 0
        BY <1>1, <1>2, <1>3, <1>4, <2>1
  <2> QED BY <1>3, <2>1, <2>3, <2>4 DEF Found
<1>5. CASE ~ (Allowed(objs[i]) /\ Power(objs[i]) > c.power)
  <2>1. Better(c, objs[i], i) = c
        BY <1>5 DEF Better
  <2>2. CASE c = NoChoice /\ \A j \in 0..(i - 1) :
               Allowed(objs[j]) => Power(objs[j]) = 0
    <3>1. Allowed(objs[i]) => Power(objs[i]) = 0
          BY <1>1, <1>3, <1>5, <2>2 DEF NoChoice
    <3>2. \A j \in 0..i : Allowed(objs[j]) => Power(objs[j]) = 0
          BY <1>3, <2>2, <3>1
    <3> QED BY <1>3, <2>1, <2>2, <3>2 DEF Found
  <2>3. CASE /\ c.index \in 0..(i - 1) /\ Allowed(objs[c.index])
             /\ c.power = Power(objs[c.index]) /\ c.power > 0
             /\ \A j \in 0..(i - 1) : Allowed(objs[j]) => Power(objs[j]) <= c.power
    <3>1. \A j \in 0..i : Allowed(objs[j]) => Power(objs[j]) <= c.power
          BY <1>1, <1>2, <1>3, <1>5, <2>3
    <3> QED BY <1>3, <2>1, <2>3, <3>1 DEF Found
  <2> QED BY <2>2, <2>3 DEF Found
<1> QED BY <1>4, <1>5

\* What Select returns for n slots.
LEMMA SelectFound ==
  ASSUME NEW n \in Nat, NEW objs, \A i \in 0..(n - 1) : objs[i] \in Pdo
  PROVE  \E c \in Choice : c.index = Select(objs, n) /\ Found(c, objs, n)
<1>1. PICK f \in [0..n -> Choice] :
        /\ f[0] = NoChoice
        /\ \A i \in 1..n : f[i] = Better(f[i - 1], objs[i - 1], i - 1)
        /\ Best(objs, n) = f[n]
      BY BestFold
<1> DEFINE S == {i \in 0..n : Found(f[i], objs, i)}
<1>2. 0 \in S
      BY <1>1 DEF Found
<1>3. ASSUME NEW i \in 0..(n - 1), i \in S PROVE i + 1 \in S
  <2>1. f[i + 1] = Better(f[i], objs[i], i)
    <3>1. i + 1 \in 1..n /\ (i + 1) - 1 = i
          OBVIOUS
    <3> QED BY <1>1, <3>1
  <2>2. f[i] \in Choice /\ Found(f[i], objs, i) /\ i \in Nat
        BY <1>3
  <2>3. \A j \in 0..i : objs[j] \in Pdo
    <3>1. \A j \in 0..i : j \in 0..(n - 1)
          OBVIOUS
    <3> QED BY <3>1
  <2>4. Found(f[i + 1], objs, i + 1)
        BY <2>1, <2>2, <2>3, BetterFound
  <2> QED BY <2>4
<1> HIDE DEF S
<1>4. 0..n \subseteq S
      BY <1>2, <1>3, UpTo
<1>5. n \in S
      BY <1>4
<1>6. Found(f[n], objs, n) /\ f[n] \in Choice
      BY <1>5 DEF S
<1>7. Select(objs, n) = f[n].index
      BY <1>1 DEF Select, Slots
<1> QED BY <1>6, <1>7

----------------------------------------------------------------------------
LEMMA PayloadType ==
  ASSUME NEW payload \in Payloads
  PROVE  /\ Len(payload) \in 1..MaxObjects /\ payload \in Seq(Objects)
         /\ payload # <<>>
         /\ \A j \in 1..Len(payload) : payload[j] \in Objects /\ payload[j] \in Pdo
<1>1. PICK n \in 1..MaxObjects : payload \in [1..n -> Objects]
      BY DEF Payloads
<1>2. n \in Nat /\ n # 0 /\ Len(payload) = n /\ payload \in Seq(Objects)
      BY <1>1, SelectAssumption
<1> QED BY <1>1, <1>2, SelectAssumption DEF Pdo

\* One message: what is kept and what is asked for.
LEMMA HandleStep ==
  ASSUME RequestTypeOK, NEW payload \in Payloads, HandleSourceCapabilities(payload)
  PROVE  RequestTypeOK' /\ BestRequest'
<1> DEFINE n == Len(payload)
           sel == Select(pdos', n)
<1>1. /\ n \in 1..MaxObjects /\ payload \in Seq(Objects) /\ payload # <<>>
      /\ \A j \in 1..n : payload[j] \in Objects /\ payload[j] \in Pdo
      BY PayloadType
<1>2. /\ pdos \in [0..MaxObjects - 1 -> Objects \cup {NoObject}]
      /\ pdos' = [i \in DOMAIN pdos |-> IF i < n THEN payload[i + 1] ELSE pdos[i]]
      /\ num_pdos' = n /\ caps' = payload
      /\ request' = RequestFor(pdos', sel)
      BY DEF RequestTypeOK, HandleSourceCapabilities
<1>3. MaxObjects \in 1..7 /\ n \in Nat /\ n >= 1 /\ n <= MaxObjects
      BY <1>1, SelectAssumption
<1> HIDE DEF n
<1>4. \A i \in 0..(n - 1) : pdos'[i] = payload[i + 1]
  <2> TAKE i \in 0..(n - 1)
  <2>1. i \in 0..MaxObjects - 1 /\ i < n
        BY <1>3
  <2> QED BY <1>2, <2>1
<1>5. \A i \in 0..(n - 1) : i + 1 \in 1..n
      BY <1>3
<1>6. \A i \in 0..(n - 1) : pdos'[i] \in Pdo
      BY <1>1, <1>4, <1>5
<1>7. PICK c \in Choice : c.index = sel /\ Found(c, pdos', n)
      BY <1>3, <1>6, SelectFound
<1> HIDE DEF sel
<1>8. sel \in 0..(n - 1) /\ sel \in 0..6
      BY <1>3, <1>7 DEF Found, NoChoice
<1>9. pdos'[sel] = payload[sel + 1] /\ sel + 1 \in 1..n
      BY <1>4, <1>5, <1>8
<1>10. request' = [object_position |-> sel + 1,
                   raw_operating_current |-> payload[sel + 1].raw_max_current,
                   raw_min_operating_current |-> payload[sel + 1].raw_max_current]
       BY <1>1, <1>2, <1>9, PowerFits DEF RequestFor
<1>11. RequestTypeOK'
  <2>1. pdos' \in [0..MaxObjects - 1 -> Objects \cup {NoObject}]
    <3>1. \A i \in 0..MaxObjects - 1 : i < n => i + 1 \in 1..n
          BY <1>3
    <3> QED BY <1>1, <1>2, <3>1
  <2>2. num_pdos' \in 0..MaxObjects
        BY <1>2, <1>3
  <2>3. payload[sel + 1].raw_max_current \in 0..FieldMax /\ sel + 1 \in 0..15
        BY <1>1, <1>8, <1>9 DEF Pdo
  <2>4. request' \in Requests
        BY <1>10, <2>3 DEF Requests
  <2> QED BY <1>1, <1>2, <2>1, <2>2, <2>4 DEF RequestTypeOK
<1>12. BestRequest'
  <2> DEFINE p == sel + 1
             usable == {j \in 1..n : Voltage(payload[j]) <= 18000 /\ Power(payload[j]) > 0}
             right == IF usable = {} THEN p = 1
                      ELSE p \in usable /\ \A j \in usable :
                                            Power(payload[j]) <= Power(payload[p])
  <2>1. /\ request'.object_position = p
        /\ request'.raw_operating_current = payload[p].raw_max_current
        /\ request'.raw_min_operating_current = payload[p].raw_max_current
        BY <1>10
  <2>2. p \in 1..n
        BY <1>9
  <2>3. \A j \in 1..n : Power(payload[j]) \in Nat
        BY <1>1, PowerFits
  <2>4. \A j \in 1..n : j - 1 \in 0..(n - 1) /\ pdos'[j - 1] = payload[j]
    <3> TAKE j \in 1..n
    <3>1. j - 1 \in 0..(n - 1) /\ (j - 1) + 1 = j
          BY <1>3
    <3> QED BY <1>4, <3>1
  <2>5. ASSUME c = NoChoice,
               \A j \in 0..(n - 1) : Allowed(pdos'[j]) => Power(pdos'[j]) = 0
        PROVE  right
    <3>1. sel = 0
          BY <1>7, <2>5 DEF NoChoice
    <3>2. p = 1
          BY <3>1
    <3>3. \A j \in 1..n : Voltage(payload[j]) <= 18000 => Power(payload[j]) = 0
          BY <2>4, <2>5 DEF Allowed, VoltageLimit
    <3>4. usable = {}
          BY <3>3
    <3> QED BY <3>2, <3>4
  <2>6. ASSUME c.index \in 0..(n - 1), Allowed(pdos'[c.index]),
               c.power = Power(pdos'[c.index]), c.power > 0,
               \A j \in 0..(n - 1) : Allowed(pdos'[j]) => Power(pdos'[j]) <= c.power
        PROVE  right
    <3>1. Allowed(payload[p]) /\ c.power = Power(payload[p])
          BY <1>7, <1>9, <2>6
    <3>2. p \in usable
          BY <2>2, <2>6, <3>1 DEF Allowed, VoltageLimit
    <3>3. \A j \in usable : Power(payload[j]) <= Power(payload[p])
          BY <2>4, <2>6, <3>1 DEF Allowed, VoltageLimit
    <3> QED BY <3>2, <3>3
  <2> HIDE DEF right
  <2>7. right
        BY <1>7, <2>5, <2>6 DEF Found
  <2>8. caps' = payload /\ Len(caps') = n
        BY <1>2 DEF n
  <2>9. \A j \in 1..n : payload[j] = caps'[j]
        BY <2>8
  <2> DEFINE u == {j \in 1..Len(caps') : Voltage(caps'[j]) <= 18000 /\ Power(caps'[j]) > 0}
  <2>10. u = usable
        BY <2>8
  <2>11. IF u = {} THEN p = 1
         ELSE p \in u /\ \A j \in u : Power(caps'[j]) <= Power(caps'[p])
        BY <2>7, <2>8, <2>10 DEF right
  <2>12. p \in 1..Len(caps')
        BY <2>2, <2>8
  <2>13. /\ request'.raw_operating_current = caps'[p].raw_max_current
         /\ request'.raw_min_operating_current = caps'[p].raw_max_current
        BY <2>1, <2>8
  <2> HIDE DEF u, p
  <2>14. request'.object_position = p
        BY <2>1
  <2> QED BY <2>11, <2>12, <2>13, <2>14 DEF BestRequest, u
<1> QED BY <1>11, <1>12

IInv == RequestTypeOK /\ BestRequest

LEMMA InitInv == Init => IInv
<1> SUFFICES ASSUME Init PROVE IInv
    OBVIOUS
<1>1. pdos \in [0..MaxObjects - 1 -> Objects \cup {NoObject}] /\ caps \in Seq(Objects)
      BY DEF Init
<1>2. num_pdos \in 0..MaxObjects
      BY SelectAssumption DEF Init
<1>3. request \in Requests
      BY DEF Init, Requests, FieldMax
<1>4. BestRequest
      BY DEF Init, BestRequest
<1> QED BY <1>1, <1>2, <1>3, <1>4 DEF IInv, RequestTypeOK

LEMMA StepInv == IInv /\ [Next]_vars => IInv'
<1> SUFFICES ASSUME IInv, [Next]_vars PROVE IInv'
    OBVIOUS
<1>1. CASE Next
      BY <1>1, HandleStep DEF IInv, Next
<1>2. CASE UNCHANGED vars
      BY <1>2 DEF IInv, RequestTypeOK, BestRequest, vars
<1> QED BY <1>1, <1>2

LEMMA Invariant == Spec => []IInv
<1>1. Init => IInv
      BY InitInv
<1>2. IInv /\ [Next]_vars => IInv'
      BY StepInv
<1> QED BY <1>1, <1>2, PTL DEF Spec

\* RequestTypeOK: every request the sink can build fits the fields of its message.
THEOREM RequestFitsFields == Spec => []RequestTypeOK
<1>1. IInv => RequestTypeOK
      BY DEF IInv
<1> QED BY <1>1, Invariant, PTL

\* BestRequest: whatever a source offers, and whatever it offered before.
THEOREM AsksForTheBest == Spec => []BestRequest
<1>1. IInv => BestRequest
      BY DEF IInv
<1> QED BY <1>1, Invariant, PTL
=============================================================================
