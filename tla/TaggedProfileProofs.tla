-------------------------- MODULE TaggedProfileProofs --------------------------
(***************************************************************************)
(* What the primitives of the profile return, for every array, every valid *)
(* cursor and every value of the constants, and which octets stand where   *)
(* in what they store; what generated codecs measure, and what the tools   *)
(* reckon the most of it to be: the facts that the proofs about readers,   *)
(* writers and exchanges start from.                                       *)
(***************************************************************************)
EXTENDS TaggedItems, RecordCodec, CanonicalOctets, FiniteSetTheorems, WellFoundedInduction, TLAPS

Less == {ss \in Nat \X Nat : ss[1] < ss[2]}

(* A non-empty set of natural numbers has a least element: the induction   *)
(* of this module, where a scan or a sum goes over the groups of an        *)
(* integer.                                                                *)
LEMMA LeastNumber ==
  ASSUME NEW T, T \subseteq Nat, T # {}
  PROVE  \E n \in T : \A m \in T : n <= m
<1>1. IsWellFoundedOn(Less, Nat)
  BY NatLessThanWellFounded, Zenon DEF OpToRel, Less
<1>2. \E x \in T : \A y \in T : ~ (<<y, x>> \in Less)
  BY <1>1, WFMin, Zenon
<1>3. PICK x \in T : \A y \in T : ~ (<<y, x>> \in Less)
  BY <1>2
<1>4. \A m \in T : x <= m
  <2> TAKE m \in T
  <2>1. <<m, x>> \in Less <=> m < x
    BY DEF Less
  <2> QED BY <2>1, <1>3
<1> QED BY <1>4

(* A set that holds a number whenever it holds all smaller ones. *)
LEMMA AllNumbers ==
  ASSUME NEW G, NEW top \in Nat,
         \A n \in 0 .. top : (\A m \in 0 .. n - 1 : m \in G) => n \in G
  PROVE  \A n \in 0 .. top : n \in G
<1> DEFINE Missing == {n \in 0 .. top : n \notin G}
<1>1. SUFFICES ASSUME Missing # {} PROVE FALSE
  OBVIOUS
<1>2. Missing \subseteq Nat
  OBVIOUS
<1>3. \E n \in Missing : \A m \in Missing : n <= m
  <2> HIDE DEF Missing
  <2> QED BY <1>1, <1>2, LeastNumber
<1>4. PICK n \in Missing : \A m \in Missing : n <= m
  BY <1>3
<1>5. \A m \in 0 .. n - 1 : m \in G
  BY <1>4
<1> QED BY <1>4, <1>5

-----------------------------------------------------------------------------

(***************************************************************************)
(* The sum of the groups of an integer.  Accumulated is a recursive        *)
(* function, that is, a CHOOSE: there has to be a function its equation    *)
(* holds of before it says anything.                                       *)
(***************************************************************************)
Weight(input, c, n) == Payload(input[c.next + n]) * Radix ^ (n - 1)

Sums(f, input, c, groups) ==
  f = [n \in 0 .. groups |-> IF n = 0 THEN 0 ELSE f[n - 1] + Weight(input, c, n)]

LEMMA SumExists ==
  ASSUME NEW input, NEW c, NEW groups \in Nat
  PROVE  \E f : Sums(f, input, c, groups)
<1> DEFINE W(n) == Weight(input, c, n)
           G == {m \in 0 .. groups : \E f : f = [n \in 0 .. m |-> IF n = 0 THEN 0 ELSE f[n - 1] + W(n)]}
<1>1. ASSUME NEW m \in 0 .. groups, \A k \in 0 .. m - 1 : k \in G
      PROVE  m \in G
  <2> HIDE DEF W
  <2>1. CASE m = 0
    <3> DEFINE f == [n \in 0 .. m |-> 0]
    <3>1. f = [n \in 0 .. m |-> IF n = 0 THEN 0 ELSE f[n - 1] + W(n)]
      BY <2>1
    <3> QED BY <3>1
  <2>2. CASE m > 0
    <3>1. m - 1 \in G
      BY <1>1, <2>2, SMTT(60)
    <3>2. PICK f : f = [n \in 0 .. m - 1 |-> IF n = 0 THEN 0 ELSE f[n - 1] + W(n)]
      BY <3>1
    <3> DEFINE g == [n \in 0 .. m |-> IF n = m THEN f[m - 1] + W(m) ELSE f[n]]
    <3>3. \A n \in 0 .. m : g[n] = IF n = 0 THEN 0 ELSE g[n - 1] + W(n)
      <4> SUFFICES ASSUME NEW n \in 0 .. m
                   PROVE  g[n] = IF n = 0 THEN 0 ELSE g[n - 1] + W(n)
        OBVIOUS
      <4>1. CASE n = m
        <5>1. g[n] = f[m - 1] + W(m)
          BY <4>1
        <5>2. g[n - 1] = f[m - 1]
          BY <2>2, <4>1
        <5> QED BY <2>2, <4>1, <5>1, <5>2
      <4>2. CASE n # m
        <5>1. n \in 0 .. m - 1 /\ g[n] = f[n]
          BY <4>2
        <5>2. f[n] = IF n = 0 THEN 0 ELSE f[n - 1] + W(n)
          <6> HIDE DEF g
          <6> QED BY <3>2, <5>1
        <5>3. n # 0 => g[n - 1] = f[n - 1]
          BY <4>2
        <5> QED BY <5>1, <5>2, <5>3
      <4> QED BY <4>1, <4>2
    <3>4. g = [n \in 0 .. m |-> IF n = 0 THEN 0 ELSE g[n - 1] + W(n)]
      BY <3>3
    <3> HIDE DEF g
    <3> QED BY <3>4
  <2> QED BY <2>1, <2>2
<1> HIDE DEF G
<1>2. groups \in G
  <2>1. \A i \in 0 .. groups : i \in G
    BY <1>1, AllNumbers, Zenon
  <2> QED
    BY <2>1
<1> QED BY <1>2 DEF G, Sums

(* What Accumulated adds up, group by group. *)
LEMMA AccumulatedSum ==
  ASSUME NEW input, NEW c, NEW groups \in Nat
  PROVE  \E f : /\ f[0] = 0
                /\ \A n \in 1 .. groups : f[n] = f[n - 1] + Weight(input, c, n)
                /\ Accumulated(input, c, groups) = f[groups]
<1> DEFINE f == CHOOSE f : Sums(f, input, c, groups)
<1>1. Sums(f, input, c, groups)
  BY SumExists
<1>2. Accumulated(input, c, groups) = f[groups]
  BY DEF Accumulated, Sums, Weight
<1> HIDE DEF f
<1>3. f = [n \in 0 .. groups |-> IF n = 0 THEN 0 ELSE f[n - 1] + Weight(input, c, n)]
  BY <1>1 DEF Sums
<1>4. f[0] = 0 /\ \A n \in 1 .. groups : f[n] = f[n - 1] + Weight(input, c, n)
  BY <1>3
<1> QED BY <1>2, <1>4

-----------------------------------------------------------------------------

(***************************************************************************)
(* Arithmetic of groups.                                                   *)
(***************************************************************************)

LEMMA ProductIsNat ==
  ASSUME NEW a \in Nat, NEW b \in Nat
  PROVE  a * b \in Nat
OBVIOUS

LEMMA ProductGrows ==
  ASSUME NEW d \in Nat, NEW a \in Nat, NEW b \in Nat, a <= b
  PROVE  d * a <= d * b
OBVIOUS

LEMMA ProductExceeds ==
  ASSUME NEW d \in Nat \ {0}, NEW a \in Nat, NEW b \in Nat, a < b
  PROVE  d * a + d <= d * b
<1>1. a + 1 <= b
  OBVIOUS
<1>2. d * (a + 1) <= d * b
  BY <1>1, ProductGrows
<1>3. d * (a + 1) = d * a + d
  OBVIOUS
<1> QED BY <1>2, <1>3

(* What a division gives, and that nothing else would do. *)
LEMMA Division ==
  ASSUME NEW v \in Nat, NEW d \in Nat \ {0}
  PROVE  /\ v \div d \in Nat
         /\ v % d \in 0 .. d - 1
         /\ v = d * (v \div d) + (v % d)
OBVIOUS

LEMMA DivisionIsUnique ==
  ASSUME NEW d \in Nat \ {0}, NEW q \in Nat, NEW low \in 0 .. d - 1
  PROVE  (low + d * q) \div d = q /\ (low + d * q) % d = low
<1> DEFINE v == low + d * q
<1>1. v \in Nat /\ d * q \in Nat
  BY ProductIsNat
<1>2. /\ v \div d \in Nat
      /\ v % d \in 0 .. d - 1
      /\ v = d * (v \div d) + (v % d)
  BY <1>1, Division
<1>3. v = low + d * q
  OBVIOUS
<1> HIDE DEF v
<1>4. ASSUME v \div d < q PROVE FALSE
  <2>1. d * (v \div d) + d <= d * q
    BY <1>2, <1>4, ProductExceeds
  <2>2. d * (v \div d) \in Nat
    BY <1>2, ProductIsNat
  <2> QED BY <1>1, <1>2, <1>3, <2>1, <2>2
<1>5. ASSUME q < v \div d PROVE FALSE
  <2>1. d * q + d <= d * (v \div d)
    BY <1>2, <1>5, ProductExceeds
  <2>2. d * (v \div d) \in Nat
    BY <1>2, ProductIsNat
  <2> QED BY <1>1, <1>2, <1>3, <2>1, <2>2
<1>6. v \div d = q
  <2>1. ~ (v \div d < q) /\ ~ (q < v \div d)
    BY <1>4, <1>5
  <2>2. v \div d \in Nat
    BY <1>2
  <2> QED BY <2>1, <2>2
<1>7. v % d = low
  BY <1>1, <1>2, <1>3, <1>6
<1> QED BY <1>6, <1>7 DEF v

(* The quotient reaches q where the dividend reaches d * q. *)
LEMMA Reaching ==
  ASSUME NEW v \in Nat, NEW d \in Nat \ {0}, NEW q \in Nat
  PROVE  v \div d >= q <=> v >= d * q
<1>1. /\ v \div d \in Nat
      /\ v % d \in 0 .. d - 1
      /\ v = d * (v \div d) + (v % d)
  BY Division
<1>2. d * q \in Nat /\ d * (v \div d) \in Nat
  BY <1>1, ProductIsNat
<1>3. CASE v \div d >= q
  <2>1. d * q <= d * (v \div d)
    BY <1>1, <1>3, ProductGrows
  <2> QED BY <1>1, <1>2, <1>3, <2>1
<1>4. CASE v \div d < q
  <2>1. d * (v \div d) + d <= d * q
    BY <1>1, <1>4, ProductExceeds
  <2> QED BY <1>1, <1>2, <1>4, <2>1
<1> QED BY <1>1, <1>3, <1>4

(* Dividing twice. *)
LEMMA TwoDivisions ==
  ASSUME NEW v \in Nat, NEW d \in Nat \ {0}, NEW e \in Nat \ {0}
  PROVE  (v \div d) \div e = v \div (e * d)
<1> DEFINE q == v \div d
           low == (v % d) + d * (q % e)
<1>1. /\ q \in Nat /\ v % d \in 0 .. d - 1 /\ v = d * q + (v % d)
      /\ q \div e \in Nat /\ q % e \in 0 .. e - 1 /\ q = e * (q \div e) + (q % e)
  BY Division
<1>2. e * d \in Nat \ {0}
  <2>1. d * 1 <= d * e
    BY ProductGrows
  <2>2. d * 1 = d /\ d * e = e * d /\ d * e \in Nat
    BY ProductIsNat
  <2> QED BY <2>1, <2>2
<1>3. low \in 0 .. e * d - 1
  <2>1. d * (q % e) + d <= d * e
    BY <1>1, ProductExceeds
  <2>2. d * (q % e) \in Nat /\ d * e = e * d
    BY <1>1, ProductIsNat
  <2> QED BY <1>1, <1>2, <2>1, <2>2
<1>4. v = low + (e * d) * (q \div e)
  <2>1. d * q = d * (e * (q \div e)) + d * (q % e)
    BY <1>1
  <2>2. d * (e * (q \div e)) = (e * d) * (q \div e)
    BY <1>1
  <2>3. d * q \in Nat /\ d * (q % e) \in Nat /\ (e * d) * (q \div e) \in Nat
    BY <1>1, <1>2, ProductIsNat
  <2> HIDE DEF q
  <2>4. v = (v % d) + d * (q % e) + (e * d) * (q \div e)
    BY <1>1, <2>1, <2>2, <2>3
  <2> QED BY <2>4 DEF low
<1> HIDE DEF q, low
<1>5. v \div (e * d) = q \div e
  BY <1>1, <1>2, <1>3, <1>4, DivisionIsUnique
<1> QED BY <1>5 DEF q

(* Powers grow. *)
LEMMA Powers ==
  ASSUME NEW g \in 0 .. LastGroup
  PROVE  /\ Radix ^ g \in Nat \ {0}
         /\ \A h \in 0 .. g : Radix ^ h <= Radix ^ g
<1> DEFINE G == {n \in 0 .. LastGroup : \A h \in 0 .. n : Radix ^ h <= Radix ^ n}
<1>0. LastGroup \in Nat /\ Radix \in Nat /\ Radix >= 2
  BY ProfileAssumption
<1>1. \A n \in 0 .. LastGroup : Radix ^ n \in Nat \ {0}
  BY PowerAssumption
<1>2. ASSUME NEW n \in 0 .. LastGroup, \A m \in 0 .. n - 1 : m \in G
      PROVE  n \in G
  <2>1. CASE n = 0
    <3>1. \A h \in 0 .. n : h = n
      BY <2>1
    <3> QED BY <1>1, <3>1
  <2>2. CASE n > 0
    <3>1. n - 1 \in G /\ n - 1 \in 0 .. LastGroup /\ (n - 1) + 1 = n
      BY <1>2, <2>2
    <3>2. Radix ^ n = Radix * Radix ^ (n - 1)
      BY <3>1, PowerAssumption
    <3>3. Radix ^ (n - 1) * 1 <= Radix ^ (n - 1) * Radix
      BY <1>0, <1>1, <3>1, ProductGrows
    <3>4. Radix ^ (n - 1) <= Radix ^ n
      BY <1>0, <1>1, <3>1, <3>2, <3>3
    <3>5. \A h \in 0 .. n : h = n \/ h \in 0 .. n - 1
      OBVIOUS
    <3>6. \A h \in 0 .. n : h \in 0 .. LastGroup
      BY <1>0
    <3> QED BY <1>1, <3>1, <3>4, <3>5, <3>6
  <2> QED BY <2>1, <2>2
<1> HIDE DEF G
<1>3. g \in G
  <2>1. \A i \in 0 .. LastGroup : i \in G
    BY <1>0, <1>2, AllNumbers, Zenon
  <2> QED
    BY <2>1
<1> QED BY <1>1, <1>3 DEF G

-----------------------------------------------------------------------------

(***************************************************************************)
(* The size of an integer and its groups.                                  *)
(***************************************************************************)
Quotient(v, g) == v \div Radix ^ g

LEMMA Limits ==
  /\ LastGroup \in Nat /\ LastGroup >= 1
  /\ Radix \in Nat /\ Radix >= 2
  /\ MaxUnsigned \in Nat
  /\ MaxUnsigned = 2 * Radix ^ LastGroup - 1
  /\ MaxFieldTag \in Nat /\ MaxFieldTag >= 1
  /\ \A g \in 0 .. LastGroup : Radix ^ g \in Nat \ {0}
<1>1. LastGroup \in 0 .. LastGroup
  BY ProfileAssumption
<1>2. Radix ^ LastGroup \in Nat \ {0}
  BY <1>1, PowerAssumption
<1> QED BY <1>2, ProfileAssumption, PowerAssumption DEF MaxUnsigned

(* A size is known by the thresholds the value reaches ... *)
LEMMA SizeFromThresholds ==
  ASSUME NEW v \in Nat, NEW n \in 1 .. LastGroup + 1,
         \A g \in 1 .. LastGroup : v >= Radix ^ g <=> g < n
  PROVE  Unsigned_Size(v) = n
<1>1. {g \in 1 .. LastGroup : v >= Radix ^ g} = 1 .. n - 1
  BY Limits
<1>2. Cardinality(1 .. n - 1) = n - 1
  <2>1. n - 1 \in Int /\ 1 \in Int
    BY Limits
  <2> QED BY <2>1, FS_Interval, Limits
<1>3. Unsigned_Size(v) = 1 + Cardinality({g \in 1 .. LastGroup : v >= Radix ^ g})
  BY DEF Unsigned_Size
<1>4. Unsigned_Size(v) = 1 + Cardinality(1 .. n - 1)
  BY <1>1, <1>3
<1>5. n \in Nat
  BY Limits
<1> QED BY <1>2, <1>4, <1>5

(* ... and says which those are. *)
LEMMA Thresholds ==
  ASSUME NEW v \in Nat
  PROVE  /\ Unsigned_Size(v) \in 1 .. LastGroup + 1
         /\ \A g \in 1 .. LastGroup : v >= Radix ^ g <=> g < Unsigned_Size(v)
<1> DEFINE Missed == {g \in 1 .. LastGroup + 1 : g = LastGroup + 1 \/ ~ (v >= Radix ^ g)}
<1>1. Missed \subseteq Nat /\ Missed # {}
  BY Limits
<1>2. PICK n \in Missed : \A m \in Missed : n <= m
  <2> HIDE DEF Missed
  <2> QED BY <1>1, LeastNumber
<1>3. n \in 1 .. LastGroup + 1
  OBVIOUS
<1>4. ASSUME NEW g \in 1 .. LastGroup
      PROVE  v >= Radix ^ g <=> g < n
  <2>1. CASE g < n
    <3>1. g \notin Missed
      BY <1>2, <1>3, <2>1, Limits
    <3> QED BY <2>1, <3>1, Limits
  <2>2. CASE ~ (g < n)
    <3>1. n \in 0 .. g /\ g \in 0 .. LastGroup /\ n \in 0 .. LastGroup
      BY <1>3, <2>2, Limits
    <3>2. Radix ^ n <= Radix ^ g
      BY <3>1, Powers
    <3>3. ~ (v >= Radix ^ n)
      BY <1>2, <3>1, Limits
    <3>4. Radix ^ n \in Nat /\ Radix ^ g \in Nat
      BY <3>1, Limits
    <3> QED BY <2>2, <3>2, <3>3, <3>4
  <2> QED BY <2>1, <2>2
<1>5. Unsigned_Size(v) = n
  BY <1>3, <1>4, SizeFromThresholds
<1> QED BY <1>3, <1>4, <1>5

LEMMA Quotients ==
  ASSUME NEW v \in Nat, NEW g \in 0 .. LastGroup
  PROVE  /\ Quotient(v, g) \in Nat
         /\ Quotient(v, g) % Radix \in 0 .. Radix - 1
         /\ Quotient(v, g) = Radix * (Quotient(v, g) \div Radix) + (Quotient(v, g) % Radix)
         /\ Quotient(v, g) >= 1 <=> v >= Radix ^ g
         /\ v <= MaxUnsigned /\ g = LastGroup => Quotient(v, g) <= 1
         /\ g < LastGroup => /\ Quotient(v, g + 1) = Quotient(v, g) \div Radix
                             /\ Quotient(v, g) >= Radix <=> v >= Radix ^ (g + 1)
<1> DEFINE d == Radix ^ g
           q == v \div d
<1>1. d \in Nat \ {0} /\ Radix \in Nat \ {0} /\ 1 \in Nat /\ 2 \in Nat
  BY Limits
<1>2. Quotient(v, g) = q
  BY DEF Quotient
<1> HIDE DEF d
<1>3. q \in Nat
  BY <1>1, Division
<1>4. q >= 1 <=> v >= d
  <2>1. q >= 1 <=> v >= d * 1
    BY <1>1, Reaching
  <2> QED BY <1>1, <2>1
<1>5. ASSUME v <= MaxUnsigned, g = LastGroup
      PROVE  q <= 1
  <2>1. q >= 2 <=> v >= d * 2
    BY <1>1, Reaching
  <2>2. MaxUnsigned = 2 * d - 1
    BY <1>5, Limits DEF d
  <2> QED BY <1>1, <1>3, <1>5, <2>1, <2>2
<1>6. ASSUME g < LastGroup
      PROVE  /\ Quotient(v, g + 1) = q \div Radix
             /\ q >= Radix <=> v >= Radix ^ (g + 1)
  <2>1. Radix ^ (g + 1) = Radix * d
    BY PowerAssumption DEF d
  <2>2. q \div Radix = v \div (Radix * d)
    BY <1>1, TwoDivisions
  <2>3. q >= Radix <=> v >= d * Radix
    BY <1>1, Reaching
  <2>4. d * Radix = Radix * d
    BY <1>1
  <2> QED BY <2>1, <2>2, <2>3, <2>4 DEF Quotient
<1> HIDE DEF q
<1>7. /\ q % Radix \in 0 .. Radix - 1
      /\ q = Radix * (q \div Radix) + (q % Radix)
  BY <1>1, <1>3, Division
<1> QED BY <1>2, <1>3, <1>4, <1>5, <1>6, <1>7 DEF d

(* Which octet a group is, and what a reader makes of it. *)
LEMMA Groups ==
  ASSUME NEW v \in Unsigned, NEW g \in 0 .. Unsigned_Size(v) - 1
  PROVE  /\ g \in 0 .. LastGroup
         /\ Group(v, g) \in Octet
         /\ Payload(Group(v, g)) = Quotient(v, g) % Radix
         /\ Continues(Group(v, g)) <=> g < Unsigned_Size(v) - 1
         /\ g = Unsigned_Size(v) - 1 => /\ Quotient(v, g) < Radix
                                        /\ Quotient(v, g) % Radix = Quotient(v, g)
                                        /\ g > 0 => Quotient(v, g) >= 1
         /\ g = LastGroup => Quotient(v, g) % Radix <= 1
<1> DEFINE q == Quotient(v, g)
           size == Unsigned_Size(v)
<1>1. v \in Nat /\ v <= MaxUnsigned
  BY Limits DEF Unsigned
<1>2. /\ size \in 1 .. LastGroup + 1
      /\ \A h \in 1 .. LastGroup : v >= Radix ^ h <=> h < size
  BY <1>1, Thresholds
<1>3. g \in 0 .. LastGroup
  BY <1>2, Limits
<1>4. /\ q \in Nat
      /\ q % Radix \in 0 .. Radix - 1
      /\ q >= 1 <=> v >= Radix ^ g
      /\ g = LastGroup => q <= 1
      /\ g < LastGroup => (q >= Radix <=> v >= Radix ^ (g + 1))
  BY <1>1, <1>3, Quotients
<1>5. Group(v, g) = IF q >= Radix THEN (q % Radix) + Radix ELSE q
  BY DEF Group, Quotient
<1> HIDE DEF q, size
<1>6. q >= Radix <=> g < size - 1
  <2>1. CASE g = LastGroup
    <3>1. q <= 1 /\ ~ (g < size - 1)
      BY <1>2, <1>4, <2>1, Limits
    <3> QED BY <1>4, <3>1, Limits
  <2>2. CASE g < LastGroup
    <3>1. g + 1 \in 1 .. LastGroup
      BY <1>3, <2>2, Limits
    <3> QED BY <1>2, <1>3, <1>4, <2>2, <3>1, Limits
  <2> QED BY <1>3, <2>1, <2>2, Limits
<1>7. q < Radix => q % Radix = q
  BY <1>4, Limits
<1>8. CASE q >= Radix
  <2>1. Group(v, g) = (q % Radix) + Radix
    BY <1>5, <1>8
  <2>2. ((q % Radix) + Radix) % Radix = q % Radix
    <3> DEFINE low == q % Radix
    <3>1. low \in 0 .. Radix - 1 /\ Radix \in Nat \ {0} /\ 1 \in Nat
      BY <1>4, Limits
    <3> HIDE DEF low
    <3>2. (low + Radix * 1) % Radix = low
      BY <3>1, DivisionIsUnique
    <3>3. low + Radix * 1 = low + Radix
      BY <3>1
    <3> QED BY <3>2, <3>3 DEF low
  <2>3. Group(v, g) \in Octet
    BY <1>4, <2>1, Limits DEF Octet
  <2>4. Continues(Group(v, g)) /\ Payload(Group(v, g)) = q % Radix
    BY <1>4, <2>1, <2>2, Limits DEF Continues, Payload
  <2>5. g = LastGroup => FALSE
    BY <1>4, <1>8, Limits
  <2> QED BY <1>3, <1>4, <1>6, <1>8, <2>3, <2>4, <2>5, Limits DEF q, size
<1>9. CASE ~ (q >= Radix)
  <2>1. Group(v, g) = q /\ q < Radix
    BY <1>4, <1>5, <1>9, Limits
  <2>2. Group(v, g) \in Octet /\ ~ Continues(Group(v, g)) /\ Payload(Group(v, g)) = q % Radix
    BY <1>4, <1>7, <2>1, Limits DEF Octet, Continues, Payload
  <2>3. g > 0 => q >= 1
    <3> SUFFICES ASSUME g > 0 PROVE q >= 1
      OBVIOUS
    <3>1. g \in 1 .. LastGroup /\ g < size
      BY <1>2, <1>3, Limits DEF size
    <3>2. v >= Radix ^ g
      BY <1>2, <3>1
    <3> QED BY <1>4, <3>2
  <2>4. g = LastGroup => q % Radix <= 1
    BY <1>4, <1>7, <2>1
  <2> QED BY <1>3, <1>4, <1>6, <1>7, <1>9, <2>1, <2>2, <2>3, <2>4 DEF q, size
<1> QED BY <1>8, <1>9

-----------------------------------------------------------------------------

(***************************************************************************)
(* Reading an integer.  buffer holds the integer v from offset k on:       *)
(***************************************************************************)
Encodes(buffer, k, v) == \A g \in 0 .. Unsigned_Size(v) - 1 : buffer[k + g + 1] = Group(v, g)

Cursor_Record == [first : Nat, next : Nat, limit : Nat]

LEMMA CursorFields ==
  ASSUME NEW c \in Cursor_Record
  PROVE  /\ c.first \in Nat /\ c.next \in Nat /\ c.limit \in Nat
         /\ Remaining(c) = c.limit - c.next
         /\ \A n : Advance(c, n) = [first |-> c.first, next |-> c.next + n, limit |-> c.limit]
BY DEF Cursor_Record, Remaining, Advance, Cursor

(* A scan stops at the first group it has to stop at. *)
LEMMA ScanEnds ==
  ASSUME NEW input, NEW c
  PROVE  /\ Last_Scanned(input, c) \in 0 .. LastGroup
         /\ Scan_Ends(input, c, Last_Scanned(input, c))
         /\ \A g \in 0 .. Last_Scanned(input, c) - 1 : ~ Scan_Ends(input, c, g)
<1> DEFINE Ends == {g \in 0 .. LastGroup : Scan_Ends(input, c, g)}
<1>1. LastGroup \in Ends /\ Ends \subseteq Nat
  BY Limits DEF Scan_Ends
<1>2. PICK g \in Ends : \A h \in Ends : g <= h
  <2> HIDE DEF Ends
  <2> QED BY <1>1, LeastNumber
<1>3. \A h \in 0 .. g - 1 : ~ Scan_Ends(input, c, h)
  BY <1>2, Limits
<1>4. \E group \in 0 .. LastGroup :
        /\ Scan_Ends(input, c, group)
        /\ \A earlier \in 0 .. group - 1 : ~ Scan_Ends(input, c, earlier)
  BY <1>2, <1>3
<1> QED BY <1>4 DEF Last_Scanned

LEMMA ScanEndsAt ==
  ASSUME NEW input, NEW c, NEW group \in 0 .. LastGroup, Scan_Ends(input, c, group),
         \A g \in 0 .. group - 1 : ~ Scan_Ends(input, c, g)
  PROVE  Last_Scanned(input, c) = group
<1> DEFINE last == Last_Scanned(input, c)
<1>1. /\ last \in 0 .. LastGroup
      /\ Scan_Ends(input, c, last)
      /\ \A g \in 0 .. last - 1 : ~ Scan_Ends(input, c, g)
  BY ScanEnds
<1> HIDE DEF last
<1>2. ~ (last < group) /\ ~ (group < last)
  BY <1>1, Limits
<1>3. last = group
  BY <1>1, <1>2, Limits
<1> QED BY <1>3 DEF last

(* Where an array holds an integer, that integer is what is read there. *)
LEMMA EncodedIsRead ==
  ASSUME NEW input \in Seq(Octet), NEW c \in Cursor_Record, Is_Valid(c, Len(input)),
         NEW v \in Unsigned, Encodes(input, c.next, v), Unsigned_Size(v) <= Remaining(c)
  PROVE  Read_Unsigned(input, c) =
           [status |-> "Read", value |-> v, cursor |-> Advance(c, Unsigned_Size(v))]
<1> DEFINE size == Unsigned_Size(v)
           q(g) == Quotient(v, g)
<1>1. v \in Nat
  BY Limits DEF Unsigned
<1>2. size \in 1 .. LastGroup + 1
  BY <1>1, Thresholds
<1>3. /\ c.next \in Nat /\ c.limit \in Nat /\ Remaining(c) = c.limit - c.next
      /\ Len(input) \in Nat /\ c.limit <= Len(input)
  BY CursorFields DEF Is_Valid
<1>4. \A g \in 0 .. size - 1 :
        /\ g \in 0 .. LastGroup
        /\ input[c.next + g + 1] = Group(v, g)
        /\ Payload(Group(v, g)) = q(g) % Radix
        /\ Continues(Group(v, g)) <=> g < size - 1
        /\ g = size - 1 => q(g) < Radix /\ q(g) % Radix = q(g) /\ (g > 0 => q(g) >= 1)
        /\ g = LastGroup => q(g) % Radix <= 1
  BY Groups DEF Encodes
<1>5. \A g \in 0 .. LastGroup :
        /\ q(g) \in Nat
        /\ q(g) % Radix \in 0 .. Radix - 1
        /\ q(g) = Radix * (q(g) \div Radix) + (q(g) % Radix)
        /\ g < LastGroup => q(g + 1) = q(g) \div Radix
  BY <1>1, Quotients
<1>6. size <= c.limit - c.next
  BY <1>3
<1>7. \A g \in 0 .. size - 1 : ~ Exhausted(c, c.next + g) /\ ~ Faults(input, c.next + g)
  BY <1>2, <1>3, <1>6, Limits DEF Exhausted, Faults
<1>8. q(0) = v
  <2>1. v \div 1 = v
    BY <1>1
  <2> QED BY <2>1, PowerAssumption DEF Quotient
<1> HIDE DEF size, q
<1>9. Last_Scanned(input, c) = size - 1
  <2>1. size - 1 \in 0 .. LastGroup /\ size - 1 \in 0 .. size - 1
    BY <1>2, Limits
  <2>2. Scan_Ends(input, c, size - 1)
    BY <1>4, <2>1 DEF Scan_Ends
  <2>3. \A g \in 0 .. (size - 1) - 1 : ~ Scan_Ends(input, c, g)
    BY <1>2, <1>4, <1>7, Limits DEF Scan_Ends
  <2> QED BY <2>1, <2>2, <2>3, ScanEndsAt
<1>10. Accumulated(input, c, size) = v
  <2>1. size \in Nat
    BY <1>2, Limits
  <2>2. PICK f : /\ f[0] = 0
                 /\ \A n \in 1 .. size : f[n] = f[n - 1] + Weight(input, c, n)
                 /\ Accumulated(input, c, size) = f[size]
    BY <2>1, AccumulatedSum
  <2>3. \A n \in 1 .. size : Weight(input, c, n) = (q(n - 1) % Radix) * Radix ^ (n - 1)
    <3> SUFFICES ASSUME NEW n \in 1 .. size
                 PROVE  Weight(input, c, n) = (q(n - 1) % Radix) * Radix ^ (n - 1)
      OBVIOUS
    <3>1. n - 1 \in 0 .. size - 1 /\ c.next + (n - 1) + 1 = c.next + n
      BY <1>3, <2>1
    <3>2. Payload(input[c.next + n]) = q(n - 1) % Radix
      BY <1>4, <3>1
    <3> QED BY <3>2 DEF Weight
  <2> DEFINE G == {n \in 0 .. size - 1 : f[n] \in Nat /\ v = f[n] + Radix ^ n * q(n)}
  <2>4. ASSUME NEW n \in 0 .. size - 1, \A m \in 0 .. n - 1 : m \in G
        PROVE  n \in G
    <3>1. CASE n = 0
      <4>1. Radix ^ n * q(n) = v
        BY <1>1, <1>8, <3>1, PowerAssumption
      <4> QED BY <1>1, <2>2, <3>1, <4>1
    <3>2. CASE n > 0
      <4> DEFINE p == n - 1
                 d == Radix ^ p
                 low == q(p) % Radix
                 high == q(n)
      <4>1. p \in G /\ p \in 0 .. LastGroup /\ p < LastGroup /\ p + 1 = n /\ n \in 1 .. size
        BY <1>2, <2>1, <2>4, <3>2, Limits
      <4>2. d \in Nat /\ low \in Nat /\ high \in Nat /\ Radix \in Nat
        <5>1. n \in 0 .. LastGroup
          BY <1>2, <4>1, Limits
        <5>2. high \in Nat
          BY <1>5, <5>1
        <5>3. low \in 0 .. Radix - 1
          BY <1>5, <4>1
        <5>4. d \in Nat
          BY <4>1, Limits
        <5> QED BY <5>2, <5>3, <5>4, Limits
      <4>3. q(p) = Radix * high + low
        BY <1>5, <4>1
      <4>4. f[n] = f[p] + low * d
        BY <2>2, <2>3, <4>1
      <4>5. Radix ^ n = Radix * d
        BY <4>1, PowerAssumption
      <4>6. f[p] \in Nat /\ v = f[p] + d * q(p)
        BY <4>1
      <4> HIDE DEF p, d, low, high, G
      <4>7. d * q(p) = low * d + (Radix * d) * high
        <5>1. d * (Radix * high + low) = d * (Radix * high) + d * low
          BY <4>2
        <5>2. d * (Radix * high) = (Radix * d) * high /\ d * low = low * d
          BY <4>2
        <5>3. low * d \in Nat /\ (Radix * d) * high \in Nat
          BY <4>2, ProductIsNat
        <5> QED BY <4>3, <5>1, <5>2, <5>3
      <4>8. low * d \in Nat /\ (Radix * d) * high \in Nat
        BY <4>2, ProductIsNat
      <4>9. f[n] \in Nat /\ v = f[n] + (Radix * d) * high
        BY <1>1, <4>4, <4>6, <4>7, <4>8
      <4>10. f[n] \in Nat /\ v = f[n] + Radix ^ n * q(n)
        BY <4>5, <4>9 DEF high
      <4> QED BY <4>10 DEF G
    <3> QED BY <3>1, <3>2
  <2>5. size - 1 \in Nat /\ size - 1 \in 0 .. size - 1 /\ size \in 1 .. size /\ size - 1 \in 0 .. LastGroup
    BY <1>2, <2>1, Limits
  <2>6. size - 1 \in G
    <3> HIDE DEF G
    <3> QED BY <2>4, <2>5, AllNumbers
  <2>7. f[size] = f[size - 1] + q(size - 1) * Radix ^ (size - 1)
    BY <1>4, <2>2, <2>3, <2>5
  <2>8. q(size - 1) * Radix ^ (size - 1) = Radix ^ (size - 1) * q(size - 1)
    <3> DEFINE a == q(size - 1)
               b == Radix ^ (size - 1)
    <3>1. a \in Nat /\ b \in Nat
      BY <1>5, <2>5, Limits
    <3> HIDE DEF a, b
    <3>2. a * b = b * a
      BY <3>1
    <3> QED BY <3>2 DEF a, b
  <2> QED BY <2>2, <2>6, <2>7, <2>8
<1>11. /\ size - 1 \in 0 .. size - 1 /\ (size - 1) + 1 = size
       /\ c.next + (size - 1) + 1 = c.next + size
  BY <1>2, <1>3, Limits
<1>12. /\ ~ Exhausted(c, c.next + (size - 1))
       /\ ~ Faults(input, c.next + (size - 1))
       /\ Payload(input[c.next + (size - 1) + 1]) = q(size - 1)
       /\ ~ Continues(input[c.next + (size - 1) + 1])
       /\ size - 1 > 0 => q(size - 1) >= 1
       /\ size - 1 = LastGroup => q(size - 1) <= 1
       /\ q(size - 1) \in Nat
  BY <1>4, <1>5, <1>7, <1>11
<1>13. /\ ~ (size - 1 = LastGroup /\ (q(size - 1) > 1 \/ Continues(input[c.next + (size - 1) + 1])))
       /\ ~ (size - 1 > 0 /\ q(size - 1) = 0)
  BY <1>12
<1> QED
  BY <1>9, <1>10, <1>11, <1>12, <1>13 DEF Read_Unsigned, size

(* An octet is its payload and whether another group follows. *)
LEMMA Octets ==
  ASSUME NEW octet \in Octet
  PROVE  /\ Payload(octet) \in 0 .. Radix - 1
         /\ Continues(octet) => octet = Payload(octet) + Radix
         /\ ~ Continues(octet) => octet = Payload(octet)
<1>1. CASE Continues(octet)
  <2> DEFINE low == octet - Radix
  <2>1. low \in 0 .. Radix - 1 /\ octet = low + Radix /\ Radix \in Nat \ {0} /\ 1 \in Nat
    BY <1>1, Limits DEF Octet, Continues
  <2> HIDE DEF low
  <2>2. (low + Radix * 1) % Radix = low
    BY <2>1, DivisionIsUnique
  <2>3. low + Radix * 1 = octet
    BY <2>1
  <2> QED BY <1>1, <2>1, <2>2, <2>3 DEF Payload
<1>2. CASE ~ Continues(octet)
  <2>1. octet \in 0 .. Radix - 1
    BY <1>2, Limits DEF Octet, Continues
  <2> QED BY <1>2, <2>1, Limits DEF Payload
<1> QED BY <1>1, <1>2

(* Groups 0 .. group of an integer, as a scan that does not refuse finds   *)
(* them: all but the last continue, and the last is not superfluous.       *)
Shortest(input, c, group) ==
  /\ \A g \in 0 .. group : input[c.next + g + 1] \in Octet
  /\ \A g \in 0 .. group : Continues(input[c.next + g + 1]) <=> g < group
  /\ group > 0 => Payload(input[c.next + group + 1]) >= 1
  /\ group = LastGroup => Payload(input[c.next + group + 1]) <= 1

(* The sum of such groups has just these groups. *)
LEMMA SumOfGroups ==
  ASSUME NEW input, NEW c, c.next \in Nat, NEW group \in 0 .. LastGroup, Shortest(input, c, group),
         NEW v, v = Accumulated(input, c, group + 1)
  PROVE  /\ v \in Unsigned
         /\ Unsigned_Size(v) = group + 1
         /\ Encodes(input, c.next, v)
<1> DEFINE p(k) == Payload(input[c.next + k + 1])
           q(k) == Quotient(v, k)
<1>1. group \in Nat /\ group <= LastGroup /\ group + 1 \in Nat /\ Radix \in Nat \ {0} /\ Radix >= 2
  BY Limits
<1>2. PICK f : /\ f[0] = 0
               /\ \A n \in 1 .. group + 1 : f[n] = f[n - 1] + Weight(input, c, n)
               /\ v = f[group + 1]
  BY <1>1, AccumulatedSum
<1>3. \A k \in 0 .. group : /\ p(k) \in 0 .. Radix - 1
                            /\ k \in 0 .. LastGroup
                            /\ Radix ^ k \in Nat \ {0}
                            /\ Radix ^ (k + 1) = Radix * Radix ^ k
  BY <1>1, Octets, Limits, PowerAssumption DEF Shortest
<1>4. \A k \in 0 .. group : f[k + 1] = f[k] + Radix ^ k * p(k)
  <2> TAKE k \in 0 .. group
  <2>1. k + 1 \in 1 .. group + 1 /\ (k + 1) - 1 = k /\ c.next + (k + 1) = c.next + k + 1
    BY <1>1
  <2>2. f[k + 1] = f[k] + p(k) * Radix ^ k
    BY <1>2, <2>1 DEF Weight
  <2> DEFINE a == p(k)
             b == Radix ^ k
  <2>3. a \in Nat /\ b \in Nat
    BY <1>3
  <2> HIDE DEF a, b
  <2>4. a * b = b * a
    BY <2>3
  <2> QED BY <2>2, <2>4 DEF a, b
<1> HIDE DEF p
<1>5. \A k \in 0 .. group : f[k] \in 0 .. Radix ^ k - 1
  <2> DEFINE G == {k \in 0 .. group : f[k] \in 0 .. Radix ^ k - 1}
  <2>1. ASSUME NEW k \in 0 .. group, \A m \in 0 .. k - 1 : m \in G
        PROVE  k \in G
    <3>1. CASE k = 0
      BY <1>2, <3>1, PowerAssumption
    <3>2. CASE k > 0
      <4> DEFINE j == k - 1
                 d == Radix ^ j
                 a == p(j)
      <4>1. j \in G /\ j \in 0 .. group /\ j + 1 = k
        BY <2>1, <3>2
      <4>2. a \in 0 .. Radix - 1 /\ d \in Nat \ {0} /\ Radix ^ k = Radix * d
        BY <1>3, <4>1
      <4>3. f[k] = f[j] + d * a /\ f[j] \in 0 .. d - 1
        BY <1>4, <4>1
      <4> HIDE DEF j, d, a, G
      <4>4. d * a \in Nat /\ d * a + d <= d * Radix /\ d * Radix = Radix * d
        BY <1>1, <4>2, ProductIsNat, ProductExceeds
      <4>5. f[k] \in 0 .. Radix ^ k - 1
        BY <1>1, <4>2, <4>3, <4>4
      <4> QED BY <4>5 DEF G
    <3> QED BY <3>1, <3>2
  <2> HIDE DEF G
  <2>2. \A k \in 0 .. group : k \in G
    BY <1>1, <2>1, AllNumbers
  <2> QED BY <2>2 DEF G
<1>6. v = f[group] + Radix ^ group * p(group)
  BY <1>1, <1>2, <1>4
<1>7. v \in Nat
  <2>1. group \in 0 .. group
    BY <1>1
  <2> DEFINE d == Radix ^ group
             a == p(group)
  <2>2. d \in Nat /\ a \in Nat /\ f[group] \in Nat
    BY <1>3, <1>5, <2>1
  <2> HIDE DEF d, a
  <2>3. d * a \in Nat
    BY <2>2, ProductIsNat
  <2> QED BY <1>6, <2>2, <2>3 DEF d, a
(* From the last group down. *)
<1>8. \A k \in 0 .. group : /\ v = f[k] + Radix ^ k * q(k)
                            /\ q(k) \in Nat
                            /\ q(k) % Radix = p(k)
                            /\ k > 0 => q(k) >= 1
                            /\ k < group => q(k) >= Radix
                            /\ k = group => q(k) = p(k)
  <2> DEFINE Right(k) == /\ v = f[k] + Radix ^ k * q(k)
                         /\ q(k) \in Nat
                         /\ q(k) % Radix = p(k)
                         /\ k > 0 => q(k) >= 1
                         /\ k < group => q(k) >= Radix
                         /\ k = group => q(k) = p(k)
             G == {j \in 0 .. group : Right(group - j)}
  <2>1. ASSUME NEW j \in 0 .. group, \A m \in 0 .. j - 1 : m \in G
        PROVE  j \in G
    <3> DEFINE k == group - j
               d == Radix ^ k
               a == p(k)
    <3>1. k \in 0 .. group
      BY <1>1
    <3>2. a \in 0 .. Radix - 1 /\ d \in Nat \ {0} /\ Radix ^ (k + 1) = Radix * d
      BY <1>3, <3>1
    <3>3. f[k] \in 0 .. d - 1
      BY <1>5, <3>1
    <3>4. CASE j = 0
      <4>1. k = group /\ v = f[k] + d * a
        BY <1>1, <1>6, <3>4
      <4>2. q(k) = a
        <5> HIDE DEF d, a, k
        <5>1. v \div d = a
          <6>1. a \in Nat /\ d \in Nat \ {0}
            BY <1>1, <3>2
          <6>2. (f[k] + d * a) \div d = a
            BY <3>3, <6>1, DivisionIsUnique
          <6> QED BY <4>1, <6>2
        <5> QED BY <5>1 DEF Quotient, d
      <4>3. a % Radix = a
        BY <1>1, <3>2
      <4>4. k > 0 => a >= 1
        BY <4>1 DEF Shortest, p
      <4>5. Right(k)
        <5>1. v = f[k] + Radix ^ k * q(k)
          BY <4>1, <4>2
        <5>2. q(k) \in Nat /\ q(k) % Radix = p(k) /\ q(k) = p(k) /\ (k > 0 => q(k) >= 1)
          BY <3>2, <4>2, <4>3, <4>4
        <5> QED BY <4>1, <5>1, <5>2
      <4> QED BY <4>5
    <3>5. CASE j > 0
      <4> DEFINE high == q(k + 1)
      <4>1. j - 1 \in G /\ group - (j - 1) = k + 1 /\ k < group /\ k + 1 > 0
        BY <1>1, <2>1, <3>5
      <4>2. Right(k + 1)
        BY <4>1
      <4>3. v = f[k + 1] + Radix ^ (k + 1) * high /\ high \in Nat /\ high >= 1
        BY <4>1, <4>2
      <4>4. f[k + 1] = f[k] + d * a
        BY <1>4, <3>1
      <4> HIDE DEF d, a, k, high, Right, G
      <4>5. d * (a + Radix * high) = d * a + (Radix * d) * high
        <5>1. d * (a + Radix * high) = d * a + d * (Radix * high)
          BY <1>1, <3>2, <4>3
        <5>2. d * (Radix * high) = (Radix * d) * high
          BY <1>1, <3>2, <4>3
        <5> QED BY <5>1, <5>2
      <4>6. /\ Radix * high \in Nat /\ a + Radix * high \in Nat
            /\ d * a \in Nat /\ (Radix * d) * high \in Nat /\ d * (a + Radix * high) \in Nat
        BY <1>1, <3>2, <4>3, ProductIsNat
      <4>7. v = f[k] + d * (a + Radix * high)
        BY <3>2, <3>3, <4>3, <4>4, <4>5, <4>6
      <4>8. v \div d = a + Radix * high
        BY <3>2, <3>3, <4>6, <4>7, DivisionIsUnique
      <4>9. (a + Radix * high) % Radix = a
        BY <1>1, <3>2, <4>3, DivisionIsUnique
      <4>10. Radix * 1 <= Radix * high
        BY <1>1, <4>3, ProductGrows
      <4>11. q(k) = a + Radix * high
        BY <4>8 DEF Quotient, d
      <4>12. q(k) \in Nat /\ q(k) >= Radix /\ q(k) >= 1
        BY <1>1, <3>2, <4>6, <4>10, <4>11
      <4>13. v = f[k] + Radix ^ k * q(k) /\ q(k) % Radix = p(k)
        BY <4>7, <4>9, <4>11 DEF d, a
      <4>14. k # group
        BY <1>1, <3>1, <4>1
      <4>15. Right(k)
        BY <4>12, <4>13, <4>14 DEF Right
      <4> QED BY <4>15 DEF G, k
    <3> QED BY <3>4, <3>5
  <2> HIDE DEF G, Right
  <2>2. \A j \in 0 .. group : j \in G
    BY <1>1, <2>1, AllNumbers
  <2>3. ASSUME NEW k \in 0 .. group PROVE Right(k)
    <3>1. group - k \in 0 .. group /\ group - (group - k) = k
      BY <1>1
    <3> QED BY <2>2, <3>1 DEF G
  <2> QED BY <2>3 DEF Right
(* It is below the threshold of one more group. *)
<1>9. v < Radix * Radix ^ group /\ (group = LastGroup => v <= MaxUnsigned)
  <2> DEFINE d == Radix ^ group
             a == p(group)
  <2>1. group \in 0 .. group
    BY <1>1
  <2>2. /\ d \in Nat \ {0} /\ a \in 0 .. Radix - 1 /\ f[group] \in 0 .. d - 1
        /\ v = f[group] + d * a
    BY <1>3, <1>5, <1>6, <2>1
  <2>3. group = LastGroup => a <= 1 /\ MaxUnsigned = 2 * d - 1
    BY Limits DEF Shortest, p
  <2> HIDE DEF d, a
  <2>4. d * a \in Nat /\ d * a + d <= d * Radix /\ d * Radix = Radix * d
    BY <1>1, <2>2, ProductIsNat, ProductExceeds
  <2>5. a <= 1 => d * a <= d * 1
    BY <2>2, ProductGrows
  <2>6. v < Radix * d
    BY <1>1, <2>2, <2>4
  <2>7. group = LastGroup => v <= MaxUnsigned
    BY <1>1, <2>2, <2>3, <2>4, <2>5
  <2> QED BY <2>6, <2>7 DEF d
<1>10. \A g \in 1 .. LastGroup : v >= Radix ^ g <=> g < group + 1
  <2> TAKE g \in 1 .. LastGroup
  <2>1. g \in 0 .. LastGroup /\ Radix ^ g \in Nat
    BY Limits
  <2>2. CASE g < group + 1
    <3>1. g \in 0 .. group /\ g > 0
      BY <1>1, <2>2
    <3>2. q(g) >= 1
      BY <1>8, <3>1
    <3>3. v >= Radix ^ g
      BY <1>7, <2>1, <3>2, Quotients
    <3> QED BY <2>2, <3>3
  <2>3. CASE ~ (g < group + 1)
    <3>1. group + 1 \in 0 .. g /\ group \in 0 .. LastGroup
      BY <1>1, <2>3
    <3>2. Radix ^ (group + 1) <= Radix ^ g
      BY <2>1, <3>1, Powers
    <3>3. Radix ^ (group + 1) = Radix * Radix ^ group
      BY <3>1, PowerAssumption
    <3>4. Radix ^ (group + 1) \in Nat
      <4>1. group + 1 \in 0 .. LastGroup
        BY <3>1, Limits
      <4> QED BY <4>1, Limits
    <3>5. ~ (v >= Radix ^ g)
      BY <1>7, <1>9, <2>1, <3>2, <3>3, <3>4
    <3> QED BY <2>3, <3>5
  <2> QED BY <2>2, <2>3
<1>11. Unsigned_Size(v) = group + 1
  <2>1. group + 1 \in 1 .. LastGroup + 1
    BY <1>1, Limits
  <2> QED BY <1>7, <1>10, <2>1, SizeFromThresholds
<1>12. v <= MaxUnsigned
  <2>1. CASE group = LastGroup
    BY <1>9, <2>1
  <2>2. CASE group < LastGroup
    <3> DEFINE d == Radix ^ LastGroup
    <3>1. LastGroup \in 1 .. LastGroup /\ ~ (LastGroup < group + 1)
      BY <1>1, <2>2, Limits
    <3>2. ~ (v >= d)
      BY <1>10, <3>1
    <3>3. d \in Nat /\ MaxUnsigned = 2 * d - 1
      BY <3>1, Limits
    <3> HIDE DEF d
    <3> QED BY <1>7, <3>2, <3>3
  <2> QED BY <1>1, <2>1, <2>2, Limits
<1>13. Encodes(input, c.next, v)
  <2> SUFFICES ASSUME NEW g \in 0 .. group PROVE input[c.next + g + 1] = Group(v, g)
    BY <1>1, <1>11 DEF Encodes
  <2>1. Group(v, g) = IF q(g) >= Radix THEN (q(g) % Radix) + Radix ELSE q(g)
    BY DEF Group, Quotient
  <2> DEFINE octet == input[c.next + g + 1]
  <2>2. /\ octet \in Octet
        /\ Continues(octet) <=> g < group
        /\ p(g) = Payload(octet)
    BY DEF Shortest, p
  <2>3. q(g) \in Nat /\ q(g) % Radix = p(g) /\ (g < group => q(g) >= Radix) /\ (g = group => q(g) = p(g))
    BY <1>8
  <2>4. /\ Payload(octet) \in 0 .. Radix - 1
        /\ Continues(octet) => octet = Payload(octet) + Radix
        /\ ~ Continues(octet) => octet = Payload(octet)
    BY <2>2, Octets
  <2> HIDE DEF q, octet
  <2>5. CASE g < group
    BY <1>1, <2>1, <2>2, <2>3, <2>4, <2>5 DEF octet
  <2>6. CASE g = group
    <3>1. ~ (q(g) >= Radix)
      BY <1>1, <2>2, <2>3, <2>4, <2>6
    <3> QED BY <1>1, <2>1, <2>2, <2>3, <2>4, <2>6, <3>1 DEF octet
  <2> QED BY <1>1, <2>5, <2>6
<1> QED
  BY <1>7, <1>11, <1>12, <1>13, Limits DEF Unsigned

-----------------------------------------------------------------------------

(***************************************************************************)
(* Every read through a valid cursor either refuses and leaves the cursor  *)
(* alone, or returns what the array holds there and takes just that.       *)
(***************************************************************************)
Read_Refusal ==
  {"Truncated", "Value_Overflow", "Noncanonical", "Invalid_Boolean",
   "Destination_Too_Small", "Invalid_Tag", "Tag_Order_Error", "Extent_Outside_Container"}

ReadRefused(c, result) == result.status \in Read_Refusal /\ result.cursor = c

(* result takes the octets of v from cursor c on, and room octets more. *)
Takes(input, c, v, room, result) ==
  /\ result.status = "Read"
  /\ v \in Unsigned
  /\ Encodes(input, c.next, v)
  /\ Unsigned_Size(v) + room <= Remaining(c)
  /\ result.cursor = Advance(c, Unsigned_Size(v) + room)

LEMMA SizeOfUnsigned ==
  ASSUME NEW v \in Unsigned
  PROVE  /\ v \in Nat /\ v <= MaxUnsigned
         /\ Unsigned_Size(v) \in 1 .. LastGroup + 1
         /\ Unsigned_Size(v) \in Nat \ {0}
<1>1. v \in Nat /\ v <= MaxUnsigned
  BY Limits DEF Unsigned
<1>2. Unsigned_Size(v) \in 1 .. LastGroup + 1
  BY <1>1, Thresholds
<1> QED BY <1>1, <1>2, Limits

LEMMA UnsignedRead ==
  ASSUME NEW input \in Seq(Octet), NEW c \in Cursor_Record, Is_Valid(c, Len(input)),
         NEW result, result = Read_Unsigned(input, c)
  PROVE  ReadRefused(c, result) \/ Takes(input, c, result.value, 0, result)
<1> DEFINE group == Last_Scanned(input, c)
           at == c.next + group
           last == input[at + 1]
           v == Accumulated(input, c, group + 1)
<1>1. /\ group \in 0 .. LastGroup
      /\ Scan_Ends(input, c, group)
      /\ \A g \in 0 .. group - 1 : ~ Scan_Ends(input, c, g)
  BY ScanEnds
<1>2. /\ c.next \in Nat /\ c.limit \in Nat /\ Remaining(c) = c.limit - c.next
      /\ Len(input) \in Nat /\ c.next <= c.limit /\ c.limit <= Len(input)
  BY CursorFields DEF Is_Valid
<1>3. /\ group \in Nat /\ at \in Nat
  BY <1>1, <1>2, Limits
<1>4. result = IF Exhausted(c, at) THEN Read_Failed("Truncated", c)
               ELSE IF Faults(input, at) THEN Read_Failed("Constraint_Error", c)
               ELSE IF group = LastGroup /\ (Payload(last) > 1 \/ Continues(last))
                      THEN Read_Failed("Value_Overflow", c)
               ELSE IF group > 0 /\ Payload(last) = 0 THEN Read_Failed("Noncanonical", c)
               ELSE [status |-> "Read", value |-> v, cursor |-> Advance(c, group + 1)]
  BY DEF Read_Unsigned
<1> HIDE DEF group, v
<1>5. CASE Exhausted(c, at) \/ (group = LastGroup /\ (Payload(last) > 1 \/ Continues(last)))
           \/ (group > 0 /\ Payload(last) = 0)
  <2>1. Faults(input, at) => Exhausted(c, at)
    <3> SUFFICES ASSUME ~ Exhausted(c, at), Faults(input, at) PROVE FALSE
      OBVIOUS
    <3>1. c.limit - c.next \in 0 .. group - 1
      BY <1>2, <1>3 DEF Exhausted, Faults
    <3>2. Scan_Ends(input, c, c.limit - c.next)
      BY <1>2, <3>1 DEF Scan_Ends, Exhausted
    <3> QED BY <1>1, <3>1, <3>2
  <2>2. \/ result = Read_Failed("Truncated", c)
        \/ result = Read_Failed("Value_Overflow", c)
        \/ result = Read_Failed("Noncanonical", c)
    BY <1>4, <1>5, <2>1
  <2> QED BY <2>2 DEF Read_Failed, ReadRefused, Read_Refusal
<1>6. CASE ~ (Exhausted(c, at) \/ (group = LastGroup /\ (Payload(last) > 1 \/ Continues(last)))
              \/ (group > 0 /\ Payload(last) = 0))
  <2>1. at < c.limit
    <3> SUFFICES ASSUME at > c.limit PROVE FALSE
      BY <1>2, <1>3, <1>6 DEF Exhausted
    <3>1. c.limit - c.next \in 0 .. group - 1
      BY <1>2, <1>3
    <3>2. Scan_Ends(input, c, c.limit - c.next)
      BY <1>2, <3>1 DEF Scan_Ends, Exhausted
    <3> QED BY <1>1, <3>1, <3>2
  <2>2. ~ Exhausted(c, at) /\ ~ Faults(input, at)
    BY <1>2, <1>3, <2>1 DEF Exhausted, Faults
  <2>3. result = [status |-> "Read", value |-> v, cursor |-> Advance(c, group + 1)]
    BY <1>4, <1>6, <2>2
  <2>4. \A g \in 0 .. group : input[c.next + g + 1] \in Octet
    BY <1>2, <1>3, <2>1
  <2>5. \A g \in 0 .. group : Continues(input[c.next + g + 1]) <=> g < group
    <3> TAKE g \in 0 .. group
    <3>1. CASE g < group
      BY <1>1, <1>3, <3>1 DEF Scan_Ends
    <3>2. CASE g = group
      <4>1. ~ Continues(last)
        BY <1>1, <1>6, <2>2 DEF Scan_Ends
      <4> QED BY <1>3, <3>2, <4>1
    <3> QED BY <1>3, <3>1, <3>2
  <2>6. Payload(last) \in 0 .. Radix - 1
    <3>1. last \in Octet
      BY <1>3, <2>4
    <3> QED BY <3>1, Octets
  <2>7. Shortest(input, c, group)
    BY <1>3, <1>6, <2>4, <2>5, <2>6, Limits DEF Shortest
  <2>8. /\ v \in Unsigned
        /\ Unsigned_Size(v) = group + 1
        /\ Encodes(input, c.next, v)
    BY <1>1, <1>2, <2>7, SumOfGroups DEF v
  <2>9. result.status = "Read" /\ result.value = v /\ result.cursor = Advance(c, Unsigned_Size(v))
    BY <2>3, <2>8
  <2>10. Unsigned_Size(v) + 0 = Unsigned_Size(v) /\ Unsigned_Size(v) <= Remaining(c)
    BY <1>2, <1>3, <2>1, <2>8
  <2> QED BY <2>8, <2>9, <2>10 DEF Takes
<1> QED BY <1>5, <1>6

LEMMA ZigZagDecoded ==
  ASSUME NEW v \in Unsigned
  PROVE  ZigZag_Decode(v) \in Integer_64 /\ ZigZag_Encode(ZigZag_Decode(v)) = v
<1> DEFINE d == Radix ^ LastGroup
<1>1. v \in Nat /\ v < 2 * d /\ d \in Nat
  BY Limits DEF Unsigned
<1> HIDE DEF d
<1>2. v \div 2 \in Nat /\ v % 2 \in 0 .. 1 /\ v = 2 * (v \div 2) + (v % 2)
  BY <1>1
<1>3. ZigZag_Decode(v) \in -d .. d - 1 /\ ZigZag_Encode(ZigZag_Decode(v)) = v
  BY <1>1, <1>2 DEF ZigZag_Decode, ZigZag_Encode
<1> QED BY <1>3 DEF Integer_64, d

LEMMA ZigZagEncoded ==
  ASSUME NEW n \in Integer_64
  PROVE  ZigZag_Encode(n) \in Unsigned /\ ZigZag_Decode(ZigZag_Encode(n)) = n
<1> DEFINE d == Radix ^ LastGroup
<1>1. n \in -d .. d - 1 /\ d \in Nat /\ MaxUnsigned = 2 * d - 1
  BY Limits DEF Integer_64
<1> HIDE DEF d
<1>2. ZigZag_Encode(n) \in 0 .. MaxUnsigned /\ ZigZag_Decode(ZigZag_Encode(n)) = n
  <2>1. CASE n >= 0
    <3>1. ZigZag_Encode(n) = 2 * n /\ n \in Nat
      BY <1>1, <2>1 DEF ZigZag_Encode
    <3>2. (2 * n) % 2 = 0 /\ (2 * n) \div 2 = n
      BY <3>1
    <3> QED BY <1>1, <3>1, <3>2 DEF ZigZag_Decode
  <2>2. CASE n < 0
    <3> DEFINE m == -(n + 1)
    <3>1. m \in Nat /\ m < d /\ n = -m - 1 /\ ZigZag_Encode(n) = 2 * m + 1
      BY <1>1, <2>2 DEF ZigZag_Encode
    <3> HIDE DEF m
    <3>2. (2 * m + 1) % 2 = 1 /\ (2 * m + 1) \div 2 = m
      BY <3>1
    <3> QED BY <1>1, <3>1, <3>2 DEF ZigZag_Decode
  <2> QED BY <1>1, <2>1, <2>2
<1> QED BY <1>2 DEF Unsigned

LEMMA SignedRead ==
  ASSUME NEW input \in Seq(Octet), NEW c \in Cursor_Record, Is_Valid(c, Len(input)),
         NEW result, result = Read_Signed(input, c)
  PROVE  \/ ReadRefused(c, result)
         \/ /\ result.value \in Integer_64
            /\ Takes(input, c, ZigZag_Encode(result.value), 0, result)
<1> DEFINE encoded == Read_Unsigned(input, c)
<1>1. ReadRefused(c, encoded) \/ Takes(input, c, encoded.value, 0, encoded)
  BY UnsignedRead
<1>2. result = IF encoded.status = "Read"
                 THEN [encoded EXCEPT !.value = ZigZag_Decode(@)]
                 ELSE encoded
  BY DEF Read_Signed
<1>3. \E s, v, d : encoded = [status |-> s, value |-> v, cursor |-> d]
  BY DEF Read_Unsigned, Read_Failed
<1> HIDE DEF encoded
<1>4. CASE ReadRefused(c, encoded)
  BY <1>2, <1>4 DEF ReadRefused, Read_Refusal
<1>5. CASE Takes(input, c, encoded.value, 0, encoded)
  <2>1. result.status = "Read" /\ result.value = ZigZag_Decode(encoded.value)
        /\ result.cursor = encoded.cursor
    BY <1>2, <1>3, <1>5 DEF Takes
  <2>2. encoded.value \in Unsigned
    BY <1>5 DEF Takes
  <2>3. result.value \in Integer_64 /\ ZigZag_Encode(result.value) = encoded.value
    BY <2>1, <2>2, ZigZagDecoded
  <2> QED BY <1>5, <2>1, <2>3 DEF Takes
<1> QED BY <1>1, <1>4, <1>5

LEMMA BooleanRead ==
  ASSUME NEW input \in Seq(Octet), NEW c \in Cursor_Record, Is_Valid(c, Len(input)),
         NEW result, result = Read_Boolean(input, c)
  PROVE  \/ ReadRefused(c, result)
         \/ /\ result.status = "Read"
            /\ result.value \in BOOLEAN
            /\ input[c.next + 1] = Bit(result.value)
            /\ 1 <= Remaining(c)
            /\ result.cursor = Advance(c, 1)
<1>1. /\ c.next \in Nat /\ c.limit \in Nat /\ Remaining(c) = c.limit - c.next
      /\ Len(input) \in Nat /\ c.next <= c.limit /\ c.limit <= Len(input)
  BY CursorFields DEF Is_Valid
<1> DEFINE Refused(status) == [status |-> status, value |-> FALSE, cursor |-> c]
<1>2. result = IF Exhausted(c, c.next) THEN Refused("Truncated")
               ELSE IF Faults(input, c.next) THEN Refused("Constraint_Error")
               ELSE IF input[c.next + 1] > 1 THEN Refused("Invalid_Boolean")
               ELSE [status |-> "Read", value |-> input[c.next + 1] = 1, cursor |-> Advance(c, 1)]
  BY DEF Read_Boolean
<1>3. CASE Exhausted(c, c.next)
  BY <1>2, <1>3 DEF ReadRefused, Read_Refusal
<1>4. CASE ~ Exhausted(c, c.next)
  <2>1. c.next < c.limit /\ ~ Faults(input, c.next)
    BY <1>1, <1>4 DEF Exhausted, Faults
  <2>2. c.next + 1 \in 1 .. Len(input)
    BY <1>1, <2>1
  <2>3. input[c.next + 1] \in Nat
    BY <2>2, Limits DEF Octet
  <2>4. CASE input[c.next + 1] > 1
    <3>1. result = Refused("Invalid_Boolean")
      BY <1>2, <1>4, <2>1, <2>4, Zenon
    <3> QED BY <3>1 DEF ReadRefused, Read_Refusal
  <2>5. CASE ~ (input[c.next + 1] > 1)
    <3>1. result = [status |-> "Read", value |-> input[c.next + 1] = 1, cursor |-> Advance(c, 1)]
      BY <1>2, <1>4, <2>1, <2>5
    <3>2. input[c.next + 1] = 0 \/ input[c.next + 1] = 1
      BY <2>3, <2>5
    <3>3. /\ result.status = "Read" /\ result.cursor = Advance(c, 1)
          /\ result.value = (input[c.next + 1] = 1)
      BY <3>1
    <3>4. result.value \in BOOLEAN /\ input[c.next + 1] = Bit(result.value)
      <4>1. CASE input[c.next + 1] = 0
        BY <3>3, <4>1 DEF Bit
      <4>2. CASE input[c.next + 1] = 1
        BY <3>3, <4>2 DEF Bit
      <4> QED BY <3>2, <4>1, <4>2
    <3> QED BY <1>1, <2>1, <3>3, <3>4
  <2> QED BY <2>4, <2>5
<1> QED BY <1>3, <1>4

LEMMA OctetsRead ==
  ASSUME NEW input \in Seq(Octet), NEW c \in Cursor_Record, Is_Valid(c, Len(input)),
         NEW value, NEW count \in Nat, Len(value) \in Nat,
         NEW result, result = Read_Octets(input, c, value, count)
  PROVE  \/ ReadRefused(c, result)
         \/ /\ result.status = "Read"
            /\ count <= Remaining(c)
            /\ result.cursor = Advance(c, count)
<1>1. /\ c.next \in Nat /\ c.limit \in Nat /\ Remaining(c) = c.limit - c.next
      /\ Len(input) \in Nat /\ c.next <= c.limit /\ c.limit <= Len(input)
  BY CursorFields DEF Is_Valid
<1>2. CASE count > Remaining(c)
  BY <1>2 DEF Read_Octets, ReadRefused, Read_Refusal
<1>3. CASE ~ (count > Remaining(c)) /\ count > Len(value)
  BY <1>3 DEF Read_Octets, ReadRefused, Read_Refusal
<1>4. CASE ~ (count > Remaining(c)) /\ ~ (count > Len(value))
  <2>1. count <= Remaining(c) /\ Copied(input, c.next, count) = count
    BY <1>1, <1>4 DEF Copied
  <2>2. result.status = "Read" /\ result.cursor = Advance(c, count)
    BY <1>4, <2>1 DEF Read_Octets
  <2> QED BY <2>1, <2>2
<1> QED BY <1>2, <1>3, <1>4

-----------------------------------------------------------------------------

(***************************************************************************)
(* Reading a header: the extent of a value, behind its length and, for a   *)
(* field, behind the tag as well.                                          *)
(***************************************************************************)
Regions == [start : Nat, length : Unsigned]

HoldsExtent(buffer, k, region) ==
  /\ Encodes(buffer, k, region.length)
  /\ region.start = k + Unsigned_Size(region.length)

HoldsHeader(buffer, k, tag, region) ==
  /\ Encodes(buffer, k, tag)
  /\ HoldsExtent(buffer, k + Unsigned_Size(tag), region)

MovedTo(c, k) == Cursor(c.first, k, c.limit)

(* An extent that fits is what its length was read for. *)
TakesExtent(input, c, result) ==
  /\ result.status = "Read"
  /\ result.value \in Regions
  /\ HoldsExtent(input, c.next, result.value)
  /\ End(result.value) <= c.limit
  /\ result.cursor = MovedTo(c, End(result.value))

LEMMA ExtentRead ==
  ASSUME NEW input \in Seq(Octet), NEW c \in Cursor_Record, Is_Valid(c, Len(input)),
         NEW result, result = Read_Extent(input, c)
  PROVE  ReadRefused(c, result) \/ TakesExtent(input, c, result)
<1> DEFINE length == Read_Unsigned(input, c)
           v == length.value
           size == Unsigned_Size(v)
           Refused(status) == [status |-> status, value |-> Empty_Extent, cursor |-> c]
<1>1. ReadRefused(c, length) \/ Takes(input, c, v, 0, length)
  BY UnsignedRead
<1>2. /\ c.next \in Nat /\ c.limit \in Nat /\ Remaining(c) = c.limit - c.next
      /\ c.next <= c.limit
      /\ \A n : Advance(c, n) = [first |-> c.first, next |-> c.next + n, limit |-> c.limit]
  BY CursorFields DEF Is_Valid
<1>3. result = IF length.status # "Read" THEN Refused(length.status)
               ELSE IF length.value > Remaining(length.cursor)
                      THEN Refused("Extent_Outside_Container")
               ELSE [status |-> "Read", value |-> Extent(length.cursor.next, length.value),
                     cursor |-> Advance(length.cursor, length.value)]
  BY DEF Read_Extent
<1> HIDE DEF length
<1>4. CASE ReadRefused(c, length)
  <2>1. result = Refused(length.status)
    BY <1>3, <1>4 DEF ReadRefused, Read_Refusal
  <2> QED BY <1>4, <2>1 DEF ReadRefused
<1>5. CASE Takes(input, c, v, 0, length)
  <2>1. /\ length.status = "Read" /\ v \in Unsigned /\ Encodes(input, c.next, v)
        /\ size <= Remaining(c) /\ length.cursor = Advance(c, size)
        /\ size \in Nat /\ v \in Nat
    <3>1. v \in Unsigned
      BY <1>5 DEF Takes
    <3>2. size \in Nat /\ v \in Nat
      BY <3>1, SizeOfUnsigned
    <3>3. size + 0 = size
      BY <3>2
    <3> QED BY <1>5, <3>1, <3>2, <3>3 DEF Takes
  <2> HIDE DEF v, size
  <2>2. /\ length.cursor = [first |-> c.first, next |-> c.next + size, limit |-> c.limit]
        /\ Remaining(length.cursor) = c.limit - (c.next + size)
    BY <1>2, <2>1 DEF Remaining
  <2>3. CASE v > Remaining(length.cursor)
    BY <1>3, <2>1, <2>3 DEF ReadRefused, Read_Refusal, v
  <2>4. CASE ~ (v > Remaining(length.cursor))
    <3> DEFINE region == Extent(c.next + size, v)
    <3>1. result = [status |-> "Read", value |-> region, cursor |-> Advance(length.cursor, v)]
      BY <1>3, <2>1, <2>2, <2>4 DEF v
    <3>2. c.next + size \in Nat
      BY <1>2, <2>1
    <3>3. region = [start |-> c.next + size, length |-> v]
      BY DEF Extent
    <3>4. region \in Regions /\ HoldsExtent(input, c.next, region)
      BY <2>1, <3>2, <3>3 DEF Regions, HoldsExtent, size
    <3>5. End(region) = c.next + size + v /\ End(region) <= c.limit
      BY <1>2, <2>1, <2>2, <2>4, <3>3 DEF End
    <3>6. Advance(length.cursor, v) = MovedTo(c, End(region))
      BY <2>2, <3>5 DEF Advance, MovedTo, Cursor
    <3> QED BY <3>1, <3>4, <3>5, <3>6 DEF TakesExtent
  <2> QED BY <2>3, <2>4
<1> QED BY <1>1, <1>4, <1>5

(* A field header is its tag and the extent behind it. *)
TakesHeader(input, c, previous, result) ==
  /\ result.status = "Read"
  /\ result.tag \in Field_Tag \cap Unsigned
  /\ result.tag > previous
  /\ result.previous = result.tag
  /\ result.value \in Regions
  /\ HoldsHeader(input, c.next, result.tag, result.value)
  /\ End(result.value) <= c.limit
  /\ result.cursor = MovedTo(c, End(result.value))

LEMMA HeaderRead ==
  ASSUME NEW input \in Seq(Octet), NEW c \in Cursor_Record, Is_Valid(c, Len(input)),
         NEW previous \in Nat, NEW result, result = Read_Field_Header(input, c, previous)
  PROVE  \/ ReadRefused(c, result) /\ result.previous = previous
         \/ TakesHeader(input, c, previous, result)
<1> DEFINE tag == Read_Unsigned(input, c)
           t == tag.value
           length == Read_Extent(input, tag.cursor)
           Refused(status) == [status |-> status, tag |-> 1, value |-> Empty_Extent,
                               cursor |-> c, previous |-> previous]
           d == tag.cursor
<1>1. ReadRefused(c, tag) \/ Takes(input, c, t, 0, tag)
  BY UnsignedRead
<1>2. /\ c.first \in Nat /\ c.next \in Nat /\ c.limit \in Nat /\ Remaining(c) = c.limit - c.next
      /\ c.first <= c.next /\ c.next <= c.limit /\ c.limit <= Len(input)
      /\ \A n : Advance(c, n) = [first |-> c.first, next |-> c.next + n, limit |-> c.limit]
  BY CursorFields DEF Is_Valid
<1>3. result = IF tag.status # "Read" THEN Refused(tag.status)
               ELSE IF t = 0 \/ t > MaxFieldTag THEN Refused("Invalid_Tag")
               ELSE IF t <= previous THEN Refused("Tag_Order_Error")
               ELSE IF length.status # "Read" THEN Refused(length.status)
               ELSE [status |-> "Read", tag |-> t, value |-> length.value,
                     cursor |-> length.cursor, previous |-> t]
  BY DEF Read_Field_Header
<1> HIDE DEF tag
<1>4. CASE ReadRefused(c, tag)
  <2>1. result = Refused(tag.status)
    BY <1>3, <1>4 DEF ReadRefused, Read_Refusal
  <2> QED BY <1>4, <2>1 DEF ReadRefused
<1>5. CASE Takes(input, c, t, 0, tag)
  <2> DEFINE size == Unsigned_Size(t)
  <2>1. /\ tag.status = "Read" /\ t \in Unsigned /\ Encodes(input, c.next, t)
        /\ size <= Remaining(c) /\ d = Advance(c, size)
        /\ size \in Nat /\ t \in Nat
    <3>1. t \in Unsigned
      BY <1>5 DEF Takes
    <3>2. size \in Nat /\ t \in Nat
      BY <3>1, SizeOfUnsigned
    <3>3. size + 0 = size
      BY <3>2
    <3> QED BY <1>5, <3>1, <3>2, <3>3 DEF Takes
  <2>2. d = [first |-> c.first, next |-> c.next + size, limit |-> c.limit]
    BY <1>2, <2>1
  <2> HIDE DEF t, size, d
  <2>3. d \in Cursor_Record /\ Is_Valid(d, Len(input))
    BY <1>2, <2>1, <2>2 DEF Cursor_Record, Is_Valid
  <2>4. ReadRefused(d, length) \/ TakesExtent(input, d, length)
    BY <2>3, ExtentRead DEF d
  <2> HIDE DEF length
  <2>5. CASE t = 0 \/ t > MaxFieldTag
    <3>1. result = Refused("Invalid_Tag")
      BY <1>3, <2>1, <2>5
    <3> QED BY <3>1 DEF ReadRefused, Read_Refusal
  <2>6. CASE ~ (t = 0 \/ t > MaxFieldTag) /\ t <= previous
    <3>1. result = Refused("Tag_Order_Error")
      BY <1>3, <2>1, <2>6
    <3> QED BY <3>1 DEF ReadRefused, Read_Refusal
  <2>7. CASE ~ (t = 0 \/ t > MaxFieldTag) /\ ~ (t <= previous)
    <3>1. CASE ReadRefused(d, length)
      <4>1. result = Refused(length.status)
        BY <1>3, <2>1, <2>7, <3>1 DEF ReadRefused, Read_Refusal
      <4> QED BY <3>1, <4>1 DEF ReadRefused
    <3>2. CASE TakesExtent(input, d, length)
      <4>1. length.status = "Read"
        BY <3>2 DEF TakesExtent
      <4>2. result = [status |-> "Read", tag |-> t, value |-> length.value,
                      cursor |-> length.cursor, previous |-> t]
        BY <1>3, <2>1, <2>7, <4>1
      <4>3. t \in Field_Tag \cap Unsigned /\ t > previous
        BY <2>1, <2>7, Limits DEF Field_Tag
      <4>4. /\ length.value \in Regions
            /\ HoldsExtent(input, c.next + size, length.value)
            /\ End(length.value) <= c.limit
            /\ length.cursor = MovedTo(c, End(length.value))
        BY <2>2, <3>2 DEF TakesExtent, MovedTo
      <4>5. HoldsHeader(input, c.next, t, length.value)
        BY <2>1, <4>4 DEF HoldsHeader, size
      <4> QED BY <4>2, <4>3, <4>4, <4>5 DEF TakesHeader
    <3> QED BY <2>4, <3>1, <3>2
  <2> QED BY <2>5, <2>6, <2>7
<1> QED BY <1>1, <1>4, <1>5

(* And the other way round. *)
LEMMA HeldExtentIsRead ==
  ASSUME NEW input \in Seq(Octet), NEW c \in Cursor_Record, Is_Valid(c, Len(input)),
         NEW region \in Regions, HoldsExtent(input, c.next, region), End(region) <= c.limit
  PROVE  Read_Extent(input, c) =
           [status |-> "Read", value |-> region, cursor |-> MovedTo(c, End(region))]
<1> DEFINE v == region.length
           size == Unsigned_Size(v)
           length == Read_Unsigned(input, c)
<1>1. /\ c.next \in Nat /\ c.limit \in Nat /\ Remaining(c) = c.limit - c.next
      /\ \A n : Advance(c, n) = [first |-> c.first, next |-> c.next + n, limit |-> c.limit]
  BY CursorFields
<1>2. v \in Unsigned /\ region.start \in Nat /\ region = [start |-> region.start, length |-> v]
  BY DEF Regions
<1>3. v \in Nat /\ size \in Nat
  BY <1>2, SizeOfUnsigned
<1>4. Encodes(input, c.next, v) /\ region.start = c.next + size
  BY DEF HoldsExtent
<1>5. size <= Remaining(c)
  BY <1>1, <1>2, <1>3, <1>4, SMTT(60) DEF End
<1>6. length = [status |-> "Read", value |-> v, cursor |-> Advance(c, size)]
  BY <1>2, <1>4, <1>5, EncodedIsRead
<1> HIDE DEF v, size
<1>7. length.cursor = [first |-> c.first, next |-> c.next + size, limit |-> c.limit]
  BY <1>1, <1>6
<1>8. length.status = "Read" /\ length.value = v
  BY <1>6
<1>9. ~ (v > Remaining(length.cursor))
  BY <1>1, <1>3, <1>4, <1>7 DEF End, Remaining, v
<1>10. Read_Extent(input, c) = [status |-> "Read", value |-> Extent(length.cursor.next, v),
                                cursor |-> Advance(length.cursor, v)]
  <2> HIDE DEF length
  <2> QED BY <1>8, <1>9 DEF Read_Extent, length
<1>11. Extent(length.cursor.next, v) = region
  BY <1>2, <1>4, <1>7 DEF Extent
<1>12. Advance(length.cursor, v) = MovedTo(c, End(region))
  <2>1. End(region) = c.next + size + v
    BY <1>4 DEF End, v
  <2> QED BY <1>7, <2>1 DEF Advance, MovedTo, Cursor
<1> QED BY <1>10, <1>11, <1>12

LEMMA HeldHeaderIsRead ==
  ASSUME NEW input \in Seq(Octet), NEW c \in Cursor_Record, Is_Valid(c, Len(input)),
         NEW previous \in Nat, NEW tag \in Field_Tag \cap Unsigned, tag > previous,
         NEW region \in Regions, HoldsHeader(input, c.next, tag, region), End(region) <= c.limit
  PROVE  Read_Field_Header(input, c, previous) =
           [status |-> "Read", tag |-> tag, value |-> region,
            cursor |-> MovedTo(c, End(region)), previous |-> tag]
<1> DEFINE size == Unsigned_Size(tag)
           first == Read_Unsigned(input, c)
           d == [first |-> c.first, next |-> c.next + size, limit |-> c.limit]
<1>1. /\ c.first \in Nat /\ c.next \in Nat /\ c.limit \in Nat /\ Remaining(c) = c.limit - c.next
      /\ c.first <= c.next /\ c.limit <= Len(input)
      /\ \A n : Advance(c, n) = [first |-> c.first, next |-> c.next + n, limit |-> c.limit]
  BY CursorFields DEF Is_Valid
<1>2. tag \in Nat /\ size \in Nat
  BY SizeOfUnsigned
<1>3. /\ region.start \in Nat /\ region.length \in Unsigned /\ region.length \in Nat
      /\ Unsigned_Size(region.length) \in Nat
  BY SizeOfUnsigned DEF Regions
<1>4. /\ Encodes(input, c.next, tag)
      /\ HoldsExtent(input, c.next + size, region)
      /\ region.start = c.next + size + Unsigned_Size(region.length)
  BY DEF HoldsHeader, HoldsExtent
<1>5. size <= Remaining(c) /\ c.next + size <= c.limit
  BY <1>1, <1>2, <1>3, <1>4, SMTT(60) DEF End
<1>6. first = [status |-> "Read", value |-> tag, cursor |-> Advance(c, size)]
  BY <1>4, <1>5, EncodedIsRead
<1>7. first.status = "Read" /\ first.value = tag /\ first.cursor = d
  BY <1>1, <1>6
<1>8. d \in Cursor_Record /\ Is_Valid(d, Len(input)) /\ d.next = c.next + size /\ d.limit = c.limit
  BY <1>1, <1>2, <1>5 DEF Cursor_Record, Is_Valid
<1>9. MovedTo(d, End(region)) = MovedTo(c, End(region))
  BY DEF MovedTo
<1> HIDE DEF d
<1>10. Read_Extent(input, d) = [status |-> "Read", value |-> region, cursor |-> MovedTo(c, End(region))]
  BY <1>4, <1>8, <1>9, HeldExtentIsRead
<1>11. ~ (tag = 0 \/ tag > MaxFieldTag) /\ ~ (tag <= previous)
  BY <1>2, Limits DEF Field_Tag
<1> HIDE DEF first
<1>12. /\ Read_Extent(input, first.cursor).status = "Read"
       /\ Read_Extent(input, first.cursor).value = region
       /\ Read_Extent(input, first.cursor).cursor = MovedTo(c, End(region))
  BY <1>7, <1>10
<1> QED BY <1>7, <1>11, <1>12 DEF Read_Field_Header, first

-----------------------------------------------------------------------------

(***************************************************************************)
(* Writing.  A write that finds room for what it takes, and a cursor that  *)
(* is valid, stores: its octets, and no others, in an array of n octets.   *)
(***************************************************************************)
LEMMA LengthOf ==
  ASSUME NEW n \in Nat, NEW S, NEW array \in [1 .. n -> S]
  PROVE  Len(array) = n /\ array \in Seq(S)
OBVIOUS

(* A varint takes at least one octet and at most LastGroup + 1. *)
LEMMA SizeOfAny ==
  ASSUME NEW value
  PROVE  Unsigned_Size(value) \in 1 .. LastGroup + 1
<1> DEFINE Reached == {g \in 1 .. LastGroup : value >= Radix ^ g}
<1>1. IsFiniteSet(1 .. LastGroup) /\ Cardinality(1 .. LastGroup) = LastGroup
  BY FS_Interval, ProfileAssumption
<1>2. Reached \in SUBSET (1 .. LastGroup)
  OBVIOUS
<1>3. IsFiniteSet(Reached) /\ Cardinality(Reached) <= LastGroup
  BY <1>1, <1>2, FS_Subset
<1>4. Cardinality(Reached) \in Nat
  BY <1>3, FS_CardinalityType
<1> QED
  BY <1>3, <1>4, ProfileAssumption DEF Unsigned_Size

(* Every group of an integer, with its continuation bit, is an octet. *)
LEMMA GroupIsOctet ==
  ASSUME NEW value \in Nat, NEW g \in 0 .. LastGroup
  PROVE  Group(value, g) \in Octet
<1> DEFINE rest == value \div Radix ^ g
<1>1. rest \in Nat
  BY PowerAssumption
<1>2. rest % Radix \in 0 .. Radix - 1
  BY <1>1, ProfileAssumption
<1> HIDE DEF rest
<1>3. (IF rest >= Radix THEN (rest % Radix) + Radix ELSE rest) \in Octet
  BY <1>1, <1>2, ProfileAssumption DEF Octet
<1> QED
  BY <1>3 DEF Group, rest

(* Elements outside the size octets stored at offset k keep their value. *)
Keeps(n, before, after, k, size) ==
  \A i \in 1 .. n : i \notin k + 1 .. k + size => after[i] = before[i]

(* The first size octets after c are stored, count of them are taken. *)
Stores(n, before, c, result, size, count) ==
  /\ result.status = "Wrote"
  /\ size <= count
  /\ count <= Remaining(c)
  /\ result.output \in [1 .. n -> Octet]
  /\ Keeps(n, before, result.output, c.next, size)
  /\ result.cursor = Advance(c, count)

(* Put_Unsigned stores octets, and only those of the integer. *)
LEMMA PutUnsigned ==
  ASSUME NEW n \in Nat, NEW before \in [1 .. n -> Octet], NEW k \in Nat, NEW value \in Nat
  PROVE  /\ Put_Unsigned(before, k, value) \in [1 .. n -> Octet]
         /\ Keeps(n, before, Put_Unsigned(before, k, value), k, Unsigned_Size(value))
<1> DEFINE size == Unsigned_Size(value)
           at(i) == IF i \in k + 1 .. k + size THEN Group(value, i - k - 1) ELSE before[i]
<1>1. size \in 1 .. LastGroup + 1
  BY SizeOfAny
<1>2. LastGroup \in Nat
  BY ProfileAssumption
<1>3. Len(before) = n
  BY LengthOf
<1> HIDE DEF size
<1>4. \A i \in 1 .. n : at(i) \in Octet
  <2> SUFFICES ASSUME NEW i \in 1 .. n PROVE at(i) \in Octet
    OBVIOUS
  <2>1. CASE i \in k + 1 .. k + size
    <3>1. i - k - 1 \in 0 .. LastGroup
      BY <1>1, <1>2, <2>1
    <3> QED
      BY <2>1, <3>1, GroupIsOctet
  <2>2. CASE i \notin k + 1 .. k + size
    BY <2>2
  <2> QED
    BY <2>1, <2>2
<1>5. Put_Unsigned(before, k, value) = [i \in 1 .. n |-> at(i)]
  BY <1>3 DEF Put_Unsigned, size
<1> HIDE DEF at
<1>6. Put_Unsigned(before, k, value) \in [1 .. n -> Octet]
  BY <1>4, <1>5
<1>7. ASSUME NEW i \in 1 .. n, i \notin k + 1 .. k + size
      PROVE  Put_Unsigned(before, k, value)[i] = before[i]
  BY <1>5, <1>7 DEF at
<1> QED
  BY <1>6, <1>7 DEF size, Keeps

(* A header with a tag stores two integers, one behind the other. *)
LEMMA PutTwice ==
  ASSUME NEW n \in Nat, NEW before \in [1 .. n -> Octet], NEW k \in Nat, NEW tag \in Nat, NEW length \in Nat,
         NEW tagged, tagged = Put_Unsigned(before, k, tag),
         NEW stored, stored = Put_Unsigned(tagged, k + Unsigned_Size(tag), length)
  PROVE  /\ stored \in [1 .. n -> Octet]
         /\ Keeps(n, before, stored, k, Unsigned_Size(tag) + Unsigned_Size(length))
<1> DEFINE first  == Unsigned_Size(tag)
           second == Unsigned_Size(length)
<1>1. first \in Nat /\ second \in Nat
  BY SizeOfAny, ProfileAssumption
<1>2. tagged \in [1 .. n -> Octet] /\ Keeps(n, before, tagged, k, first)
  BY PutUnsigned, Zenon
<1>3. k + first \in Nat
  BY <1>1
<1>4. stored \in [1 .. n -> Octet] /\ Keeps(n, tagged, stored, k + first, second)
  BY <1>2, <1>3, PutUnsigned, Zenon
<1> HIDE DEF first, second
<1>5. Keeps(n, before, stored, k, first + second)
  BY <1>1, <1>2, <1>4 DEF Keeps
<1> QED
  BY <1>4, <1>5 DEF first, second

LEMMA UnsignedStored ==
  ASSUME NEW n \in Nat, NEW before \in [1 .. n -> Octet], NEW c \in Cursor_Record, Is_Valid(c, n),
         NEW value \in Nat, Unsigned_Size(value) <= Remaining(c)
  PROVE  Stores(n, before, c, Write_Unsigned(before, c, value), Unsigned_Size(value), Unsigned_Size(value))
<1> DEFINE size == Unsigned_Size(value)
           result == Write_Unsigned(before, c, value)
<1>1. size \in Nat /\ c.next \in Nat /\ c.limit \in Nat /\ size <= size
  BY SizeOfAny, ProfileAssumption, CursorFields DEF Cursor_Record
<1>2. Len(before) = n
  BY LengthOf
<1>3. /\ Put_Unsigned(before, c.next, value) \in [1 .. n -> Octet]
      /\ Keeps(n, before, Put_Unsigned(before, c.next, value), c.next, size)
  BY <1>1, PutUnsigned
<1>4. ~ Overruns(before, c.next, size) /\ ~ (size > Remaining(c))
  BY <1>1, <1>2 DEF Overruns, Is_Valid, Remaining
<1>5. result = [status |-> "Wrote", output |-> Put_Unsigned(before, c.next, value),
                cursor |-> Advance(c, size)]
  BY <1>2, <1>4 DEF Write_Unsigned
<1> HIDE DEF size, result
<1>6. Stores(n, before, c, result, size, size)
  BY <1>1, <1>3, <1>5 DEF Stores, size
<1> QED
  BY <1>6 DEF size, result

LEMMA BooleanStored ==
  ASSUME NEW n \in Nat, NEW before \in [1 .. n -> Octet], NEW c \in Cursor_Record, Is_Valid(c, n),
         NEW value \in BOOLEAN, Remaining(c) # 0
  PROVE  Stores(n, before, c, Write_Boolean(before, c, value), 1, 1)
<1> DEFINE octet == IF value THEN 1 ELSE 0
           after == [i \in 1 .. n |-> IF i = c.next + 1 THEN octet ELSE before[i]]
<1>1. c.next \in Nat /\ c.limit \in Nat
  BY CursorFields DEF Cursor_Record
<1>2. Len(before) = n
  BY LengthOf
<1>3. octet \in Octet
  BY ProfileAssumption DEF Octet
<1>4. ~ Overruns(before, c.next, 1) /\ 1 <= Remaining(c)
  BY <1>1, <1>2 DEF Overruns, Is_Valid, Remaining
<1>5. Write_Boolean(before, c, value) = [status |-> "Wrote", output |-> after, cursor |-> Advance(c, 1)]
  BY <1>2, <1>4 DEF Write_Boolean
<1> HIDE DEF octet
<1>6. after \in [1 .. n -> Octet] /\ Keeps(n, before, after, c.next, 1)
  BY <1>1, <1>3 DEF Keeps
<1> HIDE DEF after
<1> QED
  BY <1>4, <1>5, <1>6 DEF Stores

LEMMA OctetsStored ==
  ASSUME NEW n \in Nat, NEW before \in [1 .. n -> Octet], NEW c \in Cursor_Record, Is_Valid(c, n),
         NEW value \in Seq(Octet), NEW count \in Nat, count <= Remaining(c), count <= Len(value)
  PROVE  Stores(n, before, c, Write_Octets(before, c, value, count), count, count)
<1> DEFINE after == [i \in 1 .. n |-> IF i \in c.next + 1 .. c.next + count
                                       THEN value[i - c.next] ELSE before[i]]
<1>1. c.next \in Nat /\ c.limit \in Nat /\ Len(value) \in Nat
  BY CursorFields DEF Cursor_Record
<1>2. Len(before) = n
  BY LengthOf
<1>3. Copied(before, c.next, count) = count
  BY <1>1, <1>2 DEF Copied, Is_Valid, Remaining
<1>4. ~ (count > Remaining(c) \/ count > Len(value)) /\ count <= count
  BY <1>1 DEF Remaining
<1>5. Write_Octets(before, c, value, count)
        = [status |-> "Wrote", output |-> after, cursor |-> Advance(c, count)]
  BY <1>2, <1>3, <1>4 DEF Write_Octets
<1>6. after \in [1 .. n -> Octet]
  <2> SUFFICES ASSUME NEW i \in 1 .. n, i \in c.next + 1 .. c.next + count
               PROVE  value[i - c.next] \in Octet
    OBVIOUS
  <2>1. i - c.next \in 1 .. Len(value)
    BY <1>1
  <2> QED
    BY <2>1
<1>7. Keeps(n, before, after, c.next, count)
  BY DEF Keeps
<1> HIDE DEF after
<1> QED
  BY <1>4, <1>5, <1>6, <1>7 DEF Stores

(* A header stores itself and takes the room of its value as well. *)
LEMMA DelimitedStored ==
  ASSUME NEW n \in Nat, NEW before \in [1 .. n -> Octet], NEW c \in Cursor_Record, Is_Valid(c, n),
         NEW length \in Nat, NEW size, size = Unsigned_Size(length), size + length <= Remaining(c)
  PROVE  /\ Stores(n, before, c, Write_Length_Delimited(before, c, length), size, size + length)
         /\ Write_Length_Delimited(before, c, length).value = Extent(c.next + size, length)
<1> DEFINE result == Write_Length_Delimited(before, c, length)
<1>1. size \in Nat /\ 0 < size /\ c.next \in Nat /\ c.limit \in Nat
  BY SizeOfAny, ProfileAssumption, CursorFields DEF Cursor_Record
<1>2. Len(before) = n
  BY LengthOf
<1>3. /\ Put_Unsigned(before, c.next, length) \in [1 .. n -> Octet]
      /\ Keeps(n, before, Put_Unsigned(before, c.next, length), c.next, size)
  BY <1>1, PutUnsigned
<1>4. Has_Room(before, c, size, length) /\ size <= size + length
  BY <1>1, <1>2 DEF Has_Room, Remaining
<1>5. ~ Overruns(before, c.next, size)
  BY <1>1, <1>2 DEF Overruns, Is_Valid, Remaining
<1>6. result = [status |-> "Wrote", output |-> Put_Unsigned(before, c.next, length),
                cursor |-> Advance(c, size + length), value |-> Extent(c.next + size, length)]
  BY <1>4, <1>5 DEF Write_Length_Delimited
<1> HIDE DEF result
<1>7. Stores(n, before, c, result, size, size + length)
  BY <1>3, <1>4, <1>6 DEF Stores
<1>8. result.value = Extent(c.next + size, length)
  BY <1>6
<1> QED
  BY <1>7, <1>8 DEF result

LEMMA FieldStored ==
  ASSUME NEW n \in Nat, NEW before \in [1 .. n -> Octet], NEW c \in Cursor_Record, Is_Valid(c, n),
         NEW previous \in Nat, NEW tag \in Nat, previous < tag, NEW length \in Nat,
         NEW size, size = Unsigned_Size(tag) + Unsigned_Size(length), size + length <= Remaining(c),
         NEW result, result = Write_Field_Header(before, c, previous, tag, length)
  PROVE  /\ Stores(n, before, c, result, size, size + length)
         /\ result.value = Extent(c.next + size, length)
         /\ result.previous = tag
<1> DEFINE first  == Unsigned_Size(tag)
           second == Unsigned_Size(length)
           stored == Put_Unsigned(Put_Unsigned(before, c.next, tag), c.next + first, length)
<1>1. /\ first \in Nat /\ second \in Nat /\ 0 < first /\ 0 < second
      /\ c.next \in Nat /\ c.limit \in Nat
  BY SizeOfAny, ProfileAssumption, CursorFields, SMTT(60) DEF Cursor_Record
<1>2. Len(before) = n
  BY LengthOf
<1>3. /\ stored \in [1 .. n -> Octet]
      /\ Keeps(n, before, stored, c.next, first + second)
  BY <1>1, PutTwice, Zenon
<1>4. size = first + second
  OBVIOUS
<1>5. result = IF tag = No_Tag \/ tag <= previous \/ ~ Has_Room(before, c, first + second, length)
                 THEN result
                 ELSE [status   |-> IF Overruns(before, c.next, first + second) THEN "Constraint_Error" ELSE "Wrote",
                       output   |-> stored,
                       cursor   |-> Advance(c, first + second + length),
                       previous |-> tag,
                       value    |-> Extent(c.next + (first + second), length)]
  BY DEF Write_Field_Header
<1> HIDE DEF first, second, stored
<1>6. /\ ~ (tag = No_Tag \/ tag <= previous) /\ Has_Room(before, c, first + second, length)
      /\ ~ Overruns(before, c.next, first + second) /\ size <= size + length
  BY <1>1, <1>2, <1>4, SMTT(60) DEF Has_Room, Remaining, No_Tag, Overruns, Is_Valid
<1>7. result = [status |-> "Wrote", output |-> stored, cursor |-> Advance(c, size + length),
                previous |-> tag, value |-> Extent(c.next + size, length)]
  BY <1>4, <1>5, <1>6
<1>8. Stores(n, before, c, result, size, size + length)
  BY <1>3, <1>4, <1>6, <1>7 DEF Stores
<1>9. result.value = Extent(c.next + size, length) /\ result.previous = tag
  BY <1>7
<1> QED
  BY <1>8, <1>9

-----------------------------------------------------------------------------

(***************************************************************************)
(* Writes one behind the other.                                            *)
(***************************************************************************)
LEMMA Moved ==
  ASSUME NEW n \in Nat, NEW before, NEW c \in Cursor_Record, Is_Valid(c, n),
         NEW result, NEW size \in Nat, NEW count \in Nat, Stores(n, before, c, result, size, count)
  PROVE  /\ result.cursor \in Cursor_Record /\ Is_Valid(result.cursor, n)
         /\ result.cursor.next = c.next + count
         /\ Remaining(result.cursor) = Remaining(c) - count
         /\ result.output \in [1 .. n -> Octet]
<1> PICK first \in Nat, next \in Nat, limit \in Nat : first = c.first /\ next = c.next /\ limit = c.limit
  BY CursorFields
<1>1. result.cursor = [first |-> first, next |-> next + count, limit |-> limit]
  BY CursorFields DEF Stores
<1>2. count <= limit - next /\ first <= next /\ next <= limit /\ limit <= n
  BY CursorFields DEF Stores, Is_Valid
<1>3. result.cursor \in Cursor_Record
  BY <1>1 DEF Cursor_Record
<1>4. Is_Valid(result.cursor, n)
  BY <1>1, <1>2 DEF Is_Valid
<1>5. Remaining(result.cursor) = limit - (next + count) /\ Remaining(c) = limit - next
  BY <1>1 DEF Remaining
<1> QED
  BY <1>1, <1>3, <1>4, <1>5, SMTT(60) DEF Stores

Moves(n, c, result, count) ==
  /\ result.cursor \in Cursor_Record /\ Is_Valid(result.cursor, n)
  /\ result.cursor.next = c.next + count
  /\ Remaining(result.cursor) = Remaining(c) - count
  /\ result.output \in [1 .. n -> Octet]

LEMMA MovedOn ==
  ASSUME NEW n \in Nat, NEW before, NEW c \in Cursor_Record, Is_Valid(c, n),
         NEW result, NEW count \in Nat, Stores(n, before, c, result, count, count)
  PROVE  Moves(n, c, result, count)
BY Moved, Zenon DEF Moves

LEMMA Chained ==
  ASSUME NEW n \in Nat, NEW before, NEW c \in Cursor_Record, Is_Valid(c, n),
         NEW first, NEW one \in Nat, Stores(n, before, c, first, one, one),
         NEW second, NEW two \in Nat, Stores(n, first.output, first.cursor, second, two, two)
  PROVE  Stores(n, before, c, second, one + two, one + two)
<1> PICK next \in Nat, limit \in Nat : next = c.next /\ limit = c.limit
  BY CursorFields
<1>1. first.cursor = [first |-> c.first, next |-> next + one, limit |-> limit]
  BY CursorFields DEF Stores
<1>2. /\ first.cursor \in Cursor_Record /\ Is_Valid(first.cursor, n)
      /\ first.cursor.next = c.next + one
      /\ Remaining(first.cursor) = Remaining(c) - one
      /\ first.output \in [1 .. n -> Octet]
  BY Moved, Zenon
<1>3. second.cursor = [first |-> c.first, next |-> (next + one) + two, limit |-> limit]
  <2> PICK middle \in Cursor_Record : middle = first.cursor
    BY <1>2
  <2>1. second.cursor = [first |-> middle.first, next |-> middle.next + two, limit |-> middle.limit]
    BY CursorFields DEF Stores
  <2>2. middle.first = c.first /\ middle.next = next + one /\ middle.limit = limit
    BY <1>1
  <2> QED
    BY <2>1, <2>2
<1>4. second.cursor = Advance(c, one + two)
  BY <1>3, CursorFields
<1>5. one + two <= Remaining(c)
  BY <1>2, CursorFields, SMTT(60) DEF Stores
<1>6. Keeps(n, before, second.output, next, one + two)
  <2> SUFFICES ASSUME NEW i \in 1 .. n, i \notin next + 1 .. next + (one + two)
               PROVE  second.output[i] = before[i]
    BY DEF Keeps
  <2>1. i \notin next + 1 .. next + one /\ i \notin (next + one) + 1 .. (next + one) + two
    OBVIOUS
  <2>2. second.output[i] = first.output[i]
    BY <1>1, <2>1 DEF Stores, Keeps
  <2>3. first.output[i] = before[i]
    BY <2>1 DEF Stores, Keeps
  <2> QED
    BY <2>2, <2>3
<1> QED
  BY <1>4, <1>5, <1>6 DEF Stores

-----------------------------------------------------------------------------

(***************************************************************************)
(* Octets that stand in an array, and how they are put together.           *)
(***************************************************************************)
Spans(input, a, b, octets) ==
  /\ octets \in Seq(Octet) /\ a \in Nat /\ b = a + Len(octets) /\ b <= Len(input)
  /\ \A i \in 1 .. Len(octets) : octets[i] = input[a + i]

LEMMA SameSequence ==
  ASSUME NEW S, NEW x \in Seq(S), NEW y \in Seq(S), Len(x) = Len(y), \A i \in 1 .. Len(x) : x[i] = y[i]
  PROVE  x = y
OBVIOUS

LEMMA NothingSpans ==
  ASSUME NEW input, NEW a \in Nat, a <= Len(input)
  PROVE  Spans(input, a, a, <<>>)
<1>1. <<>> \in Seq(Octet) /\ Len(<<>>) = 0
  OBVIOUS
<1>2. a = a + 0 /\ 1 .. 0 = {}
  OBVIOUS
<1> QED
  BY <1>1, <1>2 DEF Spans

LEMMA SpansJoin ==
  ASSUME NEW input, NEW a, NEW b, NEW c, NEW x, NEW y, Spans(input, a, b, x), Spans(input, b, c, y)
  PROVE  Spans(input, a, c, x \o y)
<1> PICK m \in Nat, n \in Nat, k \in Nat : m = Len(x) /\ n = Len(y) /\ k = a
  BY DEF Spans
<1>1. /\ x \in Seq(Octet) /\ y \in Seq(Octet) /\ b = k + m /\ c = b + n /\ c <= Len(input)
      /\ \A i \in 1 .. m : x[i] = input[k + i]
      /\ \A i \in 1 .. n : y[i] = input[b + i]
  BY DEF Spans
<1>2. /\ x \o y \in Seq(Octet) /\ Len(x \o y) = m + n
      /\ \A i \in 1 .. m + n : (x \o y)[i] = IF i <= m THEN x[i] ELSE y[i - m]
  BY <1>1, SMTT(60)
<1>3. \A i \in 1 .. m + n : (x \o y)[i] = input[k + i]
  <2> SUFFICES ASSUME NEW i \in 1 .. m + n
               PROVE  (x \o y)[i] = input[k + i]
    OBVIOUS
  <2>1. CASE i <= m
    <3>1. i \in 1 .. m
      BY <2>1
    <3> QED
      BY <1>1, <1>2, <2>1, <3>1
  <2>2. CASE i > m
    <3>1. i - m \in 1 .. n /\ b + (i - m) = k + i /\ ~ (i <= m)
      BY <1>1, <2>2
    <3>2. y[i - m] = input[b + (i - m)]
      BY <1>1, <3>1
    <3> QED
      BY <1>2, <3>1, <3>2
  <2> QED
    BY <2>1, <2>2
<1>4. c = k + (m + n)
  BY <1>1
<1> QED
  BY <1>1, <1>2, <1>3, <1>4 DEF Spans

(* There is one sequence of octets between two positions.                  *)
LEMMA SpansOne ==
  ASSUME NEW input \in Seq(Octet), NEW a, NEW b, NEW x, Spans(input, a, b, x)
  PROVE  x = SubSeq(input, a + 1, b)
<1>0. Len(x) \in Nat /\ a \in Nat
  BY DEF Spans
<1> PICK m \in Nat, k \in Nat, n \in Nat : m = Len(x) /\ k = a /\ n = Len(input)
  BY <1>0
<1>1. /\ x \in Seq(Octet) /\ b = k + m /\ k + m <= n
      /\ \A i \in 1 .. m : x[i] = input[k + i]
  BY DEF Spans
<1> DEFINE y == SubSeq(input, k + 1, k + m)
<1>2. /\ y \in Seq(Octet) /\ Len(y) = m
      /\ \A i \in 1 .. m : y[i] = input[k + i]
  BY <1>1
<1> HIDE DEF y
<1>3. x = y
  BY <1>1, <1>2
<1> QED
  BY <1>1, <1>3 DEF y

LEMMA DigitsSpan ==
  ASSUME NEW input \in Seq(Octet), NEW k \in Nat, NEW v \in Unsigned, Encodes(input, k, v),
         NEW size, size = Unsigned_Size(v), k + size <= Len(input)
  PROVE  Spans(input, k, k + size, Digits(v))
<1>1. v \in Nat /\ size \in Nat \ {0} /\ size \in 1 .. LastGroup + 1
  BY SizeOfUnsigned
<1> DEFINE x == [i \in 1 .. size |-> Group(v, i - 1)]
<1>2. \A i \in 1 .. size : i - 1 \in 0 .. size - 1 /\ k + (i - 1) + 1 = k + i
  BY <1>1
<1>3. x \in [1 .. size -> Octet]
  BY <1>2, Groups
<1>4. Len(x) = size /\ x \in Seq(Octet)
  BY <1>1, <1>3, LengthOf
<1>5. \A i \in 1 .. size : x[i] = input[k + i]
  <2> SUFFICES ASSUME NEW i \in 1 .. size
               PROVE  x[i] = input[k + i]
    OBVIOUS
  <2>1. input[k + (i - 1) + 1] = Group(v, i - 1)
    BY <1>2 DEF Encodes
  <2> QED
    BY <1>2, <2>1
<1> HIDE DEF x
<1>6. Spans(input, k, k + size, x)
  BY <1>1, <1>4, <1>5 DEF Spans
<1> QED
  BY <1>6 DEF x, Digits

(* A value behind its length, and behind the tag of its field.             *)
LEMMA DelimitedSpan ==
  ASSUME NEW input \in Seq(Octet), NEW k \in Nat, NEW region \in Regions, HoldsExtent(input, k, region),
         NEW x, Spans(input, region.start, End(region), x)
  PROVE  Spans(input, k, End(region), Delimited(x))
<1>1. region.start \in Nat /\ region.length \in Unsigned /\ region.length \in Nat
  BY SizeOfUnsigned DEF Regions
<1>2. x \in Seq(Octet) /\ Len(x) \in Nat /\ End(region) = region.start + Len(x) /\ End(region) <= Len(input)
  BY DEF Spans
<1>3. Len(x) = region.length /\ region.start <= Len(input)
  BY <1>1, <1>2 DEF End
<1>4. Encodes(input, k, region.length) /\ k + Unsigned_Size(region.length) = region.start
  BY DEF HoldsExtent
<1>5. Spans(input, k, region.start, Digits(region.length))
  BY <1>1, <1>3, <1>4, DigitsSpan
<1>6. Spans(input, k, End(region), Digits(region.length) \o x)
  BY <1>5, SpansJoin
<1> QED
  BY <1>3, <1>6 DEF Delimited

LEMMA FieldSpan ==
  ASSUME NEW input \in Seq(Octet), NEW k \in Nat, NEW tag \in Unsigned, NEW region \in Regions,
         HoldsHeader(input, k, tag, region),
         NEW x, Spans(input, region.start, End(region), x)
  PROVE  Spans(input, k, End(region), Digits(tag) \o Delimited(x))
<1> PICK size \in Nat : size = Unsigned_Size(tag)
  BY SizeOfUnsigned
<1>1. Encodes(input, k, tag) /\ HoldsExtent(input, k + size, region) /\ k + size \in Nat
  BY DEF HoldsHeader
<1>2. Spans(input, k + size, End(region), Delimited(x))
  BY <1>1, DelimitedSpan
<1>3. k + size <= Len(input)
  <2>1. Delimited(x) \in Seq(Octet) /\ End(region) = k + size + Len(Delimited(x)) /\ End(region) <= Len(input)
    BY <1>2 DEF Spans
  <2>2. Len(Delimited(x)) \in Nat
    BY <2>1
  <2> QED
    BY <2>1, <2>2
<1>4. Spans(input, k, k + size, Digits(tag))
  BY <1>1, <1>3, DigitsSpan
<1> QED
  BY <1>2, <1>4, SpansJoin

(* Parts one behind the other.                                             *)
Laid_Out(input, pos, parts, last) ==
  /\ pos \in [0 .. last -> Nat]
  /\ \A n \in 1 .. last : Spans(input, pos[n - 1], pos[n], parts[n])

LEMMA JoinedSpan ==
  ASSUME NEW input \in Seq(Octet), NEW last \in Nat, NEW pos, NEW parts, Laid_Out(input, pos, parts, last),
         pos[0] <= Len(input)
  PROVE  Spans(input, pos[0], pos[last], Joined(parts, last))
<1> PICK start : start = pos[0]
  OBVIOUS
<1>0. start \in Nat /\ start <= Len(input) /\ 0 \in 0 .. last /\ last \in 0 .. last
  BY DEF Laid_Out
<1> DEFINE Equation(f) == f = [n \in 0 .. last |-> IF n = 0 THEN <<>> ELSE f[n - 1] \o parts[n]]
           f == [n \in 0 .. last |-> SubSeq(input, start + 1, pos[n])]
           G == {n \in 0 .. last : Spans(input, start, pos[n], f[n]) /\ f[n] = IF n = 0 THEN <<>> ELSE f[n - 1] \o parts[n]}
           g == CHOOSE h : Equation(h)
           H == {n \in 0 .. last : g[n] = f[n]}
<1>1. f[0] = <<>>
  <2>1. SubSeq(input, start + 1, start) = <<>>
    <3>1. Spans(input, start, start, <<>>)
      BY <1>0, NothingSpans
    <3> QED
      BY <3>1, SpansOne
  <2> QED
    BY <1>0, <2>1
<1>2. ASSUME NEW n \in 0 .. last, \A m \in 0 .. n - 1 : m \in G
      PROVE  n \in G
  <2> HIDE DEF f
  <2>1. CASE n = 0
    <3>1. Spans(input, start, pos[0], <<>>)
      BY <1>0, NothingSpans
    <3> QED
      BY <1>1, <2>1, <3>1
  <2>2. CASE n > 0
    <3> PICK below \in 0 .. n - 1 : below = n - 1
      BY <2>2
    <3>1. Spans(input, start, pos[below], f[below])
      BY <1>2
    <3>2. Spans(input, pos[below], pos[n], parts[n])
      BY <2>2 DEF Laid_Out
    <3>3. Spans(input, start, pos[n], f[below] \o parts[n])
      BY <3>1, <3>2, SpansJoin
    <3>4. f[below] \o parts[n] = SubSeq(input, start + 1, pos[n])
      BY <3>3, SpansOne
    <3>5. f[n] = f[below] \o parts[n]
      BY <3>4 DEF f
    <3>6. Spans(input, start, pos[n], f[n]) /\ f[n] = f[n - 1] \o parts[n] /\ n # 0
      BY <2>2, <3>3, <3>5
    <3> QED
      BY <3>6
  <2> QED
    BY <2>1, <2>2
<1> HIDE DEF G
<1>3. \A n \in 0 .. last : n \in G
  BY <1>2, AllNumbers, Zenon
<1>4. Equation(f)
  <2>1. \A n \in 0 .. last : f[n] = IF n = 0 THEN <<>> ELSE f[n - 1] \o parts[n]
    BY <1>3 DEF G
  <2> QED
    BY <2>1
<1>5. Equation(g)
  <2> HIDE DEF f
  <2> QED
    BY <1>4
<1> HIDE DEF g
<1>6. ASSUME NEW n \in 0 .. last, \A m \in 0 .. n - 1 : m \in H
      PROVE  n \in H
  <2>1. /\ g[n] = IF n = 0 THEN <<>> ELSE g[n - 1] \o parts[n]
        /\ f[n] = IF n = 0 THEN <<>> ELSE f[n - 1] \o parts[n]
    <3>1. f[n] = IF n = 0 THEN <<>> ELSE f[n - 1] \o parts[n]
      BY <1>3 DEF G
    <3> HIDE DEF f
    <3> QED
      BY <1>5, <3>1
  <2> HIDE DEF f
  <2>2. n # 0 => n - 1 \in 0 .. n - 1
    OBVIOUS
  <2>3. n # 0 => g[n - 1] = f[n - 1]
    BY <1>6, <2>2
  <2> QED
    BY <2>1, <2>3
<1> HIDE DEF H
<1>7. \A n \in 0 .. last : n \in H
  BY <1>6, AllNumbers, Zenon
<1> HIDE DEF f
<1>8. g[last] = f[last] /\ Spans(input, start, pos[last], f[last])
  BY <1>0, <1>3, <1>7 DEF G, H
<1>9. Joined(parts, last) = g[last]
  BY DEF Joined, g
<1> QED
  BY <1>8, <1>9

LEMMA ExtentCursor ==
  ASSUME NEW input \in Seq(Octet), NEW region \in Regions, Inside(region, input),
         NEW c, c = Initialize(input, region).cursor
  PROVE  /\ region.start \in Nat /\ region.length \in Nat /\ End(region) \in Nat
         /\ End(region) = region.start + region.length /\ End(region) <= Len(input)
         /\ c = Cursor(region.start, region.start, End(region))
         /\ c \in Cursor_Record /\ Is_Valid(c, Len(input))
         /\ c.first = region.start /\ c.next = region.start /\ c.limit = End(region)
<1>1. region.start \in Nat /\ region.length \in Nat /\ Len(input) \in Nat
  BY SizeOfUnsigned DEF Regions
<1> PICK start \in Nat, length \in Nat, size \in Nat :
       start = region.start /\ length = region.length /\ size = Len(input)
  BY <1>1
<1>2. start + length \in Nat /\ start + length <= size
  BY DEF Inside
<1>3. End(region) = start + length
  BY DEF End
<1>4. c = [first |-> start, next |-> start, limit |-> start + length]
  BY <1>3 DEF Initialize, Cursor
<1>5. c \in Cursor_Record /\ Is_Valid(c, size)
  BY <1>2, <1>4 DEF Cursor_Record, Is_Valid
<1> QED
  BY <1>1, <1>2, <1>3, <1>4, <1>5 DEF Cursor

(* An integer that fills its extent. *)
LEMMA DigitsFill ==
  ASSUME NEW input \in Seq(Octet), NEW region \in Regions, Inside(region, input),
         NEW c, c = Initialize(input, region).cursor,
         NEW v, NEW result, Takes(input, c, v, 0, result), At_End(result.cursor)
  PROVE  Spans(input, region.start, End(region), Digits(v))
<1>1. /\ c \in Cursor_Record /\ c.next = region.start /\ c.limit = End(region) /\ region.start \in Nat
      /\ End(region) \in Nat /\ End(region) <= Len(input)
  BY ExtentCursor
<1>2. v \in Unsigned /\ Encodes(input, region.start, v)
  BY <1>1 DEF Takes
<1> PICK size \in Nat : size = Unsigned_Size(v)
  BY <1>2, SizeOfUnsigned
<1>3. result.cursor = [first |-> c.first, next |-> c.next + size, limit |-> c.limit]
  <2>1. result.cursor = Advance(c, size + 0) /\ size + 0 = size
    BY DEF Takes
  <2> QED
    BY <1>1, <2>1, CursorFields
<1>4. region.start + size = End(region)
  BY <1>1, <1>3 DEF At_End
<1> QED
  BY <1>1, <1>2, <1>4, DigitsSpan

Copies(input, k, value, count, after) ==
  after = [i \in 1 .. Len(value) |-> IF i <= count THEN input[k + i] ELSE value[i]]

LEMMA OctetsCopied ==
  ASSUME NEW input, NEW c, NEW value, NEW count,
         ~ (count > Remaining(c)), ~ (count > Len(value)), ~ (Copied(input, c.next, count) < count)
  PROVE  Copies(input, c.next, value, count, Read_Octets(input, c, value, count).value)
BY DEF Read_Octets, Copies

LEMMA OneMore ==
  ASSUME NEW s \in Seq(Int), NEW n \in Int, NEW x, x = s \o <<n>>
  PROVE  /\ x \in Seq(Int) /\ Len(x) = Len(s) + 1 /\ x[Len(s) + 1] = n
         /\ \A j \in 1 .. Len(s) : x[j] = s[j]
OBVIOUS

-----------------------------------------------------------------------------

(***************************************************************************)
(* Fields one behind the other, in the order of their tags: octets gives   *)
(* those of the values, and stop is where the field previous ends.         *)
(***************************************************************************)
Tagged_Parts(octets) ==
  [t \in 1 .. MaxFieldTag |-> IF t \in DOMAIN octets THEN Digits(t) \o Delimited(octets[t]) ELSE <<>>]

Tags_Laid(input, start, stop, previous, octets) ==
  /\ DOMAIN octets \subseteq 1 .. previous
  /\ \E pos : /\ Laid_Out(input, pos, Tagged_Parts(octets), MaxFieldTag)
              /\ pos[0] = start /\ \A k \in previous .. MaxFieldTag : pos[k] = stop

LEMMA NoTags ==
  ASSUME NEW input, NEW start \in Nat, start <= Len(input), NEW octets, DOMAIN octets = {}
  PROVE  Tags_Laid(input, start, start, No_Tag, octets)
<1> PICK top \in Nat : top = MaxFieldTag
  BY Limits
<1> DEFINE pos == [k \in 0 .. top |-> start]
<1>1. \A n \in 1 .. top : Tagged_Parts(octets)[n] = <<>>
  BY DEF Tagged_Parts
<1>2. \A k \in 0 .. top : pos[k] = start
  OBVIOUS
<1>3. pos \in [0 .. top -> Nat]
  OBVIOUS
<1> HIDE DEF pos
<1>4. \A n \in 1 .. top : pos[n - 1] = start /\ pos[n] = start
  BY <1>2
<1>5. \A n \in 1 .. top : Spans(input, pos[n - 1], pos[n], Tagged_Parts(octets)[n])
  BY <1>1, <1>4, NothingSpans
<1>6. Laid_Out(input, pos, Tagged_Parts(octets), MaxFieldTag)
  BY <1>3, <1>5 DEF Laid_Out
<1>7. pos[0] = start
  BY <1>2
<1> QED
  BY <1>2, <1>6, <1>7 DEF Tags_Laid, No_Tag

LEMMA OneTagMore ==
  ASSUME NEW input, NEW start, NEW stop \in Nat, NEW previous \in Nat, NEW octets,
         Tags_Laid(input, start, stop, previous, octets),
         NEW tag \in Field_Tag, tag > previous, NEW x, NEW next \in Nat, next <= Len(input),
         Spans(input, stop, next, Digits(tag) \o Delimited(x)),
         NEW more, DOMAIN more = DOMAIN octets \cup {tag}, more[tag] = x,
         \A k \in DOMAIN octets : more[k] = octets[k]
  PROVE  Tags_Laid(input, start, next, tag, more)
<1> PICK top \in Nat : top = MaxFieldTag
  BY Limits
<1>0. tag \in 1 .. top
  BY DEF Field_Tag
<1> PICK old : /\ Laid_Out(input, old, Tagged_Parts(octets), top)
               /\ old[0] = start /\ \A k \in previous .. top : old[k] = stop
  BY DEF Tags_Laid
<1>1. DOMAIN octets \subseteq 1 .. previous
  BY DEF Tags_Laid
<1>2. /\ old \in [0 .. top -> Nat]
      /\ \A n \in 1 .. top : Spans(input, old[n - 1], old[n], Tagged_Parts(octets)[n])
  BY DEF Laid_Out
<1> DEFINE new == [k \in 0 .. top |-> IF k < tag THEN old[k] ELSE next]
<1>3. /\ new \in [0 .. top -> Nat]
      /\ \A k \in 0 .. top : new[k] = IF k < tag THEN old[k] ELSE next
  BY <1>2
<1> HIDE DEF new
<1>4. /\ \A n \in 1 .. top : n < tag => Tagged_Parts(more)[n] = Tagged_Parts(octets)[n]
      /\ Tagged_Parts(more)[tag] = Digits(tag) \o Delimited(x)
      /\ \A n \in 1 .. top : n > tag => Tagged_Parts(more)[n] = <<>>
  <2>1. \A n \in 1 .. top : n < tag => (n \in DOMAIN more <=> n \in DOMAIN octets)
    BY <1>0
  <2>2. \A n \in 1 .. top : n > tag => n \notin DOMAIN more
    BY <1>0, <1>1
  <2>3. tag \in DOMAIN more
    OBVIOUS
  <2> QED
    BY <1>0, <2>1, <2>2, <2>3 DEF Tagged_Parts
<1>5. ASSUME NEW n \in 1 .. top
      PROVE  Spans(input, new[n - 1], new[n], Tagged_Parts(more)[n])
  <2>0. n - 1 \in 0 .. top /\ n \in 0 .. top
    OBVIOUS
  <2>1. CASE n < tag
    <3>1. new[n - 1] = old[n - 1] /\ new[n] = old[n]
      BY <1>0, <1>3, <2>0, <2>1, SMTT(60)
    <3> QED
      BY <1>2, <1>4, <2>1, <3>1
  <2>2. CASE n = tag
    <3>1. n - 1 \in previous .. top /\ n - 1 < tag /\ ~ (n < tag)
      BY <1>0, <2>2
    <3>2. new[n - 1] = stop /\ new[n] = next
      BY <1>3, <2>0, <3>1
    <3> QED
      BY <1>4, <2>2, <3>2
  <2>3. CASE n > tag
    <3>1. ~ (n < tag) /\ ~ (n - 1 < tag)
      BY <1>0, <2>3
    <3>2. new[n - 1] = next /\ new[n] = next
      BY <1>3, <2>0, <3>1
    <3>3. Tagged_Parts(more)[n] = <<>>
      BY <1>4, <2>3
    <3> QED
      BY <3>2, <3>3, NothingSpans
  <2> QED
    BY <1>0, <2>1, <2>2, <2>3
<1>6. Laid_Out(input, new, Tagged_Parts(more), MaxFieldTag)
  BY <1>3, <1>5 DEF Laid_Out
<1>7. new[0] = start
  BY <1>0, <1>3
<1>8. \A k \in tag .. MaxFieldTag : new[k] = next
  <2> SUFFICES ASSUME NEW k \in tag .. top
               PROVE  new[k] = next
    OBVIOUS
  <2>1. k \in 0 .. top /\ ~ (k < tag)
    BY <1>0
  <2> QED
    BY <1>3, <2>1
<1>9. DOMAIN more \subseteq 1 .. tag
  BY <1>0, <1>1
<1> QED
  BY <1>6, <1>7, <1>8, <1>9 DEF Tags_Laid

LEMMA TagsJoined ==
  ASSUME NEW input \in Seq(Octet), NEW start \in Nat, start <= Len(input), NEW stop, NEW previous \in Tag_Number, NEW octets,
         Tags_Laid(input, start, stop, previous, octets)
  PROVE  Spans(input, start, stop, Joined(Tagged_Parts(octets), MaxFieldTag))
<1> PICK top \in Nat : top = MaxFieldTag
  BY Limits
<1> PICK pos : /\ Laid_Out(input, pos, Tagged_Parts(octets), top)
               /\ pos[0] = start /\ \A k \in previous .. top : pos[k] = stop
  BY DEF Tags_Laid
<1>1. top \in previous .. top
  BY DEF Tag_Number
<1>2. pos[top] = stop
  BY <1>1
<1> QED
  BY <1>2, JoinedSpan

(* A header that was read, and where what it announces is.                 *)
LEMMA HeaderTaken ==
  ASSUME NEW input \in Seq(Octet), NEW c \in Cursor_Record, Is_Valid(c, Len(input)), NEW previous \in Tag_Number,
         NEW header, header = Read_Field_Header(input, c, previous), header.status = "Read"
  PROVE  /\ header.tag \in Field_Tag /\ header.tag > previous /\ header.previous = header.tag
         /\ header.value \in Regions
         /\ header.cursor \in Cursor_Record /\ Is_Valid(header.cursor, Len(input))
         /\ header.cursor.first = c.first /\ header.cursor.limit = c.limit
         /\ header.cursor.next = End(header.value)
         /\ \A x : Spans(input, header.value.start, End(header.value), x)
                     => Spans(input, c.next, header.cursor.next, Digits(header.tag) \o Delimited(x))
<1>1. previous \in Nat
  BY Limits DEF Tag_Number
<1>2. TakesHeader(input, c, previous, header)
  <2>1. ReadRefused(c, header) \/ TakesHeader(input, c, previous, header)
    BY <1>1, HeaderRead
  <2> QED
    BY <2>1 DEF ReadRefused, Read_Refusal
<1> PICK tag \in Field_Tag \cap Unsigned, region \in Regions : tag = header.tag /\ region = header.value
  BY <1>2 DEF TakesHeader
<1>3. /\ tag > previous /\ header.previous = tag /\ HoldsHeader(input, c.next, tag, region)
      /\ End(region) <= c.limit /\ header.cursor = Cursor(c.first, End(region), c.limit)
  BY <1>2 DEF TakesHeader, MovedTo
<1>4. c.first \in Nat /\ c.next \in Nat /\ c.limit \in Nat /\ c.first <= c.next /\ c.limit <= Len(input)
  BY CursorFields DEF Is_Valid
<1>5. region.start \in Nat /\ region.length \in Unsigned /\ region.length \in Nat
  BY SizeOfUnsigned DEF Regions
<1> PICK a \in Nat, b \in Nat : a = Unsigned_Size(tag) /\ b = Unsigned_Size(region.length)
  BY <1>5, SizeOfUnsigned
<1>6. region.start = c.next + a + b
  BY <1>3 DEF HoldsHeader, HoldsExtent
<1>7. End(region) \in Nat /\ c.next <= End(region)
  BY <1>4, <1>5, <1>6, SMTT(60) DEF End
<1>8. /\ header.cursor = [first |-> c.first, next |-> End(region), limit |-> c.limit]
      /\ header.cursor \in Cursor_Record
  BY <1>3, <1>4, <1>7 DEF Cursor, Cursor_Record
<1>9. Is_Valid(header.cursor, Len(input))
  BY <1>3, <1>4, <1>7, <1>8 DEF Is_Valid
<1>10. ASSUME NEW x, Spans(input, region.start, End(region), x)
       PROVE  Spans(input, c.next, header.cursor.next, Digits(tag) \o Delimited(x))
  BY <1>3, <1>4, <1>8, <1>10, FieldSpan
<1> QED
  BY <1>3, <1>8, <1>9, <1>10

(* A header that was read ends at the tag it holds.                        *)
LEMMA HeaderTag ==
  ASSUME NEW input, NEW c, NEW previous,
         Read_Field_Header(input, c, previous).status = "Read"
  PROVE  Read_Field_Header(input, c, previous).previous = Read_Field_Header(input, c, previous).tag
BY DEF Read_Field_Header

-----------------------------------------------------------------------------

(***************************************************************************)
(* What a write puts into the array, to the octet.                         *)
(***************************************************************************)
(* A write elsewhere leaves octets where they are.                         *)
LEMMA SpanKept ==
  ASSUME NEW n \in Nat, NEW before \in [1 .. n -> Octet], NEW after \in [1 .. n -> Octet],
         NEW a, NEW b, NEW x, Spans(before, a, b, x),
         NEW k \in Nat, NEW size \in Nat, Keeps(n, before, after, k, size), b <= k \/ k + size <= a
  PROVE  Spans(after, a, b, x)
<1>1. Len(before) = n /\ Len(after) = n
  BY LengthOf
<1>2. x \in Seq(Octet) /\ a \in Nat /\ b = a + Len(x) /\ b <= n /\ Len(x) \in Nat
  BY <1>1 DEF Spans
<1>3. ASSUME NEW i \in 1 .. Len(x)
      PROVE  x[i] = after[a + i]
  <2>1. a + i \in 1 .. n /\ a + i \notin k + 1 .. k + size
    BY <1>2
  <2>2. after[a + i] = before[a + i]
    BY <2>1 DEF Keeps
  <2> QED
    BY <2>2 DEF Spans
<1> QED
  BY <1>1, <1>2, <1>3 DEF Spans

(* The groups of an integer, and nothing beside them.                      *)
LEMMA DigitsOctets ==
  ASSUME NEW v \in Nat, NEW size, size = Unsigned_Size(v)
  PROVE  /\ size \in 1 .. LastGroup + 1
         /\ Digits(v) \in Seq(Octet) /\ Len(Digits(v)) = size
         /\ Digits(v) = [i \in 1 .. size |-> Group(v, i - 1)]
<1>3. size \in Nat /\ size \in 1 .. LastGroup + 1
  BY SizeOfAny, ProfileAssumption
<1>4. Digits(v) = [i \in 1 .. size |-> Group(v, i - 1)]
  BY DEF Digits
<1>5. \A i \in 1 .. size : Group(v, i - 1) \in Octet
  <2> SUFFICES ASSUME NEW i \in 1 .. size
               PROVE  Group(v, i - 1) \in Octet
    OBVIOUS
  <2>1. i - 1 \in 0 .. LastGroup
    BY <1>3, ProfileAssumption
  <2> QED
    BY <2>1, GroupIsOctet
<1>6. Digits(v) \in [1 .. size -> Octet]
  BY <1>4, <1>5
<1>7. Digits(v) \in Seq(Octet) /\ Len(Digits(v)) = size
  BY <1>3, <1>6, LengthOf
<1> QED
  BY <1>3, <1>4, <1>7

LEMMA PutSpan ==
  ASSUME NEW n \in Nat, NEW before \in [1 .. n -> Octet], NEW k \in Nat, NEW v \in Nat,
         NEW size, size = Unsigned_Size(v), k + size <= n,
         NEW after, after = Put_Unsigned(before, k, v)
  PROVE  Spans(after, k, k + size, Digits(v))
<1>1. after \in [1 .. n -> Octet] /\ Len(before) = n
  BY PutUnsigned, LengthOf
<1>2. Len(after) = n
  BY <1>1, LengthOf
<1>3. size \in Nat /\ size \in 1 .. LastGroup + 1
  BY SizeOfAny, ProfileAssumption
<1>4. Digits(v) = [i \in 1 .. size |-> Group(v, i - 1)]
  BY DigitsOctets
<1>7. Digits(v) \in Seq(Octet) /\ Len(Digits(v)) = size
  BY DigitsOctets
<1>8. ASSUME NEW i \in 1 .. size
      PROVE  Digits(v)[i] = after[k + i]
  <2>1. k + i \in 1 .. n /\ k + i \in k + 1 .. k + size /\ k + i - k - 1 = i - 1
    BY <1>3
  <2>2. after[k + i] = Group(v, k + i - k - 1)
    BY <1>1, <2>1 DEF Put_Unsigned
  <2> QED
    BY <1>4, <2>1, <2>2
<1> QED
  BY <1>2, <1>3, <1>7, <1>8 DEF Spans

LEMMA UnsignedSpan ==
  ASSUME NEW n \in Nat, NEW before \in [1 .. n -> Octet], NEW c \in Cursor_Record, Is_Valid(c, n),
         NEW v \in Nat, NEW size, size = Unsigned_Size(v), size <= Remaining(c)
  PROVE  Spans(Write_Unsigned(before, c, v).output, c.next, c.next + size, Digits(v))
<1> PICK next \in Nat, limit \in Nat : next = c.next /\ limit = c.limit
  BY CursorFields
<1>1. next + size <= n /\ size \in Nat
  BY SizeOfAny, ProfileAssumption, CursorFields, SMTT(60) DEF Is_Valid
<1>2. Write_Unsigned(before, c, v).output = Put_Unsigned(before, next, v)
  <2>1. Len(before) = n
    BY LengthOf
  <2>2. ~ (~ Is_Valid(c, Len(before)) \/ size > Remaining(c))
    BY <1>1, <2>1, CursorFields
  <2> QED
    BY <2>2 DEF Write_Unsigned
<1> QED
  BY <1>1, <1>2, PutSpan

(* One octet stands in an array of them.                                   *)
LEMMA OneSpans ==
  ASSUME NEW n \in Nat, NEW array \in [1 .. n -> Octet], NEW k \in Nat, k + 1 <= n
  PROVE  Spans(array, k, k + 1, <<array[k + 1]>>)
<1>1. Len(array) = n
  BY LengthOf
<1>2. k + 1 \in 1 .. n /\ array[k + 1] \in Octet
  OBVIOUS
<1> PICK o \in Octet : o = array[k + 1]
  BY <1>2
<1>3. <<o>> \in Seq(Octet) /\ Len(<<o>>) = 1 /\ <<o>>[1] = o
  OBVIOUS
<1> QED
  BY <1>1, <1>3 DEF Spans

(* Octets are copied as they are.                                          *)
LEMMA OctetsSpan ==
  ASSUME NEW n \in Nat, NEW before \in [1 .. n -> Octet], NEW c \in Cursor_Record, Is_Valid(c, n),
         NEW value \in Seq(Octet), NEW count, count = Len(value), count <= Remaining(c)
  PROVE  Spans(Write_Octets(before, c, value, count).output, c.next, c.next + count, value)
<1> PICK next \in Nat, limit \in Nat : next = c.next /\ limit = c.limit
  BY CursorFields
<1>1. count \in Nat /\ next + count <= n /\ Len(before) = n
  BY CursorFields, LengthOf DEF Is_Valid
<1> PICK after : after = Write_Octets(before, c, value, count).output
  OBVIOUS
<1>2. after = [i \in 1 .. n |-> IF i \in next + 1 .. next + count THEN value[i - next] ELSE before[i]]
  <2>1. ~ (count > Remaining(c) \/ count > Len(value))
    BY <1>1, CursorFields
  <2>2. Copied(before, next, count) = count
    BY <1>1 DEF Copied
  <2> QED
    BY <1>1, <2>1, <2>2 DEF Write_Octets
<1>3. Len(after) = n
  <2>1. after \in [1 .. n -> Octet]
    BY <1>1, OctetsStored, SMTT(60) DEF Stores
  <2> QED
    BY <2>1, LengthOf
<1>4. ASSUME NEW i \in 1 .. Len(value)
      PROVE  value[i] = after[next + i]
  <2> PICK j : j = next + i
    OBVIOUS
  <2>1. j \in 1 .. n /\ j \in next + 1 .. next + count /\ j - next = i
    BY <1>1, SMTT(60)
  <2>2. after[j] = value[j - next]
    BY <1>2, <2>1
  <2> QED
    BY <2>1, <2>2
<1> QED
  BY <1>1, <1>3, <1>4 DEF Spans

(* Two integers, one behind the other.                                     *)
LEMMA HeaderSpan ==
  ASSUME NEW n \in Nat, NEW before \in [1 .. n -> Octet], NEW k \in Nat, NEW tag \in Nat, NEW length \in Nat,
         NEW one \in Nat, one = Unsigned_Size(tag), NEW two \in Nat, two = Unsigned_Size(length), k + one + two <= n,
         NEW after, after = Put_Unsigned(Put_Unsigned(before, k, tag), k + one, length)
  PROVE  /\ Spans(after, k, k + one, Digits(tag))
         /\ Spans(after, k + one, k + one + two, Digits(length))
<1> PICK tagged : tagged = Put_Unsigned(before, k, tag)
  OBVIOUS
<1>1. tagged \in [1 .. n -> Octet] /\ Spans(tagged, k, k + one, Digits(tag))
  BY PutUnsigned, PutSpan, SMTT(60)
<1> PICK at \in Nat : at = k + one
  OBVIOUS
<1>2. /\ after \in [1 .. n -> Octet] /\ Keeps(n, tagged, after, at, two)
  BY <1>1, PutUnsigned
<1>4. Spans(after, at, at + two, Digits(length))
  <2>1. at + two <= n /\ after = Put_Unsigned(tagged, at, length)
    OBVIOUS
  <2> QED
    BY <1>1, <2>1, PutSpan, Zenon
<1>3. Spans(after, k, k + one, Digits(tag))
  <2>1. k + one <= at
    OBVIOUS
  <2> QED
    BY <1>1, <1>2, <2>1, SpanKept, Zenon
<1> QED
  BY <1>3, <1>4

LEMMA Associative ==
  ASSUME NEW p \in Seq(Octet), NEW q \in Seq(Octet), NEW r \in Seq(Octet)
  PROVE  (p \o q) \o r = p \o (q \o r)
<1> DEFINE left == (p \o q) \o r
           right == p \o (q \o r)
<1>1. p \o q \in Seq(Octet) /\ q \o r \in Seq(Octet) /\ left \in Seq(Octet) /\ right \in Seq(Octet)
  OBVIOUS
<1>2. Len(left) = Len(p) + Len(q) + Len(r) /\ Len(right) = Len(left)
  BY <1>1
<1>3. ASSUME NEW i \in 1 .. Len(left)
      PROVE  left[i] = right[i]
  <2>1. CASE i \in 1 .. Len(p)
    BY <1>1, <1>2, <2>1
  <2>2. CASE i \in Len(p) + 1 .. Len(p) + Len(q)
    BY <1>1, <1>2, <2>2
  <2>3. CASE i \in Len(p) + Len(q) + 1 .. Len(p) + Len(q) + Len(r)
    BY <1>1, <1>2, <2>3
  <2> QED
    BY <1>2, <2>1, <2>2, <2>3
<1> HIDE DEF left, right
<1>4. left = right
  BY <1>1, <1>2, <1>3, SameSequence
<1> QED
  BY <1>4 DEF left, right

(* ... and one behind its tag and its length.                              *)
LEMMA HeaderDigits ==
  ASSUME NEW n \in Nat, NEW before \in [1 .. n -> Octet], NEW next \in Nat,
         NEW tag \in Nat, NEW length \in Nat,
         NEW size \in Nat, size = Unsigned_Size(tag) + Unsigned_Size(length), next + size <= n,
         NEW after, after = Put_Unsigned(Put_Unsigned(before, next, tag), next + Unsigned_Size(tag), length)
  PROVE  Spans(after, next, next + size, Digits(tag) \o Digits(length))
<1> PICK one \in Nat : one = Unsigned_Size(tag)
  BY SizeOfAny, ProfileAssumption
<1> PICK two \in Nat : two = Unsigned_Size(length)
  BY SizeOfAny, ProfileAssumption
<1>0. size = one + two
  OBVIOUS
<1>1. next + one + two = next + size
  BY <1>0
<1>2. after = Put_Unsigned(Put_Unsigned(before, next, tag), next + one, length)
  OBVIOUS
<1>3. Spans(after, next, next + one, Digits(tag)) /\ Spans(after, next + one, next + one + two, Digits(length))
  <2>1. next + one + two <= n
    BY <1>1
  <2> QED
    BY <1>2, <2>1, HeaderSpan
<1> QED
  BY <1>1, <1>3, SpansJoin

(* Parts one behind the other end in their order.                          *)
LEMMA PartsInOrder ==
  ASSUME NEW input, NEW last \in Nat, NEW pos, NEW parts, Laid_Out(input, pos, parts, last),
         NEW top \in 0 .. last, NEW k \in 0 .. top
  PROVE  pos[k] \in Nat /\ pos[top] \in Nat /\ pos[k] <= pos[top]
<1>1. /\ pos \in [0 .. last -> Nat]
      /\ \A n \in 1 .. last : Spans(input, pos[n - 1], pos[n], parts[n])
  BY DEF Laid_Out
<1>2. \A n \in 1 .. last : pos[n - 1] <= pos[n]
  <2> SUFFICES ASSUME NEW n \in 1 .. last
               PROVE  pos[n - 1] <= pos[n]
    OBVIOUS
  <2>1. PICK a \in Nat, b \in Nat : a = pos[n - 1] /\ b = pos[n]
    BY <1>1, SMTT(60)
  <2>2. Spans(input, a, b, parts[n])
    BY <1>1, <2>1
  <2>3. Len(parts[n]) \in Nat /\ b = a + Len(parts[n])
    BY <2>2 DEF Spans
  <2>4. a <= b
    BY <2>3
  <2> QED
    BY <2>1, <2>4
<1> DEFINE G == {n \in 0 .. last : \A j \in 0 .. n : pos[j] <= pos[n]}
<1> HIDE DEF G
<1>3. ASSUME NEW n \in 0 .. last, \A j \in 0 .. n - 1 : j \in G
      PROVE  n \in G
  <2>1. ASSUME NEW j \in 0 .. n
        PROVE  pos[j] <= pos[n]
    <3>1. CASE j = n
      BY <1>1, <3>1
    <3>2. CASE j # n
      <4>1. PICK below \in 0 .. n - 1 : below = n - 1
        BY <3>2
      <4>2. j \in 0 .. below /\ below \in G /\ n \in 1 .. last
        BY <1>3, <3>2, <4>1
      <4>3. pos[j] <= pos[below] /\ pos[below] <= pos[n]
        BY <1>2, <4>1, <4>2 DEF G
      <4>4. pos[j] \in Nat /\ pos[below] \in Nat /\ pos[n] \in Nat
        BY <1>1, <4>2
      <4> QED
        BY <4>3, <4>4
    <3> QED
      BY <3>1, <3>2
  <2> QED
    BY <2>1 DEF G
<1>4. \A n \in 0 .. last : n \in G
  <2>1. \A n \in 0 .. last : (\A j \in 0 .. n - 1 : j \in G) => n \in G
    BY <1>3
  <2> QED
    BY <2>1, AllNumbers, Zenon
<1>5. pos[k] <= pos[top]
  BY <1>4 DEF G
<1> QED
  BY <1>1, <1>5

(* Fields stay where they are when something is written behind them ...    *)
LEMMA TagsKept ==
  ASSUME NEW n \in Nat, NEW before \in [1 .. n -> Octet], NEW after \in [1 .. n -> Octet],
         NEW start, NEW stop \in Nat, NEW previous \in Tag_Number, NEW octets,
         Tags_Laid(before, start, stop, previous, octets),
         NEW size \in Nat, Keeps(n, before, after, stop, size)
  PROVE  Tags_Laid(after, start, stop, previous, octets)
<1>1. PICK top \in Nat : top = MaxFieldTag
  BY Limits
<1>2. PICK pos : /\ Laid_Out(before, pos, Tagged_Parts(octets), top)
                 /\ pos[0] = start /\ \A k \in previous .. top : pos[k] = stop
  BY <1>1 DEF Tags_Laid
<1>3. previous \in 0 .. top
  BY <1>1 DEF Tag_Number
<1>4. pos \in [0 .. top -> Nat] /\ pos[top] = stop
  BY <1>2, <1>3 DEF Laid_Out
<1>5. ASSUME NEW k \in 1 .. top
      PROVE  Spans(after, pos[k - 1], pos[k], Tagged_Parts(octets)[k])
  <2>1. top \in 0 .. top /\ k \in 0 .. top
    BY <1>5
  <2>2. pos[k] <= stop
    BY <1>2, <1>4, <2>1, PartsInOrder
  <2>3. Spans(before, pos[k - 1], pos[k], Tagged_Parts(octets)[k])
    BY <1>2 DEF Laid_Out
  <2> QED
    BY <2>2, <2>3, SpanKept
<1>6. Laid_Out(after, pos, Tagged_Parts(octets), MaxFieldTag)
  BY <1>1, <1>4, <1>5 DEF Laid_Out
<1> QED
  BY <1>1, <1>2, <1>6 DEF Tags_Laid

(* ... and there may be none of some tags.                                 *)
LEMMA TagsPast ==
  ASSUME NEW input, NEW start, NEW stop, NEW previous \in Nat, NEW octets,
         Tags_Laid(input, start, stop, previous, octets), NEW tag \in Nat, previous <= tag
  PROVE  Tags_Laid(input, start, stop, tag, octets)
<1>1. 1 .. previous \subseteq 1 .. tag /\ tag .. MaxFieldTag \subseteq previous .. MaxFieldTag
  BY Limits
<1> QED
  BY <1>1 DEF Tags_Laid

LEMMA TagsWritten ==
  ASSUME NEW n \in Nat, NEW before \in [1 .. n -> Octet], NEW after \in [1 .. n -> Octet],
         NEW start, NEW stop \in Nat, NEW previous \in Tag_Number, NEW octets,
         Tags_Laid(before, start, stop, previous, octets),
         NEW size \in Nat, Keeps(n, before, after, stop, size),
         NEW tag \in Field_Tag, tag > previous, NEW x,
         Spans(after, stop, stop + size, Digits(tag) \o Delimited(x)),
         NEW more, DOMAIN more = DOMAIN octets \cup {tag}, more[tag] = x,
         \A k \in DOMAIN octets : more[k] = octets[k]
  PROVE  Tags_Laid(after, start, stop + size, tag, more)
<1>1. Tags_Laid(after, start, stop, previous, octets)
  BY TagsKept
<1>2. PICK next \in Nat : next = stop + size
  OBVIOUS
<1>3. next <= Len(after) /\ Spans(after, stop, next, Digits(tag) \o Delimited(x))
  BY <1>2 DEF Spans
<1>4. previous \in Nat
  BY Limits DEF Tag_Number
<1>5. Tags_Laid(after, start, next, tag, more)
  BY <1>1, <1>3, <1>4, OneTagMore
<1> QED
  BY <1>2, <1>5

LEMMA OneIsSome ==
  ASSUME NEW content \in Seq(Int), Len(content) = 1
  PROVE  content # <<>>
<1>1. Len(<<>>) = 0
  OBVIOUS
<1> SUFFICES ASSUME content = <<>>
             PROVE  FALSE
  OBVIOUS
<1>2. Len(content) = Len(<<>>)
  BY Zenon
<1> QED
  BY <1>1, <1>2

LEMMA PrefixOfOctets ==
  ASSUME NEW output \in Seq(Octet), NEW n \in 0 .. Len(output)
  PROVE  SubSeq(output, 1, n) \in Seq(Octet)
<1>1. \A i \in 1 .. n : output[i] \in Octet
  OBVIOUS
<1> QED
  BY <1>1

LEMMA SpansIsPrefix ==
  ASSUME NEW output \in Seq(Octet), NEW octets, NEW n \in Nat, Spans(output, 0, n, octets)
  PROVE  SubSeq(output, 1, n) = octets
<1>1. /\ octets \in Seq(Octet) /\ n = Len(octets) /\ n <= Len(output)
      /\ \A i \in 1 .. n : octets[i] = output[i]
  <2>1. /\ octets \in Seq(Octet) /\ n = 0 + Len(octets) /\ n <= Len(output)
        /\ \A i \in 1 .. Len(octets) : octets[i] = output[0 + i]
    BY DEF Spans
  <2>2. n = Len(octets) /\ \A i \in 1 .. n : 0 + i = i
    BY <2>1
  <2> QED
    BY <2>1, <2>2
<1>2. n \in 0 .. Len(output)
  BY <1>1
<1> PICK prefix \in Seq(Octet) : prefix = SubSeq(output, 1, n)
  BY <1>2, PrefixOfOctets
<1>3. Len(prefix) = n /\ \A i \in 1 .. n : prefix[i] = output[i]
  BY <1>1
<1>4. Len(prefix) = Len(octets) /\ \A i \in 1 .. Len(prefix) : prefix[i] = octets[i]
  BY <1>1, <1>3
<1> QED
  BY <1>1, <1>4, SameSequence

-----------------------------------------------------------------------------

(***************************************************************************)
(* Octets taken apart again.                                               *)
(***************************************************************************)
LEMMA SpansSplit ==
  ASSUME NEW input \in Seq(Octet), NEW a, NEW c, NEW x \in Seq(Octet), NEW y \in Seq(Octet), Spans(input, a, c, x \o y)
  PROVE  \E b \in Nat : b = a + Len(x) /\ Spans(input, a, b, x) /\ Spans(input, b, c, y)
<1>1. PICK m \in Nat, n \in Nat, k \in Nat : m = Len(x) /\ n = Len(y) /\ k = a
  BY DEF Spans
<1>2. /\ Len(x \o y) = m + n
      /\ \A i \in 1 .. m + n : (x \o y)[i] = IF i <= m THEN x[i] ELSE y[i - m]
  BY <1>1
<1>3. /\ c = k + (m + n) /\ c <= Len(input)
      /\ \A i \in 1 .. m + n : (x \o y)[i] = input[k + i]
  BY <1>1, <1>2 DEF Spans
<1>0. PICK all : all = x \o y
  OBVIOUS
<1>4. \A i \in 1 .. m : x[i] = input[k + i]
  <2> SUFFICES ASSUME NEW i \in 1 .. m
               PROVE  x[i] = input[k + i]
    OBVIOUS
  <2>1. i \in 1 .. m + n /\ i <= m
    BY <1>1
  <2> QED
    BY <1>2, <1>3, <2>1
<1>5. \A i \in 1 .. n : y[i] = input[(k + m) + i]
  <2> SUFFICES ASSUME NEW i \in 1 .. n
               PROVE  y[i] = input[(k + m) + i]
    OBVIOUS
  <2>1. /\ m + i \in 1 .. m + n /\ ~ (m + i <= m) /\ (m + i) - m = i /\ k + (m + i) = (k + m) + i
    BY <1>1
  <2>2. all[m + i] = y[(m + i) - m]
    BY <1>0, <1>2, <2>1
  <2>3. all[m + i] = input[k + (m + i)]
    BY <1>0, <1>3, <2>1
  <2> QED
    BY <2>1, <2>2, <2>3
<1>6. k + m \in Nat /\ k + m <= Len(input) /\ c = (k + m) + n
  <2>1. Len(input) \in Nat
    OBVIOUS
  <2> QED
    BY <1>1, <1>3, <2>1
<1>7. Spans(input, k, k + m, x)
  BY <1>1, <1>4, <1>6 DEF Spans
<1>8. Spans(input, k + m, c, y)
  BY <1>1, <1>3, <1>5, <1>6 DEF Spans
<1> QED
  BY <1>1, <1>6, <1>7, <1>8

(* Where the digits of an integer stand, it is encoded.                    *)
LEMMA SpansDigits ==
  ASSUME NEW input, NEW k, NEW b, NEW v \in Unsigned, Spans(input, k, b, Digits(v))
  PROVE  Encodes(input, k, v) /\ b = k + Unsigned_Size(v)
<1>1. PICK size \in Nat : size = Unsigned_Size(v)
  BY SizeOfUnsigned
<1>2. Digits(v) = [i \in 1 .. size |-> Group(v, i - 1)] /\ Len(Digits(v)) = size
  <2>1. v \in Nat
    BY SizeOfUnsigned
  <2> QED
    BY <1>1, <2>1, DigitsOctets
<1>3. k \in Nat /\ b = k + size /\ \A i \in 1 .. size : Digits(v)[i] = input[k + i]
  BY <1>2 DEF Spans
<1>4. ASSUME NEW g \in 0 .. size - 1
      PROVE  input[k + g + 1] = Group(v, g)
  <2>1. g + 1 \in 1 .. size /\ (g + 1) - 1 = g /\ k + (g + 1) = k + g + 1
    BY <1>1, <1>3
  <2>2. Digits(v)[g + 1] = Group(v, (g + 1) - 1)
    BY <1>2, <2>1
  <2>3. Digits(v)[g + 1] = input[k + (g + 1)]
    BY <1>3, <2>1
  <2> QED
    BY <2>1, <2>2, <2>3
<1> QED
  BY <1>1, <1>3, <1>4 DEF Encodes

(* The equation of Joined holds of some function.                          *)
LEMMA PrefixesExist ==
  ASSUME NEW parts, NEW top \in Nat
  PROVE  \E f : f = [n \in 0 .. top |-> IF n = 0 THEN <<>> ELSE f[n - 1] \o parts[n]]
<1> DEFINE Step(before, n) == before \o parts[n]
           G == {m \in 0 .. top : \E f : f = [n \in 0 .. m |-> IF n = 0 THEN <<>> ELSE Step(f[n - 1], n)]}
<1> HIDE DEF Step
<1>1. ASSUME NEW m \in 0 .. top, \A k \in 0 .. m - 1 : k \in G
      PROVE  m \in G
  <2>1. CASE m = 0
    <3> DEFINE f == [n \in 0 .. m |-> <<>>]
    <3>1. f = [n \in 0 .. m |-> IF n = 0 THEN <<>> ELSE Step(f[n - 1], n)]
      BY <2>1
    <3> QED
      BY <3>1
  <2>2. CASE m > 0
    <3>1. PICK f : f = [n \in 0 .. m - 1 |-> IF n = 0 THEN <<>> ELSE Step(f[n - 1], n)]
      BY <1>1, <2>2
    <3> DEFINE g == [n \in 0 .. m |-> IF n = m THEN Step(f[m - 1], m) ELSE f[n]]
    <3>2. ASSUME NEW n \in 0 .. m
          PROVE  g[n] = IF n = 0 THEN <<>> ELSE Step(g[n - 1], n)
      <4>1. CASE n = m
        <5>1. g[n] = Step(f[m - 1], m) /\ g[n - 1] = f[m - 1]
          BY <2>2, <4>1
        <5> QED
          BY <2>2, <4>1, <5>1
      <4>2. CASE n # m
        <5>1. n \in 0 .. m - 1 /\ g[n] = f[n] /\ (n # 0 => g[n - 1] = f[n - 1])
          BY <4>2
        <5>2. f[n] = IF n = 0 THEN <<>> ELSE Step(f[n - 1], n)
          <6> HIDE DEF g
          <6> QED
            BY <3>1, <5>1
        <5> QED
          BY <5>1, <5>2
      <4> QED
        BY <4>1, <4>2
    <3>3. g = [n \in 0 .. m |-> IF n = 0 THEN <<>> ELSE Step(g[n - 1], n)]
      BY <3>2
    <3> HIDE DEF g
    <3> QED
      BY <3>3
  <2> QED
    BY <2>1, <2>2
<1> HIDE DEF G
<1>2. top \in G
  <2>1. \A i \in 0 .. top : i \in G
    BY <1>1, AllNumbers, Zenon
  <2> QED
    BY <2>1
<1> QED
  BY <1>2 DEF G, Step

LEMMA Prefixes ==
  ASSUME NEW last \in Nat, NEW parts, \A n \in 1 .. last : parts[n] \in Seq(Octet)
  PROVE  \E f : /\ f[0] = <<>> /\ \A n \in 1 .. last : f[n] = f[n - 1] \o parts[n]
                /\ \A n \in 0 .. last : f[n] \in Seq(Octet)
                /\ Joined(parts, last) = f[last]
<1> DEFINE Equation(f) == f = [n \in 0 .. last |-> IF n = 0 THEN <<>> ELSE f[n - 1] \o parts[n]]
           f == CHOOSE g : Equation(g)
           G == {n \in 0 .. last : f[n] \in Seq(Octet)}
<1>1. Equation(f)
  <2>1. \E g : Equation(g)
    BY PrefixesExist
  <2> QED
    BY <2>1
<1>2. Joined(parts, last) = f[last]
  BY DEF Joined
<1> HIDE DEF f
<1>3. f[0] = <<>>
  BY <1>1
<1>4. ASSUME NEW n \in 1 .. last
      PROVE  f[n] = f[n - 1] \o parts[n]
  <2>1. n \in 0 .. last /\ n # 0
    OBVIOUS
  <2> QED
    BY <1>1, <2>1
<1> HIDE DEF G
<1>5. ASSUME NEW n \in 0 .. last, \A k \in 0 .. n - 1 : k \in G
      PROVE  n \in G
  <2>1. CASE n = 0
    <3>1. f[n] = <<>> /\ <<>> \in Seq(Octet)
      BY <1>3, <2>1
    <3> QED
      BY <3>1 DEF G
  <2>2. CASE n > 0
    <3>1. PICK below \in 0 .. n - 1 : below = n - 1
      BY <2>2
    <3>2. n \in 1 .. last /\ f[below] \in Seq(Octet)
      BY <1>5, <2>2, <3>1 DEF G
    <3>3. f[n] = f[below] \o parts[n] /\ parts[n] \in Seq(Octet)
      BY <1>4, <3>1, <3>2
    <3>4. f[n] \in Seq(Octet)
      BY <3>2, <3>3
    <3> QED
      BY <3>4 DEF G
  <2> QED
    BY <2>1, <2>2
<1>6. \A n \in 0 .. last : n \in G
  BY <1>5, AllNumbers, Zenon
<1> QED
  BY <1>2, <1>3, <1>4, <1>6 DEF G

(* Parts that were put together stand one behind the other.                *)
LEMMA JoinedLaidOut ==
  ASSUME NEW input \in Seq(Octet), NEW a, NEW b, NEW last \in Nat, NEW parts, \A n \in 1 .. last : parts[n] \in Seq(Octet),
         Spans(input, a, b, Joined(parts, last))
  PROVE  \E pos : Laid_Out(input, pos, parts, last) /\ pos[0] = a /\ pos[last] = b
<1>1. PICK f : /\ f[0] = <<>> /\ \A n \in 1 .. last : f[n] = f[n - 1] \o parts[n]
               /\ \A n \in 0 .. last : f[n] \in Seq(Octet)
               /\ Joined(parts, last) = f[last]
  BY Prefixes
<1>2. PICK start \in Nat : start = a
  BY DEF Spans
<1> DEFINE pos == [n \in 0 .. last |-> start + Len(f[n])]
           G == {j \in 0 .. last : Spans(input, start, pos[last - j], f[last - j])}
<1>3. pos \in [0 .. last -> Nat]
  <2>1. \A n \in 0 .. last : Len(f[n]) \in Nat
    BY <1>1
  <2> QED
    BY <2>1
<1>4. /\ \A n \in 0 .. last : pos[n] = start + Len(f[n])
      /\ pos[0] = start /\ pos[last] = b
  <2>1. start + Len(f[0]) = start /\ 0 \in 0 .. last /\ last \in 0 .. last
    BY <1>1
  <2>2. b = start + Len(f[last])
    BY <1>1, <1>2 DEF Spans
  <2> QED
    BY <2>1, <2>2
<1> HIDE DEF pos
<1>5. ASSUME NEW n \in 1 .. last, Spans(input, start, pos[n], f[n])
      PROVE  Spans(input, start, pos[n - 1], f[n - 1]) /\ Spans(input, pos[n - 1], pos[n], parts[n])
  <2>1. PICK below \in 0 .. last : below = n - 1
    OBVIOUS
  <2>2. f[below] \in Seq(Octet) /\ parts[n] \in Seq(Octet) /\ f[n] = f[below] \o parts[n]
    BY <1>1, <2>1
  <2>3. PICK k \in Nat : /\ k = start + Len(f[below]) /\ Spans(input, start, k, f[below])
                         /\ Spans(input, k, pos[n], parts[n])
    BY <1>5, <2>2, SpansSplit, ZenonT(60)
  <2>4. k = pos[below]
    BY <1>4, <2>3
  <2> QED
    BY <2>1, <2>3, <2>4
<1> HIDE DEF G
<1>6. ASSUME NEW j \in 0 .. last, \A k \in 0 .. j - 1 : k \in G
      PROVE  j \in G
  <2>1. CASE j = 0
    <3>1. last - j = last
      BY <2>1
    <3>2. Spans(input, start, pos[last], f[last])
      BY <1>1, <1>2, <1>4
    <3> QED
      BY <3>1, <3>2 DEF G
  <2>2. CASE j > 0
    <3>1. PICK below \in 0 .. j - 1 : below = j - 1
      BY <2>2
    <3>2. PICK n \in 1 .. last : n = last - below
      BY <2>2, <3>1
    <3>5. n - 1 = last - j
      BY <2>2, <3>1, <3>2
    <3>6. Spans(input, start, pos[n], f[n])
      <4>1. below \in G
        BY <1>6, <3>1
      <4> QED
        BY <3>2, <4>1 DEF G
    <3>3. n - 1 = last - j /\ Spans(input, start, pos[n], f[n])
      BY <3>5, <3>6
    <3>4. Spans(input, start, pos[n - 1], f[n - 1])
      BY <1>5, <3>3
    <3> QED
      BY <3>3, <3>4 DEF G
  <2> QED
    BY <2>1, <2>2
<1>7. \A j \in 0 .. last : j \in G
  BY <1>6, AllNumbers, Zenon
<1>8. ASSUME NEW n \in 1 .. last
      PROVE  Spans(input, pos[n - 1], pos[n], parts[n])
  <2>1. PICK j \in 0 .. last : j = last - n
    OBVIOUS
  <2>2. last - j = n /\ j \in G
    BY <1>7, <2>1
  <2>3. Spans(input, start, pos[n], f[n])
    BY <2>2 DEF G
  <2> QED
    BY <1>5, <2>3
<1>9. Laid_Out(input, pos, parts, last)
  BY <1>3, <1>8 DEF Laid_Out
<1> QED
  BY <1>2, <1>4, <1>9

(* A value behind its length is in the extent that length announces ...    *)
LEMMA ExtentHeld ==
  ASSUME NEW input \in Seq(Octet), Len(input) <= MaxUnsigned, NEW k, NEW b, NEW x \in Seq(Octet),
         Spans(input, k, b, Delimited(x))
  PROVE  \E region \in Regions :
           /\ HoldsExtent(input, k, region) /\ End(region) = b /\ Inside(region, input)
           /\ Spans(input, region.start, End(region), x)
<1>1. PICK n \in Nat, all \in Nat, start \in Nat : n = Len(x) /\ all = Len(input) /\ start = k
  BY DEF Spans
<1>2. PICK digits \in Seq(Octet) : digits = Digits(n)
  BY <1>1, DigitsOctets
<1>3. Delimited(x) = digits \o x
  BY <1>1, <1>2 DEF Delimited
<1>4. Spans(input, k, b, digits \o x)
  BY <1>3
<1>5. PICK at \in Nat : at = k + Len(digits) /\ Spans(input, k, at, digits) /\ Spans(input, at, b, x)
  BY <1>4, SpansSplit
<1>6. b = at + n /\ at + n <= all
  BY <1>1, <1>5 DEF Spans
<1>7. n \in Unsigned
  <2>1. n <= MaxUnsigned /\ MaxUnsigned \in Nat
    BY <1>1, <1>5, <1>6, Limits
  <2> QED
    BY <2>1 DEF Unsigned
<1>8. Encodes(input, k, n) /\ at = k + Unsigned_Size(n)
  BY <1>2, <1>5, <1>7, SpansDigits
<1> DEFINE region == [start |-> at, length |-> n]
<1>9. region \in Regions /\ region.start = at /\ region.length = n
  BY <1>7 DEF Regions
<1>10. HoldsExtent(input, k, region)
  BY <1>8, <1>9 DEF HoldsExtent
<1>11. End(region) = b
  BY <1>6, <1>9 DEF End
<1>12. Inside(region, input)
  BY <1>1, <1>6, <1>9 DEF Inside
<1> QED
  BY <1>5, <1>9, <1>10, <1>11, <1>12

(* ... so that reading the length finds it, and moves on behind it.        *)
Arrives(input, c, region, b, x) ==
  /\ End(region) = b /\ Inside(region, input)
  /\ Spans(input, region.start, End(region), x)
  /\ MovedTo(c, b) \in Cursor_Record /\ Is_Valid(MovedTo(c, b), Len(input))
  /\ MovedTo(c, b).next = b /\ MovedTo(c, b).limit = c.limit

LEMMA SpanGoesOn ==
  ASSUME NEW input, NEW a, NEW b, NEW octets, Spans(input, a, b, octets)
  PROVE  /\ a \in Nat /\ b \in Nat /\ a <= b /\ octets \in Seq(Octet) /\ Len(octets) \in Nat
         /\ b = a + Len(octets) /\ b <= Len(input)
<1>1. octets \in Seq(Octet) /\ a \in Nat /\ b = a + Len(octets) /\ b <= Len(input)
  BY DEF Spans
<1>2. PICK n \in Nat : n = Len(octets)
  BY <1>1
<1> QED
  BY <1>1, <1>2

LEMMA MovesOn ==
  ASSUME NEW input \in Seq(Octet), NEW c \in Cursor_Record, Is_Valid(c, Len(input)),
         NEW b \in Nat, c.next <= b, b <= c.limit
  PROVE  /\ MovedTo(c, b) \in Cursor_Record /\ Is_Valid(MovedTo(c, b), Len(input))
         /\ MovedTo(c, b).next = b /\ MovedTo(c, b).limit = c.limit
<1>1. c.first \in Nat /\ c.next \in Nat /\ c.limit \in Nat /\ c.first <= c.next /\ c.limit <= Len(input)
  BY CursorFields DEF Is_Valid
<1>2. MovedTo(c, b) = [first |-> c.first, next |-> b, limit |-> c.limit]
  BY DEF MovedTo, Cursor
<1>3. MovedTo(c, b) \in Cursor_Record /\ MovedTo(c, b).next = b /\ MovedTo(c, b).limit = c.limit
  BY <1>1, <1>2 DEF Cursor_Record
<1>4. Is_Valid(MovedTo(c, b), Len(input))
  BY <1>1, <1>2 DEF Is_Valid
<1> QED
  BY <1>3, <1>4

LEMMA ExtentArrives ==
  ASSUME NEW input \in Seq(Octet), Len(input) <= MaxUnsigned, NEW c \in Cursor_Record, Is_Valid(c, Len(input)),
         NEW b, NEW x \in Seq(Octet), Spans(input, c.next, b, Delimited(x)), b <= c.limit
  PROVE  \E region \in Regions :
           /\ Read_Extent(input, c) = [status |-> "Read", value |-> region, cursor |-> MovedTo(c, b)]
           /\ Arrives(input, c, region, b, x)
<1>1. PICK region \in Regions :
        /\ HoldsExtent(input, c.next, region) /\ End(region) = b /\ Inside(region, input)
        /\ Spans(input, region.start, End(region), x)
  BY ExtentHeld
<1>2. Read_Extent(input, c) = [status |-> "Read", value |-> region, cursor |-> MovedTo(c, b)]
  BY <1>1, HeldExtentIsRead
<1>3. Arrives(input, c, region, b, x)
  <2>1. /\ MovedTo(c, b) \in Cursor_Record /\ Is_Valid(MovedTo(c, b), Len(input))
        /\ MovedTo(c, b).next = b /\ MovedTo(c, b).limit = c.limit
    <3>1. b \in Nat /\ c.next <= b
      BY SpanGoesOn
    <3> QED
      BY <3>1, MovesOn
  <2> QED
    BY <1>1, <2>1 DEF Arrives
<1> QED
  BY <1>2, <1>3

LEMMA HeaderArrives ==
  ASSUME NEW input \in Seq(Octet), Len(input) <= MaxUnsigned, NEW c \in Cursor_Record, Is_Valid(c, Len(input)),
         NEW previous \in Nat, NEW tag \in Field_Tag, tag > previous,
         NEW b, NEW x \in Seq(Octet), Spans(input, c.next, b, Digits(tag) \o Delimited(x)), b <= c.limit
  PROVE  \E region \in Regions :
           /\ Read_Field_Header(input, c, previous) =
                [status |-> "Read", tag |-> tag, value |-> region, cursor |-> MovedTo(c, b), previous |-> tag]
           /\ Arrives(input, c, region, b, x)
<1>1. tag \in Unsigned /\ tag \in Nat
  BY Limits, TagAssumption DEF Field_Tag, Unsigned
<1>2. PICK digits \in Seq(Octet), rest \in Seq(Octet) : digits = Digits(tag) /\ rest = Delimited(x)
  <2>1. Digits(tag) \in Seq(Octet) /\ Digits(Len(x)) \in Seq(Octet)
    BY <1>1, DigitsOctets
  <2>2. Delimited(x) \in Seq(Octet)
    BY <2>1 DEF Delimited
  <2> QED
    BY <2>1, <2>2
<1>3. PICK at \in Nat : at = c.next + Len(digits) /\ Spans(input, c.next, at, digits) /\ Spans(input, at, b, rest)
  BY <1>2, SpansSplit
<1>4. Encodes(input, c.next, tag) /\ at = c.next + Unsigned_Size(tag)
  BY <1>1, <1>2, <1>3, SpansDigits
<1>5. PICK region \in Regions :
        /\ HoldsExtent(input, at, region) /\ End(region) = b /\ Inside(region, input)
        /\ Spans(input, region.start, End(region), x)
  BY <1>2, <1>3, ExtentHeld
<1>6. HoldsHeader(input, c.next, tag, region)
  BY <1>4, <1>5 DEF HoldsHeader
<1>7. Read_Field_Header(input, c, previous) =
        [status |-> "Read", tag |-> tag, value |-> region, cursor |-> MovedTo(c, b), previous |-> tag]
  BY <1>1, <1>5, <1>6, HeldHeaderIsRead
<1>8. Arrives(input, c, region, b, x)
  <2>1. /\ MovedTo(c, b) \in Cursor_Record /\ Is_Valid(MovedTo(c, b), Len(input))
        /\ MovedTo(c, b).next = b /\ MovedTo(c, b).limit = c.limit
    <3>1. b \in Nat /\ c.next <= b
      BY SpanGoesOn
    <3> QED
      BY <3>1, MovesOn
  <2> QED
    BY <1>5, <2>1 DEF Arrives
<1> QED
  BY <1>7, <1>8

(* An integer stands where its digits do, and is all that is left there.   *)
LEMMA DigitsArrive ==
  ASSUME NEW input \in Seq(Octet), NEW c \in Cursor_Record, Is_Valid(c, Len(input)),
         NEW v \in Unsigned, NEW b, Spans(input, c.next, b, Digits(v)), b <= c.limit
  PROVE  Read_Unsigned(input, c) = [status |-> "Read", value |-> v, cursor |-> MovedTo(c, b)]
<1>1. Encodes(input, c.next, v) /\ b = c.next + Unsigned_Size(v)
  BY SpansDigits
<1>2. c.first \in Nat /\ c.next \in Nat /\ c.limit \in Nat
  BY CursorFields
<1>3. PICK size \in Nat : size = Unsigned_Size(v)
  BY SizeOfUnsigned
<1>4. Remaining(c) = c.limit - c.next
  BY DEF Remaining
<1>5. size <= Remaining(c)
  BY <1>1, <1>2, <1>3, <1>4
<1>6. Read_Unsigned(input, c) = [status |-> "Read", value |-> v, cursor |-> Advance(c, size)]
  BY <1>1, <1>3, <1>5, EncodedIsRead
<1>7. Advance(c, size) = MovedTo(c, b)
  BY <1>1, <1>3 DEF Advance, MovedTo
<1> QED
  BY <1>6, <1>7

LEMMA DelimitedOctets ==
  ASSUME NEW x \in Seq(Octet), NEW tag \in Field_Tag
  PROVE  /\ Delimited(x) \in Seq(Octet)
         /\ Digits(tag) \o Delimited(x) \in Seq(Octet)
         /\ Len(Digits(tag) \o Delimited(x)) > 0
<1>1. tag \in Nat /\ Len(x) \in Nat
  BY Limits DEF Field_Tag
<1>2. PICK p \in Seq(Octet), q \in Seq(Octet) : p = Digits(tag) /\ q = Digits(Len(x)) /\ Len(p) > 0
  <2>1. Digits(tag) \in Seq(Octet) /\ Len(Digits(tag)) > 0
    <3>1. PICK size \in Nat : size = Unsigned_Size(tag) /\ size > 0
      BY SizeOfAny, Limits
    <3> QED
      BY <1>1, <3>1, DigitsOctets
  <2>2. Digits(Len(x)) \in Seq(Octet)
    BY <1>1, DigitsOctets
  <2> QED
    BY <2>1, <2>2
<1>3. PICK r \in Seq(Octet) : r = Delimited(x)
  <2>1. q \o x \in Seq(Octet)
    BY <1>2
  <2>2. Delimited(x) = q \o x
    BY <1>2 DEF Delimited
  <2> QED
    BY <2>1, <2>2
<1>4. p \o r \in Seq(Octet) /\ Len(p \o r) > 0
  BY <1>2, <1>3
<1> QED
  BY <1>2, <1>3, <1>4

LEMMA PartsOctets ==
  ASSUME NEW octets, \A t \in DOMAIN octets : octets[t] \in Seq(Octet)
  PROVE  /\ \A t \in Field_Tag : Tagged_Parts(octets)[t] \in Seq(Octet)
         /\ \A t \in Field_Tag : t \in DOMAIN octets =>
              Tagged_Parts(octets)[t] = Digits(t) \o Delimited(octets[t])
         /\ \A t \in Field_Tag : t \notin DOMAIN octets => Tagged_Parts(octets)[t] = <<>>
<1>1. ASSUME NEW t \in Field_Tag
      PROVE  /\ t \in DOMAIN octets => Tagged_Parts(octets)[t] = Digits(t) \o Delimited(octets[t])
             /\ t \notin DOMAIN octets => Tagged_Parts(octets)[t] = <<>>
  BY DEF Tagged_Parts, Field_Tag
<1>2. ASSUME NEW t \in Field_Tag
      PROVE  Tagged_Parts(octets)[t] \in Seq(Octet)
  <2>1. CASE t \in DOMAIN octets
    <3>1. Digits(t) \o Delimited(octets[t]) \in Seq(Octet)
      BY <2>1, DelimitedOctets
    <3> QED
      BY <1>1, <2>1, <3>1
  <2>2. CASE t \notin DOMAIN octets
    <3>1. <<>> \in Seq(Octet)
      OBVIOUS
    <3> QED
      BY <1>1, <2>2, <3>1
  <2> QED
    BY <2>1, <2>2
<1> QED
  BY <1>1, <1>2

LEMMA JoinedOctets ==
  ASSUME NEW last \in Nat, NEW parts, \A n \in 1 .. last : parts[n] \in Seq(Octet)
  PROVE  Joined(parts, last) \in Seq(Octet)
<1>1. PICK f : (\A n \in 0 .. last : f[n] \in Seq(Octet)) /\ Joined(parts, last) = f[last]
  BY Prefixes
<1>2. last \in 0 .. last
  OBVIOUS
<1> QED
  BY <1>1, <1>2

(* Between parts that are empty nothing moves.                             *)
LEMMA PartsIdle ==
  ASSUME NEW input, NEW last \in Nat, last = MaxFieldTag,
         NEW pos, NEW octets, \A t \in DOMAIN octets : octets[t] \in Seq(Octet),
         Laid_Out(input, pos, Tagged_Parts(octets), last),
         NEW low \in 0 .. last, NEW high \in 0 .. last, low <= high,
         \A k \in low + 1 .. high : k \notin DOMAIN octets
  PROVE  pos[low] = pos[high]
<1> DEFINE G == {j \in 0 .. high - low : pos[low + j] = pos[low]}
<1> HIDE DEF G
<1>1. ASSUME NEW j \in 0 .. high - low, \A k \in 0 .. j - 1 : k \in G
      PROVE  j \in G
  <2>1. CASE j = 0
    <3>1. low + j = low
      BY <2>1
    <3> QED
      BY <3>1 DEF G
  <2>2. CASE j > 0
    <3>1. PICK below \in 0 .. j - 1 : below = j - 1
      BY <2>2
    <3>2. PICK n \in 1 .. last : n = low + j
      BY <2>2
    <3>3. n - 1 = low + below /\ n \in low + 1 .. high
      BY <2>2, <3>1, <3>2
    <3>4. pos[n - 1] = pos[low]
      <4>1. below \in G
        BY <1>1, <3>1
      <4> QED
        BY <3>3, <4>1 DEF G
    <3>5. Spans(input, pos[n - 1], pos[n], <<>>)
      <4>1. n \in Field_Tag /\ n \notin DOMAIN octets
        BY <3>2, <3>3 DEF Field_Tag
      <4>2. Tagged_Parts(octets)[n] = <<>>
        BY <4>1, PartsOctets
      <4> QED
        BY <4>2 DEF Laid_Out
    <3>6. pos[n] = pos[n - 1]
      <4>1. Len(<<>>) = 0
        OBVIOUS
      <4>2. pos[n - 1] \in Nat /\ pos[n] = pos[n - 1] + 0
        BY <3>5, <4>1, SpanGoesOn
      <4> QED
        BY <4>2
    <3> QED
      BY <3>2, <3>4, <3>6 DEF G
  <2> QED
    BY <2>1, <2>2
<1>2. high - low \in Nat
  OBVIOUS
<1>3. \A j \in 0 .. high - low : j \in G
  BY <1>1, <1>2, AllNumbers, Zenon
<1>4. high - low \in 0 .. high - low /\ low + (high - low) = high
  BY <1>2
<1> QED
  BY <1>3, <1>4 DEF G

(* Fields that stand up to stop, of which those up to a tag end at at.     *)
Comes_To(input, octets, previous, at, stop) ==
  /\ previous \in Tag_Number /\ DOMAIN octets \subseteq Field_Tag
  /\ \A t \in DOMAIN octets : octets[t] \in Seq(Octet)
  /\ \E pos : /\ Laid_Out(input, pos, Tagged_Parts(octets), MaxFieldTag)
              /\ pos[previous] = at /\ pos[MaxFieldTag] = stop

LEMMA TagsBegin ==
  ASSUME NEW input \in Seq(Octet), NEW start, NEW stop, NEW octets, DOMAIN octets \subseteq Field_Tag,
         \A t \in DOMAIN octets : octets[t] \in Seq(Octet),
         Spans(input, start, stop, Joined(Tagged_Parts(octets), MaxFieldTag))
  PROVE  Comes_To(input, octets, No_Tag, start, stop)
<1>1. PICK top \in Nat : top = MaxFieldTag
  BY Limits
<1>2. \A t \in 1 .. top : Tagged_Parts(octets)[t] \in Seq(Octet)
  BY <1>1, PartsOctets DEF Field_Tag
<1>3. \E pos : Laid_Out(input, pos, Tagged_Parts(octets), top) /\ pos[0] = start /\ pos[top] = stop
  BY <1>1, <1>2, JoinedLaidOut
<1>4. No_Tag \in Tag_Number
  BY <1>1 DEF No_Tag, Tag_Number
<1> QED
  BY <1>1, <1>3, <1>4 DEF Comes_To, No_Tag

(* The next field is the one with the next tag ...                         *)
LEMMA NextTag ==
  ASSUME NEW input \in Seq(Octet), NEW octets, NEW previous, NEW at, NEW stop,
         Comes_To(input, octets, previous, at, stop), at # stop
  PROVE  \E t \in DOMAIN octets :
           /\ t > previous /\ \A k \in DOMAIN octets : k > previous => t <= k
           /\ \E next : /\ Spans(input, at, next, Digits(t) \o Delimited(octets[t])) /\ next <= stop
                        /\ Comes_To(input, octets, t, next, stop)
<1>1. PICK top \in Nat : top = MaxFieldTag
  BY Limits
<1>2. /\ previous \in 0 .. top /\ DOMAIN octets \subseteq 1 .. top /\ Field_Tag = 1 .. top
      /\ \A t \in DOMAIN octets : octets[t] \in Seq(Octet)
  BY <1>1 DEF Comes_To, Field_Tag, Tag_Number
<1>3. PICK pos : /\ Laid_Out(input, pos, Tagged_Parts(octets), top) /\ pos[previous] = at /\ pos[top] = stop
  BY <1>1 DEF Comes_To
<1> DEFINE T == {k \in DOMAIN octets : k > previous}
<1>4. T # {}
  <2>1. SUFFICES ASSUME T = {}
                 PROVE  FALSE
    OBVIOUS
  <2>2. \A k \in previous + 1 .. top : k \notin DOMAIN octets
    BY <1>2, <2>1
  <2>3. top \in 0 .. top /\ previous <= top
    BY <1>2
  <2>4. pos[previous] = pos[top]
    BY <1>1, <1>2, <1>3, <2>2, <2>3, PartsIdle
  <2> QED
    BY <1>3, <2>4
<1>5. T \subseteq Nat
  BY <1>2
<1>6. PICK t \in T : \A k \in T : t <= k
  BY <1>4, <1>5, LeastNumber
<1>7. t \in DOMAIN octets /\ t \in 1 .. top /\ t > previous
  BY <1>2, <1>6
<1>8. PICK below \in 0 .. top : below = t - 1
  BY <1>7
<1>9. pos[below] = at
  <2>1. \A k \in previous + 1 .. below : k \notin DOMAIN octets
    <3> SUFFICES ASSUME NEW k \in previous + 1 .. below, k \in DOMAIN octets
                 PROVE  FALSE
      OBVIOUS
    <3>1. previous \in Nat /\ k \in Nat /\ t \in Nat
      BY <1>1, <1>2, <1>7
    <3>2. k > previous /\ ~ (t <= k)
      BY <1>1, <1>7, <1>8, <3>1
    <3> QED
      BY <1>6, <3>2
  <2>2. previous <= below
    BY <1>2, <1>7, <1>8
  <2>3. pos[previous] = pos[below]
    BY <1>1, <1>2, <1>3, <1>8, <2>1, <2>2, PartsIdle, SMTT(60)
  <2> QED
    BY <1>3, <2>3
<1>10. Spans(input, at, pos[t], Digits(t) \o Delimited(octets[t]))
  <2>1. Spans(input, pos[t - 1], pos[t], Tagged_Parts(octets)[t])
    BY <1>3, <1>7 DEF Laid_Out
  <2>2. Tagged_Parts(octets)[t] = Digits(t) \o Delimited(octets[t])
    BY <1>2, <1>7, PartsOctets
  <2> QED
    BY <1>8, <1>9, <2>1, <2>2
<1>11. pos[t] <= stop
  <2>1. top \in 0 .. top /\ t \in 0 .. top
    BY <1>7
  <2>2. pos[t] <= pos[top]
    BY <1>3, <2>1, PartsInOrder
  <2> QED
    BY <1>3, <2>2
<1>12. Comes_To(input, octets, t, pos[t], stop)
  <2>1. t \in Tag_Number
    BY <1>1, <1>7 DEF Tag_Number
  <2>2. DOMAIN octets \subseteq Field_Tag
    BY <1>2
  <2> QED
    BY <1>1, <1>2, <1>3, <2>1, <2>2 DEF Comes_To
<1>13. \A k \in DOMAIN octets : k > previous => t <= k
  BY <1>6
<1> QED
  BY <1>7, <1>10, <1>11, <1>12, <1>13

(* ... and where they all end there is none left.                          *)
LEMMA NoTagLeft ==
  ASSUME NEW input \in Seq(Octet), NEW octets, NEW previous, NEW at,
         Comes_To(input, octets, previous, at, at), NEW t \in DOMAIN octets
  PROVE  t <= previous
<1>1. PICK top \in Nat : top = MaxFieldTag
  BY Limits
<1>2. /\ previous \in 0 .. top /\ DOMAIN octets \subseteq 1 .. top /\ Field_Tag = 1 .. top
      /\ \A k \in DOMAIN octets : octets[k] \in Seq(Octet)
  BY <1>1 DEF Comes_To, Field_Tag, Tag_Number
<1>3. PICK pos : /\ Laid_Out(input, pos, Tagged_Parts(octets), top) /\ pos[previous] = at /\ pos[top] = at
  BY <1>1 DEF Comes_To
<1>4. SUFFICES ASSUME t > previous
               PROVE  FALSE
  BY <1>2
<1>5. t \in 1 .. top
  BY <1>2
<1>6. PICK below \in 0 .. top : below = t - 1
  BY <1>5
<1>7. Spans(input, pos[below], pos[t], Digits(t) \o Delimited(octets[t]))
  <2>1. Spans(input, pos[t - 1], pos[t], Tagged_Parts(octets)[t])
    BY <1>3, <1>5 DEF Laid_Out
  <2>2. Tagged_Parts(octets)[t] = Digits(t) \o Delimited(octets[t])
    BY <1>2, <1>5, PartsOctets
  <2> QED
    BY <1>6, <2>1, <2>2
<1>8. Len(Digits(t) \o Delimited(octets[t])) > 0
  BY <1>2, <1>5, DelimitedOctets
<1>9. PICK n \in Nat, a \in Nat, b \in Nat : n > 0 /\ a = pos[below] /\ b = pos[t] /\ b = a + n
  <2>1. PICK x, a, b : x = Digits(t) \o Delimited(octets[t]) /\ a = pos[below] /\ b = pos[t]
    OBVIOUS
  <2>2. Spans(input, a, b, x) /\ Len(x) > 0
    BY <1>7, <1>8, <2>1
  <2>3. a \in Nat /\ b \in Nat /\ Len(x) \in Nat /\ b = a + Len(x)
    BY <2>2, SpanGoesOn
  <2> QED
    BY <2>1, <2>2, <2>3
<1>10. previous \in 0 .. below /\ t \in 0 .. top /\ top \in 0 .. top
  BY <1>2, <1>4, <1>5, <1>6
<1>11. pos[previous] <= pos[below] /\ pos[previous] \in Nat
  BY <1>3, <1>10, PartsInOrder
<1>12. pos[t] <= pos[top]
  BY <1>3, <1>10, PartsInOrder
<1> QED
  BY <1>3, <1>9, <1>11, <1>12, SMTT(60)

-----------------------------------------------------------------------------

(* Places of two and of three tags. *)
LEMMA AppendToOne ==
  ASSUME NEW a, NEW b
  PROVE  Append(<<a>>, b) = <<a, b>>
<1> DEFINE left  == Append(<<a>>, b)
           right == <<a, b>>
<1>1. <<a>> \in Seq({a, b}) /\ left \in Seq({a, b}) /\ right \in Seq({a, b})
  OBVIOUS
<1>2. Len(left) = 2 /\ Len(right) = 2
  BY <1>1
<1>3. left[1] = a /\ left[2] = b
  BY <1>1
<1>4. right[1] = a /\ right[2] = b
  OBVIOUS
<1> HIDE DEF left, right
<1>5. \A i \in 1 .. 2 : left[i] = right[i]
  BY <1>3, <1>4
<1>6. left = right
  BY <1>1, <1>2, <1>5
<1> QED
  BY <1>6 DEF left, right

LEMMA AppendToTwo ==
  ASSUME NEW a, NEW b, NEW c
  PROVE  Append(<<a, b>>, c) = <<a, b, c>>
<1> DEFINE left  == Append(<<a, b>>, c)
           right == <<a, b, c>>
<1>1. <<a, b>> \in Seq({a, b, c}) /\ left \in Seq({a, b, c}) /\ right \in Seq({a, b, c})
  OBVIOUS
<1>2. Len(left) = 3 /\ Len(right) = 3
  BY <1>1
<1>3. left[1] = a /\ left[2] = b /\ left[3] = c
  BY <1>1
<1>4. right[1] = a /\ right[2] = b /\ right[3] = c
  OBVIOUS
<1> HIDE DEF left, right
<1>5. \A i \in 1 .. 3 : left[i] = right[i]
  BY <1>3, <1>4
<1>6. left = right
  BY <1>1, <1>2, <1>5
<1> QED
  BY <1>6 DEF left, right

Core_Parts == {"status", "output", "cursor"}

LEMMA HeaderParts ==
  /\ \A output, c, length : Core_Parts \subseteq DOMAIN Write_Length_Delimited(output, c, length)
  /\ \A output, c, previous, tag, length :
       Core_Parts \cup {"previous"} \subseteq DOMAIN Write_Field_Header(output, c, previous, tag, length)
<1>1. \A output, c, length : Core_Parts \subseteq DOMAIN Write_Length_Delimited(output, c, length)
  BY DEF Write_Length_Delimited, Core_Parts
<1>2. \A output, c, previous, tag, length :
        Core_Parts \cup {"previous"} \subseteq DOMAIN Write_Field_Header(output, c, previous, tag, length)
  BY DEF Write_Field_Header, Core_Parts
<1> QED
  BY <1>1, <1>2

(* The room a header reserves is given to its value whole ... *)
Opened(n, c, header, size, length) ==
  \E inner \in Cursor_Record :
    /\ Inside(header.value, header.output)
    /\ inner = Initialize(header.output, header.value).cursor
    /\ inner.next = c.next + size
    /\ Is_Valid(inner, n) /\ Remaining(inner) = length

LEMMA Opening ==
  ASSUME NEW n \in Nat, NEW before \in [1 .. n -> Octet], NEW c \in Cursor_Record, Is_Valid(c, n),
         NEW size \in Nat, NEW length \in Nat, NEW header,
         Stores(n, before, c, header, size, size + length),
         header.value = Extent(c.next + size, length)
  PROVE  Opened(n, c, header, size, length)
<1> PICK next \in Nat, limit \in Nat : next = c.next /\ limit = c.limit
  BY CursorFields
<1>1. size + length <= limit - next /\ limit <= n /\ header.output \in [1 .. n -> Octet]
  BY CursorFields DEF Stores, Is_Valid
<1>2. Len(header.output) = n
  BY <1>1, LengthOf
<1>3. header.value = [start |-> next + size, length |-> length]
  BY DEF Extent
<1>4. Inside(header.value, header.output)
  <2>1. next + size <= n /\ length <= n - (next + size)
    BY <1>1, SMTT(60)
  <2>2. header.value.start = next + size /\ header.value.length = length
    BY <1>3
  <2> QED
    BY <1>2, <2>1, <2>2 DEF Inside
<1> DEFINE inner == [first |-> next + size, next |-> next + size, limit |-> next + size + length]
<1>5. Initialize(header.output, header.value).cursor = inner
  BY <1>3, <1>4 DEF Initialize, Cursor
<1>6. inner \in Cursor_Record
  BY SMTT(60) DEF Cursor_Record
<1>7. Is_Valid(inner, n)
  BY <1>1, SMTT(60) DEF Is_Valid
<1>8. Remaining(inner) = length
  BY DEF Remaining
<1> QED
  BY <1>4, <1>5, <1>6, <1>7, <1>8 DEF Opened

Need(t, size) == Unsigned_Size(t) + Unsigned_Size(size) + size

Adds_Up(upto, sizes, total) ==
  /\ upto \in [0 .. MaxFieldTag -> Nat]
  /\ upto[0] = 0 /\ upto[MaxFieldTag] = total
  /\ \A t \in Field_Tag :
       upto[t] = IF t \in DOMAIN sizes THEN upto[t - 1] + Need(t, sizes[t].size) ELSE upto[t - 1]

LEMMA Accumulation ==
  ASSUME NEW total \in Nat, NEW amount \in Nat
  PROVE  \/ Sizes_Accumulate(total, amount) = Computed(total + amount)
         \/ Sizes_Accumulate(total, amount) = Overflow(total)
BY DEF Sizes_Accumulate, Sizes_Add, Computed, Overflow

LEMMA FieldMeasured ==
  ASSUME NEW t, NEW size \in Nat
  PROVE  \/ Measure_Field(t, size) = Computed(Need(t, size))
         \/ Measure_Field(t, size) = Overflow(0)
<1> PICK a \in Nat, b \in Nat : a = Unsigned_Size(t) /\ b = Unsigned_Size(size)
  BY SizeOfAny, ProfileAssumption
<1>1. CASE Sizes_Accumulate(size, a) = Overflow(size)
  BY <1>1 DEF Measure_Field, Overflow, Measured
<1>2. CASE Sizes_Accumulate(size, a) = Computed(size + a)
  <2>1. Measure_Field(t, size) = Measured(Sizes_Accumulate(size + a, b))
    BY <1>2 DEF Measure_Field, Computed
  <2>2. size + a \in Nat /\ Need(t, size) = (size + a) + b
    BY DEF Need
  <2>3. \/ Sizes_Accumulate(size + a, b) = Computed((size + a) + b)
        \/ Sizes_Accumulate(size + a, b) = Overflow(size + a)
    BY <2>2, Accumulation
  <2> QED
    BY <2>1, <2>2, <2>3 DEF Computed, Overflow, Measured
<1> QED
  BY <1>1, <1>2, Accumulation

LEMMA DelimitedMeasured ==
  ASSUME NEW size \in Nat
  PROVE  \/ Measure_Length_Delimited(size) = Computed(Unsigned_Size(size) + size)
         \/ Measure_Length_Delimited(size) = Overflow(0)
<1> PICK b \in Nat : b = Unsigned_Size(size)
  BY SizeOfAny, ProfileAssumption
<1>1. \/ Sizes_Accumulate(size, b) = Computed(size + b)
      \/ Sizes_Accumulate(size, b) = Overflow(size)
  BY Accumulation
<1>2. size + b = b + size
  OBVIOUS
<1> QED
  BY <1>1, <1>2 DEF Measure_Length_Delimited, Computed, Overflow, Measured

(* Sums grow, by the fields there are.                                     *)
LEMMA SumsGrow ==
  ASSUME NEW upto, NEW sizes, NEW total, Adds_Up(upto, sizes, total),
         DOMAIN sizes \subseteq Field_Tag, \A t \in DOMAIN sizes : sizes[t].size \in Nat
  PROVE  \A low, high \in 0 .. MaxFieldTag :
           low <= high =>
             /\ upto[low] <= upto[high]
             /\ (\A t \in DOMAIN sizes : ~ (low < t /\ t <= high)) => upto[low] = upto[high]
<1> SUFFICES ASSUME NEW low \in 0 .. MaxFieldTag
             PROVE  \A high \in 0 .. MaxFieldTag :
                      low <= high =>
                        /\ upto[low] <= upto[high]
                        /\ (\A t \in DOMAIN sizes : ~ (low < t /\ t <= high)) => upto[low] = upto[high]
  OBVIOUS
<1>1. MaxFieldTag \in Nat /\ upto \in [0 .. MaxFieldTag -> Nat]
  BY Limits DEF Adds_Up
<1> DEFINE Clear(high) == \A t \in DOMAIN sizes : ~ (low < t /\ t <= high)
           Grown(high) == low <= high => upto[low] <= upto[high] /\ (Clear(high) => upto[low] = upto[high])
           G == {high \in 0 .. MaxFieldTag : Grown(high)}
<1>2. ASSUME NEW high \in 0 .. MaxFieldTag, \A m \in 0 .. high - 1 : m \in G
      PROVE  high \in G
  <2>1. CASE high <= low
    <3>1. low <= high => low = high
      BY <1>1, <2>1
    <3> QED
      BY <1>1, <3>1
  <2>2. CASE low < high
    <3> PICK below \in 0 .. MaxFieldTag : below = high - 1
      BY <1>1, <2>2
    <3>1. below \in G /\ low <= below /\ high \in Field_Tag
      BY <1>1, <1>2, <2>2, SMTT(60) DEF Field_Tag
    <3>2. upto[low] <= upto[below] /\ (Clear(below) => upto[low] = upto[below])
      BY <3>1
    <3>3. upto[high] = IF high \in DOMAIN sizes THEN upto[below] + Need(high, sizes[high].size) ELSE upto[below]
      <4>1. upto[high] = IF high \in DOMAIN sizes THEN upto[high - 1] + Need(high, sizes[high].size) ELSE upto[high - 1]
        BY <3>1 DEF Adds_Up
      <4> QED
        BY <4>1
    <3>4. Clear(high) => Clear(below) /\ high \notin DOMAIN sizes
      <4> SUFFICES ASSUME Clear(high)
                   PROVE  Clear(below) /\ high \notin DOMAIN sizes
        OBVIOUS
      <4>1. low \in Int /\ high \in Int /\ low < high /\ high <= high
        BY <1>1, <2>2
      <4>2. high \notin DOMAIN sizes
        BY <4>1
      <4>3. ASSUME NEW t \in DOMAIN sizes, low < t, t <= below
            PROVE  FALSE
        <5>1. t \in Field_Tag
          OBVIOUS
        <5> QED
          BY <4>1, <4>3, <5>1, <1>1 DEF Field_Tag
      <4> QED
        BY <4>2, <4>3
    <3>5. high \in DOMAIN sizes => Need(high, sizes[high].size) \in Nat
      BY <3>1, SizeOfAny, ProfileAssumption DEF Need
    <3> HIDE DEF Clear
    <3>6. upto[low] \in Nat /\ upto[below] \in Nat
      BY <1>1
    <3>7. upto[low] <= upto[high] /\ (Clear(high) => upto[low] = upto[high])
      BY <3>2, <3>3, <3>4, <3>5, <3>6
    <3> QED
      BY <3>7
  <2> QED
    BY <1>1, <2>1, <2>2
<1> HIDE DEF G
<1>3. \A high \in 0 .. MaxFieldTag : high \in G
  BY <1>1, <1>2, AllNumbers
<1> QED
  BY <1>3 DEF G

(* One component, not the first, is replaced.                              *)
LEMMA ReplacedAt ==
  ASSUME NEW n \in Nat, NEW f \in [1 .. n -> Int], NEW s \in 2 .. n, NEW v \in Int,
         NEW g, g = [f EXCEPT ![s] = v]
  PROVE  /\ g \in [1 .. n -> Int] /\ g[1] = f[1] /\ g[s] = v
         /\ \A i \in 1 .. n : i # s => g[i] = f[i]
  OBVIOUS

(* A value behind its length, and a field.  Need: what each takes.         *)
Length_And(size) == Unsigned_Size(size) + size

Headed(n, before, c, header, tag, length) ==
  \E size \in Nat :
    /\ size = Unsigned_Size(tag) + Unsigned_Size(length) /\ Need(tag, length) = size + length
    /\ size + length <= Remaining(c)
    /\ Stores(n, before, c, header, size, size + length) /\ header.value = Extent(c.next + size, length)
    /\ header.previous = tag

LEMMA HeaderStored ==
  ASSUME NEW n \in Nat, NEW before \in [1 .. n -> Octet], NEW c \in Cursor_Record, Is_Valid(c, n),
         NEW previous \in Nat, NEW tag \in Nat, previous < tag,
         NEW length \in Nat, Need(tag, length) <= Remaining(c),
         NEW header, header = Write_Field_Header(before, c, previous, tag, length)
  PROVE  Headed(n, before, c, header, tag, length)
<1> DEFINE size == Unsigned_Size(tag) + Unsigned_Size(length)
<1>1. size \in Nat
  <2>1. Unsigned_Size(tag) \in Nat /\ Unsigned_Size(length) \in Nat
    BY SizeOfAny, ProfileAssumption
  <2> QED
    BY <2>1
<1>2. Need(tag, length) = size + length
  BY DEF Need
<1>3. size + length <= Remaining(c)
  BY <1>2
<1>4. /\ Stores(n, before, c, header, size, size + length)
      /\ header.value = Extent(c.next + size, length)
      /\ header.previous = tag
  <2>1. header = Write_Field_Header(before, c, previous, tag, length)
    OBVIOUS
  <2>2. size = Unsigned_Size(tag) + Unsigned_Size(length)
    OBVIOUS
  <2> HIDE DEF size
  <2> QED
    BY <1>3, <2>1, <2>2, FieldStored
<1> HIDE DEF size
<1>5. size = Unsigned_Size(tag) + Unsigned_Size(length)
  BY DEF size
<1> QED
  BY <1>1, <1>2, <1>3, <1>4, <1>5, Zenon DEF Headed

(* A header with its octets, and a value that fills the room behind them.  *)
Heads(n, before, c, header, size, length, h) ==
  /\ Core_Parts \subseteq DOMAIN header
  /\ Stores(n, before, c, header, size, size + length)
  /\ header.value = Extent(c.next + size, length)
  /\ Spans(header.output, c.next, c.next + size, h)

LEMMA FieldHeads ==
  ASSUME NEW n \in Nat, NEW before \in [1 .. n -> Octet], NEW c \in Cursor_Record, Is_Valid(c, n),
         NEW previous \in Nat, NEW tag \in Nat, previous < tag,
         NEW length \in Nat, Need(tag, length) <= Remaining(c),
         NEW header, header = Write_Field_Header(before, c, previous, tag, length)
  PROVE  \E size \in Nat : /\ Need(tag, length) = size + length
                           /\ Heads(n, before, c, header, size, length, Digits(tag) \o Digits(length))
<1>1. PICK size \in Nat :
           /\ size = Unsigned_Size(tag) + Unsigned_Size(length) /\ Need(tag, length) = size + length
           /\ size + length <= Remaining(c)
           /\ Stores(n, before, c, header, size, size + length) /\ header.value = Extent(c.next + size, length)
           /\ header.previous = tag
  <2>1. Headed(n, before, c, header, tag, length)
    BY HeaderStored
  <2> QED
    BY <2>1, Zenon DEF Headed
<1> PICK next \in Nat, limit \in Nat : next = c.next /\ limit = c.limit
  BY CursorFields
<1>2. Remaining(c) = limit - next /\ Is_Valid(c, Len(before)) /\ limit <= n
  BY CursorFields, LengthOf DEF Is_Valid
<1>3. size <= limit - next /\ length <= limit - next - size
  BY <1>1, <1>2, SMTT(60)
<1>4. header.output = Put_Unsigned(Put_Unsigned(before, next, tag), next + Unsigned_Size(tag), length)
  <2>1. tag # No_Tag /\ ~ (tag <= previous)
    BY DEF No_Tag
  <2>2. Has_Room(before, c, size, length)
    BY <1>2, <1>3 DEF Has_Room
  <2> QED
    BY <1>1, <2>1, <2>2 DEF Write_Field_Header
<1>5. Spans(header.output, next, next + size, Digits(tag) \o Digits(length))
  <2>1. next + size <= n /\ size = Unsigned_Size(tag) + Unsigned_Size(length)
    BY <1>1, <1>2, <1>3, SMTT(60)
  <2> QED
    BY <1>4, <2>1, HeaderDigits, Zenon
<1>6. Core_Parts \subseteq DOMAIN header
  BY HeaderParts
<1> QED
  BY <1>1, <1>5, <1>6 DEF Heads

LEMMA OneInSequence ==
  ASSUME NEW content \in Seq(Int), Len(content) = 1
  PROVE  content = <<content[1]>> /\ content[1] \in Int
<1>1. PICK n \in Int : n = content[1]
  <2>1. 1 \in 1 .. Len(content)
    OBVIOUS
  <2>2. content[1] \in Int
    BY <2>1
  <2> QED
    BY <2>2
<1>2. <<n>> \in Seq(Int) /\ Len(<<n>>) = 1 /\ <<n>>[1] = n
  OBVIOUS
<1>3. \A i \in 1 .. Len(content) : content[i] = <<n>>[i]
  BY <1>1, <1>2
<1>4. content = <<n>>
  BY <1>2, <1>3, SameSequence
<1> QED
  BY <1>1, <1>4

LEMMA SameSpan ==
  ASSUME NEW input \in Seq(Octet), NEW a, NEW b, NEW x, NEW y, Spans(input, a, b, x), Spans(input, a, b, y)
  PROVE  x = y
BY SpansOne

(* Parts that are not empty take an octet each.                           *)
LEMMA PartsTakeRoom ==
  ASSUME NEW input \in Seq(Octet), NEW last \in Nat, NEW pos, NEW parts, Laid_Out(input, pos, parts, last),
         \A n \in 1 .. last : Len(parts[n]) > 0, pos[last] <= Len(input)
  PROVE  last <= Len(input)
<1> DEFINE G == {n \in 0 .. last : n <= pos[n]}
<1> HIDE DEF G
<1>1. pos \in [0 .. last -> Nat]
  BY DEF Laid_Out
<1>2. ASSUME NEW n \in 0 .. last, \A k \in 0 .. n - 1 : k \in G
      PROVE  n \in G
  <2>1. pos[n] \in Nat
    BY <1>1
  <2>2. CASE n = 0
    BY <2>1, <2>2 DEF G
  <2>3. CASE n > 0
    <3>1. PICK below \in 0 .. n - 1 : below = n - 1
      BY <2>3
    <3>2. below <= pos[below]
      BY <1>2, <3>1 DEF G
    <3>3. n \in 1 .. last
      BY <2>3
    <3>4. Spans(input, pos[below], pos[n], parts[n]) /\ Len(parts[n]) > 0
      BY <3>1, <3>3 DEF Laid_Out
    <3>5. PICK x, a : x = parts[n] /\ a = pos[below]
      OBVIOUS
    <3>6. Spans(input, a, pos[n], x) /\ Len(x) > 0
      BY <3>4, <3>5
    <3>7. a \in Nat /\ Len(x) \in Nat /\ pos[n] = a + Len(x)
      BY <3>6, SpanGoesOn
    <3>8. n <= pos[n]
      BY <2>1, <3>1, <3>2, <3>5, <3>6, <3>7
    <3> QED
      BY <3>8 DEF G
  <2> QED
    BY <2>2, <2>3
<1>3. last \in G
  <2>1. \A n \in 0 .. last : n \in G
    BY <1>2, AllNumbers, Zenon
  <2> QED
    BY <2>1
<1>4. last <= pos[last] /\ pos[last] \in Nat /\ Len(input) \in Nat
  BY <1>1, <1>3 DEF G
<1> QED
  BY <1>4

LEMMA OneElementMore ==
  ASSUME NEW content \in Seq(Int), NEW i \in 1 .. Len(content), NEW below \in Nat, below = i - 1
  PROVE  SubSeq(content, 1, below) \o <<content[i]>> = SubSeq(content, 1, i)
<1>1. PICK n \in Int : n = content[i]
  OBVIOUS
<1>2. PICK s, u : s = SubSeq(content, 1, below) /\ u = SubSeq(content, 1, i)
  OBVIOUS
<1>3. s \in Seq(Int) /\ Len(s) = below /\ \A j \in 1 .. below : s[j] = content[j]
  BY <1>2
<1>4. u \in Seq(Int) /\ Len(u) = i /\ \A j \in 1 .. i : u[j] = content[j]
  BY <1>2
<1>5. PICK x : x = s \o <<n>>
  OBVIOUS
<1>6. x \in Seq(Int) /\ Len(x) = below + 1 /\ x[below + 1] = n /\ \A j \in 1 .. below : x[j] = s[j]
  BY <1>3, <1>5, OneMore
<1>7. \A j \in 1 .. Len(x) : x[j] = u[j]
  <2> SUFFICES ASSUME NEW j \in 1 .. i
               PROVE  x[j] = u[j]
    BY <1>6
  <2>1. CASE j = i
    BY <1>1, <1>4, <1>6, <2>1
  <2>2. CASE j # i
    <3>1. j \in 1 .. below
      BY <2>2
    <3> QED
      BY <1>3, <1>4, <1>6, <3>1
  <2> QED
    BY <2>1, <2>2
<1>8. x = u
  BY <1>4, <1>6, <1>7, SameSequence
<1> QED
  BY <1>1, <1>2, <1>5, <1>8

LEMMA DelimitedSome ==
  ASSUME NEW x \in Seq(Octet)
  PROVE  Delimited(x) \in Seq(Octet) /\ Len(Delimited(x)) > 0
<1>1. PICK size \in Nat : size = Len(x)
  OBVIOUS
<1>2. PICK digits \in Seq(Octet) : digits = Digits(size) /\ Len(digits) > 0
  BY DigitsOctets, SMTT(60)
<1>3. digits \o x \in Seq(Octet) /\ Len(digits \o x) = Len(digits) + Len(x)
  OBVIOUS
<1>4. Delimited(x) = digits \o x
  BY <1>1, <1>2 DEF Delimited
<1> QED
  BY <1>1, <1>2, <1>3, <1>4

(* The header of the next element is read. *)
LEMMA NextHeader ==
  ASSUME NEW input \in Seq(Octet), Len(input) <= MaxUnsigned, NEW octets, NEW previous,
         NEW c \in Cursor_Record, Is_Valid(c, Len(input)), ~ At_End(c),
         Comes_To(input, octets, previous, c.next, c.limit)
  PROVE  \E next : \E t \in DOMAIN octets, region \in Regions :
           /\ t > previous /\ \A k \in DOMAIN octets : k > previous => t <= k
           /\ Read_Field_Header(input, c, previous) =
                [status |-> "Read", tag |-> t, value |-> region, cursor |-> MovedTo(c, next), previous |-> t]
           /\ Arrives(input, c, region, next, octets[t])
           /\ Comes_To(input, octets, t, next, c.limit)
<1>1. PICK t \in DOMAIN octets :
        /\ t > previous /\ \A k \in DOMAIN octets : k > previous => t <= k
        /\ \E next : /\ Spans(input, c.next, next, Digits(t) \o Delimited(octets[t])) /\ next <= c.limit
                     /\ Comes_To(input, octets, t, next, c.limit)
  BY NextTag DEF At_End
<1>2. PICK next : /\ Spans(input, c.next, next, Digits(t) \o Delimited(octets[t])) /\ next <= c.limit
                  /\ Comes_To(input, octets, t, next, c.limit)
  BY <1>1
<1>3. PICK x \in Seq(Octet) : x = octets[t]
  BY DEF Comes_To
<1>4. previous \in Nat /\ t \in Field_Tag
  BY Limits DEF Comes_To, Tag_Number
<1>5. PICK region \in Regions :
        /\ Read_Field_Header(input, c, previous) =
             [status |-> "Read", tag |-> t, value |-> region, cursor |-> MovedTo(c, next), previous |-> t]
        /\ Arrives(input, c, region, next, x)
  <2>1. Spans(input, c.next, next, Digits(t) \o Delimited(x))
    BY <1>2, <1>3
  <2> QED
    BY <1>1, <1>2, <1>3, <1>4, <2>1, HeaderArrives
<1> QED
  BY <1>1, <1>2, <1>3, <1>5

-----------------------------------------------------------------------------

(***************************************************************************)
(* The values of a lock.                                                   *)
(***************************************************************************)
Proper(value) == value \in Value /\ Shaped(value) /\ Bounded(value) /\ Tagged(value) /\ Wire_Bounds(value)

(* Values that are written as one number. *)
Simple == Scalars \cup {"enumeration"}

(***************************************************************************)
(* Numbers a value may have, and how they are written.                     *)
(***************************************************************************)
Number(value, number) ==
  /\ number \in Int
  /\ value.kind \in {"unsigned", "signed"} => number \in value.minimum .. value.maximum
  /\ value.kind = "enumeration" => number \in value.tags

LEMMA WireIsNat ==
  ASSUME NEW value, Proper(value), value.kind \in Simple \ {"boolean"}, NEW number, Number(value, number)
  PROVE  Wire(value, number) \in Nat
<1>1. number \in Int /\ value.minimum \in Int /\ value.maximum \in Int /\ value.tags \subseteq Nat
  BY DEF Proper, Value, Number
<1>2. CASE value.kind = "signed"
  <2>1. ZigZag_Encode(number) \in Nat
    BY <1>1 DEF ZigZag_Encode
  <2> QED
    BY <1>2, <2>1 DEF Wire
<1>3. CASE value.kind = "unsigned"
  <2>1. value.minimum >= 0 /\ number >= value.minimum
    BY <1>1, <1>3 DEF Proper, Bounded, Number
  <2> QED
    BY <1>1, <1>3, <2>1 DEF Wire
<1>4. CASE value.kind = "enumeration"
  BY <1>1, <1>4 DEF Wire, Number
<1> QED
  BY <1>2, <1>3, <1>4 DEF Simple, Scalars

LEMMA ScalarSize ==
  ASSUME NEW value, NEW number
  PROVE  scalar_size(value, number) \in Nat /\ 0 < scalar_size(value, number)
BY SizeOfAny, ProfileAssumption DEF scalar_size

(* A number fills the room that was measured for it.                       *)
LEMMA ScalarStored ==
  ASSUME NEW n \in Nat, NEW before \in [1 .. n -> Octet], NEW c \in Cursor_Record, Is_Valid(c, n),
         NEW value, Proper(value), value.kind \in Simple, NEW number, Number(value, number),
         NEW size, size = scalar_size(value, number), size <= Remaining(c)
  PROVE  Stores(n, before, c, scalar_write(value, before, c, number), size, size)
<1>1. CASE value.kind = "boolean"
  <2>1. scalar_write(value, before, c, number) = Write_Boolean(before, c, number = 1) /\ size = 1
    BY <1>1 DEF scalar_write, scalar_size
  <2>2. Remaining(c) # 0 /\ (number = 1) \in BOOLEAN
    BY <2>1
  <2> QED
    BY <2>1, <2>2, BooleanStored, Zenon
<1>2. CASE value.kind # "boolean"
  <2>1. PICK wire \in Nat : wire = Wire(value, number)
    BY <1>2, WireIsNat
  <2>2. scalar_write(value, before, c, number) = Write_Unsigned(before, c, wire)
    BY <1>2, <2>1 DEF scalar_write, Wire, Write_Signed
  <2>3. size = Unsigned_Size(wire)
    BY <1>2, <2>1 DEF scalar_size
  <2> QED
    BY <2>2, <2>3, UnsignedStored
<1> QED
  BY <1>1, <1>2

-----------------------------------------------------------------------------

(***************************************************************************)
(* A value behind its header.                                              *)
(***************************************************************************)

(* ... and a value that fills it leaves one write of both.                 *)
LEMMA Filling ==
  ASSUME NEW n \in Nat, NEW before \in [1 .. n -> Octet], NEW c \in Cursor_Record, Is_Valid(c, n),
         NEW size \in Nat, NEW length \in Nat, NEW header, Core_Parts \subseteq DOMAIN header,
         Stores(n, before, c, header, size, size + length),
         NEW inner \in Cursor_Record, inner.next = c.next + size, Remaining(inner) = length,
         NEW value, Stores(n, header.output, inner, value, length, length),
         NEW result, result = Behind(header, value)
  PROVE  /\ Stores(n, before, c, result, size + length, size + length)
         /\ result.previous = header.previous
<1> PICK next \in Nat, limit \in Nat : next = c.next /\ limit = c.limit
  BY CursorFields
<1>1. At_End(value.cursor)
  <2>1. value.cursor = [first |-> inner.first, next |-> inner.next + length, limit |-> inner.limit]
    BY CursorFields, Zenon DEF Stores
  <2>2. inner.next \in Nat /\ inner.limit \in Nat /\ inner.limit - inner.next = length
    BY CursorFields
  <2> QED
    BY <2>1, <2>2, SMTT(60) DEF At_End
<1>2. Filled(value)
  BY <1>1 DEF Filled, Stores
<1>3. /\ result.status = "Wrote" /\ result.output = value.output
      /\ result.cursor = header.cursor /\ result.previous = header.previous
  BY <1>2 DEF Behind, Core_Parts
<1>4. Keeps(n, before, value.output, next, size + length)
  <2> SUFFICES ASSUME NEW i \in 1 .. n, i \notin next + 1 .. next + (size + length)
               PROVE  value.output[i] = before[i]
    BY DEF Keeps
  <2>1. i \notin next + 1 .. next + size /\ i \notin next + size + 1 .. next + size + length
    BY SMTT(60)
  <2>2. value.output[i] = header.output[i]
    BY <2>1 DEF Stores, Keeps
  <2>3. header.output[i] = before[i]
    BY <2>1 DEF Stores, Keeps
  <2> QED
    BY <2>2, <2>3
<1> QED
  BY <1>3, <1>4 DEF Stores

-----------------------------------------------------------------------------

(***************************************************************************)
(* Measuring.  What Measure adds up for the fields up to a tag is where    *)
(* Encode will be behind the field with that tag.                          *)
(***************************************************************************)

LEMMA AmountAdded ==
  ASSUME NEW sum, sum.size \in Nat, NEW amount, amount.status \in {"Computed", "Overflow"}, amount.result \in Nat,
         Accumulated_Size(sum, amount).status = "Measured"
  PROVE  /\ amount.status = "Computed"
         /\ Accumulated_Size(sum, amount) = Sized(sum.size + amount.result)
         /\ sum.size + amount.result <= MaxUnsigned
<1>1. MaxUnsigned \in Nat
  BY Limits
<1>2. /\ ~ (amount.status = "Overflow")
      /\ ~ (Sizes_Accumulate(sum.size, amount.result).status = "Overflow")
  BY DEF Accumulated_Size, Unmeasured
<1>3. /\ Sizes_Accumulate(sum.size, amount.result) = Computed(sum.size + amount.result)
      /\ sum.size + amount.result <= MaxUnsigned
  BY <1>1, <1>2 DEF Sizes_Accumulate, Sizes_Add, Computed, Overflow
<1> QED
  BY <1>2, <1>3 DEF Accumulated_Size, Computed

(* There is a function the equation of Measure_Fields holds of. *)
LEMMA FieldSumExists ==
  ASSUME NEW sizes, NEW top \in Nat
  PROVE  \E f : f = [n \in 0 .. top |-> IF n = 0 THEN Sized(0) ELSE (IF n \notin DOMAIN sizes \/ f[n - 1].status # "Measured" THEN f[n - 1] ELSE With_Field(f[n - 1], n, sizes[n]))]
<1> DEFINE Step(before, n) == (IF n \notin DOMAIN sizes \/ before.status # "Measured" THEN before ELSE With_Field(before, n, sizes[n]))
           G == {m \in 0 .. top : \E f : f = [n \in 0 .. m |-> IF n = 0 THEN Sized(0) ELSE Step(f[n - 1], n)]}
<1> HIDE DEF Step
<1>1. ASSUME NEW m \in 0 .. top, \A k \in 0 .. m - 1 : k \in G
      PROVE  m \in G
  <2>1. CASE m = 0
    <3> DEFINE f == [n \in 0 .. m |-> Sized(0)]
    <3>1. f = [n \in 0 .. m |-> IF n = 0 THEN Sized(0) ELSE Step(f[n - 1], n)]
      BY <2>1
    <3> QED
      BY <3>1
  <2>2. CASE m > 0
    <3>1. PICK f : f = [n \in 0 .. m - 1 |-> IF n = 0 THEN Sized(0) ELSE Step(f[n - 1], n)]
      BY <1>1, <2>2, SMTT(60)
    <3> DEFINE g == [n \in 0 .. m |-> IF n = m THEN Step(f[m - 1], m) ELSE f[n]]
    <3>2. ASSUME NEW n \in 0 .. m
          PROVE  g[n] = IF n = 0 THEN Sized(0) ELSE Step(g[n - 1], n)
      <4>1. CASE n = m
        <5>1. g[n] = Step(f[m - 1], m) /\ g[n - 1] = f[m - 1]
          BY <2>2, <4>1
        <5> QED
          BY <2>2, <4>1, <5>1
      <4>2. CASE n # m
        <5>1. n \in 0 .. m - 1 /\ g[n] = f[n] /\ (n # 0 => g[n - 1] = f[n - 1])
          BY <4>2
        <5>2. f[n] = IF n = 0 THEN Sized(0) ELSE Step(f[n - 1], n)
          <6> HIDE DEF g
          <6> QED
            BY <3>1, <5>1
        <5> QED
          BY <5>1, <5>2
      <4> QED
        BY <4>1, <4>2
    <3>3. g = [n \in 0 .. m |-> IF n = 0 THEN Sized(0) ELSE Step(g[n - 1], n)]
      BY <3>2
    <3> HIDE DEF g
    <3> QED
      BY <3>3
  <2> QED
    BY <2>1, <2>2
<1> HIDE DEF G
<1>2. top \in G
  <2>1. \A i \in 0 .. top : i \in G
    BY <1>1, AllNumbers, Zenon
  <2> QED
    BY <2>1
<1> QED
  BY <1>2 DEF G, Step

(* A sum that could be computed has a summand for every field.             *)
LEMMA FieldsMeasured ==
  ASSUME NEW sizes, \A t \in DOMAIN sizes : sizes[t].status = "Measured" => sizes[t].size \in Nat,
         NEW measured, measured = Measure_Fields(sizes), measured.status = "Measured"
  PROVE  /\ measured = Sized(measured.size) /\ measured.size <= MaxUnsigned
         /\ \E upto : Adds_Up(upto, sizes, measured.size)
         /\ \A t \in DOMAIN sizes \cap Field_Tag : sizes[t].status = "Measured"
<1> DEFINE Equation(f) ==
             f = [t \in 0 .. MaxFieldTag |-> IF t = 0 THEN Sized(0) ELSE (IF t \notin DOMAIN sizes \/ f[t - 1].status # "Measured" THEN f[t - 1] ELSE With_Field(f[t - 1], t, sizes[t]))]
           sum == CHOOSE f : Equation(f)
<1>1. MaxFieldTag \in Nat
  BY Limits
<1>2. Equation(sum)
  BY <1>1, FieldSumExists, Zenon
<1>3. measured = sum[MaxFieldTag]
  BY DEF Measure_Fields
<1> HIDE DEF sum
<1>4. sum[0] = Sized(0)
  BY <1>1, <1>2
<1>5. \A t \in Field_Tag : sum[t] = IF t \notin DOMAIN sizes \/ sum[t - 1].status # "Measured" THEN sum[t - 1] ELSE With_Field(sum[t - 1], t, sizes[t])
  <2>1. ASSUME NEW t \in Field_Tag
        PROVE  sum[t] = IF t \notin DOMAIN sizes \/ sum[t - 1].status # "Measured" THEN sum[t - 1] ELSE With_Field(sum[t - 1], t, sizes[t])
    <3>1. t \in 0 .. MaxFieldTag /\ t # 0
      BY <1>1 DEF Field_Tag
    <3> QED
      BY <1>2, <3>1, Zenon
  <2> QED
    BY <2>1
<1> HIDE DEF Equation
<1> DEFINE Added(t) ==
             sum[t].status = "Measured" =>
               /\ sum[t] = Sized(sum[t].size) /\ sum[t].size \in Nat /\ sum[t].size <= MaxUnsigned
               /\ t > 0 =>
                    /\ sum[t - 1].status = "Measured"
                    /\ t \in DOMAIN sizes =>
                         /\ sizes[t].status = "Measured"
                         /\ sum[t].size = sum[t - 1].size + Need(t, sizes[t].size)
                    /\ t \notin DOMAIN sizes => sum[t].size = sum[t - 1].size
           G == {t \in 0 .. MaxFieldTag : Added(t)}
<1>6. ASSUME NEW t \in 0 .. MaxFieldTag, \A s \in 0 .. t - 1 : s \in G
      PROVE  t \in G
  <2>1. CASE t = 0
    BY <1>4, <2>1, Limits DEF Sized
  <2>2. CASE t > 0 /\ sum[t].status = "Measured"
    <3>1. t \in Field_Tag /\ t - 1 \in 0 .. t - 1
      BY <2>2 DEF Field_Tag
    <3>2. sum[t - 1].status = "Measured"
      BY <1>5, <2>2, <3>1
    <3>3. sum[t - 1] = Sized(sum[t - 1].size) /\ sum[t - 1].size \in Nat /\ sum[t - 1].size <= MaxUnsigned
      BY <1>6, <3>1, <3>2
    <3>4. CASE t \notin DOMAIN sizes
      <4>1. sum[t] = sum[t - 1]
        BY <1>5, <3>1, <3>4
      <4> QED
        BY <2>2, <3>2, <3>3, <3>4, <4>1
    <3>5. CASE t \in DOMAIN sizes
      <4>1. sum[t] = With_Field(sum[t - 1], t, sizes[t])
        BY <1>5, <3>1, <3>2, <3>5
      <4>2. /\ sizes[t].status = "Measured"
            /\ sum[t] = Accumulated_Size(sum[t - 1], Measure_Field(t, sizes[t].size))
        BY <2>2, <4>1 DEF With_Field
      <4>3. sizes[t].size \in Nat
        BY <3>5, <4>2
      <4>4. Need(t, sizes[t].size) \in Nat
        BY <4>3, SizeOfAny, ProfileAssumption DEF Need
      <4>5. \/ Measure_Field(t, sizes[t].size) = Computed(Need(t, sizes[t].size))
            \/ Measure_Field(t, sizes[t].size) = Overflow(0)
        BY <4>3, FieldMeasured
      <4>6. /\ Measure_Field(t, sizes[t].size).status \in {"Computed", "Overflow"}
            /\ Measure_Field(t, sizes[t].size).result \in Nat
        BY <4>4, <4>5 DEF Computed, Overflow
      <4>7. /\ Measure_Field(t, sizes[t].size).status = "Computed"
            /\ sum[t] = Sized(sum[t - 1].size + Measure_Field(t, sizes[t].size).result)
            /\ sum[t - 1].size + Measure_Field(t, sizes[t].size).result <= MaxUnsigned
        BY <2>2, <3>3, <4>2, <4>6, AmountAdded
      <4>8. Measure_Field(t, sizes[t].size).result = Need(t, sizes[t].size)
        BY <4>5, <4>7 DEF Computed, Overflow
      <4>9. sum[t] = Sized(sum[t - 1].size + Need(t, sizes[t].size))
        BY <4>7, <4>8
      <4>10. /\ sum[t].size = sum[t - 1].size + Need(t, sizes[t].size)
             /\ sum[t] = Sized(sum[t].size) /\ sum[t].size \in Nat /\ sum[t].size <= MaxUnsigned
        BY <3>3, <4>4, <4>7, <4>8, <4>9 DEF Sized
      <4> QED
        BY <3>2, <3>5, <4>2, <4>10
    <3> QED
      BY <3>4, <3>5
  <2>3. CASE t > 0 /\ sum[t].status # "Measured"
    BY <2>3
  <2> QED
    BY <2>1, <2>2, <2>3
<1> HIDE DEF G
<1>7. \A t \in 0 .. MaxFieldTag : t \in G
  BY <1>1, <1>6, AllNumbers, Zenon
<1>8. \A t \in 0 .. MaxFieldTag : Added(t)
  BY <1>7 DEF G
<1> DEFINE Back == {k \in 0 .. MaxFieldTag : sum[MaxFieldTag - k].status = "Measured"}
<1>9. ASSUME NEW k \in 0 .. MaxFieldTag, \A j \in 0 .. k - 1 : j \in Back
      PROVE  k \in Back
  <2>1. CASE k = 0
    <3>1. MaxFieldTag - k = MaxFieldTag
      BY <1>1, <2>1
    <3> QED
      BY <1>3, <2>1, <3>1
  <2>2. CASE k > 0
    <3>1. k - 1 \in Back
      BY <1>9, <2>2
    <3> PICK t \in Field_Tag : t = MaxFieldTag - (k - 1)
      BY <1>1, <2>2 DEF Field_Tag
    <3>2. t \in 0 .. MaxFieldTag /\ t > 0 /\ t - 1 = MaxFieldTag - k
      BY <1>1, <2>2 DEF Field_Tag
    <3>3. sum[t - 1].status = "Measured"
      BY <1>8, <3>1, <3>2
    <3> QED
      BY <3>2, <3>3
  <2> QED
    BY <2>1, <2>2
<1> HIDE DEF Back
<1>10. \A k \in 0 .. MaxFieldTag : k \in Back
  BY <1>1, <1>9, AllNumbers, Zenon
<1>11. \A t \in 0 .. MaxFieldTag : sum[t].status = "Measured"
  <2> SUFFICES ASSUME NEW t \in 0 .. MaxFieldTag
               PROVE  sum[t].status = "Measured"
    OBVIOUS
  <2>1. MaxFieldTag - t \in 0 .. MaxFieldTag /\ MaxFieldTag - (MaxFieldTag - t) = t
    BY <1>1
  <2> QED
    BY <1>10, <2>1 DEF Back
<1>12. /\ sum[MaxFieldTag] = Sized(sum[MaxFieldTag].size) /\ sum[MaxFieldTag].size <= MaxUnsigned
       /\ \A t \in 0 .. MaxFieldTag : sum[t].size \in Nat
  BY <1>1, <1>8, <1>11
<1> DEFINE upto == [t \in 0 .. MaxFieldTag |-> sum[t].size]
<1>13. Adds_Up(upto, sizes, measured.size)
  <2>1. upto \in [0 .. MaxFieldTag -> Nat] /\ upto[MaxFieldTag] = measured.size
    BY <1>1, <1>3, <1>12
  <2>2. upto[0] = 0
    BY <1>1, <1>4 DEF Sized
  <2>3. ASSUME NEW t \in Field_Tag
        PROVE  upto[t] = IF t \in DOMAIN sizes THEN upto[t - 1] + Need(t, sizes[t].size) ELSE upto[t - 1]
    <3>1. t \in 0 .. MaxFieldTag /\ t - 1 \in 0 .. MaxFieldTag /\ t > 0
      BY <1>1 DEF Field_Tag
    <3>2. /\ t \in DOMAIN sizes => sum[t].size = sum[t - 1].size + Need(t, sizes[t].size)
          /\ t \notin DOMAIN sizes => sum[t].size = sum[t - 1].size
      BY <1>8, <1>11, <3>1
    <3> QED
      BY <3>1, <3>2
  <2> QED
    BY <2>1, <2>2, <2>3 DEF Adds_Up
<1>14. ASSUME NEW t \in DOMAIN sizes \cap Field_Tag
       PROVE  sizes[t].status = "Measured"
  <2>1. t \in 0 .. MaxFieldTag /\ t > 0
    BY <1>1 DEF Field_Tag
  <2> QED
    BY <1>8, <1>11, <2>1
<1> QED
  BY <1>3, <1>12, <1>13, <1>14

-----------------------------------------------------------------------------

(***************************************************************************)
(* Writes one behind the other.                                            *)
(***************************************************************************)

(* A header opens the room of its value: one that fills it makes the write *)
(* of both take count octets.                                              *)
Opens(n, before, c, header, length, count) ==
  /\ header.status = "Wrote" /\ header.output \in [1 .. n -> Octet]
  /\ Inside(header.value, header.output)
  /\ \E inner \in Cursor_Record :
       /\ inner = Initialize(header.output, header.value).cursor
       /\ Is_Valid(inner, n) /\ Remaining(inner) = length
       /\ \A value : Stores(n, header.output, inner, value, length, length) =>
            Stores(n, before, c, Behind(header, value), count, count)

(* Whatever follows, the next field comes behind this tag.                 *)
Goes_On(header, tag) == \A value : Behind(header, value).previous = tag

LEMMA DelimitedRoom ==
  ASSUME NEW n \in Nat, NEW before \in [1 .. n -> Octet], NEW c \in Cursor_Record, Is_Valid(c, n),
         NEW length \in Nat, Length_And(length) <= Remaining(c),
         NEW header, header = Write_Length_Delimited(before, c, length)
  PROVE  /\ Opens(n, before, c, header, length, Length_And(length))
         /\ Length_And(length) = Remaining(c) => At_End(header.cursor)
<1> PICK size \in Nat : size = Unsigned_Size(length)
  BY SizeOfAny, ProfileAssumption
<1>1. size + length <= Remaining(c) /\ Length_And(length) = size + length
  BY DEF Length_And
<1>2. Stores(n, before, c, header, size, size + length) /\ header.value = Extent(c.next + size, length)
  BY <1>1, DelimitedStored
<1>3. PICK inner \in Cursor_Record :
        /\ Inside(header.value, header.output)
        /\ inner = Initialize(header.output, header.value).cursor
        /\ inner.next = c.next + size
        /\ Is_Valid(inner, n) /\ Remaining(inner) = length
  <2>1. Opened(n, c, header, size, length)
    BY <1>2, Opening, Zenon
  <2> QED
    BY <2>1 DEF Opened
<1>4. /\ header.status = "Wrote" /\ header.output \in [1 .. n -> Octet]
      /\ size + length = Remaining(c) => At_End(header.cursor)
  <2>1. c.next \in Nat /\ c.limit \in Nat /\ Remaining(c) = c.limit - c.next
    BY CursorFields
  <2>2. header.cursor = [first |-> c.first, next |-> c.next + (size + length), limit |-> c.limit]
    BY <1>2, CursorFields, Zenon DEF Stores
  <2> QED
    BY <1>2, <2>1, <2>2, SMTT(60) DEF Stores, At_End
<1>5. Core_Parts \subseteq DOMAIN header
  BY HeaderParts
<1>6. ASSUME NEW value, Stores(n, header.output, inner, value, length, length)
      PROVE  Stores(n, before, c, Behind(header, value), size + length, size + length)
  BY <1>2, <1>3, <1>5, <1>6, Filling, Zenon
<1> QED
  BY <1>1, <1>3, <1>4, <1>6 DEF Opens

LEMMA FieldRoom ==
  ASSUME NEW n \in Nat, NEW before \in [1 .. n -> Octet], NEW c \in Cursor_Record, Is_Valid(c, n),
         NEW previous \in Nat, NEW tag \in Nat, previous < tag,
         NEW length \in Nat, Need(tag, length) <= Remaining(c),
         NEW header, header = Write_Field_Header(before, c, previous, tag, length)
  PROVE  /\ Opens(n, before, c, header, length, Need(tag, length))
         /\ Goes_On(header, tag)
<1>1. PICK size \in Nat :
        /\ Need(tag, length) = size + length /\ size + length <= Remaining(c)
        /\ Stores(n, before, c, header, size, size + length)
        /\ header.value = Extent(c.next + size, length)
        /\ header.previous = tag
  <2>1. Headed(n, before, c, header, tag, length)
    BY HeaderStored
  <2> QED
    BY <2>1, Zenon DEF Headed
<1>3. PICK inner \in Cursor_Record :
        /\ Inside(header.value, header.output)
        /\ inner = Initialize(header.output, header.value).cursor
        /\ inner.next = c.next + size
        /\ Is_Valid(inner, n) /\ Remaining(inner) = length
  <2>1. Opened(n, c, header, size, length)
    BY <1>1, Opening, Zenon
  <2> QED
    BY <2>1, Zenon DEF Opened
<1>4. header.status = "Wrote" /\ header.output \in [1 .. n -> Octet]
  BY <1>1, Zenon DEF Stores
<1>5. Core_Parts \cup {"previous"} \subseteq DOMAIN header
  BY HeaderParts
<1>6. ASSUME NEW value, Stores(n, header.output, inner, value, length, length)
      PROVE  Stores(n, before, c, Behind(header, value), size + length, size + length)
  <2>1. Core_Parts \subseteq DOMAIN header
    BY <1>5
  <2> QED
    BY <1>1, <1>3, <1>6, <2>1, Filling, Zenon
<1>7. Goes_On(header, tag)
  BY <1>1, <1>5 DEF Behind, Goes_On
<1> QED
  BY <1>1, <1>3, <1>4, <1>6, <1>7, Zenon DEF Opens

(* A value and its length, behind what is there.                           *)
LEMMA DelimitedBehind ==
  ASSUME NEW n \in Nat, NEW before \in [1 .. n -> Octet], NEW c \in Cursor_Record, Is_Valid(c, n),
         NEW first, NEW one \in Nat, Stores(n, before, c, first, one, one),
         NEW length \in Nat, one + Length_And(length) <= Remaining(c),
         NEW header, header = Write_Length_Delimited(first.output, first.cursor, length)
  PROVE  /\ Opens(n, before, c, header, length, one + Length_And(length))
         /\ one + Length_And(length) = Remaining(c) => At_End(header.cursor)
<1> PICK two \in Nat : two = Length_And(length)
  BY SizeOfAny, ProfileAssumption DEF Length_And
<1>1. /\ first.cursor \in Cursor_Record /\ Is_Valid(first.cursor, n)
      /\ first.cursor.next = c.next + one
      /\ Remaining(first.cursor) = Remaining(c) - one
      /\ first.output \in [1 .. n -> Octet]
  BY Moved, Zenon
<1>2. /\ Length_And(length) <= Remaining(first.cursor)
      /\ one + Length_And(length) = Remaining(c) => Length_And(length) = Remaining(first.cursor)
  <2>1. Remaining(c) \in Int
    BY CursorFields
  <2> QED
    BY <1>1, <2>1
<1>3. /\ Opens(n, first.output, first.cursor, header, length, Length_And(length))
      /\ Length_And(length) = Remaining(first.cursor) => At_End(header.cursor)
  BY <1>1, <1>2, DelimitedRoom, Zenon
<1>4. Opens(n, before, c, header, length, one + two)
  <2>1. PICK inner \in Cursor_Record :
          /\ inner = Initialize(header.output, header.value).cursor
          /\ Is_Valid(inner, n) /\ Remaining(inner) = length
          /\ \A value : Stores(n, header.output, inner, value, length, length) =>
               Stores(n, first.output, first.cursor, Behind(header, value), Length_And(length), Length_And(length))
    BY <1>3 DEF Opens
  <2>2. ASSUME NEW value, Stores(n, header.output, inner, value, length, length)
        PROVE  Stores(n, before, c, Behind(header, value), one + two, one + two)
    <3>1. Stores(n, first.output, first.cursor, Behind(header, value), two, two)
      BY <2>1, <2>2
    <3> QED
      BY <3>1, Chained, Zenon
  <2> QED
    BY <1>3, <2>1, <2>2 DEF Opens
<1> QED
  BY <1>2, <1>3, <1>4

(* A field, behind what is there.                                          *)
LEMMA FieldBehind ==
  ASSUME NEW n \in Nat, NEW before \in [1 .. n -> Octet], NEW c \in Cursor_Record, Is_Valid(c, n),
         NEW first, NEW one \in Nat, Stores(n, before, c, first, one, one),
         NEW previous \in Nat, NEW tag \in Nat, previous < tag,
         NEW length \in Nat, one + Need(tag, length) <= Remaining(c),
         NEW header, header = Write_Field_Header(first.output, first.cursor, previous, tag, length)
  PROVE  /\ Opens(n, before, c, header, length, one + Need(tag, length))
         /\ Goes_On(header, tag)
<1> PICK two \in Nat : two = Need(tag, length)
  BY SizeOfAny, ProfileAssumption DEF Need
<1>1. /\ first.cursor \in Cursor_Record /\ Is_Valid(first.cursor, n)
      /\ first.cursor.next = c.next + one
      /\ Remaining(first.cursor) = Remaining(c) - one
      /\ first.output \in [1 .. n -> Octet]
  BY Moved, Zenon
<1>2. Need(tag, length) <= Remaining(first.cursor)
  <2>1. Remaining(c) \in Int
    BY CursorFields, SMTT(60)
  <2> QED
    BY <1>1, <2>1
<1>3. /\ Opens(n, first.output, first.cursor, header, length, Need(tag, length))
      /\ Goes_On(header, tag)
  BY <1>1, <1>2, FieldRoom, Zenon
<1>4. Opens(n, before, c, header, length, one + two)
  <2>1. PICK inner \in Cursor_Record :
          /\ inner = Initialize(header.output, header.value).cursor
          /\ Is_Valid(inner, n) /\ Remaining(inner) = length
          /\ \A value : Stores(n, header.output, inner, value, length, length) =>
               Stores(n, first.output, first.cursor, Behind(header, value), Need(tag, length), Need(tag, length))
    BY <1>3 DEF Opens
  <2>2. ASSUME NEW value, Stores(n, header.output, inner, value, length, length)
        PROVE  Stores(n, before, c, Behind(header, value), one + two, one + two)
    <3>1. Stores(n, first.output, first.cursor, Behind(header, value), two, two)
      BY <2>1, <2>2
    <3> QED
      BY <3>1, Chained, Zenon
  <2> QED
    BY <1>3, <2>1, <2>2 DEF Opens
<1> QED
  BY <1>3, <1>4

-----------------------------------------------------------------------------

(***************************************************************************)
(* Sequences: the count, and then elements behind their lengths.           *)
(***************************************************************************)
Elements_Add_Up(upto, element, content) ==
  /\ upto \in [0 .. Len(content) -> Nat]
  /\ upto[0] = Unsigned_Size(Len(content))
  /\ \A i \in 1 .. Len(content) : upto[i] = upto[i - 1] + Length_And(scalar_size(element, content[i]))

Next_Sum(lock, t, content, before, n) ==
  IF before.status # "Measured" THEN before
  ELSE IF scalar_invalid(Element(lock, t), content[n]) THEN Unmeasured("Invalid_Value")
  ELSE Accumulated_Size(before, Measure_Length_Delimited(scalar_size(Element(lock, t), content[n])))

Element_Sum(f, top, lock, t, content) ==
  f = [n \in 0 .. top |->
         IF n = 0 THEN Sized(Unsigned_Size(Len(content))) ELSE Next_Sum(lock, t, content, f[n - 1], n)]

(* The equation of Measure_Sequence holds of some function. *)
LEMMA ElementSumExists ==
  ASSUME NEW top \in Nat, NEW lock, NEW t, NEW content
  PROVE  \E f : Element_Sum(f, top, lock, t, content)
<1> DEFINE Step(before, n) == Next_Sum(lock, t, content, before, n)
           G == {m \in 0 .. top : \E f : f = [n \in 0 .. m |-> IF n = 0 THEN Sized(Unsigned_Size(Len(content))) ELSE Step(f[n - 1], n)]}
<1> HIDE DEF Step
<1>1. ASSUME NEW m \in 0 .. top, \A k \in 0 .. m - 1 : k \in G
      PROVE  m \in G
  <2>1. CASE m = 0
    <3> DEFINE f == [n \in 0 .. m |-> Sized(Unsigned_Size(Len(content)))]
    <3>1. f = [n \in 0 .. m |-> IF n = 0 THEN Sized(Unsigned_Size(Len(content))) ELSE Step(f[n - 1], n)]
      BY <2>1
    <3> QED
      BY <3>1
  <2>2. CASE m > 0
    <3>1. PICK f : f = [n \in 0 .. m - 1 |-> IF n = 0 THEN Sized(Unsigned_Size(Len(content))) ELSE Step(f[n - 1], n)]
      BY <1>1, <2>2
    <3> DEFINE g == [n \in 0 .. m |-> IF n = m THEN Step(f[m - 1], m) ELSE f[n]]
    <3>2. ASSUME NEW n \in 0 .. m
          PROVE  g[n] = IF n = 0 THEN Sized(Unsigned_Size(Len(content))) ELSE Step(g[n - 1], n)
      <4>1. CASE n = m
        <5>1. g[n] = Step(f[m - 1], m) /\ g[n - 1] = f[m - 1]
          BY <2>2, <4>1
        <5> QED
          BY <2>2, <4>1, <5>1
      <4>2. CASE n # m
        <5>1. n \in 0 .. m - 1 /\ g[n] = f[n] /\ (n # 0 => g[n - 1] = f[n - 1])
          BY <4>2
        <5>2. f[n] = IF n = 0 THEN Sized(Unsigned_Size(Len(content))) ELSE Step(f[n - 1], n)
          <6> HIDE DEF g
          <6> QED
            BY <3>1, <5>1
        <5> QED
          BY <5>1, <5>2
      <4> QED
        BY <4>1, <4>2
    <3>3. g = [n \in 0 .. m |-> IF n = 0 THEN Sized(Unsigned_Size(Len(content))) ELSE Step(g[n - 1], n)]
      BY <3>2
    <3> HIDE DEF g
    <3> QED
      BY <3>3
  <2> QED
    BY <2>1, <2>2
<1> HIDE DEF G
<1>2. top \in G
  <2>1. \A i \in 0 .. top : i \in G
    BY <1>1, AllNumbers, Zenon
  <2> QED
    BY <2>1
<1> QED
  BY <1>2 DEF G, Step, Element_Sum

(* The elements are valid, and their sizes add up. *)
Elements_Vouched(lock, t, content, measured) ==
  /\ measured = Sized(measured.size)
  /\ Len(content) \in Field(lock, t).minimum .. Field(lock, t).maximum
  /\ \A i \in 1 .. Len(content) : ~ scalar_invalid(Element(lock, t), content[i])
  /\ \E upto : /\ Elements_Add_Up(upto, Element(lock, t), content)
               /\ upto[Len(content)] = measured.size

LEMMA ElementsMeasured ==
  ASSUME NEW lock, NEW t, NEW content \in Seq(Int),
         NEW measured, measured = Measure_Sequence(lock, t, content), measured.status = "Measured"
  PROVE  Elements_Vouched(lock, t, content, measured)
<1> DEFINE sum == CHOOSE f : Element_Sum(f, Len(content), lock, t, content)
           Amount(i) == Measure_Length_Delimited(scalar_size(Element(lock, t), content[i]))
           need(i) == Length_And(scalar_size(Element(lock, t), content[i]))
<1>1. Len(content) \in Nat
  OBVIOUS
<1>2. Element_Sum(sum, Len(content), lock, t, content)
  BY <1>1, ElementSumExists
<1>3. /\ measured = sum[Len(content)]
      /\ Len(content) \in Field(lock, t).minimum .. Field(lock, t).maximum
  BY DEF Measure_Sequence, Unmeasured, Element_Sum, Next_Sum
<1> HIDE DEF sum
<1>4. sum[0] = Sized(Unsigned_Size(Len(content)))
  BY <1>1, <1>2 DEF Element_Sum
<1>5. \A i \in 1 .. Len(content) :
        sum[i] = IF sum[i - 1].status # "Measured" THEN sum[i - 1]
                 ELSE IF scalar_invalid(Element(lock, t), content[i]) THEN Unmeasured("Invalid_Value")
                 ELSE Accumulated_Size(sum[i - 1], Amount(i))
  <2> SUFFICES ASSUME NEW i \in 1 .. Len(content)
               PROVE  sum[i] = IF sum[i - 1].status # "Measured" THEN sum[i - 1]
                               ELSE IF scalar_invalid(Element(lock, t), content[i]) THEN Unmeasured("Invalid_Value")
                               ELSE Accumulated_Size(sum[i - 1], Amount(i))
    OBVIOUS
  <2>1. i \in 0 .. Len(content) /\ i # 0
    BY <1>1
  <2> QED
    BY <1>2, <2>1, Zenon DEF Element_Sum, Next_Sum
<1>6. \A i \in 1 .. Len(content) :
        /\ need(i) \in Nat
        /\ Amount(i).status \in {"Computed", "Overflow"} /\ Amount(i).result \in Nat
        /\ Amount(i).status = "Computed" => Amount(i).result = need(i)
  <2> SUFFICES ASSUME NEW i \in 1 .. Len(content)
               PROVE  /\ need(i) \in Nat
                      /\ Amount(i).status \in {"Computed", "Overflow"} /\ Amount(i).result \in Nat
                      /\ Amount(i).status = "Computed" => Amount(i).result = need(i)
    OBVIOUS
  <2> PICK size \in Nat : size = scalar_size(Element(lock, t), content[i])
    BY ScalarSize
  <2>1. \/ Measure_Length_Delimited(size) = Computed(Unsigned_Size(size) + size)
        \/ Measure_Length_Delimited(size) = Overflow(0)
    BY DelimitedMeasured
  <2>2. Unsigned_Size(size) + size \in Nat
    BY SizeOfAny, ProfileAssumption
  <2> QED
    BY <2>1, <2>2 DEF Computed, Overflow, Length_And
<1> HIDE DEF need, Amount
<1> DEFINE Good(j) == /\ sum[j - 1].status = "Measured"
                      /\ ~ scalar_invalid(Element(lock, t), content[j])
                      /\ sum[j].size = sum[j - 1].size + need(j)
           Added(i) == sum[i].status = "Measured" =>
                         /\ sum[i] = Sized(sum[i].size)
                         /\ \A j \in 0 .. i : sum[j].size \in Nat
                         /\ \A j \in 1 .. i : Good(j)
           G == {i \in 0 .. Len(content) : Added(i)}
<1> HIDE DEF G
<1>7. ASSUME NEW i \in 0 .. Len(content), \A k \in 0 .. i - 1 : k \in G
      PROVE  i \in G
  <2>1. CASE i = 0
    <3>1. Unsigned_Size(Len(content)) \in Nat
      BY SizeOfAny, ProfileAssumption
    <3> QED
      BY <1>4, <2>1, <3>1 DEF Sized, G
  <2>2. CASE i > 0 /\ sum[i].status = "Measured"
    <3> PICK below \in 0 .. i - 1 : below = i - 1
      BY <2>2
    <3>1. i \in 1 .. Len(content) /\ below \in G
      BY <1>1, <1>7, <2>2
    <3>2. sum[i] = IF sum[below].status # "Measured" THEN sum[below]
                   ELSE IF scalar_invalid(Element(lock, t), content[i]) THEN Unmeasured("Invalid_Value")
                   ELSE Accumulated_Size(sum[below], Amount(i))
      BY <1>5, <3>1
    <3>3. /\ sum[below].status = "Measured"
          /\ ~ scalar_invalid(Element(lock, t), content[i])
          /\ sum[i] = Accumulated_Size(sum[below], Amount(i))
      BY <2>2, <3>2 DEF Unmeasured
    <3> HIDE DEF Good
    <3>4. (\A j \in 0 .. below : sum[j].size \in Nat) /\ (\A j \in 1 .. below : Good(j))
      BY <3>1, <3>3 DEF G
    <3>5. sum[below].size \in Nat
      BY <3>4
    <3>6. Amount(i).status = "Computed" /\ sum[i] = Sized(sum[below].size + Amount(i).result)
      BY <1>6, <2>2, <3>1, <3>3, <3>5, AmountAdded, SMTT(60)
    <3>7. sum[i] = Sized(sum[below].size + need(i)) /\ need(i) \in Nat
      BY <1>6, <3>1, <3>6
    <3>8. sum[i].size = sum[below].size + need(i) /\ sum[i] = Sized(sum[i].size) /\ sum[i].size \in Nat
      BY <3>5, <3>7, SMTT(60) DEF Sized
    <3>9. Good(i)
      BY <3>3, <3>8 DEF Good
    <3>10. \A j \in 0 .. i : sum[j].size \in Nat
      <4> SUFFICES ASSUME NEW j \in 0 .. i
                   PROVE  sum[j].size \in Nat
        OBVIOUS
      <4>1. j = i \/ j \in 0 .. below
        OBVIOUS
      <4> QED
        BY <3>4, <3>8, <4>1, Zenon
    <3>11. \A j \in 1 .. i : Good(j)
      <4> SUFFICES ASSUME NEW j \in 1 .. i
                   PROVE  Good(j)
        OBVIOUS
      <4>1. j = i \/ j \in 1 .. below
        OBVIOUS
      <4> QED
        BY <3>4, <3>9, <4>1
    <3> QED
      BY <3>8, <3>10, <3>11 DEF G
  <2>3. CASE sum[i].status # "Measured"
    BY <2>3 DEF G
  <2> QED
    BY <2>1, <2>2, <2>3
<1>8. Len(content) \in G
  <2>1. \A i \in 0 .. Len(content) : (\A k \in 0 .. i - 1 : k \in G) => i \in G
    BY <1>7
  <2>2. \A i \in 0 .. Len(content) : i \in G
    BY <1>1, <2>1, AllNumbers, Zenon
  <2> QED
    BY <1>1, <2>2
<1> HIDE DEF Good
<1>9. /\ sum[Len(content)] = Sized(sum[Len(content)].size)
      /\ \A j \in 0 .. Len(content) : sum[j].size \in Nat
      /\ \A j \in 1 .. Len(content) : Good(j)
  BY <1>3, <1>8 DEF G
<1> DEFINE upto == [i \in 0 .. Len(content) |-> sum[i].size]
<1>10. Elements_Add_Up(upto, Element(lock, t), content)
  <2>1. upto \in [0 .. Len(content) -> Nat] /\ upto[0] = Unsigned_Size(Len(content))
    BY <1>1, <1>4, <1>9 DEF Sized
  <2>2. \A i \in 1 .. Len(content) : upto[i] = upto[i - 1] + need(i)
    BY <1>1, <1>9 DEF Good
  <2> HIDE DEF upto
  <2> QED
    BY <2>1, <2>2 DEF Elements_Add_Up, need
<1>11. upto[Len(content)] = measured.size
  BY <1>1, <1>3
<1> HIDE DEF upto
<1> QED
  BY <1>3, <1>9, <1>10, <1>11 DEF Good, Elements_Vouched

(* A scalar that is not refused is a number of its type.                   *)
LEMMA NumberIsValid ==
  ASSUME NEW value, value.kind \in Scalars, NEW number \in Int, ~ scalar_invalid(value, number)
  PROVE  Number(value, number)
BY DEF Number, scalar_invalid, Scalars

LEMMA SizeOfSized == \A x : Sized(x).size = x
BY DEF Sized

(***************************************************************************)
(* Measure: a size, or why there is none.                                  *)
(***************************************************************************)
Outcomes == {"Measured", "Invalid_Value", "Size_Overflow"}

(* Those of what is valid. *)
Sizings == {"Measured", "Size_Overflow"}

LEMMA AccumulatedSizing ==
  ASSUME NEW sum, NEW amount
  PROVE  Accumulated_Size(sum, amount).status \in Sizings
BY DEF Accumulated_Size, Unmeasured, Sized, Sizings

LEMMA AccumulatedStatus ==
  ASSUME NEW sum, NEW amount
  PROVE  Accumulated_Size(sum, amount).status \in Outcomes
BY DEF Accumulated_Size, Unmeasured, Sized, Outcomes

(* What every field of a family has, their sum has too.                    *)
LEMMA FieldsStatus ==
  ASSUME NEW outcomes, Sizings \subseteq outcomes,
         NEW sizes, \A t \in DOMAIN sizes : sizes[t].status \in outcomes
  PROVE  Measure_Fields(sizes).status \in outcomes
<1> DEFINE Equation(f) ==
             f = [t \in 0 .. MaxFieldTag |-> IF t = 0 THEN Sized(0) ELSE (IF t \notin DOMAIN sizes \/ f[t - 1].status # "Measured" THEN f[t - 1] ELSE With_Field(f[t - 1], t, sizes[t]))]
           sum == CHOOSE f : Equation(f)
<1>1. MaxFieldTag \in Nat
  BY Limits
<1>2. Equation(sum)
  BY <1>1, FieldSumExists, Zenon
<1>3. Measure_Fields(sizes) = sum[MaxFieldTag]
  BY DEF Measure_Fields
<1> HIDE DEF sum
<1>4. sum[0] = Sized(0)
  BY <1>1, <1>2
<1>5. \A t \in Field_Tag : sum[t] = IF t \notin DOMAIN sizes \/ sum[t - 1].status # "Measured" THEN sum[t - 1] ELSE With_Field(sum[t - 1], t, sizes[t])
  <2> SUFFICES ASSUME NEW t \in Field_Tag
               PROVE  sum[t] = IF t \notin DOMAIN sizes \/ sum[t - 1].status # "Measured" THEN sum[t - 1] ELSE With_Field(sum[t - 1], t, sizes[t])
    OBVIOUS
  <2>1. t \in 0 .. MaxFieldTag /\ t # 0
    BY <1>1 DEF Field_Tag
  <2> QED
    BY <1>2, <2>1, Zenon
<1> HIDE DEF Equation
<1> DEFINE G == {t \in 0 .. MaxFieldTag : sum[t].status \in outcomes}
<1> HIDE DEF G
<1>6. ASSUME NEW t \in 0 .. MaxFieldTag, \A s \in 0 .. t - 1 : s \in G
      PROVE  t \in G
  <2>1. CASE t = 0
    BY <1>4, <2>1 DEF G, Sized, Sizings
  <2>2. CASE t > 0
    <3>1. t \in Field_Tag /\ t - 1 \in 0 .. t - 1
      BY <2>2 DEF Field_Tag
    <3>2. sum[t - 1].status \in outcomes
      BY <1>6, <3>1 DEF G
    <3>3. CASE sum[t] = sum[t - 1]
      BY <3>2, <3>3 DEF G
    <3>4. CASE t \in DOMAIN sizes /\ sum[t] = With_Field(sum[t - 1], t, sizes[t])
      <4>1. sum[t] = IF sizes[t].status # "Measured" THEN sizes[t]
                     ELSE Accumulated_Size(sum[t - 1], Measure_Field(t, sizes[t].size))
        BY <3>4 DEF With_Field
      <4>2. sum[t].status \in outcomes
        BY <3>4, <4>1, AccumulatedSizing
      <4> QED
        BY <4>2 DEF G
    <3> QED
      BY <1>5, <3>1, <3>3, <3>4
  <2> QED
    BY <2>1, <2>2
<1>7. MaxFieldTag \in G
  <2>1. \A i \in 0 .. MaxFieldTag : i \in G
    BY <1>1, <1>6, AllNumbers, Zenon
  <2> QED
    BY <2>1, Limits
<1> QED
  BY <1>3, <1>7 DEF G

LEMMA SequenceStatus ==
  ASSUME NEW lock, NEW t, NEW content \in Seq(Int)
  PROVE  Measure_Sequence(lock, t, content).status \in Outcomes
<1> DEFINE sum == CHOOSE f : Element_Sum(f, Len(content), lock, t, content)
<1>1. Len(content) \in Nat
  OBVIOUS
<1>2. Element_Sum(sum, Len(content), lock, t, content)
  BY <1>1, ElementSumExists
<1>3. \/ Measure_Sequence(lock, t, content) = sum[Len(content)]
      \/ Measure_Sequence(lock, t, content) = Unmeasured("Invalid_Value")
  BY DEF Measure_Sequence, Element_Sum, Next_Sum
<1> HIDE DEF sum
<1> DEFINE G == {i \in 0 .. Len(content) : sum[i].status \in Outcomes}
<1> HIDE DEF G
<1>4. ASSUME NEW i \in 0 .. Len(content), \A k \in 0 .. i - 1 : k \in G
      PROVE  i \in G
  <2>1. CASE i = 0
    <3>1. sum[0] = Sized(Unsigned_Size(Len(content)))
      BY <1>1, <1>2 DEF Element_Sum
    <3> QED
      BY <2>1, <3>1 DEF G, Sized, Outcomes
  <2>2. CASE i > 0
    <3>1. i - 1 \in 0 .. i - 1 /\ i - 1 \in 0 .. Len(content) /\ i # 0
      BY <2>2
    <3>2. sum[i - 1].status \in Outcomes
      BY <1>4, <3>1 DEF G
    <3>3. sum[i] = Next_Sum(lock, t, content, sum[i - 1], i)
      BY <1>2, <3>1, Zenon DEF Element_Sum
    <3>4. Unmeasured("Invalid_Value").status \in Outcomes
      BY DEF Unmeasured, Outcomes
    <3>5. sum[i].status \in Outcomes
      BY <3>2, <3>3, <3>4, AccumulatedStatus DEF Next_Sum
    <3> QED
      BY <3>5 DEF G
  <2> QED
    BY <2>1, <2>2
<1>5. Len(content) \in G
  <2>1. \A i \in 0 .. Len(content) : (\A k \in 0 .. i - 1 : k \in G) => i \in G
    BY <1>4
  <2>2. \A i \in 0 .. Len(content) : i \in G
    BY <1>1, <2>1, AllNumbers, Zenon
  <2> QED
    BY <1>1, <2>2
<1> QED
  BY <1>3, <1>5 DEF G, Unmeasured, Outcomes

(***************************************************************************)
(* The sizes of the tools.  varint_size divides until nothing is left, of  *)
(* integers of any width; the generated codec compares with thresholds.    *)
(***************************************************************************)
Next_Size(f, v) == IF v < Radix THEN 1 ELSE 1 + f[v \div Radix]
Sizes_Upto(f, n) == f = [v \in 0 .. n |-> Next_Size(f, v)]

LEMMA QuotientIsSmaller ==
  ASSUME NEW v \in Nat, ~ (v < Radix)
  PROVE  v \div Radix \in Nat /\ v \div Radix < v
<1>1. Radix \in Nat /\ Radix >= 2
  BY Limits
<1>2. PICK q \in Nat : q = v \div Radix
  BY <1>1, Division
<1>3. PICK low \in 0 .. Radix - 1 : low = v % Radix
  BY <1>1, Division
<1>4. v = Radix * q + low
  BY <1>1, <1>2, <1>3, Division
<1>5. q > 0
  <2>1. CASE q = 0
    <3>1. Radix * q = 0
      BY <1>1, <2>1
    <3> QED
      BY <1>1, <1>3, <1>4, <3>1
  <2> QED
    BY <2>1
<1>6. q * 2 <= q * Radix
  BY <1>1, ProductGrows
<1>7. q * Radix = Radix * q /\ q * 2 = q + q /\ Radix * q \in Nat
  BY <1>1
<1> QED
  BY <1>2, <1>3, <1>4, <1>5, <1>6, <1>7

LEMMA SizesUpto ==
  ASSUME NEW top \in Nat
  PROVE  \E f : Sizes_Upto(f, top)
<1> DEFINE G == {n \in 0 .. top : \E f : Sizes_Upto(f, n)}
<1>1. ASSUME NEW n \in 0 .. top, \A m \in 0 .. n - 1 : m \in G
      PROVE  n \in G
  <2>1. PICK f : \A v \in 0 .. n - 1 : f[v] = Next_Size(f, v)
    <3>1. CASE n = 0
      BY <3>1
    <3>2. CASE n > 0
      <4>1. n - 1 \in G
        BY <1>1, <3>2
      <4>2. PICK f : Sizes_Upto(f, n - 1)
        BY <4>1
      <4>3. \A v \in 0 .. n - 1 : f[v] = Next_Size(f, v)
        BY <4>2, Zenon DEF Sizes_Upto
      <4> QED
        BY <4>3
    <3> QED
      BY <3>1, <3>2
  <2> DEFINE g == [v \in 0 .. n |-> Next_Size(f, v)]
  <2>2. ASSUME NEW v \in 0 .. n
        PROVE  g[v] = Next_Size(g, v)
    <3>1. g[v] = Next_Size(f, v)
      OBVIOUS
    <3>2. CASE v < Radix
      BY <3>1, <3>2 DEF Next_Size
    <3>3. CASE ~ (v < Radix)
      <4>1. v \div Radix \in 0 .. n - 1 /\ v \div Radix \in 0 .. n
        BY <3>3, QuotientIsSmaller
      <4>2. g[v \div Radix] = f[v \div Radix]
        BY <2>1, <4>1
      <4> QED
        BY <3>1, <3>3, <4>2 DEF Next_Size
    <3> QED
      BY <3>2, <3>3
  <2>3. g = [v \in 0 .. n |-> Next_Size(g, v)]
    BY <2>2
  <2> HIDE DEF g
  <2> QED
    BY <2>3 DEF Sizes_Upto
<1> HIDE DEF G
<1>2. top \in G
  <2>1. \A i \in 0 .. top : i \in G
    BY <1>1, AllNumbers, Zenon
  <2> QED
    BY <2>1
<1> QED
  BY <1>2 DEF G

(* Where two of them go, they agree.                                       *)
LEMMA SizesAgree ==
  ASSUME NEW n \in Nat, NEW m \in Nat, NEW f, NEW g, Sizes_Upto(f, n), Sizes_Upto(g, m),
         NEW v \in Nat, v <= n, v <= m
  PROVE  f[v] = g[v]
<1> DEFINE G == {w \in 0 .. v : f[w] = g[w]}
<1>1. ASSUME NEW w \in 0 .. v, \A u \in 0 .. w - 1 : u \in G
      PROVE  w \in G
  <2>1. w \in 0 .. n /\ w \in 0 .. m
    OBVIOUS
  <2>2. f[w] = Next_Size(f, w)
    BY <2>1, Zenon DEF Sizes_Upto
  <2>3. g[w] = Next_Size(g, w)
    BY <2>1, Zenon DEF Sizes_Upto
  <2>4. CASE w < Radix
    BY <2>2, <2>3, <2>4 DEF Next_Size
  <2>5. CASE ~ (w < Radix)
    <3>1. w \div Radix \in 0 .. w - 1
      BY <2>5, QuotientIsSmaller
    <3>2. f[w \div Radix] = g[w \div Radix]
      BY <1>1, <3>1
    <3> QED
      BY <2>2, <2>3, <2>5, <3>2 DEF Next_Size
  <2> QED
    BY <2>4, <2>5
<1> HIDE DEF G
<1>2. v \in G
  <2>1. \A i \in 0 .. v : i \in G
    BY <1>1, AllNumbers, Zenon
  <2> QED
    BY <2>1
<1> QED
  BY <1>2 DEF G

LEMMA VarintSize ==
  ASSUME NEW v \in Nat
  PROVE  varint_size(v) = IF v < Radix THEN 1 ELSE 1 + varint_size(v \div Radix)
<1> DEFINE Equation(f) == f = [u \in Nat |-> IF u < Radix THEN 1 ELSE 1 + f[u \div Radix]]
           h == [u \in Nat |-> (CHOOSE f : Sizes_Upto(f, u))[u]]
           size == CHOOSE f : Equation(f)
<1>1. ASSUME NEW u \in Nat
      PROVE  h[u] = IF u < Radix THEN 1 ELSE 1 + h[u \div Radix]
  <2> DEFINE f == CHOOSE f : Sizes_Upto(f, u)
  <2>1. Sizes_Upto(f, u)
    BY SizesUpto, Zenon
  <2>2. h[u] = f[u]
    OBVIOUS
  <2> HIDE DEF f
  <2>3. f[u] = Next_Size(f, u)
    <3>1. u \in 0 .. u
      OBVIOUS
    <3> QED
      BY <2>1, <3>1, Zenon DEF Sizes_Upto
  <2>4. CASE u < Radix
    BY <2>2, <2>3, <2>4 DEF Next_Size
  <2>5. CASE ~ (u < Radix)
    <3>1. PICK q \in Nat : q = u \div Radix /\ q < u
      BY <2>5, QuotientIsSmaller
    <3> DEFINE g == CHOOSE g : Sizes_Upto(g, q)
    <3>2. Sizes_Upto(g, q)
      BY SizesUpto, Zenon
    <3>3. h[q] = g[q]
      OBVIOUS
    <3> HIDE DEF g, h
    <3>4. f[q] = g[q]
      BY <2>1, <3>1, <3>2, SizesAgree
    <3> QED
      BY <2>2, <2>3, <2>5, <3>1, <3>3, <3>4 DEF Next_Size
  <2> QED
    BY <2>4, <2>5
<1>2. Equation(h)
  <2>1. \A u \in Nat : h[u] = IF u < Radix THEN 1 ELSE 1 + h[u \div Radix]
    BY <1>1
  <2>2. h = [u \in Nat |-> h[u]]
    OBVIOUS
  <2> HIDE DEF h
  <2> QED
    BY <2>1, <2>2
<1> HIDE DEF h
<1>3. Equation(size)
  BY <1>2
<1>4. \A u \in Nat : varint_size(u) = size[u]
  BY DEF varint_size
<1> HIDE DEF size
<1>5. size[v] = IF v < Radix THEN 1 ELSE 1 + size[v \div Radix]
  BY <1>3
<1>6. CASE v < Radix
  BY <1>4, <1>5, <1>6
<1>7. CASE ~ (v < Radix)
  <2>1. v \div Radix \in Nat
    BY <1>7, QuotientIsSmaller
  <2> QED
    BY <1>4, <1>5, <1>7, <2>1
<1> QED
  BY <1>6, <1>7

LEMMA VarintIsSome ==
  ASSUME NEW v \in Nat
  PROVE  varint_size(v) \in Nat \ {0}
<1> DEFINE G == {w \in 0 .. v : varint_size(w) \in Nat \ {0}}
<1>1. ASSUME NEW w \in 0 .. v, \A u \in 0 .. w - 1 : u \in G
      PROVE  w \in G
  <2>1. CASE w < Radix
    BY <2>1, VarintSize
  <2>2. CASE ~ (w < Radix)
    <3>1. w \div Radix \in 0 .. w - 1
      BY <2>2, QuotientIsSmaller
    <3>2. varint_size(w \div Radix) \in Nat \ {0}
      BY <1>1, <3>1
    <3>3. varint_size(w) = 1 + varint_size(w \div Radix)
      BY <2>2, VarintSize
    <3> QED
      BY <3>2, <3>3
  <2> QED
    BY <2>1, <2>2
<1> HIDE DEF G
<1>2. v \in G
  <2>1. \A i \in 0 .. v : i \in G
    BY <1>1, AllNumbers, Zenon
  <2> QED
    BY <2>1
<1> QED
  BY <1>2 DEF G

(* It reaches every threshold of the codec.                                *)
LEMMA VarintReaches ==
  ASSUME NEW k \in 0 .. LastGroup
  PROVE  \A v \in Nat : v >= Radix ^ k => varint_size(v) >= k + 1
<1> DEFINE G == {g \in 0 .. LastGroup : \A v \in Nat : v >= Radix ^ g => varint_size(v) >= g + 1}
<1>0. LastGroup \in Nat /\ Radix \in Nat /\ Radix >= 2
  BY Limits
<1>1. ASSUME NEW g \in 0 .. LastGroup, \A h \in 0 .. g - 1 : h \in G
      PROVE  g \in G
  <2>1. CASE g = 0
    <3>1. \A v \in Nat : varint_size(v) >= g + 1
      BY <2>1, VarintIsSome
    <3> QED
      BY <3>1
  <2>2. CASE g > 0
    <3> SUFFICES ASSUME NEW v \in Nat, v >= Radix ^ g
                 PROVE  varint_size(v) >= g + 1
      OBVIOUS
    <3>1. PICK below \in 0 .. LastGroup : below = g - 1 /\ below \in 0 .. g - 1 /\ below + 1 = g
      BY <1>0, <2>2
    <3>2. PICK p \in Nat \ {0} : p = Radix ^ below
      BY <3>1, Limits
    <3>3. Radix ^ g = Radix * p
      BY <3>1, <3>2, PowerAssumption
    <3>4. v >= Radix * p /\ Radix * p >= Radix /\ Radix * p \in Nat
      <4>1. Radix * 1 <= Radix * p
        BY <1>0, ProductGrows
      <4> QED
        BY <1>0, <3>3, <4>1
    <3>5. v \div Radix >= p
      BY <1>0, <3>4, Reaching
    <3>6. ~ (v < Radix)
      BY <1>0, <3>4
    <3>7. PICK q \in Nat : q = v \div Radix
      BY <3>6, QuotientIsSmaller
    <3>8. varint_size(q) >= below + 1 /\ varint_size(q) \in Nat
      <4>1. below \in G
        BY <1>1, <3>1
      <4>2. q >= Radix ^ below
        BY <3>2, <3>5, <3>7
      <4> QED
        BY <4>1, <4>2, VarintIsSome
    <3>9. varint_size(v) = 1 + varint_size(q)
      BY <3>6, <3>7, VarintSize
    <3> QED
      BY <3>1, <3>8, <3>9
  <2> QED
    BY <2>1, <2>2
<1> HIDE DEF G
<1>2. k \in G
  <2>1. \A i \in 0 .. LastGroup : i \in G
    BY <1>0, <1>1, AllNumbers, Zenon
  <2> QED
    BY <2>1
<1> QED
  BY <1>2 DEF G

(* An integer takes no more octets than the tools reckon for a larger one. *)
LEMMA VarintCovers ==
  ASSUME NEW x \in Nat, NEW y \in Nat, x <= y
  PROVE  Unsigned_Size(x) <= varint_size(y) /\ Unsigned_Size(x) \in Nat /\ varint_size(y) \in Nat
<1>1. PICK s \in 1 .. LastGroup + 1 : s = Unsigned_Size(x)
  BY Thresholds
<1>2. varint_size(y) \in Nat /\ varint_size(y) >= 1
  BY VarintIsSome
<1>3. LastGroup \in Nat
  BY Limits
<1>4. CASE s = 1
  BY <1>1, <1>2, <1>4
<1>5. CASE s > 1
  <2>1. PICK k \in 1 .. LastGroup : k = s - 1
    BY <1>3, <1>5
  <2>2. k < Unsigned_Size(x)
    BY <1>1, <1>3, <2>1
  <2>3. x >= Radix ^ k
    BY <2>2, Thresholds
  <2>4. k \in 0 .. LastGroup /\ Radix ^ k \in Nat
    BY <1>3, Limits
  <2>5. y >= Radix ^ k
    BY <2>3, <2>4
  <2>6. varint_size(y) >= k + 1
    BY <2>4, <2>5, VarintReaches
  <2> QED
    BY <1>1, <1>2, <1>3, <2>1, <2>6
<1> QED
  BY <1>3, <1>4, <1>5, <1>1, <1>2

-----------------------------------------------------------------------------

(***************************************************************************)
(* The maximum of a lock, and its parts.                                   *)
(***************************************************************************)

(* Numbers, each got from the one before, exist.                           *)
Stepped(f, top, base, step) ==
  /\ f \in [0 .. top -> Nat] /\ f[0] = base
  /\ \A n \in 1 .. top : f[n] = step[<<n, f[n - 1]>>]

LEMMA StepByStep ==
  ASSUME NEW top \in Nat, NEW base \in Nat, NEW step \in [(1 .. top) \X Nat -> Nat]
  PROVE  \E f : Stepped(f, top, base, step)
<1> DEFINE Upto(f, m) == f \in [0 .. m -> Nat] /\ f[0] = base /\ \A n \in 1 .. m : f[n] = step[<<n, f[n - 1]>>]
           G == {m \in 0 .. top : \E f : Upto(f, m)}
<1>1. ASSUME NEW m \in 0 .. top, \A k \in 0 .. m - 1 : k \in G
      PROVE  m \in G
  <2>1. CASE m = 0
    <3> DEFINE f == [n \in 0 .. m |-> base]
    <3>1. Upto(f, m)
      BY <2>1
    <3> QED
      BY <3>1
  <2>2. CASE m > 0
    <3>1. PICK k \in Nat : k = m - 1 /\ k \in 0 .. m - 1 /\ m \in 1 .. top
      BY <2>2
    <3>2. PICK f : Upto(f, k)
      BY <1>1, <3>1
    <3> DEFINE g == [n \in 0 .. m |-> IF n = m THEN step[<<m, f[k]>>] ELSE f[n]]
    <3>3. g \in [0 .. m -> Nat]
      <4>1. f[k] \in Nat /\ <<m, f[k]>> \in (1 .. top) \X Nat
        BY <3>1, <3>2
      <4>2. step[<<m, f[k]>>] \in Nat
        BY <4>1, Zenon
      <4>3. ASSUME NEW n \in 0 .. m, n # m
            PROVE  f[n] \in Nat
        BY <3>1, <3>2, <4>3
      <4> QED
        BY <4>2, <4>3
    <3>4. g[0] = base
      BY <2>2, <3>2
    <3>5. ASSUME NEW n \in 1 .. m
          PROVE  g[n] = step[<<n, g[n - 1]>>]
      <4>1. g[n - 1] = f[n - 1] /\ n \in 0 .. m
        BY <2>2
      <4>2. CASE n = m
        BY <3>1, <4>1, <4>2
      <4>3. CASE n # m
        <5>1. n \in 1 .. k /\ g[n] = f[n]
          BY <3>1, <4>1, <4>3
        <5> QED
          BY <3>2, <4>1, <5>1
      <4> QED
        BY <4>2, <4>3
    <3> HIDE DEF g
    <3>6. Upto(g, m)
      BY <3>3, <3>4, <3>5
    <3> QED
      BY <3>6
  <2> QED
    BY <2>1, <2>2, SMTT(60)
<1> HIDE DEF G
<1>2. top \in G
  <2>1. \A i \in 0 .. top : i \in G
    BY <1>1, AllNumbers, Zenon
  <2> QED
    BY <2>1
<1> QED
  BY <1>2 DEF G, Stepped

(* Sums of sizes, up to each tag.                                          *)
Sums_Up(upto, sizes) ==
  /\ upto \in [0 .. MaxFieldTag -> Nat] /\ upto[0] = 0
  /\ \A t \in Field_Tag :
       upto[t] = IF t \in DOMAIN sizes THEN upto[t - 1] + sizes[t] ELSE upto[t - 1]

LEMMA SumsExist ==
  ASSUME NEW sizes, \A t \in DOMAIN sizes : sizes[t] \in Nat
  PROVE  \E upto : Sums_Up(upto, sizes) /\ Summed(sizes) = upto[MaxFieldTag]
<1> DEFINE Equation(f) ==
             f = [t \in Tag_Number |->
                    IF t = 0 THEN 0
                    ELSE IF t \in DOMAIN sizes THEN f[t - 1] + sizes[t] ELSE f[t - 1]]
           sum == CHOOSE f : Equation(f)
           step == [x \in (1 .. MaxFieldTag) \X Nat |-> IF x[1] \in DOMAIN sizes THEN x[2] + sizes[x[1]] ELSE x[2]]
<1>1. MaxFieldTag \in Nat
  BY Limits
<1>2. step \in [(1 .. MaxFieldTag) \X Nat -> Nat]
  OBVIOUS
<1>3. \A n \in 1 .. MaxFieldTag : \A b \in Nat : step[<<n, b>>] = IF n \in DOMAIN sizes THEN b + sizes[n] ELSE b
  OBVIOUS
<1> HIDE DEF step
<1>0. PICK h : Stepped(h, MaxFieldTag, 0, step)
  BY <1>1, <1>2, StepByStep
<1>4. h \in [0 .. MaxFieldTag -> Nat] /\ h[0] = 0 /\ \A n \in 1 .. MaxFieldTag : h[n] = step[<<n, h[n - 1]>>]
  BY <1>0 DEF Stepped
<1>5. \A t \in 0 .. MaxFieldTag :
        h[t] = IF t = 0 THEN 0 ELSE IF t \in DOMAIN sizes THEN h[t - 1] + sizes[t] ELSE h[t - 1]
  <2> SUFFICES ASSUME NEW t \in 1 .. MaxFieldTag
               PROVE  h[t] = IF t \in DOMAIN sizes THEN h[t - 1] + sizes[t] ELSE h[t - 1]
    BY <1>1, <1>4
  <2>1. h[t - 1] \in Nat
    BY <1>1, <1>4
  <2> QED
    BY <1>3, <1>4, <2>1
<1>6. Equation(h)
  <2>1. h = [t \in Tag_Number |-> h[t]]
    BY <1>4 DEF Tag_Number
  <2> QED
    BY <1>5, <2>1 DEF Tag_Number
<1>7. Equation(sum)
  BY <1>6
<1>8. Summed(sizes) = sum[MaxFieldTag]
  BY DEF Summed
<1> HIDE DEF sum
<1>9. \A t \in 0 .. MaxFieldTag :
        sum[t] = IF t = 0 THEN 0 ELSE IF t \in DOMAIN sizes THEN sum[t - 1] + sizes[t] ELSE sum[t - 1]
  BY <1>7 DEF Tag_Number
<1>10. sum = [t \in 0 .. MaxFieldTag |-> sum[t]]
  BY <1>7 DEF Tag_Number
<1> HIDE DEF Equation
<1> DEFINE G == {t \in 0 .. MaxFieldTag : sum[t] \in Nat}
<1>11. ASSUME NEW t \in 0 .. MaxFieldTag, \A s \in 0 .. t - 1 : s \in G
       PROVE  t \in G
  <2>1. CASE t = 0
    BY <1>9, <2>1
  <2>2. CASE t > 0
    <3>1. sum[t - 1] \in Nat
      BY <1>11, <2>2
    <3> QED
      BY <1>9, <2>2, <3>1
  <2> QED
    BY <2>1, <2>2
<1> HIDE DEF G
<1>12. \A t \in 0 .. MaxFieldTag : t \in G
  BY <1>1, <1>11, AllNumbers, Zenon
<1>13. sum \in [0 .. MaxFieldTag -> Nat]
  BY <1>10, <1>12 DEF G
<1>14. Sums_Up(sum, sizes)
  <2>1. sum[0] = 0
    BY <1>1, <1>9
  <2>2. \A t \in Field_Tag : t \in 0 .. MaxFieldTag /\ t # 0
    BY <1>1 DEF Field_Tag
  <2>3. \A t \in Field_Tag : sum[t] = IF t \in DOMAIN sizes THEN sum[t - 1] + sizes[t] ELSE sum[t - 1]
    BY <1>9, <2>2
  <2> QED
    BY <1>13, <2>1, <2>3 DEF Sums_Up
<1> QED
  BY <1>8, <1>14

(* No sum of some of them exceeds the sum of all.                          *)
LEMMA SumsStay ==
  ASSUME NEW sizes, \A t \in DOMAIN sizes : sizes[t] \in Nat, NEW upto, Sums_Up(upto, sizes),
         NEW s \in 0 .. MaxFieldTag
  PROVE  upto[s] <= upto[MaxFieldTag]
<1> DEFINE G == {t \in 0 .. MaxFieldTag : s <= t => upto[s] <= upto[t]}
<1>1. MaxFieldTag \in Nat /\ upto \in [0 .. MaxFieldTag -> Nat]
  BY Limits DEF Sums_Up
<1>2. ASSUME NEW t \in 0 .. MaxFieldTag, \A u \in 0 .. t - 1 : u \in G
      PROVE  t \in G
  <2>1. CASE t <= s
    BY <1>1, <2>1
  <2>2. CASE t > s
    <3>1. PICK u \in 0 .. MaxFieldTag : u = t - 1 /\ u \in 0 .. t - 1 /\ s <= u /\ t \in Field_Tag
      BY <1>1, <2>2 DEF Field_Tag
    <3>2. upto[s] <= upto[u]
      BY <1>2, <3>1
    <3>3. upto[t] = IF t \in DOMAIN sizes THEN upto[u] + sizes[t] ELSE upto[u]
      BY <3>1 DEF Sums_Up
    <3>4. upto[s] \in Nat /\ upto[u] \in Nat
      BY <1>1
    <3>5. upto[s] <= upto[t]
      BY <3>2, <3>3, <3>4
    <3> QED
      BY <3>5
  <2> QED
    BY <1>1, <2>1, <2>2
<1> HIDE DEF G
<1>3. \A t \in 0 .. MaxFieldTag : t \in G
  BY <1>1, <1>2, AllNumbers, Zenon
<1> QED
  BY <1>1, <1>3 DEF G

(* The greatest of finitely many numbers.                                  *)
Greatest(m, S) == m \in S /\ m \in Nat /\ \A x \in S : x <= m

LEMMA GreatestIsMax ==
  ASSUME NEW S, S \subseteq Nat, NEW m, Greatest(m, S)
  PROVE  Greatest(Max(S), S)
BY DEF Greatest, Max

LEMMA GreatestOfTwo ==
  ASSUME NEW a \in Nat, NEW b \in Nat
  PROVE  Greatest(Max({a, b}), {a, b})
<1>1. Greatest(a, {a, b}) \/ Greatest(b, {a, b})
  BY DEF Greatest
<1> QED
  BY <1>1, GreatestIsMax

LEMMA GreatestOfTags ==
  ASSUME NEW T, T \subseteq Field_Tag, T # {}, NEW f, \A t \in T : f[t] \in Nat,
         NEW S, S = {f[t] : t \in T}
  PROVE  Greatest(Max(S), S)
<1> DEFINE Some(n) == {f[t] : t \in {u \in T : u <= n}}
           Bounded_Upto(n) == Some(n) # {} => \E m : Greatest(m, Some(n))
           G == {n \in 0 .. MaxFieldTag : Bounded_Upto(n)}
<1>1. MaxFieldTag \in Nat
  BY Limits
<1>2. ASSUME NEW n \in 0 .. MaxFieldTag, \A k \in 0 .. n - 1 : k \in G
      PROVE  n \in G
  <2> SUFFICES Bounded_Upto(n)
    OBVIOUS
  <2>1. CASE n = 0
    <3>1. Some(n) = {}
      BY <2>1 DEF Field_Tag
    <3> QED
      BY <3>1
  <2>2. CASE n > 0
    <3>1. PICK k \in 0 .. n - 1 : k = n - 1
      BY <2>2
    <3>2. Bounded_Upto(k)
      BY <1>2, <3>1
    <3>3. CASE n \notin T
      <4>1. \A u \in T : u <= n <=> u <= k
        <5> TAKE u \in T
        <5>1. u \in Int /\ u # n /\ n \in Int /\ k = n - 1
          BY <1>1, <3>1, <3>3 DEF Field_Tag
        <5> QED
          BY <5>1
      <4>2. Some(n) = Some(k)
        BY <4>1
      <4> HIDE DEF Some
      <4> QED
        BY <3>2, <4>2
    <3>4. CASE n \in T
      <4>0. \A u \in T : u <= n <=> (u = n \/ u <= k)
        <5> TAKE u \in T
        <5>1. u \in Int /\ n \in Int /\ k = n - 1
          BY <1>1, <3>1 DEF Field_Tag
        <5> QED
          BY <5>1
      <4>1. Some(n) = Some(k) \cup {f[n]}
        BY <3>4, <4>0
      <4>2. f[n] \in Nat /\ Some(k) \subseteq Nat
        BY <3>4
      <4> HIDE DEF Some
      <4>3. CASE Some(k) = {}
        <5>1. Greatest(f[n], Some(n))
          BY <4>1, <4>2, <4>3 DEF Greatest
        <5> QED
          BY <5>1
      <4>4. CASE Some(k) # {}
        <5>1. PICK m : Greatest(m, Some(k))
          BY <3>2, <4>4
        <5>2. Greatest(m, Some(n)) \/ Greatest(f[n], Some(n))
          BY <4>1, <4>2, <5>1 DEF Greatest
        <5> QED
          BY <5>2
      <4> QED
        BY <4>3, <4>4
    <3> QED
      BY <3>3, <3>4
  <2> HIDE DEF Bounded_Upto
  <2> QED
    BY <2>1, <2>2
<1> HIDE DEF G
<1>3. \A n \in 0 .. MaxFieldTag : n \in G
  BY <1>1, <1>2, AllNumbers, Zenon
<1>4. Some(MaxFieldTag) = S
  BY <1>1 DEF Field_Tag
<1> HIDE DEF Some
<1>5. S # {} /\ S \subseteq Nat
  OBVIOUS
<1>6. \E m : Greatest(m, S)
  <2>1. Bounded_Upto(MaxFieldTag)
    <3> HIDE DEF Bounded_Upto
    <3> QED
      BY <1>1, <1>3 DEF G
  <2> QED
    BY <1>4, <1>5, <2>1
<1> QED
  BY <1>5, <1>6, GreatestIsMax

LEMMA FramedIsNat ==
  ASSUME NEW size \in Nat
  PROVE  /\ Framed(size) \in Nat /\ Framed(size) >= size
         /\ \A t \in Nat : Tagged_size(t, size) \in Nat /\ Tagged_size(t, size) >= size
BY VarintIsSome DEF Framed, Tagged_size

LEMMA MostElements ==
  ASSUME NEW value, value.rank \in Nat, value.maximum \in Nat
  PROVE  Most_Elements(value) \in Nat /\ (value.rank = 1 => Most_Elements(value) = value.maximum)
<1> DEFINE rank == value.rank
           most == value.maximum
           Equation(f) == f = [d \in 0 .. rank |-> IF d = 0 THEN 1 ELSE f[d - 1] * most]
           count == CHOOSE f : Equation(f)
           step == [x \in (1 .. rank) \X Nat |-> x[2] * most]
<1>1. rank \in Nat /\ most \in Nat /\ 1 \in Nat
  OBVIOUS
<1>2. Most_Elements(value) = count[rank]
  BY DEF Most_Elements
<1> HIDE DEF rank, most
<1>3. step \in [(1 .. rank) \X Nat -> Nat]
  <2>1. ASSUME NEW x \in (1 .. rank) \X Nat
        PROVE  x[2] * most \in Nat
    BY <1>1, ProductIsNat
  <2> QED
    BY <2>1
<1>4. \A n \in 1 .. rank : \A b \in Nat : step[<<n, b>>] = b * most
  OBVIOUS
<1> HIDE DEF step
<1>0. PICK h : Stepped(h, rank, 1, step)
  BY <1>1, <1>3, StepByStep
<1>5. h \in [0 .. rank -> Nat] /\ h[0] = 1 /\ \A n \in 1 .. rank : h[n] = step[<<n, h[n - 1]>>]
  BY <1>0 DEF Stepped
<1>6. \A d \in 0 .. rank : h[d] = IF d = 0 THEN 1 ELSE h[d - 1] * most
  <2> SUFFICES ASSUME NEW d \in 1 .. rank
               PROVE  h[d] = h[d - 1] * most
    BY <1>1, <1>5
  <2>1. h[d - 1] \in Nat
    BY <1>1, <1>5
  <2> QED
    BY <1>4, <1>5, <2>1
<1>7. Equation(h)
  <2>1. h = [d \in 0 .. rank |-> h[d]]
    BY <1>5
  <2> QED
    BY <1>6, <2>1
<1>8. Equation(count)
  BY <1>7
<1> HIDE DEF count
<1>9. \A d \in 0 .. rank : count[d] = IF d = 0 THEN 1 ELSE count[d - 1] * most
  BY <1>8
<1> HIDE DEF Equation
<1> DEFINE G == {d \in 0 .. rank : count[d] \in Nat}
<1>10. ASSUME NEW d \in 0 .. rank, \A k \in 0 .. d - 1 : k \in G
       PROVE  d \in G
  <2>1. CASE d = 0
    BY <1>9, <2>1
  <2>2. CASE d > 0
    <3>1. count[d - 1] \in Nat
      BY <1>10, <2>2
    <3>2. count[d - 1] * most \in Nat
      BY <1>1, <3>1, ProductIsNat
    <3>3. count[d] = count[d - 1] * most
      BY <1>9, <2>2
    <3> QED
      BY <3>2, <3>3
  <2> QED
    BY <2>1, <2>2
<1> HIDE DEF G
<1>11. \A d \in 0 .. rank : d \in G
  BY <1>1, <1>10, AllNumbers, Zenon
<1>12. count[rank] \in Nat
  BY <1>1, <1>11 DEF G
<1>13. ASSUME rank = 1
       PROVE  count[rank] = most
  <2>1. count[0] = 1 /\ count[1] = count[1 - 1] * most
    BY <1>9, <1>13
  <2> QED
    BY <1>1, <1>13, <2>1
<1> QED
  BY <1>2, <1>12, <1>13 DEF rank, most

LEMMA ZigZagIsNat ==
  ASSUME NEW n \in Int
  PROVE  ZigZag_Encode(n) \in Nat
BY DEF ZigZag_Encode

(* Every value has a maximum if those below it have one.                   *)
LEMMA ValueSizeIsNat ==
  ASSUME NEW value, Proper(value), NEW below, \A t \in Children(value) : below[t] \in Nat
  PROVE  value_size(value, below) \in Nat
<1>1. /\ value.kind \in Kind /\ value.minimum \in Int /\ value.maximum \in Int /\ value.rank \in Nat
      /\ value.tags \subseteq Field_Tag
      /\ value.kind \in {"enumeration", "variant"} => value.tags # {}
      /\ value.kind \in {"unsigned", "bytes", "text", "sequence"} => value.maximum \in Nat
  BY DEF Proper, Value, Wire_Bounds, Tagged, Bounded
<1>2. \A t \in value.tags : t \in Nat /\ varint_size(t) \in Nat
  BY <1>1, VarintIsSome, Limits DEF Field_Tag
<1>3. CASE value.kind = "boolean"
  BY <1>3 DEF value_size
<1>4. CASE value.kind = "unsigned"
  BY <1>1, <1>4, VarintIsSome DEF value_size
<1>5. CASE value.kind = "signed"
  <2> PICK a \in Nat, b \in Nat : a = varint_size(ZigZag_Encode(value.minimum)) /\ b = varint_size(ZigZag_Encode(value.maximum))
    BY <1>1, VarintIsSome, ZigZagIsNat
  <2>1. value_size(value, below) = Max({a, b})
    BY <1>5 DEF value_size
  <2> QED
    BY <2>1, GreatestOfTwo DEF Greatest
<1>6. CASE value.kind = "enumeration"
  <2> DEFINE f == [t \in value.tags |-> varint_size(t)]
             S == {varint_size(t) : t \in value.tags}
  <2>1. S = {f[t] : t \in value.tags} /\ \A t \in value.tags : f[t] \in Nat
    BY <1>2
  <2>2. value_size(value, below) = Max(S)
    BY <1>6 DEF value_size
  <2> HIDE DEF f, S
  <2>3. Greatest(Max(S), S)
    BY <1>1, <1>6, <2>1, GreatestOfTags
  <2> QED
    BY <2>2, <2>3 DEF Greatest
<1>7. CASE value.kind \in {"record", "variant"}
  <2>1. \A t \in value.tags : below[t] \in Nat
    BY <1>7 DEF Children
  <2>2. \A t \in value.tags : Tagged_size(t, below[t]) \in Nat
    BY <1>2, <2>1, FramedIsNat
  <2> DEFINE f == [t \in value.tags |-> Tagged_size(t, below[t])]
             S == {Tagged_size(t, below[t]) : t \in value.tags}
  <2>3. \A t \in DOMAIN f : f[t] \in Nat
    BY <2>2
  <2>4. S = {f[t] : t \in value.tags} /\ DOMAIN f = value.tags
    OBVIOUS
  <2>5. value.kind = "record" => value_size(value, below) = Summed(f)
    BY DEF value_size
  <2>6. value.kind = "variant" => value_size(value, below) = Max(S)
    BY DEF value_size
  <2> HIDE DEF f, S
  <2>7. Summed(f) \in Nat
    <3> PICK upto : Sums_Up(upto, f) /\ Summed(f) = upto[MaxFieldTag]
      BY <2>3, SumsExist
    <3> QED
      BY Limits DEF Sums_Up
  <2>8. value.kind = "variant" => Greatest(Max(S), S)
    BY <1>1, <2>3, <2>4, GreatestOfTags
  <2> QED
    BY <1>7, <2>5, <2>6, <2>7, <2>8 DEF Greatest
<1>8. CASE value.kind \in {"sequence", "optional"}
  <2>1. below[Inner] \in Nat
    BY <1>8 DEF Children
  <2> PICK framed \in Nat : framed = Framed(below[Inner])
    BY <2>1, FramedIsNat
  <2>2. value.kind = "optional" => value_size(value, below) = 1 + framed
    BY DEF value_size
  <2>3. value.kind = "sequence" => value_size(value, below) \in Nat
    <3> SUFFICES ASSUME value.kind = "sequence"
                 PROVE  value_size(value, below) \in Nat
      OBVIOUS
    <3> PICK a \in Nat, b \in Nat : a = varint_size(value.maximum) /\ b = Most_Elements(value)
      BY <1>1, VarintIsSome, MostElements
    <3> PICK c \in Nat : c = value.rank
      BY <1>1
    <3>1. value_size(value, below) = c * a + b * framed
      BY DEF value_size
    <3>2. c * a \in Nat /\ b * framed \in Nat
      BY ProductIsNat
    <3> QED
      BY <3>1, <3>2
  <2> QED
    BY <1>8, <2>2, <2>3
<1>9. CASE value.kind \in {"bytes", "text"}
  BY <1>1, <1>9 DEF value_size
<1> QED
  BY <1>1, <1>3, <1>4, <1>5, <1>6, <1>7, <1>8, <1>9 DEF Kind

(* The sizes below a place.                                                *)
Below(root, p, f) == [t \in Children(root[p]) |-> f[Append(p, t)]]

(* Places that are no more than n levels above the deepest a lock may have. *)
Deep(root, n) == {p \in DOMAIN root : Len(p) + n > MAX_SCHEMA_DEPTH}
Deep_Sizes(f, root, n) == \A p \in Deep(root, n) : f[p] = value_size(root[p], Below(root, p, f))

(* What a lock is to have a maximum.                                       *)
Sizeable(root) ==
  /\ DOMAIN root \subseteq Seq(Nat)
  /\ \A p \in DOMAIN root : Len(p) <= MAX_SCHEMA_DEPTH /\ Proper(root[p])
  /\ \A p \in DOMAIN root : \A t \in Children(root[p]) :
       Append(p, t) \in DOMAIN root /\ Len(Append(p, t)) = Len(p) + 1

LEMMA LockIsSizeable ==
  ASSUME NEW lock, Tree(lock.root), validate_lock(lock), \A p \in DOMAIN lock.root : Wire_Bounds(lock.root[p])
  PROVE  Sizeable(lock.root)
<1>1. ASSUME NEW p \in DOMAIN lock.root
      PROVE  Len(p) <= MAX_SCHEMA_DEPTH /\ Proper(lock.root[p])
  BY DEF Tree, validate_lock, validate_value, Proper
<1>2. ASSUME NEW p \in DOMAIN lock.root, NEW t \in Children(lock.root[p])
      PROVE  Append(p, t) \in DOMAIN lock.root /\ Len(Append(p, t)) = Len(p) + 1
  <2>1. p \in Seq(Nat) /\ t \in Nat /\ Append(p, t) \in DOMAIN lock.root
    BY DEF Tree, Children, Value, Inner
  <2>2. Len(Append(p, t)) = Len(p) + 1
    BY <2>1
  <2> QED
    BY <2>1, <2>2
<1>3. DOMAIN lock.root \subseteq Seq(Nat)
  BY DEF Tree
<1> QED
  BY <1>1, <1>2, <1>3 DEF Sizeable

LEMMA DeepSizesExist ==
  ASSUME NEW root, Sizeable(root), NEW top \in Nat
  PROVE  \E f : Deep_Sizes(f, root, top)
<1> DEFINE G == {n \in 0 .. top : \E f : Deep_Sizes(f, root, n)}
<1>1. MAX_SCHEMA_DEPTH \in Nat /\ \A p \in DOMAIN root : Len(p) \in Nat /\ Len(p) <= MAX_SCHEMA_DEPTH
  BY DepthAssumption DEF Sizeable
<1>2. ASSUME NEW n \in 0 .. top, \A k \in 0 .. n - 1 : k \in G
      PROVE  n \in G
  <2>1. CASE n = 0
    <3>1. Deep(root, n) = {}
      BY <1>1, <2>1 DEF Deep
    <3>2. Deep_Sizes(root, root, n)
      BY <3>1 DEF Deep_Sizes
    <3> QED
      BY <3>2
  <2>2. CASE n > 0
    <3>1. PICK k \in 0 .. n - 1 : k = n - 1
      BY <2>2
    <3>2. PICK f : Deep_Sizes(f, root, k)
      BY <1>2, <3>1
    <3> DEFINE g == [p \in Deep(root, n) |-> value_size(root[p], Below(root, p, f))]
    <3>3. ASSUME NEW p \in Deep(root, n)
          PROVE  g[p] = value_size(root[p], Below(root, p, g))
      <4>1. p \in DOMAIN root /\ Len(p) + n > MAX_SCHEMA_DEPTH
        BY DEF Deep
      <4>2. ASSUME NEW t \in Children(root[p])
            PROVE  f[Append(p, t)] = g[Append(p, t)]
        <5>1. PICK q \in DOMAIN root : q = Append(p, t) /\ Len(q) = Len(p) + 1
          BY <4>1 DEF Sizeable
        <5>2. q \in Deep(root, k) /\ q \in Deep(root, n)
          BY <1>1, <3>1, <4>1, <5>1 DEF Deep
        <5>3. f[q] = value_size(root[q], Below(root, q, f))
          BY <3>2, <5>2 DEF Deep_Sizes
        <5>4. g[q] = value_size(root[q], Below(root, q, f))
          BY <5>2
        <5> QED
          BY <5>1, <5>3, <5>4
      <4>3. g[p] = value_size(root[p], Below(root, p, f))
        OBVIOUS
      <4> HIDE DEF g
      <4>4. Below(root, p, f) = Below(root, p, g)
        BY <4>2 DEF Below
      <4> QED
        BY <4>3, <4>4
    <3> HIDE DEF g
    <3>4. Deep_Sizes(g, root, n)
      BY <3>3 DEF Deep_Sizes
    <3> QED
      BY <3>4
  <2> QED
    BY <2>1, <2>2
<1> HIDE DEF G
<1>3. \A n \in 0 .. top : n \in G
  BY <1>2, AllNumbers, Zenon
<1> QED
  BY <1>3 DEF G

(* maximum_size is what its equation says, for every tree a lock may be.   *)
LEMMA MaximumSizes ==
  ASSUME NEW root, Sizeable(root)
  PROVE  \A p \in DOMAIN root :
           /\ maximum_size(root)[p] = value_size(root[p], Below(root, p, maximum_size(root)))
           /\ maximum_size(root)[p] \in Nat
<1> DEFINE Equation(f) == f = [p \in DOMAIN root |-> value_size(root[p], [t \in Children(root[p]) |-> f[Append(p, t)]])]
           size == CHOOSE f : Equation(f)
<1>1. MAX_SCHEMA_DEPTH \in Nat /\ \A p \in DOMAIN root : Len(p) \in Nat /\ Len(p) <= MAX_SCHEMA_DEPTH
  BY DepthAssumption DEF Sizeable
<1>2. PICK f : Deep_Sizes(f, root, MAX_SCHEMA_DEPTH + 1)
  BY <1>1, DeepSizesExist
<1>3. \A p \in DOMAIN root : f[p] = value_size(root[p], Below(root, p, f))
  BY <1>1, <1>2 DEF Deep_Sizes, Deep
<1> DEFINE h == [p \in DOMAIN root |-> f[p]]
<1>4. ASSUME NEW p \in DOMAIN root
      PROVE  h[p] = value_size(root[p], Below(root, p, h))
  <2>1. \A t \in Children(root[p]) : h[Append(p, t)] = f[Append(p, t)]
    BY DEF Sizeable
  <2>2. h[p] = f[p]
    OBVIOUS
  <2> HIDE DEF h
  <2>3. Below(root, p, f) = Below(root, p, h)
    BY <2>1 DEF Below
  <2> QED
    BY <1>3, <2>2, <2>3
<1>5. Equation(h)
  <2>1. h = [p \in DOMAIN root |-> h[p]]
    OBVIOUS
  <2> HIDE DEF h
  <2>2. \A p \in DOMAIN root : h[p] = value_size(root[p], [t \in Children(root[p]) |-> h[Append(p, t)]])
    BY <1>4 DEF Below
  <2> QED
    BY <2>1, <2>2, Zenon
<1> HIDE DEF h
<1>6. Equation(size)
  BY <1>5
<1>7. maximum_size(root) = size
  BY DEF maximum_size
<1> HIDE DEF size
<1>8. ASSUME NEW p \in DOMAIN root
      PROVE  size[p] = value_size(root[p], Below(root, p, size))
  BY <1>6, Zenon DEF Below
<1> HIDE DEF Equation
<1> DEFINE G == {n \in 0 .. MAX_SCHEMA_DEPTH + 1 : \A p \in Deep(root, n) : size[p] \in Nat}
<1>9. ASSUME NEW n \in 0 .. MAX_SCHEMA_DEPTH + 1, \A k \in 0 .. n - 1 : k \in G
      PROVE  n \in G
  <2>1. CASE n = 0
    <3>1. Deep(root, n) = {}
      BY <1>1, <2>1 DEF Deep
    <3> QED
      BY <3>1
  <2>2. CASE n > 0
    <3>1. PICK k \in 0 .. n - 1 : k = n - 1
      BY <2>2
    <3>2. ASSUME NEW p \in Deep(root, n)
          PROVE  size[p] \in Nat
      <4>1. p \in DOMAIN root /\ Len(p) + n > MAX_SCHEMA_DEPTH
        BY DEF Deep
      <4>2. ASSUME NEW t \in Children(root[p])
            PROVE  Below(root, p, size)[t] \in Nat
        <5>1. PICK q \in DOMAIN root : q = Append(p, t) /\ Len(q) = Len(p) + 1
          BY <4>1 DEF Sizeable
        <5>2. q \in Deep(root, k)
          BY <1>1, <3>1, <4>1, <5>1 DEF Deep
        <5>3. size[q] \in Nat
          BY <1>9, <3>1, <5>2
        <5> QED
          BY <5>1, <5>3 DEF Below
      <4>3. Proper(root[p])
        BY <4>1 DEF Sizeable
      <4>4. value_size(root[p], Below(root, p, size)) \in Nat
        BY <4>2, <4>3, ValueSizeIsNat
      <4> QED
        BY <1>8, <4>1, <4>4
    <3> QED
      BY <3>2
  <2> QED
    BY <2>1, <2>2
<1> HIDE DEF G
<1>10. MAX_SCHEMA_DEPTH + 1 \in Nat
  BY <1>1
<1>11. \A n \in 0 .. MAX_SCHEMA_DEPTH + 1 : n \in G
  BY <1>9, <1>10, AllNumbers, Zenon
<1>12. \A p \in Deep(root, MAX_SCHEMA_DEPTH + 1) : size[p] \in Nat
  BY <1>1, <1>11 DEF G
<1>13. \A p \in DOMAIN root : size[p] \in Nat
  BY <1>1, <1>12 DEF Deep
<1> QED
  BY <1>7, <1>8, <1>13

-----------------------------------------------------------------------------

(***************************************************************************)
(* What a codec measures is within what the tools reckon.                  *)
(***************************************************************************)
Within(outcome, most) ==
  /\ outcome.status \in {"Measured", "Invalid_Value"}
  /\ outcome.status = "Measured" => outcome.size \in Nat /\ outcome.size <= most

LEMMA AmountFits ==
  ASSUME NEW sum, sum.size \in Nat, NEW x \in Nat, sum.size + x <= MaxUnsigned
  PROVE  Accumulated_Size(sum, Computed(x)) = Sized(sum.size + x)
<1>1. MaxUnsigned \in Nat /\ ~ (x > MaxUnsigned - sum.size)
  BY Limits
<1>2. Sizes_Accumulate(sum.size, x) = Computed(sum.size + x)
  BY <1>1 DEF Sizes_Accumulate, Sizes_Add, Computed
<1> QED
  BY <1>2 DEF Accumulated_Size, Computed

LEMMA DelimitedFits ==
  ASSUME NEW size \in Nat, NEW most \in Nat, size <= most, Framed(most) <= MaxUnsigned
  PROVE  /\ Measure_Length_Delimited(size) = Computed(Length_And(size))
         /\ Length_And(size) \in Nat /\ Length_And(size) <= Framed(most)
<1> PICK a \in Nat, b \in Nat : a = Unsigned_Size(size) /\ b = varint_size(most) /\ a <= b
  BY VarintCovers
<1>1. Framed(most) = b + most /\ Length_And(size) = a + size
  BY DEF Framed, Length_And
<1>2. MaxUnsigned \in Nat /\ ~ (a > MaxUnsigned - size)
  BY <1>1, Limits
<1>3. Sizes_Accumulate(size, a) = Computed(size + a)
  BY <1>2 DEF Sizes_Accumulate, Sizes_Add, Computed
<1>4. Measure_Length_Delimited(size) = Computed(size + a)
  BY <1>3 DEF Measure_Length_Delimited, Measured, Computed
<1>5. size + a = a + size
  OBVIOUS
<1> QED
  BY <1>1, <1>4, <1>5

LEMMA FieldFits ==
  ASSUME NEW t \in Nat, NEW size \in Nat, NEW most \in Nat, size <= most, Tagged_size(t, most) <= MaxUnsigned
  PROVE  /\ Measure_Field(t, size) = Computed(Need(t, size))
         /\ Need(t, size) \in Nat /\ Need(t, size) <= Tagged_size(t, most)
<1> PICK a \in Nat, b \in Nat : a = Unsigned_Size(size) /\ b = varint_size(most) /\ a <= b
  BY VarintCovers
<1> PICK c \in Nat, d \in Nat : c = Unsigned_Size(t) /\ d = varint_size(t) /\ c <= d
  BY VarintCovers
<1>1. Tagged_size(t, most) = d + (b + most) /\ Need(t, size) = c + a + size
  BY DEF Framed, Tagged_size, Need
<1>2. MaxUnsigned \in Nat /\ ~ (c > MaxUnsigned - size) /\ ~ (a > MaxUnsigned - (size + c))
  BY <1>1, Limits
<1>3. Sizes_Accumulate(size, c) = Computed(size + c)
  BY <1>2 DEF Sizes_Accumulate, Sizes_Add, Computed
<1>4. Sizes_Accumulate(size + c, a) = Computed(size + c + a)
  BY <1>2 DEF Sizes_Accumulate, Sizes_Add, Computed
<1>5. Measure_Field(t, size) = Computed(size + c + a)
  BY <1>3, <1>4 DEF Measure_Field, Measured, Computed
<1>6. size + c + a = c + a + size
  OBVIOUS
<1> QED
  BY <1>1, <1>5, <1>6

(* A number takes no more than any number of its type may take.            *)
LEMMA NumberWithin ==
  ASSUME NEW value, Proper(value), value.kind \in Simple, NEW number, Number(value, number), NEW below
  PROVE  scalar_size(value, number) \in Nat /\ scalar_size(value, number) <= value_size(value, below)
<1>1. /\ number \in Int /\ value.minimum \in Int /\ value.maximum \in Int
      /\ value.tags \subseteq Field_Tag
      /\ value.kind = "unsigned" => value.minimum \in Nat /\ value.maximum \in Nat
  BY DEF Proper, Value, Wire_Bounds, Bounded, Number
<1>2. CASE value.kind = "boolean"
  BY <1>2 DEF scalar_size, value_size
<1>3. CASE value.kind = "unsigned"
  <2>1. number \in Nat /\ value.maximum \in Nat /\ number <= value.maximum
    BY <1>1, <1>3 DEF Number
  <2>2. scalar_size(value, number) = Unsigned_Size(number) /\ value_size(value, below) = varint_size(value.maximum)
    BY <1>3 DEF scalar_size, Wire, value_size
  <2> QED
    BY <2>1, <2>2, VarintCovers
<1>4. CASE value.kind = "signed"
  <2> PICK low \in Nat, high \in Nat : low = ZigZag_Encode(value.minimum) /\ high = ZigZag_Encode(value.maximum)
    BY <1>1, ZigZagIsNat
  <2> PICK wire \in Nat : wire = ZigZag_Encode(number)
    BY <1>1, ZigZagIsNat
  <2> PICK a \in Nat, b \in Nat : a = varint_size(low) /\ b = varint_size(high)
    BY VarintIsSome
  <2>1. wire <= low \/ wire <= high
    <3>1. value.minimum <= number /\ number <= value.maximum
      BY <1>1, <1>4 DEF Number
    <3> QED
      BY <1>1, <3>1 DEF ZigZag_Encode
  <2>2. Unsigned_Size(wire) \in Nat /\ (Unsigned_Size(wire) <= a \/ Unsigned_Size(wire) <= b)
    BY <2>1, VarintCovers
  <2>3. scalar_size(value, number) = Unsigned_Size(wire) /\ value_size(value, below) = Max({a, b})
    BY <1>4 DEF scalar_size, Wire, value_size
  <2>4. a <= Max({a, b}) /\ b <= Max({a, b}) /\ Max({a, b}) \in Nat
    BY GreatestOfTwo DEF Greatest
  <2> QED
    BY <2>2, <2>3, <2>4
<1>5. CASE value.kind = "enumeration"
  <2> DEFINE f == [t \in value.tags |-> varint_size(t)]
             S == {varint_size(t) : t \in value.tags}
  <2>0. \A t \in value.tags : t \in Nat
    BY <1>1, Limits DEF Field_Tag
  <2>1. S = {f[t] : t \in value.tags} /\ \A t \in value.tags : f[t] \in Nat
    BY <2>0, VarintIsSome
  <2>2. number \in value.tags /\ varint_size(number) \in S /\ number \in Nat
    BY <1>5, <2>0 DEF Number
  <2>3. scalar_size(value, number) = Unsigned_Size(number) /\ value_size(value, below) = Max(S)
    BY <1>5 DEF scalar_size, Wire, value_size
  <2> HIDE DEF f, S
  <2>4. Greatest(Max(S), S)
    BY <1>1, <2>1, <2>2, GreatestOfTags
  <2>5. Unsigned_Size(number) <= varint_size(number) /\ Unsigned_Size(number) \in Nat /\ varint_size(number) \in Nat
    BY <2>2, VarintCovers
  <2>6. varint_size(number) <= Max(S) /\ Max(S) \in Nat
    BY <2>2, <2>4 DEF Greatest
  <2> QED
    BY <2>3, <2>5, <2>6
<1> QED
  BY <1>2, <1>3, <1>4, <1>5 DEF Simple, Scalars

(* Fields, each within what is reckoned for it, are within the record.     *)
LEMMA FieldsWithin ==
  ASSUME NEW sizes, NEW most, DOMAIN sizes \subseteq DOMAIN most, DOMAIN most \subseteq Field_Tag,
         \A t \in DOMAIN most : most[t] \in Nat,
         \A t \in DOMAIN sizes : Within(sizes[t], most[t]),
         NEW total, total = Summed([t \in DOMAIN most |-> Tagged_size(t, most[t])]), total <= MaxUnsigned
  PROVE  Within(Measure_Fields(sizes), total)
<1> DEFINE Equation(f) ==
             f = [t \in 0 .. MaxFieldTag |-> IF t = 0 THEN Sized(0) ELSE (IF t \notin DOMAIN sizes \/ f[t - 1].status # "Measured" THEN f[t - 1] ELSE With_Field(f[t - 1], t, sizes[t]))]
           sum == CHOOSE f : Equation(f)
           needs == [t \in DOMAIN most |-> Tagged_size(t, most[t])]
<1>1. MaxFieldTag \in Nat
  BY Limits
<1>2. Equation(sum)
  BY <1>1, FieldSumExists, Zenon
<1>3. Measure_Fields(sizes) = sum[MaxFieldTag]
  BY DEF Measure_Fields
<1> HIDE DEF sum
<1>4. sum[0] = Sized(0)
  BY <1>1, <1>2
<1>5. \A t \in Field_Tag : sum[t] = IF t \notin DOMAIN sizes \/ sum[t - 1].status # "Measured" THEN sum[t - 1] ELSE With_Field(sum[t - 1], t, sizes[t])
  <2> SUFFICES ASSUME NEW t \in Field_Tag
               PROVE  sum[t] = IF t \notin DOMAIN sizes \/ sum[t - 1].status # "Measured" THEN sum[t - 1] ELSE With_Field(sum[t - 1], t, sizes[t])
    OBVIOUS
  <2>1. t \in 0 .. MaxFieldTag /\ t # 0
    BY <1>1 DEF Field_Tag
  <2> QED
    BY <1>2, <2>1, Zenon
<1> HIDE DEF Equation
<1>6. \A t \in DOMAIN needs : needs[t] \in Nat /\ needs[t] = Tagged_size(t, most[t])
  <2>1. \A t \in DOMAIN most : t \in Nat /\ Tagged_size(t, most[t]) \in Nat
    BY FramedIsNat, Limits DEF Field_Tag
  <2> QED
    BY <2>1
<1>7. DOMAIN needs = DOMAIN most
  OBVIOUS
<1> HIDE DEF needs
<1>8. PICK upto : Sums_Up(upto, needs) /\ Summed(needs) = upto[MaxFieldTag]
  BY <1>6, SumsExist
<1>9. /\ upto \in [0 .. MaxFieldTag -> Nat] /\ upto[0] = 0 /\ upto[MaxFieldTag] = total
      /\ \A t \in 0 .. MaxFieldTag : upto[t] <= MaxUnsigned
  <2>1. upto[MaxFieldTag] = total
    BY <1>8 DEF needs
  <2>2. upto \in [0 .. MaxFieldTag -> Nat] /\ upto[0] = 0
    BY <1>8 DEF Sums_Up
  <2>3. \A t \in 0 .. MaxFieldTag : upto[t] <= upto[MaxFieldTag]
    BY <1>6, <1>8, SumsStay
  <2> QED
    BY <1>1, <2>1, <2>2, <2>3, Limits
<1> DEFINE G == {t \in 0 .. MaxFieldTag : Within(sum[t], upto[t])}
<1> HIDE DEF G
<1>10. ASSUME NEW t \in 0 .. MaxFieldTag, \A s \in 0 .. t - 1 : s \in G
       PROVE  t \in G
  <2>1. CASE t = 0
    BY <1>4, <1>9, <2>1 DEF G, Within, Sized
  <2>2. CASE t > 0
    <3>1. PICK s \in 0 .. MaxFieldTag : s = t - 1 /\ s \in 0 .. t - 1 /\ t \in Field_Tag /\ t \in Nat
      BY <1>1, <2>2 DEF Field_Tag
    <3>2. Within(sum[s], upto[s])
      BY <1>10, <3>1 DEF G
    <3>3. upto[t] = IF t \in DOMAIN needs THEN upto[s] + needs[t] ELSE upto[s]
      BY <1>8, <3>1 DEF Sums_Up
    <3>4. upto[s] \in Nat /\ upto[t] \in Nat /\ upto[s] <= upto[t] /\ upto[t] <= MaxUnsigned
      BY <1>6, <1>9, <3>1, <3>3
    <3>5. sum[t] = IF t \notin DOMAIN sizes \/ sum[s].status # "Measured" THEN sum[s] ELSE With_Field(sum[s], t, sizes[t])
      BY <1>5, <3>1
    <3>6. CASE sum[t] = sum[s]
      <4>1. Within(sum[t], upto[t])
        BY <3>2, <3>4, <3>6 DEF Within
      <4> QED
        BY <4>1 DEF G
    <3>7. CASE t \in DOMAIN sizes /\ sum[s].status = "Measured" /\ sum[t] = With_Field(sum[s], t, sizes[t])
      <4>1. Within(sizes[t], most[t]) /\ most[t] \in Nat /\ t \in DOMAIN needs /\ needs[t] = Tagged_size(t, most[t]) /\ needs[t] \in Nat
        BY <1>6, <1>7, <3>7
      <4>2. CASE sizes[t].status # "Measured"
        <5>1. sum[t] = sizes[t]
          BY <3>7, <4>2 DEF With_Field
        <5>2. Within(sum[t], upto[t])
          BY <4>1, <4>2, <5>1 DEF Within
        <5> QED
          BY <5>2 DEF G
      <4>3. CASE sizes[t].status = "Measured"
        <5> PICK size \in Nat : size = sizes[t].size /\ size <= most[t]
          BY <4>1, <4>3 DEF Within
        <5>1. sum[s].size \in Nat /\ sum[s].size <= upto[s]
          BY <3>2, <3>7 DEF Within
        <5>2. upto[t] = upto[s] + needs[t]
          BY <3>3, <4>1
        <5>3. needs[t] <= MaxUnsigned
          BY <3>4, <4>1, <5>2, Limits
        <5>4. /\ Measure_Field(t, size) = Computed(Need(t, size))
              /\ Need(t, size) \in Nat /\ Need(t, size) <= needs[t]
          BY <3>1, <4>1, <5>3, FieldFits
        <5>5. sum[s].size + Need(t, size) <= MaxUnsigned /\ sum[s].size + Need(t, size) <= upto[t]
          BY <3>4, <4>1, <5>1, <5>2, <5>4, Limits
        <5>6. sum[t] = Accumulated_Size(sum[s], Computed(Need(t, size)))
          BY <3>7, <4>3, <5>4 DEF With_Field
        <5>7. sum[t] = Sized(sum[s].size + Need(t, size))
          BY <5>1, <5>4, <5>5, <5>6, AmountFits
        <5>8. Within(sum[t], upto[t])
          BY <5>1, <5>4, <5>5, <5>7 DEF Within, Sized
        <5> QED
          BY <5>8 DEF G
      <4> QED
        BY <4>2, <4>3
    <3> QED
      BY <3>5, <3>6, <3>7
  <2> QED
    BY <2>1, <2>2
<1>11. \A t \in 0 .. MaxFieldTag : t \in G
  BY <1>1, <1>10, AllNumbers, Zenon
<1> QED
  BY <1>1, <1>3, <1>9, <1>11 DEF G

(* A product of naturals, a step at a time and turned round.               *)
LEMMA ProductOfNext ==
  ASSUME NEW k \in Nat, NEW each \in Nat
  PROVE  (k + 1) * each = k * each + each
OBVIOUS

LEMMA SumsOfTwo ==
  ASSUME NEW a \in Nat, NEW b \in Nat, NEW x \in Nat, NEW c \in Nat, NEW y \in Nat, NEW top \in Nat,
         a <= x, b <= c, y = x + c, y <= top
  PROVE  a + b \in Nat /\ a + b <= y /\ a + b <= top
OBVIOUS

(* A part of a sum is within what the sum is within.                         *)
LEMMA PartIsWithin ==
  ASSUME NEW part \in Nat, NEW x \in Nat, NEW y, NEW top \in Nat, y = x + part, y <= top
  PROVE  part <= top
OBVIOUS

LEMMA ProductCommutes ==
  ASSUME NEW a \in Nat, NEW b \in Nat
  PROVE  a * b = b * a
OBVIOUS

(* Steps of one size from a start, none past the last of them.              *)
Climbs(r, n, head, each, top) ==
  /\ r \in [0 .. n -> Nat] /\ r[0] = head
  /\ \A i \in 1 .. n : r[i] = r[i - 1] + each
  /\ \A i \in 0 .. n : r[i] <= top

LEMMA StepsOfOneSize ==
  ASSUME NEW n \in Nat, NEW most \in Nat, NEW each \in Nat, NEW head \in Nat, n <= most,
         NEW top \in Nat, top = head + most * each
  PROVE  \E r : Climbs(r, n, head, each, top)
<1> DEFINE step == [x \in (1 .. n) \X Nat |-> x[2] + each]
<1>1. step \in [(1 .. n) \X Nat -> Nat] /\ \A i \in 1 .. n : \A b \in Nat : step[<<i, b>>] = b + each
  OBVIOUS
<1> HIDE DEF step
<1>2. PICK r : Stepped(r, n, head, step)
  BY <1>1, StepByStep
<1>3. r \in [0 .. n -> Nat] /\ r[0] = head /\ \A i \in 1 .. n : r[i] = step[<<i, r[i - 1]>>]
  BY <1>2 DEF Stepped
<1>4. \A i \in 1 .. n : r[i] = r[i - 1] + each
  <2> TAKE i \in 1 .. n
  <2>1. i - 1 \in 0 .. n
    OBVIOUS
  <2>2. r[i - 1] \in Nat
    BY <1>3, <2>1
  <2> QED
    BY <1>1, <1>3, <2>2
<1> DEFINE G == {i \in 0 .. n : r[i] = head + i * each}
<1> HIDE DEF G
<1>5. ASSUME NEW i \in 0 .. n, \A k \in 0 .. i - 1 : k \in G
      PROVE  i \in G
  <2>1. CASE i = 0
    BY <1>3, <2>1 DEF G
  <2>2. CASE i > 0
    <3>1. PICK k \in 0 .. n : k = i - 1 /\ k \in 0 .. i - 1 /\ i \in 1 .. n /\ i = k + 1 /\ k \in Nat
      BY <2>2
    <3>2. r[k] = head + k * each
      BY <1>5, <3>1 DEF G
    <3>3. r[i] = r[k] + each
      BY <1>4, <3>1
    <3>4. (k + 1) * each = k * each + each
      BY <3>1, ProductOfNext
    <3>5. k * each \in Nat
      BY <3>1, ProductIsNat
    <3>6. head + k * each + each = head + (k * each + each)
      BY <3>5
    <3>7. r[i] = head + i * each
      BY <3>1, <3>2, <3>3, <3>4, <3>6, Zenon
    <3> QED
      BY <3>7 DEF G
  <2> QED
    BY <2>1, <2>2
<1>6. \A i \in 0 .. n : i \in G
  BY <1>5, AllNumbers, Zenon
<1>7. \A i \in 0 .. n : r[i] <= top
  <2> TAKE i \in 0 .. n
  <2>1. r[i] = head + i * each /\ i \in Nat
    BY <1>6 DEF G
  <2>2. PICK a \in Nat, b \in Nat : a = each * i /\ b = each * most /\ a <= b
    <3>1. i <= most /\ i \in Nat
      OBVIOUS
    <3>2. each * i <= each * most
      BY <3>1, ProductGrows
    <3> QED
      BY <3>1, <3>2, ProductIsNat
  <2>3. each * i = i * each /\ each * most = most * each
    BY <2>1, ProductCommutes
  <2>4. r[i] = head + a /\ head + most * each = head + b
    BY <2>1, <2>2, <2>3
  <2>5. head + a <= head + b
    BY <2>2
  <2> QED
    BY <2>4, <2>5
<1> QED
  BY <1>3, <1>4, <1>7 DEF Climbs

(* The sum of the elements climbs no faster than what is reckoned for them.  *)
LEMMA SumsWithin ==
  ASSUME NEW lock, NEW t, NEW content \in Seq(Int), NEW inner \in Nat,
         \A i \in 1 .. Len(content) : ~ scalar_invalid(Element(lock, t), content[i]) =>
           scalar_size(Element(lock, t), content[i]) <= inner,
         NEW n \in Nat, n = Len(content), NEW most \in Nat, n <= most,
         NEW head \in Nat, head = varint_size(most), NEW each \in Nat, each = Framed(inner),
         NEW top \in Nat, top <= MaxUnsigned,
         NEW reckoned, Climbs(reckoned, n, head, each, top),
         NEW sum, Element_Sum(sum, n, lock, t, content)
  PROVE  Within(sum[n], top)
<1>1. /\ reckoned \in [0 .. n -> Nat] /\ reckoned[0] = head
      /\ \A i \in 1 .. n : reckoned[i] = reckoned[i - 1] + each
      /\ \A i \in 0 .. n : reckoned[i] <= top
  BY DEF Climbs
<1> DEFINE G == {i \in 0 .. n : Within(sum[i], reckoned[i])}
<1> HIDE DEF G
<1>2. ASSUME NEW i \in 0 .. n, \A k \in 0 .. i - 1 : k \in G
      PROVE  i \in G
  <2>1. CASE i = 0
    <3>1. sum[0] = Sized(Unsigned_Size(n))
      BY DEF Element_Sum
    <3>2. Unsigned_Size(n) \in Nat /\ Unsigned_Size(n) <= head
      BY VarintCovers
    <3>3. Within(sum[0], head)
      BY <3>1, <3>2 DEF Within, Sized
    <3> QED
      BY <1>1, <2>1, <3>3 DEF G
  <2>2. CASE i > 0
    <3>1. PICK k \in 0 .. n : k = i - 1 /\ k \in 0 .. i - 1 /\ i \in 1 .. n
      BY <2>2
    <3>2. Within(sum[k], reckoned[k])
      BY <1>2, <3>1 DEF G
    <3>3. sum[i] = Next_Sum(lock, t, content, sum[i - 1], i)
      <4>1. i \in 0 .. n /\ i # 0
        BY <2>2
      <4> QED
        BY <4>1, Zenon DEF Element_Sum
    <3>4. PICK x \in Nat, y \in Nat : x = reckoned[k] /\ y = reckoned[i] /\ y = x + each /\ y <= MaxUnsigned
      <4>1. reckoned[k] \in Nat /\ reckoned[i] \in Nat /\ reckoned[i] <= top
        BY <1>1, <3>1
      <4>2. reckoned[i] = reckoned[k] + each
        BY <1>1, <3>1
      <4> QED
        BY <4>1, <4>2, Limits, SMTT(60)
    <3>5. CASE sum[k].status # "Measured"
      <4>1. sum[i] = sum[k]
        BY <3>1, <3>3, <3>5 DEF Next_Sum
      <4>2. Within(sum[i], reckoned[i])
        BY <3>2, <3>5, <4>1 DEF Within
      <4> QED
        BY <4>2 DEF G
    <3>6. CASE sum[k].status = "Measured" /\ scalar_invalid(Element(lock, t), content[i])
      <4>1. sum[i] = Unmeasured("Invalid_Value")
        BY <3>1, <3>3, <3>6 DEF Next_Sum
      <4>2. Within(sum[i], reckoned[i])
        BY <4>1 DEF Within, Unmeasured
      <4> QED
        BY <4>2 DEF G
    <3>7. CASE sum[k].status = "Measured" /\ ~ scalar_invalid(Element(lock, t), content[i])
      <4> PICK size \in Nat : size = scalar_size(Element(lock, t), content[i])
        BY ScalarSize
      <4>1. size <= inner
        BY <3>1, <3>7
      <4>2. each <= MaxUnsigned
        <5>1. x \in Nat /\ y \in Nat /\ y = x + each /\ y <= MaxUnsigned /\ MaxUnsigned \in Nat
          BY <3>4, Limits
        <5> QED
          BY <5>1, PartIsWithin
      <4>3. /\ Measure_Length_Delimited(size) = Computed(Length_And(size))
            /\ Length_And(size) \in Nat /\ Length_And(size) <= each
        BY <4>1, <4>2, DelimitedFits
      <4>4. sum[k].size \in Nat /\ sum[k].size <= reckoned[k]
        BY <3>2, <3>7 DEF Within
      <4>11. sum[k].size <= x
        BY <3>4, <4>4
      <4>12. Length_And(size) \in Nat /\ Length_And(size) <= each
        BY <4>3
      <4>5. sum[k].size + Length_And(size) \in Nat /\ sum[k].size + Length_And(size) <= reckoned[i] /\ sum[k].size + Length_And(size) <= MaxUnsigned
        <5>1. sum[k].size \in Nat /\ x \in Nat /\ y \in Nat /\ y = x + each /\ y <= MaxUnsigned /\ MaxUnsigned \in Nat /\ each \in Nat
          BY <3>4, <4>4, Limits
        <5>2. /\ sum[k].size + Length_And(size) \in Nat
              /\ sum[k].size + Length_And(size) <= y /\ sum[k].size + Length_And(size) <= MaxUnsigned
          BY <4>11, <4>12, <5>1, SumsOfTwo
        <5> QED
          BY <3>4, <5>2
      <4>6. sum[i] = Accumulated_Size(sum[k], Computed(Length_And(size)))
        BY <3>1, <3>3, <3>7, <4>3 DEF Next_Sum
      <4>7. sum[i] = Sized(sum[k].size + Length_And(size))
        BY <4>3, <4>4, <4>5, <4>6, AmountFits
      <4>8. Within(sum[i], reckoned[i])
        BY <4>5, <4>7 DEF Within, Sized
      <4> QED
        BY <4>8 DEF G
    <3> QED
      BY <3>5, <3>6, <3>7
  <2> QED
    BY <2>1, <2>2
<1>3. \A i \in 0 .. n : i \in G
  BY <1>2, AllNumbers, Zenon
<1>4. Within(sum[n], reckoned[n])
  BY <1>3 DEF G
<1>5. reckoned[n] \in Nat /\ reckoned[n] <= top
  BY <1>1
<1> QED
  BY <1>4, <1>5 DEF Within

(* Elements, each within what is reckoned for it, are within the sequence. *)
LEMMA ElementsWithin ==
  ASSUME NEW lock, NEW t, NEW content \in Seq(Int), NEW inner \in Nat,
         NEW most \in Nat, most = Field(lock, t).maximum, Field(lock, t).minimum \in Int,
         \A i \in 1 .. Len(content) : ~ scalar_invalid(Element(lock, t), content[i]) =>
           scalar_size(Element(lock, t), content[i]) <= inner,
         varint_size(most) + most * Framed(inner) <= MaxUnsigned
  PROVE  Within(Measure_Sequence(lock, t, content), varint_size(most) + most * Framed(inner))
<1> DEFINE sum == CHOOSE f : Element_Sum(f, Len(content), lock, t, content)
<1> PICK n \in Nat : n = Len(content)
  OBVIOUS
<1> PICK head \in Nat, each \in Nat : head = varint_size(most) /\ each = Framed(inner)
  BY VarintIsSome, FramedIsNat
<1>0. PICK top \in Nat : top = head + most * each /\ top <= MaxUnsigned
  <2>1. most * each \in Nat /\ head + most * each <= MaxUnsigned
    BY ProductIsNat
  <2> QED
    BY <2>1, SMTT(60)
<1>1. CASE n \notin Field(lock, t).minimum .. most
  BY <1>1 DEF Measure_Sequence, Unmeasured, Within
<1>2. CASE n \in Field(lock, t).minimum .. most
  <2>1. Element_Sum(sum, n, lock, t, content)
    BY ElementSumExists
  <2>2. Measure_Sequence(lock, t, content) = sum[n]
    BY <1>2 DEF Measure_Sequence, Element_Sum, Next_Sum
  <2>3. n <= most
    BY <1>2
  <2>4. PICK reckoned : Climbs(reckoned, n, head, each, top)
    BY <1>0, <2>3, StepsOfOneSize
  <2>5. Within(sum[n], top)
    <3> HIDE DEF sum
    <3> QED
      BY <1>0, <2>1, <2>3, <2>4, SumsWithin
  <2> QED
    BY <1>0, <2>2, <2>5
<1> QED
  BY <1>1, <1>2

=============================================================================
