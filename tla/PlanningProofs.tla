--------------------------- MODULE PlanningProofs ---------------------------
(***************************************************************************)
(* Proofs about the order of execution, _topological_order of planning.py, *)
(* for plans of every length.  The provers know no induction; it is done   *)
(* here with the least element of a set of naturals.                       *)
(***************************************************************************)
EXTENDS Planning, FiniteSetTheorems, WellFoundedInduction, TLAPS

-----------------------------------------------------------------------------
(***************************************************************************)
(* Induction over the naturals, on sets.                                   *)
(***************************************************************************)
LEMMA LeastNatural ==
  ASSUME NEW T \in SUBSET Nat, T # {}
  PROVE  \E x \in T : \A y \in T : x <= y
<1>. DEFINE R == OpToRel(<, Nat)
<1>1. IsWellFoundedOn(R, Nat)
  BY NatLessThanWellFounded
<1>2. \A x, y \in Nat : y < x => <<y, x>> \in R
  BY DEF OpToRel
<1>. HIDE DEF R
<1>3. \E x \in T : \A y \in T : ~(<<y, x>> \in R)
  BY <1>1, WFMin
<1>4. PICK x \in T : \A y \in T : ~(<<y, x>> \in R)
  BY <1>3
<1>5. \A y \in T : ~(y < x)
  BY <1>2, <1>4
<1>. QED BY <1>5

LEMMA SetInduction ==
  ASSUME NEW S \in SUBSET Nat, 0 \in S, \A n \in S : n + 1 \in S
  PROVE  \A n \in Nat : n \in S
<1>. SUFFICES ASSUME Nat \ S # {} PROVE FALSE
  OBVIOUS
<1>1. PICK x \in Nat \ S : \A y \in Nat \ S : x <= y
  BY LeastNatural
<1>2. x # 0 /\ x - 1 \in Nat
  BY <1>1
<1>3. x - 1 \in S
  BY <1>1, <1>2
<1>. QED BY <1>1, <1>2, <1>3

-----------------------------------------------------------------------------
(***************************************************************************)
(* Pick.                                                                   *)
(***************************************************************************)

\* q numbers distinct members of set, and s holds the items it numbers.
Numbered(items, set, q, s) ==
  /\ q \in Seq(set)
  /\ \A i, j \in DOMAIN q : q[i] = q[j] => i = j
  /\ s = [k \in DOMAIN q |-> items[q[k]]]

\* The equation that the loop of Pick satisfies.
PickLoop(items, set, g, k) ==
  IF k = 0 THEN <<>>
  ELSE IF k \in set THEN Append(g[k - 1], items[k]) ELSE g[k - 1]

LEMMA PickDefined ==
  ASSUME NEW items, Len(items) \in Nat, NEW set
  PROVE  \E g : /\ g = [k \in 0 .. Len(items) |-> PickLoop(items, set, g, k)]
                /\ Pick(items, set) = g[Len(items)]
<1>. DEFINE n == Len(items)
            Good == {m \in Nat : \E g : \A k \in 0 .. n :
                       k <= m => g[k] = PickLoop(items, set, g, k)}
<1>1. 0 \in Good
  <2>1. \A k \in 0 .. n : k <= 0 => [i \in 0 .. n |-> <<>>][k] =
                             PickLoop(items, set, [i \in 0 .. n |-> <<>>], k)
    BY DEF PickLoop
  <2>. QED BY <2>1
<1>2. \A m \in Good : m + 1 \in Good
  <2>. SUFFICES ASSUME NEW m \in Good PROVE m + 1 \in Good
    OBVIOUS
  <2>1. PICK g : \A k \in 0 .. n : k <= m => g[k] = PickLoop(items, set, g, k)
    OBVIOUS
  <2>. DEFINE h == [k \in 0 .. n |-> PickLoop(items, set, g, k)]
  <2>2. ASSUME NEW k \in 0 .. n, k <= m + 1
        PROVE  h[k] = PickLoop(items, set, h, k)
    <3>1. h[k] = PickLoop(items, set, g, k)
      OBVIOUS
    <3>2. CASE k = 0
      BY <3>1, <3>2 DEF PickLoop
    <3>3. CASE k # 0
      <4>1. k - 1 \in 0 .. n /\ k - 1 <= m
        BY <2>2, <3>3
      <4>2. h[k - 1] = g[k - 1]
        BY <2>1, <4>1
      <4>. QED BY <3>1, <3>3, <4>2 DEF PickLoop
    <3>. QED BY <3>2, <3>3
  <2>3. \E f : \A k \in 0 .. n : k <= m + 1 => f[k] = PickLoop(items, set, f, k)
    <3>. HIDE DEF h
    <3>. QED BY <2>2
  <2>. QED BY <2>3
<1>3. n \in Good
  <2>. HIDE DEF Good, n
  <2>1. Good \in SUBSET Nat
    BY DEF Good
  <2>2. n \in Nat
    BY DEF n
  <2>. QED BY <1>1, <1>2, <2>1, <2>2, SetInduction
<1>4. PICK g : \A k \in 0 .. n : k <= n => g[k] = PickLoop(items, set, g, k)
  BY <1>3
<1>. DEFINE f == [k \in 0 .. n |-> g[k]]
<1>5. f = [k \in 0 .. n |-> PickLoop(items, set, f, k)]
  <2>1. \A k \in 0 .. n : g[k] = PickLoop(items, set, g, k)
    BY <1>4
  <2>2. \A k \in 0 .. n : PickLoop(items, set, g, k) = PickLoop(items, set, f, k)
    BY DEF PickLoop
  <2>. QED BY <2>1, <2>2
<1>. DEFINE c == CHOOSE u : u = [k \in 0 .. n |-> PickLoop(items, set, u, k)]
<1>6. c = [k \in 0 .. n |-> PickLoop(items, set, c, k)]
  <2>. HIDE DEF f
  <2>. QED BY <1>5
<1>7. Pick(items, set) = c[n]
  BY DEF Pick, PickLoop
<1>. HIDE DEF c
<1>. QED BY <1>6, <1>7

LEMMA PickNumbered ==
  ASSUME NEW items, Len(items) \in Nat, DOMAIN items = 1 .. Len(items),
         NEW set \in SUBSET DOMAIN items
  PROVE  \E q : /\ Numbered(items, set, q, Pick(items, set))
                /\ set \subseteq Range1(q)
<1>. DEFINE n == Len(items)
<1>1. PICK g : /\ g = [k \in 0 .. n |-> PickLoop(items, set, g, k)]
               /\ Pick(items, set) = g[n]
  BY PickDefined
<1>. DEFINE Good == {m \in Nat : m <= n =>
                       \E q : /\ Numbered(items, set \cap (1 .. m), q, g[m])
                              /\ set \cap (1 .. m) \subseteq Range1(q)}
<1>2. 0 \in Good
  <2>1. g[0] = <<>>
    BY <1>1 DEF PickLoop
  <2>2. Numbered(items, set \cap (1 .. 0), <<>>, g[0])
    BY <2>1 DEF Numbered
  <2>3. set \cap (1 .. 0) \subseteq Range1(<<>>)
    OBVIOUS
  <2>. QED BY <2>2, <2>3
<1>3. \A m \in Good : m + 1 \in Good
  <2>. DEFINE Upto(m) == \E q : /\ Numbered(items, set \cap (1 .. m), q, g[m])
                                 /\ set \cap (1 .. m) \subseteq Range1(q)
  <2>. HIDE DEF Upto
  <2>a. Good = {m \in Nat : m <= n => Upto(m)}
    BY DEF Upto
  <2>. HIDE DEF Good
  <2>. SUFFICES ASSUME NEW m \in Nat, m <= n => Upto(m), m + 1 <= n PROVE Upto(m + 1)
    BY <2>a
  <2>b. Upto(m)
    OBVIOUS
  <2>1. PICK q : /\ Numbered(items, set \cap (1 .. m), q, g[m])
                 /\ set \cap (1 .. m) \subseteq Range1(q)
    BY <2>b DEF Upto
  <2>2. g[m + 1] = IF m + 1 \in set THEN Append(g[m], items[m + 1]) ELSE g[m]
    <3>1. m + 1 \in 0 .. n /\ m + 1 # 0 /\ (m + 1) - 1 = m
      OBVIOUS
    <3>. QED BY <1>1, <3>1 DEF PickLoop
  <2>3. CASE m + 1 \notin set
    <3>1. set \cap (1 .. (m + 1)) = set \cap (1 .. m)
      BY <2>3
    <3>. QED BY <2>1, <2>2, <2>3, <3>1 DEF Upto
  <2>4. CASE m + 1 \in set
    <3>. DEFINE p == Append(q, m + 1)
                S == set \cap (1 .. (m + 1))
    <3>1. q \in Seq(set \cap (1 .. m)) /\ q \in Seq(S)
      BY <2>1 DEF Numbered
    <3>2. p \in Seq(S)
      BY <2>4, <3>1
    <3>3. /\ DOMAIN q = 1 .. Len(q) /\ Len(q) \in Nat
          /\ DOMAIN p = 1 .. (Len(q) + 1)
          /\ \A i \in DOMAIN q : p[i] = q[i] /\ q[i] <= m /\ q[i] \in Nat
          /\ p[Len(q) + 1] = m + 1
      BY <3>1
    <3>4. \A i, j \in DOMAIN p : p[i] = p[j] => i = j
      BY <2>1, <3>3 DEF Numbered
    <3>5. g[m + 1] = [k \in DOMAIN p |-> items[p[k]]]
      <4>1. g[m] = [k \in DOMAIN q |-> items[q[k]]]
        BY <2>1 DEF Numbered
      <4>2. Append(g[m], items[m + 1]) =
              [k \in 1 .. (Len(q) + 1) |-> IF k = Len(q) + 1 THEN items[m + 1] ELSE g[m][k]]
        BY <3>3, <4>1
      <4>. QED BY <2>2, <2>4, <3>3, <4>1, <4>2
    <3>6. Numbered(items, S, p, g[m + 1])
      BY <3>2, <3>4, <3>5 DEF Numbered
    <3>7. S \subseteq Range1(p)
      <4>1. ASSUME NEW i \in S PROVE i \in Range1(p)
        <5>1. CASE i = m + 1
          BY <3>3, <5>1 DEF Range1
        <5>2. CASE i # m + 1
          <6>1. i \in Range1(q)
            BY <2>1, <5>2
          <6>. QED BY <3>3, <6>1 DEF Range1
        <5>. QED BY <5>1, <5>2
      <4>. QED BY <4>1
    <3>. QED BY <3>6, <3>7 DEF Upto
  <2>. QED BY <2>3, <2>4
<1>4. n \in Good
  <2>. HIDE DEF Good, n
  <2>1. Good \in SUBSET Nat
    BY DEF Good
  <2>2. n \in Nat
    BY DEF n
  <2>. QED BY <1>2, <1>3, <2>1, <2>2, SetInduction
<1>5. set \cap (1 .. n) = set
  OBVIOUS
<1>. QED BY <1>1, <1>4, <1>5

-----------------------------------------------------------------------------
(***************************************************************************)
(* topological_order.                                                      *)
(***************************************************************************)
IdsOf(items, set) == {items[i].id : i \in set}

Ready(items, left) ==
  {i \in left : items[i].dependsOn \subseteq IdsOf(items, DOMAIN items \ left)}

\* The equation that the rounds satisfy.
Round(items, g, left) ==
  IF Ready(items, left) = {} THEN <<>>
  ELSE Pick(items, Ready(items, left)) \o g[left \ Ready(items, left)]

LEMMA FiniteLefts ==
  ASSUME NEW items, Len(items) \in Nat, DOMAIN items = 1 .. Len(items)
  PROVE  \A left \in SUBSET DOMAIN items :
           /\ IsFiniteSet(left) /\ Cardinality(left) \in Nat
           /\ Cardinality(left) <= Len(items)
<1>1. IsFiniteSet(DOMAIN items) /\ Cardinality(DOMAIN items) = Len(items)
  <2>1. /\ IsFiniteSet(1 .. Len(items))
        /\ Cardinality(1 .. Len(items)) = IF 1 > Len(items) THEN 0 ELSE Len(items) - 1 + 1
    BY FS_Interval, SMTT(30)
  <2>2. (IF 1 > Len(items) THEN 0 ELSE Len(items) - 1 + 1) = Len(items)
    OBVIOUS
  <2>. QED BY <2>1, <2>2
<1>. QED BY <1>1, FS_Subset, FS_CardinalityType

LEMMA OrderDefined ==
  ASSUME NEW items, Len(items) \in Nat, DOMAIN items = 1 .. Len(items)
  PROVE  \E g : /\ g = [left \in SUBSET DOMAIN items |-> Round(items, g, left)]
                /\ topological_order(items) = g[DOMAIN items]
<1>. DEFINE D == DOMAIN items
            Solves(g, m) == \A left \in SUBSET D :
                              Cardinality(left) <= m => g[left] = Round(items, g, left)
            Good == {m \in Nat : \E g : Solves(g, m)}
<1>0. \A left \in SUBSET D : /\ IsFiniteSet(left) /\ Cardinality(left) \in Nat
                             /\ Cardinality(left) <= Len(items)
  BY FiniteLefts
<1>1. 0 \in Good
  <2>1. \A left \in SUBSET D : Cardinality(left) <= 0 => left = {}
    BY <1>0, FS_EmptySet
  <2>2. Ready(items, {}) = {}
    BY DEF Ready
  <2>3. Solves([left \in SUBSET D |-> <<>>], 0)
    BY <2>1, <2>2 DEF Round
  <2>. QED BY <2>3
<1>2. \A m \in Good : m + 1 \in Good
  <2>. SUFFICES ASSUME NEW m \in Nat, NEW g, Solves(g, m) PROVE \E h : Solves(h, m + 1)
    OBVIOUS
  <2>. DEFINE h == [left \in SUBSET D |-> Round(items, g, left)]
  <2>1. ASSUME NEW left \in SUBSET D, Cardinality(left) <= m + 1
        PROVE  h[left] = Round(items, h, left)
    <3>1. h[left] = Round(items, g, left)
      OBVIOUS
    <3>2. CASE Ready(items, left) = {}
      BY <3>1, <3>2 DEF Round
    <3>3. CASE Ready(items, left) # {}
      <4>. DEFINE rest == left \ Ready(items, left)
      <4>1. rest \in SUBSET D /\ rest \subseteq left /\ rest # left
        BY <3>3 DEF Ready
      <4>2. Cardinality(rest) < Cardinality(left)
        BY <1>0, <4>1, FS_Subset
      <4>3. Cardinality(rest) <= m
        BY <1>0, <2>1, <4>1, <4>2
      <4>4. h[rest] = g[rest]
        BY <4>1, <4>3
      <4>. QED BY <3>1, <3>3, <4>4 DEF Round
    <3>. QED BY <3>2, <3>3
  <2>2. Solves(h, m + 1)
    <3>. HIDE DEF h
    <3>. QED BY <2>1
  <2>. QED BY <2>2
<1>3. Len(items) \in Good
  <2>. HIDE DEF Good
  <2>1. Good \in SUBSET Nat
    BY DEF Good
  <2>. QED BY <1>1, <1>2, <2>1, SetInduction
<1>4. PICK g : Solves(g, Len(items))
  BY <1>3
<1>. DEFINE f == [left \in SUBSET D |-> g[left]]
<1>5. f = [left \in SUBSET D |-> Round(items, f, left)]
  <2>1. \A left \in SUBSET D : g[left] = Round(items, g, left)
    BY <1>0, <1>4
  <2>2. \A left \in SUBSET D : Round(items, g, left) = Round(items, f, left)
    <3>1. \A left \in SUBSET D : f[left \ Ready(items, left)] = g[left \ Ready(items, left)]
      OBVIOUS
    <3>. QED BY <3>1 DEF Round
  <2>. QED BY <2>1, <2>2
<1>. DEFINE c == CHOOSE u : u = [left \in SUBSET D |-> Round(items, u, left)]
<1>6. c = [left \in SUBSET D |-> Round(items, c, left)]
  <2>. HIDE DEF f
  <2>. QED BY <1>5
<1>7. topological_order(items) = c[D]
  BY DEF topological_order, Round, Ready, IdsOf
<1>. HIDE DEF c
<1>. QED BY <1>6, <1>7

\* Every item q numbers has its dependencies outside of left or earlier in q.
Sorted(items, left, q) ==
  \A k \in DOMAIN q :
    items[q[k]].dependsOn
      \subseteq IdsOf(items, (DOMAIN items \ left) \cup {q[j] : j \in 1 .. (k - 1)})

\* What q does not number can never be taken.
Stuck(items, left, q) == Ready(items, left \ Range1(q)) = {}

\* One round before the others.
LEMMA RoundNumbered ==
  ASSUME NEW items, NEW left \in SUBSET DOMAIN items,
         NEW p, NEW s, NEW q, NEW t,
         Numbered(items, Ready(items, left), p, s), Ready(items, left) \subseteq Range1(p),
         Numbered(items, left \ Ready(items, left), q, t),
         Sorted(items, left \ Ready(items, left), q),
         Stuck(items, left \ Ready(items, left), q)
  PROVE  /\ Numbered(items, left, p \o q, s \o t)
         /\ Sorted(items, left, p \o q)
         /\ Stuck(items, left, p \o q)
<1>. DEFINE R == Ready(items, left)
            r == p \o q
<1>1. R \subseteq left
  BY DEF Ready
<1>2. p \in Seq(R) /\ q \in Seq(left \ R) /\ p \in Seq(left) /\ q \in Seq(left)
  BY <1>1 DEF Numbered
<1>3. /\ Len(p) \in Nat /\ DOMAIN p = 1 .. Len(p)
      /\ Len(q) \in Nat /\ DOMAIN q = 1 .. Len(q)
      /\ r \in Seq(left) /\ Len(r) = Len(p) + Len(q) /\ DOMAIN r = 1 .. (Len(p) + Len(q))
      /\ \A i \in 1 .. Len(p) : r[i] = p[i] /\ p[i] \in R
      /\ \A i \in 1 .. (Len(p) + Len(q)) :
           i > Len(p) => r[i] = q[i - Len(p)] /\ q[i - Len(p)] \in left \ R
  BY <1>2
<1>4. \A i, j \in DOMAIN r : r[i] = r[j] => i = j
  <2>. SUFFICES ASSUME NEW i \in DOMAIN r, NEW j \in DOMAIN r, r[i] = r[j] PROVE i = j
    OBVIOUS
  <2>1. CASE i <= Len(p) /\ j <= Len(p)
    BY <1>3, <2>1 DEF Numbered
  <2>2. CASE i > Len(p) /\ j > Len(p)
    <3>1. i - Len(p) \in DOMAIN q /\ j - Len(p) \in DOMAIN q
      BY <1>3, <2>2
    <3>2. i - Len(p) = j - Len(p)
      BY <1>3, <2>2, <3>1 DEF Numbered
    <3>. QED BY <1>3, <3>2
  <2>3. CASE i <= Len(p) /\ j > Len(p)
    BY <1>3, <2>3
  <2>4. CASE i > Len(p) /\ j <= Len(p)
    BY <1>3, <2>4
  <2>. QED BY <1>3, <2>1, <2>2, <2>3, <2>4
<1>5. s \o t = [k \in DOMAIN r |-> items[r[k]]]
  <2>1. s = [k \in 1 .. Len(p) |-> items[p[k]]] /\ t = [k \in 1 .. Len(q) |-> items[q[k]]]
    BY <1>3 DEF Numbered
  <2>2. Len(s) = Len(p) /\ Len(t) = Len(q)
    BY <1>3, <2>1
  <2>3. s \o t = [k \in 1 .. (Len(s) + Len(t)) |-> IF k <= Len(s) THEN s[k] ELSE t[k - Len(s)]]
    BY <1>3, <2>1
  <2>4. \A k \in 1 .. (Len(p) + Len(q)) :
          (IF k <= Len(s) THEN s[k] ELSE t[k - Len(s)]) = items[r[k]]
    <3>. SUFFICES ASSUME NEW k \in 1 .. (Len(p) + Len(q))
                  PROVE  (IF k <= Len(s) THEN s[k] ELSE t[k - Len(s)]) = items[r[k]]
      OBVIOUS
    <3>1. CASE k <= Len(p)
      BY <1>3, <2>1, <2>2, <3>1
    <3>2. CASE k > Len(p)
      <4>1. k - Len(p) \in 1 .. Len(q)
        BY <1>3, <3>2
      <4>. QED BY <1>3, <2>1, <2>2, <3>2, <4>1
    <3>. QED BY <1>3, <3>1, <3>2
  <2>. QED BY <1>3, <2>2, <2>3, <2>4
<1>6. Range1(r) = Range1(p) \cup Range1(q)
  <2>1. ASSUME NEW x \in Range1(r) PROVE x \in Range1(p) \cup Range1(q)
    <3>1. PICK i \in DOMAIN r : x = r[i]
      BY <2>1 DEF Range1
    <3>2. CASE i <= Len(p)
      BY <1>3, <3>1, <3>2 DEF Range1
    <3>3. CASE i > Len(p)
      <4>1. i - Len(p) \in DOMAIN q
        BY <1>3, <3>3
      <4>. QED BY <1>3, <3>1, <3>3, <4>1 DEF Range1
    <3>. QED BY <1>3, <3>2, <3>3
  <2>2. ASSUME NEW x \in Range1(p) PROVE x \in Range1(r)
    BY <1>3 DEF Range1
  <2>3. ASSUME NEW x \in Range1(q) PROVE x \in Range1(r)
    <3>1. PICK i \in DOMAIN q : x = q[i]
      BY <2>3 DEF Range1
    <3>2. i + Len(p) \in DOMAIN r /\ i + Len(p) > Len(p) /\ (i + Len(p)) - Len(p) = i
      BY <1>3
    <3>3. r[i + Len(p)] = x
      BY <1>3, <3>1, <3>2
    <3>. QED BY <3>2, <3>3 DEF Range1
  <2>. QED BY <2>1, <2>2, <2>3
<1>7. Range1(p) = R
  BY <1>3 DEF Range1
<1>8. Sorted(items, left, r)
  <2>. SUFFICES ASSUME NEW k \in DOMAIN r
                PROVE  items[r[k]].dependsOn
                         \subseteq IdsOf(items, (DOMAIN items \ left)
                                               \cup {r[j] : j \in 1 .. (k - 1)})
    BY DEF Sorted
  <2>1. CASE k <= Len(p)
    <3>1. items[r[k]].dependsOn \subseteq IdsOf(items, DOMAIN items \ left)
      <4>1. r[k] \in Ready(items, left)
        BY <1>3, <2>1
      <4>. HIDE DEF r
      <4>. QED BY <4>1 DEF Ready
    <3>. QED BY <3>1 DEF IdsOf
  <2>2. CASE k > Len(p)
    <3>. DEFINE i == k - Len(p)
                before == (DOMAIN items \ left) \cup {r[j] : j \in 1 .. (k - 1)}
    <3>1. i \in DOMAIN q /\ r[k] = q[i]
      BY <1>3, <2>2
    <3>2. items[q[i]].dependsOn
            \subseteq IdsOf(items, (DOMAIN items \ (left \ R)) \cup {q[j] : j \in 1 .. (i - 1)})
      <4>. HIDE DEF i, R
      <4>. QED BY <3>1 DEF Sorted, R
    <3>3. R \subseteq before
      <4>1. ASSUME NEW x \in R PROVE x \in {r[j] : j \in 1 .. (k - 1)}
        <5>1. PICK j \in DOMAIN p : x = p[j]
          BY <1>7 DEF Range1
        <5>2. j \in 1 .. (k - 1) /\ r[j] = x
          BY <1>3, <2>2, <5>1
        <5>. QED BY <5>2
      <4>. QED BY <4>1
    <3>4. {q[j] : j \in 1 .. (i - 1)} \subseteq before
      <4>1. ASSUME NEW j \in 1 .. (i - 1) PROVE q[j] \in {r[l] : l \in 1 .. (k - 1)}
        <5>1. /\ j + Len(p) \in 1 .. (k - 1) /\ j + Len(p) \in DOMAIN r
              /\ j + Len(p) > Len(p) /\ (j + Len(p)) - Len(p) = j
          BY <1>3, <2>2
        <5>2. r[j + Len(p)] = q[j]
          BY <1>3, <5>1
        <5>. QED BY <5>1, <5>2
      <4>. QED BY <4>1
    <3>5. (DOMAIN items \ (left \ R)) \cup {q[j] : j \in 1 .. (i - 1)} \subseteq before
      BY <3>3, <3>4
    <3>6. \A A, B : A \subseteq B => IdsOf(items, A) \subseteq IdsOf(items, B)
      BY DEF IdsOf
    <3>7. items[r[k]].dependsOn \subseteq IdsOf(items, before)
      <4>. HIDE DEF i, before, R, r
      <4>. QED BY <3>1, <3>2, <3>5, <3>6
    <3>. QED BY <3>7
  <2>3. k <= Len(p) \/ k > Len(p)
    BY <1>3
  <2>. QED BY <2>1, <2>2, <2>3
<1>9. Stuck(items, left, r)
  <2>1. left \ Range1(r) = (left \ R) \ Range1(q)
    BY <1>6, <1>7
  <2>. HIDE DEF r, R
  <2>. QED BY <2>1 DEF Stuck, R
<1>. QED BY <1>3, <1>4, <1>5, <1>8, <1>9 DEF Numbered

\* Round by round: the order, as far as it goes.
LEMMA OrderNumbered ==
  ASSUME NEW items, Len(items) \in Nat, DOMAIN items = 1 .. Len(items),
         NEW g, g = [left \in SUBSET DOMAIN items |-> Round(items, g, left)]
  PROVE  \A left \in SUBSET DOMAIN items : \E q :
           /\ Numbered(items, left, q, g[left])
           /\ Sorted(items, left, q)
           /\ Stuck(items, left, q)
<1>. DEFINE D == DOMAIN items
            Done(left) == \E q : /\ Numbered(items, left, q, g[left])
                                 /\ Sorted(items, left, q)
                                 /\ Stuck(items, left, q)
            Good == {m \in Nat : \A left \in SUBSET D : Cardinality(left) <= m => Done(left)}
<1>0. \A left \in SUBSET D : /\ IsFiniteSet(left) /\ Cardinality(left) \in Nat
                             /\ Cardinality(left) <= Len(items)
  BY FiniteLefts
<1>1. ASSUME NEW left \in SUBSET D, Ready(items, left) = {} PROVE Done(left)
  <2>1. g[left] = <<>>
    BY <1>1 DEF Round
  <2>2. Numbered(items, left, <<>>, g[left])
    BY <2>1 DEF Numbered
  <2>3. Sorted(items, left, <<>>)
    BY DEF Sorted
  <2>4. Stuck(items, left, <<>>)
    <3>1. left \ Range1(<<>>) = left
      BY DEF Range1
    <3>. QED BY <1>1, <3>1 DEF Stuck
  <2>. QED BY <2>2, <2>3, <2>4
<1>2. ASSUME NEW left \in SUBSET D, Ready(items, left) # {}, Done(left \ Ready(items, left))
      PROVE  Done(left)
  <2>. DEFINE R == Ready(items, left)
  <2>1. R \in SUBSET D
    BY DEF Ready
  <2>2. PICK p : Numbered(items, R, p, Pick(items, R)) /\ R \subseteq Range1(p)
    <3>. HIDE DEF R
    <3>. QED BY <2>1, PickNumbered
  <2>3. PICK q : /\ Numbered(items, left \ R, q, g[left \ R])
                 /\ Sorted(items, left \ R, q)
                 /\ Stuck(items, left \ R, q)
    BY <1>2
  <2>4. g[left] = Pick(items, R) \o g[left \ R]
    BY <1>2 DEF Round
  <2>5. /\ Numbered(items, left, p \o q, Pick(items, R) \o g[left \ R])
        /\ Sorted(items, left, p \o q)
        /\ Stuck(items, left, p \o q)
    BY <2>2, <2>3, RoundNumbered
  <2>. HIDE DEF R
  <2>. QED BY <2>4, <2>5
<1>3. 0 \in Good
  <2>1. \A left \in SUBSET D : Cardinality(left) <= 0 => left = {}
    BY <1>0, FS_EmptySet
  <2>2. Ready(items, {}) = {}
    BY DEF Ready
  <2>. HIDE DEF Done
  <2>. QED BY <1>1, <2>1, <2>2
<1>4. \A m \in Good : m + 1 \in Good
  <2>. HIDE DEF Done
  <2>. SUFFICES ASSUME NEW m \in Good, NEW left \in SUBSET D, Cardinality(left) <= m + 1
                PROVE  Done(left)
    OBVIOUS
  <2>1. CASE Ready(items, left) = {}
    BY <1>1, <2>1
  <2>2. CASE Ready(items, left) # {}
    <3>. DEFINE rest == left \ Ready(items, left)
    <3>1. rest \in SUBSET D /\ rest \subseteq left /\ rest # left
      BY <2>2 DEF Ready
    <3>2. Cardinality(rest) < Cardinality(left)
      BY <1>0, <3>1, FS_Subset
    <3>3. Cardinality(rest) <= m
      BY <1>0, <3>1, <3>2
    <3>4. Done(rest)
      BY <3>1, <3>3
    <3>. QED BY <1>2, <2>2, <3>4
  <2>. QED BY <2>1, <2>2
<1>5. Len(items) \in Good
  <2>. HIDE DEF Good
  <2>1. Good \in SUBSET Nat
    BY DEF Good
  <2>. QED BY <1>3, <1>4, <2>1, SetInduction
<1>. QED BY <1>0, <1>5

\* _topological_order, for routes and plans of every length: it takes no item
\* twice, none before the items it depends on, and leaves out only items each of
\* which depends on another that is left out (a cycle, or an unknown id).
THEOREM TopologicalOrderSound ==
  ASSUME NEW items, Len(items) \in Nat, DOMAIN items = 1 .. Len(items)
  PROVE  \E q \in Seq(DOMAIN items) :
           /\ \A i, j \in DOMAIN q : q[i] = q[j] => i = j
           /\ topological_order(items) = [k \in DOMAIN q |-> items[q[k]]]
           /\ \A k \in DOMAIN q :
                items[q[k]].dependsOn \subseteq {items[q[j]].id : j \in 1 .. (k - 1)}
           /\ \A i \in DOMAIN items \ Range1(q) :
                ~(items[i].dependsOn \subseteq {items[j].id : j \in Range1(q)})
<1>1. PICK g : /\ g = [left \in SUBSET DOMAIN items |-> Round(items, g, left)]
               /\ topological_order(items) = g[DOMAIN items]
  BY OrderDefined
<1>2. PICK q : /\ Numbered(items, DOMAIN items, q, g[DOMAIN items])
               /\ Sorted(items, DOMAIN items, q)
               /\ Stuck(items, DOMAIN items, q)
  BY <1>1, OrderNumbered
<1>3. q \in Seq(DOMAIN items) /\ DOMAIN q = 1 .. Len(q) /\ Len(q) \in Nat
  BY <1>2 DEF Numbered
<1>4. \A k \in DOMAIN q :
        items[q[k]].dependsOn \subseteq {items[q[j]].id : j \in 1 .. (k - 1)}
  <2>. SUFFICES ASSUME NEW k \in DOMAIN q
                PROVE  items[q[k]].dependsOn \subseteq {items[q[j]].id : j \in 1 .. (k - 1)}
    OBVIOUS
  <2>1. items[q[k]].dependsOn
          \subseteq IdsOf(items, (DOMAIN items \ DOMAIN items) \cup {q[j] : j \in 1 .. (k - 1)})
    BY <1>2 DEF Sorted
  <2>2. (DOMAIN items \ DOMAIN items) \cup {q[j] : j \in 1 .. (k - 1)} = {q[j] : j \in 1 .. (k - 1)}
    OBVIOUS
  <2>3. IdsOf(items, {q[j] : j \in 1 .. (k - 1)}) \subseteq {items[q[j]].id : j \in 1 .. (k - 1)}
    BY DEF IdsOf
  <2>. QED BY <2>1, <2>2, <2>3
<1>5. \A i \in DOMAIN items \ Range1(q) :
        ~(items[i].dependsOn \subseteq {items[j].id : j \in Range1(q)})
  <2>1. Range1(q) \subseteq DOMAIN items
    BY <1>3 DEF Range1
  <2>2. DOMAIN items \ (DOMAIN items \ Range1(q)) = Range1(q)
    BY <2>1
  <2>. QED BY <1>2, <2>2 DEF Stuck, Ready, IdsOf
<1>. QED BY <1>1, <1>2, <1>3, <1>4, <1>5 DEF Numbered

\* Ordered, on which both validators of routes and plans end: what they accept is
\* the same items in an order in which each comes after all it depends on, and
\* what they turn down for its order has items that wait for each other.
THEOREM OrderedSound ==
  ASSUME NEW items, Len(items) \in Nat, DOMAIN items = 1 .. Len(items), items # <<>>
  PROVE  /\ Ordered(items) # Rejected => \E q \in Seq(DOMAIN items) :
              /\ DOMAIN q = DOMAIN items /\ Range1(q) = DOMAIN items
              /\ \A i, j \in DOMAIN q : q[i] = q[j] => i = j
              /\ Ordered(items) = [k \in DOMAIN items |-> items[q[k]]]
              /\ \A k \in DOMAIN q :
                   items[q[k]].dependsOn \subseteq {items[q[j]].id : j \in 1 .. (k - 1)}
         /\ Ordered(items) = Rejected => \E C \in (SUBSET DOMAIN items) \ {{}} :
              \A i \in C : ~(items[i].dependsOn
                               \subseteq {items[j].id : j \in DOMAIN items \ C})
<1>1. PICK q \in Seq(DOMAIN items) :
        /\ \A i, j \in DOMAIN q : q[i] = q[j] => i = j
        /\ topological_order(items) = [k \in DOMAIN q |-> items[q[k]]]
        /\ \A k \in DOMAIN q :
             items[q[k]].dependsOn \subseteq {items[q[j]].id : j \in 1 .. (k - 1)}
        /\ \A i \in DOMAIN items \ Range1(q) :
             ~(items[i].dependsOn \subseteq {items[j].id : j \in Range1(q)})
  BY TopologicalOrderSound
<1>. DEFINE order == [k \in DOMAIN q |-> items[q[k]]]
<1>2. /\ DOMAIN q = 1 .. Len(q) /\ Len(q) \in Nat
      /\ \A k \in DOMAIN q : q[k] \in DOMAIN items
      /\ Range1(q) \subseteq DOMAIN items
  BY DEF Range1
<1>3. Len(order) = Len(q) /\ topological_order(items) = order
  BY <1>1, <1>2
<1>4. q \in Injection(1 .. Len(q), 1 .. Len(items))
  BY <1>1, <1>2, SMTT(30) DEF Injection, IsInjective
<1>5. \A n \in Nat : IsFiniteSet(1 .. n) /\ Cardinality(1 .. n) = n
  <2>. SUFFICES ASSUME NEW n \in Nat PROVE IsFiniteSet(1 .. n) /\ Cardinality(1 .. n) = n
    OBVIOUS
  <2>. HIDE DEF order
  <2>0. 1 \in Int /\ n \in Int
    OBVIOUS
  <2>1. IsFiniteSet(1 .. n) /\ Cardinality(1 .. n) = IF 1 > n THEN 0 ELSE n - 1 + 1
    BY ONLY <2>0, FS_Interval
  <2>2. (IF 1 > n THEN 0 ELSE n - 1 + 1) = n
    OBVIOUS
  <2>. QED BY <2>1, <2>2
<1>6. Len(q) = Len(items) <=> Range1(q) = DOMAIN items
  <2>1. /\ IsFiniteSet(1 .. Len(items))
        /\ Cardinality(1 .. Len(items)) = Len(items) /\ Cardinality(1 .. Len(q)) = Len(q)
    BY <1>2, <1>5
  <2>2. Cardinality(1 .. Len(q)) = Cardinality(1 .. Len(items))
          <=> q \in Surjection(1 .. Len(q), 1 .. Len(items))
    BY <1>4, <2>1, FS_Injection
  <2>3. q \in Surjection(1 .. Len(q), 1 .. Len(items)) <=> Range1(q) = DOMAIN items
    <3>1. Range1(q) = DOMAIN items <=> \A t \in DOMAIN items : \E k \in DOMAIN q : q[k] = t
      BY <1>2 DEF Range1
    <3>2. q \in [1 .. Len(q) -> 1 .. Len(items)]
      BY <1>4 DEF Injection
    <3>. QED BY <1>2, <3>1, <3>2 DEF Surjection
  <2>. QED BY <2>1, <2>2, <2>3
<1>7. CASE Len(q) = Len(items)
  <2>1. Ordered(items) = order /\ DOMAIN q = DOMAIN items
    BY <1>2, <1>3, <1>7 DEF Ordered
  <2>2. order # <<>>
    BY <1>2, <1>7, <2>1
  <2>. QED BY <1>1, <1>6, <1>7, <2>1, <2>2, ZenonT(30) DEF Rejected
<1>8. CASE Len(q) # Len(items)
  <2>1. Ordered(items) = Rejected
    BY <1>3, <1>8 DEF Ordered
  <2>. DEFINE C == DOMAIN items \ Range1(q)
  <2>2. C \in (SUBSET DOMAIN items) \ {{}} /\ DOMAIN items \ C = Range1(q)
    BY <1>2, <1>6, <1>8
  <2>3. \A i \in C : ~(items[i].dependsOn \subseteq {items[j].id : j \in DOMAIN items \ C})
    BY <1>1, <2>2
  <2>. QED BY <2>1, <2>2, <2>3
<1>. QED BY <1>7, <1>8
=============================================================================
