----------------------------- MODULE NodeProofs -----------------------------
(***************************************************************************)
(* Proofs about two nodes of the graph, which share no state: the entities *)
(* of a question (ResolveEntity) and the answer from the results of its    *)
(* plan (GenerateAnswer).                                                  *)
(***************************************************************************)
EXTENDS ResolveEntity, GenerateAnswer, FiniteSetTheorems, WellFoundedInduction, TLAPS

-----------------------------------------------------------------------------
(***************************************************************************)
(* Finite sets in order.                                                   *)
(***************************************************************************)
\* R orders S strictly and totally.
Orders(R, S) ==
  /\ \A x \in S : <<x, x>> \notin R
  /\ \A x, y, z \in S : <<x, y>> \in R /\ <<y, z>> \in R => <<x, z>> \in R
  /\ \A x, y \in S : x # y => <<x, y>> \in R \/ <<y, x>> \in R

Below(S, R, x) == {y \in S : <<y, x>> \in R}

LEMMA RankBounded ==
  ASSUME NEW S, IsFiniteSet(S), NEW R, Orders(R, S), NEW x \in S
  PROVE  /\ IsFiniteSet(Below(S, R, x))
         /\ Cardinality(Below(S, R, x)) \in 0 .. (Cardinality(S) - 1)
<1>1. Below(S, R, x) \in SUBSET (S \ {x})
  BY DEF Below, Orders
<1>2. IsFiniteSet(S \ {x}) /\ Cardinality(S \ {x}) = Cardinality(S) - 1
  BY FS_RemoveElement
<1>3. IsFiniteSet(Below(S, R, x)) /\ Cardinality(Below(S, R, x)) <= Cardinality(S \ {x})
  BY <1>1, <1>2, FS_Subset
<1>4. Cardinality(Below(S, R, x)) \in Nat /\ Cardinality(S) \in Nat
  BY <1>3, FS_CardinalityType
<1>. QED BY <1>2, <1>3, <1>4

LEMMA RankGrows ==
  ASSUME NEW S, IsFiniteSet(S), NEW R, Orders(R, S), NEW x \in S, NEW y \in S, <<x, y>> \in R
  PROVE  Cardinality(Below(S, R, x)) < Cardinality(Below(S, R, y))
<1>1. /\ Below(S, R, x) \in SUBSET Below(S, R, y)
      /\ x \in Below(S, R, y) /\ x \notin Below(S, R, x)
  BY DEF Below, Orders
<1>2. IsFiniteSet(Below(S, R, x)) /\ IsFiniteSet(Below(S, R, y))
  BY RankBounded
<1>3. /\ Cardinality(Below(S, R, x)) <= Cardinality(Below(S, R, y))
      /\ Cardinality(Below(S, R, x)) # Cardinality(Below(S, R, y))
  BY <1>1, <1>2, FS_Subset
<1>4. Cardinality(Below(S, R, x)) \in Nat /\ Cardinality(Below(S, R, y)) \in Nat
  BY <1>2, FS_CardinalityType
<1>. QED BY <1>3, <1>4

\* InOrder lists the set: each element once, smaller ones first.
LEMMA InOrderLists ==
  ASSUME NEW S, IsFiniteSet(S), NEW R, Orders(R, S)
  PROVE  /\ Cardinality(S) \in Nat
         /\ DOMAIN InOrder(S, R) = 1 .. Cardinality(S)
         /\ \A k \in 1 .. Cardinality(S) : InOrder(S, R)[k] \in S
         /\ \A x \in S : \E k \in 1 .. Cardinality(S) : InOrder(S, R)[k] = x
         /\ \A k, l \in 1 .. Cardinality(S) :
              k < l => <<InOrder(S, R)[k], InOrder(S, R)[l]>> \in R
<1>. DEFINE n == Cardinality(S)
            f == [x \in S |-> Cardinality(Below(S, R, x))]
            order == InOrder(S, R)
<1>1. n \in Nat
  BY FS_CardinalityType
<1>2. f \in [S -> 0 .. (n - 1)]
  BY RankBounded
<1>3. \A x, y \in S : <<x, y>> \in R => f[x] < f[y]
  BY RankGrows
<1>4. \A x, y \in S : f[x] = f[y] => x = y
  <2>. SUFFICES ASSUME NEW x \in S, NEW y \in S, f[x] = f[y], x # y PROVE FALSE
    OBVIOUS
  <2>1. f[x] < f[y] \/ f[y] < f[x]
    BY <1>3 DEF Orders
  <2>2. f[x] \in Nat /\ f[y] \in Nat
    BY <1>1, <1>2
  <2>. QED BY <2>1, <2>2
<1>5. f \in Injection(S, 0 .. (n - 1))
  BY <1>2, <1>4 DEF Injection, IsInjective
<1>6. IsFiniteSet(0 .. (n - 1)) /\ Cardinality(0 .. (n - 1)) = n
  <2>1. 0 \in Int /\ n - 1 \in Int
    BY <1>1
  <2>2. /\ IsFiniteSet(0 .. (n - 1))
        /\ Cardinality(0 .. (n - 1)) = IF 0 > n - 1 THEN 0 ELSE (n - 1) - 0 + 1
    BY <2>1, FS_Interval
  <2>. QED BY <1>1, <2>2
<1>7. f \in Surjection(S, 0 .. (n - 1))
  BY <1>5, <1>6, FS_Injection
<1>8. \A k \in 1 .. n : \E x \in S : f[x] = k - 1
  <2>1. \A k \in 1 .. n : k - 1 \in 0 .. (n - 1)
    BY <1>1
  <2>. QED BY <1>7, <2>1 DEF Surjection
<1>9. /\ DOMAIN order = 1 .. n
      /\ \A k \in 1 .. n : order[k] = CHOOSE x \in S : Cardinality(Below(S, R, x)) = k - 1
  BY DEF InOrder, Below
<1>10. \A k \in 1 .. n : order[k] \in S /\ f[order[k]] = k - 1
  <2>. HIDE DEF order
  <2>1. \A x \in S : f[x] = Cardinality(Below(S, R, x))
    OBVIOUS
  <2>. HIDE DEF f
  <2>. QED BY <1>8, <1>9, <2>1
<1>. HIDE DEF f, order
<1>11. \A x \in S : \E k \in 1 .. n : order[k] = x
  <2>. TAKE x \in S
  <2>1. f[x] + 1 \in 1 .. n
    BY <1>1, <1>2
  <2>2. f[order[f[x] + 1]] = f[x] /\ order[f[x] + 1] \in S
    <3>1. (f[x] + 1) - 1 = f[x]
      BY <1>1, <1>2
    <3>. QED BY <1>10, <2>1, <3>1
  <2>3. order[f[x] + 1] = x
    BY <1>4, <2>2
  <2>. QED BY <2>1, <2>3
<1>12. \A k, l \in 1 .. n : k < l => <<order[k], order[l]>> \in R
  <2>. TAKE k, l \in 1 .. n
  <2>. HAVE k < l
  <2>1. f[order[k]] < f[order[l]] /\ order[k] \in S /\ order[l] \in S
    BY <1>1, <1>10
  <2>2. f[order[k]] \in Nat /\ f[order[l]] \in Nat
    BY <1>1, <1>2, <2>1
  <2>3. order[k] # order[l] /\ <<order[l], order[k]>> \notin R
    BY <1>3, <2>1, <2>2
  <2>. QED BY <2>1, <2>3 DEF Orders
<1>. QED BY <1>1, <1>9, <1>10, <1>11, <1>12 DEF order

LEMMA LeastNatural ==
  ASSUME NEW T \in SUBSET Nat, T # {}
  PROVE  \E x \in T : \A y \in T : x <= y
<1>. DEFINE R == OpToRel(<, Nat)
<1>1. IsWellFoundedOn(R, Nat)
  BY NatLessThanWellFounded
<1>2. \A x, y \in Nat : y < x => <<y, x>> \in R
  BY DEF OpToRel
<1>. HIDE DEF R
<1>3. \E x \in T : \A y \in T : ~(<<y, x>> \in R)
  BY <1>1, WFMin
<1>4. PICK x \in T : \A y \in T : ~(<<y, x>> \in R)
  BY <1>3
<1>5. \A y \in T : ~(y < x)
  BY <1>2, <1>4
<1>. QED BY <1>5

\* A position for each element picked, from the left to the right.
Places(at, n, positions) ==
  /\ at \in [1 .. n -> positions]
  /\ \A p \in positions : \E k \in 1 .. n : at[k] = p
  /\ \A k, l \in 1 .. n : k < l => at[k] < at[l]

LEMMA PickLists ==
  ASSUME NEW s, NEW positions \in SUBSET Nat, IsFiniteSet(positions)
  PROVE  /\ Cardinality(positions) \in Nat
         /\ DOMAIN Pick(s, positions) = 1 .. Cardinality(positions)
         /\ \E at : /\ Places(at, Cardinality(positions), positions)
                    /\ \A k \in 1 .. Cardinality(positions) : Pick(s, positions)[k] = s[at[k]]
<1>. DEFINE n == Cardinality(positions)
            R == {p \in positions \X positions : p[1] < p[2]}
            order == InOrder(positions, R)
<1>1. \A p, q \in positions : <<p, q>> \in R <=> p < q
  OBVIOUS
<1>2. Orders(R, positions)
  <2>. HIDE DEF R
  <2>. QED BY <1>1 DEF Orders
<1>3. /\ n \in Nat
      /\ DOMAIN order = 1 .. n
      /\ \A k \in 1 .. n : order[k] \in positions
      /\ \A p \in positions : \E k \in 1 .. n : order[k] = p
      /\ \A k, l \in 1 .. n : k < l => <<order[k], order[l]>> \in R
  <2>. HIDE DEF R
  <2>. QED BY <1>2, InOrderLists
<1>4. DOMAIN Pick(s, positions) = 1 .. n /\ \A k \in 1 .. n : Pick(s, positions)[k] = s[order[k]]
  BY DEF Pick
<1>. HIDE DEF order, R
<1>. DEFINE at == [k \in 1 .. n |-> order[k]]
<1>5. Places(at, n, positions)
  BY <1>1, <1>3 DEF Places
<1>6. \A k \in 1 .. n : at[k] = order[k]
  OBVIOUS
<1>. HIDE DEF at
<1>. QED BY <1>3, <1>4, <1>5, <1>6

LEMMA PickRange ==
  ASSUME NEW T, NEW s, NEW positions \in SUBSET Nat, IsFiniteSet(positions),
         \A p \in positions : s[p] \in T
  PROVE  /\ Pick(s, positions) \in Seq(T)
         /\ Len(Pick(s, positions)) = Cardinality(positions)
         /\ Range(Pick(s, positions)) = {s[p] : p \in positions}
<1>. DEFINE n == Cardinality(positions)
            picked == Pick(s, positions)
<1>1. n \in Nat /\ DOMAIN picked = 1 .. n
  BY PickLists
<1>2. PICK at : /\ Places(at, n, positions)
                /\ \A k \in 1 .. n : picked[k] = s[at[k]]
  BY PickLists
<1>3. picked = [k \in 1 .. n |-> picked[k]]
  BY DEF Pick
<1>. HIDE DEF n, picked
<1>4. \A k \in 1 .. n : picked[k] \in {s[p] : p \in positions}
  BY <1>2 DEF Places
<1>5. \A p \in positions : \E k \in 1 .. n : picked[k] = s[p]
  BY <1>2 DEF Places
<1>6. picked \in [1 .. n -> T]
  BY <1>3, <1>4
<1>7. Range(picked) = {s[p] : p \in positions}
  BY <1>1, <1>4, <1>5 DEF Range
<1>8. picked \in Seq(T) /\ Len(picked) = n
  BY <1>1, <1>6
<1>. QED BY <1>7, <1>8 DEF n, picked

\* The positions of a sequence, and some of them.
LEMMA SomePositions ==
  ASSUME NEW T, NEW s \in Seq(T), NEW positions \in SUBSET DOMAIN s
  PROVE  positions \in SUBSET Nat /\ IsFiniteSet(positions) /\ \A p \in positions : s[p] \in T
<1>1. DOMAIN s = 1 .. Len(s) /\ Len(s) \in Nat
  OBVIOUS
<1>2. positions \in SUBSET (1 .. Len(s))
  BY <1>1
<1>3. IsFiniteSet(1 .. Len(s))
  BY <1>1, FS_Interval
<1>4. IsFiniteSet(positions)
  BY <1>2, <1>3, FS_Subset
<1>. QED BY <1>1, <1>4

LEMMA FirstPosition ==
  ASSUME NEW T, NEW s \in Seq(T), NEW v \in Range(s)
  PROVE  \E i \in DOMAIN s : s[i] = v /\ \A j \in 1 .. i - 1 : s[j] # v
<1>. DEFINE P == {i \in DOMAIN s : s[i] = v}
<1>1. DOMAIN s = 1 .. Len(s) /\ Len(s) \in Nat
  OBVIOUS
<1>2. P \in SUBSET Nat /\ P # {}
  BY <1>1 DEF Range
<1>3. PICK i \in P : \A j \in P : i <= j
  <2>. HIDE DEF P
  <2>. QED BY <1>2, LeastNatural
<1>4. \A j \in 1 .. i - 1 : j \in DOMAIN s /\ ~(i <= j)
  BY <1>1
<1>. QED BY <1>3, <1>4

\* Nothing is lost and nothing is added.
LEMMA AppendUnique ==
  ASSUME NEW T, NEW target \in Seq(T), NEW values \in Seq(T)
  PROVE  /\ _append_unique(target, values) \in Seq(T)
         /\ Range(_append_unique(target, values)) = Range(target) \cup Range(values)
<1>. DEFINE fresh == {i \in DOMAIN values : /\ values[i] \notin Range(target)
                                            /\ \A j \in 1 .. i - 1 : values[j] # values[i]}
            more == Pick(values, fresh)
            whole == target \o more
<1>1. fresh \in SUBSET Nat /\ IsFiniteSet(fresh) /\ \A p \in fresh : values[p] \in T
  BY SomePositions
<1>2. more \in Seq(T) /\ Range(more) = {values[p] : p \in fresh}
  <2>. HIDE DEF fresh
  <2>. QED BY <1>1, PickRange
<1>3. Range(values) \subseteq Range(target) \cup {values[p] : p \in fresh}
  <2>. SUFFICES ASSUME NEW v \in Range(values), v \notin Range(target)
                PROVE  \E p \in fresh : v = values[p]
    OBVIOUS
  <2>1. PICK i \in DOMAIN values : values[i] = v /\ \A j \in 1 .. i - 1 : values[j] # v
    BY FirstPosition
  <2>. QED BY <2>1
<1>4. {values[p] : p \in fresh} \subseteq Range(values)
  BY DEF Range
<1>. HIDE DEF fresh, more
<1>5. /\ whole \in Seq(T) /\ Len(whole) = Len(target) + Len(more)
      /\ \A k \in 1 .. Len(target) : whole[k] = target[k]
      /\ \A k \in 1 .. Len(more) : whole[Len(target) + k] = more[k]
      /\ Len(target) \in Nat /\ Len(more) \in Nat
      /\ DOMAIN whole = 1 .. (Len(target) + Len(more))
      /\ DOMAIN target = 1 .. Len(target) /\ DOMAIN more = 1 .. Len(more)
  BY <1>2
<1>. HIDE DEF whole
<1>6. Range(whole) \subseteq Range(target) \cup Range(more)
  <2>. SUFFICES ASSUME NEW k \in DOMAIN whole
                PROVE  whole[k] \in Range(target) \cup Range(more)
    BY DEF Range
  <2>1. CASE k <= Len(target)
    BY <1>5, <2>1 DEF Range
  <2>2. CASE ~(k <= Len(target))
    <3>1. k - Len(target) \in 1 .. Len(more) /\ Len(target) + (k - Len(target)) = k
      BY <1>5, <2>2
    <3>. QED BY <1>5, <3>1 DEF Range
  <2>. QED BY <2>1, <2>2
<1>7. Range(target) \cup Range(more) \subseteq Range(whole)
  <2>1. \A k \in DOMAIN target : k \in DOMAIN whole /\ whole[k] = target[k]
    BY <1>5
  <2>2. \A k \in DOMAIN more : Len(target) + k \in DOMAIN whole /\ whole[Len(target) + k] = more[k]
    BY <1>5
  <2>. QED BY <2>1, <2>2 DEF Range
<1>8. _append_unique(target, values) = whole
  BY DEF _append_unique, whole, more, fresh
<1>. QED BY <1>2, <1>3, <1>4, <1>5, <1>6, <1>7, <1>8

-----------------------------------------------------------------------------
(***************************************************************************)
(* What the node computes between its awaits.                              *)
(***************************************************************************)
LEMMA QuestionSpans ==
  ASSUME question \in Questions, NEW n \in Names
  PROVE  /\ question.length \in Nat
         /\ question.spans[n] \in SUBSET ((0 .. question.length) \X (0 .. question.length))
BY ResolveAssumption

LEMMA PositionNatural ==
  ASSUME question \in Questions, NEW e \in Entities
  PROVE  Position(e) \in Nat
<1>. DEFINE spans == question.spans[NameOf[e]]
            starts == {s[1] : s \in spans}
<1>1. NameOf[e] \in Names
  BY ResolveAssumption
<1>2. question.length \in Nat /\ spans \in SUBSET ((0 .. question.length) \X (0 .. question.length))
  BY <1>1, QuestionSpans
<1>3. starts \in SUBSET Nat
  <2>. HIDE DEF spans
  <2>. QED BY <1>2
<1>4. Position(e) = IF starts = {} THEN question.length ELSE Min(starts)
  BY DEF Position
<1>. HIDE DEF starts
<1>5. starts # {} => Min(starts) \in starts
  BY <1>3, LeastNatural DEF Min
<1>. QED BY <1>2, <1>3, <1>4, <1>5

\* Sorting keeps the entities.
LEMMA SortKeeps ==
  ASSUME question \in Questions, NEW es \in Seq(Entities)
  PROVE  /\ _sort_entities_by_question(es) \in Seq(Entities)
         /\ Range(_sort_entities_by_question(es)) = Range(es)
<1>. DEFINE R == {p \in (DOMAIN es) \X (DOMAIN es) :
                    \/ Position(es[p[1]]) < Position(es[p[2]])
                    \/ Position(es[p[1]]) = Position(es[p[2]]) /\ p[1] < p[2]}
            order == InOrder(DOMAIN es, R)
            n == Cardinality(DOMAIN es)
            sorted == _sort_entities_by_question(es)
<1>1. DOMAIN es = 1 .. Len(es) /\ Len(es) \in Nat /\ \A i \in DOMAIN es : es[i] \in Entities
  OBVIOUS
<1>2. \A i \in DOMAIN es : Position(es[i]) \in Nat
  BY <1>1, PositionNatural
<1>3. \A i, j \in DOMAIN es :
        <<i, j>> \in R <=> \/ Position(es[i]) < Position(es[j])
                           \/ Position(es[i]) = Position(es[j]) /\ i < j
  OBVIOUS
<1>4. Orders(R, DOMAIN es)
  <2>. HIDE DEF R
  <2>1. \A i \in DOMAIN es : i \in Nat
    BY <1>1
  <2>. QED BY <1>2, <1>3, <2>1 DEF Orders
<1>5. IsFiniteSet(DOMAIN es) /\ n = Len(es)
  BY <1>1, FS_Interval
<1>6. /\ \A k \in 1 .. n : order[k] \in DOMAIN es
      /\ \A i \in DOMAIN es : \E k \in 1 .. n : order[k] = i
  <2>. HIDE DEF R
  <2>. QED BY <1>4, <1>5, InOrderLists
<1>7. sorted = [k \in DOMAIN es |-> es[order[k]]]
  BY DEF _sort_entities_by_question
<1>. HIDE DEF order, R, sorted
<1>8. sorted \in [1 .. Len(es) -> Entities]
  BY <1>1, <1>5, <1>6, <1>7
<1>9. Range(sorted) = Range(es)
  BY <1>1, <1>5, <1>6, <1>7 DEF Range
<1>. QED BY <1>1, <1>8, <1>9 DEF sorted

\* Every literal that is selected is one of the matches.
LEMMA LiteralsMatch ==
  ASSUME NEW N \in Nat, NEW E,
         NEW matches \in SUBSET [span : (0 .. N) \X (0 .. N), entity : E]
  PROVE  _select_literal_entities(matches) \in Seq(matches)
<1>. DEFINE spans == selected_spans(matches)
            R == {p \in spans \X spans : FromTheLeft(p[1], p[2])}
            order == InOrder(spans, R)
            n == Cardinality(spans)
            all == Literals(matches)
            first == {i \in DOMAIN all : \A j \in 1 .. i - 1 : all[j].entity # all[i].entity}
<1>1. \A s \in spans : identities(matches, s) # {}
  <2>1. \A s \in spans : Cardinality(identities(matches, s)) = 1
    BY DEF selected_spans
  <2>. HIDE DEF spans
  <2>. QED BY <2>1, FS_EmptySet
<1>2. \A s \in spans : \A e \in identities(matches, s) : [span |-> s, entity |-> e] \in matches
  <2>. TAKE s \in spans
  <2>. TAKE e \in identities(matches, s)
  <2>1. PICK m \in matches : m.span = s /\ m.entity = e
    BY DEF identities
  <2>2. m = [span |-> m.span, entity |-> m.entity]
    OBVIOUS
  <2>. QED BY <2>1, <2>2
<1>3. spans \in SUBSET ((0 .. N) \X (0 .. N))
  <2>. HIDE DEF spans
  <2>1. \A s \in spans : \E m \in matches : m.span = s
    BY <1>1 DEF identities
  <2>. QED BY <2>1
<1>4. IsFiniteSet(spans)
  <2>1. IsFiniteSet(0 .. N)
    BY FS_Interval
  <2>2. IsFiniteSet((0 .. N) \X (0 .. N))
    BY <2>1, FS_Product
  <2>. HIDE DEF spans
  <2>. QED BY <1>3, <2>2, FS_Subset
<1>5. Orders(R, spans)
  <2>. HIDE DEF spans
  <2>1. \A s, t \in spans : <<s, t>> \in R <=> (s[1] < t[1] \/ (s[1] = t[1] /\ s[2] < t[2]))
    BY DEF FromTheLeft
  <2>2. \A s, t \in spans : /\ s[1] \in Nat /\ s[2] \in Nat /\ t[1] \in Nat /\ t[2] \in Nat
                            /\ s[1] = t[1] /\ s[2] = t[2] => s = t
    BY <1>3
  <2>. HIDE DEF R
  <2>. QED BY <2>1, <2>2 DEF Orders
<1>6. n \in Nat /\ \A k \in 1 .. n : order[k] \in spans
  <2>. HIDE DEF R, spans
  <2>. QED BY <1>4, <1>5, InOrderLists
<1>7. all = [k \in 1 .. n |-> [span |-> order[k],
                               entity |-> CHOOSE e \in identities(matches, order[k]) : TRUE]]
  BY DEF Literals
<1>. HIDE DEF order, R, spans, n, all
<1>8. all \in [1 .. n -> matches]
  <2>1. \A k \in 1 .. n :
          [span |-> order[k], entity |-> CHOOSE e \in identities(matches, order[k]) : TRUE] \in matches
    BY <1>1, <1>2, <1>6
  <2>. QED BY <1>7, <2>1
<1>9. all \in Seq(matches)
  BY <1>6, <1>8
<1>10. Pick(all, first) \in Seq(matches)
  <2>1. first \in SUBSET DOMAIN all
    OBVIOUS
  <2>. HIDE DEF first
  <2>2. first \in SUBSET Nat /\ IsFiniteSet(first) /\ \A p \in first : all[p] \in matches
    BY <1>9, <2>1, SomePositions
  <2>. QED BY <2>2, PickRange
<1>. QED BY <1>10 DEF _select_literal_entities, all

\* The literals and the filter as functions of the question and of what was found.
Matches(q, f) ==
  {m \in [span : UNION {q.spans[n] : n \in Names}, entity : UNION {f[t] : t \in Types}] :
     NameOf[m.entity] \in q.literals /\ m.span \in q.spans[NameOf[m.entity]]}

SelectedIn(q, f) == _select_literal_entities(Matches(q, f))

Occurs(q, n) == IF q.spans[n] # {} THEN q.spans[n] ELSE q.loose[n]

Contained(q, f, l) ==
  /\ Occurs(q, l.name) # {}
  /\ \A s \in Occurs(q, l.name) :
       \E c \in {m.span : m \in {n \in Range(SelectedIn(q, f)) : TypeOf[n.entity] = l.type}} :
         Inside(s, c)

Kept(q, f, ls) == Pick(ls, {i \in DOMAIN ls : ~ Contained(q, f, ls[i])})

LEMMA SelectedAre == selected_literals = SelectedIn(question, found)
BY DEF selected_literals, SelectedIn, literal_matches, Matches

LEMMA InsideAre ==
  ASSUME NEW l
  PROVE  _lookup_is_inside_selected_literal(l) <=> Contained(question, found, l)
<1>1. OccurrencesOf(l.name) = Occurs(question, l.name)
  BY DEF OccurrencesOf, Occurs
<1>2. containers(l.type) =
        {m.span : m \in {n \in Range(SelectedIn(question, found)) : TypeOf[n.entity] = l.type}}
  BY SelectedAre DEF containers
<1>. QED BY <1>1, <1>2 DEF _lookup_is_inside_selected_literal, Contained

LEMMA FilteredAre ==
  ASSUME NEW ls
  PROVE  filtered_lookups(ls) = Kept(question, found, ls)
<1>. DEFINE P == {i \in DOMAIN ls : ~ _lookup_is_inside_selected_literal(ls[i])}
            Q == {i \in DOMAIN ls : ~ Contained(question, found, ls[i])}
<1>1. P = Q
  BY InsideAre
<1>2. filtered_lookups(ls) = Pick(ls, P) /\ Kept(question, found, ls) = Pick(ls, Q)
  BY DEF filtered_lookups, Kept
<1>. HIDE DEF P, Q
<1>. QED BY <1>1, <1>2

LookedUp == {LookupName[x] : x \in DOMAIN LookupName}

Lookups == [type : Types, name : LookedUp]

LEMMA SelectedMatch ==
  ASSUME NEW q \in Questions, NEW f \in [Types -> SUBSET Entities]
  PROVE  /\ SelectedIn(q, f) \in Seq(Matches(q, f))
         /\ Matches(q, f) \subseteq [span : (0 .. q.length) \X (0 .. q.length), entity : Entities]
<1>1. q.length \in Nat /\ q.spans \in [Names -> SUBSET ((0 .. q.length) \X (0 .. q.length))]
  BY ResolveAssumption
<1>2. UNION {q.spans[n] : n \in Names} \subseteq (0 .. q.length) \X (0 .. q.length)
  BY <1>1
<1>3. UNION {f[t] : t \in Types} \subseteq Entities
  OBVIOUS
<1>. DEFINE S == UNION {q.spans[n] : n \in Names}
            E == UNION {f[t] : t \in Types}
            T == (0 .. q.length) \X (0 .. q.length)
<1>4. Matches(q, f) \subseteq [span : S, entity : E]
  BY DEF Matches
<1>5. [span : S, entity : E] \subseteq [span : T, entity : Entities]
  <2>. HIDE DEF S, E, T
  <2>1. S \subseteq T /\ E \subseteq Entities
    BY <1>2, <1>3 DEF S, E, T
  <2>. QED BY <2>1
<1>6. Matches(q, f) \in SUBSET [span : T, entity : Entities]
  BY <1>4, <1>5
<1>7. _select_literal_entities(Matches(q, f)) \in Seq(Matches(q, f))
  BY <1>1, <1>6, LiteralsMatch
<1>. QED BY <1>6, <1>7 DEF SelectedIn

\* A lookup that is dropped is inside names of entities that were found.
LEMMA ContainedWithin ==
  ASSUME NEW q \in Questions, NEW f \in [Types -> SUBSET Entities], NEW l, Contained(q, f, l),
         NEW s \in Occurs(q, l.name)
  PROVE  \E m \in Range(SelectedIn(q, f)) :
           /\ m.entity \in UNION {f[t] : t \in Types}
           /\ TypeOf[m.entity] = l.type
           /\ m.span \in q.spans[NameOf[m.entity]]
           /\ Inside(s, m.span)
<1>1. PICK m \in Range(SelectedIn(q, f)) : TypeOf[m.entity] = l.type /\ Inside(s, m.span)
  BY DEF Contained
<1>2. m \in Matches(q, f)
  <2>. DEFINE M == Matches(q, f)
              z == SelectedIn(q, f)
  <2>1. z \in Seq(M)
    BY SelectedMatch
  <2>2. m \in Range(z)
    OBVIOUS
  <2>. HIDE DEF M, z
  <2>3. m \in M
    BY <2>1, <2>2 DEF Range
  <2>. QED BY <2>3 DEF M
<1>3. m.entity \in UNION {f[t] : t \in Types} /\ m.span \in q.spans[NameOf[m.entity]]
  BY <1>2 DEF Matches
<1>. QED BY <1>1, <1>3

\* The lookups kept are those at these places.
KeptAt(at, kept, q, f, ls) ==
  /\ Places(at, Len(kept), {i \in DOMAIN ls : ~ Contained(q, f, ls[i])})
  /\ \A k \in DOMAIN kept : kept[k] = ls[at[k]]

LEMMA KeptLists ==
  ASSUME NEW q, NEW f, NEW ls \in Seq(Lookups)
  PROVE  /\ Kept(q, f, ls) \in Seq(Lookups)
         /\ \E at : KeptAt(at, Kept(q, f, ls), q, f, ls)
<1>. DEFINE P == {i \in DOMAIN ls : ~ Contained(q, f, ls[i])}
            kept == Pick(ls, P)
<1>1. P \in SUBSET DOMAIN ls
  OBVIOUS
<1>2. kept = Kept(q, f, ls)
  BY DEF Kept
<1>. HIDE DEF P
<1>3. P \in SUBSET Nat /\ IsFiniteSet(P) /\ \A p \in P : ls[p] \in Lookups
  BY <1>1, SomePositions
<1>4. kept \in Seq(Lookups) /\ Len(kept) = Cardinality(P)
  BY <1>3, PickRange
<1>5. \E at : /\ Places(at, Cardinality(P), P)
              /\ \A k \in 1 .. Cardinality(P) : kept[k] = ls[at[k]]
  BY <1>3, PickLists
<1>6. DOMAIN kept = 1 .. Cardinality(P)
  BY <1>4
<1>. HIDE DEF kept
<1>7. \E at : Places(at, Len(kept), P) /\ \A k \in DOMAIN kept : kept[k] = ls[at[k]]
  BY <1>4, <1>5, <1>6
<1>8. \E at : KeptAt(at, kept, q, f, ls)
  BY <1>7 DEF KeptAt, P
<1>. QED BY <1>2, <1>4, <1>8

LEMMA LookupsAre ==
  ASSUME NEW x \in Extractions
  PROVE  LookupsOf(x) \in Seq(Lookups)
<1>. DEFINE T == Types \X DOMAIN LookupName
            texts == _append_unique(<<>>, x)
            P == {i \in DOMAIN texts : LookupName[texts[i][2]] # Ignored}
            named == Pick(texts, P)
            ls == LookupsOf(x)
<1>1. x \in Seq(T) /\ <<>> \in Seq(T)
  BY ResolveAssumption
<1>2. texts \in Seq(T)
  <2>. HIDE DEF T
  <2>. QED BY <1>1, AppendUnique
<1>3. named \in Seq(T)
  <2>. HIDE DEF T, texts
  <2>1. P \in SUBSET DOMAIN texts
    OBVIOUS
  <2>. HIDE DEF P
  <2>2. P \in SUBSET Nat /\ IsFiniteSet(P) /\ \A p \in P : texts[p] \in T
    BY <1>2, <2>1, SomePositions
  <2>. QED BY <2>2, PickRange
<1>4. ls = [i \in DOMAIN named |-> [type |-> named[i][1], name |-> LookupName[named[i][2]]]]
  BY DEF LookupsOf
<1>. HIDE DEF named, ls
<1>5. DOMAIN named = 1 .. Len(named) /\ Len(named) \in Nat
  BY <1>3
<1>6. \A i \in DOMAIN named :
        [type |-> named[i][1], name |-> LookupName[named[i][2]]] \in Lookups
  <2>. TAKE i \in DOMAIN named
  <2>1. named[i] \in Types \X DOMAIN LookupName
    BY <1>3
  <2>2. named[i][1] \in Types /\ named[i][2] \in DOMAIN LookupName
    BY <2>1
  <2>. QED BY <2>2 DEF Lookups, LookedUp
<1>7. ls \in [1 .. Len(named) -> Lookups]
  BY <1>4, <1>5, <1>6
<1>8. ls \in Seq(Lookups)
  BY <1>5, <1>7
<1>. QED BY <1>8 DEF ls

-----------------------------------------------------------------------------
(***************************************************************************)
(* The invariants of a request.                                            *)
(***************************************************************************)
Chosen == [entity : Entities, forName : LookedUp]

Reading == {"exact", "similar"}

RequestTypes ==
  /\ db \in SUBSET Entities
  /\ question \in Questions
  /\ confirmed \in Seq(Chosen) /\ valid \in Seq(Chosen)
  /\ stage \in {"idle", "confirmed"} \cup Reading
  /\ extracted \in Seq(Lookups) /\ lookups \in Seq(Lookups)
  /\ found \in [Types -> SUBSET Entities]
  /\ DOMAIN candidates = 1 .. MaxLookups
  /\ stage # "idle" => outcome = NoOutcome
  /\ outcome.kind = "ambiguous" => outcome.lookup \in Lookups

\* What the tables held all the time is there, and what is there counts.
ViewsSound == stage # "idle" => always \subseteq db /\ db \subseteq ever

\* The pick at i was accepted, or another one with its entity was before it.
Settled(i) ==
  /\ \E c \in Range(valid) : c.entity = confirmed[i].entity
  /\ \/ confirmed[i] \in Range(valid)
     \/ \E j \in 1 .. i - 1 : confirmed[j].entity = confirmed[i].entity

\* Every pick looked up so far is settled if its entity is there, and only
\* picks whose entity was there are accepted.
PicksChecked ==
  stage # "idle" =>
    /\ checked \in 0 .. Len(confirmed)
    /\ stage \in Reading => checked = Len(confirmed)
    /\ \A c \in Range(valid) : c.entity \in ever /\ \E j \in 1 .. checked : confirmed[j] = c
    /\ \A i \in 1 .. checked : confirmed[i].entity \in always => Settled(i)

\* Somebody asks for the entities of the type with the name.
AskedFor(q, ls, t, n) ==
  n \in q.literals \/ \E l \in Range(ls) : l.type = t /\ l.name = n

\* Every type read has all its entities with a name asked for, and no others.
TypesRead ==
  /\ stage # "idle" => \A t \in Types : \A e \in found[t] : e \in ever /\ TypeOf[e] = t
  /\ stage \in Reading =>
       \A t \in Types \ unread : \A e \in always :
         TypeOf[e] = t /\ AskedFor(question, extracted, t, NameOf[e]) => e \in found[t]

\* Nothing found has the name.
Absent(f, l) == \A e \in f[l.type] : NameOf[e] # l.name

\* The lookups are those of the model, and then those outside of literals; one
\* that was searched for has candidates if anything resembles it.
LookupsSearched ==
  /\ stage = "exact" => lookups = extracted
  /\ stage = "similar" =>
       /\ unread = {}
       /\ lookups = Kept(question, found, extracted)
       /\ \A i \in DOMAIN lookups \ unsearched :
            Absent(found, lookups[i]) =>
              /\ i \in DOMAIN candidates /\ candidates[i] \subseteq ever
              /\ candidates[i] = {} =>
                   \A e \in always : TypeOf[e] = lookups[i].type => <<e, lookups[i].name>> \notin Alike

RequestInv == RequestTypes /\ ViewsSound /\ PicksChecked /\ TypesRead /\ LookupsSearched

LEMMA EmptyRange == Range(<<>>) = {}
BY DEF Range

LEMMA RequestStarts == Init => RequestInv
<1>. SUFFICES ASSUME Init PROVE RequestInv
  OBVIOUS
<1>1. RequestTypes
  BY DEF Init, RequestTypes, NoOutcome
<1>. QED
  BY <1>1 DEF Init, RequestInv, ViewsSound, PicksChecked, TypesRead, LookupsSearched, Reading

LEMMA SendKeeps ==
  ASSUME RequestInv, NEW q \in Questions, NEW chosen \in Seq(Chosen), Send(q, chosen)
  PROVE  RequestInv'
<1>1. RequestTypes'
  BY DEF RequestInv, RequestTypes, Send, tables, NoOutcome, Reading
<1>2. ViewsSound'
  BY DEF RequestInv, ViewsSound, Send, tables
<1>3. PicksChecked'
  <2>1. Len(chosen) \in Nat
    OBVIOUS
  <2>. QED BY <2>1, EmptyRange DEF PicksChecked, Send, Reading
<1>4. TypesRead' /\ LookupsSearched'
  BY DEF TypesRead, LookupsSearched, Send, Reading
<1>. QED BY <1>1, <1>2, <1>3, <1>4 DEF RequestInv

\* The request has ended.
LEMMA EndKeeps ==
  ASSUME RequestInv, stage' = "idle", UNCHANGED <<world, question, valid, extracted, found, candidates>>,
         lookups' \in Seq(Lookups), confirmed' \in Seq(Chosen),
         outcome'.kind = "ambiguous" => outcome'.lookup \in Lookups
  PROVE  RequestInv'
<1>1. RequestTypes'
  BY DEF RequestInv, RequestTypes, world, tables, Reading
<1>. QED BY <1>1 DEF RequestInv, ViewsSound, PicksChecked, TypesRead, LookupsSearched, Reading

LEMMA TablesKeep ==
  ASSUME RequestInv, TableChanges
  PROVE  RequestInv'
<1>1. /\ db' \subseteq Entities /\ ever \subseteq ever' /\ db' \subseteq ever'
      /\ always' \subseteq always /\ always' \subseteq db'
      /\ UNCHANGED <<question, confirmed, stage, checked, valid, extracted, lookups, unread,
                     found, unsearched, candidates, outcome>>
  BY DEF TableChanges, request, asked, picks, RequestInv, RequestTypes
<1>2. RequestTypes'
  BY <1>1 DEF RequestInv, RequestTypes
<1>3. ViewsSound'
  BY <1>1 DEF ViewsSound
<1>4. PicksChecked'
  BY <1>1 DEF RequestInv, PicksChecked, Settled
<1>5. TypesRead'
  BY <1>1 DEF RequestInv, TypesRead
<1>6. LookupsSearched'
  BY <1>1 DEF RequestInv, LookupsSearched
<1>. QED BY <1>2, <1>3, <1>4, <1>5, <1>6 DEF RequestInv

LEMMA AppendRange ==
  ASSUME NEW T, NEW s \in Seq(T), NEW v \in T
  PROVE  Append(s, v) \in Seq(T) /\ Range(Append(s, v)) = Range(s) \cup {v}
<1>. DEFINE more == Append(s, v)
<1>1. /\ Len(s) \in Nat /\ DOMAIN s = 1 .. Len(s)
      /\ DOMAIN more = 1 .. (Len(s) + 1) /\ more[Len(s) + 1] = v
      /\ \A i \in DOMAIN s : more[i] = s[i]
  OBVIOUS
<1>2. more \in Seq(T)
  OBVIOUS
<1>. HIDE DEF more
<1>3. DOMAIN more = DOMAIN s \cup {Len(s) + 1}
  BY <1>1
<1>4. Range(more) = Range(s) \cup {v}
  BY <1>1, <1>3 DEF Range
<1>. QED BY <1>2, <1>4 DEF more

LEMMA CheckKeeps ==
  ASSUME RequestInv, check_confirmed
  PROVE  RequestInv'
<1>. DEFINE i == checked + 1
            pick == confirmed[i]
<1>1. /\ stage = "confirmed" /\ checked < Len(confirmed) /\ checked' = i
      /\ UNCHANGED <<db, ever, always, question, confirmed, stage, extracted, lookups, unread,
                     found, unsearched, candidates, outcome>>
  BY DEF check_confirmed, world, tables, asked
<1>2. /\ checked \in Nat /\ Len(confirmed) \in Nat /\ i \in 1 .. Len(confirmed)
      /\ pick \in Chosen /\ valid \in Seq(Chosen) /\ confirmed \in Seq(Chosen)
  BY <1>1 DEF RequestInv, RequestTypes, PicksChecked
<1>3. /\ \A c \in Range(valid) : c.entity \in ever /\ \E j \in 1 .. checked : confirmed[j] = c
      /\ \A j \in 1 .. checked : confirmed[j].entity \in always => Settled(j)
      /\ always \subseteq db /\ db \subseteq ever
  BY <1>1 DEF RequestInv, PicksChecked, ViewsSound
<1>. HIDE DEF pick
<1>4. CASE pick.entity \in db /\ \A c \in Range(valid) : c.entity # pick.entity
  <2>1. valid' = Append(valid, pick)
    BY <1>4 DEF check_confirmed, pick
  <2>2. valid' \in Seq(Chosen) /\ Range(valid') = Range(valid) \cup {pick}
    BY <1>2, <2>1, AppendRange
  <2>3. \A c \in Range(valid') : c.entity \in ever /\ \E j \in 1 .. i : confirmed[j] = c
    BY <1>2, <1>3, <1>4, <2>2 DEF pick
  <2>4. \A j \in 1 .. i : confirmed[j].entity \in always => Settled(j)'
    <3>. SUFFICES ASSUME NEW j \in 1 .. i, confirmed[j].entity \in always PROVE Settled(j)'
      OBVIOUS
    <3>1. CASE j = i
      BY <1>1, <2>2, <3>1 DEF Settled, pick
    <3>2. CASE j # i
      <4>1. j \in 1 .. checked
        BY <1>2, <3>2
      <4>2. Settled(j)
        BY <1>3, <4>1
      <4>. QED BY <1>1, <2>2, <4>2 DEF Settled
    <3>. QED BY <3>1, <3>2
  <2>. QED BY <1>1, <1>2, <2>2, <2>3, <2>4
    DEF RequestInv, RequestTypes, ViewsSound, PicksChecked, TypesRead, LookupsSearched, Reading
<1>5. CASE ~(pick.entity \in db /\ \A c \in Range(valid) : c.entity # pick.entity)
  <2>1. valid' = valid
    BY <1>5 DEF check_confirmed, pick
  <2>2. \A c \in Range(valid) : c.entity \in ever /\ \E j \in 1 .. i : confirmed[j] = c
    BY <1>2, <1>3
  <2>3. \A j \in 1 .. i : confirmed[j].entity \in always => Settled(j)
    <3>. SUFFICES ASSUME NEW j \in 1 .. i, confirmed[j].entity \in always PROVE Settled(j)
      OBVIOUS
    <3>1. CASE j = i
      <4>1. PICK c \in Range(valid) : c.entity = confirmed[i].entity
        BY <1>3, <1>5, <3>1 DEF pick
      <4>2. PICK k \in 1 .. checked : confirmed[k] = c
        BY <1>3
      <4>3. k \in 1 .. i - 1
        BY <1>2
      <4>. QED BY <3>1, <4>1, <4>2, <4>3 DEF Settled
    <3>2. CASE j # i
      <4>1. j \in 1 .. checked
        BY <1>2, <3>2
      <4>. QED BY <1>3, <4>1
    <3>. QED BY <3>1, <3>2
  <2>4. PicksChecked'
    BY <1>1, <1>2, <2>1, <2>2, <2>3 DEF PicksChecked, Settled, Reading
  <2>5. RequestTypes'
    BY <1>1, <2>1 DEF RequestInv, RequestTypes
  <2>. QED BY <1>1, <2>4, <2>5 DEF RequestInv, ViewsSound, TypesRead, LookupsSearched, Reading
<1>. QED BY <1>4, <1>5

LEMMA AskedAre ==
  ASSUME NEW t, NEW ls, NEW n
  PROVE  n \in names_by_type(t, ls) <=> AskedFor(question, ls, t, n)
BY DEF names_by_type, AskedFor

LEMMA ExtractKeeps ==
  ASSUME RequestInv, _extract_entities
  PROVE  RequestInv'
<1>1. PICK x \in Extractions : /\ extracted' = LookupsOf(x) /\ lookups' = LookupsOf(x)
                               /\ unread' = queried(LookupsOf(x))
  BY DEF _extract_entities
<1>2. /\ stage = "confirmed" /\ stage' = "exact" /\ checked = Len(confirmed)
      /\ UNCHANGED <<db, ever, always, question, confirmed, checked, valid, found, unsearched,
                     candidates, outcome>>
  BY DEF _extract_entities, world, tables, asked, picks
<1>3. RequestTypes'
  <2>1. LookupsOf(x) \in Seq(Lookups)
    BY LookupsAre
  <2>. QED BY <1>1, <1>2, <2>1 DEF RequestInv, RequestTypes, Reading
<1>4. TypesRead'
  <2>1. \A t \in Types \ unread' : \A n : ~AskedFor(question, extracted', t, n)
    <3>. SUFFICES ASSUME NEW t \in Types, t \notin unread', NEW n
                  PROVE  ~AskedFor(question, extracted', t, n)
      OBVIOUS
    <3>1. names_by_type(t, LookupsOf(x)) = {}
      BY <1>1 DEF queried
    <3>2. n \notin names_by_type(t, LookupsOf(x))
      BY <3>1
    <3>. QED BY <1>1, <3>2, AskedAre
  <2>. QED BY <1>2, <2>1 DEF RequestInv, TypesRead, Reading
<1>5. PicksChecked'
  BY <1>2 DEF RequestInv, PicksChecked, Settled
<1>6. ViewsSound' /\ LookupsSearched'
  BY <1>1, <1>2 DEF RequestInv, ViewsSound, LookupsSearched
<1>. QED BY <1>3, <1>4, <1>5, <1>6 DEF RequestInv

LEMMA FindKeeps ==
  ASSUME RequestInv, NEW t \in Types, _find_entities_by_names(t)
  PROVE  RequestInv'
<1>. DEFINE new == {e \in db : TypeOf[e] = t /\ NameOf[e] \in names_by_type(t, lookups)}
<1>1. /\ stage = "exact" /\ t \in unread /\ unread' = unread \ {t}
      /\ found' = [found EXCEPT ![t] = new]
      /\ UNCHANGED <<db, ever, always, question, confirmed, checked, valid, stage, extracted,
                     lookups, unsearched, candidates, outcome>>
  BY DEF _find_entities_by_names, world, tables, asked, picks
<1>2. /\ db \in SUBSET Entities /\ found \in [Types -> SUBSET Entities]
      /\ always \subseteq db /\ db \subseteq ever /\ lookups = extracted
  BY <1>1 DEF RequestInv, RequestTypes, ViewsSound, LookupsSearched
<1>3. new \subseteq db
  OBVIOUS
<1>4. \A e \in new : TypeOf[e] = t
  OBVIOUS
<1>5. \A e \in db : TypeOf[e] = t /\ AskedFor(question, extracted, t, NameOf[e]) => e \in new
  BY <1>2, AskedAre
<1>. HIDE DEF new
<1>6. /\ found' \in [Types -> SUBSET Entities] /\ found'[t] = new
      /\ \A u \in Types \ {t} : found'[u] = found[u]
  BY <1>1, <1>2, <1>3
<1>7. RequestTypes'
  BY <1>1, <1>6 DEF RequestInv, RequestTypes
<1>8. TypesRead'
  <2>1. \A u \in Types : \A e \in found'[u] : e \in ever /\ TypeOf[e] = u
    BY <1>1, <1>2, <1>3, <1>4, <1>6 DEF RequestInv, TypesRead
  <2>2. \A u \in Types \ unread' : \A e \in always :
          TypeOf[e] = u /\ AskedFor(question, extracted, u, NameOf[e]) => e \in found'[u]
    BY <1>1, <1>2, <1>5, <1>6 DEF RequestInv, TypesRead, Reading
  <2>. QED BY <1>1, <2>1, <2>2 DEF TypesRead
<1>9. PicksChecked'
  BY <1>1 DEF RequestInv, PicksChecked, Settled
<1>. QED BY <1>1, <1>7, <1>8, <1>9 DEF RequestInv, ViewsSound, LookupsSearched

LEMMA MissingAre ==
  ASSUME NEW ls
  PROVE  missing_indices(ls) = {i \in DOMAIN ls : Absent(found, ls[i])}
BY DEF missing_indices, exact_results, Absent

LEMMA FilterKeeps ==
  ASSUME RequestInv, FilterLookups
  PROVE  RequestInv'
<1>1. /\ stage = "exact" /\ stage' = "similar" /\ unread = {} /\ unread' = {}
      /\ lookups' = filtered_lookups(lookups)
      /\ unsearched' = missing_indices(filtered_lookups(lookups))
      /\ UNCHANGED <<db, ever, always, question, confirmed, checked, valid, extracted, found,
                     candidates, outcome>>
  BY DEF FilterLookups, world, tables, asked, picks
<1>2. lookups = extracted /\ extracted \in Seq(Lookups)
  BY <1>1 DEF RequestInv, RequestTypes, LookupsSearched
<1>3. lookups' = Kept(question, found, extracted)
  BY <1>1, <1>2, FilteredAre
<1>4. lookups' \in Seq(Lookups)
  BY <1>2, <1>3, KeptLists
<1>5. \A i \in DOMAIN lookups' : Absent(found, lookups'[i]) => i \in unsearched'
  BY <1>1, MissingAre
<1>6. RequestTypes'
  BY <1>1, <1>4 DEF RequestInv, RequestTypes, Reading
<1>7. LookupsSearched'
  BY <1>1, <1>3, <1>5 DEF LookupsSearched
<1>8. PicksChecked'
  BY <1>1 DEF RequestInv, PicksChecked, Settled, Reading
<1>9. TypesRead'
  BY <1>1 DEF RequestInv, TypesRead, Reading
<1>. QED BY <1>1, <1>6, <1>7, <1>8, <1>9 DEF RequestInv, ViewsSound

LEMMA SimilarKeeps ==
  ASSUME RequestInv, NEW i \in 1 .. MaxLookups, _find_similar_entities(i)
  PROVE  RequestInv'
<1>. DEFINE l == lookups[i]
            alike == similar_rows(l)
<1>1. /\ stage = "similar" /\ unsearched' = unsearched \ {i}
      /\ UNCHANGED <<db, ever, always, question, confirmed, checked, valid, stage, extracted,
                     lookups, unread, found, outcome>>
  BY DEF _find_similar_entities, world, tables, asked, picks
<1>2. PICK rows \in SUBSET alike :
        /\ Cardinality(rows) = Min({CandidateLimit, Cardinality(alike)})
        /\ candidates' = [candidates EXCEPT ![i] = rows]
  BY DEF _find_similar_entities
<1>3. /\ db \in SUBSET Entities /\ DOMAIN candidates = 1 .. MaxLookups
      /\ always \subseteq db /\ db \subseteq ever
  BY <1>1 DEF RequestInv, RequestTypes, ViewsSound
<1>4. alike \in SUBSET db
  BY DEF similar_rows
<1>5. rows = {} => alike = {}
  <2>. SUFFICES ASSUME rows = {} PROVE alike = {}
    OBVIOUS
  <2>1. IsFiniteSet(alike)
    BY <1>3, <1>4, ResolveAssumption, FS_Subset
  <2>. HIDE DEF alike
  <2>2. Cardinality(alike) \in Nat /\ CandidateLimit \in Nat /\ CandidateLimit >= 1
    BY <2>1, FS_CardinalityType, ResolveAssumption
  <2>3. Min({CandidateLimit, Cardinality(alike)}) = 0
    BY <1>2, FS_EmptySet
  <2>4. \E m \in {CandidateLimit, Cardinality(alike)} : \A y \in {CandidateLimit, Cardinality(alike)} : m <= y
    BY <2>2
  <2>5. Min({CandidateLimit, Cardinality(alike)}) \in {CandidateLimit, Cardinality(alike)}
    BY <2>4 DEF Min
  <2>6. Cardinality(alike) = 0
    BY <2>2, <2>3, <2>5
  <2>. QED BY <2>1, <2>6, FS_EmptySet
<1>6. alike = {} => \A e \in always : TypeOf[e] = l.type => <<e, l.name>> \notin Alike
  BY <1>3 DEF similar_rows
<1>7. /\ DOMAIN candidates' = 1 .. MaxLookups /\ candidates'[i] = rows
      /\ \A k \in 1 .. MaxLookups : k # i => candidates'[k] = candidates[k]
  BY <1>2, <1>3
<1>8. RequestTypes'
  BY <1>1, <1>7 DEF RequestInv, RequestTypes
<1>. HIDE DEF alike
<1>9. rows \subseteq ever
  BY <1>2, <1>3, <1>4
<1>10. LookupsSearched'
  <2>1. \A k \in DOMAIN candidates : k # i => candidates'[k] = candidates[k]
    BY <1>3, <1>7
  <2>3. \A k \in DOMAIN lookups \ unsearched' :
          Absent(found, lookups[k]) =>
            /\ k \in DOMAIN candidates' /\ candidates'[k] \subseteq ever
            /\ candidates'[k] = {} =>
                 \A e \in always : TypeOf[e] = lookups[k].type => <<e, lookups[k].name>> \notin Alike
    <3>. SUFFICES ASSUME NEW k \in DOMAIN lookups, k \notin unsearched', Absent(found, lookups[k])
                  PROVE  /\ k \in DOMAIN candidates' /\ candidates'[k] \subseteq ever
                         /\ candidates'[k] = {} =>
                              \A e \in always : TypeOf[e] = lookups[k].type => <<e, lookups[k].name>> \notin Alike
      OBVIOUS
    <3>1. CASE k = i
      BY <1>3, <1>5, <1>6, <1>7, <1>9, <3>1
    <3>2. CASE k # i
      BY <1>1, <1>3, <1>7, <2>1, <3>2 DEF RequestInv, LookupsSearched
    <3>. QED BY <3>1, <3>2
  <2>. QED BY <1>1, <2>3 DEF RequestInv, LookupsSearched
<1>11. PicksChecked'
  BY <1>1 DEF RequestInv, PicksChecked, Settled
<1>12. TypesRead'
  BY <1>1 DEF RequestInv, TypesRead
<1>. QED BY <1>1, <1>8, <1>10, <1>11, <1>12 DEF RequestInv, ViewsSound

-----------------------------------------------------------------------------
(***************************************************************************)
(* The judgement.                                                          *)
(***************************************************************************)
PickedIn(chosen, e, l) == [entity |-> e, forName |-> l.name] \in Range(chosen)

Within(q, l, es) ==
  /\ Occurs(q, l.name) # {}
  /\ \A s \in Occurs(q, l.name) :
       \E e \in es : TypeOf[e] = l.type /\ \E c \in q.spans[NameOf[e]] : Inside(s, c)

\* One of the entities answers the name, or they hide it.
Answered(q, chosen, l, es) ==
  \/ \E e \in es : TypeOf[e] = l.type /\ (NameOf[e] = l.name \/ PickedIn(chosen, e, l))
  \/ Within(q, l, es)

Hidden(o, q, chosen, ls) ==
  o.kind = "resolved" => \A l \in Range(ls) : Answered(q, chosen, l, Range(o.entities))

FirstOpen(o, q, chosen, ls, there, seen) ==
  o.kind \in {"ambiguous", "not_found"} =>
    /\ \A e \in there : TypeOf[e] = o.lookup.type => NameOf[e] # o.lookup.name
    /\ o.kind = "not_found" =>
         \A e \in there : TypeOf[e] = o.lookup.type => <<e, o.lookup.name>> \notin Alike
    /\ \E k \in DOMAIN ls : ls[k] = o.lookup /\ \A b \in 1 .. k - 1 : Answered(q, chosen, ls[b], seen)

LEMMA HiddenIs ==
  /\ NothingHidden <=> Hidden(outcome, question, confirmed, extracted)
  /\ NothingHidden' <=> Hidden(outcome', question', confirmed', extracted')
<1>1. NothingHidden <=> Hidden(outcome, question, confirmed, extracted)
  BY DEF NothingHidden, Hidden, Answered, Within, PickedIn, Picked, OnlyWithin, OccurrencesOf, Occurs
<1>2. NothingHidden' <=> Hidden(outcome', question', confirmed', extracted')
  BY DEF NothingHidden, Hidden, Answered, Within, PickedIn, Picked, OnlyWithin, OccurrencesOf, Occurs
<1>. QED BY <1>1, <1>2

LEMMA FirstOpenIs ==
  /\ FirstOpenNameAsked <=> FirstOpen(outcome, question, confirmed, extracted, always, ever)
  /\ FirstOpenNameAsked' <=> FirstOpen(outcome', question', confirmed', extracted', always', ever')
<1>1. FirstOpenNameAsked <=> FirstOpen(outcome, question, confirmed, extracted, always, ever)
  <2>1. \A l : (\/ \E e \in ever : TypeOf[e] = l.type /\ (NameOf[e] = l.name \/ Picked(e, l))
                \/ OnlyWithin(l, ever))
               <=> Answered(question, confirmed, l, ever)
    BY DEF Answered, Within, PickedIn, Picked, OnlyWithin, OccurrencesOf, Occurs
  <2>. QED BY <2>1 DEF FirstOpenNameAsked, FirstOpen
<1>2. FirstOpenNameAsked' <=> FirstOpen(outcome', question', confirmed', extracted', always', ever')
  <2>1. \A l : (\/ \E e \in ever' : TypeOf[e] = l.type /\ (NameOf[e] = l.name \/ Picked(e, l)')
                \/ OnlyWithin(l, ever)')
               <=> Answered(question', confirmed', l, ever')
    BY DEF Answered, Within, PickedIn, Picked, OnlyWithin, OccurrencesOf, Occurs
  <2>. QED BY <2>1 DEF FirstOpenNameAsked, FirstOpen
<1>. QED BY <1>1, <1>2

\* A larger set answers more.
LEMMA AnsweredMore ==
  ASSUME NEW q, NEW chosen, NEW l, NEW es, NEW fs, es \subseteq fs, Answered(q, chosen, l, es)
  PROVE  Answered(q, chosen, l, fs)
BY DEF Answered, Within

\* What an accepted pick answers.
LEMMA CoveredAnswered ==
  ASSUME RequestInv, stage = "similar", NEW l, _confirmed_entity_covers_lookup(l)
  PROVE  \E c \in Range(valid) : /\ c.entity \in ever /\ TypeOf[c.entity] = l.type
                                 /\ PickedIn(confirmed, c.entity, l)
<1>1. PICK c \in Range(valid) : c.forName = l.name /\ TypeOf[c.entity] = l.type
  BY DEF _confirmed_entity_covers_lookup
<1>2. c.entity \in ever /\ \E j \in 1 .. checked : confirmed[j] = c
  BY DEF RequestInv, PicksChecked
<1>3. /\ confirmed \in Seq(Chosen) /\ valid \in Seq(Chosen)
      /\ checked \in 0 .. Len(confirmed)
  BY DEF RequestInv, RequestTypes, PicksChecked
<1>4. c \in Range(confirmed)
  <2>1. PICK j \in 1 .. checked : confirmed[j] = c
    BY <1>2
  <2>2. j \in DOMAIN confirmed
    BY <1>3
  <2>. QED BY <2>1, <2>2 DEF Range
<1>5. c \in Chosen
  BY <1>3 DEF Range
<1>6. c = [entity |-> c.entity, forName |-> l.name]
  BY <1>1, <1>5 DEF Chosen
<1>. QED BY <1>1, <1>2, <1>4, <1>6 DEF PickedIn

LEMMA UnresolvedAre ==
  ASSUME NEW i
  PROVE  i \in unresolved <=> /\ i \in DOMAIN lookups /\ Absent(found, lookups[i])
                              /\ ~ _confirmed_entity_covers_lookup(lookups[i])
BY MissingAre DEF unresolved

\* A name of the model before an open one, or any if none is open, is answered
\* by what was found, by the picks or by the literals.
LEMMA NameAnswered ==
  ASSUME RequestInv, stage = "similar", NEW es,
         \A i \in DOMAIN lookups : Absent(found, lookups[i]) =>
           \A c \in Range(valid) : c.entity \in es,
         \A m \in Range(SelectedIn(question, found)) : m.entity \in es,
         NEW b \in DOMAIN extracted,
         NEW open,
         \A j \in DOMAIN lookups : j < open => j \notin unresolved,
         \A j \in DOMAIN lookups : j < open /\ ~Absent(found, lookups[j]) =>
           \E e \in es : TypeOf[e] = lookups[j].type /\ NameOf[e] = lookups[j].name,
         \/ Contained(question, found, extracted[b])
         \/ \E j \in DOMAIN lookups : j < open /\ lookups[j] = extracted[b]
  PROVE  Answered(question, confirmed, extracted[b], es)
<1>. DEFINE l == extracted[b]
<1>1. CASE Contained(question, found, l)
  <2>1. question \in Questions /\ found \in [Types -> SUBSET Entities]
    BY DEF RequestInv, RequestTypes
  <2>2. Occurs(question, l.name) # {}
    BY <1>1 DEF Contained
  <2>3. ASSUME NEW s \in Occurs(question, l.name)
        PROVE  \E e \in es : /\ TypeOf[e] = l.type
                             /\ \E c \in question.spans[NameOf[e]] : Inside(s, c)
    <3>1. PICK m \in Range(SelectedIn(question, found)) :
            /\ TypeOf[m.entity] = l.type /\ m.span \in question.spans[NameOf[m.entity]]
            /\ Inside(s, m.span)
      BY <1>1, <2>1, ContainedWithin
    <3>. QED BY <3>1
  <2>. QED BY <2>2, <2>3 DEF Answered, Within
<1>2. CASE \E j \in DOMAIN lookups : j < open /\ lookups[j] = l
  <2>1. PICK j \in DOMAIN lookups : j < open /\ lookups[j] = l
    BY <1>2
  <2>2. CASE ~Absent(found, l)
    BY <2>1, <2>2 DEF Answered
  <2>3. CASE Absent(found, l)
    <3>1. _confirmed_entity_covers_lookup(l)
      BY <2>1, <2>3, UnresolvedAre
    <3>. QED BY <2>1, <2>3, <3>1, CoveredAnswered DEF Answered
  <2>. QED BY <2>2, <2>3
<1>. QED BY <1>1, <1>2

\* The places of the lookups among the names of the model.
LEMMA LookupPlaces ==
  ASSUME RequestInv, stage = "similar"
  PROVE  \E at : KeptAt(at, lookups, question, found, extracted)
<1>1. lookups = Kept(question, found, extracted) /\ extracted \in Seq(Lookups)
  BY DEF RequestInv, RequestTypes, LookupsSearched
<1>. QED BY <1>1, KeptLists

LEMMA FoundEver ==
  ASSUME RequestInv, stage # "idle"
  PROVE  /\ UNION {found[t] : t \in Types} \subseteq ever
         /\ \A m \in Range(SelectedIn(question, found)) : m.entity \in ever /\ m.entity \in Entities
<1>1. question \in Questions /\ found \in [Types -> SUBSET Entities]
  BY DEF RequestInv, RequestTypes
<1>2. UNION {found[t] : t \in Types} \subseteq ever
  BY DEF RequestInv, TypesRead
<1>3. ASSUME NEW m \in Range(SelectedIn(question, found))
      PROVE  m.entity \in ever /\ m.entity \in Entities
  <2>. DEFINE M == Matches(question, found)
              z == SelectedIn(question, found)
  <2>1. z \in Seq(M)
    BY <1>1, SelectedMatch
  <2>2. m \in Range(z)
    OBVIOUS
  <2>. HIDE DEF M, z
  <2>3. m \in M
    BY <2>1, <2>2 DEF Range
  <2>4. m.entity \in UNION {found[t] : t \in Types}
    BY <2>3 DEF M, Matches
  <2>. QED BY <1>1, <1>2, <2>4
<1>. QED BY <1>2, <1>3

LEMMA RefusesRightly ==
  ASSUME RequestInv, stage = "similar", unsearched = {}, refuse,
         UNCHANGED <<world, asked, picks, extracted, lookups, found, candidates>>
  PROVE  /\ outcome'.lookup \in Lookups
         /\ NothingStale' /\ PicksKept' /\ NothingHidden' /\ FirstOpenNameAsked' /\ FreshAnswerSettles'
<1>. DEFINE i == Min(unresolved)
            l == lookups[i]
<1>1. /\ unresolved # {}
      /\ outcome' = [NoOutcome EXCEPT !.kind = IF candidates[i] # {} THEN "ambiguous" ELSE "not_found",
                                      !.lookup = l, !.candidates = candidates[i]]
  BY DEF refuse, Finish
<1>2. /\ outcome'.kind = (IF candidates[i] # {} THEN "ambiguous" ELSE "not_found")
      /\ outcome'.lookup = l /\ outcome'.candidates = candidates[i] /\ outcome'.entities = <<>>
  BY <1>1 DEF NoOutcome
<1>3. /\ lookups \in Seq(Lookups) /\ extracted \in Seq(Lookups) /\ confirmed \in Seq(Chosen)
      /\ valid \in Seq(Chosen) /\ checked = Len(confirmed)
      /\ question \in Questions /\ found \in [Types -> SUBSET Entities] /\ unread = {}
      /\ always \subseteq ever
  BY DEF RequestInv, RequestTypes, PicksChecked, LookupsSearched, ViewsSound, Reading
<1>4. DOMAIN lookups = 1 .. Len(lookups) /\ Len(lookups) \in Nat
  BY <1>3
<1>5. unresolved \in SUBSET DOMAIN lookups
  BY UnresolvedAre
<1>6. i \in unresolved /\ \A j \in unresolved : i <= j
  <2>1. unresolved \in SUBSET Nat
    BY <1>4, <1>5
  <2>2. \E x \in unresolved : \A y \in unresolved : x <= y
    BY <1>1, <2>1, LeastNatural
  <2>. QED BY <2>2 DEF Min
<1>. HIDE DEF i
<1>7. /\ i \in DOMAIN lookups /\ i \in Nat /\ l \in Lookups
      /\ Absent(found, l) /\ ~_confirmed_entity_covers_lookup(l)
  BY <1>3, <1>4, <1>6, UnresolvedAre
<1>8. /\ candidates[i] \subseteq ever
      /\ candidates[i] = {} => \A e \in always : TypeOf[e] = l.type => <<e, l.name>> \notin Alike
  BY <1>7 DEF RequestInv, LookupsSearched
<1>9. PICK at : KeptAt(at, lookups, question, found, extracted)
  BY LookupPlaces
<1>. HIDE DEF l
<1>10. at[i] \in DOMAIN extracted /\ extracted[at[i]] = l
  BY <1>4, <1>7, <1>9 DEF KeptAt, Places, l
<1>11. \A e \in always : TypeOf[e] = l.type => NameOf[e] # l.name
  <2>. SUFFICES ASSUME NEW e \in always, TypeOf[e] = l.type, NameOf[e] = l.name PROVE FALSE
    OBVIOUS
  <2>1. l \in Range(extracted) /\ l.type \in Types
    BY <1>7, <1>10 DEF Range, Lookups
  <2>2. AskedFor(question, extracted, l.type, NameOf[e])
    BY <2>1 DEF AskedFor
  <2>3. e \in found[l.type]
    BY <1>3, <2>1, <2>2 DEF RequestInv, TypesRead, Reading
  <2>. QED BY <1>7, <2>3 DEF Absent
<1>12. ASSUME NEW b \in 1 .. at[i] - 1
       PROVE  Answered(question, confirmed, extracted[b], ever)
  <2>1. DOMAIN extracted = 1 .. Len(extracted) /\ Len(extracted) \in Nat
    BY <1>3
  <2>2. b \in DOMAIN extracted
    BY <1>10, <2>1
  <2>3. \A c \in Range(valid) : c.entity \in ever
    BY DEF RequestInv, PicksChecked
  <2>4. \A m \in Range(SelectedIn(question, found)) : m.entity \in ever
    BY FoundEver
  <2>5. \A j \in DOMAIN lookups : j < i => j \notin unresolved
    BY <1>4, <1>6, <1>7
  <2>6. ASSUME NEW j \in DOMAIN lookups, ~Absent(found, lookups[j])
        PROVE  \E e \in ever : TypeOf[e] = lookups[j].type /\ NameOf[e] = lookups[j].name
    <3>1. lookups[j] \in Lookups
      BY <1>3
    <3>2. lookups[j].type \in Types
      BY <3>1 DEF Lookups
    <3>. QED BY <2>6, <3>2 DEF Absent, RequestInv, TypesRead
  <2>7. \/ Contained(question, found, extracted[b])
        \/ \E j \in DOMAIN lookups : j < i /\ lookups[j] = extracted[b]
    <3>. SUFFICES ASSUME ~Contained(question, found, extracted[b])
                  PROVE  \E j \in DOMAIN lookups : j < i /\ lookups[j] = extracted[b]
      OBVIOUS
    <3>. DEFINE P == {k \in DOMAIN extracted : ~Contained(question, found, extracted[k])}
    <3>1. b \in P
      BY <2>2
    <3>2. at[i] \in Nat /\ b \in Nat /\ b < at[i]
      BY <1>10, <2>1
    <3>. HIDE DEF P
    <3>3. /\ \E k \in 1 .. Len(lookups) : at[k] = b
          /\ \A k, m \in 1 .. Len(lookups) : k < m => at[k] < at[m]
      BY <1>9, <3>1 DEF KeptAt, Places, P
    <3>4. PICK j \in 1 .. Len(lookups) : at[j] = b
      BY <3>3
    <3>5. ~(i < j) /\ i # j
      BY <1>4, <1>7, <3>2, <3>3, <3>4
    <3>6. j < i
      BY <1>4, <1>7, <3>5
    <3>. QED BY <1>4, <1>9, <3>4, <3>6 DEF KeptAt
  <2>. QED BY <2>2, <2>3, <2>4, <2>5, <2>6, <2>7, NameAnswered
<1>13. FirstOpen(outcome', question, confirmed, extracted, always, ever)
  BY <1>2, <1>8, <1>10, <1>11, <1>12 DEF FirstOpen
<1>14. FirstOpenNameAsked'
  BY <1>13, FirstOpenIs DEF world, asked
<1>15. FreshAnswerSettles'
  <2>. SUFFICES ASSUME NEW k \in DOMAIN confirmed, confirmed[k].forName = l.name,
                       TypeOf[confirmed[k].entity] = l.type, confirmed[k].entity \in always
                PROVE  \E j \in 1 .. k - 1 : confirmed[j].entity = confirmed[k].entity
    BY <1>2 DEF FreshAnswerSettles, AnswersTo, world, asked
  <2>1. k \in 1 .. checked
    BY <1>3
  <2>2. Settled(k)
    BY <2>1 DEF RequestInv, PicksChecked
  <2>3. confirmed[k] \notin Range(valid)
    BY <1>7 DEF _confirmed_entity_covers_lookup
  <2>. QED BY <2>2, <2>3 DEF Settled
<1>16. NothingStale'
  BY <1>2, <1>8, EmptyRange DEF NothingStale, world
<1>17. PicksKept' /\ NothingHidden'
  BY <1>2 DEF PicksKept, NothingHidden
<1>. QED BY <1>2, <1>7, <1>14, <1>15, <1>16, <1>17

LEMMA EntitiesRange ==
  ASSUME NEW chosen \in Seq(Chosen)
  PROVE  /\ EntitiesOf(chosen) \in Seq(Entities)
         /\ Range(EntitiesOf(chosen)) = {c.entity : c \in Range(chosen)}
<1>1. /\ DOMAIN chosen = 1 .. Len(chosen) /\ Len(chosen) \in Nat
      /\ \A i \in DOMAIN chosen : chosen[i] \in Chosen
  OBVIOUS
<1>2. \A i \in DOMAIN chosen : chosen[i].entity \in Entities
  BY <1>1 DEF Chosen
<1>. DEFINE es == EntitiesOf(chosen)
<1>3. es = [i \in DOMAIN chosen |-> chosen[i].entity]
  BY DEF EntitiesOf
<1>. HIDE DEF es
<1>4. es \in [1 .. Len(chosen) -> Entities]
  BY <1>1, <1>2, <1>3
<1>5. Range(es) = {c.entity : c \in Range(chosen)}
  BY <1>3 DEF Range
<1>. QED BY <1>1, <1>4, <1>5 DEF es

\* What a request that is resolved returns.
Returned(exact) ==
  LET results == Pick(exact, DOMAIN exact)
      literal == [k \in DOMAIN selected_literals |-> selected_literals[k].entity]
      discovered == _append_unique(_append_unique(<<>>, results), literal)
  IN  _append_unique(EntitiesOf(valid), _sort_entities_by_question(discovered))

LEMMA ReturnedAre ==
  ASSUME RequestInv, stage = "similar",
         NEW D \in SUBSET DOMAIN lookups, NEW exact \in [D -> Entities]
  PROVE  Range(Returned(exact)) =
           {c.entity : c \in Range(valid)} \cup {exact[i] : i \in D}
             \cup {m.entity : m \in Range(SelectedIn(question, found))}
<1>. DEFINE results == Pick(exact, DOMAIN exact)
            z == SelectedIn(question, found)
            literal == [k \in DOMAIN z |-> z[k].entity]
            once == _append_unique(<<>>, results)
            discovered == _append_unique(once, literal)
            sorted == _sort_entities_by_question(discovered)
<1>1. /\ lookups \in Seq(Lookups) /\ valid \in Seq(Chosen)
      /\ question \in Questions /\ found \in [Types -> SUBSET Entities]
  BY DEF RequestInv, RequestTypes
<1>2. results \in Seq(Entities) /\ Range(results) = {exact[i] : i \in D}
  <2>1. D \in SUBSET Nat /\ IsFiniteSet(D)
    BY <1>1, SomePositions
  <2>2. DOMAIN exact = D /\ \A i \in D : exact[i] \in Entities
    OBVIOUS
  <2>. QED BY <2>1, <2>2, PickRange
<1>3. literal \in Seq(Entities) /\ Range(literal) = {m.entity : m \in Range(z)}
  <2>1. z \in Seq(Matches(question, found))
    BY <1>1, SelectedMatch
  <2>2. \A m \in Range(z) : m.entity \in Entities
    BY FoundEver
  <2>. HIDE DEF z
  <2>3. DOMAIN z = 1 .. Len(z) /\ Len(z) \in Nat
    BY <2>1
  <2>4. \A k \in DOMAIN z : z[k].entity \in Entities
    BY <2>2 DEF Range
  <2>5. literal \in [1 .. Len(z) -> Entities]
    BY <2>3, <2>4
  <2>6. Range(literal) = {m.entity : m \in Range(z)}
    BY DEF Range
  <2>. QED BY <2>3, <2>5, <2>6
<1>. HIDE DEF results, literal
<1>4. once \in Seq(Entities) /\ Range(once) = Range(results)
  <2>1. <<>> \in Seq(Entities)
    OBVIOUS
  <2>2. once \in Seq(Entities) /\ Range(once) = Range(<<>>) \cup Range(results)
    BY <1>2, <2>1, AppendUnique, ZenonT(30)
  <2>. HIDE DEF once
  <2>. QED BY <2>2, EmptyRange
<1>. HIDE DEF once
<1>5. discovered \in Seq(Entities) /\ Range(discovered) = Range(results) \cup Range(literal)
  BY <1>3, <1>4, AppendUnique
<1>. HIDE DEF discovered
<1>6. sorted \in Seq(Entities) /\ Range(sorted) = Range(results) \cup Range(literal)
  BY <1>1, <1>5, SortKeeps
<1>. HIDE DEF sorted
<1>7. /\ EntitiesOf(valid) \in Seq(Entities)
      /\ Range(EntitiesOf(valid)) = {c.entity : c \in Range(valid)}
  BY <1>1, EntitiesRange
<1>8. Range(_append_unique(EntitiesOf(valid), sorted)) = Range(EntitiesOf(valid)) \cup Range(sorted)
  BY <1>6, <1>7, AppendUnique
<1>9. Returned(exact) = _append_unique(EntitiesOf(valid), sorted)
  BY SelectedAre DEF Returned, sorted, discovered, once, literal, results
<1>. QED BY <1>2, <1>3, <1>6, <1>7, <1>8, <1>9

LEMMA ResolvesRightly ==
  ASSUME RequestInv, stage = "similar", resolve,
         UNCHANGED <<world, asked, picks, extracted, lookups, found, candidates>>
  PROVE  /\ outcome'.kind = "resolved"
         /\ NothingStale' /\ PicksKept' /\ NothingHidden' /\ FirstOpenNameAsked' /\ FreshAnswerSettles'
<1>. DEFINE D == DOMAIN lookups \ missing_indices(lookups)
            es == Range(outcome'.entities)
<1>1. unresolved = {}
  BY DEF resolve
<1>2. PICK exact \in [D -> Entities] :
        /\ \A i \in D : exact[i] \in exact_results(lookups[i])
        /\ outcome' = [NoOutcome EXCEPT !.kind = "resolved", !.entities = Returned(exact)]
  BY DEF resolve, Finish, Returned
<1>3. /\ outcome'.kind = "resolved" /\ outcome'.entities = Returned(exact)
      /\ outcome'.candidates = {}
  BY <1>2 DEF NoOutcome
<1>4. D \in SUBSET DOMAIN lookups
  OBVIOUS
<1>5. \A i \in DOMAIN lookups : i \in D <=> ~Absent(found, lookups[i])
  BY MissingAre
<1>. HIDE DEF D
<1>6. es = {c.entity : c \in Range(valid)} \cup {exact[i] : i \in D}
             \cup {m.entity : m \in Range(SelectedIn(question, found))}
  BY <1>3, <1>4, ReturnedAre
<1>. HIDE DEF es
<1>7. /\ lookups \in Seq(Lookups) /\ extracted \in Seq(Lookups) /\ confirmed \in Seq(Chosen)
      /\ checked = Len(confirmed) /\ found \in [Types -> SUBSET Entities]
  BY DEF RequestInv, RequestTypes, PicksChecked, Reading
<1>8. \A i \in D : /\ exact[i] \in found[lookups[i].type] /\ NameOf[exact[i]] = lookups[i].name
                   /\ lookups[i].type \in Types
  <2>1. \A i \in D : lookups[i] \in Lookups
    BY <1>4, <1>7
  <2>. QED BY <1>2, <2>1 DEF exact_results, Lookups
<1>9. NothingStale'
  <2>1. \A c \in Range(valid) : c.entity \in ever
    BY DEF RequestInv, PicksChecked
  <2>2. \A i \in D : exact[i] \in ever
    BY <1>8 DEF RequestInv, TypesRead
  <2>3. \A m \in Range(SelectedIn(question, found)) : m.entity \in ever
    BY FoundEver
  <2>4. es \subseteq ever
    BY <1>6, <2>1, <2>2, <2>3
  <2>. QED BY <1>3, <2>4 DEF NothingStale, es, world
<1>10. PicksKept'
  <2>1. \A i \in DOMAIN confirmed : confirmed[i].entity \in always => confirmed[i].entity \in es
    <3>. SUFFICES ASSUME NEW i \in DOMAIN confirmed, confirmed[i].entity \in always
                  PROVE  confirmed[i].entity \in es
      OBVIOUS
    <3>1. i \in 1 .. checked
      BY <1>7
    <3>2. Settled(i)
      BY <3>1 DEF RequestInv, PicksChecked
    <3>. QED BY <1>6, <3>2 DEF Settled
  <2>. QED BY <2>1 DEF PicksKept, es, world, asked
<1>11. ASSUME NEW b \in DOMAIN extracted
       PROVE  Answered(question, confirmed, extracted[b], es)
  <2>1. DOMAIN lookups = 1 .. Len(lookups) /\ Len(lookups) \in Nat
    BY <1>7
  <2>. DEFINE end == Len(lookups) + 1
  <2>2. \A j \in DOMAIN lookups : j < end
    BY <2>1
  <2>3. PICK at : KeptAt(at, lookups, question, found, extracted)
    BY LookupPlaces
  <2>4. \/ Contained(question, found, extracted[b])
        \/ \E j \in DOMAIN lookups : j < end /\ lookups[j] = extracted[b]
    BY <2>1, <2>2, <2>3 DEF KeptAt, Places
  <2>5. ASSUME NEW j \in DOMAIN lookups, ~Absent(found, lookups[j])
        PROVE  \E e \in es : TypeOf[e] = lookups[j].type /\ NameOf[e] = lookups[j].name
    <3>1. j \in D
      BY <1>5, <2>5
    <3>2. exact[j] \in es
      BY <1>6, <3>1
    <3>3. TypeOf[exact[j]] = lookups[j].type /\ NameOf[exact[j]] = lookups[j].name
      BY <1>8, <3>1 DEF RequestInv, TypesRead
    <3>. QED BY <3>2, <3>3
  <2>6. \A c \in Range(valid) : c.entity \in es
    BY <1>6
  <2>7. \A m \in Range(SelectedIn(question, found)) : m.entity \in es
    BY <1>6
  <2>8. \A j \in DOMAIN lookups : j < end => j \notin unresolved
    BY <1>1
  <2>. HIDE DEF end
  <2>. QED BY <2>4, <2>5, <2>6, <2>7, <2>8, NameAnswered
<1>12. Hidden(outcome', question, confirmed, extracted)
  BY <1>11 DEF Hidden, Range, es
<1>13. NothingHidden'
  BY <1>12, HiddenIs DEF asked
<1>14. FirstOpenNameAsked' /\ FreshAnswerSettles'
  BY <1>3 DEF FirstOpenNameAsked, FreshAnswerSettles
<1>. QED BY <1>3, <1>9, <1>10, <1>13, <1>14

JudgedRight == NothingStale /\ PicksKept /\ NothingHidden /\ FirstOpenNameAsked /\ FreshAnswerSettles

\* Without an answer there is nothing to say.
LEMMA NothingSaid ==
  ASSUME outcome'.kind \notin {"resolved", "ambiguous", "not_found"},
         outcome'.entities = <<>>, outcome'.candidates = {}
  PROVE  JudgedRight'
BY EmptyRange
  DEF JudgedRight, NothingStale, PicksKept, NothingHidden, FirstOpenNameAsked, FreshAnswerSettles

\* An answer stays right while the tables change.
LEMMA StaysRight ==
  ASSUME JudgedRight, UNCHANGED <<outcome, question, confirmed, extracted>>,
         ever \subseteq ever', always' \subseteq always
  PROVE  JudgedRight'
<1>1. NothingStale' /\ PicksKept'
  BY DEF JudgedRight, NothingStale, PicksKept
<1>2. NothingHidden'
  BY HiddenIs DEF JudgedRight
<1>3. FirstOpen(outcome, question, confirmed, extracted, always, ever)
  BY FirstOpenIs DEF JudgedRight
<1>4. FirstOpen(outcome, question, confirmed, extracted, always', ever')
  BY <1>3, AnsweredMore DEF FirstOpen
<1>5. FirstOpenNameAsked'
  BY <1>4, FirstOpenIs
<1>6. FreshAnswerSettles'
  BY DEF JudgedRight, FreshAnswerSettles, AnswersTo
<1>. QED BY <1>1, <1>2, <1>5, <1>6 DEF JudgedRight

LEMMA NoneSaid ==
  /\ NoOutcome.kind = "none" /\ NoOutcome.entities = <<>> /\ NoOutcome.candidates = {}
  /\ \A k : /\ [NoOutcome EXCEPT !.kind = k].kind = k
            /\ [NoOutcome EXCEPT !.kind = k].entities = <<>>
            /\ [NoOutcome EXCEPT !.kind = k].candidates = {}
BY DEF NoOutcome

LEMMA RightStarts == Init => JudgedRight
<1>. SUFFICES ASSUME Init PROVE JudgedRight
  OBVIOUS
<1>1. outcome = NoOutcome
  BY DEF Init
<1>. QED BY <1>1, NoneSaid, EmptyRange
  DEF JudgedRight, NothingStale, PicksKept, NothingHidden, FirstOpenNameAsked, FreshAnswerSettles

LEMMA JudgeKeeps ==
  ASSUME RequestInv, Judge
  PROVE  RequestInv' /\ JudgedRight'
<1>1. /\ stage = "similar" /\ unsearched = {} /\ (refuse \/ resolve)
      /\ UNCHANGED <<world, asked, picks, extracted, lookups, found, candidates>>
  BY DEF Judge
<1>2. stage' = "idle"
  BY <1>1 DEF refuse, resolve, Finish
<1>3. /\ lookups' \in Seq(Lookups) /\ confirmed' \in Seq(Chosen)
      /\ UNCHANGED <<question, valid, extracted, found, candidates>>
  BY <1>1 DEF RequestInv, RequestTypes, asked, picks
<1>4. CASE refuse
  <2>1. JudgedRight' /\ outcome'.lookup \in Lookups
    BY <1>1, <1>4, RefusesRightly DEF JudgedRight
  <2>. QED BY <1>1, <1>2, <1>3, <2>1, EndKeeps
<1>5. CASE resolve
  <2>1. JudgedRight' /\ outcome'.kind = "resolved"
    BY <1>1, <1>5, ResolvesRightly DEF JudgedRight
  <2>. QED BY <1>1, <1>2, <1>3, <2>1, EndKeeps
<1>. QED BY <1>1, <1>4, <1>5

LEMMA RequestSteps ==
  ASSUME RequestInv, JudgedRight, [Next]_vars
  PROVE  RequestInv' /\ JudgedRight'
<1>1. ASSUME NEW q \in Questions, handleSubmit(q) PROVE RequestInv' /\ JudgedRight'
  <2>1. Send(q, <<>>) /\ <<>> \in Seq(Chosen)
    BY <1>1 DEF handleSubmit
  <2>2. outcome' = NoOutcome
    BY <2>1 DEF Send
  <2>. QED BY <2>1, <2>2, SendKeeps, NothingSaid, NoneSaid
<1>2. ASSUME NEW e \in Entities, handleSelectCandidate(e) PROVE RequestInv' /\ JudgedRight'
  <2>. DEFINE c == [entity |-> e, forName |-> outcome.lookup.name]
  <2>1. Send(question, Append(confirmed, c)) /\ outcome.kind = "ambiguous"
    BY <1>2 DEF handleSelectCandidate
  <2>2. question \in Questions /\ confirmed \in Seq(Chosen) /\ outcome.lookup \in Lookups
    BY <2>1 DEF RequestInv, RequestTypes
  <2>3. c \in Chosen
    BY <2>2 DEF Lookups, Chosen
  <2>. HIDE DEF c
  <2>4. Append(confirmed, c) \in Seq(Chosen)
    BY <2>2, <2>3
  <2>5. outcome' = NoOutcome
    BY <2>1 DEF Send
  <2>. QED BY <2>1, <2>2, <2>4, <2>5, SendKeeps, NothingSaid, NoneSaid
<1>3. ASSUME handleCancelClarification PROVE RequestInv' /\ JudgedRight'
  <2>1. /\ stage' = "idle" /\ confirmed' = <<>> /\ outcome' = NoOutcome
        /\ UNCHANGED <<world, question, valid, extracted, lookups, found, candidates>>
    BY <1>3 DEF handleCancelClarification, picks
  <2>2. confirmed' \in Seq(Chosen) /\ lookups' \in Seq(Lookups)
    BY <2>1 DEF RequestInv, RequestTypes
  <2>. QED BY <2>1, <2>2, EndKeeps, NothingSaid, NoneSaid
<1>4. ASSUME TableChanges PROVE RequestInv' /\ JudgedRight'
  <2>1. /\ ever \subseteq ever' /\ always' \subseteq always
        /\ UNCHANGED <<outcome, question, confirmed, extracted>>
    BY <1>4 DEF TableChanges, request, asked
  <2>. QED BY <1>4, <2>1, TablesKeep, StaysRight
<1>5. ASSUME \/ check_confirmed \/ _extract_entities \/ FilterLookups
             \/ \E t \in Types : _find_entities_by_names(t)
             \/ \E i \in 1 .. MaxLookups : _find_similar_entities(i)
      PROVE  RequestInv' /\ JudgedRight'
  <2>1. stage # "idle" /\ UNCHANGED outcome
    BY <1>5 DEF check_confirmed, _extract_entities, FilterLookups, _find_entities_by_names,
         _find_similar_entities
  <2>2. outcome' = NoOutcome
    BY <2>1 DEF RequestInv, RequestTypes
  <2>3. JudgedRight'
    BY <2>2, NothingSaid, NoneSaid
  <2>. QED BY <1>5, <2>3, CheckKeeps, ExtractKeeps, FilterKeeps, FindKeeps, SimilarKeeps
<1>6. ASSUME EntityExtractionError \/ Fails PROVE RequestInv' /\ JudgedRight'
  <2>1. /\ stage' = "idle"
        /\ \E k \in {"not_understood", "failed"} : outcome' = [NoOutcome EXCEPT !.kind = k]
        /\ UNCHANGED <<world, confirmed, question, valid, extracted, lookups, found, candidates>>
    BY <1>6 DEF EntityExtractionError, Fails, Finish, asked, picks
  <2>2. confirmed' \in Seq(Chosen) /\ lookups' \in Seq(Lookups)
    BY <2>1 DEF RequestInv, RequestTypes
  <2>3. /\ outcome'.kind \in {"not_understood", "failed"}
        /\ outcome'.entities = <<>> /\ outcome'.candidates = {}
    BY <2>1, NoneSaid
  <2>. QED BY <2>1, <2>2, <2>3, EndKeeps, NothingSaid
<1>7. ASSUME UNCHANGED vars PROVE RequestInv' /\ JudgedRight'
  <2>1. UNCHANGED <<db, ever, always, question, confirmed, stage, checked, valid, extracted, lookups,
                    unread, found, unsearched, candidates, outcome>>
    BY <1>7 DEF vars, world, tables, request, asked, picks
  <2>2. RequestInv'
    BY <2>1 DEF RequestInv, RequestTypes, ViewsSound, PicksChecked, Settled, TypesRead, LookupsSearched
  <2>. QED BY <2>1, <2>2, StaysRight
<1>8. Judge => RequestInv' /\ JudgedRight'
  BY JudgeKeeps
<1>. QED BY <1>1, <1>2, <1>3, <1>4, <1>5, <1>6, <1>7, <1>8 DEF Next

\* Whatever the model extracts and however the tables change between two reads of
\* resolve_entity or between two rounds of the dialog: nothing returned or offered
\* was gone for the whole request, and a pick whose entity stayed is returned.
THEOREM PicksAreSound == Spec => []PicksSound
<1>1. JudgedRight => PicksSound
  BY DEF JudgedRight, PicksSound
<1>. QED BY <1>1, RequestStarts, RightStarts, RequestSteps, PTL DEF Spec

\* In every dialog each name of the question is settled on its own: none disappears
\* behind another one, the user is asked about the first open one and told that there
\* is no such entity only if there was none, and is not asked again after an answer
\* that was not the answer to another name.
THEOREM NamesAreSettled == Spec => []NamesSettled
<1>1. JudgedRight => NamesSettled
  BY DEF JudgedRight, NamesSettled
<1>. QED BY <1>1, RequestStarts, RightStarts, RequestSteps, PTL DEF Spec

-----------------------------------------------------------------------------
(***************************************************************************)
(* The loops of the answer's context, over the sections of a separate      *)
(* result.  A plan has at most two subqueries.                             *)
(***************************************************************************)
LEMMA SetInduction ==
  ASSUME NEW S \in SUBSET Nat, 0 \in S, \A n \in S : n + 1 \in S
  PROVE  \A n \in Nat : n \in S
<1>. SUFFICES ASSUME Nat \ S # {} PROVE FALSE
  OBVIOUS
<1>1. PICK x \in Nat \ S : \A y \in Nat \ S : x <= y
  BY LeastNatural
<1>2. x # 0 /\ x - 1 \in Nat
  BY <1>1
<1>3. x - 1 \in S
  BY <1>1, <1>2
<1>. QED BY <1>1, <1>2, <1>3

LEMMA LargestOf ==
  ASSUME NEW n \in Nat, NEW T \in SUBSET (0 .. n), T # {}
  PROVE  Max(T) \in T
<1>. DEFINE U == {u \in Nat : n - u \in T}
<1>1. U # {}
  <2>1. PICK t \in T : TRUE
    OBVIOUS
  <2>2. n - t \in Nat /\ n - (n - t) = t
    BY <2>1
  <2>. QED BY <2>1, <2>2
<1>2. PICK u \in U : \A v \in U : u <= v
  <2>1. U \in SUBSET Nat
    OBVIOUS
  <2>. HIDE DEF U
  <2>. QED BY <1>1, <2>1, LeastNatural
<1>3. ASSUME NEW y \in T PROVE n - u >= y
  <2>1. n - y \in U
    OBVIOUS
  <2>2. u <= n - y /\ u \in Nat
    BY <1>2, <2>1
  <2>. QED BY <2>2
<1>4. \E x \in T : \A y \in T : x >= y
  BY <1>2, <1>3
<1>. QED BY <1>4 DEF Max

\* Two sections, with rows that have a length.
TwoSections(sections) ==
  /\ Len(sections) = 2 /\ DOMAIN sections = 1 .. 2
  /\ \A s \in 1 .. 2 :
       /\ sections[s].rows \in Seq(Range(sections[s].rows))
       /\ \A row \in Range(sections[s].rows) : RowChars(row) \in Nat

LEMMA RowsOfTwo ==
  ASSUME NEW sections, Len(sections) = 2,
         Len(sections[1].rows) \in Nat, Len(sections[2].rows) \in Nat
  PROVE  RowsIn(sections) = Len(sections[1].rows) + Len(sections[2].rows)
<1>. DEFINE Loop(g) == [n \in 0 .. 2 |-> IF n = 0 THEN 0 ELSE g[n - 1] + Len(sections[n].rows)]
            w == [n \in 0 .. 2 |-> IF n = 0 THEN 0
                                   ELSE IF n = 1 THEN Len(sections[1].rows)
                                   ELSE Len(sections[1].rows) + Len(sections[2].rows)]
            c == CHOOSE g : g = Loop(g)
<1>1. w = Loop(w)
  OBVIOUS
<1>2. c = Loop(c)
  <2>. HIDE DEF w, Loop
  <2>. QED BY <1>1
<1>3. c[0] = 0 /\ c[1] = c[0] + Len(sections[1].rows) /\ c[2] = c[1] + Len(sections[2].rows)
  <2>. HIDE DEF c
  <2>1. 0 \in 0 .. 2 /\ 1 \in 0 .. 2 /\ 2 \in 0 .. 2 /\ 1 - 1 = 0 /\ 2 - 1 = 1
    OBVIOUS
  <2>. QED BY <1>2, <2>1
<1>4. RowsIn(sections) = c[2]
  BY DEF RowsIn
<1>. HIDE DEF c
<1>. QED BY <1>3, <1>4

LEMMA PooledOfTwo ==
  ASSUME NEW sections, Len(sections) = 2, NEW taken
  PROVE  Pooled(sections, taken) =
           (<<>> \o SubSeq(sections[1].rows, 1, taken[1])) \o SubSeq(sections[2].rows, 1, taken[2])
<1>. DEFINE Loop(g) == [s \in 0 .. 2 |-> IF s = 0 THEN <<>>
                          ELSE g[s - 1] \o SubSeq(sections[s].rows, 1, taken[s])]
            first == <<>> \o SubSeq(sections[1].rows, 1, taken[1])
            both == first \o SubSeq(sections[2].rows, 1, taken[2])
            w == [s \in 0 .. 2 |-> IF s = 0 THEN <<>> ELSE IF s = 1 THEN first ELSE both]
            c == CHOOSE g : g = Loop(g)
<1>1. w = Loop(w)
  OBVIOUS
<1>2. c = Loop(c)
  <2>. HIDE DEF w, Loop
  <2>. QED BY <1>1
<1>3. /\ c[0] = <<>> /\ c[1] = c[0] \o SubSeq(sections[1].rows, 1, taken[1])
      /\ c[2] = c[1] \o SubSeq(sections[2].rows, 1, taken[2])
  <2>. DEFINE part(s) == SubSeq(sections[s].rows, 1, taken[s])
              next(q, s) == q \o part(s)
  <2>0. c = [s \in 0 .. 2 |-> IF s = 0 THEN <<>> ELSE next(c[s - 1], s)]
    BY <1>2
  <2>. HIDE DEF c, next
  <2>1. 0 \in 0 .. 2 /\ 1 \in 0 .. 2 /\ 2 \in 0 .. 2 /\ 1 - 1 = 0 /\ 2 - 1 = 1
    OBVIOUS
  <2>2. c[0] = <<>> /\ c[1] = next(c[0], 1) /\ c[2] = next(c[1], 2)
    BY <2>0, <2>1
  <2>. QED BY <2>2 DEF next
<1>4. Pooled(sections, taken) = c[2]
  BY DEF Pooled
<1>. HIDE DEF c
<1>. QED BY <1>3, <1>4

LEMMA VisitsOfTwo ==
  ASSUME NEW sections, Len(sections) = 2, NEW t
  PROVE  visit_sections(t, sections) = visit_section(visit_section(t, sections, 1), sections, 2)
<1>. DEFINE Loop(g) == [s \in 0 .. 2 |-> IF s = 0 THEN t ELSE visit_section(g[s - 1], sections, s)]
            first == visit_section(t, sections, 1)
            both == visit_section(first, sections, 2)
            w == [s \in 0 .. 2 |-> IF s = 0 THEN t ELSE IF s = 1 THEN first ELSE both]
            c == CHOOSE g : g = Loop(g)
<1>1. w = Loop(w)
  OBVIOUS
<1>2. c = Loop(c)
  <2>. HIDE DEF w, Loop
  <2>. QED BY <1>1
<1>3. /\ c[0] = t /\ c[1] = visit_section(c[0], sections, 1)
      /\ c[2] = visit_section(c[1], sections, 2)
  <2>. HIDE DEF c
  <2>1. 0 \in 0 .. 2 /\ 1 \in 0 .. 2 /\ 2 \in 0 .. 2 /\ 1 - 1 = 0 /\ 2 - 1 = 1
    OBVIOUS
  <2>. QED BY <1>2, <2>1
<1>4. visit_sections(t, sections) = c[2]
  BY DEF visit_sections
<1>. HIDE DEF c
<1>. QED BY <1>3, <1>4

\* The loop of _truncate_sections is defined round by round.
Round(sections, g, k) ==
  IF k = 0 THEN NothingTaken(sections) ELSE visit_sections(g[k - 1], sections)

LEMMA RoundsDefined ==
  ASSUME NEW sections, RowsIn(sections) \in Nat
  PROVE  \E g : /\ g = [k \in 0 .. (RowsIn(sections) + 1) |-> Round(sections, g, k)]
                /\ truncate_sections(sections) = g[RowsIn(sections) + 1]
<1>. DEFINE n == RowsIn(sections) + 1
            Good == {m \in Nat : \E g : \A k \in 0 .. n : k <= m => g[k] = Round(sections, g, k)}
<1>1. 0 \in Good
  <2>1. \A k \in 0 .. n : k <= 0 => [i \in 0 .. n |-> NothingTaken(sections)][k] =
                             Round(sections, [i \in 0 .. n |-> NothingTaken(sections)], k)
    BY DEF Round
  <2>. QED BY <2>1
<1>2. \A m \in Good : m + 1 \in Good
  <2>. SUFFICES ASSUME NEW m \in Good PROVE m + 1 \in Good
    OBVIOUS
  <2>1. PICK g : \A k \in 0 .. n : k <= m => g[k] = Round(sections, g, k)
    OBVIOUS
  <2>. DEFINE h == [k \in 0 .. n |-> Round(sections, g, k)]
  <2>2. ASSUME NEW k \in 0 .. n, k <= m + 1
        PROVE  h[k] = Round(sections, h, k)
    <3>1. h[k] = Round(sections, g, k)
      OBVIOUS
    <3>2. CASE k = 0
      BY <3>1, <3>2 DEF Round
    <3>3. CASE k # 0
      <4>1. k - 1 \in 0 .. n /\ k - 1 <= m
        BY <2>2, <3>3
      <4>2. h[k - 1] = g[k - 1]
        BY <2>1, <4>1
      <4>. QED BY <3>1, <3>3, <4>2 DEF Round
    <3>. QED BY <3>2, <3>3
  <2>3. \E f : \A k \in 0 .. n : k <= m + 1 => f[k] = Round(sections, f, k)
    <3>. HIDE DEF h
    <3>. QED BY <2>2
  <2>. QED BY <2>3
<1>3. n \in Good
  <2>. HIDE DEF Good
  <2>1. Good \in SUBSET Nat
    BY DEF Good
  <2>2. n \in Nat
    OBVIOUS
  <2>. HIDE DEF n
  <2>. QED BY <1>1, <1>2, <2>1, <2>2, SetInduction
<1>4. PICK g : \A k \in 0 .. n : k <= n => g[k] = Round(sections, g, k)
  BY <1>3
<1>. DEFINE f == [k \in 0 .. n |-> g[k]]
<1>5. f = [k \in 0 .. n |-> Round(sections, f, k)]
  <2>1. \A k \in 0 .. n : g[k] = Round(sections, g, k)
    BY <1>4
  <2>2. \A k \in 0 .. n : Round(sections, g, k) = Round(sections, f, k)
    BY DEF Round
  <2>. QED BY <2>1, <2>2
<1>. DEFINE c == CHOOSE u : u = [k \in 0 .. n |-> Round(sections, u, k)]
<1>6. c = [k \in 0 .. n |-> Round(sections, c, k)]
  <2>. HIDE DEF f
  <2>. QED BY <1>5
<1>7. truncate_sections(sections) = c[n]
  BY DEF truncate_sections, Round
<1>. QED BY <1>6, <1>7

-----------------------------------------------------------------------------
(***************************************************************************)
(* The turns of the sections.                                              *)
(***************************************************************************)
Loops == [taken : [1 .. 2 -> Nat], blocked : SUBSET (1 .. 2), count : Nat, chars : Nat]

NextChars(t, sections, s) == RowChars(sections[s].rows[t.taken[s] + 1])

LEMMA NextRow ==
  ASSUME NEW sections, TwoSections(sections), NEW s \in 1 .. 2, NEW n \in Nat,
         n < Len(sections[s].rows)
  PROVE  RowChars(sections[s].rows[n + 1]) \in Nat /\ Len(sections[s].rows) \in Nat
<1>. DEFINE rows == sections[s].rows
<1>1. rows \in Seq(Range(rows)) /\ \A row \in Range(rows) : RowChars(row) \in Nat
  BY DEF TwoSections
<1>. HIDE DEF rows
<1>2. DOMAIN rows = 1 .. Len(rows) /\ Len(rows) \in Nat
  BY <1>1
<1>3. n < Len(rows)
  BY DEF rows
<1>4. rows[n + 1] \in Range(rows)
  BY <1>2, <1>3 DEF Range
<1>5. RowChars(rows[n + 1]) \in Nat
  BY <1>1, <1>4
<1>. QED BY <1>2, <1>5 DEF rows

\* What one turn does.
Unmoved(t, u) == u.taken = t.taken /\ u.count = t.count /\ u.chars = t.chars

TurnDone(t, u, sections, s) ==
  \/ (t.count >= AnswerMaxRows \/ s \in t.blocked) /\ u = t
  \/ /\ t.count < AnswerMaxRows /\ s \notin t.blocked
     /\ \/ /\ t.taken[s] >= Len(sections[s].rows)
           /\ Unmoved(t, u) /\ u.blocked = t.blocked \cup {s}
        \/ /\ ~(t.taken[s] >= Len(sections[s].rows))
           /\ t.chars + NextChars(t, sections, s) <= AnswerMaxChars
           /\ u.taken = [t.taken EXCEPT ![s] = @ + 1] /\ u.count = t.count + 1
           /\ u.chars = t.chars + NextChars(t, sections, s) /\ u.blocked = t.blocked
        \/ /\ ~(t.taken[s] >= Len(sections[s].rows))
           /\ ~(t.chars + NextChars(t, sections, s) <= AnswerMaxChars)
           /\ t.count = 0
           /\ u.taken = [t.taken EXCEPT ![s] = @ + 1] /\ u.count = t.count + 1
           /\ u.chars = t.chars + 0 /\ u.blocked = t.blocked \cup {s}
        \/ /\ ~(t.taken[s] >= Len(sections[s].rows))
           /\ ~(t.chars + NextChars(t, sections, s) <= AnswerMaxChars)
           /\ t.count # 0
           /\ Unmoved(t, u) /\ u.blocked = t.blocked \cup {s}

LEMMA OneTurn ==
  ASSUME NEW sections, NEW t \in Loops, NEW s \in 1 .. 2
  PROVE  TurnDone(t, visit_section(t, sections, s), sections, s)
<1>. DEFINE u == visit_section(t, sections, s)
            stop(v) == [v EXCEPT !.blocked = @ \cup {s}]
            chars == NextChars(t, sections, s)
<1>1. u = IF t.count >= AnswerMaxRows \/ s \in t.blocked THEN t
          ELSE IF t.taken[s] >= Len(sections[s].rows) THEN stop(t)
          ELSE IF t.chars + chars <= AnswerMaxChars THEN Take(t, s, chars)
          ELSE IF t.count = 0 THEN stop(Take(t, s, 0))
          ELSE stop(t)
  BY DEF visit_section, NextChars
<1>2. \A v \in Loops : Unmoved(v, stop(v)) /\ stop(v).blocked = v.blocked \cup {s}
  BY DEF Loops, Unmoved
<1>3. ASSUME NEW n
      PROVE  /\ Take(t, s, n).taken = [t.taken EXCEPT ![s] = @ + 1]
             /\ Take(t, s, n).count = t.count + 1
             /\ Take(t, s, n).chars = t.chars + n
             /\ Take(t, s, n).blocked = t.blocked
  BY DEF Take, Loops
<1>4. /\ stop(Take(t, s, 0)).taken = [t.taken EXCEPT ![s] = @ + 1]
      /\ stop(Take(t, s, 0)).count = t.count + 1
      /\ stop(Take(t, s, 0)).chars = t.chars + 0
      /\ stop(Take(t, s, 0)).blocked = t.blocked \cup {s}
  BY DEF Take, Loops
<1>5. t.count >= AnswerMaxRows \/ t.count < AnswerMaxRows
  BY LimitsAssumption DEF Loops
<1>. SUFFICES TurnDone(t, u, sections, s)
  OBVIOUS
<1>. HIDE DEF u, stop, chars
<1>6. CASE t.count >= AnswerMaxRows \/ s \in t.blocked
  BY <1>1, <1>6 DEF TurnDone
<1>7. CASE ~(t.count >= AnswerMaxRows \/ s \in t.blocked)
  BY <1>1, <1>2, <1>3, <1>4, <1>5, <1>7 DEF chars, TurnDone
<1>. QED BY <1>6, <1>7

\* Why a section gets no more.
Stopped(t, sections, s) ==
  \/ t.taken[s] = Len(sections[s].rows)
  \/ /\ t.taken[s] < Len(sections[s].rows)
     /\ t.chars + RowChars(sections[s].rows[t.taken[s] + 1]) > AnswerMaxChars
  \/ t.taken[s] = 1 /\ RowChars(sections[s].rows[1]) > AnswerMaxChars

\* After n rounds, and the turns of the first j sections of the next one: the
\* sections that still get rows have had one in each of their turns.
TurnsTaken(t, sections, n, j) ==
  /\ t \in Loops
  /\ \A s \in 1 .. 2 : t.taken[s] <= Len(sections[s].rows)
  /\ t.count = 0 => t.chars = 0 /\ \A s \in 1 .. 2 : t.taken[s] = 0
  /\ \A s \in t.blocked : Stopped(t, sections, s)
  /\ \A s \in 1 .. 2 : t.taken[s] <= n + (IF s <= j THEN 1 ELSE 0)
  /\ \A s \in (1 .. 2) \ t.blocked :
       t.count < AnswerMaxRows => t.taken[s] = n + (IF s <= j THEN 1 ELSE 0)
  /\ \A r \in (1 .. 2) \ t.blocked, s \in 1 .. 2 : t.taken[r] + 1 >= t.taken[s]

Visited(s, j) == IF s <= j THEN 1 ELSE 0

LEMMA TurnKeeps ==
  ASSUME NEW sections, TwoSections(sections), NEW n \in Nat, NEW s \in 1 .. 2,
         NEW t, TurnsTaken(t, sections, n, s - 1)
  PROVE  TurnsTaken(visit_section(t, sections, s), sections, n, s)
<1>. DEFINE u == visit_section(t, sections, s)
            size(r) == Len(sections[r].rows)
<1>0. t \in Loops /\ AnswerMaxRows \in Nat /\ AnswerMaxChars \in Nat
  BY LimitsAssumption DEF TurnsTaken
<1>1. /\ t.taken \in [1 .. 2 -> Nat] /\ t.blocked \in SUBSET (1 .. 2)
      /\ t.count \in Nat /\ t.chars \in Nat
      /\ \A r \in 1 .. 2 : t.taken[r] \in Nat
  BY <1>0 DEF Loops
<1>2. \A r \in 1 .. 2 : size(r) \in Nat
  <2>. SUFFICES ASSUME NEW r \in 1 .. 2 PROVE size(r) \in Nat
    OBVIOUS
  <2>1. sections[r].rows \in Seq(Range(sections[r].rows))
    BY DEF TwoSections
  <2>. QED BY <2>1
<1>3. /\ \A r \in 1 .. 2 : t.taken[r] <= size(r)
      /\ t.count = 0 => t.chars = 0 /\ \A r \in 1 .. 2 : t.taken[r] = 0
      /\ \A r \in t.blocked : Stopped(t, sections, r)
      /\ \A r \in 1 .. 2 : t.taken[r] <= n + Visited(r, s - 1)
      /\ \A r \in (1 .. 2) \ t.blocked :
           t.count < AnswerMaxRows => t.taken[r] = n + Visited(r, s - 1)
      /\ \A r \in (1 .. 2) \ t.blocked, q \in 1 .. 2 : t.taken[r] + 1 >= t.taken[q]
  BY DEF TurnsTaken, Visited
<1>4. /\ Visited(s, s - 1) = 0 /\ Visited(s, s) = 1
      /\ \A r \in 1 .. 2 : r # s => Visited(r, s) = Visited(r, s - 1)
      /\ \A r \in 1 .. 2 : Visited(r, s) \in 0 .. 1 /\ Visited(r, s - 1) <= Visited(r, s)
  BY DEF Visited
<1>5. /\ t.taken[s] < size(s) => NextChars(t, sections, s) \in Nat
      /\ \A r \in 1 .. 2 : t.taken[r] < size(r) => RowChars(sections[r].rows[t.taken[r] + 1]) \in Nat
  BY <1>1, NextRow DEF NextChars
<1>. SUFFICES /\ u \in Loops
              /\ \A r \in 1 .. 2 : u.taken[r] <= size(r)
              /\ u.count = 0 => u.chars = 0 /\ \A r \in 1 .. 2 : u.taken[r] = 0
              /\ \A r \in u.blocked : Stopped(u, sections, r)
              /\ \A r \in 1 .. 2 : u.taken[r] <= n + Visited(r, s)
              /\ \A r \in (1 .. 2) \ u.blocked :
                   u.count < AnswerMaxRows => u.taken[r] = n + Visited(r, s)
              /\ \A r \in (1 .. 2) \ u.blocked, q \in 1 .. 2 : u.taken[r] + 1 >= u.taken[q]
  BY DEF TurnsTaken, Visited
<1>6. u = [taken |-> u.taken, blocked |-> u.blocked, count |-> u.count, chars |-> u.chars]
  <2>1. t = [taken |-> t.taken, blocked |-> t.blocked, count |-> t.count, chars |-> t.chars]
    BY <1>0 DEF Loops
  <2>. QED BY <1>0, <2>1 DEF visit_section, Take, Loops
<1>. HIDE DEF size
<1>7. CASE (t.count >= AnswerMaxRows \/ s \in t.blocked) /\ u = t
  <2>. HIDE DEF u
  <2>1. \A r \in 1 .. 2 : t.taken[r] <= n + Visited(r, s)
    BY <1>1, <1>3, <1>4
  <2>2. ASSUME NEW r \in (1 .. 2) \ t.blocked, t.count < AnswerMaxRows
        PROVE  t.taken[r] = n + Visited(r, s)
    <3>1. CASE r = s
      BY <1>0, <1>1, <1>7, <2>2, <3>1
    <3>2. CASE r # s
      BY <1>3, <1>4, <2>2, <3>2
    <3>. QED BY <3>1, <3>2
  <2>. QED BY <1>0, <1>3, <1>7, <2>1, <2>2
<1>. DEFINE
       taken1 == [t.taken EXCEPT ![s] = @ + 1]
<1>8. CASE /\ t.count < AnswerMaxRows /\ s \notin t.blocked
           /\ Unmoved(t, u) /\ u.blocked = t.blocked \cup {s}
           /\ \/ t.taken[s] >= size(s)
              \/ /\ ~(t.taken[s] >= size(s)) /\ t.count # 0
                 /\ ~(t.chars + NextChars(t, sections, s) <= AnswerMaxChars)
  <2>1. u \in Loops
    BY <1>1, <1>6, <1>8 DEF Loops, Unmoved
  <2>2. Stopped(u, sections, s)
    <3>. HIDE DEF u
    <3>1. u.taken = t.taken /\ u.chars = t.chars
      BY <1>8 DEF Unmoved
    <3>2. CASE t.taken[s] >= size(s)
      <4>1. t.taken[s] = size(s)
        BY <1>1, <1>2, <1>3, <3>2
      <4>. QED BY <3>1, <4>1 DEF Stopped, size
    <3>3. CASE ~(t.taken[s] >= size(s))
      <4>1. t.taken[s] < size(s)
        BY <1>1, <1>2, <3>3
      <4>2. t.chars + NextChars(t, sections, s) > AnswerMaxChars
        <5>1. NextChars(t, sections, s) \in Nat
          BY <1>5, <4>1
        <5>. QED BY <1>0, <1>1, <1>8, <3>3, <5>1
      <4>. QED BY <3>1, <4>1, <4>2 DEF Stopped, size, NextChars
    <3>. QED BY <3>2, <3>3
  <2>3. \A r \in t.blocked : Stopped(u, sections, r)
    BY <1>3, <1>8 DEF Stopped, Unmoved
  <2>. HIDE DEF u
  <2>4. \A r \in (1 .. 2) \ u.blocked : r # s /\ r \notin t.blocked
    BY <1>8
  <2>. QED BY <1>0, <1>1, <1>2, <1>3, <1>4, <1>8, <2>1, <2>2, <2>3, <2>4 DEF Unmoved
<1>9. ASSUME t.count < AnswerMaxRows, s \notin t.blocked,
             ~(t.taken[s] >= size(s)), u.taken = taken1, u.count = t.count + 1,
             u.chars \in Nat, u.chars >= t.chars,
             u.blocked = t.blocked \/ u.blocked = t.blocked \cup {s},
             s \in u.blocked => Stopped(u, sections, s)
      PROVE  /\ u \in Loops
             /\ \A r \in 1 .. 2 : u.taken[r] <= size(r)
             /\ u.count = 0 => u.chars = 0 /\ \A r \in 1 .. 2 : u.taken[r] = 0
             /\ \A r \in u.blocked : Stopped(u, sections, r)
             /\ \A r \in 1 .. 2 : u.taken[r] <= n + Visited(r, s)
             /\ \A r \in (1 .. 2) \ u.blocked :
                  u.count < AnswerMaxRows => u.taken[r] = n + Visited(r, s)
             /\ \A r \in (1 .. 2) \ u.blocked, q \in 1 .. 2 : u.taken[r] + 1 >= u.taken[q]
  <2>1. u \in Loops
    <3>1. u.taken \in [1 .. 2 -> Nat] /\ u.count \in Nat /\ u.blocked \in SUBSET (1 .. 2)
      BY <1>1, <1>9
    <3>. QED BY <1>6, <1>9, <3>1 DEF Loops
  <2>2. u.taken[s] = t.taken[s] + 1 /\ \A r \in 1 .. 2 : r # s => u.taken[r] = t.taken[r]
    BY <1>1, <1>9
  <2>. HIDE DEF u
  <2>3. \A r \in 1 .. 2 : u.taken[r] <= size(r)
    BY <1>1, <1>2, <1>3, <1>9, <2>2
  <2>4. u.count # 0
    BY <1>1, <1>9
  <2>5. ASSUME NEW r \in u.blocked PROVE Stopped(u, sections, r)
    <3>1. CASE r = s
      BY <1>9, <3>1
    <3>2. CASE r # s
      <4>1. r \in t.blocked /\ r \in 1 .. 2
        BY <1>1, <1>9, <3>2
      <4>2. u.taken[r] = t.taken[r] /\ Stopped(t, sections, r)
        BY <1>3, <2>2, <3>2, <4>1
      <4>. DEFINE size1 == RowChars(sections[r].rows[t.taken[r] + 1])
      <4>3. t.taken[r] < size(r) /\ t.chars + size1 > AnswerMaxChars
              => u.chars + size1 > AnswerMaxChars
        <5>1. t.taken[r] < size(r) => size1 \in Nat
          BY <1>5, <4>1
        <5>. HIDE DEF size1
        <5>. QED BY <1>0, <1>1, <1>9, <5>1
      <4>. QED BY <4>2, <4>3 DEF Stopped, size
    <3>. QED BY <3>1, <3>2
  <2>6. \A r \in 1 .. 2 : u.taken[r] <= n + Visited(r, s)
    BY <1>1, <1>3, <1>4, <1>9, <2>2
  <2>7. \A r \in (1 .. 2) \ u.blocked : u.count < AnswerMaxRows => u.taken[r] = n + Visited(r, s)
    <3>1. \A r \in (1 .. 2) \ u.blocked : r \notin t.blocked
      BY <1>9
    <3>. QED BY <1>0, <1>1, <1>3, <1>4, <1>9, <2>2, <3>1
  <2>8. \A r \in (1 .. 2) \ u.blocked, q \in 1 .. 2 : u.taken[r] + 1 >= u.taken[q]
    <3>1. \A r \in (1 .. 2) \ u.blocked : r \notin t.blocked
      BY <1>9
    <3>2. \A r \in (1 .. 2) \ u.blocked : u.taken[r] >= n
      BY <1>1, <1>3, <1>4, <1>9, <2>2, <3>1
    <3>3. \A q \in 1 .. 2 : u.taken[q] <= n + 1
      BY <1>4, <2>1, <2>6 DEF Loops
    <3>4. \A q \in 1 .. 2 : u.taken[q] \in Nat
      BY <2>1 DEF Loops
    <3>. QED BY <3>2, <3>3, <3>4
  <2>. QED BY <2>1, <2>3, <2>4, <2>5, <2>6, <2>7, <2>8
<1>10. CASE /\ t.count < AnswerMaxRows /\ s \notin t.blocked
            /\ ~(t.taken[s] >= size(s))
            /\ u.taken = taken1 /\ u.count = t.count + 1
            /\ u.chars = t.chars + NextChars(t, sections, s) /\ u.blocked = t.blocked
  <2>1. NextChars(t, sections, s) \in Nat
    BY <1>1, <1>2, <1>5, <1>10
  <2>2. u.chars \in Nat /\ u.chars >= t.chars
    BY <1>1, <1>10, <2>1
  <2>. HIDE DEF u, taken1
  <2>. QED BY <1>9, <1>10, <2>2
<1>11. CASE /\ t.count < AnswerMaxRows /\ s \notin t.blocked
            /\ ~(t.taken[s] >= size(s)) /\ t.count = 0
            /\ ~(t.chars + NextChars(t, sections, s) <= AnswerMaxChars)
            /\ u.taken = taken1 /\ u.count = t.count + 1
            /\ u.chars = t.chars + 0 /\ u.blocked = t.blocked \cup {s}
  <2>1. u.chars \in Nat /\ u.chars >= t.chars
    BY <1>1, <1>11
  <2>2. t.taken[s] = 0 /\ t.chars = 0 /\ u.taken[s] = 1
    BY <1>1, <1>3, <1>11
  <2>3. NextChars(t, sections, s) \in Nat /\ NextChars(t, sections, s) = RowChars(sections[s].rows[1])
    <3>1. t.taken[s] < size(s)
      BY <1>1, <1>2, <1>11
    <3>2. t.taken[s] + 1 = 1
      BY <2>2
    <3>. QED BY <1>5, <3>1, <3>2 DEF NextChars
  <2>4. Stopped(u, sections, s)
    BY <1>0, <1>11, <2>2, <2>3 DEF Stopped
  <2>. HIDE DEF u, taken1
  <2>. QED BY <1>9, <1>11, <2>1, <2>4
<1>. QED
  <2>. HIDE DEF u
  <2>1. u = visit_section(t, sections, s)
    BY DEF u
  <2>2. TurnDone(t, u, sections, s)
    BY <1>0, <2>1, OneTurn
  <2>. QED BY <1>7, <1>8, <1>10, <1>11, <2>2 DEF TurnDone, size

LEMMA RoundKeeps ==
  ASSUME NEW sections, TwoSections(sections), NEW n \in Nat,
         NEW t, TurnsTaken(t, sections, n, 0)
  PROVE  TurnsTaken(visit_sections(t, sections), sections, n + 1, 0)
<1>. DEFINE u == visit_section(t, sections, 1)
            v == visit_section(u, sections, 2)
<1>1. 1 \in 1 .. 2 /\ 2 \in 1 .. 2 /\ 1 - 1 = 0 /\ 2 - 1 = 1
  OBVIOUS
<1>2. TurnsTaken(u, sections, n, 1)
  BY <1>1, TurnKeeps
<1>3. TurnsTaken(v, sections, n, 2)
  <2>. HIDE DEF u
  <2>. QED BY <1>1, <1>2, TurnKeeps
<1>4. visit_sections(t, sections) = v
  BY VisitsOfTwo DEF TwoSections
<1>. HIDE DEF u, v
<1>5. \A s \in 1 .. 2 : (IF s <= 2 THEN 1 ELSE 0) = 1 /\ (IF s <= 0 THEN 1 ELSE 0) = 0
  OBVIOUS
<1>6. n + 1 = (n + 1) + 0
  OBVIOUS
<1>. QED BY <1>3, <1>4, <1>5, <1>6 DEF TurnsTaken

LEMMA LoopStarts ==
  ASSUME NEW sections, TwoSections(sections)
  PROVE  TurnsTaken(NothingTaken(sections), sections, 0, 0)
<1>. DEFINE t == NothingTaken(sections)
<1>1. /\ t \in Loops /\ t.count = 0 /\ t.chars = 0 /\ t.blocked = {}
      /\ \A s \in 1 .. 2 : t.taken[s] = 0
  BY DEF NothingTaken, Loops, TwoSections
<1>2. \A s \in 1 .. 2 : Len(sections[s].rows) \in Nat
  <2>. SUFFICES ASSUME NEW s \in 1 .. 2 PROVE Len(sections[s].rows) \in Nat
    OBVIOUS
  <2>1. sections[s].rows \in Seq(Range(sections[s].rows))
    BY DEF TwoSections
  <2>. QED BY <2>1
<1>. HIDE DEF t
<1>3. TurnsTaken(t, sections, 0, 0)
  BY <1>1, <1>2 DEF TurnsTaken
<1>. QED BY <1>3 DEF t

LEMMA LensOfTwo ==
  ASSUME NEW sections, TwoSections(sections)
  PROVE  /\ Len(sections[1].rows) \in Nat /\ Len(sections[2].rows) \in Nat
         /\ RowsIn(sections) = Len(sections[1].rows) + Len(sections[2].rows)
<1>1. /\ sections[1].rows \in Seq(Range(sections[1].rows))
      /\ sections[2].rows \in Seq(Range(sections[2].rows))
  BY DEF TwoSections
<1>2. Len(sections[1].rows) \in Nat /\ Len(sections[2].rows) \in Nat
  BY <1>1
<1>. QED BY <1>2, RowsOfTwo DEF TwoSections

\* The invariant of the loop holds of its result.
LEMMA SectionsShared ==
  ASSUME NEW sections, TwoSections(sections)
  PROVE  \E n \in Nat : TurnsTaken(truncate_sections(sections), sections, n, 0)
<1>. DEFINE N == RowsIn(sections) + 1
<1>1. RowsIn(sections) \in Nat
  <2>. DEFINE a == Len(sections[1].rows)
              b == Len(sections[2].rows)
  <2>1. a \in Nat /\ b \in Nat /\ RowsIn(sections) = a + b
    BY LensOfTwo
  <2>. HIDE DEF a, b
  <2>. QED BY <2>1
<1>2. PICK g : /\ g = [k \in 0 .. N |-> Round(sections, g, k)]
               /\ truncate_sections(sections) = g[N]
  BY <1>1, RoundsDefined
<1>3. N \in Nat
  BY <1>1
<1>. HIDE DEF N
<1>. DEFINE S == {m \in Nat : m <= N => TurnsTaken(g[m], sections, m, 0)}
<1>4. 0 \in S
  <2>1. g[0] = NothingTaken(sections)
    BY <1>2, <1>3 DEF Round
  <2>. QED BY <2>1, LoopStarts
<1>5. \A m \in S : m + 1 \in S
  <2>. SUFFICES ASSUME NEW m \in S, m + 1 <= N
                PROVE  TurnsTaken(g[m + 1], sections, m + 1, 0)
    OBVIOUS
  <2>1. m \in Nat /\ m <= N /\ m + 1 \in 0 .. N /\ m + 1 # 0 /\ (m + 1) - 1 = m
    BY <1>3
  <2>2. TurnsTaken(g[m], sections, m, 0)
    BY <2>1
  <2>3. g[m + 1] = Round(sections, g, m + 1)
    BY <1>2, <2>1
  <2>4. g[m + 1] = visit_sections(g[m], sections)
    BY <2>1, <2>3 DEF Round
  <2>. QED BY <2>1, <2>2, <2>4, RoundKeeps
<1>6. \A m \in Nat : m \in S
  <2>1. S \in SUBSET Nat
    OBVIOUS
  <2>. HIDE DEF S
  <2>. QED BY <1>4, <1>5, <2>1, SetInduction
<1>7. TurnsTaken(g[N], sections, N, 0)
  BY <1>3, <1>6
<1>. QED BY <1>2, <1>3, <1>7

LEMMA ShareOfTwo ==
  ASSUME NEW sections, TwoSections(sections), NEW r \in 1 .. 2, NEW s \in 1 .. 2
  PROVE  LET t == truncate_sections(sections) IN
         /\ t.taken[s] \in Nat /\ t.taken[s] <= Len(sections[s].rows)
         /\ \/ t.taken[r] + 1 >= t.taken[s]
            \/ t.taken[r] = Len(sections[r].rows)
            \/ t.chars + RowChars(sections[r].rows[t.taken[r] + 1]) > AnswerMaxChars
            \/ t.taken[r] = 1 /\ RowChars(sections[r].rows[1]) > AnswerMaxChars
<1>. DEFINE t == truncate_sections(sections)
<1>1. PICK n \in Nat : TurnsTaken(t, sections, n, 0)
  BY SectionsShared
<1>. HIDE DEF t
<1>2. t.taken[s] \in Nat /\ t.taken[s] <= Len(sections[s].rows)
  BY <1>1 DEF TurnsTaken, Loops
<1>3. CASE r \in t.blocked
  BY <1>1, <1>2, <1>3 DEF TurnsTaken, Stopped, t
<1>4. CASE r \notin t.blocked
  BY <1>1, <1>2, <1>4 DEF TurnsTaken, t
<1>. QED BY <1>3, <1>4

-----------------------------------------------------------------------------
(***************************************************************************)
(* The rows of the context are rows of the result.                         *)
(***************************************************************************)
LEMMA Prefix ==
  ASSUME NEW T, NEW s \in Seq(T), NEW n \in Nat, n <= Len(s)
  PROVE  SubSeq(s, 1, n) \in Seq(T) /\ Len(SubSeq(s, 1, n)) = n
OBVIOUS

LEMMA Listed ==
  ASSUME NEW X, NEW n \in Nat, NEW f \in [1 .. n -> X]
  PROVE  f \in Seq(X) /\ Len(f) = n
OBVIOUS

LEMMA Joined ==
  ASSUME NEW T, NEW a \in Seq(T), NEW b \in Seq(T)
  PROVE  a \o b \in Seq(T) /\ Len(a \o b) = Len(a) + Len(b)
OBVIOUS

LEMMA PoolOfTwo ==
  ASSUME NEW sections, Len(sections) = 2, NEW T, NEW taken,
         \A s \in 1 .. 2 : /\ sections[s].rows \in Seq(T)
                           /\ taken[s] \in Nat /\ taken[s] <= Len(sections[s].rows)
  PROVE  /\ Pooled(sections, taken) \in Seq(T)
         /\ Len(Pooled(sections, taken)) = taken[1] + taken[2]
<1>. DEFINE one == SubSeq(sections[1].rows, 1, taken[1])
            two == SubSeq(sections[2].rows, 1, taken[2])
<1>1. one \in Seq(T) /\ Len(one) = taken[1]
  <2>1. 1 \in 1 .. 2
    OBVIOUS
  <2>2. sections[1].rows \in Seq(T) /\ taken[1] \in Nat /\ taken[1] <= Len(sections[1].rows)
    BY <2>1
  <2>. QED BY <2>2, Prefix
<1>2. two \in Seq(T) /\ Len(two) = taken[2]
  <2>1. 2 \in 1 .. 2
    OBVIOUS
  <2>2. sections[2].rows \in Seq(T) /\ taken[2] \in Nat /\ taken[2] <= Len(sections[2].rows)
    BY <2>1
  <2>. QED BY <2>2, Prefix
<1>3. Pooled(sections, taken) = (<<>> \o one) \o two
  BY PooledOfTwo
<1>. HIDE DEF one, two
<1>. DEFINE start == <<>> \o one
<1>4. start \in Seq(T) /\ Len(start) = Len(one)
  BY <1>1
<1>. HIDE DEF start
<1>5. start \o two \in Seq(T) /\ Len(start \o two) = Len(start) + Len(two)
  BY <1>2, <1>4, Joined
<1>6. Pooled(sections, taken) = start \o two
  BY <1>3 DEF start
<1>. QED BY <1>1, <1>2, <1>4, <1>5, <1>6

LEMMA NoChars == Chars(<<>>) = 0
<1>. DEFINE Loop(g) == [n \in 0 .. 0 |-> IF n = 0 THEN 0 ELSE g[n - 1] + RowChars(<<>>[n])]
            w == [n \in 0 .. 0 |-> 0]
            c == CHOOSE g : g = Loop(g)
<1>1. w = Loop(w)
  OBVIOUS
<1>2. c = Loop(c)
  <2>. HIDE DEF w, Loop
  <2>. QED BY <1>1
<1>3. c[0] = 0
  <2>. HIDE DEF c
  <2>. QED BY <1>2
<1>4. Chars(<<>>) = c[0]
  <2>1. Len(<<>>) = 0
    OBVIOUS
  <2>. QED BY <2>1 DEF Chars
<1>. QED BY <1>3, <1>4

LEMMA PrefixShown ==
  ASSUME NEW T, NEW rows \in Seq(T)
  PROVE  /\ truncate_result_for_answer(rows) \in Seq(T)
         /\ Len(truncate_result_for_answer(rows)) <= Len(rows)
<1>. DEFINE fits == {n \in 0 .. Len(rows) : /\ n <= AnswerMaxRows
                                            /\ Chars(SubSeq(rows, 1, n)) <= AnswerMaxChars}
            longest == Max(fits)
<1>1. 0 \in fits
  <2>1. SubSeq(rows, 1, 0) = <<>>
    OBVIOUS
  <2>2. Chars(SubSeq(rows, 1, 0)) = 0
    BY <2>1, NoChars
  <2>. QED BY <2>2, LimitsAssumption
<1>2. longest \in fits
  <2>1. fits \in SUBSET (0 .. Len(rows)) /\ Len(rows) \in Nat
    OBVIOUS
  <2>. HIDE DEF fits
  <2>. QED BY <1>1, <2>1, LargestOf
<1>3. longest \in Nat /\ longest <= Len(rows)
  BY <1>2
<1>4. SubSeq(rows, 1, longest) \in Seq(T) /\ Len(SubSeq(rows, 1, longest)) = longest
  <2>. HIDE DEF longest
  <2>. QED BY <1>3, Prefix
<1>5. rows # <<>> => <<rows[1]>> \in Seq(T) /\ Len(<<rows[1]>>) = 1 /\ Len(rows) >= 1
  OBVIOUS
<1>6. truncate_result_for_answer(rows) \in {<<rows[1]>>, SubSeq(rows, 1, longest)}
      /\ (truncate_result_for_answer(rows) = <<rows[1]>> => rows # <<>>
            \/ truncate_result_for_answer(rows) = SubSeq(rows, 1, longest))
  BY DEF truncate_result_for_answer
<1>. HIDE DEF longest
<1>. QED BY <1>3, <1>4, <1>5, <1>6

-----------------------------------------------------------------------------
(***************************************************************************)
(* The composed result: its shapes, and what it holds.                     *)
(***************************************************************************)
Shaped(i, c) ==
  \/ i.plan.qty = 0 /\ Len(i.plan.ids) = 1 /\ c = compose_single(i.sources[1])
  \/ /\ i.plan.qty = 0 /\ Len(i.plan.ids) = 2 /\ i.plan.joinKeys = {}
     /\ c = compose_separate(i.plan, i.sources)
  \/ /\ i.plan.qty = 0 /\ Len(i.plan.ids) = 2 /\ i.plan.joinKeys # {}
     /\ c = compose_joined(i.sources, i.plan.joinKeys)
  \/ /\ i.plan.qty # 0 /\ Len(i.plan.ids) = 2 /\ i.plan.joinKeys # {}
     /\ c = compose_bom_shortage(i.sources, i.plan.qty)

LEMMA Shapes ==
  ASSUME NEW i \in Inputs, i.plan.ids # <<>>, NEW c, c = compose_results(i.plan, i.sources)
  PROVE  c = composition_failure(composition_mode(i.plan), FALSE) \/ Shaped(i, c)
<1>1. Len(i.plan.ids) \in 1 .. 2
  BY InputsAssumption
<1>2. i.plan.qty # 0 => Len(i.plan.ids) = 2 /\ i.plan.joinKeys # {}
  BY InputsAssumption
<1>. DEFINE mode == composition_mode(i.plan)
            unusable == \E k \in DOMAIN i.sources : ~source_usable(i.sources[k])
<1>3. /\ Len(i.plan.ids) = 1 => mode = "single"
      /\ Len(i.plan.ids) = 2 /\ i.plan.joinKeys = {} => mode = "separate"
      /\ Len(i.plan.ids) = 2 /\ i.plan.joinKeys # {} => mode = "joined"
  <2>1. Len(i.plan.ids) = 2 => Len(i.plan.ids) # 1
    OBVIOUS
  <2>. QED BY <2>1, Zenon DEF composition_mode
<1>4. c = IF unusable THEN composition_failure(mode, FALSE)
          ELSE IF i.plan.qty # 0 THEN compose_bom_shortage(i.sources, i.plan.qty)
          ELSE CASE mode = "single" -> compose_single(i.sources[1])
                 [] mode = "separate" -> compose_separate(i.plan, i.sources)
                 [] mode = "joined" -> compose_joined(i.sources, i.plan.joinKeys)
  BY DEF compose_results
<1>. SUFFICES ASSUME ~unusable PROVE Shaped(i, c)
  BY <1>4
<1>. HIDE DEF mode, unusable
<1>5. CASE i.plan.qty # 0
  <2>1. c = compose_bom_shortage(i.sources, i.plan.qty)
    BY <1>4, <1>5
  <2>. QED BY <1>2, <1>5, <2>1 DEF Shaped
<1>6. CASE i.plan.qty = 0 /\ mode = "single"
  <2>1. c = compose_single(i.sources[1])
    BY <1>4, <1>6
  <2>. QED BY <1>1, <1>3, <1>6, <2>1 DEF Shaped
<1>7. CASE i.plan.qty = 0 /\ mode = "separate"
  <2>1. c = compose_separate(i.plan, i.sources)
    BY <1>4, <1>7
  <2>. QED BY <1>1, <1>3, <1>7, <2>1 DEF Shaped
<1>8. CASE i.plan.qty = 0 /\ mode = "joined"
  <2>1. c = compose_joined(i.sources, i.plan.joinKeys)
    BY <1>4, <1>8
  <2>. QED BY <1>1, <1>3, <1>8, <2>1 DEF Shaped
<1>. QED BY <1>1, <1>3, <1>5, <1>6, <1>7, <1>8

LEMMA FailureIs ==
  ASSUME NEW mode, NEW cut
  PROVE  /\ composition_failure(mode, cut).error
         /\ composition_failure(mode, cut).sections = <<>>
         /\ composition_failure(mode, cut).mode = mode
BY DEF composition_failure

LEMMA SourcesAre ==
  ASSUME NEW i \in Inputs, i.plan.ids # <<>>
  PROVE  /\ DOMAIN i.sources = 1 .. Len(i.plan.ids) /\ Len(i.sources) = Len(i.plan.ids)
         /\ \A k \in DOMAIN i.sources :
              /\ i.sources[k].rows \in Seq(Range(i.sources[k].rows))
              /\ i.sources[k].truncated \in BOOLEAN
              /\ \A row \in Range(i.sources[k].rows) : RowChars(row) \in Nat
<1>. DEFINE sources == i.sources
<1>1. /\ Len(sources) = Len(i.plan.ids)
      /\ sources \in Seq(Range(sources))
      /\ \A s \in Range(sources) :
           /\ s.rows \in Seq(Range(s.rows))
           /\ s.truncated \in BOOLEAN
           /\ \A row \in Range(s.rows) : RowChars(row) \in Nat
  BY InputsAssumption
<1>. HIDE DEF sources
<1>2. DOMAIN sources = 1 .. Len(sources)
  BY <1>1
<1>3. \A k \in DOMAIN sources : sources[k] \in Range(sources)
  BY DEF Range
<1>. QED BY <1>1, <1>2, <1>3 DEF sources

\* Values read from a database for this request.
Read(i) == UNION {Values(i.sources[k].rows) : k \in DOMAIN i.sources}

RowVouched(i, row) == \A f \in (DOMAIN row) \ {"suppliers"} : row[f] \in Read(i) \cup {Null}

SourceRows(i) == UNION {Range(i.sources[k].rows) : k \in DOMAIN i.sources}

LEMMA SourceVouched ==
  ASSUME NEW i, NEW row \in SourceRows(i)
  PROVE  RowVouched(i, row)
<1>1. PICK k \in DOMAIN i.sources : row \in Range(i.sources[k].rows)
  BY DEF SourceRows
<1>. DEFINE rows == i.sources[k].rows
<1>2. PICK j \in DOMAIN rows : row = rows[j]
  BY <1>1 DEF Range
<1>. HIDE DEF rows
<1>. SUFFICES ASSUME NEW f \in (DOMAIN row) \ {"suppliers"}, row[f] # Null
              PROVE  row[f] \in Read(i)
  BY DEF RowVouched
<1>3. row[f] \in Values(rows)
  BY <1>2 DEF Values
<1>. QED BY <1>3 DEF Read, rows

LEMMA MergeVouched ==
  ASSUME NEW i, NEW left, NEW right, RowVouched(i, left), RowVouched(i, right)
  PROVE  RowVouched(i, merge_rows(left, right))
<1>1. /\ DOMAIN merge_rows(left, right) = (DOMAIN left) \cup (DOMAIN right)
      /\ \A f \in DOMAIN left : merge_rows(left, right)[f] = left[f]
      /\ \A f \in (DOMAIN right) \ (DOMAIN left) : merge_rows(left, right)[f] = right[f]
  BY DEF merge_rows
<1>. SUFFICES ASSUME NEW f \in (DOMAIN merge_rows(left, right)) \ {"suppliers"}
              PROVE  merge_rows(left, right)[f] \in Read(i) \cup {Null}
  BY DEF RowVouched
<1>2. CASE f \in DOMAIN left
  BY <1>1, <1>2 DEF RowVouched
<1>3. CASE f \notin DOMAIN left
  <2>1. f \in (DOMAIN right) \ {"suppliers"}
    BY <1>1, <1>3
  <2>. QED BY <1>1, <1>3, <2>1 DEF RowVouched
<1>. QED BY <1>2, <1>3

LEMMA ValuesVouched ==
  ASSUME NEW i, NEW T, \A row \in T : RowVouched(i, row), NEW rows \in Seq(T)
  PROVE  Values(rows) \subseteq Read(i)
<1>1. \A j \in DOMAIN rows : RowVouched(i, rows[j])
  OBVIOUS
<1>. SUFFICES ASSUME NEW v \in Values(rows) PROVE v \in Read(i)
  OBVIOUS
<1>2. PICK j \in DOMAIN rows : v # Null /\ \E f \in (DOMAIN rows[j]) \ {"suppliers"} : v = rows[j][f]
  BY DEF Values
<1>. QED BY <1>1, <1>2 DEF RowVouched

-----------------------------------------------------------------------------
(***************************************************************************)
(* The join.                                                               *)
(***************************************************************************)
\* The positions of two rows with the same key.
Met(left, right, keys) ==
  {p \in (DOMAIN left) \X (DOMAIN right) : row_key(left[p[1]], keys) = row_key(right[p[2]], keys)}

LEMMA MetFinite ==
  ASSUME NEW A, NEW left \in Seq(A), NEW B, NEW right \in Seq(B), NEW keys
  PROVE  IsFiniteSet(Met(left, right, keys)) /\ Cardinality(Met(left, right, keys)) \in Nat
<1>1. DOMAIN left = 1 .. Len(left) /\ DOMAIN right = 1 .. Len(right)
      /\ Len(left) \in Nat /\ Len(right) \in Nat
  OBVIOUS
<1>2. IsFiniteSet(DOMAIN left) /\ IsFiniteSet(DOMAIN right)
  BY <1>1, FS_Interval
<1>3. IsFiniteSet((DOMAIN left) \X (DOMAIN right))
  BY <1>2, FS_Product
<1>4. Met(left, right, keys) \in SUBSET ((DOMAIN left) \X (DOMAIN right))
  BY DEF Met
<1>5. IsFiniteSet(Met(left, right, keys))
  BY <1>3, <1>4, FS_Subset
<1>. QED BY <1>5, FS_CardinalityType

Pair(left, right, p) == <<left[p[1]], right[p[2]]>>

\* Every pair is met once.
LEMMA PairsAre ==
  ASSUME NEW A, NEW left \in Seq(A), NEW B, NEW right \in Seq(B), NEW keys
  PROVE  LET met == Met(left, right, keys)
             pairs == join_pairs(left, right, keys)
         IN  /\ DOMAIN pairs = 1 .. Cardinality(met) /\ Len(pairs) = Cardinality(met)
             /\ \A k \in DOMAIN pairs : \E p \in met : pairs[k] = Pair(left, right, p)
             /\ \A p \in met : \E k \in DOMAIN pairs : pairs[k] = Pair(left, right, p)
<1>. DEFINE met == Met(left, right, keys)
            pairs == join_pairs(left, right, keys)
            R == {q \in met \X met : \/ q[1][1] < q[2][1]
                                     \/ q[1][1] = q[2][1] /\ q[1][2] < q[2][2]}
            order == InOrder(met, R)
            n == Cardinality(met)
<1>1. IsFiniteSet(met) /\ n \in Nat
  BY MetFinite
<1>2. \A p \in met : p[1] \in Nat /\ p[2] \in Nat /\ p = <<p[1], p[2]>>
  BY DEF Met
<1>3. \A p, q \in met : <<p, q>> \in R <=> (p[1] < q[1] \/ (p[1] = q[1] /\ p[2] < q[2]))
  OBVIOUS
<1>4. /\ DOMAIN pairs = 1 .. n
      /\ \A k \in 1 .. n : pairs[k] = Pair(left, right, order[k])
      /\ pairs = [k \in 1 .. n |-> pairs[k]]
  BY DEF join_pairs, Met, Pair
<1>. HIDE DEF met, R, pairs, order
<1>5. Orders(R, met)
  <2>1. \A x \in met : <<x, x>> \notin R
    BY <1>2, <1>3
  <2>2. \A x, y, z \in met : <<x, y>> \in R /\ <<y, z>> \in R => <<x, z>> \in R
    <3>. SUFFICES ASSUME NEW x \in met, NEW y \in met, NEW z \in met,
                         <<x, y>> \in R, <<y, z>> \in R
                  PROVE  <<x, z>> \in R
      OBVIOUS
    <3>1. /\ x[1] < y[1] \/ (x[1] = y[1] /\ x[2] < y[2])
          /\ y[1] < z[1] \/ (y[1] = z[1] /\ y[2] < z[2])
      BY <1>3
    <3>2. /\ x[1] \in Nat /\ x[2] \in Nat /\ y[1] \in Nat /\ y[2] \in Nat
          /\ z[1] \in Nat /\ z[2] \in Nat
      BY <1>2
    <3>3. x[1] < z[1] \/ (x[1] = z[1] /\ x[2] < z[2])
      BY <3>1, <3>2
    <3>. QED BY <1>3, <3>3
  <2>3. \A x, y \in met : x # y => <<x, y>> \in R \/ <<y, x>> \in R
    <3>. SUFFICES ASSUME NEW x \in met, NEW y \in met, x # y
                  PROVE  <<x, y>> \in R \/ <<y, x>> \in R
      OBVIOUS
    <3>1. x[1] # y[1] \/ x[2] # y[2]
      BY <1>2
    <3>2. /\ x[1] \in Nat /\ x[2] \in Nat /\ y[1] \in Nat /\ y[2] \in Nat
      BY <1>2
    <3>3. \/ (x[1] < y[1] \/ (x[1] = y[1] /\ x[2] < y[2]))
          \/ (y[1] < x[1] \/ (y[1] = x[1] /\ y[2] < x[2]))
      BY <3>1, <3>2
    <3>. QED BY <1>3, <3>3
  <2>. QED BY <2>1, <2>2, <2>3 DEF Orders
<1>6. /\ \A k \in 1 .. n : order[k] \in met
      /\ \A p \in met : \E k \in 1 .. n : order[k] = p
  BY <1>1, <1>5, InOrderLists DEF order
<1>7. Len(pairs) = n
  BY <1>1, <1>4
<1>8. \A k \in DOMAIN pairs : \E p \in met : pairs[k] = Pair(left, right, p)
  BY <1>4, <1>6
<1>9. \A p \in met : \E k \in DOMAIN pairs : pairs[k] = Pair(left, right, p)
  BY <1>4, <1>6
<1>. QED BY <1>4, <1>7, <1>8, <1>9 DEF met, pairs

\* The outcomes of a join that is no error.
JoinOutcome(sources, keys, c) ==
  LET left == sources[1].rows
      right == sources[2].rows
      pairs == join_pairs(left, right, keys)
      most == IF Len(pairs) < RowLimit THEN Len(pairs) ELSE RowLimit
  IN  /\ ~sources[1].truncated /\ ~sources[2].truncated
      /\ \A k \in DOMAIN left : row_key(left[k], keys) # NoKey
      /\ \A j \in DOMAIN right : \E k \in DOMAIN left :
           row_key(left[k], keys) = row_key(right[j], keys)
      /\ c.mode = "joined" /\ c.sections = <<>>
      /\ \/ /\ left = <<>> \/ right = <<>>
            /\ c.rows = <<>> /\ c.total_count = 0 /\ ~c.truncated
         \/ /\ \A k \in DOMAIN pairs : ~conflicting(pairs[k][1], pairs[k][2], keys)
            /\ c.rows = [k \in 1 .. most |-> merge_rows(pairs[k][1], pairs[k][2])]
            /\ c.total_count = Len(pairs) /\ c.truncated = (Len(pairs) > Len(c.rows))

LEMMA JoinOutcomes ==
  ASSUME NEW sources, NEW keys, NEW c, c = compose_joined(sources, keys), ~c.error
  PROVE  JoinOutcome(sources, keys, c)
<1>. DEFINE left == sources[1].rows
            right == sources[2].rows
            pairs == join_pairs(left, right, keys)
            most == IF Len(pairs) < RowLimit THEN Len(pairs) ELSE RowLimit
            rows == [k \in 1 .. most |-> merge_rows(pairs[k][1], pairs[k][2])]
            left_domain == {row_key(left[k], keys) : k \in DOMAIN left}
            right_domain == {row_key(right[j], keys) : j \in DOMAIN right}
            cut == \E k \in 1 .. 2 : sources[k].truncated
            stray == NoKey \in left_domain \/ ~(right_domain \subseteq left_domain)
            clash == \E k \in DOMAIN pairs : conflicting(pairs[k][1], pairs[k][2], keys)
            none == left = <<>> \/ right = <<>>
            reason == IF pairs = <<>> THEN "NO_DATA" ELSE "none"
<1>1. c = IF cut THEN composition_failure("joined", TRUE)
          ELSE IF stray THEN composition_failure("joined", FALSE)
          ELSE IF none THEN composed_rows("joined", <<>>, overall_empty_reason(sources), 0, FALSE)
          ELSE IF clash THEN composition_failure("joined", FALSE)
          ELSE composed_rows("joined", rows, reason, Len(pairs), Len(pairs) > Len(rows))
  BY DEF compose_joined
<1>2. composition_failure("joined", TRUE).error /\ composition_failure("joined", FALSE).error
  BY DEF composition_failure
<1>3. ~cut => ~sources[1].truncated /\ ~sources[2].truncated
  OBVIOUS
<1>4. ~stray => /\ \A k \in DOMAIN left : row_key(left[k], keys) # NoKey
                /\ \A j \in DOMAIN right : \E k \in DOMAIN left :
                     row_key(left[k], keys) = row_key(right[j], keys)
  <2>. HIDE DEF left, right
  <2>1. ~stray => NoKey \notin left_domain /\ right_domain \subseteq left_domain
    OBVIOUS
  <2>2. \A k \in DOMAIN left : row_key(left[k], keys) \in left_domain
    OBVIOUS
  <2>3. \A j \in DOMAIN right : row_key(right[j], keys) \in right_domain
    OBVIOUS
  <2>4. \A v \in left_domain : \E k \in DOMAIN left : row_key(left[k], keys) = v
    OBVIOUS
  <2>. HIDE DEF left_domain, right_domain, stray
  <2>. QED BY <2>1, <2>2, <2>3, <2>4
<1>5. ~clash => \A k \in DOMAIN pairs : ~conflicting(pairs[k][1], pairs[k][2], keys)
  OBVIOUS
<1>. HIDE DEF left, right, pairs, rows, cut, stray, clash, reason
<1>6. ~cut /\ ~stray
  BY <1>1, <1>2
<1>7. CASE none
  <2>1. c = composed_rows("joined", <<>>, overall_empty_reason(sources), 0, FALSE)
    BY <1>1, <1>6, <1>7
  <2>2. c.mode = "joined" /\ c.sections = <<>> /\ c.rows = <<>> /\ c.total_count = 0 /\ c.truncated = FALSE
    BY <2>1 DEF composed_rows
  <2>. QED BY <1>3, <1>4, <1>6, <1>7, <2>2 DEF left, right, JoinOutcome
<1>8. CASE ~none
  <2>1. c = composed_rows("joined", rows, reason, Len(pairs), Len(pairs) > Len(rows)) /\ ~clash
    BY <1>1, <1>2, <1>6, <1>8
  <2>2. /\ c.mode = "joined" /\ c.sections = <<>> /\ c.rows = rows
        /\ c.total_count = Len(pairs) /\ c.truncated = (Len(pairs) > Len(rows))
    <3>. DEFINE more == Len(pairs) > Len(rows)
                total == Len(pairs)
    <3>1. c = composed_rows("joined", rows, reason, total, more)
      BY <2>1
    <3>. HIDE DEF more, total
    <3>2. /\ c.mode = "joined" /\ c.sections = <<>> /\ c.rows = rows
          /\ c.total_count = total /\ c.truncated = more
      BY <3>1 DEF composed_rows
    <3>. QED BY <3>2 DEF more, total
  <2>3. /\ \A k \in DOMAIN pairs : ~conflicting(pairs[k][1], pairs[k][2], keys)
        /\ c.truncated = (Len(pairs) > Len(c.rows))
    BY <1>5, <2>1, <2>2
  <2>. QED BY <1>3, <1>4, <1>6, <2>2, <2>3 DEF left, right, pairs, rows, JoinOutcome
<1>. QED BY <1>7, <1>8

LEMMA SameKey ==
  ASSUME NEW left, NEW right, NEW keys,
         row_key(left, keys) # NoKey, row_key(right, keys) # NoKey
  PROVE  row_key(left, keys) = row_key(right, keys) <=> \A a \in keys : left[a] = right[a]
<1>1. row_key(left, keys) = [a \in keys |-> left[a]]
  BY DEF row_key
<1>2. row_key(right, keys) = [a \in keys |-> right[a]]
  BY DEF row_key
<1>. QED BY <1>1, <1>2

\* The rows that agree on the keys.
Partners(left, right, keys) ==
  {p \in (DOMAIN left) \X (DOMAIN right) : \A a \in keys : left[p[1]][a] = right[p[2]][a]}

LEMMA PartnersMeet ==
  ASSUME NEW left, NEW right, NEW keys,
         \A k \in DOMAIN left : row_key(left[k], keys) # NoKey,
         \A j \in DOMAIN right : \E k \in DOMAIN left :
           row_key(left[k], keys) = row_key(right[j], keys)
  PROVE  Partners(left, right, keys) = Met(left, right, keys)
<1>1. \A j \in DOMAIN right : row_key(right[j], keys) # NoKey
  OBVIOUS
<1>2. ASSUME NEW p \in (DOMAIN left) \X (DOMAIN right)
      PROVE  row_key(left[p[1]], keys) = row_key(right[p[2]], keys)
               <=> \A a \in keys : left[p[1]][a] = right[p[2]][a]
  <2>1. p[1] \in DOMAIN left /\ p[2] \in DOMAIN right
    OBVIOUS
  <2>. QED BY <1>1, <2>1, SameKey
<1>. QED BY <1>2 DEF Partners, Met

\* A join is complete, and its rows are merged from pairs.
JoinedRight(left, right, keys, c) ==
  LET partners == Partners(left, right, keys)
      both(p) == merge_rows(left[p[1]], right[p[2]])
  IN  /\ c.total_count = Cardinality(partners)
      /\ \A j \in DOMAIN right : \E p \in partners : p[2] = j
      /\ \A p \in partners : \A f \in (DOMAIN left[p[1]]) \cap (DOMAIN right[p[2]]) :
           left[p[1]][f] = right[p[2]][f]
      /\ \A k \in DOMAIN c.rows : \E p \in partners : c.rows[k] = both(p)
      /\ c.truncated \/ \A p \in partners : \E k \in DOMAIN c.rows : c.rows[k] = both(p)
      /\ c.rows \in Seq(Range(c.rows))
      /\ ~c.truncated => c.total_count = Len(c.rows)

LEMMA JoinIsRight ==
  ASSUME NEW sources, NEW keys, NEW c, c = compose_joined(sources, keys), ~c.error,
         sources[1].rows \in Seq(Range(sources[1].rows)),
         sources[2].rows \in Seq(Range(sources[2].rows))
  PROVE  JoinedRight(sources[1].rows, sources[2].rows, keys, c)
<1>. DEFINE left == sources[1].rows
            right == sources[2].rows
            pairs == join_pairs(left, right, keys)
            most == IF Len(pairs) < RowLimit THEN Len(pairs) ELSE RowLimit
            met == Met(left, right, keys)
            n == Cardinality(met)
            both(p) == merge_rows(left[p[1]], right[p[2]])
            rows == [k \in 1 .. most |-> merge_rows(pairs[k][1], pairs[k][2])]
<1>1. /\ \A k \in DOMAIN left : row_key(left[k], keys) # NoKey
      /\ \A j \in DOMAIN right : \E k \in DOMAIN left :
           row_key(left[k], keys) = row_key(right[j], keys)
      /\ \/ /\ left = <<>> \/ right = <<>>
            /\ c.rows = <<>> /\ c.total_count = 0 /\ ~c.truncated
         \/ /\ \A k \in DOMAIN pairs : ~conflicting(pairs[k][1], pairs[k][2], keys)
            /\ c.rows = rows
            /\ c.total_count = Len(pairs) /\ c.truncated = (Len(pairs) > Len(c.rows))
  <2>1. JoinOutcome(sources, keys, c)
    BY JoinOutcomes
  <2>. QED BY <2>1, Zenon DEF JoinOutcome
<1>2. left \in Seq(Range(left)) /\ right \in Seq(Range(right))
  OBVIOUS
<1>. HIDE DEF left, right
<1>3. Partners(left, right, keys) = met
  BY <1>1, PartnersMeet
<1>4. IsFiniteSet(met) /\ n \in Nat
  BY <1>2, MetFinite
<1>5. /\ DOMAIN pairs = 1 .. n /\ Len(pairs) = n
      /\ \A k \in DOMAIN pairs : \E p \in met : pairs[k] = Pair(left, right, p)
      /\ \A p \in met : \E k \in DOMAIN pairs : pairs[k] = Pair(left, right, p)
  BY <1>2, PairsAre
<1>6. \A j \in DOMAIN right : \E p \in met : p[2] = j
  <2>. SUFFICES ASSUME NEW j \in DOMAIN right PROVE \E p \in met : p[2] = j
    OBVIOUS
  <2>1. PICK k \in DOMAIN left : row_key(left[k], keys) = row_key(right[j], keys)
    BY <1>1
  <2>2. <<k, j>> \in met /\ <<k, j>>[2] = j
    BY <2>1 DEF Met
  <2>. HIDE DEF met
  <2>. QED BY <2>2
<1>7. \A p \in met : p[1] \in DOMAIN left /\ p[2] \in DOMAIN right
                     /\ \A a \in keys : left[p[1]][a] = right[p[2]][a]
  BY <1>3 DEF Partners
<1>. SUFFICES JoinedRight(left, right, keys, c)
  BY DEF left, right
<1>8. CASE /\ left = <<>> \/ right = <<>>
           /\ c.rows = <<>> /\ c.total_count = 0 /\ ~c.truncated
  <2>1. met = {}
    <3>1. DOMAIN <<>> = {}
      OBVIOUS
    <3>. QED BY <1>7, <1>8, <3>1
  <2>2. Cardinality(met) = 0
    BY <2>1, FS_EmptySet
  <2>3. c.rows \in Seq(Range(c.rows)) /\ Len(c.rows) = 0 /\ DOMAIN c.rows = {}
    BY <1>8
  <2>. HIDE DEF met
  <2>. QED BY <1>3, <1>6, <1>8, <2>1, <2>2, <2>3 DEF JoinedRight
<1>9. CASE /\ \A k \in DOMAIN pairs : ~conflicting(pairs[k][1], pairs[k][2], keys)
           /\ c.rows = rows
           /\ c.total_count = Len(pairs) /\ c.truncated = (Len(pairs) > Len(c.rows))
  <2>. HIDE DEF met, pairs
  <2>1. most \in Nat /\ most <= n /\ (most < n \/ most = n)
    BY <1>4, <1>5, RowLimitAssumption
  <2>. HIDE DEF most
  <2>2. DOMAIN c.rows = 1 .. most /\ Len(c.rows) = most
    BY <1>9, <2>1
  <2>3. c.rows \in Seq(Range(c.rows))
    <3>1. c.rows \in [1 .. most -> Range(c.rows)]
      BY <1>9 DEF Range
    <3>. QED BY <2>1, <3>1
  <2>4. \A k \in 1 .. most : c.rows[k] = merge_rows(pairs[k][1], pairs[k][2]) /\ k \in DOMAIN pairs
    BY <1>4, <1>5, <1>9, <2>1
  <2>5. \A p : Pair(left, right, p)[1] = left[p[1]] /\ Pair(left, right, p)[2] = right[p[2]]
    BY DEF Pair
  <2>. HIDE DEF rows
  <2>6. \A k \in DOMAIN c.rows : \E p \in met : c.rows[k] = both(p)
    BY <1>5, <2>2, <2>4, <2>5, SMTT(30)
  <2>7. ~c.truncated => most = n
    BY <1>4, <1>5, <1>9, <2>1, <2>2
  <2>8. ~c.truncated => \A p \in met : \E k \in DOMAIN c.rows : c.rows[k] = both(p)
    <3>. SUFFICES ASSUME ~c.truncated, NEW p \in met
                  PROVE  \E k \in DOMAIN c.rows : c.rows[k] = both(p)
      OBVIOUS
    <3>1. PICK k \in DOMAIN pairs : pairs[k] = Pair(left, right, p)
      BY <1>5
    <3>2. k \in 1 .. most
      BY <1>5, <2>7, <3>1
    <3>3. c.rows[k] = both(p)
      BY <2>4, <2>5, <3>1, <3>2
    <3>. QED BY <2>2, <3>2, <3>3
  <2>9. ASSUME NEW p \in met, NEW f \in (DOMAIN left[p[1]]) \cap (DOMAIN right[p[2]])
        PROVE  left[p[1]][f] = right[p[2]][f]
    <3>1. CASE f \in keys
      BY <1>7, <3>1
    <3>2. CASE f \notin keys
      <4>1. PICK k \in DOMAIN pairs : pairs[k] = Pair(left, right, p)
        BY <1>5
      <4>2. ~conflicting(left[p[1]], right[p[2]], keys)
        BY <1>9, <2>5, <4>1
      <4>. QED BY <2>9, <3>2, <4>2 DEF conflicting
    <3>. QED BY <3>1, <3>2
  <2>10. c.total_count = n /\ (~c.truncated => c.total_count = Len(c.rows))
    BY <1>5, <1>9, <2>2, <2>7
  <2>. QED BY <1>3, <1>6, <2>3, <2>6, <2>8, <2>9, <2>10 DEF JoinedRight
<1>. QED BY <1>1, <1>8, <1>9

-----------------------------------------------------------------------------
(***************************************************************************)
(* The shortages are a list.                                               *)
(***************************************************************************)
LEMMA ImageFinite ==
  ASSUME NEW n \in Nat, NEW X, NEW f \in [1 .. n -> X], NEW T, T \subseteq {f[k] : k \in 1 .. n}
  PROVE  IsFiniteSet(T)
<1>1. IsFiniteSet(1 .. n)
  BY FS_Interval
<1>2. IsFiniteSet({f[k] : k \in 1 .. n})
  <2>. DEFINE image == {f[k] : k \in 1 .. n}
  <2>1. f \in Surjection(1 .. n, image)
    BY DEF Surjection
  <2>. HIDE DEF image
  <2>2. IsFiniteSet(image)
    BY <1>1, <2>1, FS_Surjection
  <2>. QED BY <2>2 DEF image
<1>. QED BY <1>2, FS_Subset

LEMMA ListedInOrder ==
  ASSUME NEW S, IsFiniteSet(S), NEW R
  PROVE  InOrder(S, R) \in Seq(Range(InOrder(S, R)))
<1>. DEFINE list == InOrder(S, R)
<1>1. Cardinality(S) \in Nat
  BY FS_CardinalityType
<1>2. list \in [1 .. Cardinality(S) -> Range(list)]
  BY DEF InOrder, Range
<1>. QED BY <1>1, <1>2

LEMMA ShortagesListed ==
  ASSUME NEW graph, NEW A, NEW sql \in Seq(A), NEW qty, NEW final,
         final = calculate_bom_shortages(graph, sql, qty)
  PROVE  final.rows \in Seq(Range(final.rows))
<1>. DEFINE read == read_graph(graph, qty)
            stock(c) == CHOOSE r \in ToSet(sql) : r.component = c
            required(c) == Total(read.components[c].paths)
            short == {c \in DOMAIN read.components :
                        ~stock(c).makeFlag /\ required(c) > stock(c).actualStock}
            row(c) == [component |-> c, cname |-> read.components[c].cname,
                       requiredQty |-> normalized(required(c)),
                       actualStock |-> normalized(stock(c).actualStock),
                       shortageQty |-> normalized(required(c) - stock(c).actualStock),
                       suppliers |-> read.components[c].suppliers]
            rows == {row(c) : c \in short}
            before == {p \in rows \X rows :
                         \/ p[1].shortageQty > p[2].shortageQty
                         \/ /\ p[1].shortageQty = p[2].shortageQty
                            /\ p[1].component < p[2].component}
            ok == /\ read.ok /\ Cardinality(read.finished) <= 1
                  /\ sql_rows_valid(sql, DOMAIN read.components)
<1>1. final = IF ok THEN [ok |-> TRUE, rows |-> InOrder(rows, before)]
              ELSE [ok |-> FALSE, rows |-> <<>>]
  BY Zenon DEF calculate_bom_shortages
<1>. HIDE DEF read, before
<1>2. CASE ok
  <2>1. DOMAIN read.components = {sql[k].component : k \in DOMAIN sql}
    BY <1>2 DEF sql_rows_valid
  <2>. DEFINE n == Len(sql)
              f == [k \in 1 .. n |-> row(sql[k].component)]
  <2>2. n \in Nat /\ DOMAIN sql = 1 .. n
    OBVIOUS
  <2>3. f \in [1 .. n -> {row(sql[k].component) : k \in 1 .. n}]
    <3>. HIDE DEF row, n
    <3>. QED OBVIOUS
  <2>4. rows \subseteq {f[k] : k \in 1 .. n}
    <3>. HIDE DEF row, stock, required
    <3>. QED BY <2>1, <2>2
  <2>. HIDE DEF n, f, rows
  <2>5. IsFiniteSet(rows)
    BY <2>2, <2>3, <2>4, ImageFinite
  <2>6. final.rows = InOrder(rows, before)
    BY <1>1, <1>2
  <2>. QED BY <2>5, <2>6, ListedInOrder
<1>3. CASE ~ok
  <2>1. final.rows = <<>>
    BY <1>1, <1>3
  <2>. QED BY <2>1
<1>. QED BY <1>2, <1>3

LEMMA ShortageWhole ==
  ASSUME NEW sources, NEW qty, NEW c, c = compose_bom_shortage(sources, qty), ~c.error,
         sources[2].rows \in Seq(Range(sources[2].rows))
  PROVE  /\ ~sources[1].truncated /\ ~sources[2].truncated
         /\ c.mode = "joined" /\ c.sections = <<>>
         /\ c.rows \in Seq(Range(c.rows))
         /\ ~c.truncated => c.total_count = Len(c.rows)
<1>. DEFINE final == calculate_bom_shortages(sources[1].rows, sources[2].rows, qty)
            total == Len(final.rows)
            most == IF total < RowLimit THEN total ELSE RowLimit
            stored == SubSeq(final.rows, 1, most)
            reason == IF total = 0 THEN "NO_DATA" ELSE "none"
            cut == \E i \in 1 .. 2 : sources[i].truncated
            none == \A i \in 1 .. 2 : sources[i].rows = <<>>
            more == Len(stored) < total
<1>1. c = IF cut THEN composition_failure("joined", TRUE)
          ELSE IF none THEN composed_rows("joined", <<>>, overall_empty_reason(sources), 0, FALSE)
          ELSE IF ~final.ok THEN composition_failure("joined", FALSE)
          ELSE composed_rows("joined", stored, reason, total, more)
  BY Zenon DEF compose_bom_shortage
<1>2. composition_failure("joined", TRUE).error /\ composition_failure("joined", FALSE).error
  BY DEF composition_failure
<1>3. ~cut => ~sources[1].truncated /\ ~sources[2].truncated
  OBVIOUS
<1>4. final.rows \in Seq(Range(final.rows))
  BY ShortagesListed
<1>. HIDE DEF final
<1>5. /\ total \in Nat /\ most \in Nat /\ most <= total
      /\ stored \in Seq(Range(final.rows)) /\ Len(stored) = most
  BY <1>4, RowLimitAssumption, Prefix
<1>6. stored \in Seq(Range(stored))
  <2>. HIDE DEF stored
  <2>1. stored \in [1 .. Len(stored) -> Range(stored)]
    BY <1>5 DEF Range
  <2>. QED BY <1>5, <2>1
<1>. HIDE DEF total, most, stored, reason, cut, none
<1>7. ~more => Len(stored) = total
  BY <1>5
<1>. HIDE DEF more
<1>8. ~cut
  BY <1>1, <1>2
<1>9. CASE none
  <2>1. c = composed_rows("joined", <<>>, overall_empty_reason(sources), 0, FALSE)
    BY <1>1, <1>8, <1>9
  <2>2. c.mode = "joined" /\ c.sections = <<>> /\ c.rows = <<>> /\ c.total_count = 0
    BY <2>1 DEF composed_rows
  <2>3. <<>> \in Seq(Range(<<>>)) /\ Len(<<>>) = 0
    OBVIOUS
  <2>. QED BY <1>3, <1>8, <2>2, <2>3
<1>10. CASE ~none
  <2>1. c = composed_rows("joined", stored, reason, total, more)
    BY <1>1, <1>2, <1>8, <1>10
  <2>2. /\ c.mode = "joined" /\ c.sections = <<>> /\ c.rows = stored
        /\ c.total_count = total /\ c.truncated = more
    BY <2>1 DEF composed_rows
  <2>. QED BY <1>3, <1>6, <1>7, <1>8, <2>2
<1>. QED BY <1>9, <1>10

-----------------------------------------------------------------------------
(***************************************************************************)
(* What every result without an error holds.                               *)
(***************************************************************************)
SoundList(i, c) ==
  /\ c.mode # "separate" /\ c.sections = <<>>
  /\ c.rows \in Seq(Range(c.rows))
  /\ ~c.truncated => c.total_count = Len(c.rows)
  /\ i.plan.qty = 0 => \A row \in Range(c.rows) : RowVouched(i, row)

SoundSections(i, c) ==
  /\ c.mode = "separate" /\ c.sections # <<>> /\ TwoSections(c.sections)
  /\ \A s \in 1 .. 2 : Range(c.sections[s].rows) \subseteq SourceRows(i)
  /\ c.total_count = RowsIn(c.sections)

Complete(i, c) == ~c.truncated => \A k \in DOMAIN i.sources : ~i.sources[k].truncated

LEMMA SingleSound ==
  ASSUME NEW i \in Inputs, i.plan.ids # <<>>, Len(i.plan.ids) = 1,
         NEW c, c = compose_single(i.sources[1])
  PROVE  SoundList(i, c) /\ Complete(i, c)
<1>1. /\ DOMAIN i.sources = 1 .. 1 /\ 1 \in 1 .. 1
      /\ i.sources[1].rows \in Seq(Range(i.sources[1].rows))
      /\ Range(i.sources[1].rows) \subseteq SourceRows(i)
  BY SourcesAre DEF SourceRows
<1>. DEFINE s == i.sources[1]
<1>2. /\ c.mode = "single" /\ c.sections = <<>> /\ c.rows = s.rows
      /\ c.total_count = Len(s.rows) /\ c.truncated = s.truncated
  BY DEF compose_single, composed_rows
<1>3. \A row \in Range(s.rows) : RowVouched(i, row)
  BY <1>1, SourceVouched
<1>4. Complete(i, c)
  <2>1. \A k \in 1 .. 1 : k = 1
    OBVIOUS
  <2>. QED BY <1>1, <1>2, <2>1 DEF Complete
<1>5. "single" # "separate"
  OBVIOUS
<1>. QED BY <1>1, <1>2, <1>3, <1>4, <1>5 DEF SoundList

LEMMA SeparateSound ==
  ASSUME NEW i \in Inputs, i.plan.ids # <<>>, Len(i.plan.ids) = 2,
         NEW c, c = compose_separate(i.plan, i.sources)
  PROVE  SoundSections(i, c) /\ Complete(i, c)
<1>. DEFINE sources == i.sources
            sections == [k \in DOMAIN sources |-> [id |-> i.plan.ids[k], rows |-> sources[k].rows,
                                                   empty_reason |-> sources[k].empty_reason]]
            cut == \E k \in DOMAIN sources : sources[k].truncated
<1>1. /\ DOMAIN sources = 1 .. 2 /\ Len(sources) = 2
      /\ \A k \in DOMAIN sources :
           /\ sources[k].rows \in Seq(Range(sources[k].rows))
           /\ \A row \in Range(sources[k].rows) : RowChars(row) \in Nat
  BY SourcesAre
<1>2. /\ c.mode = "separate" /\ c.sections = sections
      /\ c.total_count = RowsIn(sources) /\ c.truncated = cut
  BY DEF compose_separate
<1>3. /\ DOMAIN sections = 1 .. 2 /\ Len(sections) = 2
      /\ \A s \in 1 .. 2 : sections[s].rows = sources[s].rows
  <2>1. DOMAIN sections = 1 .. 2 /\ \A s \in 1 .. 2 : sections[s].rows = sources[s].rows
    BY <1>1
  <2>2. sections \in Seq(Range(sections))
    <3>1. sections \in [1 .. 2 -> Range(sections)]
      <4>1. sections = [k \in 1 .. 2 |-> sections[k]]
        BY <1>1
      <4>. HIDE DEF sections
      <4>. QED BY <2>1, <4>1 DEF Range
    <3>. HIDE DEF sections
    <3>. QED BY <3>1, Listed
  <2>. HIDE DEF sections
  <2>. QED BY <2>1, <2>2
<1>. HIDE DEF sections, sources
<1>4. TwoSections(sections)
  BY <1>1, <1>3 DEF TwoSections
<1>5. sections # <<>>
  BY <1>3
<1>6. RowsIn(sources) = RowsIn(sections)
  <2>1. 1 \in 1 .. 2 /\ 2 \in 1 .. 2
    OBVIOUS
  <2>2. /\ Len(sections[1].rows) \in Nat /\ Len(sections[2].rows) \in Nat
        /\ RowsIn(sections) = Len(sections[1].rows) + Len(sections[2].rows)
    BY <1>4, LensOfTwo
  <2>3. sections[1].rows = sources[1].rows /\ sections[2].rows = sources[2].rows
    BY <1>3, <2>1
  <2>4. RowsIn(sources) = Len(sources[1].rows) + Len(sources[2].rows)
    BY <1>1, <2>2, <2>3, RowsOfTwo
  <2>. QED BY <2>2, <2>3, <2>4
<1>7. \A s \in 1 .. 2 : Range(sections[s].rows) \subseteq SourceRows(i)
  BY <1>1, <1>3 DEF SourceRows, sources
<1>8. Complete(i, c)
  BY <1>2 DEF Complete, sources
<1>. QED BY <1>2, <1>4, <1>5, <1>6, <1>7, <1>8 DEF SoundSections

LEMMA TwoComplete ==
  ASSUME NEW i \in Inputs, i.plan.ids # <<>>, Len(i.plan.ids) = 2, NEW c,
         ~i.sources[1].truncated, ~i.sources[2].truncated
  PROVE  Complete(i, c)
<1>1. DOMAIN i.sources = 1 .. 2
  BY SourcesAre
<1>2. \A k \in 1 .. 2 : k = 1 \/ k = 2
  OBVIOUS
<1>. QED BY <1>1, <1>2 DEF Complete

LEMMA JoinedSound ==
  ASSUME NEW i \in Inputs, i.plan.ids # <<>>, Len(i.plan.ids) = 2,
         NEW c, c = compose_joined(i.sources, i.plan.joinKeys), ~c.error
  PROVE  SoundList(i, c) /\ Complete(i, c)
<1>. DEFINE left == i.sources[1].rows
            right == i.sources[2].rows
            keys == i.plan.joinKeys
<1>1. /\ 1 \in DOMAIN i.sources /\ 2 \in DOMAIN i.sources
      /\ left \in Seq(Range(left)) /\ right \in Seq(Range(right))
  <2>1. 1 \in 1 .. 2 /\ 2 \in 1 .. 2
    OBVIOUS
  <2>. QED BY <2>1, SourcesAre
<1>2. JoinedRight(left, right, keys, c)
  BY <1>1, JoinIsRight
<1>3. JoinOutcome(i.sources, keys, c)
  BY JoinOutcomes
<1>4. /\ ~i.sources[1].truncated /\ ~i.sources[2].truncated
      /\ c.mode = "joined" /\ c.sections = <<>>
  BY <1>3, Zenon DEF JoinOutcome
<1>5. Range(left) \subseteq SourceRows(i) /\ Range(right) \subseteq SourceRows(i)
  BY <1>1 DEF SourceRows
<1>. HIDE DEF left, right, keys
<1>6. ASSUME NEW row \in Range(c.rows) PROVE RowVouched(i, row)
  <2>1. PICK k \in DOMAIN c.rows : row = c.rows[k]
    BY <1>6 DEF Range
  <2>2. PICK p \in Partners(left, right, keys) : c.rows[k] = merge_rows(left[p[1]], right[p[2]])
    BY <1>2, <2>1 DEF JoinedRight
  <2>3. p[1] \in DOMAIN left /\ p[2] \in DOMAIN right
    BY DEF Partners
  <2>4. left[p[1]] \in SourceRows(i) /\ right[p[2]] \in SourceRows(i)
    BY <1>5, <2>3 DEF Range
  <2>. QED BY <2>1, <2>2, <2>4, SourceVouched, MergeVouched
<1>7. "joined" # "separate"
  OBVIOUS
<1>8. c.rows \in Seq(Range(c.rows)) /\ (~c.truncated => c.total_count = Len(c.rows))
  BY <1>2 DEF JoinedRight
<1>. QED BY <1>4, <1>6, <1>7, <1>8, TwoComplete DEF SoundList

LEMMA ResultSound ==
  ASSUME NEW i \in Inputs, i.plan.ids # <<>>,
         NEW c, c = compose_results(i.plan, i.sources), ~c.error
  PROVE  (SoundList(i, c) \/ SoundSections(i, c)) /\ Complete(i, c)
<1>1. CASE Len(i.plan.ids) = 1 /\ c = compose_single(i.sources[1])
  BY <1>1, SingleSound
<1>2. CASE Len(i.plan.ids) = 2 /\ c = compose_separate(i.plan, i.sources)
  BY <1>2, SeparateSound
<1>3. CASE Len(i.plan.ids) = 2 /\ c = compose_joined(i.sources, i.plan.joinKeys)
  BY <1>3, JoinedSound
<1>4. CASE i.plan.qty # 0 /\ Len(i.plan.ids) = 2 /\ c = compose_bom_shortage(i.sources, i.plan.qty)
  <2>1. 2 \in 1 .. 2 /\ "joined" # "separate"
    OBVIOUS
  <2>2. i.sources[2].rows \in Seq(Range(i.sources[2].rows))
    BY <1>4, <2>1, SourcesAre
  <2>3. /\ ~i.sources[1].truncated /\ ~i.sources[2].truncated
        /\ c.mode = "joined" /\ c.sections = <<>>
        /\ c.rows \in Seq(Range(c.rows))
        /\ ~c.truncated => c.total_count = Len(c.rows)
    BY <1>4, <2>2, ShortageWhole
  <2>. QED BY <1>4, <2>1, <2>3, TwoComplete DEF SoundList
<1>5. composition_failure(composition_mode(i.plan), FALSE).error
  BY FailureIs
<1>6. c # composition_failure(composition_mode(i.plan), FALSE)
  BY <1>5, Zenon
<1>7. Shaped(i, c)
  BY <1>6, Shapes
<1>. QED BY <1>1, <1>2, <1>3, <1>4, <1>7 DEF Shaped

-----------------------------------------------------------------------------
(***************************************************************************)
(* The context of an answer, for a result without an error.                *)
(***************************************************************************)
\* row_pool and caveat_template for a given result, and the fallback's caveat.
PoolOf(c) ==
  IF c.sections # <<>>
    THEN Pooled(c.sections, [s \in DOMAIN c.sections |-> Len(c.sections[s].rows)])
    ELSE c.rows

CaveatOf(c) ==
  IF ~build_answer_context(c).source_truncated /\ ~build_answer_context(c).prompt_truncated
    THEN "none"
  ELSE IF ~build_answer_context(c).total_count_is_exact
    THEN "partial, count inexact" ELSE "partial"

FallbackCaveat(c) ==
  IF c.truncated \/ Len(PoolOf(c)) > ShownRows THEN "partial" ELSE "none"

LEMMA ContextIs ==
  /\ row_pool = PoolOf(composed)
  /\ caveat_template = CaveatOf(composed)
  /\ context = build_answer_context(composed)
BY DEF row_pool, PoolOf, caveat_template, CaveatOf, context

LEMMA ContextOfList ==
  ASSUME NEW i, NEW c, SoundList(i, c)
  PROVE  /\ build_answer_context(c).rows \in Seq(Range(c.rows))
         /\ Len(build_answer_context(c).rows) <= Len(c.rows)
         /\ build_answer_context(c).prompt_truncated =
              (Len(build_answer_context(c).rows) < Len(c.rows))
         /\ build_answer_context(c).source_truncated = c.truncated
         /\ PoolOf(c) = c.rows
<1>. DEFINE k == build_answer_context(c)
            shown == truncate_result_for_answer(c.rows)
<1>1. /\ k.rows = shown /\ k.prompt_truncated = (Len(shown) < Len(c.rows))
      /\ k.source_truncated = c.truncated
  BY Zenon DEF build_answer_context, SoundList
<1>2. shown \in Seq(Range(c.rows)) /\ Len(shown) <= Len(c.rows)
  BY PrefixShown DEF SoundList
<1>3. PoolOf(c) = c.rows
  BY DEF PoolOf, SoundList
<1>. HIDE DEF k, shown
<1>4. /\ k.rows \in Seq(Range(c.rows)) /\ Len(k.rows) <= Len(c.rows)
      /\ k.prompt_truncated = (Len(k.rows) < Len(c.rows))
  BY <1>1, <1>2
<1>. QED BY <1>1, <1>3, <1>4 DEF k

LEMMA ContextOfSections ==
  ASSUME NEW i, NEW c, SoundSections(i, c)
  PROVE  /\ build_answer_context(c).rows \in Seq(SourceRows(i))
         /\ RowsIn(c.sections) \in Nat
         /\ Len(build_answer_context(c).rows) \in Nat
         /\ Len(build_answer_context(c).rows) <= RowsIn(c.sections)
         /\ build_answer_context(c).prompt_truncated =
              (Len(build_answer_context(c).rows) < RowsIn(c.sections))
         /\ build_answer_context(c).source_truncated = c.truncated
         /\ Len(PoolOf(c)) = RowsIn(c.sections)
<1>. DEFINE k == build_answer_context(c)
            sections == c.sections
            taken == truncate_sections(sections).taken
            shown == Pooled(sections, taken)
            all == [s \in DOMAIN sections |-> Len(sections[s].rows)]
            a == Len(sections[1].rows)
            b == Len(sections[2].rows)
<1>0. 1 \in 1 .. 2 /\ 2 \in 1 .. 2 /\ \A s \in 1 .. 2 : s = 1 \/ s = 2
  OBVIOUS
<1>1. /\ k.rows = shown /\ k.prompt_truncated = (Len(shown) < RowsIn(sections))
      /\ k.source_truncated = c.truncated
  BY Zenon DEF build_answer_context, SoundSections
<1>2. /\ TwoSections(sections) /\ Len(sections) = 2 /\ DOMAIN sections = 1 .. 2
      /\ a \in Nat /\ b \in Nat /\ RowsIn(sections) = a + b
  BY LensOfTwo DEF SoundSections, TwoSections
<1>3. \A s \in 1 .. 2 : taken[s] \in Nat /\ taken[s] <= Len(sections[s].rows)
  BY <1>2, ShareOfTwo
<1>4. PoolOf(c) = Pooled(sections, all)
  BY DEF PoolOf, SoundSections
<1>5. \A s \in 1 .. 2 : sections[s].rows \in Seq(SourceRows(i))
  <2>. SUFFICES ASSUME NEW s \in 1 .. 2 PROVE sections[s].rows \in Seq(SourceRows(i))
    OBVIOUS
  <2>1. /\ sections[s].rows \in Seq(Range(sections[s].rows))
        /\ Range(sections[s].rows) \subseteq SourceRows(i)
    BY DEF SoundSections, TwoSections
  <2>. QED BY <2>1
<1>. HIDE DEF sections, k
<1>6. all[1] = a /\ all[2] = b
  BY <1>0, <1>2
<1>. HIDE DEF taken, all
<1>7. shown \in Seq(SourceRows(i)) /\ Len(shown) = taken[1] + taken[2]
  BY <1>2, <1>3, <1>5, PoolOfTwo
<1>8. Len(Pooled(sections, all)) = all[1] + all[2]
  <2>1. \A s \in 1 .. 2 : all[s] \in Nat /\ all[s] <= Len(sections[s].rows)
    BY <1>0, <1>2, <1>6
  <2>. QED BY <1>2, <1>5, <2>1, PoolOfTwo
<1>9. taken[1] \in Nat /\ taken[2] \in Nat /\ taken[1] <= a /\ taken[2] <= b
  BY <1>0, <1>3
<1>. HIDE DEF shown, a, b
<1>10. Len(shown) \in Nat /\ Len(shown) <= RowsIn(sections) /\ RowsIn(sections) \in Nat
  BY <1>2, <1>7, <1>9
<1>11. Len(PoolOf(c)) = RowsIn(sections)
  BY <1>2, <1>4, <1>6, <1>8
<1>12. /\ k.rows \in Seq(SourceRows(i)) /\ Len(k.rows) \in Nat /\ Len(k.rows) <= RowsIn(sections)
       /\ k.prompt_truncated = (Len(k.rows) < RowsIn(sections))
  BY <1>1, <1>7, <1>10
<1>. QED BY <1>1, <1>10, <1>11, <1>12 DEF k, sections

LEMMA ContextVouched ==
  ASSUME NEW i, NEW c, SoundList(i, c) \/ SoundSections(i, c), i.plan.qty = 0
  PROVE  Values(build_answer_context(c).rows) \subseteq Read(i)
<1>. DEFINE rows == build_answer_context(c).rows
<1>1. CASE SoundList(i, c)
  <2>1. rows \in Seq(Range(c.rows)) /\ \A row \in Range(c.rows) : RowVouched(i, row)
    BY <1>1, ContextOfList DEF SoundList
  <2>. HIDE DEF rows
  <2>2. Values(rows) \subseteq Read(i)
    BY <2>1, ValuesVouched
  <2>. QED BY <2>2 DEF rows
<1>2. CASE SoundSections(i, c)
  <2>1. rows \in Seq(SourceRows(i)) /\ \A row \in SourceRows(i) : RowVouched(i, row)
    BY <1>2, ContextOfSections, SourceVouched
  <2>. HIDE DEF rows
  <2>2. Values(rows) \subseteq Read(i)
    BY <2>1, ValuesVouched
  <2>. QED BY <2>2 DEF rows
<1>. QED BY <1>1, <1>2

\* A caveat is left out only if the answer covers every row.
LEMMA CaveatsTold ==
  ASSUME NEW i, NEW c, SoundList(i, c) \/ SoundSections(i, c)
  PROVE  /\ CaveatOf(c) = "none" =>
              ~c.truncated /\ c.total_count = Len(build_answer_context(c).rows)
         /\ FallbackCaveat(c) = "none" =>
              /\ ~c.truncated /\ c.total_count = Len(PoolOf(c))
              /\ c.total_count <= ShownRows
<1>. DEFINE k == build_answer_context(c)
<1>1. CaveatOf(c) = "none" => ~k.source_truncated /\ ~k.prompt_truncated
  BY DEF CaveatOf
<1>2. FallbackCaveat(c) = "none" => ~c.truncated /\ ~(Len(PoolOf(c)) > ShownRows)
  BY DEF FallbackCaveat
<1>3. CASE SoundList(i, c)
  <2>1. /\ k.rows \in Seq(Range(c.rows)) /\ Len(k.rows) <= Len(c.rows)
        /\ k.prompt_truncated = (Len(k.rows) < Len(c.rows))
        /\ k.source_truncated = c.truncated /\ PoolOf(c) = c.rows
    BY <1>3, ContextOfList
  <2>2. c.rows \in Seq(Range(c.rows)) /\ (~c.truncated => c.total_count = Len(c.rows))
    BY <1>3 DEF SoundList
  <2>. HIDE DEF k
  <2>3. Len(k.rows) \in Nat /\ Len(c.rows) \in Nat /\ ShownRows \in Nat
    BY <2>1, <2>2, InputsAssumption
  <2>4. /\ CaveatOf(c) = "none" => ~c.truncated /\ c.total_count = Len(k.rows)
        /\ FallbackCaveat(c) = "none" => c.total_count <= ShownRows /\ c.total_count = Len(PoolOf(c))
    <3>1. /\ ~k.prompt_truncated => ~(Len(k.rows) < Len(c.rows))
          /\ ~k.source_truncated => ~c.truncated
      BY <2>1, Zenon
    <3>. QED BY <1>1, <1>2, <2>1, <2>2, <2>3, <3>1
  <2>. QED BY <1>2, <2>4 DEF k
<1>4. CASE SoundSections(i, c)
  <2>1. /\ RowsIn(c.sections) \in Nat /\ Len(k.rows) \in Nat /\ Len(k.rows) <= RowsIn(c.sections)
        /\ k.prompt_truncated = (Len(k.rows) < RowsIn(c.sections))
        /\ k.source_truncated = c.truncated /\ Len(PoolOf(c)) = RowsIn(c.sections)
    BY <1>4, ContextOfSections
  <2>2. c.total_count = RowsIn(c.sections) /\ ShownRows \in Nat
    BY <1>4, InputsAssumption DEF SoundSections
  <2>. HIDE DEF k
  <2>4. /\ CaveatOf(c) = "none" => ~c.truncated /\ c.total_count = Len(k.rows)
        /\ FallbackCaveat(c) = "none" => c.total_count <= ShownRows /\ c.total_count = Len(PoolOf(c))
    <3>1. /\ ~k.prompt_truncated => ~(Len(k.rows) < RowsIn(c.sections))
          /\ ~k.source_truncated => ~c.truncated
      BY <2>1, Zenon
    <3>. QED BY <1>1, <1>2, <2>1, <2>2, <3>1
  <2>. QED BY <1>2, <2>4 DEF k
<1>. QED BY <1>3, <1>4

-----------------------------------------------------------------------------
(***************************************************************************)
(* The nodes compose_results and generate_answer.                          *)
(***************************************************************************)
\* The result in the state is the composition of the input's sources.
ComposedRight ==
  \/ composed = NoComposition
  \/ input.plan.ids # <<>> /\ composed = compose_results(input.plan, input.sources)

\* Rows are answered from a result without an error only.
AnsweredFrom ==
  pc = "ask" \/ answer.mode \in {"structured", "fallback"} => ~composed.error

Unanswered == pc # "done" => audit = <<>> /\ answer = NoAnswer

\* What an answer quotes and says of its rows.
AnswerTold ==
  /\ answer.mode = "structured" =>
       /\ answer.values \subseteq Values(build_answer_context(composed).rows) \cup {Null}
       /\ answer.caveat = CaveatOf(composed)
  /\ answer.mode = "fallback" => answer.caveat = FallbackCaveat(composed)

AuditTold ==
  /\ audit \in {<<>>, <<"accepted">>, <<"rejected">>}
  /\ answer.mode = "structured" => audit = <<"accepted">>
  /\ audit = <<"rejected">> => answer.mode = "fallback" /\ answer.validationRejected

AnswerInv ==
  /\ input \in Inputs
  /\ ComposedRight /\ AnsweredFrom /\ Unanswered /\ AnswerTold /\ AuditTold

LEMMA NoneAnswered ==
  NoAnswer.mode = "none" /\ NoAnswer.mode \notin {"structured", "fallback"}
BY DEF NoAnswer

LEMMA AnswerStartsRight == AnswerInit => AnswerInv
<1>. SUFFICES ASSUME AnswerInit PROVE AnswerInv
  OBVIOUS
<1>1. pc # "ask" /\ answer.mode = "none"
  BY NoneAnswered DEF AnswerInit
<1>2. audit # <<"rejected">>
  BY DEF AnswerInit
<1>. QED BY <1>1, <1>2 DEF AnswerInit, AnswerInv, ComposedRight, AnsweredFrom, Unanswered,
                           AnswerTold, AuditTold

LEMMA ComposeKeeps == AnswerInv /\ ComposeResults => AnswerInv'
<1>. SUFFICES ASSUME AnswerInv, ComposeResults PROVE AnswerInv'
  OBVIOUS
<1>1. /\ pc = "compose_results" /\ pc' = "generate_answer" /\ input' = input
      /\ audit' = audit /\ answer' = answer
  BY DEF ComposeResults
<1>2. audit = <<>> /\ answer = NoAnswer
  BY <1>1 DEF AnswerInv, Unanswered
<1>3. ComposedRight'
  BY <1>1 DEF ComposeResults, ComposedRight
<1>4. answer'.mode = "none" /\ pc' # "ask" /\ audit' # <<"rejected">>
  BY <1>1, <1>2, NoneAnswered
<1>. QED BY <1>1, <1>2, <1>3, <1>4
         DEF AnswerInv, AnsweredFrom, Unanswered, AnswerTold, AuditTold

LEMMA TextOfRows ==
  ASSUME input \in Inputs, fixed_text = "rows"
  PROVE  ~composed.error
<1>1. input.failure \in {"none", "user_correctable", "internal", "infrastructure"}
  BY InputsAssumption
<1>2. input.failure = "none"
  BY <1>1 DEF fixed_text
<1>. QED BY <1>2 DEF fixed_text

LEMMA FixedKeeps == AnswerInv /\ FixedAnswer => AnswerInv'
<1>. SUFFICES ASSUME AnswerInv, FixedAnswer PROVE AnswerInv'
  OBVIOUS
<1>. DEFINE mode == IF fixed_text = "raises" THEN "none" ELSE "fixed"
<1>1. /\ pc = "generate_answer" /\ pc' = "done" /\ input' = input /\ composed' = composed
      /\ audit' = audit
      /\ answer' = [NoAnswer EXCEPT !.mode = mode, !.text = fixed_text]
  BY DEF FixedAnswer, Finished
<1>2. audit = <<>>
  BY <1>1 DEF AnswerInv, Unanswered
<1>3. answer'.mode = mode
  BY <1>1 DEF NoAnswer
<1>4. /\ answer'.mode \notin {"structured", "fallback"} /\ pc' # "ask"
      /\ audit' # <<"rejected">>
  BY <1>1, <1>2, <1>3
<1>5. ComposedRight'
  BY <1>1 DEF AnswerInv, ComposedRight
<1>. HIDE DEF mode
<1>. QED BY <1>1, <1>2, <1>4, <1>5 DEF AnswerInv, AnsweredFrom, Unanswered, AnswerTold, AuditTold

\* An answer from rows, structured or fallen back, closes the request rightly.
LEMMA FallbackRight ==
  ASSUME AnswerInv, ~composed.error, NEW n, NEW rejected,
         Finished(fallback_answer(n, rejected)),
         audit' \in {<<>>, <<"accepted">>} \/ (audit' = <<"rejected">> /\ rejected = TRUE)
  PROVE  AnswerInv'
<1>. DEFINE a == fallback_answer(n, rejected)
<1>1. pc' = "done" /\ input' = input /\ composed' = composed /\ answer' = a
  BY DEF Finished
<1>2. a.mode = "fallback" /\ a.caveat = FallbackCaveat(composed) /\ a.validationRejected = rejected
  BY ContextIs DEF fallback_answer, FallbackCaveat
<1>. HIDE DEF a
<1>3. ComposedRight'
  BY <1>1 DEF AnswerInv, ComposedRight
<1>4. answer'.mode # "structured" /\ pc' # "ask"
  BY <1>1, <1>2
<1>5. audit' = <<"rejected">> => answer'.validationRejected
  <2>1. <<"rejected">> # <<>> /\ <<"rejected">> # <<"accepted">>
    OBVIOUS
  <2>. QED BY <1>1, <1>2, <2>1
<1>6. audit' \in {<<>>, <<"accepted">>, <<"rejected">>}
  OBVIOUS
<1>. QED BY <1>1, <1>2, <1>3, <1>4, <1>5, <1>6
         DEF AnswerInv, AnsweredFrom, Unanswered, AnswerTold, AuditTold

LEMMA StartKeeps == AnswerInv /\ AnswerStarts => AnswerInv'
<1>. SUFFICES ASSUME AnswerInv, AnswerStarts PROVE AnswerInv'
  OBVIOUS
<1>1. pc = "generate_answer" /\ audit' = audit /\ ~composed.error
  BY TextOfRows DEF AnswerStarts, AnswerInv
<1>2. audit = <<>> /\ answer = NoAnswer
  BY <1>1 DEF AnswerInv, Unanswered
<1>3. CASE Finished(fallback_answer(0, FALSE))
  BY <1>1, <1>2, <1>3, FallbackRight
<1>4. CASE pc' = "ask" /\ UNCHANGED <<input, composed, answer>>
  <2>1. answer'.mode = "none" /\ audit' # <<"rejected">> /\ ~composed'.error
    BY <1>1, <1>2, <1>4, NoneAnswered
  <2>2. ComposedRight'
    BY <1>4 DEF AnswerInv, ComposedRight
  <2>. QED BY <1>1, <1>2, <1>4, <2>1, <2>2
           DEF AnswerInv, AnsweredFrom, Unanswered, AnswerTold, AuditTold
<1>. QED BY <1>3, <1>4 DEF AnswerStarts

LEMMA AcceptedRight ==
  ASSUME AnswerInv, pc = "ask", NEW r, AnswerAccepted(r)
  PROVE  AnswerInv'
<1>1. audit = <<>> /\ ~composed.error
  BY DEF AnswerInv, Unanswered, AnsweredFrom
<1>2. audit' = <<"accepted">>
  BY <1>1 DEF AnswerAccepted
<1>3. CASE Finished(fallback_answer(attempt + 1, FALSE))
  BY <1>1, <1>2, <1>3, FallbackRight
<1>. DEFINE a == [mode |-> "structured", text |-> "rows",
                  values |-> IF r.sections # {} THEN r.sections ELSE r.highlighted,
                  caveat |-> caveat_template, attemptCount |-> attempt + 1,
                  validationRejected |-> validation_rejected]
<1>4. CASE Finished(a)
  <2>1. pc' = "done" /\ input' = input /\ composed' = composed /\ answer' = a
    BY <1>4 DEF Finished
  <2>2. a.mode = "structured" /\ a.caveat = CaveatOf(composed)
    BY ContextIs
  <2>3. r.highlighted \cup r.sections \subseteq Values(build_answer_context(composed).rows) \cup {Null}
    BY ContextIs DEF AnswerAccepted, valid_reply, grounded
  <2>4. a.values \subseteq Values(build_answer_context(composed).rows) \cup {Null}
    BY <2>3
  <2>. HIDE DEF a
  <2>5. ComposedRight'
    BY <2>1 DEF AnswerInv, ComposedRight
  <2>6. answer'.mode # "fallback" /\ pc' # "ask" /\ audit' # <<"rejected">>
    BY <1>2, <2>1, <2>2
  <2>7. AnswerTold'
    BY <2>1, <2>2, <2>4, <2>6 DEF AnswerTold
  <2>. QED BY <1>1, <1>2, <2>1, <2>5, <2>6, <2>7 DEF AnswerInv, AnsweredFrom, Unanswered, AuditTold
<1>. HIDE DEF a
<1>. QED BY <1>3, <1>4 DEF AnswerAccepted, a

LEMMA AttemptKeeps == AnswerInv /\ AnswerAttempt => AnswerInv'
<1>. SUFFICES ASSUME AnswerInv, AnswerAttempt PROVE AnswerInv'
  OBVIOUS
<1>1. pc = "ask" /\ audit = <<>> /\ answer = NoAnswer /\ ~composed.error
  BY DEF AnswerAttempt, AnswerInv, Unanswered, AnsweredFrom
<1>2. PICK r \in Replies : AnswerFails(r) \/ AnswerAccepted(r) \/ AnswerRejected(r)
  BY DEF AnswerAttempt
<1>3. CASE AnswerFails(r)
  <2>1. Finished(fallback_answer(attempt + 1, FALSE)) /\ audit' = audit
    BY <1>3 DEF AnswerFails
  <2>. QED BY <1>1, <2>1, FallbackRight
<1>4. CASE AnswerAccepted(r)
  BY <1>1, <1>4, AcceptedRight
<1>5. CASE AnswerRejected(r)
  <2>1. CASE UNCHANGED <<input, composed, pc, audit, answer>>
    BY <2>1 DEF AnswerInv, ComposedRight, AnsweredFrom, Unanswered, AnswerTold, AuditTold
  <2>2. CASE audit' = Append(audit, "rejected") /\ Finished(fallback_answer(2, TRUE))
    <3>1. audit' = <<"rejected">>
      BY <1>1, <2>2
    <3>. QED BY <1>1, <2>2, <3>1, FallbackRight
  <2>. QED BY <1>5, <2>1, <2>2 DEF AnswerRejected
<1>. QED BY <1>2, <1>3, <1>4, <1>5

LEMMA AnswerSteps == AnswerSpec => []AnswerInv
<1>1. AnswerInv /\ [AnswerNext]_answerVars => AnswerInv'
  <2>. SUFFICES ASSUME AnswerInv, [AnswerNext]_answerVars PROVE AnswerInv'
    OBVIOUS
  <2>1. CASE UNCHANGED answerVars
    BY <2>1 DEF answerVars, AnswerInv, ComposedRight, AnsweredFrom, Unanswered, AnswerTold, AuditTold
  <2>. QED BY <2>1, ComposeKeeps, FixedKeeps, StartKeeps, AttemptKeeps DEF AnswerNext
<1>. QED BY <1>1, AnswerStartsRight, PTL DEF AnswerSpec

LEMMA NoCompositionIs == NoComposition.error /\ NoComposition.mode = "none"
BY DEF NoComposition, composition_failure

\* A separate result that failed has no sections.
LEMMA FailureEmpty ==
  ASSUME AnswerInv, composed.error, composed.mode = "separate"
  PROVE  composed.sections = <<>>
<1>1. CASE composed = NoComposition
  BY <1>1, FailureIs DEF NoComposition
<1>2. CASE input.plan.ids # <<>> /\ composed = compose_results(input.plan, input.sources)
  <2>1. \/ composed = composition_failure(composition_mode(input.plan), FALSE)
        \/ Shaped(input, composed)
    BY <1>2, Shapes DEF AnswerInv
  <2>2. CASE composed = composition_failure(composition_mode(input.plan), FALSE)
    BY <2>2, FailureIs, ZenonT(30)
  <2>3. CASE Shaped(input, composed)
    <3>1. compose_single(input.sources[1]).mode = "single"
      BY DEF compose_single, composed_rows
    <3>2. ~compose_separate(input.plan, input.sources).error
      BY DEF compose_separate
    <3>3. compose_joined(input.sources, input.plan.joinKeys).mode = "joined"
      BY DEF compose_joined, composed_rows, composition_failure
    <3>4. compose_bom_shortage(input.sources, input.plan.qty).mode = "joined"
      BY DEF compose_bom_shortage, composed_rows, composition_failure
    <3>5. "separate" # "single" /\ "separate" # "joined"
      OBVIOUS
    <3>. QED BY <2>3, <3>1, <3>2, <3>3, <3>4, <3>5 DEF Shaped
  <2>. QED BY <2>1, <2>2, <2>3
<1>. QED BY <1>1, <1>2 DEF AnswerInv, ComposedRight

LEMMA ComposedSound ==
  ASSUME AnswerInv, ~composed.error
  PROVE  /\ input.plan.ids # <<>> /\ composed = compose_results(input.plan, input.sources)
         /\ SoundList(input, composed) \/ SoundSections(input, composed)
         /\ Complete(input, composed)
<1>1. input \in Inputs /\ input.plan.ids # <<>> /\ composed = compose_results(input.plan, input.sources)
  BY NoCompositionIs DEF AnswerInv, ComposedRight
<1>. QED BY <1>1, ResultSound

-----------------------------------------------------------------------------
\* What the model writes reaches the user only if every value in it was read
\* from a database for the request, and the audit log says what became of it:
\* for every plan of one or two subqueries, every result and every reply.
THEOREM AnswersVouched == AnswerSpec => []AnswerVouched
<1>1. AnswerInv => AnswerVouched
  <2>. SUFFICES ASSUME AnswerInv PROVE AnswerVouched
    OBVIOUS
  <2>1. OneAuditLine
    <3>1. Len(<<>>) = 0 /\ Len(<<"accepted">>) = 1 /\ Len(<<"rejected">>) = 1
      OBVIOUS
    <3>2. audit \in {<<>>, <<"accepted">>, <<"rejected">>}
      BY DEF AnswerInv, AuditTold
    <3>3. Len(audit) <= 1
      <4>1. Len(audit) = 0 \/ Len(audit) = 1
        BY <3>1, <3>2
      <4>. DEFINE n == Len(audit)
      <4>2. n = 0 \/ n = 1
        BY <4>1
      <4>. HIDE DEF n
      <4>3. n <= 1
        BY <4>2
      <4>. QED BY <4>3 DEF n
    <3>. QED BY <3>3 DEF AnswerInv, AuditTold, OneAuditLine
  <2>2. AnswerGrounded
    <3>. SUFFICES ASSUME answer.mode = "structured", input.plan.qty = 0
                  PROVE  answer.values \ {Null} \subseteq Read(input)
      BY DEF AnswerGrounded, Read
    <3>1. ~composed.error
      BY DEF AnswerInv, AnsweredFrom
    <3>2. answer.values \subseteq Values(build_answer_context(composed).rows) \cup {Null}
      BY DEF AnswerInv, AnswerTold
    <3>3. Values(build_answer_context(composed).rows) \subseteq Read(input)
      BY <3>1, ComposedSound, ContextVouched
    <3>. QED BY <3>2, <3>3
  <2>. QED BY <2>1, <2>2 DEF AnswerVouched
<1>. QED BY <1>1, AnswerSteps, PTL

\* An answer without a caveat covers every row of every source: nothing was cut
\* off by the database, the join, the prompt or the fallback's table.
THEOREM PartialIsTold == AnswerSpec => []PartialTold
<1>1. AnswerInv => PartialTold
  <2>. SUFFICES ASSUME AnswerInv, answer.mode \in {"structured", "fallback"},
                       answer.caveat = "none"
                PROVE  /\ \A i \in DOMAIN input.sources : ~input.sources[i].truncated
                       /\ composed.total_count = IF answer.mode = "structured"
                                                   THEN Len(context.rows) ELSE Len(row_pool)
                       /\ answer.mode = "fallback" => composed.total_count <= ShownRows
    BY DEF PartialTold
  <2>1. ~composed.error
    BY DEF AnswerInv, AnsweredFrom
  <2>2. /\ SoundList(input, composed) \/ SoundSections(input, composed)
        /\ Complete(input, composed)
    BY <2>1, ComposedSound
  <2>3. /\ answer.mode = "structured" => CaveatOf(composed) = "none"
        /\ answer.mode = "fallback" => FallbackCaveat(composed) = "none"
    BY DEF AnswerInv, AnswerTold
  <2>4. /\ CaveatOf(composed) = "none" =>
             /\ ~composed.truncated
             /\ composed.total_count = Len(build_answer_context(composed).rows)
        /\ FallbackCaveat(composed) = "none" =>
             /\ ~composed.truncated /\ composed.total_count = Len(PoolOf(composed))
             /\ composed.total_count <= ShownRows
    BY <2>2, CaveatsTold
  <2>5. context.rows = build_answer_context(composed).rows /\ row_pool = PoolOf(composed)
    BY ContextIs
  <2>6. ~composed.truncated
    BY <2>3, <2>4
  <2>7. \A i \in DOMAIN input.sources : ~input.sources[i].truncated
    BY <2>2, <2>6 DEF Complete
  <2>8. CASE answer.mode = "structured"
    BY <2>3, <2>4, <2>5, <2>7, <2>8
  <2>9. CASE answer.mode = "fallback"
    BY <2>3, <2>4, <2>5, <2>7, <2>9
  <2>. QED BY <2>8, <2>9
<1>. QED BY <1>1, AnswerSteps, PTL

\* No section of a separate result is starved by the other, for any limits and
\* any lengths of rows.
THEOREM SharesAreFair == AnswerSpec => []SharesFair
<1>1. AnswerInv => SharesFair
  <2>. SUFFICES ASSUME AnswerInv, composed.mode = "separate" PROVE SharesFair
    BY DEF SharesFair
  <2>1. CASE composed.error
    <3>1. composed.sections = <<>>
      BY <2>1, FailureEmpty DEF AnswerInv
    <3>2. DOMAIN <<>> = {}
      OBVIOUS
    <3>. QED BY <3>1, <3>2 DEF SharesFair
  <2>2. CASE ~composed.error
    <3>1. SoundSections(input, composed)
      BY <2>2, ComposedSound DEF SoundList
    <3>2. TwoSections(composed.sections) /\ DOMAIN composed.sections = 1 .. 2
      BY <3>1 DEF SoundSections, TwoSections
    <3>. QED BY <3>2, ShareOfTwo DEF SharesFair
  <2>. QED BY <2>1, <2>2
<1>. QED BY <1>1, AnswerSteps, PTL

\* A join holds every pair of rows with the same key and no other, and drops no
\* row of the second source silently, for rows and keys of any shape.
THEOREM JoinsAreComplete == AnswerSpec => []JoinComplete
<1>1. AnswerInv => JoinComplete
  <2>. SUFFICES ASSUME AnswerInv, composed.mode = "joined", ~composed.error, input.plan.qty = 0
                PROVE  JoinComplete
    BY DEF JoinComplete
  <2>1. input \in Inputs /\ input.plan.ids # <<>> /\ composed = compose_results(input.plan, input.sources)
    BY ComposedSound DEF AnswerInv
  <2>. DEFINE left == input.sources[1].rows
              right == input.sources[2].rows
              keys == input.plan.joinKeys
              partners == Partners(left, right, keys)
              both(p) == merge_rows(left[p[1]], right[p[2]])
  <2>2. Len(input.plan.ids) = 2 /\ composed = compose_joined(input.sources, keys)
    <3>1. compose_single(input.sources[1]).mode = "single"
      BY DEF compose_single, composed_rows
    <3>2. compose_separate(input.plan, input.sources).mode = "separate"
      BY DEF compose_separate
    <3>3. "joined" # "single" /\ "joined" # "separate"
      OBVIOUS
    <3>4. Shaped(input, composed)
      <4>1. composition_failure(composition_mode(input.plan), FALSE).error
        BY FailureIs
      <4>2. composed # composition_failure(composition_mode(input.plan), FALSE)
        BY <4>1, Zenon
      <4>. QED BY <2>1, <4>2, Shapes
    <3>. QED BY <3>1, <3>2, <3>3, <3>4 DEF Shaped
  <2>3. left \in Seq(Range(left)) /\ right \in Seq(Range(right))
    <3>1. 1 \in 1 .. 2 /\ 2 \in 1 .. 2
      OBVIOUS
    <3>. QED BY <2>1, <2>2, <3>1, SourcesAre
  <2>4. JoinedRight(left, right, keys, composed)
    BY <2>2, <2>3, JoinIsRight
  <2>. HIDE DEF left, right, keys
  <2>5. /\ composed.total_count = Cardinality(partners)
        /\ \A j \in DOMAIN right : \E p \in partners : p[2] = j
        /\ \A p \in partners : \A f \in (DOMAIN left[p[1]]) \cap (DOMAIN right[p[2]]) :
             left[p[1]][f] = right[p[2]][f]
        /\ \A k \in DOMAIN composed.rows : \E p \in partners : composed.rows[k] = both(p)
        /\ \/ composed.truncated
           \/ \A p \in partners : \E k \in DOMAIN composed.rows : composed.rows[k] = both(p)
    BY <2>4 DEF JoinedRight
  <2>6. ToSet(composed.rows) = {composed.rows[k] : k \in DOMAIN composed.rows}
    BY DEF ToSet
  <2>7. ToSet(composed.rows) \subseteq {both(p) : p \in partners}
    <3>. HIDE DEF partners, both
    <3>. QED BY <2>5, <2>6
  <2>8. composed.truncated \/ {both(p) : p \in partners} \subseteq ToSet(composed.rows)
    <3>. HIDE DEF partners, both
    <3>. QED BY <2>5, <2>6
  <2>. QED BY <2>5, <2>7, <2>8, Zenon DEF JoinComplete, Partners, left, right, keys
<1>. QED BY <1>1, AnswerSteps, PTL

-----------------------------------------------------------------------------
(***************************************************************************)
(* The greedy choice of the longest names.                                 *)
(***************************************************************************)
\* Matches in a question of N characters, whose names are not empty.
IsMatches(matches, N, E) ==
  /\ N \in Nat /\ IsFiniteSet(E)
  /\ matches \in SUBSET [span : (0 .. N) \X (0 .. N), entity : E]
  /\ \A m \in matches : m.span[1] < m.span[2]

SpansOf(matches) == {m.span : m \in matches}

TrialOrder(spans) == {p \in spans \X spans : Before(p[1], p[2])}

LEMMA SpansOrdered ==
  ASSUME NEW N, NEW E, NEW matches, IsMatches(matches, N, E)
  PROVE  /\ IsFiniteSet(SpansOf(matches))
         /\ \A s \in SpansOf(matches) : s \in (0 .. N) \X (0 .. N) /\ s[1] < s[2]
         /\ Orders(TrialOrder(SpansOf(matches)), SpansOf(matches))
         /\ \A s, t \in SpansOf(matches) : <<s, t>> \in TrialOrder(SpansOf(matches)) <=> Before(s, t)
<1>. DEFINE spans == SpansOf(matches)
            R == TrialOrder(spans)
<1>1. \A s \in spans : s \in (0 .. N) \X (0 .. N) /\ s[1] < s[2]
  BY DEF IsMatches, SpansOf
<1>2. IsFiniteSet(spans)
  <2>1. IsFiniteSet(0 .. N)
    BY FS_Interval DEF IsMatches
  <2>2. IsFiniteSet((0 .. N) \X (0 .. N))
    BY <2>1, FS_Product
  <2>3. spans \in SUBSET ((0 .. N) \X (0 .. N))
    BY <1>1
  <2>. HIDE DEF spans
  <2>. QED BY <2>2, <2>3, FS_Subset
<1>. HIDE DEF spans
<1>3. \A s, t \in spans : <<s, t>> \in R <=> Before(s, t)
  BY DEF TrialOrder
<1>4. \A s \in spans : s[1] \in Int /\ s[2] \in Int /\ s = <<s[1], s[2]>>
  BY <1>1 DEF IsMatches
<1>. HIDE DEF R
<1>5. \A s \in spans : <<s, s>> \notin R
  BY <1>3, <1>4 DEF Before, Length
<1>6. \A s, t, u \in spans : <<s, t>> \in R /\ <<t, u>> \in R => <<s, u>> \in R
  BY <1>3, <1>4 DEF Before, Length
<1>7. \A s, t \in spans : s # t => <<s, t>> \in R \/ <<t, s>> \in R
  <2>. SUFFICES ASSUME NEW s \in spans, NEW t \in spans, ~Before(s, t), ~Before(t, s)
                PROVE  s = t
    BY <1>3
  <2>1. s[1] = t[1] /\ s[2] = t[2]
    BY <1>4 DEF Before, Length
  <2>. QED BY <1>4, <2>1
<1>8. Orders(R, spans)
  BY <1>5, <1>6, <1>7 DEF Orders
<1>. QED BY <1>1, <1>2, <1>3, <1>8 DEF R, spans

\* The loop is defined span by span.
Trial(order, g, k) == IF k = 0 THEN {} ELSE Tried(order[k], g[k - 1])

LEMMA TrialsDefined ==
  ASSUME NEW matches, Cardinality(SpansOf(matches)) \in Nat
  PROVE  LET spans == SpansOf(matches)
             n == Cardinality(spans)
             order == InOrder(spans, TrialOrder(spans))
         IN  \E g : /\ \A k \in 0 .. n : g[k] = Trial(order, g, k)
                    /\ occupied(matches) = g[n]
<1>. DEFINE spans == SpansOf(matches)
            n == Cardinality(spans)
            order == InOrder(spans, TrialOrder(spans))
            Good == {m \in Nat : \E g : \A k \in 0 .. n : k <= m => g[k] = Trial(order, g, k)}
<1>0. occupied(matches) = (CHOOSE u : u = [k \in 0 .. n |-> Trial(order, u, k)])[n]
  BY DEF occupied, Trial, SpansOf, TrialOrder
<1>. HIDE DEF order
<1>a. n \in Nat
  OBVIOUS
<1>. HIDE DEF n
<1>1. 0 \in Good
  <2>1. \A k \in 0 .. n : k <= 0 => [i \in 0 .. n |-> {}][k] = Trial(order, [i \in 0 .. n |-> {}], k)
    BY DEF Trial
  <2>. QED BY <2>1
<1>2. \A m \in Good : m + 1 \in Good
  <2>. SUFFICES ASSUME NEW m \in Good PROVE m + 1 \in Good
    OBVIOUS
  <2>1. PICK g : \A k \in 0 .. n : k <= m => g[k] = Trial(order, g, k)
    OBVIOUS
  <2>. DEFINE h == [k \in 0 .. n |-> Trial(order, g, k)]
  <2>2. ASSUME NEW k \in 0 .. n, k <= m + 1
        PROVE  h[k] = Trial(order, h, k)
    <3>1. h[k] = Trial(order, g, k)
      OBVIOUS
    <3>2. CASE k = 0
      BY <3>1, <3>2 DEF Trial
    <3>3. CASE k # 0
      <4>1. k - 1 \in 0 .. n /\ k - 1 <= m
        BY <1>a, <2>2, <3>3
      <4>2. h[k - 1] = g[k - 1]
        BY <2>1, <4>1
      <4>. QED BY <3>1, <3>3, <4>2 DEF Trial
    <3>. QED BY <3>2, <3>3
  <2>3. \E f : \A k \in 0 .. n : k <= m + 1 => f[k] = Trial(order, f, k)
    <3>. HIDE DEF h
    <3>. QED BY <2>2
  <2>. QED BY <2>3
<1>3. n \in Good
  <2>. HIDE DEF Good
  <2>1. Good \in SUBSET Nat
    BY DEF Good
  <2>. QED BY <1>a, <1>1, <1>2, <2>1, SetInduction
<1>4. PICK g : \A k \in 0 .. n : k <= n => g[k] = Trial(order, g, k)
  BY <1>3
<1>. DEFINE f == [k \in 0 .. n |-> g[k]]
<1>5. f = [k \in 0 .. n |-> Trial(order, f, k)]
  <2>1. \A k \in 0 .. n : g[k] = Trial(order, g, k)
    BY <1>a, <1>4
  <2>2. \A k \in 0 .. n : Trial(order, g, k) = Trial(order, f, k)
    BY <1>a DEF Trial
  <2>. QED BY <2>1, <2>2
<1>. DEFINE c == CHOOSE u : u = [k \in 0 .. n |-> Trial(order, u, k)]
<1>6. c = [k \in 0 .. n |-> Trial(order, c, k)]
  <2>. HIDE DEF f
  <2>. QED BY <1>5
<1>7. occupied(matches) = c[n]
  BY <1>0
<1>. HIDE DEF c
<1>8. \A k \in 0 .. n : c[k] = Trial(order, c, k)
  BY <1>6
<1>. QED BY <1>7, <1>8 DEF n, order

\* S keeps of these spans the ones that nothing kept stands in the way of.
Keeps(S, spans) ==
  /\ S \in SUBSET spans
  /\ \A s \in spans : s \in S <=> ~ \E t \in S : Before(t, s) /\ Overlaps(t, s)

\* Two spans before one another.
LEMMA BeforeStrict ==
  ASSUME NEW N, NEW E, NEW matches, IsMatches(matches, N, E),
         NEW s \in SpansOf(matches), NEW t \in SpansOf(matches)
  PROVE  /\ ~Before(s, s) /\ ~(Before(s, t) /\ Before(t, s))
         /\ s # t => Before(s, t) \/ Before(t, s)
         /\ Overlaps(s, t) <=> Overlaps(t, s)
<1>1. /\ \A r \in SpansOf(matches) : r \in (0 .. N) \X (0 .. N)
      /\ Orders(TrialOrder(SpansOf(matches)), SpansOf(matches))
      /\ \A q, r \in SpansOf(matches) : <<q, r>> \in TrialOrder(SpansOf(matches)) <=> Before(q, r)
  BY SpansOrdered
<1>2. Overlaps(s, t) <=> Overlaps(t, s)
  BY <1>1 DEF Overlaps
<1>. QED BY <1>1, <1>2 DEF Orders

\* After k spans: those of them that are to be kept.
LEMMA GreedyKeeps ==
  ASSUME NEW N, NEW E, NEW matches, IsMatches(matches, N, E)
  PROVE  Keeps(occupied(matches), SpansOf(matches))
<1>. DEFINE spans == SpansOf(matches)
            n == Cardinality(spans)
            order == InOrder(spans, TrialOrder(spans))
<1>1. /\ n \in Nat
      /\ \A k \in 1 .. n : order[k] \in spans
      /\ \A x \in spans : \E k \in 1 .. n : order[k] = x
      /\ \A k, l \in 1 .. n : k < l => Before(order[k], order[l])
  <2>1. /\ n \in Nat
        /\ \A k \in 1 .. n : order[k] \in spans
        /\ \A x \in spans : \E k \in 1 .. n : order[k] = x
        /\ \A k, l \in 1 .. n : k < l => <<order[k], order[l]>> \in TrialOrder(spans)
    BY SpansOrdered, InOrderLists
  <2>. HIDE DEF order, n
  <2>. QED BY <2>1, SpansOrdered
<1>2. PICK g : /\ \A k \in 0 .. n : g[k] = Trial(order, g, k)
               /\ occupied(matches) = g[n]
  BY <1>1, TrialsDefined
<1>3. \A s, t \in spans : /\ ~Before(s, s) /\ ~(Before(s, t) /\ Before(t, s))
                          /\ Overlaps(s, t) <=> Overlaps(t, s)
  BY BeforeStrict
<1>. HIDE DEF order, n, spans
<1>. DEFINE Sofar(k) ==
              /\ \A s \in g[k] : \E i \in 1 .. k : s = order[i]
              /\ \A i \in 1 .. k :
                   order[i] \in g[k] <=>
                     ~ \E t \in g[k] : Before(t, order[i]) /\ Overlaps(t, order[i])
            Good == {k \in Nat : k <= n => Sofar(k)}
<1>4. 0 \in Good
  <2>1. g[0] = {}
    BY <1>1, <1>2 DEF Trial
  <2>. QED BY <2>1
<1>5. ASSUME NEW k \in Good PROVE k + 1 \in Good
  <2>. SUFFICES ASSUME k + 1 <= n PROVE Sofar(k + 1)
    OBVIOUS
  <2>. DEFINE s == order[k + 1]
  <2>1. Sofar(k) /\ k \in Nat
    BY <1>1
  <2>2. g[k + 1] = Tried(s, g[k])
    <3>1. k + 1 \in 0 .. n /\ k + 1 # 0 /\ (k + 1) - 1 = k
      BY <1>1, <2>1
    <3>. QED BY <1>2, <3>1 DEF Trial
  <2>3. /\ s \in spans /\ \A i \in 1 .. k : order[i] \in spans /\ Before(order[i], s)
    BY <1>1, <2>1
  <2>4. \A i \in 1 .. k : order[i] # s /\ ~Before(s, order[i])
    BY <1>3, <2>3
  <2>. HIDE DEF s
  <2>5. \A t \in g[k] : Before(t, s) /\ t # s /\ t \in spans
    BY <2>1, <2>3, <2>4
  <2>6. \A i \in 1 .. (k + 1) : i \in 1 .. k \/ i = k + 1
    BY <2>1
  <2>7. 1 .. k \subseteq 1 .. (k + 1) /\ k + 1 \in 1 .. (k + 1)
    BY <2>1
  <2>8. \A t \in g[k + 1] : t \in g[k] \/ t = s
    BY <2>2 DEF Tried
  <2>9. \A t \in g[k + 1] : \E i \in 1 .. (k + 1) : t = order[i]
    BY <2>1, <2>7, <2>8 DEF s
  <2>10. ASSUME NEW i \in 1 .. k
         PROVE  order[i] \in g[k + 1] <=>
                  ~ \E t \in g[k + 1] : Before(t, order[i]) /\ Overlaps(t, order[i])
    <3>1. order[i] \in g[k + 1] <=> order[i] \in g[k]
      BY <2>2, <2>4 DEF Tried
    <3>2. (\E t \in g[k + 1] : Before(t, order[i]) /\ Overlaps(t, order[i])) <=>
            (\E t \in g[k] : Before(t, order[i]) /\ Overlaps(t, order[i]))
      <4>1. \A t \in g[k] : t \in g[k + 1]
        BY <2>2 DEF Tried
      <4>. QED BY <2>4, <2>8, <4>1
    <3>. QED BY <2>1, <3>1, <3>2
  <2>11. s \in g[k + 1] <=> ~ \E t \in g[k + 1] : Before(t, s) /\ Overlaps(t, s)
    <3>1. CASE \E t \in g[k] : Overlaps(s, t)
      <4>1. g[k + 1] = g[k]
        BY <2>2, <3>1 DEF Tried
      <4>. QED BY <1>3, <2>3, <2>5, <3>1, <4>1
    <3>2. CASE ~ \E t \in g[k] : Overlaps(s, t)
      <4>1. g[k + 1] = g[k] \cup {s}
        BY <2>2, <3>2 DEF Tried
      <4>. QED BY <1>3, <2>3, <2>5, <3>2, <4>1
    <3>. QED BY <3>1, <3>2
  <2>12. order[k + 1] \in g[k + 1] <=>
           ~ \E t \in g[k + 1] : Before(t, order[k + 1]) /\ Overlaps(t, order[k + 1])
    BY <2>11 DEF s
  <2>. QED BY <2>6, <2>9, <2>10, <2>12
<1>6. n \in Good
  <2>. HIDE DEF Good
  <2>1. Good \in SUBSET Nat
    BY DEF Good
  <2>. QED BY <1>1, <1>4, <1>5, <2>1, SetInduction
<1>7. Sofar(n)
  BY <1>1, <1>6
<1>8. g[n] \in SUBSET spans
  BY <1>1, <1>7
<1>9. \A s \in spans : s \in g[n] <=> ~ \E t \in g[n] : Before(t, s) /\ Overlaps(t, s)
  <2>. TAKE s \in spans
  <2>1. PICK i \in 1 .. n : order[i] = s
    BY <1>1
  <2>. QED BY <1>7, <2>1
<1>. QED BY <1>2, <1>8, <1>9 DEF Keeps, spans

\* There is only one such set.
LEMMA KeepsOne ==
  ASSUME NEW N, NEW E, NEW matches, IsMatches(matches, N, E),
         NEW S, NEW T, Keeps(S, SpansOf(matches)), Keeps(T, SpansOf(matches))
  PROVE  S = T
<1>. DEFINE spans == SpansOf(matches)
            n == Cardinality(spans)
            order == InOrder(spans, TrialOrder(spans))
            Odd == {k \in 1 .. n : ~(order[k] \in S <=> order[k] \in T)}
<1>1. /\ n \in Nat
      /\ \A k \in 1 .. n : order[k] \in spans
      /\ \A x \in spans : \E k \in 1 .. n : order[k] = x
      /\ \A k, l \in 1 .. n : k < l => Before(order[k], order[l])
  <2>1. /\ n \in Nat
        /\ \A k \in 1 .. n : order[k] \in spans
        /\ \A x \in spans : \E k \in 1 .. n : order[k] = x
        /\ \A k, l \in 1 .. n : k < l => <<order[k], order[l]>> \in TrialOrder(spans)
    BY SpansOrdered, InOrderLists
  <2>. HIDE DEF order, n
  <2>. QED BY <2>1, SpansOrdered
<1>2. \A s, t \in spans : ~Before(s, s) /\ ~(Before(s, t) /\ Before(t, s))
  BY BeforeStrict
<1>. HIDE DEF order, n
<1>3. CASE Odd = {}
  BY <1>1, <1>3 DEF Keeps
<1>4. CASE Odd # {}
  <2>1. PICK k \in Odd : \A l \in Odd : k <= l
    <3>1. Odd \in SUBSET Nat
      BY <1>1
    <3>. HIDE DEF Odd
    <3>. QED BY <1>4, <3>1, LeastNatural
  <2>2. \A t \in spans : Before(t, order[k]) => (t \in S <=> t \in T)
    <3>. SUFFICES ASSUME NEW t \in spans, Before(t, order[k]) PROVE t \in S <=> t \in T
      OBVIOUS
    <3>1. PICK l \in 1 .. n : order[l] = t
      BY <1>1
    <3>2. k \in 1 .. n /\ order[k] \in spans
      BY <1>1
    <3>3. l < k
      <4>1. ~(k < l)
        BY <1>1, <1>2, <3>1, <3>2
      <4>2. k # l
        BY <1>2, <3>1, <3>2
      <4>. QED BY <1>1, <3>2, <4>1, <4>2
    <3>4. l \notin Odd
      BY <1>1, <2>1, <3>2, <3>3
    <3>. QED BY <3>1, <3>4
  <2>3. order[k] \in spans
    BY <1>1
  <2>4. order[k] \in S <=> order[k] \in T
    <3>. HIDE DEF Odd, spans
    <3>. QED BY <2>2, <2>3 DEF Keeps, spans
  <2>. QED BY <2>4
<1>. QED BY <1>3, <1>4

LEMMA OccupiedAre ==
  ASSUME NEW N, NEW E, NEW matches, IsMatches(matches, N, E)
  PROVE  occupied(matches) = SpansToKeep(matches)
<1>. DEFINE spans == SpansOf(matches)
            kept == CHOOSE S \in SUBSET spans :
                      \A s \in spans : s \in S <=> ~ \E t \in S : Before(t, s) /\ Overlaps(t, s)
<1>1. Keeps(occupied(matches), spans)
  BY GreedyKeeps
<1>. HIDE DEF spans
<1>2. Keeps(kept, spans)
  BY <1>1 DEF Keeps
<1>3. SpansToKeep(matches) = kept
  BY DEF SpansToKeep, SpansOf, spans
<1>. HIDE DEF kept
<1>. QED BY <1>1, <1>2, <1>3, KeepsOne DEF spans

\* The literals: the matches that alone fill a span to keep, from the left.
LEMMA LiteralsAlone ==
  ASSUME NEW N, NEW E, NEW matches, IsMatches(matches, N, E)
  PROVE  LET all == Literals(matches)
         IN  /\ all \in Seq(matches)
             /\ Range(all) = AloneInSpan(matches)
             /\ \A i, j \in DOMAIN all : i < j => all[i].span[2] <= all[j].span[1]
<1>. DEFINE all == Literals(matches)
            spans == selected_spans(matches)
            n == Cardinality(spans)
            R == {p \in spans \X spans : FromTheLeft(p[1], p[2])}
            order == InOrder(spans, R)
            only(s) == CHOOSE e \in identities(matches, s) : TRUE
<1>1. spans = {s \in SpansToKeep(matches) : Cardinality(identities(matches, s)) = 1}
  BY OccupiedAre DEF selected_spans
<1>2. /\ \A s \in SpansOf(matches) : s \in (0 .. N) \X (0 .. N) /\ s[1] < s[2]
      /\ IsFiniteSet(SpansOf(matches)) /\ N \in Nat
  BY SpansOrdered DEF IsMatches
<1>3. Keeps(SpansToKeep(matches), SpansOf(matches))
  BY GreedyKeeps, OccupiedAre
<1>4. all = [k \in 1 .. n |-> [span |-> order[k], entity |-> only(order[k])]]
  BY DEF Literals
<1>. HIDE DEF all
<1>5. spans \in SUBSET SpansOf(matches)
  <2>. HIDE DEF spans
  <2>. QED BY <1>1, <1>3 DEF Keeps
<1>6. IsFiniteSet(spans)
  <2>. HIDE DEF spans
  <2>. QED BY <1>2, <1>5, FS_Subset
<1>7. \A s \in spans : /\ s[1] \in Int /\ s[2] \in Int /\ s[1] < s[2] /\ s = <<s[1], s[2]>>
  <2>. HIDE DEF spans
  <2>. QED BY <1>2, <1>5
<1>8. \A s, t \in spans : <<s, t>> \in R <=> FromTheLeft(s, t)
  <2>. HIDE DEF spans
  <2>. QED OBVIOUS
<1>9. Orders(R, spans)
  <2>. HIDE DEF R, spans
  <2>1. \A s \in spans : <<s, s>> \notin R
    BY <1>7, <1>8 DEF FromTheLeft
  <2>2. \A s, t, u \in spans : <<s, t>> \in R /\ <<t, u>> \in R => <<s, u>> \in R
    BY <1>7, <1>8 DEF FromTheLeft
  <2>3. \A s, t \in spans : s # t => <<s, t>> \in R \/ <<t, s>> \in R
    <3>. SUFFICES ASSUME NEW s \in spans, NEW t \in spans, ~FromTheLeft(s, t), ~FromTheLeft(t, s)
                  PROVE  s = t
      BY <1>8
    <3>1. s[1] = t[1] /\ s[2] = t[2]
      BY <1>7 DEF FromTheLeft
    <3>. QED BY <1>7, <3>1
  <2>. QED BY <2>1, <2>2, <2>3 DEF Orders
<1>10. /\ n \in Nat
       /\ \A k \in 1 .. n : order[k] \in spans
       /\ \A x \in spans : \E k \in 1 .. n : order[k] = x
       /\ \A k, l \in 1 .. n : k < l => <<order[k], order[l]>> \in R
  <2>. HIDE DEF R, spans
  <2>. QED BY <1>6, <1>9, InOrderLists
<1>. HIDE DEF order, R, n
<1>11. \A s, t \in spans : s # t /\ FromTheLeft(s, t) => s[2] <= t[1]
  <2>. SUFFICES ASSUME NEW s \in spans, NEW t \in spans, s # t, FromTheLeft(s, t)
                PROVE  s[2] <= t[1]
    OBVIOUS
  <2>1. s \in SpansToKeep(matches) /\ t \in SpansToKeep(matches)
    <3>. HIDE DEF spans
    <3>. QED BY <1>1
  <2>2. s \in SpansOf(matches) /\ t \in SpansOf(matches)
    <3>. HIDE DEF spans
    <3>. QED BY <1>5
  <2>3. /\ Before(s, t) \/ Before(t, s)
        /\ Overlaps(s, t) <=> Overlaps(t, s)
    BY <2>2, BeforeStrict
  <2>4. ~Overlaps(s, t)
    BY <1>3, <2>1, <2>2, <2>3 DEF Keeps
  <2>. HIDE DEF spans
  <2>. QED BY <1>7, <2>4 DEF Overlaps, FromTheLeft
<1>12. ASSUME NEW s \in spans
       PROVE  identities(matches, s) = {only(s)}
  <2>1. Cardinality(identities(matches, s)) = 1
    <3>. HIDE DEF spans
    <3>. QED BY <1>1
  <2>2. \E e : identities(matches, s) = {e}
    <3>1. IsFiniteSet(identities(matches, s))
      <4>1. identities(matches, s) \in SUBSET E /\ IsFiniteSet(E)
        BY DEF identities, IsMatches
      <4>. QED BY <4>1, FS_Subset
    <3>. QED BY <2>1, <3>1, FS_Singleton
  <2>. QED BY <2>2
<1>. HIDE DEF only
<1>13. \A s \in spans : [span |-> s, entity |-> only(s)] \in AloneInSpan(matches)
  <2>. TAKE s \in spans
  <2>1. PICK m \in matches : m.span = s /\ m.entity = only(s)
    BY <1>12 DEF identities
  <2>2. m = [span |-> s, entity |-> only(s)]
    BY <2>1 DEF IsMatches
  <2>3. \A o \in matches : o.span = s => o.entity = only(s)
    BY <1>12 DEF identities
  <2>4. s \in SpansToKeep(matches)
    <3>. HIDE DEF spans
    <3>. QED BY <1>1
  <2>. QED BY <2>1, <2>2, <2>3, <2>4 DEF AloneInSpan
<1>14. ASSUME NEW m \in AloneInSpan(matches)
       PROVE  m.span \in spans /\ m = [span |-> m.span, entity |-> only(m.span)]
  <2>1. /\ m \in matches /\ m.span \in SpansToKeep(matches)
        /\ \A o \in matches : o.span = m.span => o.entity = m.entity
    BY DEF AloneInSpan
  <2>2. identities(matches, m.span) = {m.entity}
    BY <2>1 DEF identities
  <2>3. Cardinality(identities(matches, m.span)) = 1
    BY <2>2, FS_Singleton
  <2>4. m.span \in spans
    <3>. HIDE DEF spans
    <3>. QED BY <1>1, <2>1, <2>3
  <2>5. only(m.span) = m.entity
    BY <1>12, <2>2, <2>4
  <2>. QED BY <2>1, <2>4, <2>5 DEF IsMatches
<1>. HIDE DEF spans
<1>15. DOMAIN all = 1 .. n /\ \A k \in 1 .. n : all[k] = [span |-> order[k], entity |-> only(order[k])]
  BY <1>4
<1>16. \A k \in 1 .. n : all[k] \in AloneInSpan(matches) /\ all[k].span = order[k]
  BY <1>10, <1>13, <1>15
<1>17. all \in Seq(matches)
  <2>1. AloneInSpan(matches) \subseteq matches
    BY DEF AloneInSpan
  <2>2. all \in [1 .. n -> matches]
    BY <1>4, <1>16, <2>1
  <2>. QED BY <1>10, <2>2
<1>18. Range(all) = AloneInSpan(matches)
  <2>1. \A m \in AloneInSpan(matches) : \E k \in 1 .. n : all[k] = m
    BY <1>10, <1>14, <1>15
  <2>. QED BY <1>15, <1>16, <2>1 DEF Range
<1>19. \A i, j \in DOMAIN all : i < j => all[i].span[2] <= all[j].span[1]
  <2>. SUFFICES ASSUME NEW i \in 1 .. n, NEW j \in 1 .. n, i < j
                PROVE  order[i][2] <= order[j][1]
    BY <1>15, <1>16
  <2>1. order[i] \in spans /\ order[j] \in spans /\ <<order[i], order[j]>> \in R
    BY <1>10
  <2>. QED BY <1>8, <1>9, <1>11, <2>1 DEF Orders
<1>. QED BY <1>17, <1>18, <1>19 DEF all

\* For every question and all matches in it, the greedy loops of
\* _select_literal_entities choose what is stated without them: each entity that alone
\* fills a span to keep, once, at its first one, in the order of the question.
THEOREM LiteralsAreRight ==
  ASSUME NEW N, NEW E, NEW matches, IsMatches(matches, N, E)
  PROVE  SelectedAsSpecified(matches)
<1>. DEFINE all == Literals(matches)
            chosen == _select_literal_entities(matches)
            alone == AloneInSpan(matches)
            first == {i \in DOMAIN all : \A j \in 1 .. i - 1 : all[j].entity # all[i].entity}
            leftmost == {m \in alone : \A n \in alone : n.entity = m.entity => n.span[1] >= m.span[1]}
<1>1. /\ all \in Seq(matches) /\ Range(all) = alone
      /\ \A i, j \in DOMAIN all : i < j => all[i].span[2] <= all[j].span[1]
  BY LiteralsAlone
<1>2. chosen = Pick(all, first)
  BY DEF _select_literal_entities
<1>. HIDE DEF all, alone, chosen
<1>3. DOMAIN all = 1 .. Len(all) /\ Len(all) \in Nat
  BY <1>1
<1>4. \A i \in DOMAIN all : /\ all[i] \in matches
                            /\ all[i].span[1] \in Int /\ all[i].span[2] \in Int
                            /\ all[i].span[1] < all[i].span[2]
  <2>1. \A m \in matches : m.span[1] \in Int /\ m.span[2] \in Int /\ m.span[1] < m.span[2]
    BY DEF IsMatches
  <2>. QED BY <1>1, <2>1
<1>5. first \in SUBSET Nat /\ IsFiniteSet(first) /\ \A p \in first : all[p] \in matches
  BY <1>1, SomePositions
<1>6. \A i \in DOMAIN all : i \in first <=> all[i] \in leftmost
  <2>. TAKE i \in DOMAIN all
  <2>1. ASSUME i \in first, NEW m \in alone, m.entity = all[i].entity
        PROVE  m.span[1] >= all[i].span[1]
    <3>1. PICK j \in DOMAIN all : all[j] = m
      BY <1>1 DEF Range
    <3>2. ~(j < i)
      <4>1. j < i => j \in 1 .. i - 1
        BY <1>3
      <4>. QED BY <2>1, <3>1, <4>1
    <3>3. CASE j = i
      BY <1>4, <3>1, <3>3
    <3>4. CASE i < j
      <4>1. all[i].span[2] <= all[j].span[1]
        BY <1>1, <3>4
      <4>. QED BY <1>4, <3>1, <4>1
    <3>. QED BY <1>3, <3>2, <3>3, <3>4
  <2>2. ASSUME all[i] \in leftmost, NEW j \in 1 .. i - 1, all[j].entity = all[i].entity
        PROVE  FALSE
    <3>1. j \in DOMAIN all /\ j < i
      BY <1>3
    <3>2. all[j] \in alone
      BY <1>1, <3>1 DEF Range
    <3>3. all[j].span[1] >= all[i].span[1] /\ all[j].span[2] <= all[i].span[1]
      BY <1>1, <2>2, <3>1, <3>2
    <3>. QED BY <1>4, <3>1, <3>3
  <2>3. all[i] \in alone
    BY <1>1 DEF Range
  <2>. QED BY <2>1, <2>2, <2>3
<1>. DEFINE n == Cardinality(first)
<1>7. n \in Nat /\ DOMAIN chosen = 1 .. n /\ first \subseteq DOMAIN all
  <2>1. first \subseteq DOMAIN all
    OBVIOUS
  <2>. HIDE DEF first
  <2>. QED BY <1>2, <1>5, <2>1, PickLists
<1>8. PICK at : /\ Places(at, n, first)
                /\ \A k \in 1 .. n : chosen[k] = all[at[k]]
  <2>. HIDE DEF first
  <2>. QED BY <1>2, <1>5, PickLists
<1>9. \A m \in leftmost : \E i \in DOMAIN all : all[i] = m
  BY <1>1 DEF Range
<1>. HIDE DEF first, n, leftmost
<1>10. Range(chosen) = leftmost
  <2>1. \A k \in DOMAIN chosen : chosen[k] \in leftmost
    BY <1>6, <1>7, <1>8 DEF Places
  <2>2. ASSUME NEW m \in leftmost PROVE \E k \in DOMAIN chosen : chosen[k] = m
    <3>1. PICK i \in DOMAIN all : all[i] = m
      BY <1>9
    <3>2. PICK k \in 1 .. n : at[k] = i
      BY <1>6, <1>8, <3>1 DEF Places
    <3>. QED BY <1>7, <1>8, <3>1, <3>2
  <2>. QED BY <2>1, <2>2 DEF Range
<1>11. \A i, j \in DOMAIN chosen : i < j => chosen[i].span[2] <= chosen[j].span[1]
  BY <1>1, <1>7, <1>8, SMTT(30) DEF Places
<1>. QED BY <1>10, <1>11 DEF SelectedAsSpecified, chosen, alone, leftmost

-----------------------------------------------------------------------------
(***************************************************************************)
(* The shortages of a bill of materials: the loop over the GRAPH rows, the *)
(* sum over the distinct paths, the list of what is short.                 *)
(***************************************************************************)
\* The product of a path, factor by factor.
Factor(x, quantities, g, k) == IF k = 0 THEN x ELSE g[k - 1] * quantities[k]

LEMMA TimesInt ==
  ASSUME NEW x \in Int, NEW quantities \in Seq(Int)
  PROVE  Times(x, quantities) \in Int
<1>. DEFINE n == Len(quantities)
            Good == {m \in Nat : \E g : \A k \in 0 .. n : k <= m => g[k] = Factor(x, quantities, g, k)}
<1>0. Times(x, quantities) = (CHOOSE u : u = [k \in 0 .. n |-> Factor(x, quantities, u, k)])[n]
  BY DEF Times, Factor
<1>a. n \in Nat /\ \A k \in 1 .. n : quantities[k] \in Int
  OBVIOUS
<1>. HIDE DEF n
<1>1. 0 \in Good
  <2>1. \A k \in 0 .. n : k <= 0 => [i \in 0 .. n |-> x][k] = Factor(x, quantities, [i \in 0 .. n |-> x], k)
    BY DEF Factor
  <2>. QED BY <2>1
<1>2. \A m \in Good : m + 1 \in Good
  <2>. SUFFICES ASSUME NEW m \in Good PROVE m + 1 \in Good
    OBVIOUS
  <2>1. PICK g : \A k \in 0 .. n : k <= m => g[k] = Factor(x, quantities, g, k)
    OBVIOUS
  <2>. DEFINE h == [k \in 0 .. n |-> Factor(x, quantities, g, k)]
  <2>2. ASSUME NEW k \in 0 .. n, k <= m + 1
        PROVE  h[k] = Factor(x, quantities, h, k)
    <3>1. h[k] = Factor(x, quantities, g, k)
      OBVIOUS
    <3>2. CASE k = 0
      BY <3>1, <3>2 DEF Factor
    <3>3. CASE k # 0
      <4>1. k - 1 \in 0 .. n /\ k - 1 <= m
        BY <1>a, <2>2, <3>3
      <4>2. h[k - 1] = g[k - 1]
        BY <2>1, <4>1
      <4>. QED BY <3>1, <3>3, <4>2 DEF Factor
    <3>. QED BY <3>2, <3>3
  <2>3. \E f : \A k \in 0 .. n : k <= m + 1 => f[k] = Factor(x, quantities, f, k)
    <3>. HIDE DEF h
    <3>. QED BY <2>2
  <2>. QED BY <2>3
<1>3. n \in Good
  <2>. HIDE DEF Good
  <2>1. Good \in SUBSET Nat
    BY DEF Good
  <2>. QED BY <1>a, <1>1, <1>2, <2>1, SetInduction
<1>4. PICK g : \A k \in 0 .. n : k <= n => g[k] = Factor(x, quantities, g, k)
  BY <1>3
<1>. DEFINE f == [k \in 0 .. n |-> g[k]]
<1>5. f = [k \in 0 .. n |-> Factor(x, quantities, f, k)]
  <2>1. \A k \in 0 .. n : g[k] = Factor(x, quantities, g, k)
    BY <1>a, <1>4
  <2>2. \A k \in 0 .. n : Factor(x, quantities, g, k) = Factor(x, quantities, f, k)
    BY <1>a DEF Factor
  <2>. QED BY <2>1, <2>2
<1>. DEFINE c == CHOOSE u : u = [k \in 0 .. n |-> Factor(x, quantities, u, k)]
<1>6. c = [k \in 0 .. n |-> Factor(x, quantities, c, k)]
  <2>. HIDE DEF f
  <2>. QED BY <1>5
<1>7. Times(x, quantities) = c[n]
  BY <1>0
<1>. HIDE DEF c
<1>8. \A k \in 0 .. n : c[k] = Factor(x, quantities, c, k)
  BY <1>6
<1>. DEFINE Whole == {m \in Nat : m <= n => c[m] \in Int}
<1>9. 0 \in Whole
  BY <1>a, <1>8 DEF Factor
<1>10. ASSUME NEW m \in Whole PROVE m + 1 \in Whole
  <2>. SUFFICES ASSUME m + 1 <= n PROVE c[m + 1] \in Int
    OBVIOUS
  <2>1. c[m] \in Int /\ m + 1 \in 0 .. n /\ m + 1 # 0 /\ (m + 1) - 1 = m /\ quantities[m + 1] \in Int
    BY <1>a
  <2>2. c[m + 1] = c[m] * quantities[m + 1]
    BY <1>8, <2>1 DEF Factor
  <2>. QED BY <2>1, <2>2
<1>11. n \in Whole
  <2>. HIDE DEF Whole
  <2>1. Whole \in SUBSET Nat
    BY DEF Whole
  <2>. QED BY <1>a, <1>9, <1>10, <2>1, SetInduction
<1>. QED BY <1>a, <1>7, <1>11

\* The sum over a finite set of paths.
Summand(f, g, s) ==
  IF s = {} THEN 0 ELSE f[CHOOSE y \in s : TRUE] + g[s \ {CHOOSE y \in s : TRUE}]

LEMMA TotalIs ==
  ASSUME NEW f
  PROVE  Total(f) = (CHOOSE u : u = [s \in SUBSET (DOMAIN f) |-> Summand(f, u, s)])[DOMAIN f]
BY DEF Total, FoldFunction, FoldFunctionOnSet, MapThenFoldSet, Summand

LEMMA NormalizedInt ==
  ASSUME NEW v \in Int
  PROVE  normalized(v) \in Int
<1>1. v \div Quantum \in Int
  BY QuantumAssumption
<1>. DEFINE low == v \div Quantum
<1>2. low \in Int
  BY <1>1
<1>3. normalized(v) \in {low, low + 1}
  BY DEF normalized
<1>. HIDE DEF low
<1>. QED BY <1>2, <1>3

-----------------------------------------------------------------------------
\* A function, and nothing else.
IsDict(f) == f = [z \in DOMAIN f |-> f[z]]

\* The rows of a component among the first n.
At(graph, n, c) == {i \in 1 .. n : graph[i].component = c}

Collected(k, graph, qty, positions) ==
  /\ DOMAIN k = {"finished", "cname", "paths", "quantities", "suppliers"}
  /\ DOMAIN k.quantities = {graph[i].path : i \in positions}
  /\ DOMAIN k.paths = {graph[i].path : i \in positions}
  /\ \A p \in DOMAIN k.paths : k.paths[p] = Times(qty, k.quantities[p])
  /\ IsDict(k.paths) /\ IsDict(k.quantities)
  /\ k.suppliers = {graph[i].supplier : i \in positions} \ {0}
  /\ \A i \in positions : k.quantities[graph[i].path] = graph[i].quantities

\* What is known after n rows, unless one of them was refused.
ReadUpTo(acc, graph, qty, n) ==
  /\ "ok" \in DOMAIN acc
  /\ acc.ok =>
       /\ DOMAIN acc.components = {graph[i].component : i \in 1 .. n}
       /\ \A c \in DOMAIN acc.components :
            Collected(acc.components[c], graph, qty, At(graph, n, c))

LEMMA SetdefaultIs ==
  ASSUME NEW f, NEW x, NEW y, IsDict(f)
  PROVE  /\ DOMAIN setdefault(f, x, y) = (DOMAIN f) \cup {x}
         /\ x \notin DOMAIN f => setdefault(f, x, y)[x] = y
         /\ \A z \in DOMAIN f : setdefault(f, x, y)[z] = f[z]
         /\ IsDict(setdefault(f, x, y))
<1>1. CASE x \in DOMAIN f
  <2>1. setdefault(f, x, y) = f
    BY <1>1 DEF setdefault
  <2>. QED BY <1>1, <2>1
<1>2. CASE x \notin DOMAIN f
  <2>1. setdefault(f, x, y) = put(f, x, y)
    BY <1>2 DEF setdefault
  <2>. DEFINE p == put(f, x, y)
  <2>2. /\ DOMAIN p = (DOMAIN f) \cup {x} /\ p[x] = y /\ IsDict(p)
        /\ \A z \in DOMAIN f : z # x => p[z] = f[z]
    BY DEF put, IsDict
  <2>. HIDE DEF p
  <2>3. \A z \in DOMAIN f : p[z] = f[z]
    BY <1>2, <2>2
  <2>4. setdefault(f, x, y) = p
    BY <2>1 DEF p
  <2>. QED BY <1>2, <2>2, <2>3, <2>4
<1>. QED BY <1>1, <1>2

\* One more row of a component.
LEMMA CollectedMore ==
  ASSUME NEW k, NEW graph, NEW qty, NEW positions, NEW m, Collected(k, graph, qty, positions),
         graph[m].path \in DOMAIN k.quantities => k.quantities[graph[m].path] = graph[m].quantities,
         NEW grown,
         grown = [k EXCEPT
                    !.quantities = setdefault(@, graph[m].path, graph[m].quantities),
                    !.paths = add_path(@, graph[m], qty),
                    !.suppliers = IF graph[m].supplier = 0 THEN @ ELSE @ \cup {graph[m].supplier}]
  PROVE  Collected(grown, graph, qty, positions \cup {m})
<1>. DEFINE path == graph[m].path
            amount == Times(qty, graph[m].quantities)
            Q == setdefault(k.quantities, path, graph[m].quantities)
            P == setdefault(k.paths, path, amount)
            S == IF graph[m].supplier = 0 THEN k.suppliers ELSE k.suppliers \cup {graph[m].supplier}
<1>1. DOMAIN k = {"finished", "cname", "paths", "quantities", "suppliers"}
  BY DEF Collected
<1>2. add_path(k.paths, graph[m], qty) = P
  BY DEF add_path
<1>3. grown = [k EXCEPT !.quantities = Q, !.paths = P, !.suppliers = S]
  BY <1>2
<1>. HIDE DEF Q, P, S
<1>4. DOMAIN grown = DOMAIN k /\ grown.quantities = Q /\ grown.paths = P /\ grown.suppliers = S
  BY <1>1, <1>3
<1>5. /\ DOMAIN Q = (DOMAIN k.quantities) \cup {path}
      /\ path \notin DOMAIN k.quantities => Q[path] = graph[m].quantities
      /\ \A p \in DOMAIN k.quantities : Q[p] = k.quantities[p]
      /\ IsDict(Q)
  <2>1. IsDict(k.quantities)
    BY DEF Collected
  <2>. QED BY <2>1, SetdefaultIs DEF Q
<1>6. /\ DOMAIN P = (DOMAIN k.paths) \cup {path}
      /\ path \notin DOMAIN k.paths => P[path] = amount
      /\ \A p \in DOMAIN k.paths : P[p] = k.paths[p]
      /\ IsDict(P)
  <2>1. IsDict(k.paths)
    BY DEF Collected
  <2>. HIDE DEF amount
  <2>. QED BY <2>1, SetdefaultIs DEF P
<1>7. /\ DOMAIN k.quantities = {graph[i].path : i \in positions}
      /\ DOMAIN k.paths = {graph[i].path : i \in positions}
      /\ \A p \in DOMAIN k.paths : k.paths[p] = Times(qty, k.quantities[p])
      /\ k.suppliers = {graph[i].supplier : i \in positions} \ {0}
      /\ \A i \in positions : k.quantities[graph[i].path] = graph[i].quantities
  BY DEF Collected
<1>8. Q[path] = graph[m].quantities
  BY <1>5
<1>9. {graph[i].path : i \in positions \cup {m}} = {graph[i].path : i \in positions} \cup {path}
  OBVIOUS
<1>10. \A p \in DOMAIN P : P[p] = Times(qty, Q[p])
  <2>. TAKE p \in DOMAIN P
  <2>1. CASE p \in DOMAIN k.paths
    BY <1>5, <1>6, <1>7, <2>1
  <2>2. CASE p \notin DOMAIN k.paths
    BY <1>6, <1>8, <2>2
  <2>. QED BY <2>1, <2>2
<1>11. S = {graph[i].supplier : i \in positions \cup {m}} \ {0}
  BY <1>7 DEF S
<1>12. \A i \in positions \cup {m} : Q[graph[i].path] = graph[i].quantities
  <2>. TAKE i \in positions \cup {m}
  <2>1. CASE i = m
    BY <1>8, <2>1
  <2>2. CASE i \in positions
    BY <1>5, <1>7, <2>2
  <2>. QED BY <2>1, <2>2
<1>13. DOMAIN Q = {graph[i].path : i \in positions \cup {m}} /\ DOMAIN P = DOMAIN Q
  BY <1>5, <1>6, <1>7, <1>9
<1>. QED BY <1>1, <1>4, <1>5, <1>6, <1>10, <1>11, <1>12, <1>13 DEF Collected

LEMMA RowRead ==
  ASSUME NEW acc, NEW graph, NEW qty, NEW n \in Nat, ReadUpTo(acc, graph, qty, n)
  PROVE  ReadUpTo(read_graph_row(acc, graph[n + 1], qty), graph, qty, n + 1)
<1>. DEFINE row == graph[n + 1]
            known == acc.components
            fresh == [finished |-> row.finished, cname |-> row.cname,
                      paths |-> NoComponents, quantities |-> NoComponents, suppliers |-> {}]
            component == IF row.component \in DOMAIN known THEN known[row.component] ELSE fresh
            agrees ==
              /\ graph_row_valid(row)
              /\ row.supplier \in DOMAIN acc.names => acc.names[row.supplier] = row.sname
              /\ component.finished = row.finished /\ component.cname = row.cname
              /\ row.path \in DOMAIN component.quantities =>
                   component.quantities[row.path] = row.quantities
            grown ==
              [component EXCEPT
                 !.quantities = setdefault(@, row.path, row.quantities),
                 !.paths = add_path(@, row, qty),
                 !.suppliers = IF row.supplier = 0 THEN @ ELSE @ \cup {row.supplier}]
            more == [ok |-> TRUE, components |-> put(known, row.component, grown),
                     names |-> setdefault(acc.names, row.supplier, row.sname),
                     finished |-> acc.finished \cup {row.finished}]
            new == read_graph_row(acc, row, qty)
<1>1. new = IF ~acc.ok \/ ~agrees THEN [acc EXCEPT !.ok = FALSE] ELSE more
  BY Zenon DEF read_graph_row
<1>2. CASE ~acc.ok \/ ~agrees
  <2>1. new = [acc EXCEPT !.ok = FALSE]
    BY <1>1, <1>2
  <2>2. "ok" \in DOMAIN new /\ new.ok = FALSE
    BY <2>1 DEF ReadUpTo
  <2>. QED BY <2>2 DEF ReadUpTo
<1>3. CASE acc.ok /\ agrees
  <2>1. new = more
    BY <1>1, <1>3
  <2>2. "ok" \in DOMAIN new /\ new.components = put(known, row.component, grown)
    <3>. HIDE DEF grown, known
    <3>. QED BY <2>1
  <2>3. /\ DOMAIN known = {graph[i].component : i \in 1 .. n}
        /\ \A c \in DOMAIN known : Collected(known[c], graph, qty, At(graph, n, c))
    BY <1>3 DEF ReadUpTo
  <2>4. Collected(component, graph, qty, At(graph, n, row.component))
    <3>1. CASE row.component \in DOMAIN known
      BY <2>3, <3>1
    <3>2. CASE row.component \notin DOMAIN known
      <4>1. At(graph, n, row.component) = {}
        BY <2>3, <3>2 DEF At
      <4>2. component = fresh
        BY <3>2
      <4>3. DOMAIN NoComponents = {} /\ IsDict(NoComponents)
        BY DEF NoComponents, IsDict
      <4>4. Collected(fresh, graph, qty, {})
        BY <4>3 DEF Collected
      <4>. QED BY <4>1, <4>2, <4>4
    <3>. QED BY <3>1, <3>2
  <2>5. row.path \in DOMAIN component.quantities => component.quantities[row.path] = row.quantities
    BY <1>3
  <2>6. Collected(grown, graph, qty, At(graph, n, row.component) \cup {n + 1})
    <3>. HIDE DEF component
    <3>. QED BY <2>4, <2>5, CollectedMore
  <2>7. /\ At(graph, n + 1, row.component) = At(graph, n, row.component) \cup {n + 1}
        /\ \A c : c # row.component => At(graph, n + 1, c) = At(graph, n, c)
    BY DEF At
  <2>8. /\ DOMAIN new.components = (DOMAIN known) \cup {row.component}
        /\ new.components[row.component] = grown
        /\ \A c \in DOMAIN known : c # row.component => new.components[c] = known[c]
    <3>. HIDE DEF known, grown, new
    <3>. DEFINE p == put(known, row.component, grown)
    <3>1. /\ DOMAIN p = (DOMAIN known) \cup {row.component} /\ p[row.component] = grown
          /\ \A c \in DOMAIN known : c # row.component => p[c] = known[c]
      BY DEF put
    <3>. HIDE DEF p
    <3>2. new.components = p
      BY <2>2 DEF p
    <3>. QED BY <3>1, <3>2
  <2>9. DOMAIN new.components = {graph[i].component : i \in 1 .. (n + 1)}
    <3>. HIDE DEF known, new
    <3>1. \A i \in 1 .. (n + 1) : i \in 1 .. n \/ i = n + 1
      OBVIOUS
    <3>2. 1 .. n \subseteq 1 .. (n + 1) /\ n + 1 \in 1 .. (n + 1)
      OBVIOUS
    <3>. QED BY <2>3, <2>8, <3>1, <3>2
  <2>10. ASSUME NEW c \in DOMAIN new.components
         PROVE  Collected(new.components[c], graph, qty, At(graph, n + 1, c))
    <3>. HIDE DEF known, new, grown
    <3>1. CASE c = row.component
      BY <2>6, <2>7, <2>8, <3>1
    <3>2. CASE c # row.component
      BY <2>3, <2>7, <2>8, <3>2
    <3>. QED BY <3>1, <3>2
  <2>. HIDE DEF new
  <2>. QED BY <2>2, <2>9, <2>10 DEF ReadUpTo, new
<1>. QED BY <1>2, <1>3

\* The loop over the GRAPH rows is defined row by row.
ReadRow(graph, qty, g, k) ==
  IF k = 0 THEN NothingRead ELSE read_graph_row(g[k - 1], graph[k], qty)

LEMMA GraphRead ==
  ASSUME NEW graph, Len(graph) \in Nat, NEW qty
  PROVE  ReadUpTo(read_graph(graph, qty), graph, qty, Len(graph))
<1>. DEFINE n == Len(graph)
            Good == {m \in Nat : \E g : \A k \in 0 .. n : k <= m => g[k] = ReadRow(graph, qty, g, k)}
<1>0. read_graph(graph, qty) = (CHOOSE u : u = [k \in 0 .. n |-> ReadRow(graph, qty, u, k)])[n]
  BY DEF read_graph, ReadRow
<1>a. n \in Nat
  OBVIOUS
<1>. HIDE DEF n
<1>1. 0 \in Good
  <2>1. \A k \in 0 .. n : k <= 0 => [i \in 0 .. n |-> NothingRead][k] =
                                      ReadRow(graph, qty, [i \in 0 .. n |-> NothingRead], k)
    BY DEF ReadRow
  <2>. QED BY <2>1
<1>2. \A m \in Good : m + 1 \in Good
  <2>. SUFFICES ASSUME NEW m \in Good PROVE m + 1 \in Good
    OBVIOUS
  <2>1. PICK g : \A k \in 0 .. n : k <= m => g[k] = ReadRow(graph, qty, g, k)
    OBVIOUS
  <2>. DEFINE h == [k \in 0 .. n |-> ReadRow(graph, qty, g, k)]
  <2>2. ASSUME NEW k \in 0 .. n, k <= m + 1
        PROVE  h[k] = ReadRow(graph, qty, h, k)
    <3>1. h[k] = ReadRow(graph, qty, g, k)
      OBVIOUS
    <3>2. CASE k = 0
      BY <3>1, <3>2 DEF ReadRow
    <3>3. CASE k # 0
      <4>1. k - 1 \in 0 .. n /\ k - 1 <= m
        BY <1>a, <2>2, <3>3
      <4>2. h[k - 1] = g[k - 1]
        BY <2>1, <4>1
      <4>. QED BY <3>1, <3>3, <4>2 DEF ReadRow
    <3>. QED BY <3>2, <3>3
  <2>3. \E f : \A k \in 0 .. n : k <= m + 1 => f[k] = ReadRow(graph, qty, f, k)
    <3>. HIDE DEF h
    <3>. QED BY <2>2
  <2>. QED BY <2>3
<1>3. n \in Good
  <2>. HIDE DEF Good
  <2>1. Good \in SUBSET Nat
    BY DEF Good
  <2>. QED BY <1>a, <1>1, <1>2, <2>1, SetInduction
<1>4. PICK g : \A k \in 0 .. n : k <= n => g[k] = ReadRow(graph, qty, g, k)
  BY <1>3
<1>. DEFINE f == [k \in 0 .. n |-> g[k]]
<1>5. f = [k \in 0 .. n |-> ReadRow(graph, qty, f, k)]
  <2>1. \A k \in 0 .. n : g[k] = ReadRow(graph, qty, g, k)
    BY <1>a, <1>4
  <2>2. \A k \in 0 .. n : ReadRow(graph, qty, g, k) = ReadRow(graph, qty, f, k)
    BY <1>a DEF ReadRow
  <2>. QED BY <2>1, <2>2
<1>. DEFINE c == CHOOSE u : u = [k \in 0 .. n |-> ReadRow(graph, qty, u, k)]
<1>6. c = [k \in 0 .. n |-> ReadRow(graph, qty, c, k)]
  <2>. HIDE DEF f
  <2>. QED BY <1>5
<1>7. read_graph(graph, qty) = c[n]
  BY <1>0
<1>. HIDE DEF c
<1>8. \A k \in 0 .. n : c[k] = ReadRow(graph, qty, c, k)
  BY <1>6
<1>. DEFINE Done == {m \in Nat : m <= n => ReadUpTo(c[m], graph, qty, m)}
<1>9. 0 \in Done
  <2>1. c[0] = NothingRead
    BY <1>a, <1>8 DEF ReadRow
  <2>2. "ok" \in DOMAIN NothingRead /\ DOMAIN NothingRead.components = {}
    BY DEF NothingRead, NoComponents
  <2>3. {graph[i].component : i \in 1 .. 0} = {}
    OBVIOUS
  <2>4. ReadUpTo(NothingRead, graph, qty, 0)
    BY <2>2, <2>3 DEF ReadUpTo
  <2>. QED BY <2>1, <2>4
<1>10. ASSUME NEW m \in Done PROVE m + 1 \in Done
  <2>. SUFFICES ASSUME m + 1 <= n PROVE ReadUpTo(c[m + 1], graph, qty, m + 1)
    OBVIOUS
  <2>1. /\ ReadUpTo(c[m], graph, qty, m) /\ m \in Nat
        /\ m + 1 \in 0 .. n /\ m + 1 # 0 /\ (m + 1) - 1 = m
    BY <1>a
  <2>2. c[m + 1] = read_graph_row(c[m], graph[m + 1], qty)
    BY <1>8, <2>1 DEF ReadRow
  <2>. QED BY <2>1, <2>2, RowRead
<1>11. n \in Done
  <2>. HIDE DEF Done
  <2>1. Done \in SUBSET Nat
    BY DEF Done
  <2>. QED BY <1>a, <1>9, <1>10, <2>1, SetInduction
<1>. QED BY <1>a, <1>7, <1>11 DEF n

-----------------------------------------------------------------------------
\* A sum of integers is one.
LEMMA TotalInt ==
  ASSUME NEW f, IsFiniteSet(DOMAIN f), \A p \in DOMAIN f : f[p] \in Int
  PROVE  Total(f) \in Int
<1>. DEFINE D == DOMAIN f
            size(s) == Cardinality(s)
            first(s) == CHOOSE y \in s : TRUE
            Good == {m \in Nat : \E g : \A s \in SUBSET D : size(s) <= m => g[s] = Summand(f, g, s)}
<1>0. Total(f) = (CHOOSE u : u = [s \in SUBSET D |-> Summand(f, u, s)])[D]
  BY TotalIs
<1>a. \A s \in SUBSET D : size(s) \in Nat /\ IsFiniteSet(s) /\ (size(s) <= 0 => s = {})
  <2>. TAKE s \in SUBSET D
  <2>1. IsFiniteSet(s)
    BY FS_Subset
  <2>2. size(s) \in Nat
    BY <2>1, FS_CardinalityType
  <2>. QED BY <2>1, <2>2, FS_EmptySet
<1>b. \A s \in SUBSET D : s # {} => /\ first(s) \in s /\ s \ {first(s)} \in SUBSET D
                                    /\ size(s \ {first(s)}) = size(s) - 1
                                    /\ f[first(s)] \in Int
  <2>. SUFFICES ASSUME NEW s \in SUBSET D, s # {}
                PROVE  /\ first(s) \in s /\ s \ {first(s)} \in SUBSET D
                       /\ size(s \ {first(s)}) = size(s) - 1
                       /\ f[first(s)] \in Int
    OBVIOUS
  <2>1. first(s) \in s
    OBVIOUS
  <2>. HIDE DEF first
  <2>2. size(s \ {first(s)}) = size(s) - 1
    BY <1>a, <2>1, FS_RemoveElement
  <2>. QED BY <2>1, <2>2
<1>c. \A g, s : Summand(f, g, s) = IF s = {} THEN 0 ELSE f[first(s)] + g[s \ {first(s)}]
  BY DEF Summand
<1>d. size(D) \in Nat
  BY FS_CardinalityType
<1>. HIDE DEF D, first, size
<1>1. 0 \in Good
  <2>. DEFINE g == [s \in SUBSET D |-> 0]
  <2>1. \A s \in SUBSET D : size(s) <= 0 => g[s] = Summand(f, g, s)
    BY <1>a, <1>c
  <2>. HIDE DEF g
  <2>. QED BY <2>1
<1>2. \A m \in Good : m + 1 \in Good
  <2>. SUFFICES ASSUME NEW m \in Good PROVE m + 1 \in Good
    OBVIOUS
  <2>1. PICK g : \A s \in SUBSET D : size(s) <= m => g[s] = Summand(f, g, s)
    OBVIOUS
  <2>. DEFINE h == [s \in SUBSET D |-> Summand(f, g, s)]
  <2>2. ASSUME NEW s \in SUBSET D, size(s) <= m + 1
        PROVE  h[s] = Summand(f, h, s)
    <3>1. h[s] = Summand(f, g, s)
      OBVIOUS
    <3>2. CASE s = {}
      BY <1>c, <3>1, <3>2
    <3>3. CASE s # {}
      <4>1. s \ {first(s)} \in SUBSET D /\ size(s \ {first(s)}) <= m
        BY <1>a, <1>b, <2>2, <3>3
      <4>2. h[s \ {first(s)}] = g[s \ {first(s)}]
        BY <2>1, <4>1
      <4>. HIDE DEF h
      <4>. QED BY <1>c, <3>1, <3>3, <4>2
    <3>. QED BY <3>2, <3>3
  <2>3. \E e : \A s \in SUBSET D : size(s) <= m + 1 => e[s] = Summand(f, e, s)
    <3>. HIDE DEF h
    <3>. QED BY <2>2
  <2>. QED BY <2>3
<1>3. size(D) \in Good
  <2>. HIDE DEF Good
  <2>1. Good \in SUBSET Nat
    BY DEF Good
  <2>. QED BY <1>d, <1>1, <1>2, <2>1, SetInduction
<1>4. PICK g : \A s \in SUBSET D : size(s) <= size(D) => g[s] = Summand(f, g, s)
  BY <1>3
<1>5. \A s \in SUBSET D : g[s] = Summand(f, g, s)
  <2>1. \A s \in SUBSET D : size(s) <= size(D)
    BY FS_Subset DEF size, D
  <2>. QED BY <1>4, <2>1
<1>. DEFINE e == [s \in SUBSET D |-> g[s]]
<1>6. e = [s \in SUBSET D |-> Summand(f, e, s)]
  <2>1. \A s \in SUBSET D : Summand(f, g, s) = Summand(f, e, s)
    <3>. TAKE s \in SUBSET D
    <3>1. CASE s = {}
      BY <1>c, <3>1
    <3>2. CASE s # {}
      <4>1. e[s \ {first(s)}] = g[s \ {first(s)}]
        BY <1>b, <3>2
      <4>. HIDE DEF e
      <4>. QED BY <1>c, <3>2, <4>1
    <3>. QED BY <3>1, <3>2
  <2>. QED BY <1>5, <2>1
<1>. DEFINE c == CHOOSE u : u = [s \in SUBSET D |-> Summand(f, u, s)]
<1>7. c = [s \in SUBSET D |-> Summand(f, c, s)]
  <2>. HIDE DEF e
  <2>. QED BY <1>6
<1>8. Total(f) = c[D]
  BY <1>0
<1>. HIDE DEF c
<1>9. \A s \in SUBSET D : c[s] = Summand(f, c, s)
  BY <1>7
<1>e. c[{}] = 0
  <2>1. {} \in SUBSET D
    OBVIOUS
  <2>2. Summand(f, c, {}) = 0
    BY DEF Summand
  <2>. QED BY <1>9, <2>1, <2>2
<1>. DEFINE Whole == {m \in Nat : \A s \in SUBSET D : size(s) <= m => c[s] \in Int}
<1>10. 0 \in Whole
  BY <1>a, <1>e
<1>11. ASSUME NEW m \in Whole PROVE m + 1 \in Whole
  <2>. SUFFICES ASSUME NEW s \in SUBSET D, size(s) <= m + 1 PROVE c[s] \in Int
    OBVIOUS
  <2>1. CASE s = {}
    BY <1>e, <2>1
  <2>2. CASE s # {}
    <3>1. /\ s \ {first(s)} \in SUBSET D /\ size(s \ {first(s)}) <= m
          /\ f[first(s)] \in Int
      BY <1>a, <1>b, <2>2
    <3>2. c[s \ {first(s)}] \in Int
      BY <3>1
    <3>3. c[s] = f[first(s)] + c[s \ {first(s)}]
      BY <1>c, <1>9, <2>2
    <3>. QED BY <3>1, <3>2, <3>3
  <2>. QED BY <2>1, <2>2
<1>12. size(D) \in Whole
  <2>. HIDE DEF Whole
  <2>1. Whole \in SUBSET Nat
    BY DEF Whole
  <2>. QED BY <1>d, <1>10, <1>11, <2>1, SetInduction
<1>. QED BY <1>8, <1>12, <1>d

\* What is required of a component is what its bill says.
LEMMA RequiredIs ==
  ASSUME NEW A, NEW graph \in Seq(A), NEW qty \in Int,
         \A g \in Range(graph) : g.quantities \in Seq(Int),
         NEW k, NEW c, Collected(k, graph, qty, At(graph, Len(graph), c))
  PROVE  /\ Total(k.paths) = RequiredFor(Range(graph), c, qty)
         /\ Total(k.paths) \in Int
         /\ k.suppliers = {g.supplier : g \in Bill(Range(graph), c)} \ {0}
<1>. DEFINE bill == Bill(Range(graph), c)
            at == At(graph, Len(graph), c)
            one(p) == CHOOSE g \in bill : g.path = p
            spec == [p \in {g.path : g \in bill} |-> Times(qty, one(p).quantities)]
<1>1. DOMAIN graph = 1 .. Len(graph) /\ Len(graph) \in Nat
  OBVIOUS
<1>2. /\ \A i \in at : graph[i] \in bill
      /\ \A g \in bill : \E i \in at : graph[i] = g
  BY <1>1 DEF At, Bill, Range
<1>3. \A g \in bill : g.quantities \in Seq(Int)
  BY DEF Bill
<1>4. RequiredFor(Range(graph), c, qty) = Total(spec)
  BY DEF RequiredFor
<1>5. /\ DOMAIN k.paths = {graph[i].path : i \in at}
      /\ \A p \in DOMAIN k.paths : k.paths[p] = Times(qty, k.quantities[p])
      /\ IsDict(k.paths)
      /\ k.suppliers = {graph[i].supplier : i \in at} \ {0}
      /\ \A i \in at : k.quantities[graph[i].path] = graph[i].quantities
  BY DEF Collected
<1>a. IsFiniteSet(at)
  <2>1. at \in SUBSET (1 .. Len(graph))
    BY DEF At
  <2>2. IsFiniteSet(1 .. Len(graph))
    BY <1>1, FS_Interval
  <2>. QED BY <2>1, <2>2, FS_Subset
<1>. HIDE DEF bill, at
<1>6. {graph[i].path : i \in at} = {g.path : g \in bill}
  BY <1>2
<1>7. {graph[i].supplier : i \in at} = {g.supplier : g \in bill}
  BY <1>2
<1>8. ASSUME NEW p \in {g.path : g \in bill}
      PROVE  one(p) \in bill /\ k.quantities[p] = one(p).quantities
  <2>1. one(p) \in bill /\ one(p).path = p
    OBVIOUS
  <2>. HIDE DEF one
  <2>2. PICK i \in at : graph[i] = one(p)
    BY <1>2, <2>1
  <2>. QED BY <1>5, <2>1, <2>2
<1>. HIDE DEF one
<1>9. /\ DOMAIN k.paths = {g.path : g \in bill}
      /\ \A p \in {g.path : g \in bill} : k.paths[p] = Times(qty, one(p).quantities)
  BY <1>5, <1>6, <1>8
<1>10. k.paths = spec
  <2>1. k.paths = [p \in DOMAIN k.paths |-> k.paths[p]]
    BY <1>5 DEF IsDict
  <2>2. \A p \in {g.path : g \in bill} : k.paths[p] = spec[p]
    BY <1>9
  <2>3. DOMAIN spec = {g.path : g \in bill} /\ spec = [p \in {g.path : g \in bill} |-> spec[p]]
    OBVIOUS
  <2>. HIDE DEF spec
  <2>. QED BY <1>9, <2>1, <2>2, <2>3
<1>11. \A p \in DOMAIN k.paths : k.paths[p] \in Int
  BY <1>3, <1>8, <1>9, TimesInt
<1>12. IsFiniteSet(DOMAIN k.paths)
  <2>. DEFINE T == {graph[i].path : i \in at}
              m == [i \in at |-> graph[i].path]
  <2>1. m \in Surjection(at, T)
    BY DEF Surjection
  <2>. HIDE DEF m
  <2>2. IsFiniteSet(T)
    BY <1>a, <2>1, FS_Surjection
  <2>. QED BY <1>5, <2>2
<1>13. Total(k.paths) \in Int
  BY <1>11, <1>12, TotalInt
<1>. HIDE DEF spec
<1>14. Total(k.paths) = RequiredFor(Range(graph), c, qty)
  BY <1>4, <1>10
<1>. QED BY <1>5, <1>7, <1>13, <1>14 DEF bill

\* The shortages are those that the bills and the stock say.
ShortagesAre(graph, sql, qty, rows) ==
  LET short == ShortIn(graph, sql, qty)
      required(c) == RequiredFor(graph, c, qty)
  IN  /\ Len(rows) = Cardinality(short) /\ DOMAIN rows = 1 .. Len(rows)
      /\ \A i \in DOMAIN rows : \E s \in short :
           /\ rows[i].component = s.component
           /\ rows[i].requiredQty = normalized(required(s.component))
           /\ rows[i].shortageQty = normalized(required(s.component) - s.actualStock)
           /\ rows[i].suppliers = {g.supplier : g \in Bill(graph, s.component)} \ {0}
      /\ \A i, j \in DOMAIN rows : i < j =>
           rows[i].shortageQty >= rows[j].shortageQty /\ rows[i].component # rows[j].component
      /\ \A g, h \in graph : g.component = h.component /\ g.path = h.path =>
           g.quantities = h.quantities

\* One row of the stock per component.
LEMMA OneStock ==
  ASSUME NEW B, NEW sql \in Seq(B), NEW components, sql_rows_valid(sql, components)
  PROVE  /\ \A s \in Range(sql) : s.component \in components
         /\ \A c \in components : \E s \in Range(sql) : s.component = c
         /\ \A s, t \in Range(sql) : s.component = t.component => s = t
<1>. DEFINE n == Len(sql)
            m == [k \in 1 .. n |-> sql[k].component]
            T == {sql[k].component : k \in DOMAIN sql}
<1>1. DOMAIN sql = 1 .. n /\ n \in Nat
  OBVIOUS
<1>2. Cardinality(T) = n /\ T = components
  BY DEF sql_rows_valid
<1>3. IsFiniteSet(1 .. n) /\ Cardinality(1 .. n) = n
  BY <1>1, FS_Interval
<1>. HIDE DEF n
<1>4. m \in Surjection(1 .. n, T)
  BY <1>1 DEF Surjection
<1>5. \A k \in 1 .. n : m[k] = sql[k].component
  OBVIOUS
<1>. HIDE DEF m
<1>6. m \in Injection(1 .. n, T)
  <2>. HIDE DEF T
  <2>. QED BY <1>2, <1>3, <1>4, FS_Surjection
<1>7. \A k, l \in 1 .. n : sql[k].component = sql[l].component => k = l
  BY <1>5, <1>6 DEF Injection, IsInjective
<1>8. \A s \in Range(sql) : \E k \in 1 .. n : sql[k] = s
  BY <1>1 DEF Range
<1>9. \A k \in 1 .. n : sql[k] \in Range(sql)
  BY <1>1 DEF Range
<1>10. \A s \in Range(sql) : s.component \in T
  BY <1>1, <1>8
<1>11. \A c \in T : \E s \in Range(sql) : s.component = c
  BY <1>1, <1>9
<1>12. \A s, t \in Range(sql) : s.component = t.component => s = t
  BY <1>7, <1>8
<1>. HIDE DEF T
<1>. QED BY <1>2, <1>10, <1>11, <1>12

LEMMA ShortagesRight ==
  ASSUME NEW A, NEW graph \in Seq(A), NEW B, NEW sql \in Seq(B), NEW qty \in Int,
         \A g \in Range(graph) : g.quantities \in Seq(Int),
         \A s \in Range(sql) : s.component \in Int /\ s.actualStock \in Int,
         NEW final, final = calculate_bom_shortages(graph, sql, qty), final.ok
  PROVE  ShortagesAre(Range(graph), Range(sql), qty, final.rows)
<1>. DEFINE G == Range(graph)
            S == Range(sql)
            read == read_graph(graph, qty)
            K == read.components
            stock(c) == CHOOSE r \in ToSet(sql) : r.component = c
            required(c) == Total(K[c].paths)
            short == {c \in DOMAIN K : ~stock(c).makeFlag /\ required(c) > stock(c).actualStock}
            row(c) == [component |-> c, cname |-> K[c].cname,
                       requiredQty |-> normalized(required(c)),
                       actualStock |-> normalized(stock(c).actualStock),
                       shortageQty |-> normalized(required(c) - stock(c).actualStock),
                       suppliers |-> K[c].suppliers]
            rows == {row(c) : c \in short}
            before == {p \in rows \X rows :
                         \/ p[1].shortageQty > p[2].shortageQty
                         \/ /\ p[1].shortageQty = p[2].shortageQty
                            /\ p[1].component < p[2].component}
            ok == /\ read.ok /\ Cardinality(read.finished) <= 1
                  /\ sql_rows_valid(sql, DOMAIN K)
            listed == InOrder(rows, before)
            wanted == ShortIn(G, S, qty)
<1>1. final = IF ok THEN [ok |-> TRUE, rows |-> listed] ELSE [ok |-> FALSE, rows |-> <<>>]
  BY Zenon DEF calculate_bom_shortages
<1>2. ok /\ final.rows = listed
  <2>. HIDE DEF ok, listed
  <2>. QED BY <1>1
<1>3. \A c \in DOMAIN K : Collected(K[c], graph, qty, At(graph, Len(graph), c))
  <2>1. Len(graph) \in Nat
    OBVIOUS
  <2>2. ReadUpTo(read, graph, qty, Len(graph))
    BY <2>1, GraphRead
  <2>. HIDE DEF read
  <2>. QED BY <1>2, <2>2 DEF ReadUpTo
<1>4. DOMAIN K = {graph[i].component : i \in 1 .. Len(graph)}
  <2>1. Len(graph) \in Nat
    OBVIOUS
  <2>2. ReadUpTo(read, graph, qty, Len(graph))
    BY <2>1, GraphRead
  <2>. HIDE DEF read
  <2>. QED BY <1>2, <2>2 DEF ReadUpTo
<1>5. sql_rows_valid(sql, DOMAIN K)
  BY <1>2
<1>. HIDE DEF K
<1>6. \A c \in DOMAIN K : /\ required(c) = RequiredFor(G, c, qty) /\ required(c) \in Int
                          /\ K[c].suppliers = {g.supplier : g \in Bill(G, c)} \ {0}
  BY <1>3, RequiredIs
<1>7. \A c \in DOMAIN K : stock(c) \in S /\ stock(c).component = c
  <2>1. ToSet(sql) = S
    BY DEF ToSet, Range
  <2>2. \A c \in DOMAIN K : \E s \in S : s.component = c
    BY <1>5, OneStock
  <2>. HIDE DEF S
  <2>. QED BY <2>1, <2>2
<1>8. \A s \in S : s.component \in DOMAIN K /\ stock(s.component) = s
  <2>1. \A s \in S : s.component \in DOMAIN K
    BY <1>5, OneStock
  <2>2. \A s, t \in S : s.component = t.component => s = t
    BY <1>5, OneStock
  <2>. HIDE DEF S, stock
  <2>. QED BY <1>7, <2>1, <2>2
<1>9. \A c \in DOMAIN K : c \in Int /\ stock(c).actualStock \in Int
  BY <1>7
<1>. HIDE DEF stock, required, S
<1>10. wanted = {s \in S : s.component \in short}
  <2>1. \A s \in S : s \in wanted <=> s.component \in short
    <3>. TAKE s \in S
    <3>1. stock(s.component) = s /\ s.component \in DOMAIN K
      BY <1>8
    <3>2. required(s.component) = RequiredFor(G, s.component, qty)
      BY <1>6, <3>1
    <3>. QED BY <3>1, <3>2 DEF ShortIn
  <2>2. wanted \subseteq S
    BY DEF ShortIn
  <2>. HIDE DEF wanted, short
  <2>. QED BY <2>1, <2>2
<1>11. \A c \in short : stock(c) \in wanted /\ stock(c).component = c /\ c \in DOMAIN K
  <2>1. \A c \in short : c \in DOMAIN K
    OBVIOUS
  <2>. HIDE DEF wanted, short
  <2>. QED BY <1>7, <1>10, <2>1
<1>12. \A c \in short :
         /\ row(c).component = c
         /\ row(c).requiredQty = normalized(RequiredFor(G, c, qty))
         /\ row(c).shortageQty = normalized(RequiredFor(G, c, qty) - stock(c).actualStock)
         /\ row(c).suppliers = {g.supplier : g \in Bill(G, c)} \ {0}
         /\ row(c).shortageQty \in Int /\ c \in Int
  <2>. TAKE c \in short
  <2>1. c \in DOMAIN K
    OBVIOUS
  <2>2. /\ row(c).component = c
        /\ row(c).requiredQty = normalized(required(c))
        /\ row(c).shortageQty = normalized(required(c) - stock(c).actualStock)
        /\ row(c).suppliers = K[c].suppliers
    OBVIOUS
  <2>3. normalized(required(c) - stock(c).actualStock) \in Int
    <3>. DEFINE v == required(c) - stock(c).actualStock
    <3>1. required(c) \in Int /\ stock(c).actualStock \in Int
      BY <1>6, <1>9, <2>1
    <3>2. v \in Int
      BY <3>1
    <3>. HIDE DEF v
    <3>3. normalized(v) \in Int
      BY <3>2, NormalizedInt
    <3>. QED BY <3>3 DEF v
  <2>. HIDE DEF short, row
  <2>. QED BY <1>6, <1>9, <2>1, <2>2, <2>3
<1>. HIDE DEF row, wanted, short
<1>13. \A r \in rows : r.component \in short /\ r = row(r.component)
  BY <1>12
<1>14. \A r \in rows : r.component \in Int /\ r.shortageQty \in Int
  BY <1>12, <1>13
<1>15. \A r, t \in rows : r.component = t.component => r = t
  BY <1>13
<1>16. \A r, t \in rows : <<r, t>> \in before <=>
                            \/ r.shortageQty > t.shortageQty
                            \/ r.shortageQty = t.shortageQty /\ r.component < t.component
  <2>. HIDE DEF rows
  <2>. QED OBVIOUS
<1>17. IsFiniteSet(wanted)
  <2>1. IsFiniteSet(S)
    <3>. DEFINE n == Len(sql)
    <3>1. n \in Nat /\ sql \in [1 .. n -> B]
      OBVIOUS
    <3>2. S \subseteq {sql[k] : k \in 1 .. n}
      BY <3>1 DEF S, Range
    <3>. HIDE DEF n
    <3>. QED BY <3>1, <3>2, ImageFinite
  <2>2. wanted \in SUBSET S
    BY <1>10
  <2>. QED BY <2>1, <2>2, FS_Subset
<1>18. IsFiniteSet(rows) /\ Cardinality(rows) = Cardinality(wanted)
  <2>. DEFINE m == [s \in wanted |-> row(s.component)]
  <2>1. \A s \in wanted : s.component \in short /\ s = stock(s.component)
    BY <1>8, <1>10
  <2>2. m \in [wanted -> rows]
    BY <2>1
  <2>3. \A s, t \in wanted : m[s] = m[t] => s = t
    BY <1>12, <2>1
  <2>4. \A r \in rows : \E s \in wanted : m[s] = r
    BY <1>11
  <2>. HIDE DEF rows, m
  <2>5. m \in Surjection(wanted, rows)
    BY <2>2, <2>4 DEF Surjection
  <2>6. m \in Injection(wanted, rows)
    BY <2>2, <2>3 DEF Injection, IsInjective
  <2>. QED BY <1>17, <2>5, <2>6, FS_Surjection
<1>. HIDE DEF rows, before
<1>19. Orders(before, rows)
  <2>1. \A r \in rows : <<r, r>> \notin before
    BY <1>14, <1>16
  <2>2. \A r, t, u \in rows : <<r, t>> \in before /\ <<t, u>> \in before => <<r, u>> \in before
    <3>. SUFFICES ASSUME NEW r \in rows, NEW t \in rows, NEW u \in rows,
                         <<r, t>> \in before, <<t, u>> \in before
                  PROVE  <<r, u>> \in before
      OBVIOUS
    <3>. DEFINE qr == r.shortageQty
                qt == t.shortageQty
                qu == u.shortageQty
                cr == r.component
                ct == t.component
                cu == u.component
    <3>1. qr \in Int /\ qt \in Int /\ qu \in Int /\ cr \in Int /\ ct \in Int /\ cu \in Int
      BY <1>14
    <3>2. qr > qt \/ (qr = qt /\ cr < ct)
      BY <1>16
    <3>3. qt > qu \/ (qt = qu /\ ct < cu)
      BY <1>16
    <3>. HIDE DEF qr, qt, qu, cr, ct, cu
    <3>4. qr > qu \/ (qr = qu /\ cr < cu)
      BY <3>1, <3>2, <3>3
    <3>. QED BY <1>16, <3>4 DEF qr, qu, cr, cu
  <2>3. \A r, t \in rows : r # t => <<r, t>> \in before \/ <<t, r>> \in before
    BY <1>14, <1>15, <1>16, SMTT(30)
  <2>. QED BY <2>1, <2>2, <2>3 DEF Orders
<1>20. /\ Cardinality(rows) \in Nat /\ DOMAIN listed = 1 .. Cardinality(rows)
       /\ \A i \in 1 .. Cardinality(rows) : listed[i] \in rows
       /\ \A i, j \in 1 .. Cardinality(rows) : i < j => <<listed[i], listed[j]>> \in before
  BY <1>18, <1>19, InOrderLists
<1>21. Len(listed) = Cardinality(rows)
  <2>1. listed \in Seq(Range(listed))
    BY <1>18, ListedInOrder
  <2>2. DOMAIN listed = 1 .. Len(listed) /\ Len(listed) \in Nat
    BY <2>1
  <2>. HIDE DEF listed
  <2>. QED BY <1>20, <2>2
<1>. HIDE DEF listed
<1>22. ASSUME NEW i \in DOMAIN listed
       PROVE  \E s \in wanted :
                /\ listed[i].component = s.component
                /\ listed[i].requiredQty = normalized(RequiredFor(G, s.component, qty))
                /\ listed[i].shortageQty = normalized(RequiredFor(G, s.component, qty) - s.actualStock)
                /\ listed[i].suppliers = {g.supplier : g \in Bill(G, s.component)} \ {0}
  <2>. DEFINE c == listed[i].component
  <2>1. c \in short /\ listed[i] = row(c)
    BY <1>13, <1>20
  <2>. HIDE DEF c
  <2>2. stock(c) \in wanted /\ stock(c).component = c
    BY <1>11, <2>1
  <2>. QED BY <1>12, <2>1, <2>2
<1>23. ASSUME NEW i \in DOMAIN listed, NEW j \in DOMAIN listed, i < j
       PROVE  listed[i].shortageQty >= listed[j].shortageQty /\ listed[i].component # listed[j].component
  <2>1. listed[i] \in rows /\ listed[j] \in rows /\ <<listed[i], listed[j]>> \in before
    BY <1>20, <1>23
  <2>2. listed[i] # listed[j]
    BY <1>19, <2>1 DEF Orders
  <2>. QED BY <1>14, <1>15, <1>16, <2>1, <2>2
<1>24. ASSUME NEW g \in G, NEW h \in G, g.component = h.component, g.path = h.path
       PROVE  g.quantities = h.quantities
  <2>1. DOMAIN graph = 1 .. Len(graph)
    OBVIOUS
  <2>2. PICK i \in 1 .. Len(graph) : graph[i] = g
    BY <2>1 DEF Range
  <2>3. PICK j \in 1 .. Len(graph) : graph[j] = h
    BY <2>1 DEF Range
  <2>. DEFINE c == g.component
  <2>4. c \in DOMAIN K
    BY <1>4, <2>2
  <2>5. i \in At(graph, Len(graph), c) /\ j \in At(graph, Len(graph), c)
    BY <1>24, <2>2, <2>3 DEF At
  <2>. HIDE DEF c
  <2>6. K[c].quantities[graph[i].path] = graph[i].quantities /\ K[c].quantities[graph[j].path] = graph[j].quantities
    BY <1>3, <2>4, <2>5 DEF Collected
  <2>. QED BY <1>24, <2>2, <2>3, <2>6
<1>25. ShortagesAre(G, S, qty, listed)
  <2>. HIDE DEF G
  <2>. QED BY <1>18, <1>20, <1>21, <1>22, <1>23, <1>24 DEF ShortagesAre, wanted
<1>. QED BY <1>2, <1>25 DEF S

\* What a result of the transformation promises: BomAsSpecified for given rows.
BillRight(graph, sql, qty, c) ==
  LET required(k) == RequiredFor(graph, k, qty)
      short == ShortIn(graph, sql, qty)
      rows == c.rows
  IN  /\ c.total_count = Cardinality(short)
      /\ \A i \in DOMAIN rows : \E s \in short :
           /\ rows[i].component = s.component
           /\ rows[i].requiredQty = normalized(required(s.component))
           /\ rows[i].shortageQty = normalized(required(s.component) - s.actualStock)
           /\ rows[i].suppliers = {g.supplier : g \in Bill(graph, s.component)} \ {0}
      /\ \A i, j \in DOMAIN rows : i < j =>
           rows[i].shortageQty >= rows[j].shortageQty /\ rows[i].component # rows[j].component
      /\ \A g, h \in graph : g.component = h.component /\ g.path = h.path =>
           g.quantities = h.quantities

LEMMA NothingShort ==
  ASSUME NEW qty, NEW c, c.rows = <<>>, c.total_count = 0
  PROVE  BillRight({}, {}, qty, c)
<1>1. ShortIn({}, {}, qty) = {}
  BY DEF ShortIn
<1>2. Cardinality({}) = 0
  BY FS_EmptySet
<1>3. DOMAIN c.rows = {}
  OBVIOUS
<1>. QED BY <1>1, <1>2, <1>3, Zenon DEF BillRight

LEMMA FirstOfShortages ==
  ASSUME NEW graph, NEW sql, NEW qty, NEW rows, NEW T, rows \in Seq(T),
         ShortagesAre(graph, sql, qty, rows),
         NEW most \in Nat, most <= Len(rows),
         NEW c, c.rows = SubSeq(rows, 1, most), c.total_count = Len(rows)
  PROVE  BillRight(graph, sql, qty, c)
<1>1. DOMAIN c.rows \subseteq DOMAIN rows /\ DOMAIN c.rows \subseteq Int
  BY Prefix
<1>2. \A i \in DOMAIN c.rows : c.rows[i] = rows[i]
  BY Prefix
<1>. DEFINE short == ShortIn(graph, sql, qty)
            required(k) == RequiredFor(graph, k, qty)
            Of(row) == \E s \in short :
              /\ row.component = s.component
              /\ row.requiredQty = normalized(required(s.component))
              /\ row.shortageQty = normalized(required(s.component) - s.actualStock)
              /\ row.suppliers = {g.supplier : g \in Bill(graph, s.component)} \ {0}
<1>3. /\ Len(rows) = Cardinality(short)
      /\ \A i \in DOMAIN rows : Of(rows[i])
      /\ \A i, j \in DOMAIN rows : i < j =>
           rows[i].shortageQty >= rows[j].shortageQty /\ rows[i].component # rows[j].component
      /\ \A g, h \in graph : g.component = h.component /\ g.path = h.path =>
           g.quantities = h.quantities
  BY Zenon DEF ShortagesAre
<1>. HIDE DEF short, Of
<1>4. \A i \in DOMAIN c.rows : Of(c.rows[i])
  BY <1>1, <1>2, <1>3
<1>5. \A i, j \in DOMAIN c.rows : i < j =>
        c.rows[i].shortageQty >= c.rows[j].shortageQty /\ c.rows[i].component # c.rows[j].component
  BY <1>1, <1>2, <1>3
<1>6. c.total_count = Cardinality(short)
  BY <1>3
<1>. QED BY <1>3, <1>4, <1>5, <1>6, Zenon DEF BillRight, short, Of

LEMMA ShortageRight ==
  ASSUME NEW sources, NEW qty \in Int, NEW c, c = compose_bom_shortage(sources, qty), ~c.error,
         \A k \in 1 .. 2 : sources[k].rows \in Seq(Range(sources[k].rows)),
         \A g \in Range(sources[1].rows) : g.quantities \in Seq(Int),
         \A s \in Range(sources[2].rows) : s.component \in Int /\ s.actualStock \in Int
  PROVE  BillRight(Range(sources[1].rows), Range(sources[2].rows), qty, c)
<1>. DEFINE graph == sources[1].rows
            sql == sources[2].rows
            final == calculate_bom_shortages(graph, sql, qty)
            total == Len(final.rows)
            most == IF total < RowLimit THEN total ELSE RowLimit
            stored == SubSeq(final.rows, 1, most)
            reason == IF total = 0 THEN "NO_DATA" ELSE "none"
            cut == \E i \in 1 .. 2 : sources[i].truncated
            none == \A i \in 1 .. 2 : sources[i].rows = <<>>
            more == Len(stored) < total
<1>1. c = IF cut THEN composition_failure("joined", TRUE)
          ELSE IF none THEN composed_rows("joined", <<>>, overall_empty_reason(sources), 0, FALSE)
          ELSE IF ~final.ok THEN composition_failure("joined", FALSE)
          ELSE composed_rows("joined", stored, reason, total, more)
  BY Zenon DEF compose_bom_shortage
<1>2. composition_failure("joined", TRUE).error /\ composition_failure("joined", FALSE).error
  BY DEF composition_failure
<1>3. graph \in Seq(Range(graph)) /\ sql \in Seq(Range(sql))
  OBVIOUS
<1>4. none => Range(graph) = {} /\ Range(sql) = {}
  BY DEF Range
<1>5. final.ok => ShortagesAre(Range(graph), Range(sql), qty, final.rows)
  <2>. HIDE DEF final
  <2>. SUFFICES ASSUME final.ok PROVE ShortagesAre(Range(graph), Range(sql), qty, final.rows)
    OBVIOUS
  <2>1. final = calculate_bom_shortages(graph, sql, qty)
    BY DEF final
  <2>. QED BY <1>3, <2>1, ShortagesRight
<1>6. final.rows \in Seq(Range(final.rows))
  BY <1>3, ShortagesListed
<1>. HIDE DEF final, graph, sql
<1>7. total \in Nat /\ most \in Nat /\ most <= total
  BY <1>6, RowLimitAssumption
<1>. HIDE DEF reason, cut, none, more
<1>8. CASE none
  <2>1. c = composed_rows("joined", <<>>, overall_empty_reason(sources), 0, FALSE)
    <3>. HIDE DEF stored, total, most
    <3>. QED BY <1>1, <1>2, <1>8
  <2>2. c.rows = <<>> /\ c.total_count = 0
    BY <2>1 DEF composed_rows
  <2>3. BillRight({}, {}, qty, c)
    BY <2>2, NothingShort
  <2>. QED BY <1>4, <1>8, <2>3 DEF graph, sql
<1>9. CASE ~none
  <2>1. final.ok /\ c = composed_rows("joined", stored, reason, total, more)
    <3>. HIDE DEF stored, total, most
    <3>. QED BY <1>1, <1>2, <1>9
  <2>2. c.rows = stored /\ c.total_count = total
    <3>. HIDE DEF stored, total, most
    <3>. QED BY <2>1 DEF composed_rows
  <2>3. ShortagesAre(Range(graph), Range(sql), qty, final.rows)
    BY <1>5, <2>1
  <2>. HIDE DEF most
  <2>4. BillRight(Range(graph), Range(sql), qty, c)
    BY <1>6, <1>7, <2>2, <2>3, FirstOfShortages
  <2>. QED BY <2>4 DEF graph, sql
<1>. QED BY <1>8, <1>9

\* Every shortage of a bill of materials counts each distinct path once, lists a
\* purchased component iff it is short, with all its suppliers, in the order of the
\* shortages, and rows that disagree about a path are an error: for bills of any
\* depth, any number of rows in any order, and any quantities.
THEOREM BillsAreRight == AnswerSpec => []BomAsSpecified
<1>1. AnswerInv => BomAsSpecified
  <2>. SUFFICES ASSUME AnswerInv, composed.mode = "joined", ~composed.error, input.plan.qty # 0
                PROVE  BomAsSpecified
    BY DEF BomAsSpecified
  <2>1. input \in Inputs /\ input.plan.ids # <<>> /\ composed = compose_results(input.plan, input.sources)
    BY ComposedSound DEF AnswerInv
  <2>. DEFINE qty == input.plan.qty
              graph == input.sources[1].rows
              sql == input.sources[2].rows
  <2>2. Len(input.plan.ids) = 2 /\ composed = compose_bom_shortage(input.sources, qty)
    <3>1. composition_failure(composition_mode(input.plan), FALSE).error
      BY FailureIs
    <3>2. composed # composition_failure(composition_mode(input.plan), FALSE)
      BY <3>1, Zenon
    <3>3. Shaped(input, composed)
      BY <2>1, <3>2, Shapes
    <3>. QED BY <3>3 DEF Shaped
  <2>3. \A k \in 1 .. 2 : input.sources[k].rows \in Seq(Range(input.sources[k].rows))
    BY <2>1, <2>2, SourcesAre
  <2>4. /\ qty \in Int
        /\ \A g \in Range(graph) : g.quantities \in Seq(Int)
        /\ \A s \in Range(sql) : s.component \in Int /\ s.actualStock \in Int
    BY <2>1, InputsAssumption
  <2>5. BillRight(Range(graph), Range(sql), qty, composed)
    BY <2>2, <2>3, <2>4, ShortageRight
  <2>6. ToSet(graph) = Range(graph) /\ ToSet(sql) = Range(sql)
    BY DEF ToSet, Range
  <2>. HIDE DEF qty, graph, sql
  <2>7. BillRight(ToSet(graph), ToSet(sql), qty, composed)
    BY <2>5, <2>6
  <2>. QED BY <2>7, Zenon DEF BomAsSpecified, BillRight, qty, graph, sql
<1>. QED BY <1>1, AnswerSteps, PTL
=============================================================================
