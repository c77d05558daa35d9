---------------------------- MODULE AnalyticsProofs ----------------------------
(***************************************************************************)
(* Proof that the dashboard shows no money twice and that the customers    *)
(* page loses none.  A sum is a number of units, so that one sum bounds    *)
(* another when the units of the one go into those of the other: the units *)
(* of an intent that the service settled go into those of a payment in its *)
(* transaction, which no other intent names (NoDoubleClaim) and which has  *)
(* at least as many (Fulfils).  The page loses nothing because the payer   *)
(* of a settlement stays on file (PayersOnFile).                           *)
(***************************************************************************)
EXTENDS Analytics, LifecycleProofs, FiniteSetTheorems, FunctionTheorems

-----------------------------------------------------------------------------
(***************************************************************************)
(* Number: rounding a natural number gives a natural number.               *)
(***************************************************************************)
LEMMA PowerOfTwo ==
    ASSUME NEW n \in Nat
    PROVE  2 ^ n \in Nat /\ n < 2 ^ n
<1> DEFINE f == [j \in 0..n |-> IF j = 0 THEN {} ELSE {j}]
<1>1. IsFiniteSet(1..n) /\ Cardinality(1..n) = n
  BY FS_Interval
<1>2. IsFiniteSet(SUBSET (1..n)) /\ Cardinality(SUBSET (1..n)) = 2 ^ n
  BY <1>1, FS_SUBSET
<1>3. 2 ^ n \in Nat
  BY <1>2, FS_CardinalityType
<1>4. f \in [0..n -> SUBSET (1..n)]
  OBVIOUS
<1>5. \A a, b \in 0..n : f[a] = f[b] => a = b
  OBVIOUS
<1>6. f \in Injection(0..n, SUBSET (1..n))
  BY <1>4, <1>5, Fun_IsInj
<1>7. Cardinality(0..n) <= 2 ^ n
  BY <1>2, <1>6, FS_Injection
<1>8. Cardinality(0..n) = n + 1
  BY FS_Interval
<1>9. QED
  BY <1>3, <1>7, <1>8

\* A nonempty set of natural numbers has a least element.
LEMMA LeastNumber ==
    ASSUME NEW N \in SUBSET Nat, N # {}
    PROVE  \E k \in N : \A j \in N : k <= j
<1>1. PICK k \in N : \A j \in N : ~ (<<j, k>> \in OpToRel(<, Nat))
  BY NatLessThanWellFounded, WFMin, Zenon
<1>2. ASSUME NEW j \in N
      PROVE  ~(j < k)
  BY <1>1, <1>2, j \in Nat, k \in Nat, Zenon DEF OpToRel
<1>3. QED
  BY <1>2

LEMMA AtLeast ==
    ASSUME NEW u \in Nat \ {0}, NEW x \in Nat
    PROVE  u * x \in Nat /\ u * x >= x
<1>1. PICK v \in Nat : u = v + 1
  BY u - 1 \in Nat
<1>2. v * x \in Nat /\ u * x = v * x + x
  BY <1>1
<1>3. QED
  BY <1>2

LEMMA FineType == Fine \in Nat
<1> DEFINE n        == Unit * 2 ^ Precision
           reaching == {k \in 0..n : Reaches(k)}
           Exact(k) == Reaches(k) /\ \A j \in 0..(k - 1) : ~Reaches(j)
           chosen   == CHOOSE k \in 0..n : Exact(k)
<1>1. n \in Nat
  BY NumberAssumption, PowerOfTwo, AtLeast
<1>2. Reaches(n)
  <2> HIDE DEF n
  <2>1. n <= 2 ^ n
    BY <1>1, PowerOfTwo
  <2>2. QED
    BY <2>1 DEF Reaches, n
<1> HIDE DEF n
<1>3. PICK k \in reaching : \A j \in reaching : k <= j
  <2>1. reaching \subseteq Nat /\ n \in reaching
    BY <1>1, <1>2
  <2> HIDE DEF reaching
  <2>2. QED
    BY <2>1, LeastNumber
<1>4. Exact(k)
  <2> SUFFICES ASSUME NEW j \in 0..(k - 1), Reaches(j) PROVE FALSE
    BY <1>3
  <2>1. j \in reaching /\ j < k
    BY <1>1, <1>3
  <2>2. QED
    BY <1>3, <2>1
<1>5. chosen \in 0..n
  BY <1>3, <1>4
<1>6. Fine = chosen
  BY DEF Fine, n
<1> HIDE DEF chosen
<1>7. QED
  BY <1>1, <1>5, <1>6

LEMMA ScaledType ==
    ASSUME NEW a \in Nat
    PROVE  Scaled(a) \in Nat
<1>1. 2 ^ Fine \in Nat
  BY FineType, PowerOfTwo
<1>2. QED
  BY <1>1 DEF Scaled

LEMMA UlpPositive ==
    ASSUME NEW a \in Nat
    PROVE  Ulp(a) \in Nat \ {0}
<1> DEFINE n        == Scaled(a)
           fitting  == {k \in 0..n : Fits(a, k)}
           Exact(k) == Fits(a, k) /\ \A j \in 0..(k - 1) : ~Fits(a, j)
           chosen   == CHOOSE k \in 0..n : Exact(k)
<1>1. n \in Nat
  BY ScaledType
<1>2. Fits(a, n)
  <2> HIDE DEF n
  <2>1. Precision + n \in Nat /\ n <= Precision + n
    BY <1>1, NumberAssumption
  <2>2. 2 ^ (Precision + n) \in Nat /\ n < 2 ^ (Precision + n)
    BY <1>1, <2>1, PowerOfTwo
  <2>3. /\ Unit * 2 ^ (Precision + n) \in Nat
        /\ Unit * 2 ^ (Precision + n) >= 2 ^ (Precision + n)
    BY <2>2, NumberAssumption, AtLeast
  <2>4. n < Unit * 2 ^ (Precision + n)
    <3> DEFINE x == 2 ^ (Precision + n)
               y == Unit * x
    <3>1. n \in Nat /\ x \in Nat /\ y \in Nat /\ n < x /\ y >= x
      BY <1>1, <2>2, <2>3
    <3> HIDE DEF x, y
    <3>2. n < y
      BY <3>1
    <3>3. QED
      BY <3>2 DEF x, y
  <2>5. QED
    BY <2>4 DEF Fits, n
<1> HIDE DEF n
<1>3. PICK k \in fitting : \A j \in fitting : k <= j
  <2>1. fitting \subseteq Nat /\ n \in fitting
    BY <1>1, <1>2
  <2> HIDE DEF fitting
  <2>2. QED
    BY <2>1, LeastNumber
<1>4. Exact(k)
  <2> SUFFICES ASSUME NEW j \in 0..(k - 1), Fits(a, j) PROVE FALSE
    BY <1>3
  <2>1. j \in fitting /\ j < k
    BY <1>1, <1>3
  <2>2. QED
    BY <1>3, <2>1
<1>5. chosen \in 0..n
  BY <1>3, <1>4
<1>6. Ulp(a) = 2 ^ chosen
  BY DEF Ulp, n
<1> HIDE DEF chosen
<1>7. chosen \in Nat
  BY <1>1, <1>5
<1>8. QED
  BY <1>6, <1>7, PowerOfTwo

LEMMA NumberType ==
    ASSUME NEW a \in Nat
    PROVE  Number(a) \in Nat
<1> DEFINE u    == Ulp(a)
           step == Unit * u
           down == Scaled(a) \div step
           rest == 2 * (Scaled(a) % step)
           up   == rest > step \/ (rest = step /\ down % 2 = 1)
           n    == IF up THEN down + 1 ELSE down
<1>1. u \in Nat \ {0} /\ Scaled(a) \in Nat
  BY UlpPositive, ScaledType
<1>2. Number(a) = n * u
  BY DEF Number
<1> HIDE DEF u
<1>3. step \in Nat \ {0}
  BY <1>1, NumberAssumption, AtLeast
<1> HIDE DEF step
<1>4. down \in Nat
  BY <1>1, <1>3
<1> HIDE DEF down, up
<1>5. n \in Nat
  BY <1>4
<1> HIDE DEF n
<1>6. QED
  BY <1>1, <1>2, <1>5

-----------------------------------------------------------------------------
(***************************************************************************)
(* Sums.                                                                   *)
(***************************************************************************)
LEMMA UnitsOf ==
    ASSUME NEW f
    PROVE  /\ \A u \in Units(f) : u[1] \in DOMAIN f /\ u[2] \in 1..f[u[1]] /\ u = <<u[1], u[2]>>
           /\ \A x \in DOMAIN f : \A k \in 1..f[x] : <<x, k>> \in Units(f)
BY DEF Units

\* The image of a finite set is finite, and no larger.
LEMMA FiniteImage ==
    ASSUME NEW f, IsFiniteSet(DOMAIN f), NEW T, T = {f[x] : x \in DOMAIN f}
    PROVE  IsFiniteSet(T) /\ Cardinality(T) <= Cardinality(DOMAIN f)
<1> DEFINE g == [x \in DOMAIN f |-> f[x]]
<1>1. g \in [DOMAIN f -> T] /\ \A y \in T : \E x \in DOMAIN f : g[x] = y
  OBVIOUS
<1>2. g \in Surjection(DOMAIN f, T)
  BY <1>1, Fun_IsSurj
<1>3. QED
  BY <1>2, FS_Surjection

LEMMA UnitsFinite ==
    ASSUME NEW f, IsFiniteSet(DOMAIN f), \A x \in DOMAIN f : f[x] \in Nat
    PROVE  IsFiniteSet(Units(f)) /\ SumOf(f) \in Nat
<1> DEFINE g     == [x \in DOMAIN f |-> {x} \X (1..f[x])]
           parts == {g[x] : x \in DOMAIN f}
<1>1. IsFiniteSet(parts)
  BY FiniteImage
<1>2. ASSUME NEW part \in parts
      PROVE  IsFiniteSet(part)
  <2>1. PICK x \in DOMAIN f : part = {x} \X (1..f[x])
    OBVIOUS
  <2>2. f[x] \in Int /\ 1 \in Int
    OBVIOUS
  <2>3. IsFiniteSet(1..f[x])
    BY <2>2, FS_Interval, Zenon
  <2>4. IsFiniteSet({x})
    BY FS_Singleton, Zenon
  <2>5. QED
    BY <2>1, <2>3, <2>4, FS_Product
<1>3. UNION parts = Units(f)
  BY DEF Units
<1> HIDE DEF parts
<1>4. IsFiniteSet(Units(f))
  BY <1>1, <1>2, <1>3, FS_UNION
<1>5. QED
  BY <1>4, FS_CardinalityType DEF SumOf

\* One sum bounds another when every value of the one has a value of the
\* other to itself, which is at least as large.
LEMMA SumMaps ==
    ASSUME NEW f, NEW g, IsFiniteSet(DOMAIN g), \A y \in DOMAIN g : g[y] \in Nat,
           \A x \in DOMAIN f : f[x] \in Nat,
           NEW to \in Injection(DOMAIN f, DOMAIN g), \A x \in DOMAIN f : f[x] <= g[to[x]]
    PROVE  SumOf(f) <= SumOf(g)
<1> DEFINE h == [u \in Units(f) |-> <<to[u[1]], u[2]>>]
<1>1. to \in [DOMAIN f -> DOMAIN g] /\ \A x, y \in DOMAIN f : to[x] = to[y] => x = y
  BY Fun_InjectionProperties
<1>2. ASSUME NEW u \in Units(f)
      PROVE  h[u] \in Units(g)
  <2>1. u[1] \in DOMAIN f /\ u[2] \in 1..f[u[1]]
    BY UnitsOf
  <2>2. to[u[1]] \in DOMAIN g /\ u[2] \in 1..g[to[u[1]]]
    BY <1>1, <2>1
  <2>3. QED
    BY <2>2, UnitsOf
<1>3. ASSUME NEW u \in Units(f), NEW v \in Units(f), h[u] = h[v]
      PROVE  u = v
  <2>1. u[1] \in DOMAIN f /\ v[1] \in DOMAIN f /\ u = <<u[1], u[2]>> /\ v = <<v[1], v[2]>>
    BY UnitsOf
  <2>2. to[u[1]] = to[v[1]] /\ u[2] = v[2]
    BY <1>3
  <2>3. u[1] = v[1]
    BY <1>1, <2>1, <2>2
  <2>4. QED
    BY <2>1, <2>2, <2>3
<1>4. h \in Injection(Units(f), Units(g))
  <2>1. h \in [Units(f) -> Units(g)]
    BY <1>2
  <2> HIDE DEF h
  <2>2. QED
    BY <1>3, <2>1, Fun_IsInj
<1>5. IsFiniteSet(Units(g))
  BY UnitsFinite
<1>6. QED
  BY <1>4, <1>5, FS_Injection DEF SumOf

(***************************************************************************)
(* The sum of the sizes of disjoint sets is the size of their union.       *)
(***************************************************************************)
Disjoint(A) == \A x, y \in DOMAIN A : x # y => A[x] \cap A[y] = {}

LEMMA SumOfSizes ==
    ASSUME NEW A, NEW T, IsFiniteSet(T), \A x \in DOMAIN A : A[x] \subseteq T, Disjoint(A),
           NEW size, DOMAIN size = DOMAIN A, \A x \in DOMAIN A : size[x] = Cardinality(A[x])
    PROVE  /\ SumOf(size) \in Nat /\ SumOf(size) <= Cardinality(T)
           /\ (\A t \in T : \E x \in DOMAIN A : t \in A[x]) => SumOf(size) = Cardinality(T)
<1> DEFINE Numbers(x, b) == b \in Bijection(1..size[x], A[x])
           count == [x \in DOMAIN A |-> CHOOSE b : Numbers(x, b)]
           h     == [u \in Units(size) |-> count[u[1]][u[2]]]
<1>1. ASSUME NEW x \in DOMAIN A
      PROVE  /\ IsFiniteSet(A[x]) /\ size[x] \in Nat /\ count[x] \in Bijection(1..size[x], A[x])
  <2>1. IsFiniteSet(A[x])
    BY FS_Subset
  <2>2. \E b : Numbers(x, b)
    BY <2>1, FS_CardinalityType DEF ExistsBijection
  <2>3. Numbers(x, count[x])
    BY <2>2
  <2>4. QED
    BY <2>1, <2>3, FS_CardinalityType
<1> HIDE DEF count
<1>2. ASSUME NEW x \in DOMAIN A
      PROVE  /\ \A k \in 1..size[x] : count[x][k] \in A[x]
             /\ \A k, m \in 1..size[x] : count[x][k] = count[x][m] => k = m
             /\ \A t \in A[x] : \E k \in 1..size[x] : count[x][k] = t
  BY <1>1, Fun_BijectionProperties
<1>3. \A u \in Units(size) : u[1] \in DOMAIN A /\ u[2] \in 1..size[u[1]] /\ u = <<u[1], u[2]>>
  BY UnitsOf
<1>4. h \in [Units(size) -> T]
  BY <1>2, <1>3
<1>5. ASSUME NEW u \in Units(size), NEW v \in Units(size), h[u] = h[v]
      PROVE  u = v
  <2>1. h[u] \in A[u[1]] /\ h[v] \in A[v[1]]
    BY <1>2, <1>3
  <2>2. u[1] = v[1]
    BY <1>3, <1>5, <2>1 DEF Disjoint
  <2>3. u[2] = v[2]
    BY <1>2, <1>3, <1>5, <2>2
  <2>4. QED
    BY <1>3, <2>2, <2>3
<1>6. h \in Injection(Units(size), T)
  BY <1>4, <1>5, Fun_IsInj
<1>7. /\ IsFiniteSet(Units(size)) /\ SumOf(size) <= Cardinality(T)
      /\ h \in Surjection(Units(size), T) => SumOf(size) = Cardinality(T)
  BY <1>6, FS_Injection DEF SumOf
<1>8. ASSUME \A t \in T : \E x \in DOMAIN A : t \in A[x]
      PROVE  h \in Surjection(Units(size), T)
  <2>1. ASSUME NEW t \in T
        PROVE  \E u \in Units(size) : h[u] = t
    <3>1. PICK x \in DOMAIN A : t \in A[x]
      BY <1>8
    <3>2. PICK k \in 1..size[x] : count[x][k] = t
      BY <1>2, <3>1
    <3>3. <<x, k>> \in Units(size)
      BY <3>1, <3>2, UnitsOf
    <3>4. QED
      BY <3>2, <3>3
  <2>2. QED
    BY <1>4, <2>1, Fun_IsSurj
<1>9. SumOf(size) \in Nat
  BY <1>7, FS_CardinalityType DEF SumOf
<1>10. QED
  BY <1>7, <1>8, <1>9

-----------------------------------------------------------------------------
(***************************************************************************)
(* Totals of intents.                                                      *)
(***************************************************************************)
LEMMA StoredFinite == ASSUME TypeOK, NEW ids \in SUBSET Stored PROVE IsFiniteSet(ids)
<1>1. IsFiniteSet(Id)
  BY Bounds, FS_Interval DEF Id
<1>2. ids \subseteq Id
  BY DEF Stored
<1>3. QED
  BY <1>1, <1>2, FS_Subset

LEMMA StoredAmounts ==
    ASSUME TypeOK, NEW i \in Stored
    PROVE  Num(intents[i].amount) \in Nat
<1>1. intents[i].amount \in Nat \cup {NULL}
  BY DEF TypeOK, ServiceTypeOK, Stored, Row, Optional
<1>2. QED
  BY <1>1, NumberType DEF Num

LEMMA NoTotal == Total({}) = 0
<1>1. Units([i \in {} |-> Num(intents[i].amount)]) = {}
  BY DEF Units
<1>2. QED
  BY <1>1, FS_EmptySet DEF Total, SumOf

\* The totals of disjoint parts add up to no more than the total of the whole,
\* and to just that if they leave nothing out.
LEMMA TotalsAdd ==
    ASSUME TypeOK, NEW ids \in SUBSET Stored,
           NEW part, \A x \in DOMAIN part : part[x] \subseteq ids, Disjoint(part),
           NEW total, DOMAIN total = DOMAIN part, \A x \in DOMAIN part : total[x] = Total(part[x])
    PROVE  /\ SumOf(total) \in Nat /\ SumOf(total) <= Total(ids)
           /\ (\A i \in ids : \E x \in DOMAIN part : i \in part[x]) => SumOf(total) = Total(ids)
<1> DEFINE Amounts(p) == [i \in p |-> Num(intents[i].amount)]
           units == [x \in DOMAIN part |-> Units(Amounts(part[x]))]
           all   == Units(Amounts(ids))
<1>1. ASSUME NEW p, NEW i \in p, NEW k \in 1..Num(intents[i].amount)
      PROVE  <<i, k>> \in Units(Amounts(p))
  BY UnitsOf
<1>2. ASSUME NEW p, NEW u \in Units(Amounts(p))
      PROVE  u[1] \in p /\ u[2] \in 1..Num(intents[u[1]].amount) /\ u = <<u[1], u[2]>>
  BY UnitsOf
<1>3. IsFiniteSet(all)
  BY StoredFinite, StoredAmounts, UnitsFinite
<1>4. Total(ids) = Cardinality(all) /\ \A x \in DOMAIN part : total[x] = Cardinality(units[x])
  BY DEF Total, SumOf
<1> HIDE DEF Amounts
<1>5. \A x \in DOMAIN units : units[x] \subseteq all
  <2> SUFFICES ASSUME NEW x \in DOMAIN part, NEW u \in Units(Amounts(part[x])) PROVE u \in all
    OBVIOUS
  <2>1. u[1] \in part[x] /\ u[2] \in 1..Num(intents[u[1]].amount) /\ u = <<u[1], u[2]>>
    BY <1>2
  <2>2. <<u[1], u[2]>> \in all
    BY <1>1, <2>1
  <2>3. QED
    BY <2>1, <2>2
<1>6. Disjoint(units)
  <2> SUFFICES ASSUME NEW x \in DOMAIN part, NEW y \in DOMAIN part, x # y,
                      NEW u \in units[x], u \in units[y]
               PROVE  FALSE
    BY DEF Disjoint
  <2>1. u[1] \in part[x] /\ u[1] \in part[y]
    BY <1>2
  <2>2. QED
    BY <2>1 DEF Disjoint
<1>7. ASSUME \A i \in ids : \E x \in DOMAIN part : i \in part[x]
      PROVE  \A u \in all : \E x \in DOMAIN units : u \in units[x]
  <2> SUFFICES ASSUME NEW u \in all PROVE \E x \in DOMAIN part : u \in units[x]
    OBVIOUS
  <2>1. u[1] \in ids /\ u[2] \in 1..Num(intents[u[1]].amount) /\ u = <<u[1], u[2]>>
    BY <1>2
  <2>2. PICK x \in DOMAIN part : u[1] \in part[x]
    BY <1>7, <2>1
  <2>3. <<u[1], u[2]>> \in units[x]
    BY <1>1, <2>1, <2>2
  <2>4. QED
    BY <2>1, <2>2, <2>3
<1>8. DOMAIN units = DOMAIN part
  OBVIOUS
<1> HIDE DEF units, all
<1>9. QED
  BY <1>3, <1>4, <1>5, <1>6, <1>7, <1>8, SumOfSizes

\* The totals of two disjoint sets of intents add up to that of their union.
LEMMA TotalOfTwo ==
    ASSUME TypeOK, NEW A \in SUBSET Stored, NEW B \in SUBSET Stored, A \cap B = {}
    PROVE  /\ Total(A) \in Nat /\ Total(B) \in Nat
           /\ Total(A \cup B) = Total(A) + Total(B)
<1> DEFINE Amounts(ids) == [i \in ids |-> Num(intents[i].amount)]
           UA == Units(Amounts(A))
           UB == Units(Amounts(B))
<1>1. ASSUME NEW ids \in SUBSET Stored
      PROVE  IsFiniteSet(Units(Amounts(ids))) /\ Total(ids) = Cardinality(Units(Amounts(ids)))
  BY StoredFinite, StoredAmounts, UnitsFinite DEF Total, SumOf
<1>2. IsFiniteSet(UA) /\ IsFiniteSet(UB) /\ Total(A) = Cardinality(UA) /\ Total(B) = Cardinality(UB)
  BY <1>1
<1>3. Total(A \cup B) = Cardinality(Units(Amounts(A \cup B)))
  BY <1>1
<1>4. Units(Amounts(A \cup B)) = UA \cup UB
  BY DEF Units
<1>5. UA \cap UB = {}
  <2> SUFFICES ASSUME NEW u \in UA, u \in UB PROVE FALSE
    OBVIOUS
  <2>1. u[1] \in A /\ u[1] \in B
    BY UnitsOf
  <2>2. QED
    BY <2>1
<1> HIDE DEF UA, UB, Amounts
<1>6. /\ Cardinality(UA) \in Nat /\ Cardinality(UB) \in Nat
      /\ Cardinality(UA \cup UB) = Cardinality(UA) + Cardinality(UB) - Cardinality(UA \cap UB)
  BY <1>2, FS_Union, FS_CardinalityType
<1>7. Cardinality(UA \cap UB) = 0
  BY <1>5, FS_EmptySet
<1>8. Total(A \cup B) = Cardinality(UA \cup UB)
  BY <1>3, <1>4
<1>9. Cardinality(UA \cup UB) = Cardinality(UA) + Cardinality(UB)
  BY <1>6, <1>7
<1>10. QED
  BY <1>2, <1>6, <1>8, <1>9

-----------------------------------------------------------------------------
(***************************************************************************)
(* The customers page.                                                     *)
(***************************************************************************)
LEMMA PageTotal ==
    ASSUME TypeOK, NEW user \in Username, NEW settled,
           settled = WithStatus({"SUCCEEDED"}, {i \in Stored : intents[i].owner = user})
    PROVE  LET page == CustomersPage(user)
           IN  SumOf([line \in FirstLines(user) |-> page[line].total]) + Total(OffPage(user))
                  = Total(settled)
<1> DEFINE stats   == PayerStats(user)
           page    == CustomersPage(user)
           lines   == FirstLines(user)
           off     == OffPage(user)
           on      == settled \ off
           part    == [line \in lines |->
                          {i \in on : line[1] # NULL /\ intents[i].source = line[1]}]
           total   == [line \in lines |-> page[line].total]
<1>1. on \subseteq Stored /\ off \subseteq Stored /\ on \cap off = {}
  BY DEF WithStatus, OffPage
<1>2. settled = on \cup off
  BY DEF WithStatus, OffPage
<1>3. ASSUME NEW i \in on
      PROVE  /\ i \in Stored /\ intents[i].owner = user /\ intents[i].status = "SUCCEEDED"
             /\ \E line \in lines : line[1] # NULL /\ line[1] = intents[i].source
  BY DEF WithStatus, OffPage
<1>4. ASSUME NEW line \in lines
      PROVE  page[line].total = Total(part[line])
  <2> DEFINE account == line[1]
             paid    == {i \in Stored : intents[i].owner = user /\ intents[i].source # NULL}
             ids     == {i \in paid : intents[i].source = account}
  <2>0. line \in DOMAIN page
    BY DEF FirstLines
  <2>1. CASE account \in DOMAIN stats
    <3>1. account # NULL
      BY <2>1 DEF PayerStats
    <3>2. page[line].total = Total(WithStatus({"SUCCEEDED"}, ids))
      BY <2>0, <2>1 DEF CustomersPage, PayerStats
    <3>3. WithStatus({"SUCCEEDED"}, ids) = {i \in on : intents[i].source = account}
      BY <1>4, <3>1 DEF WithStatus, OffPage
    <3>4. QED
      BY <3>1, <3>2, <3>3
  <2>2. CASE account \notin DOMAIN stats
    <3>1. page[line].total = 0
      BY <2>0, <2>2 DEF CustomersPage
    <3>2. part[line] = {}
      BY <1>3, <2>2 DEF PayerStats
    <3>3. QED
      BY <3>1, <3>2, NoTotal
  <2>3. QED
    BY <2>1, <2>2
<1>5. \A line \in DOMAIN part : part[line] \subseteq on
  OBVIOUS
<1>6. ASSUME NEW a \in lines, NEW b \in lines, a[1] = b[1]
      PROVE  a = b
  <2>1. DOMAIN page = UNION {{x} \X (1..customers[<<user, x>>].rows) : x \in Optional(Account)}
    BY DEF CustomersPage
  <2>2. ASSUME NEW line \in DOMAIN page
        PROVE  line = <<line[1], line[2]>>
    <3> HIDE DEF page
    <3>1. PICK x \in Optional(Account) : line \in {x} \X (1..customers[<<user, x>>].rows)
      BY <2>1, <2>2
    <3>2. QED
      BY <3>1
  <2>3. a = <<a[1], 1>> /\ b = <<b[1], 1>>
    BY <1>6, <2>2 DEF FirstLines
  <2>4. QED
    BY <1>6, <2>3
<1>7. Disjoint(part)
  BY <1>6 DEF Disjoint
<1>8. \A i \in on : \E line \in DOMAIN part : i \in part[line]
  BY <1>3
<1>9. DOMAIN total = DOMAIN part /\ \A line \in DOMAIN part : total[line] = Total(part[line])
  BY <1>4
<1> HIDE DEF stats, page, lines, off, on, part, total
<1>10. SumOf(total) = Total(on)
  BY <1>1, <1>5, <1>7, <1>8, <1>9, TotalsAdd
<1>11. Total(settled) = Total(on) + Total(off)
  BY <1>1, <1>2, TotalOfTwo
<1>12. QED
  BY <1>10, <1>11 DEF total, page, lines, off

LEMMA PayersTotal ==
    ASSUME TypeOK, LifecycleInv, PayersOnFile
    PROVE  PayersAddUp
<1> SUFFICES ASSUME NEW user \in Username, NEW i \in OffPage(user) \ patched
             PROVE  \/ OnFile(user, intents[i].source)
                    \/ /\ intents[i].kind = "TX"
                       /\ \E other \in Account \ {intents[i].source} :
                             PaidFrom(intents[i].txHash, other)
  BY PageTotal DEF PayersAddUp
<1>1. /\ i \in Stored /\ intents[i] \in Row /\ intents[i].owner = user
      /\ intents[i].status = "SUCCEEDED"
  BY DEF OffPage, TypeOK, ServiceTypeOK, Stored
<1>2. CASE intents[i].kind = "PAY"
  <2>1. intents[i].source # NULL
    BY <1>1 DEF LifecycleInv, SettledHasSource
  <2>2. QED
    BY <1>1, <1>2, <2>1 DEF PayersOnFile
<1>3. CASE intents[i].kind = "TX"
  <2>1. PICK payer \in Account : PaidFrom(intents[i].txHash, payer) /\ OnFile(user, payer)
    BY <1>1 DEF PayersOnFile
  <2>2. CASE payer = intents[i].source
    BY <2>1, <2>2
  <2>3. CASE payer # intents[i].source
    BY <1>3, <2>1, <2>3
  <2>4. QED
    BY <2>2, <2>3
<1>4. QED
  BY <1>1, <1>2, <1>3 DEF Row

-----------------------------------------------------------------------------
(***************************************************************************)
(* The dashboard.                                                          *)
(***************************************************************************)
\* The settled intents of one key.
SettledOf(c, network, label) == {i \in SettledOn(network, label) : intents[i].owner = c.username}

LEMMA KeyOfNetwork ==
    ASSUME NEW network \in Network, NEW c \in Keys(network)
    PROVE  /\ AnalyticsNetwork(c) = network /\ c.username \in Username
           /\ \A d \in Keys(network) : d.username = c.username => d = c
BY DEF Network, Keys, AnalyticsNetwork

\* What a key is shown of an asset is the total of its settled intents.
LEMMA ShownRows ==
    ASSUME NEW network \in Network, NEW c \in Keys(network), NEW label
    PROVE  /\ SettledShown(c, label) = Total(SettledOf(c, network, label))
           /\ VolumeShown(c, label) = Total(SettledOf(c, network, label))
           /\ CountShown(c, label) = Cardinality(SettledOf(c, network, label))
<1> DEFINE rows == SettledOf(c, network, label)
           succeeded == WithStatus({"SUCCEEDED"}, InScope(c))
<1>1. rows = WithStatus({"SUCCEEDED"}, OfAsset(label, InScope(c)))
  BY KeyOfNetwork DEF SettledOf, SettledOn, WithStatus, OfAsset, InScope
<1>2. rows = OfAsset(label, succeeded)
  BY KeyOfNetwork DEF SettledOf, SettledOn, WithStatus, OfAsset, InScope
<1>3. label \notin LabelsOf(InScope(c)) => rows = {}
  BY <1>1 DEF LabelsOf, WithStatus, OfAsset
<1>4. label \notin LabelsOf(succeeded) => rows = {}
  BY <1>2 DEF LabelsOf, OfAsset
<1> HIDE DEF rows
<1>5. SettledShown(c, label) = Total(rows)
  BY <1>1, <1>3, NoTotal DEF SettledShown, Balances
<1>6. CountShown(c, label) = Cardinality(rows)
  BY <1>1, <1>3, FS_EmptySet DEF CountShown, Balances
<1>7. VolumeShown(c, label) = Total(rows)
  BY <1>2, <1>4, NoTotal DEF VolumeShown, Volume
<1>8. QED
  BY <1>5, <1>6, <1>7 DEF rows

\* The positions of the ledger are finitely many.
LEMMA PayingFinite ==
    ASSUME TypeOK, NEW network, NEW label
    PROVE  /\ IsFiniteSet(Paying(network, label)) /\ IsFiniteSet({pos[1] : pos \in Paying(network, label)})
           /\ \A pos \in Paying(network, label) : Num(TxRecord[pos[1]].ops[pos[2]].amount) \in Nat
<1>1. ledger \in Seq(Tx)
  BY DEF TypeOK, ServiceTypeOK
<1>2. IsFiniteSet(Landed(ledger)) /\ Landed(ledger) \subseteq Tx
  <2>1. IsFiniteSet(DOMAIN ledger)
    BY <1>1, FS_Interval
  <2>2. QED
    BY <1>1, <2>1, FiniteImage DEF Landed
<1> DEFINE at(t)     == {<<t, k>> : k \in DOMAIN TxRecord[t].ops}
           atOf      == [t \in Landed(ledger) |-> at(t)]
           parts     == {atOf[t] : t \in Landed(ledger)}
           positions == UNION parts
<1>3. IsFiniteSet(parts)
  BY <1>2, FiniteImage
<1>4. ASSUME NEW t \in Landed(ledger)
      PROVE  IsFiniteSet(at(t))
  <2> DEFINE pair == [k \in DOMAIN TxRecord[t].ops |-> <<t, k>>]
  <2>1. IsFiniteSet(DOMAIN pair)
    BY <1>2, LedgerAssumption
  <2>2. at(t) = {pair[k] : k \in DOMAIN pair}
    OBVIOUS
  <2> HIDE DEF pair
  <2>3. QED
    BY <2>1, <2>2, FiniteImage
<1>5. IsFiniteSet(positions)
  <2>1. \A part \in parts : IsFiniteSet(part)
    BY <1>4
  <2> HIDE DEF parts
  <2>2. QED
    BY <1>3, <2>1, FS_UNION
<1>6. Paying(network, label) \subseteq positions
  BY DEF Paying
<1>7. ASSUME NEW pos \in Paying(network, label)
      PROVE  pos[1] \in Landed(ledger) /\ Num(TxRecord[pos[1]].ops[pos[2]].amount) \in Nat
  <2>1. /\ pos[1] \in Landed(ledger) /\ pos[2] \in DOMAIN TxRecord[pos[1]].ops
        /\ TxRecord[pos[1]].ops[pos[2]].type = "payment"
    BY DEF Paying
  <2>2. TxRecord[pos[1]].ops[pos[2]].amount \in Nat
    BY <1>2, <2>1, LedgerAssumption
  <2>3. QED
    BY <2>1, <2>2, NumberType DEF Num
<1>8. {pos[1] : pos \in Paying(network, label)} \subseteq Landed(ledger)
  BY <1>7
<1>9. QED
  BY <1>2, <1>5, <1>6, <1>7, <1>8, FS_Subset

\* An intent the service settled has a payment of its asset to itself, of its
\* amount at least.
LEMMA PaidFor ==
    ASSUME TypeOK, SettlementInv,
           NEW network \in Network, NEW label, NEW i \in SettledOn(network, label) \ patched
    PROVE  \E k : /\ <<intents[i].txHash, k>> \in Paying(network, label)
                  /\ Num(intents[i].amount) <= Num(TxRecord[intents[i].txHash].ops[k].amount)
<1> DEFINE row == intents[i]
           h   == row.txHash
           tx  == TxRecord[h]
<1>1. i \in Stored /\ row \in Row /\ row.network = network /\ AssetLabel(row.asset) = label
  BY DEF SettledOn, TypeOK, ServiceTypeOK, Stored
<1>2. h \in Landed(ledger) /\ Fulfils(h, row)
  BY <1>1 DEF SettledOn, SettlementInv, VerifiedSettlement
<1>3. h \in Tx
  BY <1>2 DEF Landed, TypeOK, ServiceTypeOK
<1> HIDE DEF h, row
<1>4. PICK k \in DOMAIN tx.ops :
         /\ tx.ops[k].type = "payment"
         /\ IF row.asset = "native" THEN tx.ops[k].assetType = "native"
            ELSE <<tx.ops[k].assetCode, tx.ops[k].assetIssuer>> = <<row.asset, row.assetIssuer>>
         /\ row.amount # NULL => Number(tx.ops[k].amount) = Number(row.amount)
  BY <1>2 DEF Fulfils
<1>5. tx.network = network /\ tx.successful
  BY <1>1, <1>2 DEF Fulfils
<1>6. /\ tx.ops[k].amount \in Nat
      /\ tx.ops[k].assetType = "native" => tx.ops[k].assetCode = NULL
  BY <1>3, <1>4, LedgerAssumption
<1>7. label = IF tx.ops[k].assetType = "native" THEN "XLM" ELSE tx.ops[k].assetCode
  <2>1. CASE row.asset = "native"
    BY <1>1, <1>4, <2>1 DEF AssetLabel
  <2>2. CASE row.asset # "native"
    <3>1. row.asset \in AssetCode /\ row.asset # NULL /\ tx.ops[k].assetCode = row.asset
      BY <1>1, <1>4, <2>2, LedgerAssumption DEF Row
    <3>2. QED
      BY <1>1, <1>6, <2>2, <3>1 DEF AssetLabel
  <2>3. QED
    BY <2>1, <2>2
<1>8. <<h, k>> \in Paying(network, label)
  BY <1>2, <1>4, <1>5, <1>7 DEF Paying
<1>9. Num(row.amount) <= Num(tx.ops[k].amount)
  BY <1>4, <1>6, NumberType, LedgerAssumption DEF Num
<1>10. QED
  BY <1>8, <1>9 DEF row, h

\* The total of the intents the service settled is covered by payments of their
\* own.
LEMMA SettledArrived ==
    ASSUME TypeOK, SettlementInv, NEW network \in Network, NEW label
    PROVE  LET settled == SettledOn(network, label) \ patched
           IN  /\ Total(settled) <= Arrived(Paying(network, label))
               /\ Cardinality(settled) <= Cardinality({pos[1] : pos \in Paying(network, label)})
<1> DEFINE settled == SettledOn(network, label) \ patched
           paying  == Paying(network, label)
           txs     == {pos[1] : pos \in paying}
           Pays(i, k) == /\ <<intents[i].txHash, k>> \in paying
                         /\ Num(intents[i].amount) <= Num(TxRecord[intents[i].txHash].ops[k].amount)
           op      == [i \in settled |-> CHOOSE k : Pays(i, k)]
           to      == [i \in settled |-> <<intents[i].txHash, op[i]>>]
           hash    == [i \in settled |-> intents[i].txHash]
           due     == [i \in settled |-> Num(intents[i].amount)]
           paid    == [pos \in paying |-> Num(TxRecord[pos[1]].ops[pos[2]].amount)]
<1>1. ASSUME NEW i \in settled
      PROVE  /\ to[i] \in paying /\ hash[i] \in txs /\ to[i][1] = hash[i]
             /\ due[i] \in Nat /\ due[i] <= paid[to[i]]
  <2>1. \E k : Pays(i, k)
    BY PaidFor
  <2>2. Pays(i, op[i])
    BY <2>1
  <2>3. i \in Stored
    BY DEF SettledOn
  <2> HIDE DEF op
  <2>4. QED
    BY <2>2, <2>3, StoredAmounts
<1>2. ASSUME NEW i \in settled, NEW j \in settled, hash[i] = hash[j]
      PROVE  i = j
  <2>1. i \in Stored /\ j \in Stored /\ intents[i].txHash = intents[j].txHash
    BY <1>2 DEF SettledOn
  <2>2. intents[i].txHash \in Landed(ledger)
    BY DEF SettledOn, SettlementInv, VerifiedSettlement
  <2>3. intents[i].txHash # NULL
    BY <2>2, ServiceAssumption DEF TypeOK, ServiceTypeOK, Landed
  <2>4. QED
    BY <2>1, <2>3 DEF SettlementInv, NoDoubleClaim
<1>3. /\ DOMAIN to = settled /\ DOMAIN hash = settled /\ DOMAIN due = settled /\ DOMAIN paid = paying
      /\ Total(settled) = SumOf(due) /\ Arrived(paying) = SumOf(paid)
  BY DEF Total, Arrived
<1>4. /\ IsFiniteSet(paying) /\ IsFiniteSet(txs) /\ \A pos \in paying : paid[pos] \in Nat
  BY PayingFinite
<1>5. to \in [settled -> paying] /\ hash \in [settled -> txs]
  BY <1>1
<1> HIDE DEF settled, paying, txs, to, hash, due, paid
<1>6. to \in Injection(settled, paying)
  BY <1>1, <1>2, <1>5, Fun_IsInj
<1>7. hash \in Injection(settled, txs)
  BY <1>2, <1>5, Fun_IsInj
<1>8. SumOf(due) <= SumOf(paid)
  BY <1>1, <1>3, <1>4, <1>6, SumMaps
<1>9. Cardinality(settled) <= Cardinality(txs)
  BY <1>4, <1>7, FS_Injection
<1>10. QED
  BY <1>3, <1>8, <1>9 DEF settled, paying, txs

LEMMA DashboardBacked ==
    ASSUME TypeOK, SettlementInv
    PROVE  SettledIsBacked
<1> SUFFICES ASSUME NEW network \in Network, NEW label
             PROVE  LET declared == Declared(network, label)
                        money    == Arrived(Paying(network, label)) + Total(declared)
                    IN  /\ SumOf([c \in Keys(network) |-> SettledShown(c, label)]) <= money
                        /\ SumOf([c \in Keys(network) |-> VolumeShown(c, label)]) <= money
                        /\ SumOf([c \in Keys(network) |-> CountShown(c, label)])
                              <= Cardinality({pos[1] : pos \in Paying(network, label)})
                                    + Cardinality(declared)
  BY DEF SettledIsBacked
<1> DEFINE keys     == Keys(network)
           all      == SettledOn(network, label)
           declared == Declared(network, label)
           verified == all \ patched
           arrived  == Arrived(Paying(network, label))
           txs      == {pos[1] : pos \in Paying(network, label)}
           part     == [c \in keys |-> SettledOf(c, network, label)]
           settled  == [c \in keys |-> SettledShown(c, label)]
           volume   == [c \in keys |-> VolumeShown(c, label)]
           count    == [c \in keys |-> CountShown(c, label)]
<1>1. all \subseteq Stored /\ \A c \in DOMAIN part : part[c] \subseteq all
  BY DEF SettledOn, SettledOf
<1>2. Disjoint(part)
  BY KeyOfNetwork DEF Disjoint, SettledOf
<1>3. /\ DOMAIN settled = DOMAIN part /\ DOMAIN volume = DOMAIN part /\ DOMAIN count = DOMAIN part
      /\ \A c \in DOMAIN part : /\ settled[c] = Total(part[c]) /\ volume[c] = Total(part[c])
                                 /\ count[c] = Cardinality(part[c])
  BY ShownRows
<1>4. /\ all = verified \cup declared /\ verified \cap declared = {}
      /\ verified \subseteq Stored /\ declared \subseteq Stored
  BY <1>1 DEF Declared
<1>5. Total(verified) <= arrived /\ Cardinality(verified) <= Cardinality(txs)
  BY SettledArrived
<1>6. arrived \in Nat
  BY PayingFinite, UnitsFinite DEF Arrived
<1>7. IsFiniteSet(txs) /\ Cardinality(txs) \in Nat
  BY PayingFinite, FS_CardinalityType
<1> HIDE DEF all, declared, verified, arrived, txs, part, settled, volume, count
<1>8. IsFiniteSet(all) /\ IsFiniteSet(verified) /\ IsFiniteSet(declared)
  BY <1>1, <1>4, StoredFinite
<1>9. /\ Total(verified) \in Nat /\ Total(declared) \in Nat
      /\ Total(all) = Total(verified) + Total(declared)
  BY <1>4, TotalOfTwo
<1>10. /\ Cardinality(verified) \in Nat /\ Cardinality(declared) \in Nat
       /\ Cardinality(all) = Cardinality(verified) + Cardinality(declared)
  <2>1. Cardinality(verified \cup declared)
           = Cardinality(verified) + Cardinality(declared) - Cardinality(verified \cap declared)
    BY <1>8, FS_Union
  <2>2. Cardinality(verified \cap declared) = 0
    BY <1>4, FS_EmptySet
  <2>3. QED
    BY <1>4, <1>8, <2>1, <2>2, FS_CardinalityType
<1>11. /\ SumOf(settled) \in Nat /\ SumOf(settled) <= Total(all)
       /\ SumOf(volume) \in Nat /\ SumOf(volume) <= Total(all)
  BY <1>1, <1>2, <1>3, TotalsAdd
<1>12. SumOf(count) \in Nat /\ SumOf(count) <= Cardinality(all)
  BY <1>1, <1>2, <1>3, <1>8, SumOfSizes
<1>13. /\ SumOf(settled) <= arrived + Total(declared)
       /\ SumOf(volume) <= arrived + Total(declared)
  BY <1>5, <1>6, <1>9, <1>11
<1>14. SumOf(count) <= Cardinality(txs) + Cardinality(declared)
  BY <1>5, <1>7, <1>10, <1>12
<1>15. QED
  BY <1>13, <1>14 DEF settled, volume, count, arrived, declared, txs

-----------------------------------------------------------------------------
(***************************************************************************)
(* Payers stay on file.                                                    *)
(***************************************************************************)
Filed(c) == c.rows > 0 \/ c.finding > 0 \/ c.creating > 0 \/ c.removed

CountsKept == \A key \in CustomerKey : Filed(customers[key]) => Filed(customers'[key])

EmitsKept == \A q \in Proc : task[q].step = "emit" => task'[q] = task[q]

FileKept ==
    \A user \in Username, account \in Account : OnFile(user, account) => OnFile(user, account)'

LEMMA FileByFault == ASSUME TypeOK, faults' = faults + 1 PROVE FileKept
<1>1. faults' > 0
  BY Bounds DEF TypeOK, ServiceTypeOK
<1>2. QED
  BY <1>1 DEF FileKept, OnFile

LEMMA FileStays ==
    ASSUME CountsKept, EmitsKept, faults' = faults
    PROVE  FileKept
<1> SUFFICES ASSUME NEW user \in Username, NEW account \in Account, OnFile(user, account)
             PROVE  OnFile(user, account)'
  BY DEF FileKept
<1> DEFINE key == <<user, account>>
<1>1. key \in CustomerKey
  BY DEF CustomerKey, Optional
<1>2. CASE Filed(customers[key])
  <2>1. Filed(customers'[key])
    BY <1>1, <1>2 DEF CountsKept
  <2>2. QED
    BY <2>1 DEF Filed, OnFile
<1>3. CASE faults > 0
  BY <1>3 DEF OnFile
<1>4. CASE \E p \in Proc : /\ task[p].step = "emit" /\ task[p].event.owner = user
                           /\ task[p].payer = account
  <2>1. PICK p \in Proc : /\ task[p].step = "emit" /\ task[p].event.owner = user
                          /\ task[p].payer = account
    BY <1>4
  <2>2. task'[p] = task[p]
    BY <2>1 DEF EmitsKept
  <2>3. QED
    BY <2>1, <2>2 DEF OnFile
<1>5. QED
  BY <1>2, <1>3, <1>4 DEF OnFile, Filed

LEMMA SameCounts == ASSUME UNCHANGED customers PROVE CountsKept
BY DEF CountsKept

LEMMA SameEmits == ASSUME UNCHANGED task PROVE EmitsKept
BY DEF EmitsKept

LEMMA OtherEmits ==
    ASSUME TypeOK, NEW p \in Proc, NEW t, Goto(p, t), task[p].step # "emit"
    PROVE  EmitsKept
<1>1. \A q \in Proc : q # p => task'[q] = task[q]
  BY DEF Goto, TypeOK, ServiceTypeOK
<1>2. QED
  BY <1>1 DEF EmitsKept

\* Emitting hands the payer over to a job.
LEMMA EmitFiles ==
    ASSUME TypeOK, NEW p \in Proc, Emit(p)
    PROVE  FileKept
<1> SUFFICES ASSUME NEW user \in Username, NEW account \in Account, OnFile(user, account)
             PROVE  OnFile(user, account)'
  BY DEF FileKept
<1> DEFINE key   == <<user, account>>
           payer == task[p].payer
           mine  == <<task[p].event.owner, payer>>
<1>1. /\ key \in CustomerKey /\ customers \in [CustomerKey -> Counts] /\ account # NULL
      /\ task \in [Proc -> Task] /\ faults' = faults
  BY ServiceAssumption DEF CustomerKey, Optional, TypeOK, ServiceTypeOK, Counts, Emit
<1>2. \/ payer = NULL /\ customers' = customers
      \/ payer # NULL /\ customers' = [customers EXCEPT ![mine].finding = @ + 1]
  BY DEF Emit
<1>3. CASE \/ customers[key].rows > 0 \/ customers[key].finding > 0
           \/ customers[key].creating > 0 \/ customers[key].removed
  <2> DEFINE c == customers[key]
             d == customers'[key]
  <2>1. c \in Counts
    BY <1>1
  <2>2. d = c \/ d = [c EXCEPT !.finding = c.finding + 1]
    BY <1>1, <1>2
  <2>3. /\ d.rows = c.rows /\ d.creating = c.creating /\ d.removed = c.removed
        /\ c.finding > 0 => d.finding > 0
    <3> HIDE DEF c, d
    <3>1. QED
      BY <2>1, <2>2 DEF Counts
  <2>4. QED
    BY <1>3, <2>3 DEF OnFile
<1>4. CASE faults > 0
  BY <1>1, <1>4 DEF OnFile
<1>5. CASE \E q \in Proc : /\ task[q].step = "emit" /\ task[q].event.owner = user
                           /\ task[q].payer = account
  <2>1. PICK q \in Proc : /\ task[q].step = "emit" /\ task[q].event.owner = user
                          /\ task[q].payer = account
    BY <1>5
  <2>2. CASE q = p
    <3>1. mine = key /\ payer # NULL
      BY <1>1, <2>1, <2>2
    <3>2. customers'[key] = [customers[key] EXCEPT !.finding = customers[key].finding + 1]
      BY <1>1, <1>2, <3>1
    <3>3. customers[key] \in Counts
      BY <1>1
    <3>4. customers'[key].finding > 0
      <4> DEFINE c == customers[key]
                 d == customers'[key]
      <4>1. c \in Counts /\ d = [c EXCEPT !.finding = c.finding + 1]
        BY <3>2, <3>3
      <4> HIDE DEF c, d
      <4>2. d.finding > 0
        BY <4>1 DEF Counts
      <4>3. QED
        BY <4>2 DEF d
    <3>5. QED
      BY <3>4 DEF OnFile
  <2>3. CASE q # p
    <3>1. task'[q] = task[q]
      BY <1>1, <2>3 DEF Emit, Goto
    <3>2. QED
      BY <2>1, <3>1 DEF OnFile
  <2>4. QED
    BY <2>2, <2>3
<1>6. QED
  BY <1>3, <1>4, <1>5 DEF OnFile

\* A job that finds no row goes on to create one.
LEMMA JobFiles ==
    ASSUME TypeOK, NEW key \in CustomerKey, CustomerJob(key)
    PROVE  CountsKept
<1> DEFINE c == customers[key]
<1>1. customers \in [CustomerKey -> Counts] /\ c \in Counts
  BY DEF TypeOK, ServiceTypeOK, Counts
<1>2. ASSUME NEW d, customers' = [customers EXCEPT ![key] = d], Filed(d)
      PROVE  CountsKept
  BY <1>1, <1>2 DEF CountsKept
<1>3. CASE CustomerFind(key)
  <2> DEFINE m == c.finding - 1
             n == IF c.rows = 0 THEN c.creating + 1 ELSE c.creating
             d == [c EXCEPT !.finding = m, !.creating = n]
  <2>1. customers' = [customers EXCEPT ![key] = d]
    BY <1>3 DEF CustomerFind
  <2>2. c.rows > 0 \/ n > 0
    BY <1>1 DEF Counts
  <2>3. d.rows = c.rows /\ d.creating = n
    <3> HIDE DEF c, m, n
    <3>1. QED
      BY <1>1 DEF Counts
  <2> HIDE DEF c, n, d
  <2>4. Filed(d)
    BY <2>2, <2>3 DEF Filed
  <2>5. QED
    BY <1>2, <2>1, <2>4
<1>4. CASE CustomerCreate(key)
  <2> DEFINE m == c.creating - 1
             n == c.rows + 1
             d == [c EXCEPT !.creating = m, !.rows = n]
  <2>1. customers' = [customers EXCEPT ![key] = d]
    BY <1>4 DEF CustomerCreate
  <2>2. n > 0
    BY <1>1 DEF Counts
  <2>3. d.rows = n
    <3> HIDE DEF c, m, n
    <3>1. QED
      BY <1>1 DEF Counts
  <2> HIDE DEF c, n, d
  <2>4. Filed(d)
    BY <2>2, <2>3 DEF Filed
  <2>5. QED
    BY <1>2, <2>1, <2>4
<1>5. QED
  BY <1>3, <1>4 DEF CustomerJob

\* What the merchant adds is a row, and what it takes away is remembered.
LEMMA RowsFiled ==
    ASSUME NEW f \in [CustomerKey -> Counts], NEW k \in CustomerKey,
           NEW key \in CustomerKey, Filed(f[key])
    PROVE  /\ Filed(WithRow(f, k)[key])
           /\ f[k].rows > 0 => Filed(WithoutRow(f, k)[key])
<1> DEFINE c == f[k]
<1>1. c \in Counts /\ c.rows + 1 > 0
  BY DEF Counts
<1>2. /\ WithRow(f, k) = [f EXCEPT ![k] = [c EXCEPT !.rows = c.rows + 1]]
      /\ WithoutRow(f, k) = [f EXCEPT ![k] = [c EXCEPT !.rows = c.rows - 1, !.removed = TRUE]]
  BY DEF WithRow, WithoutRow
<1>3. /\ [c EXCEPT !.rows = c.rows + 1].rows = c.rows + 1
      /\ [c EXCEPT !.rows = c.rows - 1, !.removed = TRUE].removed = TRUE
  <2> HIDE DEF c
  <2>1. QED
    BY <1>1 DEF Counts
<1>4. /\ Filed([c EXCEPT !.rows = c.rows + 1])
      /\ Filed([c EXCEPT !.rows = c.rows - 1, !.removed = TRUE])
  BY <1>1, <1>3 DEF Filed
<1> HIDE DEF c
<1>5. CASE key = k
  BY <1>2, <1>4, <1>5
<1>6. CASE key # k
  BY <1>2, <1>6
<1>7. QED
  BY <1>5, <1>6

LEMMA MerchantFiles ==
    ASSUME TypeOK, NEW p \in Requests, NEW c \in Caller, NEW account \in Listed,
           CustomerRoute(p, c, account)
    PROVE  CountsKept
<1> DEFINE old == <<c.username, account>>
<1>1. customers \in [CustomerKey -> Counts]
  BY DEF TypeOK, ServiceTypeOK, Counts
<1>2. ASSUME NEW a \in Listed PROVE <<c.username, a>> \in CustomerKey
  BY <1>2, ServiceAssumption DEF CustomerKey, Username
<1>3. CASE UNCHANGED customers
  BY <1>3, SameCounts
<1>4. CASE customers' = WithRow(customers, old)
  BY <1>1, <1>2, <1>4, RowsFiled DEF CountsKept
<1>5. CASE customers[old].rows > 0 /\ customers' = WithoutRow(customers, old)
  BY <1>1, <1>2, <1>5, RowsFiled DEF CountsKept
<1>6. ASSUME NEW new \in Listed, customers[old].rows > 0,
             customers' = WithRow(WithoutRow(customers, old), <<c.username, new>>)
      PROVE  CountsKept
  <2> DEFINE less == WithoutRow(customers, old)
             now  == <<c.username, new>>
  <2>1. less \in [CustomerKey -> Counts] /\ now \in CustomerKey
    BY <1>1, <1>2, <1>6, RowsChange
  <2>2. \A key \in CustomerKey : Filed(customers[key]) => Filed(less[key])
    BY <1>1, <1>2, <1>6, RowsFiled
  <2>3. customers' = WithRow(less, now)
    BY <1>6
  <2> HIDE DEF less, now
  <2>4. \A key \in CustomerKey : Filed(less[key]) => Filed(customers'[key])
    BY <2>1, <2>3, RowsFiled
  <2>5. QED
    BY <2>2, <2>4 DEF CountsKept
<1>7. QED
  BY <1>3, <1>4, <1>5, <1>6
     DEF CustomerRoute, AddCustomer, DropCustomer, EditCustomer, HasCustomer

\* Whatever happens, nobody leaves the file.
LEMMA FileNeverLost == ASSUME TypeOK, [Next]_vars PROVE FileKept
<1>1. ASSUME UNCHANGED <<customers, task, faults>> PROVE FileKept
  <2>1. customers' = customers /\ task' = task /\ faults' = faults
    BY <1>1
  <2>2. QED
    BY <2>1, SameCounts, SameEmits, FileStays
<1>2. ASSUME NEW p \in Proc, NEW t, Goto(p, t), task[p].step # "emit",
             customers' = customers, faults' = faults
      PROVE  FileKept
  BY <1>2, SameCounts, OtherEmits, FileStays
<1>3. ASSUME NEW p \in Requests, NEW c \in Caller,
             \/ \E order \in Order : Create(p, c, order)
             \/ \E i \in Id :
                   \/ \E patch \in Patch : Update(p, c, i, patch)
                   \/ Remove(p, c, i)
                   \/ \E hash \in Hash \ {""} : Validate(p, c, i, hash)
      PROVE  FileKept
  <2>1. p \in Proc
    BY DEF Proc
  <2>2. task[p].step # "emit" /\ customers' = customers /\ faults' = faults
    <3>1. Idle.step # "emit"
      BY DEF Idle
    <3>2. ASSUME NEW order \in Order, Create(p, c, order)
          PROVE  task[p] = Idle /\ customers' = customers /\ faults' = faults
      BY <3>2 DEF Create, Receive
    <3>3. ASSUME NEW i \in Id, NEW patch \in Patch, Update(p, c, i, patch)
          PROVE  task[p] = Idle /\ customers' = customers /\ faults' = faults
      BY <3>3 DEF Update, Receive
    <3>4. ASSUME NEW i \in Id, Remove(p, c, i)
          PROVE  task[p] = Idle /\ customers' = customers /\ faults' = faults
      BY <3>4 DEF Remove, Receive
    <3>5. ASSUME NEW i \in Id, NEW hash \in Hash, Validate(p, c, i, hash)
          PROVE  task[p] = Idle /\ customers' = customers /\ faults' = faults
      BY <3>5 DEF Validate, Receive
    <3>6. task[p] = Idle /\ customers' = customers /\ faults' = faults
      BY <1>3, <3>2, <3>3, <3>4, <3>5
    <3>7. QED
      BY <3>1, <3>6
  <2>3. CASE \E t : Goto(p, t)
    BY <1>2, <2>1, <2>2, <2>3
  <2>4. CASE task' = task
    BY <1>1, <2>2, <2>4
  <2>5. QED
    BY <1>3, <2>3, <2>4 DEF Create, Update, Remove, Validate
<1>4. ASSUME NEW p \in Requests, NEW c \in Caller, NEW account \in Listed,
             CustomerRoute(p, c, account)
      PROVE  FileKept
  <2>1. task' = task /\ faults' = faults
    BY <1>4 DEF CustomerRoute, AddCustomer, DropCustomer, EditCustomer
  <2>2. QED
    BY <1>4, <2>1, MerchantFiles, SameEmits, FileStays
<1>5. ASSUME NEW p \in Proc, Continue(p) PROVE FileKept
  <2>1. CASE Emit(p)
    BY <2>1, EmitFiles
  <2>2. CASE ~Emit(p)
    <3>1. task[p].step # "emit" /\ customers' = customers /\ faults' = faults
      BY <1>5, <2>2 DEF Continue, CheckMemo, LoadAccount, Insert, Refind, PatchWrite, RemoveStatus,
                        Delete, Verify, MarkRead, MarkWrite, FailWrite
    <3>2. \E t : Goto(p, t)
      BY <1>5, <2>2 DEF Continue, CheckMemo, LoadAccount, Insert, Refind, PatchWrite, RemoveStatus,
                        Delete, Verify, MarkRead, MarkWrite, FailWrite
    <3>3. QED
      BY <1>2, <3>1, <3>2
  <2>3. QED
    BY <2>1, <2>2
<1>6. ASSUME \/ \E p \in Proc : CallFails(p)
             \/ \E key \in CustomerKey : CustomerFails(key)
             \/ \E o \in Observers : QueryFails(o) \/ RowFails(o)
             \/ Crash
      PROVE  FileKept
  BY <1>6, FileByFault DEF CallFails, CustomerFails, QueryFails, RowFails, Crash, Fault
<1>7. ASSUME NEW key \in CustomerKey, CustomerJob(key) PROVE FileKept
  <2>1. task' = task /\ faults' = faults
    BY <1>7 DEF CustomerJob, CustomerFind, CustomerCreate
  <2>2. QED
    BY <1>7, <2>1, JobFiles, SameEmits, FileStays
<1>8. ASSUME \/ \E i \in Id : Lapse(i)
             \/ \E t \in Tx : Land(t)
      PROVE  FileKept
  BY <1>1, <1>8 DEF Lapse, Land
<1>9. ASSUME NEW o \in Observers, ObserverStep(o) PROVE FileKept
  <2>1. o \in Proc
    BY DEF Proc
  <2>2. CASE ExpireNext(o) \/ ReconcileNext(o)
    <3>1. task[o].step # "emit" /\ customers' = customers /\ faults' = faults
      BY <2>2 DEF ExpireNext, ReconcileNext, InPhase, Idle
    <3>2. (\E t : Goto(o, t)) \/ task' = task
      BY <2>2 DEF ExpireNext, ReconcileNext
    <3>3. QED
      BY <1>1, <1>2, <2>1, <3>1, <3>2
  <2>3. CASE Tick(o) \/ QueryExpired(o) \/ QueryPending(o) \/ EndCycle(o)
    BY <1>1, <2>3 DEF Tick, QueryExpired, QueryPending, EndCycle, serviceVars
  <2>4. QED
    BY <1>9, <2>2, <2>3 DEF ObserverStep
<1>10. CASE UNCHANGED vars
  BY <1>1, <1>10 DEF vars, serviceVars
<1>11. QED
  BY <1>3, <1>4, <1>5, <1>6, <1>7, <1>8, <1>9, <1>10 DEF Next, Step, ServiceNext

\* A task that is about to settle comes from the reading of the row before.
ReadBefore == \A q \in Proc : task'[q].step = "markWrite" => task'[q] = task[q] \/ MarkRead(q)

LEMMA OnlyMarkReadSettles == ASSUME TypeOK, [Next]_vars PROVE ReadBefore
<1>1. ASSUME NEW p \in Proc, NEW t, Goto(p, t), t.step # "markWrite" PROVE ReadBefore
  BY <1>1 DEF ReadBefore, Goto, TypeOK, ServiceTypeOK
<1>2. ASSUME task' = task PROVE ReadBefore
  BY <1>2 DEF ReadBefore
<1>3. /\ Idle.step # "markWrite"
      /\ \A type, user, i, row : /\ Emitting(type, user, i, row).step # "markWrite"
                                 /\ Declaring(type, user, i, row).step # "markWrite"
      /\ \A user, i, row, payer : Settling(user, i, row, payer).step # "markWrite"
      /\ \A user, i, hash, payer : Marking(user, i, hash, payer).step # "markWrite"
  BY DEF Idle, Emitting, Declaring, Settling, Marking
<1>4. ASSUME NEW p \in Requests, NEW c \in Caller,
             \/ \E order \in Order : Create(p, c, order)
             \/ \E i \in Id :
                   \/ \E patch \in Patch : Update(p, c, i, patch)
                   \/ Remove(p, c, i)
                   \/ \E hash \in Hash \ {""} : Validate(p, c, i, hash)
      PROVE  ReadBefore
  <2>1. p \in Proc
    BY DEF Proc
  <2>2. ASSUME NEW order \in Order, Create(p, c, order) PROVE ReadBefore
    BY <1>1, <1>2, <2>1, <2>2 DEF Create
  <2>3. ASSUME NEW i \in Id, NEW patch \in Patch, Update(p, c, i, patch) PROVE ReadBefore
    BY <1>1, <2>1, <2>3 DEF Update
  <2>4. ASSUME NEW i \in Id, Remove(p, c, i) PROVE ReadBefore
    BY <1>1, <2>1, <2>4 DEF Remove
  <2>5. ASSUME NEW i \in Id, NEW hash \in Hash, Validate(p, c, i, hash) PROVE ReadBefore
    BY <1>1, <1>3, <2>1, <2>5 DEF Validate
  <2>6. QED
    BY <1>4, <2>2, <2>3, <2>4, <2>5
<1>5. ASSUME NEW p \in Proc, Continue(p) PROVE ReadBefore
  <2>1. CASE CheckMemo(p) \/ LoadAccount(p) \/ Refind(p) \/ RemoveStatus(p) \/ Emit(p)
    BY <1>1, <1>3, <2>1 DEF CheckMemo, LoadAccount, Refind, RemoveStatus, Emit
  <2>2. CASE Insert(p)
    <3>1. PICK t : Goto(p, t) /\ t.step \in {"refind", "emit"}
      BY <2>2 DEF Insert, Emitting
    <3>2. QED
      BY <1>1, <3>1
  <2>3. CASE Verify(p)
    BY <1>1, <1>3, <2>3 DEF Verify
  <2>4. CASE MarkRead(p)
    <3>1. \A q \in Proc : q = p \/ task'[q] = task[q]
      BY <2>4 DEF MarkRead, Goto, TypeOK, ServiceTypeOK
    <3>2. QED
      BY <2>4, <3>1 DEF ReadBefore
  <2>5. CASE PatchWrite(p) \/ Delete(p) \/ MarkWrite(p) \/ FailWrite(p)
    <3>1. PICK t : Goto(p, t) /\ t.step # "markWrite"
      BY <1>3, <2>5 DEF PatchWrite, Delete, MarkWrite, FailWrite
    <3>2. QED
      BY <1>1, <3>1
  <2>6. QED
    BY <1>5, <2>1, <2>2, <2>3, <2>4, <2>5 DEF Continue
<1>6. ASSUME NEW p \in Proc, CallFails(p) PROVE ReadBefore
  BY <1>1, <1>3, <1>6 DEF CallFails
<1>7. ASSUME NEW o \in Observers, ObserverStep(o) \/ QueryFails(o) \/ RowFails(o)
      PROVE  ReadBefore
  <2>1. o \in Proc
    BY DEF Proc
  <2>2. task' = task \/ \E t : Goto(o, t) /\ t.step # "markWrite"
    BY <1>3, <1>7 DEF ObserverStep, Tick, QueryExpired, ExpireNext, QueryPending, ReconcileNext,
                      EndCycle, QueryFails, RowFails, serviceVars
  <2>3. QED
    BY <1>1, <1>2, <2>1, <2>2
<1>8. ASSUME \/ \E p \in Requests, c \in Caller, account \in Listed : CustomerRoute(p, c, account)
             \/ \E key \in CustomerKey : CustomerJob(key) \/ CustomerFails(key)
             \/ \E i \in Id : Lapse(i)
             \/ \E t \in Tx : Land(t)
             \/ UNCHANGED vars
      PROVE  ReadBefore
  BY <1>2, <1>8 DEF CustomerRoute, AddCustomer, DropCustomer, EditCustomer, CustomerJob,
                    CustomerFind, CustomerCreate, CustomerFails, Lapse, Land, vars, serviceVars
<1>9. CASE Crash
  BY <1>3, <1>9 DEF Crash, ReadBefore
<1>10. QED
  BY <1>4, <1>5, <1>6, <1>7, <1>8, <1>9 DEF Next, Step, ServiceNext

(***************************************************************************)
(* What each row says of the file, and the writes of rows.                 *)
(***************************************************************************)
FiledRow(i) ==
    /\ intents[i].kind = "PAY" /\ intents[i].source # NULL =>
          OnFile(intents[i].owner, intents[i].source)
    /\ i \in patched \/ (intents[i].status = "SUCCEEDED" =>
          \E payer \in Account :
              PaidFrom(intents[i].txHash, payer) /\ OnFile(intents[i].owner, payer))

RowsOnFile == \A i \in Stored : FiledRow(i)

\* A row that keeps its owner and source, and its settlement or has none, or is
\* the client's own word.
LEMMA SameFiled ==
    ASSUME TypeOK, RowsOnFile, FileKept, NEW i \in Stored,
           /\ intents'[i].owner = intents[i].owner /\ intents'[i].kind = intents[i].kind
           /\ intents'[i].source = intents[i].source,
           \/ i \in patched' \/ intents'[i].status # "SUCCEEDED"
           \/ /\ i \notin patched /\ intents'[i].status = intents[i].status
              /\ intents'[i].txHash = intents[i].txHash
    PROVE  FiledRow(i)'
<1>1. /\ intents[i].owner \in Username
      /\ intents[i].source # NULL => intents[i].source \in Account
  BY DEF TypeOK, ServiceTypeOK, Stored, Row, Optional
<1>2. FiledRow(i)
  BY DEF RowsOnFile
<1>3. intents'[i].kind = "PAY" /\ intents'[i].source # NULL =>
          OnFile(intents[i].owner, intents[i].source)'
  BY <1>1, <1>2 DEF FiledRow, FileKept
<1>4. ASSUME i \notin patched', intents'[i].status = "SUCCEEDED"
      PROVE  \E payer \in Account :
                 PaidFrom(intents'[i].txHash, payer) /\ OnFile(intents[i].owner, payer)'
  <2>1. PICK payer \in Account :
            PaidFrom(intents[i].txHash, payer) /\ OnFile(intents[i].owner, payer)
    BY <1>2, <1>4 DEF FiledRow
  <2>2. OnFile(intents[i].owner, payer)'
    BY <1>1, <2>1 DEF FileKept
  <2>3. QED
    BY <1>4, <2>1, <2>2
<1>5. QED
  BY <1>3, <1>4 DEF FiledRow

LEMMA OneRowFiled ==
    ASSUME TypeOK, RowsOnFile, FileKept, NEW i \in Id, NEW row, WriteRow(i, row),
           patched \ {i} \subseteq patched', row # NULL => FiledRow(i)'
    PROVE  RowsOnFile'
<1>1. /\ intents'[i] = row
      /\ \A j \in Id : j # i => intents'[j] = intents[j]
  BY DEF WriteRow, TypeOK, ServiceTypeOK
<1>2. ASSUME NEW j \in Stored', j # i PROVE FiledRow(j)'
  <2>1. j \in Stored /\ intents'[j] = intents[j]
    BY <1>1, <1>2 DEF Stored
  <2>2. j \in patched => j \in patched'
    BY <1>2
  <2>3. QED
    BY <2>1, <2>2, SameFiled
<1>3. i \in Stored' => FiledRow(i)'
  BY <1>1 DEF Stored
<1>4. QED
  BY <1>2, <1>3 DEF RowsOnFile

LEMMA SameRowsFiled ==
    ASSUME TypeOK, RowsOnFile, FileKept, intents' = intents, patched' = patched
    PROVE  RowsOnFile'
<1>1. ASSUME NEW j \in Stored' PROVE FiledRow(j)'
  <2>1. j \in Stored
    BY DEF Stored
  <2>2. QED
    BY <2>1, SameFiled
<1>2. QED
  BY <1>1 DEF RowsOnFile

\* Row i keeps its owner and source, and is no new settlement.
LEMMA RewriteFiled ==
    ASSUME TypeOK, RowsOnFile, FileKept, NEW i \in Stored, NEW row, WriteRow(i, row),
           /\ row.owner = intents[i].owner /\ row.kind = intents[i].kind
           /\ row.source = intents[i].source,
           \/ i \in patched' \/ row.status # "SUCCEEDED"
           \/ /\ i \notin patched /\ row.status = intents[i].status
              /\ row.txHash = intents[i].txHash,
           patched \ {i} \subseteq patched'
    PROVE  RowsOnFile'
<1>1. i \in Id /\ intents'[i] = row
  BY DEF WriteRow, TypeOK, ServiceTypeOK, Stored
<1>2. FiledRow(i)'
  BY <1>1, SameFiled
<1>3. QED
  BY <1>1, <1>2, OneRowFiled

\* A settlement of row i, with the task that goes on to record its payer.
LEMMA SettledFiled ==
    ASSUME TypeOK, RowsOnFile, FileKept, NEW i \in Stored, NEW row, WriteRow(i, row),
           NEW payer \in Account, PaidFrom(row.txHash, payer),
           /\ row.owner = intents[i].owner /\ row.kind = intents[i].kind
           /\ row.source \in {intents[i].source, payer},
           NEW p \in Proc,
           /\ task'[p].step = "emit" /\ task'[p].event.owner = row.owner
           /\ task'[p].payer = payer,
           patched \ {i} \subseteq patched'
    PROVE  RowsOnFile'
<1>1. i \in Id /\ intents'[i] = row
  BY DEF WriteRow, TypeOK, ServiceTypeOK, Stored
<1>2. PICK user \in Username, src \in Optional(Account) :
          user = intents[i].owner /\ src = intents[i].source
  BY DEF TypeOK, ServiceTypeOK, Stored, Row
<1>3. OnFile(user, payer)'
  BY <1>2 DEF OnFile
<1>4. row.kind = "PAY" /\ src # NULL => OnFile(user, src)'
  BY <1>2 DEF RowsOnFile, FiledRow, FileKept, Optional
<1>5. FiledRow(i)'
  BY <1>1, <1>2, <1>3, <1>4 DEF FiledRow
<1>6. QED
  BY <1>1, <1>5, OneRowFiled

LEMMA FreshFiled ==
    ASSUME TypeOK, RowsOnFile, FileKept, NEW i \in Id, NEW row, WriteRow(i, row),
           row.status = "PENDING", row.kind = "PAY" => row.source = NULL,
           patched' = patched
    PROVE  RowsOnFile'
<1>1. intents'[i] = row
  BY DEF WriteRow, TypeOK, ServiceTypeOK
<1>2. FiledRow(i)'
  BY <1>1 DEF FiledRow
<1>3. QED
  BY <1>2, OneRowFiled

LEMMA InsertFiled ==
    ASSUME TypeOK, SettlementInv, LifecycleInv, RowsOnFile, FileKept, NEW p \in Proc, Insert(p)
    PROVE  RowsOnFile'
<1> DEFINE draft == task[p].draft
           n     == issued + 1
<1>1. /\ draft.status = "PENDING" /\ (draft.kind = "PAY" => draft.source = NULL)
      /\ patched' = patched
  BY DEF LifecycleInv, KnowsPayer, SettlementInv, BeliefsHold, TaskOK, Insert, historyVars
<1>2. CASE MemoTaken(draft)
  BY <1>1, <1>2, SameRowsFiled DEF Insert
<1>3. CASE ~MemoTaken(draft)
  <2>1. WriteRow(n, draft) /\ issued < MaxIntents
    BY <1>3 DEF Insert
  <2>2. n \in Id
    BY <2>1, Bounds DEF TypeOK, ServiceTypeOK, Id
  <2> HIDE DEF draft, n
  <2>3. QED
    BY <1>1, <2>1, <2>2, FreshFiled
<1>4. QED
  BY <1>2, <1>3

LEMMA DeleteFiled ==
    ASSUME TypeOK, RowsOnFile, FileKept, NEW p \in Proc, Delete(p)
    PROVE  RowsOnFile'
<1>1. patched' = patched
  BY DEF Delete, historyVars
<1>2. CASE task[p].id \in Stored
  <2>1. task[p].id \in Id /\ WriteRow(task[p].id, NULL)
    BY <1>2 DEF Delete, Stored
  <2>2. QED
    BY <1>1, <2>1, OneRowFiled
<1>3. CASE task[p].id \notin Stored
  BY <1>1, <1>3, SameRowsFiled DEF Delete
<1>4. QED
  BY <1>2, <1>3

LEMMA PatchFiled ==
    ASSUME TypeOK, RowsOnFile, FileKept, NEW p \in Proc, PatchWrite(p)
    PROVE  RowsOnFile'
<1> DEFINE i    == task[p].id
           new  == task[p].patch
           old  == intents[i]
           row  == [old EXCEPT !.status = IF new.status = NULL THEN @ ELSE new.status,
                               !.txHash = IF new.setsHash THEN new.txHash ELSE @]
<1>1. task[p] \in Task /\ task[p].step = "patch"
  BY DEF TypeOK, ServiceTypeOK, PatchWrite
<1>2. new.setsHash \in BOOLEAN
  BY <1>1, PatchTask, ServiceAssumption
<1>3. CASE i \in Stored /\ ~(new.setsHash /\ HashTaken(i, new.txHash))
  <2>1. /\ WriteRow(i, row)
        /\ patched' = IF new.status = NULL /\ ~new.setsHash THEN patched ELSE patched \cup {i}
    BY <1>3 DEF PatchWrite
  <2>2. old \in Row
    BY <1>3 DEF TypeOK, ServiceTypeOK, Stored
  <2>3. /\ row.owner = old.owner /\ row.kind = old.kind /\ row.source = old.source
        /\ row.status = IF new.status = NULL THEN old.status ELSE new.status
        /\ row.txHash = IF new.setsHash THEN new.txHash ELSE old.txHash
    <3> DEFINE s == new.status
               b == new.setsHash
               h == new.txHash
    <3>1. row = [old EXCEPT !.status = IF s = NULL THEN @ ELSE s,
                            !.txHash = IF b THEN h ELSE @]
      OBVIOUS
    <3> HIDE DEF old, s, b, h, row
    <3>2. /\ row.owner = old.owner /\ row.kind = old.kind /\ row.source = old.source
          /\ row.status = IF s = NULL THEN old.status ELSE s
          /\ row.txHash = IF b THEN h ELSE old.txHash
      BY <2>2, <3>1 DEF Row
    <3>3. QED
      BY <3>2 DEF s, b, h
  <2>4. i \in patched' \/ (/\ i \notin patched
                           /\ row.status = old.status /\ row.txHash = old.txHash)
    BY <1>2, <2>1, <2>3
  <2>5. patched \ {i} \subseteq patched'
    BY <2>1
  <2> HIDE DEF row
  <2>6. QED
    BY <1>3, <2>1, <2>3, <2>4, <2>5, RewriteFiled
<1>4. CASE ~(i \in Stored /\ ~(new.setsHash /\ HashTaken(i, new.txHash)))
  <2>1. intents' = intents /\ patched' = patched
    BY <1>4 DEF PatchWrite
  <2>2. QED
    BY <2>1, SameRowsFiled
<1>5. QED
  BY <1>3, <1>4

\* The settlement itself: the task that emits it carries the payer.
LEMMA MarkFiled ==
    ASSUME TypeOK, LifecycleInv, PayersOnFile, RowsOnFile, FileKept,
           NEW p \in Proc, MarkWrite(p)
    PROVE  RowsOnFile'
<1> DEFINE t    == task[p]
           i    == t.id
           old  == intents[i]
           row  == [old EXCEPT !.status = "SUCCEEDED", !.txHash = t.hash,
                               !.source = IF t.source = NULL THEN @ ELSE t.source]
           next == Settling(t.user, i, row, t.payer)
<1>1. task \in [Proc -> Task] /\ t \in Task /\ t.step = "markWrite"
  BY DEF TypeOK, ServiceTypeOK, MarkWrite
<1>2. /\ t.payer \in Account /\ PaidFrom(t.hash, t.payer) /\ t.source \in {NULL, t.payer}
  BY <1>1, MarkTask DEF PayersOnFile
<1>3. CASE i \in Stored /\ ~HashTaken(i, t.hash)
  <2>1. WriteRow(i, row) /\ patched' = patched \ {i} /\ Goto(p, next)
    BY <1>3 DEF MarkWrite
  <2>2. old \in Row
    BY <1>3 DEF TypeOK, ServiceTypeOK, Stored
  <2>3. /\ row.owner = old.owner /\ row.kind = old.kind /\ row.txHash = t.hash
        /\ row.source = IF t.source = NULL THEN old.source ELSE t.source
    <3> DEFINE h == t.hash
               a == t.source
    <3>1. row = [old EXCEPT !.status = "SUCCEEDED", !.txHash = h,
                            !.source = IF a = NULL THEN @ ELSE a]
      OBVIOUS
    <3> HIDE DEF old, h, a, row
    <3>2. /\ row.owner = old.owner /\ row.kind = old.kind /\ row.txHash = h
          /\ row.source = IF a = NULL THEN old.source ELSE a
      BY <2>2, <3>1 DEF Row
    <3>3. QED
      BY <3>2 DEF h, a
  <2>4. next.step = "emit" /\ next.event.owner = row.owner /\ next.payer = t.payer
    BY DEF Settling, Emitting, EventFor
  <2>5. task'[p] = next
    BY <1>1, <2>1 DEF Goto
  <2> HIDE DEF row, next
  <2>6. /\ task'[p].step = "emit" /\ task'[p].event.owner = row.owner
        /\ task'[p].payer = t.payer /\ PaidFrom(row.txHash, t.payer)
        /\ row.source \in {old.source, t.payer}
    BY <1>2, <2>3, <2>4, <2>5
  <2>7. QED
    BY <1>2, <1>3, <2>1, <2>3, <2>6, SettledFiled
<1>4. CASE ~(i \in Stored /\ ~HashTaken(i, t.hash))
  <2>1. intents' = intents /\ patched' = patched
    BY <1>4 DEF MarkWrite
  <2>2. QED
    BY <2>1, SameRowsFiled
<1>5. QED
  BY <1>3, <1>4

LEMMA FailFiled ==
    ASSUME TypeOK, RowsOnFile, FileKept, NEW p \in Proc, FailWrite(p)
    PROVE  RowsOnFile'
<1> DEFINE t   == task[p]
           i   == t.id
           old == intents[i]
           row == [old EXCEPT !.status = "FAILED", !.txHash = t.hash]
<1>1. CASE i \in Stored /\ ~HashTaken(i, t.hash)
  <2>1. WriteRow(i, row) /\ patched' = patched \ {i}
    BY <1>1 DEF FailWrite
  <2>2. old \in Row
    BY <1>1 DEF TypeOK, ServiceTypeOK, Stored
  <2>3. /\ row.owner = old.owner /\ row.kind = old.kind /\ row.source = old.source
        /\ row.status = "FAILED"
    <3> DEFINE h == t.hash
    <3>1. row = [old EXCEPT !.status = "FAILED", !.txHash = h]
      OBVIOUS
    <3> HIDE DEF old, h, row
    <3>2. QED
      BY <2>2, <3>1 DEF Row
  <2> HIDE DEF row
  <2>4. QED
    BY <1>1, <2>1, <2>3, RewriteFiled
<1>2. CASE ~(i \in Stored /\ ~HashTaken(i, t.hash))
  <2>1. intents' = intents /\ patched' = patched
    BY <1>2 DEF FailWrite
  <2>2. QED
    BY <2>1, SameRowsFiled
<1>3. QED
  BY <1>1, <1>2

LEMMA ExpireFiled ==
    ASSUME TypeOK, RowsOnFile, FileKept, NEW o \in Observers, ExpireNext(o)
    PROVE  RowsOnFile'
<1>1. PICK item \in cycle[o].todo :
        IF item.id \in Stored
        THEN WriteRow(item.id, [intents[item.id] EXCEPT !.status = "EXPIRED"])
        ELSE UNCHANGED <<intents, task>>
  BY DEF ExpireNext
<1> DEFINE i   == item.id
           old == intents[i]
           row == [old EXCEPT !.status = "EXPIRED"]
<1>2. patched' = patched
  BY DEF ExpireNext, historyVars
<1>3. CASE i \in Stored
  <2>1. WriteRow(i, row)
    BY <1>1, <1>3
  <2>2. old \in Row
    BY <1>3 DEF TypeOK, ServiceTypeOK, Stored
  <2>3. /\ row.owner = old.owner /\ row.kind = old.kind /\ row.source = old.source
        /\ row.status = "EXPIRED"
    <3>1. row = [old EXCEPT !.status = "EXPIRED"]
      OBVIOUS
    <3> HIDE DEF old, row
    <3>2. QED
      BY <2>2, <3>1 DEF Row
  <2> HIDE DEF row
  <2>4. QED
    BY <1>2, <1>3, <2>1, <2>3, RewriteFiled
<1>4. CASE i \notin Stored
  <2>1. intents' = intents
    BY <1>1, <1>4
  <2>2. QED
    BY <1>2, <2>1, SameRowsFiled
<1>5. QED
  BY <1>3, <1>4

\* Whoever writes a row keeps the file of it.
LEMMA RowsStayFiled ==
    ASSUME TypeOK, SettlementInv, LifecycleInv, PayersOnFile, RowsOnFile, FileKept, [Next]_vars
    PROVE  RowsOnFile'
<1>1. ASSUME NEW p \in Requests, NEW c \in Caller,
             \/ \E order \in Order : Create(p, c, order)
             \/ \E i \in Id :
                   \/ \E patch \in Patch : Update(p, c, i, patch)
                   \/ Remove(p, c, i)
                   \/ \E hash \in Hash \ {""} : Validate(p, c, i, hash)
             \/ \E account \in Listed : CustomerRoute(p, c, account)
      PROVE  intents' = intents /\ patched' = patched
  BY <1>1 DEF Create, Update, Remove, Validate, CustomerRoute, AddCustomer, DropCustomer,
              EditCustomer, dbVars, historyVars
<1>2. ASSUME NEW p \in Proc, Continue(p) PROVE RowsOnFile'
  <2>1. CASE \/ CheckMemo(p) \/ LoadAccount(p) \/ Refind(p) \/ RemoveStatus(p)
             \/ Verify(p) \/ MarkRead(p) \/ Emit(p)
    <3>1. intents' = intents /\ patched' = patched
      BY <2>1 DEF CheckMemo, LoadAccount, Refind, RemoveStatus, Verify, MarkRead, Emit,
                  dbVars, historyVars
    <3>2. QED
      BY <3>1, SameRowsFiled
  <2>2. QED
    BY <1>2, <2>1, InsertFiled, DeleteFiled, PatchFiled, MarkFiled, FailFiled DEF Continue
<1>3. ASSUME \/ \E p \in Proc : CallFails(p)
             \/ \E key \in CustomerKey : CustomerJob(key) \/ CustomerFails(key)
             \/ \E i \in Id : Lapse(i)
             \/ \E t \in Tx : Land(t)
             \/ \E o \in Observers : QueryFails(o) \/ RowFails(o)
             \/ Crash \/ UNCHANGED vars
      PROVE  intents' = intents /\ patched' = patched
  BY <1>3 DEF CallFails, CustomerJob, CustomerFind, CustomerCreate, CustomerFails, Lapse, Land,
              QueryFails, RowFails, Crash, vars, serviceVars, dbVars, historyVars
<1>4. ASSUME NEW o \in Observers, ObserverStep(o) PROVE RowsOnFile'
  <2>1. CASE ExpireNext(o)
    BY <2>1, ExpireFiled
  <2>2. CASE ~ExpireNext(o)
    <3>1. intents' = intents /\ patched' = patched
      BY <1>4, <2>2 DEF ObserverStep, Tick, QueryExpired, QueryPending, ReconcileNext, EndCycle,
                        serviceVars, dbVars, historyVars
    <3>2. QED
      BY <3>1, SameRowsFiled
  <2>3. QED
    BY <2>1, <2>2
<1>5. QED
  BY <1>1, <1>2, <1>3, <1>4, SameRowsFiled DEF Next, Step, ServiceNext

\* Whoever is about to settle knows who paid, and records nobody else.
TasksOnFile ==
    \A p \in Proc :
        /\ task[p].step \in {"markRead", "markWrite"} => PaidFrom(task[p].hash, task[p].payer)
        /\ task[p].step = "markWrite" => task[p].source \in {NULL, task[p].payer}

LEMMA TasksStayFiled ==
    ASSUME TypeOK, LifecycleInv, LifecycleInv', TasksOnFile, ReadBefore
    PROVE  TasksOnFile'
<1> SUFFICES ASSUME NEW p \in Proc
             PROVE  /\ task'[p].step \in {"markRead", "markWrite"} =>
                          PaidFrom(task'[p].hash, task'[p].payer)
                    /\ task'[p].step = "markWrite" => task'[p].source \in {NULL, task'[p].payer}
  BY DEF TasksOnFile, PaidFrom
<1>1. CASE task'[p].step = "markRead"
  BY <1>1 DEF LifecycleInv, KnowsPayer, PaidFrom
<1>2. CASE task'[p].step = "markWrite" /\ task'[p] = task[p]
  BY <1>2 DEF TasksOnFile
<1>3. CASE task'[p].step = "markWrite" /\ MarkRead(p)
  <2>1. /\ task[p].step = "markRead"
        /\ task'[p].hash = task[p].hash /\ task'[p].payer = task[p].payer
        /\ task'[p].source = SourceToSet(task[p].id, task[p].payer)
    BY <1>3 DEF MarkRead, Goto, TypeOK, ServiceTypeOK
  <2>2. PaidFrom(task[p].hash, task[p].payer)
    BY <2>1 DEF TasksOnFile
  <2>3. SourceToSet(task[p].id, task[p].payer) \in {NULL, task[p].payer}
    BY DEF SourceToSet
  <2>4. QED
    BY <1>3, <2>1, <2>2, <2>3
<1>4. QED
  BY <1>1, <1>2, <1>3 DEF ReadBefore

LEMMA FileStep ==
    ASSUME TypeOK, TypeOK', SettlementInv, LifecycleInv, LifecycleInv', PayersOnFile, [Next]_vars
    PROVE  PayersOnFile'
<1>1. RowsOnFile /\ TasksOnFile
  BY DEF PayersOnFile, RowsOnFile, FiledRow, TasksOnFile
<1>2. FileKept /\ ReadBefore
  BY FileNeverLost, OnlyMarkReadSettles
<1>3. RowsOnFile' /\ TasksOnFile'
  BY <1>1, <1>2, RowsStayFiled, TasksStayFiled
<1>4. QED
  BY <1>3 DEF PayersOnFile, RowsOnFile, FiledRow, TasksOnFile

-----------------------------------------------------------------------------
(***************************************************************************)
(* The theorems.                                                           *)
(***************************************************************************)
\* What all merchants together see as settled did arrive, in as many
\* transactions, what clients declared by a PATCH of their own apart.
THEOREM NoMoneyTwice == Spec => []SettledIsBacked
<1>1. TypeOK /\ SettlementInv => SettledIsBacked
  BY DashboardBacked
<1>2. QED
  BY <1>1, TypeCorrect, SettlementCorrect, PTL

\* The service keeps every payer of a settlement on file.
THEOREM PayersKept == Spec => []PayersOnFile
<1>1. Init => PayersOnFile
  BY DEF Init, ServiceInit, PayersOnFile, Stored, Idle
<1>2. TypeOK /\ TypeOK' /\ SettlementInv /\ LifecycleInv /\ LifecycleInv' /\ PayersOnFile
          /\ [Next]_vars
      => PayersOnFile'
  BY FileStep
<1>3. QED
  BY <1>1, <1>2, TypeCorrect, SettlementCorrect, LifecycleCorrect, PTL DEF Spec

\* No settled amount is missing from the customers page, but that of payers
\* without a row, and of those the service settled it knows the reason.
THEOREM NoMoneyLost == Spec => []PayersAddUp
<1>1. TypeOK /\ LifecycleInv /\ PayersOnFile => PayersAddUp
  BY PayersTotal
<1>2. QED
  BY <1>1, TypeCorrect, LifecycleCorrect, PayersKept, PTL
=============================================================================
