----------------------------- MODULE NestProofs -----------------------------
(***************************************************************************)
(* What the index arithmetic of LoopNest computes, for nests of any depth: *)
(* products of tile counts, the coordinates of an item and the carry from  *)
(* one item to the next.                                                   *)
(*                                                                         *)
(* Proofs by induction go by the least counterexample, which the library   *)
(* derives from the well-foundedness of the order of the numbers.          *)
(***************************************************************************)
EXTENDS LoopNest, WellFoundedInduction, TLAPS

-----------------------------------------------------------------------------
(* Induction.                                                              *)

\* A set of natural numbers has a least element.
LEMMA LeastNumber ==
    \A S : S \subseteq Nat /\ S # {} => \E n \in S : \A m \in S : n <= m
<1> SUFFICES ASSUME NEW S, S \subseteq Nat, S # {}
             PROVE  \E n \in S : \A m \in S : n <= m
  OBVIOUS
<1> DEFINE R == OpToRel(<, Nat)
<1>1. IsWellFoundedOn(R, Nat)
  BY NatLessThanWellFounded
<1>2. \A x, y \in Nat : x < y => <<x, y>> \in R
  BY DEF OpToRel
<1> HIDE DEF R
<1>3. PICK n \in S : \A m \in S : ~(<<m, n>> \in R)
  BY <1>1, WFMin
<1>4. \A m \in S : m \in Nat /\ n \in Nat /\ ~(m < n)
  BY <1>2, <1>3
<1>5. QED
  BY <1>4

\* Induction over a set: what is to be shown is that the set has all numbers.
LEMMA Induction ==
    \A S : 0 \in S /\ (\A n \in Nat : n \in S => n + 1 \in S) => \A n \in Nat : n \in S
<1> SUFFICES ASSUME NEW S, 0 \in S, \A n \in Nat : n \in S => n + 1 \in S,
                    NEW k \in Nat, k \notin S
             PROVE  FALSE
  OBVIOUS
<1> DEFINE Out == {n \in Nat : n \notin S}
<1>1. Out \subseteq Nat /\ Out # {}
  OBVIOUS
<1>2. PICK n \in Out : \A m \in Out : n <= m
  BY <1>1, LeastNumber
<1>3. n # 0 /\ n - 1 \in Nat /\ n - 1 \notin Out
  BY <1>2
<1>4. QED
  BY <1>2, <1>3

\* A set of numbers below a bound has a greatest element.
LEMMA GreatestNumber ==
    \A S, b : b \in Nat /\ S \subseteq 0 .. b /\ S # {} => \E n \in S : \A m \in S : m <= n
<1> SUFFICES ASSUME NEW S, NEW b \in Nat, S \subseteq 0 .. b, S # {}
             PROVE  \E n \in S : \A m \in S : m <= n
  OBVIOUS
<1> DEFINE Gaps == {k \in 0 .. b : b - k \in S}
<1>1. PICK x \in S : TRUE
  OBVIOUS
<1>2. b - x \in Gaps /\ Gaps \subseteq Nat
  BY <1>1
<1>3. PICK k \in Gaps : \A j \in Gaps : k <= j
  BY <1>2, LeastNumber
<1>4. \A m \in S : b - m \in Gaps
  OBVIOUS
<1>5. QED
  BY <1>3, <1>4

-----------------------------------------------------------------------------
(* Products.                                                               *)

Counts == UNION {[1 .. d -> Nat \ {0}] : d \in Nat \ {0}}

\* The defining equation of the recursion in Product.
ProductFunction(counts, first) ==
    CHOOSE g : g = [a \in 0 .. Len(counts) |-> IF a < first THEN 1 ELSE g[a - 1] * counts[a]]

\* The recursive definition of Product has a solution ...
LEMMA ProductExists ==
    ASSUME NEW counts, Len(counts) \in Nat, NEW first \in Nat \ {0}
    PROVE  LET g == ProductFunction(counts, first)
           IN  g = [a \in 0 .. Len(counts) |-> IF a < first THEN 1 ELSE g[a - 1] * counts[a]]
<1> DEFINE Eq(g, n) == g = [a \in 0 .. n |-> IF a < first THEN 1 ELSE g[a - 1] * counts[a]]
<1> DEFINE S == {n \in Nat : \E g : Eq(g, n)}
<1>1. 0 \in S
  <2> DEFINE g == [a \in 0 .. 0 |-> 1]
  <2>1. Eq(g, 0)
    OBVIOUS
  <2>2. QED
    BY <2>1
<1>2. ASSUME NEW n \in Nat, n \in S PROVE n + 1 \in S
  <2>1. PICK g : Eq(g, n)
    BY <1>2
  <2> DEFINE h == [a \in 0 .. (n + 1) |-> IF a <= n THEN g[a]
                                          ELSE IF a < first THEN 1 ELSE g[n] * counts[a]]
  <2>2. \A a \in 0 .. (n + 1) : h[a] = IF a < first THEN 1 ELSE h[a - 1] * counts[a]
    <3> SUFFICES ASSUME NEW a \in 0 .. (n + 1)
                 PROVE  h[a] = IF a < first THEN 1 ELSE h[a - 1] * counts[a]
      OBVIOUS
    <3>1. CASE a <= n
      BY <2>1, <3>1
    <3>2. CASE a = n + 1
      BY <3>2
    <3>3. QED
      BY <3>1, <3>2
  <2>3. Eq(h, n + 1)
    BY <2>2
  <2> HIDE DEF h
  <2>4. QED
    BY <2>3
<1> HIDE DEF S
<1>3. Len(counts) \in S
  BY <1>1, <1>2, Induction
<1>4. QED
  BY <1>3 DEF S, ProductFunction

\* ... which Product is.
LEMMA ProductIs ==
    \A counts, first, last : Product(counts, first, last) = ProductFunction(counts, first)[last]
BY DEF Product, ProductFunction

\* The numbers of tiles are positive, one per axis.
LEMMA CountsFacts ==
    ASSUME NEW counts \in Counts
    PROVE  /\ Len(counts) \in Nat \ {0} /\ DOMAIN counts = 1 .. Len(counts)
           /\ \A a \in 1 .. Len(counts) : counts[a] \in Nat /\ counts[a] > 0
<1>1. PICK d \in Nat \ {0} : counts \in [1 .. d -> Nat \ {0}]
  BY DEF Counts
<1>2. Len(counts) = d
  BY <1>1
<1>3. QED
  BY <1>1, <1>2

\* A product of tile counts, factor by factor.
LEMMA ProductRule ==
    ASSUME NEW counts \in Counts, NEW first \in Nat \ {0}, NEW last \in 0 .. Len(counts)
    PROVE  /\ last < first => Product(counts, first, last) = 1
           /\ last >= first =>
                 Product(counts, first, last) = Product(counts, first, last - 1) * counts[last]
<1>1. Len(counts) \in Nat
  BY CountsFacts
<1>2. \A a \in 0 .. Len(counts) : ProductFunction(counts, first)[a]
         = IF a < first THEN 1 ELSE ProductFunction(counts, first)[a - 1] * counts[a]
  BY <1>1, ProductExists
<1>3. QED
  BY <1>1, <1>2, ProductIs

\* Such a product is positive.
LEMMA ProductType ==
    ASSUME NEW counts \in Counts, NEW first \in Nat \ {0}
    PROVE  \A last \in 0 .. Len(counts) : Product(counts, first, last) \in Nat \ {0}
<1> DEFINE S == {k \in Nat : k <= Len(counts) => Product(counts, first, k) \in Nat \ {0}}
<1>1. 0 \in S
  BY CountsFacts, ProductRule
<1>2. ASSUME NEW k \in Nat, k \in S PROVE k + 1 \in S
  <2> SUFFICES ASSUME k + 1 <= Len(counts) PROVE Product(counts, first, k + 1) \in Nat \ {0}
    OBVIOUS
  <2>1. Product(counts, first, k) \in Nat \ {0} /\ counts[k + 1] \in Nat \ {0}
    BY <1>2, CountsFacts
  <2>2. \/ Product(counts, first, k + 1) = 1
        \/ Product(counts, first, k + 1) = Product(counts, first, k) * counts[k + 1]
    BY ProductRule, CountsFacts
  <2>3. \A x, y \in Nat \ {0} : x * y \in Nat \ {0}
    OBVIOUS
  <2>4. QED
    BY <2>1, <2>2, <2>3
<1> HIDE DEF S
<1>3. \A k \in Nat : k \in S
  BY <1>1, <1>2, Induction
<1>4. QED
  BY <1>3, CountsFacts DEF S

\* A product is taken apart anywhere.
LEMMA ProductSplits ==
    ASSUME NEW counts \in Counts, NEW first \in Nat \ {0}, NEW mid \in Nat, first <= mid + 1
    PROVE  \A last \in mid .. Len(counts) :
               Product(counts, first, last)
               = Product(counts, first, mid) * Product(counts, mid + 1, last)
<1> DEFINE S == {k \in Nat : mid + k <= Len(counts) =>
                   Product(counts, first, mid + k)
                   = Product(counts, first, mid) * Product(counts, mid + 1, mid + k)}
<1>1. 0 \in S
  <2> SUFFICES ASSUME mid <= Len(counts)
               PROVE  Product(counts, first, mid)
                      = Product(counts, first, mid) * Product(counts, mid + 1, mid)
    OBVIOUS
  <2>1. Product(counts, mid + 1, mid) = 1 /\ Product(counts, first, mid) \in Nat
    BY CountsFacts, ProductRule, ProductType
  <2>2. QED
    BY <2>1
<1>2. ASSUME NEW k \in Nat, k \in S PROVE k + 1 \in S
  <2> DEFINE l == mid + k + 1
  <2> SUFFICES ASSUME l <= Len(counts)
               PROVE  Product(counts, first, l)
                      = Product(counts, first, mid) * Product(counts, mid + 1, l)
    OBVIOUS
  <2>1. l \in 0 .. Len(counts) /\ l - 1 \in 0 .. Len(counts) /\ l - 1 = mid + k
    BY CountsFacts
  <2>2. Product(counts, first, l - 1)
        = Product(counts, first, mid) * Product(counts, mid + 1, l - 1)
    BY <1>2, <2>1
  <2>3. /\ Product(counts, first, l) = Product(counts, first, l - 1) * counts[l]
        /\ Product(counts, mid + 1, l) = Product(counts, mid + 1, l - 1) * counts[l]
    BY <2>1, ProductRule
  <2>4. /\ Product(counts, first, mid) \in Nat /\ Product(counts, mid + 1, l - 1) \in Nat
        /\ counts[l] \in Nat
    <3>1. mid \in 0 .. Len(counts) /\ l \in 1 .. Len(counts) /\ mid + 1 \in Nat \ {0}
      BY CountsFacts
    <3>2. QED
      BY <2>1, <3>1, ProductType, CountsFacts
  <2>5. \A x, y, z \in Nat : (x * y) * z = x * (y * z)
    OBVIOUS
  <2> HIDE DEF l
  <2>6. QED
    BY <2>2, <2>3, <2>4, <2>5
<1> HIDE DEF S
<1>3. \A k \in Nat : k \in S
  BY <1>1, <1>2, Induction
<1>4. SUFFICES ASSUME NEW last \in mid .. Len(counts)
               PROVE  Product(counts, first, last)
                      = Product(counts, first, mid) * Product(counts, mid + 1, last)
  OBVIOUS
<1>5. last - mid \in Nat /\ mid + (last - mid) = last /\ last <= Len(counts)
  BY CountsFacts
<1>6. last - mid \in S
  BY <1>3, <1>5
<1>7. QED
  BY <1>5, <1>6 DEF S

-----------------------------------------------------------------------------
(* Division.                                                               *)

\* What the division of two numbers returns.
LEMMA Division ==
    ASSUME NEW x \in Nat, NEW y \in Nat \ {0}
    PROVE  /\ x \div y \in Nat /\ x % y \in 0 .. (y - 1)
           /\ x = (x \div y) * y + (x % y)
OBVIOUS

\* Quotient and remainder are the only numbers of their kind.
LEMMA DivisionUnique ==
    ASSUME NEW x \in Nat, NEW y \in Nat \ {0}, NEW q \in Nat, NEW r \in 0 .. (y - 1), x = q * y + r
    PROVE  x \div y = q /\ x % y = r
OBVIOUS

\* Dividing by a product is dividing by its factors in turn.
LEMMA DivideTwice ==
    ASSUME NEW x \in Nat, NEW a \in Nat \ {0}, NEW b \in Nat \ {0}
    PROVE  /\ x \div (a * b) = (x \div b) \div a
           /\ (x % (a * b)) \div b = (x \div b) % a
           /\ (x % (a * b)) % b = x % b
<1> DEFINE q == x \div b
           r == x % b
           u == q \div a
           v == q % a
<1>1. q \in Nat /\ r \in 0 .. (b - 1) /\ x = q * b + r
  BY Division
<1>2. u \in Nat /\ v \in 0 .. (a - 1) /\ q = u * a + v
  BY <1>1, Division
<1> HIDE DEF q, r, u, v
<1>3. a * b \in Nat \ {0}
  OBVIOUS
<1>4. v * b + r \in 0 .. (a * b - 1)
  <2>1. v * b <= (a - 1) * b
    BY <1>2
  <2>2. (a - 1) * b = a * b - b /\ v * b \in Nat
    BY <1>2
  <2>3. QED
    BY <1>1, <1>3, <2>1, <2>2
<1>5. x = u * (a * b) + (v * b + r)
  <2>1. (u * a + v) * b = u * (a * b) + v * b
    BY <1>2
  <2>2. QED
    BY <1>1, <1>2, <2>1
<1>6. x \div (a * b) = u /\ x % (a * b) = v * b + r
  BY <1>2, <1>3, <1>4, <1>5, DivisionUnique
<1>7. (v * b + r) \div b = v /\ (v * b + r) % b = r
  BY <1>1, <1>2, <1>4, DivisionUnique
<1>8. QED
  BY <1>6, <1>7 DEF q, r, u, v

-----------------------------------------------------------------------------
(* Coordinates.  Item n is in the row of the first a axes whose number is  *)
(* Prefix(counts, a, n); from one axis to the next that number is divided. *)

Prefix(counts, a, n) == n \div Product(counts, a + 1, Len(counts))

\* An item's number over the leading axes: one division per axis left out.
LEMMA PrefixFacts ==
    ASSUME NEW counts \in Counts, NEW n \in Nat
    PROVE  /\ \A a \in 0 .. Len(counts) : Prefix(counts, a, n) \in Nat
           /\ Prefix(counts, Len(counts), n) = n
           /\ \A a \in 1 .. Len(counts) :
                 Prefix(counts, a - 1, n) = Prefix(counts, a, n) \div counts[a]
<1> DEFINE D == Len(counts)
<1>1. D \in Nat \ {0}
  BY CountsFacts
<1>2. \A a \in 0 .. D : Product(counts, a + 1, D) \in Nat \ {0}
  BY <1>1, ProductType
<1>3. \A a \in 0 .. D : Prefix(counts, a, n) \in Nat
  BY <1>2, Division DEF Prefix
<1>4. Prefix(counts, D, n) = n
  <2>1. Product(counts, D + 1, D) = 1
    BY <1>1, ProductRule
  <2>2. QED
    BY <2>1 DEF Prefix
<1>5. ASSUME NEW a \in 1 .. D
      PROVE  Prefix(counts, a - 1, n) = Prefix(counts, a, n) \div counts[a]
  <2>1. a \in Nat \ {0} /\ a <= a + 1 /\ D \in a .. D /\ a \in 0 .. D /\ a - 1 \in 0 .. D
    BY <1>1
  <2>2. Product(counts, a, D) = Product(counts, a, a) * Product(counts, a + 1, D)
    BY <2>1, ProductSplits
  <2>3. Product(counts, a, a) = Product(counts, a, a - 1) * counts[a]
    BY <2>1, ProductRule
  <2>4. Product(counts, a, a - 1) = 1 /\ counts[a] \in Nat \ {0}
    BY <2>1, ProductRule, CountsFacts
  <2>5. Product(counts, a, a) = counts[a]
    BY <2>3, <2>4
  <2>6. n \div (counts[a] * Product(counts, a + 1, D))
        = (n \div Product(counts, a + 1, D)) \div counts[a]
    BY <1>2, <2>1, <2>4, DivideTwice
  <2>7. a - 1 + 1 = a
    OBVIOUS
  <2>8. QED
    BY <2>2, <2>5, <2>6, <2>7 DEF Prefix
<1>6. QED
  BY <1>3, <1>4, <1>5

\* A coordinate is what the division of the row's number leaves over.
LEMMA RowMajorFacts ==
    ASSUME NEW counts \in Counts, NEW n \in Nat
    PROVE  /\ RowMajor(counts, n) \in [1 .. Len(counts) -> Nat]
           /\ RowMajor(counts, n)[1] = Prefix(counts, 1, n)
           /\ \A a \in 2 .. Len(counts) :
                 /\ RowMajor(counts, n)[a] = Prefix(counts, a, n) % counts[a]
                 /\ RowMajor(counts, n)[a] \in 0 .. (counts[a] - 1)
                 /\ Prefix(counts, a, n)
                    = Prefix(counts, a - 1, n) * counts[a] + RowMajor(counts, n)[a]
<1>1. Len(counts) \in Nat \ {0} /\ DOMAIN counts = 1 .. Len(counts)
  BY CountsFacts
<1>2. \A a \in 1 .. Len(counts) :
          RowMajor(counts, n)[a] = IF a = 1 THEN Prefix(counts, a, n)
                                   ELSE Prefix(counts, a, n) % counts[a]
  BY <1>1 DEF RowMajor, Prefix
<1>3. ASSUME NEW a \in 2 .. Len(counts)
      PROVE  /\ Prefix(counts, a, n) % counts[a] \in 0 .. (counts[a] - 1)
             /\ Prefix(counts, a, n)
                = Prefix(counts, a - 1, n) * counts[a] + (Prefix(counts, a, n) % counts[a])
  <2>0. a \in 1 .. Len(counts) /\ a \in 0 .. Len(counts)
    BY <1>1
  <2>1. Prefix(counts, a, n) \in Nat /\ counts[a] \in Nat \ {0}
    <3>1. counts[a] \in Nat /\ counts[a] > 0
      BY <2>0, CountsFacts
    <3>2. Prefix(counts, a, n) \in Nat
      BY <2>0, PrefixFacts
    <3>3. QED
      BY <3>1, <3>2
  <2>2. Prefix(counts, a - 1, n) = Prefix(counts, a, n) \div counts[a]
    BY <2>0, PrefixFacts
  <2> DEFINE x == Prefix(counts, a, n)
             y == counts[a]
  <2>3. x \in Nat /\ y \in Nat \ {0}
    BY <2>1
  <2> HIDE DEF x, y
  <2>4. (x % y) \in 0 .. (y - 1) /\ x = (x \div y) * y + (x % y)
    BY <2>3, Division
  <2>5. QED
    BY <2>2, <2>4 DEF x, y
<1>4. \A a \in 1 .. Len(counts) : RowMajor(counts, n)[a] \in Nat
  <2>1. ASSUME NEW a \in 1 .. Len(counts) PROVE RowMajor(counts, n)[a] \in Nat
    <3>1. CASE a = 1
      <4>1. 1 \in 0 .. Len(counts) /\ 1 \in 1 .. Len(counts)
        BY <1>1
      <4>2. QED
        BY <1>2, <3>1, <4>1, PrefixFacts
    <3>2. CASE a # 1
      <4>1. a \in 2 .. Len(counts) /\ counts[a] \in Nat
        BY <1>1, <3>2, CountsFacts
      <4>2. QED
        BY <1>2, <1>3, <3>2, <4>1
    <3>3. QED
      BY <3>1, <3>2
  <2>2. QED
    BY <2>1
<1>5. RowMajor(counts, n) = [a \in 1 .. Len(counts) |-> RowMajor(counts, n)[a]]
  BY <1>1 DEF RowMajor
<1>6. RowMajor(counts, n) \in [1 .. Len(counts) -> Nat]
  BY <1>4, <1>5
<1>7. QED
  BY <1>1, <1>2, <1>3, <1>6

\* Different items have different coordinates.
LEMMA RowMajorInjective ==
    ASSUME NEW counts \in Counts, NEW m \in Nat, NEW n \in Nat,
           \A a \in 1 .. Len(counts) : RowMajor(counts, m)[a] = RowMajor(counts, n)[a]
    PROVE  m = n
<1> DEFINE S == {k \in Nat : k + 1 <= Len(counts) =>
                    Prefix(counts, k + 1, m) = Prefix(counts, k + 1, n)}
<1>1. Len(counts) \in Nat \ {0}
  BY CountsFacts
<1>2. 0 \in S
  BY <1>1, RowMajorFacts
<1>3. ASSUME NEW k \in Nat, k \in S PROVE k + 1 \in S
  <2> DEFINE a == k + 2
  <2> SUFFICES ASSUME a <= Len(counts) PROVE Prefix(counts, a, m) = Prefix(counts, a, n)
    BY k + 1 + 1 = k + 2
  <2>1. a \in 2 .. Len(counts) /\ a - 1 = k + 1 /\ a \in 1 .. Len(counts)
    BY <1>1
  <2>2. Prefix(counts, a - 1, m) = Prefix(counts, a - 1, n)
    BY <1>3, <2>1
  <2>3. RowMajor(counts, m)[a] = RowMajor(counts, n)[a]
    BY <2>1
  <2>4. /\ Prefix(counts, a, m) = Prefix(counts, a - 1, m) * counts[a] + RowMajor(counts, m)[a]
        /\ Prefix(counts, a, n) = Prefix(counts, a - 1, n) * counts[a] + RowMajor(counts, n)[a]
    BY <2>1, RowMajorFacts
  <2>5. QED
    BY <2>2, <2>3, <2>4
<1> HIDE DEF S
<1>4. Len(counts) - 1 \in Nat /\ Len(counts) - 1 \in S
  BY <1>1, <1>2, <1>3, Induction
<1>5. Prefix(counts, Len(counts), m) = Prefix(counts, Len(counts), n)
  <2>1. Len(counts) - 1 + 1 = Len(counts)
    BY <1>1
  <2>2. QED
    BY <1>1, <1>4, <2>1 DEF S
<1>6. QED
  BY <1>5, PrefixFacts

\* An item of the range has coordinates in the grid.
LEMMA RowMajorInGrid ==
    ASSUME NEW counts \in Counts, NEW n \in Nat, n < Linear(counts)
    PROVE  \A a \in 1 .. Len(counts) : RowMajor(counts, n)[a] \in 0 .. (counts[a] - 1)
<1>1. Len(counts) \in Nat \ {0} /\ counts[1] \in Nat \ {0}
  BY CountsFacts
<1>2. Product(counts, 2, Len(counts)) \in Nat \ {0}
  BY <1>1, ProductType
<1>3. Linear(counts) = counts[1] * Product(counts, 2, Len(counts))
  <2>1. Product(counts, 1, 1) = counts[1]
    <3>1. Product(counts, 1, 1) = Product(counts, 1, 0) * counts[1] /\ Product(counts, 1, 0) = 1
      BY <1>1, ProductRule
    <3>2. QED
      BY <1>1, <3>1
  <2>2. QED
    BY <1>1, <2>1, ProductSplits DEF Linear
<1>4. Prefix(counts, 1, n) < counts[1]
  <2> DEFINE p == Product(counts, 2, Len(counts))
             q == n \div p
             c == counts[1]
  <2>1. Prefix(counts, 1, n) = q /\ p \in Nat \ {0} /\ c \in Nat /\ n < c * p
    BY <1>1, <1>2, <1>3 DEF Prefix
  <2> HIDE DEF p, c
  <2>2. q \in Nat /\ q * p <= n
    <3> HIDE DEF q
    <3>1. q \in Nat /\ (n % p) \in 0 .. (p - 1) /\ n = q * p + (n % p)
      <4>1. (n \div p) \in Nat /\ (n % p) \in 0 .. (p - 1) /\ n = (n \div p) * p + (n % p)
        BY <2>1, Division
      <4>2. QED
        BY <4>1 DEF q
    <3>2. q * p \in Nat
      BY <2>1, <3>1
    <3>3. QED
      BY <3>1, <3>2
  <2> HIDE DEF q
  <2>3. ASSUME q >= c PROVE FALSE
    <3>1. q * p >= c * p
      BY <2>1, <2>2, <2>3
    <3>2. QED
      BY <2>1, <2>2, <3>1
  <2>4. QED
    BY <2>1, <2>2, <2>3 DEF c
<1>5. ASSUME NEW a \in 1 .. Len(counts) PROVE RowMajor(counts, n)[a] \in 0 .. (counts[a] - 1)
  <2>1. CASE a = 1
    <3>1. RowMajor(counts, n)[1] = Prefix(counts, 1, n) /\ Prefix(counts, 1, n) \in Nat
      BY <1>1, RowMajorFacts, PrefixFacts, 1 \in 0 .. Len(counts)
    <3>2. QED
      BY <1>1, <1>4, <2>1, <3>1
  <2>2. CASE a # 1
    <3>1. a \in 2 .. Len(counts)
      BY <1>1, <2>2
    <3>2. QED
      BY <3>1, RowMajorFacts
  <2>3. QED
    BY <2>1, <2>2
<1>6. QED
  BY <1>5

-----------------------------------------------------------------------------
(* Carrying.                                                               *)

\* The axis at which a step stops carrying.
MovedAxis(at, step, limit) ==
    Max({1} \cup {a \in 2 .. Len(at) : ~Beyond(at[a] + step[a], limit[a])})

\* The axis that an advance stops at: those after it overflow, it does not.
LEMMA MovedAxisFacts ==
    ASSUME NEW at, NEW step, NEW limit, Len(at) \in Nat \ {0}
    PROVE  \E m : /\ m = MovedAxis(at, step, limit)
                  /\ m \in 1 .. Len(at)
                  /\ m # 1 => ~Beyond(at[m] + step[m], limit[m])
                  /\ \A a \in 2 .. Len(at) : a > m => Beyond(at[a] + step[a], limit[a])
<1> DEFINE S == {1} \cup {a \in 2 .. Len(at) : ~Beyond(at[a] + step[a], limit[a])}
<1>1. S \subseteq 0 .. Len(at) /\ S # {}
  OBVIOUS
<1>2. \E x \in S : \A y \in S : y <= x
  BY <1>1, GreatestNumber, Len(at) \in Nat
<1>3. Max(S) \in S /\ \A y \in S : Max(S) >= y
  <2>1. \E x \in S : \A y \in S : x >= y
    BY <1>1, <1>2
  <2> HIDE DEF S
  <2>2. QED
    BY <2>1 DEF Max
<1>4. MovedAxis(at, step, limit) = Max(S)
  BY DEF MovedAxis
<1> HIDE DEF S
<1> DEFINE m == Max(S)
<1>5. m \in S /\ \A y \in S : m >= y
  BY <1>3
<1> HIDE DEF m
<1>6. m \in 1 .. Len(at) /\ (m # 1 => ~Beyond(at[m] + step[m], limit[m]))
  BY <1>5 DEF S
<1>7. ASSUME NEW a \in 2 .. Len(at), a > m PROVE Beyond(at[a] + step[a], limit[a])
  <2>1. a \notin S
    BY <1>5, <1>6, <1>7
  <2>2. QED
    BY <2>1 DEF S
<1>8. QED
  BY <1>4, <1>6, <1>7 DEF m

\* What an advance does to each axis.
LEMMA AdvanceIs ==
    ASSUME NEW at, NEW step, NEW limit
    PROVE  Advance(at, step, limit) =
               [a \in DOMAIN at |-> IF a < MovedAxis(at, step, limit) THEN at[a]
                                    ELSE IF a = MovedAxis(at, step, limit) THEN at[a] + step[a]
                                    ELSE 0]
BY DEF Advance, MovedAxis

\* Axis by axis from the last, a step of k along axis g carries: axis a gets
\* CarryIn(m, g, k, a) from those below it, m being the axis where it ends.
CarryIn(m, g, k, a) == IF a >= g THEN k ELSE IF a >= m THEN 1 ELSE 0

StepAlong(counts, g, k) == [a \in 1 .. Len(counts) |-> IF a = g THEN k ELSE 1]

\* A step along axis g, within the row or with g outermost, when no axis after
\* g has more than one tile.
StepFits(counts, n, g, k) ==
    /\ g \in 1 .. Len(counts)
    /\ k \in Nat \ {0}
    /\ g # 1 => RowMajor(counts, n)[g] + k <= counts[g]
    /\ \A a \in 1 .. Len(counts) : a > g => counts[a] = 1

\* In a nest's own numbering the carry ends at or before the axis stepped along.
LEMMA CarryEnds ==
    ASSUME NEW counts \in Counts, NEW n \in Nat, NEW g, NEW k, StepFits(counts, n, g, k),
           NEW m, m = MovedAxis(RowMajor(counts, n), StepAlong(counts, g, k), counts)
    PROVE  /\ m \in 1 .. Len(counts) /\ m <= g
           /\ m # 1 => RowMajor(counts, n)[m] + StepAlong(counts, g, k)[m] < counts[m]
           /\ \A a \in 2 .. Len(counts) :
                 a > m => RowMajor(counts, n)[a] + StepAlong(counts, g, k)[a] >= counts[a]
<1> DEFINE R == RowMajor(counts, n)
           step == StepAlong(counts, g, k)
<1>1. Len(counts) \in Nat \ {0} /\ R \in [1 .. Len(counts) -> Nat] /\ Len(R) = Len(counts)
  BY CountsFacts, RowMajorFacts
<1>2. /\ m \in 1 .. Len(R)
      /\ m # 1 => ~Beyond(R[m] + step[m], counts[m])
      /\ \A a \in 2 .. Len(R) : a > m => Beyond(R[a] + step[a], counts[a])
  <2>1. Len(R) \in Nat \ {0}
    BY <1>1
  <2> HIDE DEF R, step
  <2>2. QED
    BY <2>1, MovedAxisFacts DEF R, step
<1>3. R[m] \in Nat /\ step[m] = (IF m = g THEN k ELSE 1)
  BY <1>1, <1>2 DEF StepAlong
<1>4. m # 1 => R[m] + step[m] < counts[m]
  <2>1. counts[m] \in Nat
    BY <1>1, <1>2, CountsFacts
  <2>2. QED
    BY <1>2, <1>3, <2>1 DEF Beyond, StepFits
<1>5. m <= g
  <2>1. m > g => counts[m] = 1 /\ step[m] = 1 /\ m # 1
    BY <1>1, <1>2, <1>3 DEF StepFits
  <2>2. g \in 1 .. Len(counts)
    BY DEF StepFits
  <2>3. QED
    BY <1>1, <1>2, <1>3, <1>4, <2>1, <2>2
<1>6. QED
  BY <1>1, <1>2, <1>4, <1>5 DEF Beyond

\* Carrying into axis a - 1 is what dividing the larger number yields.
LEMMA CarryStep ==
    ASSUME NEW counts \in Counts, NEW n \in Nat, NEW g, NEW k, StepFits(counts, n, g, k),
           NEW m, m = MovedAxis(RowMajor(counts, n), StepAlong(counts, g, k), counts),
           NEW a \in 2 .. Len(counts),
           Prefix(counts, a, n + k) = Prefix(counts, a, n) + CarryIn(m, g, k, a)
    PROVE  /\ Prefix(counts, a - 1, n + k) = Prefix(counts, a - 1, n) + CarryIn(m, g, k, a - 1)
           /\ RowMajor(counts, n + k)[a]
              = Advance(RowMajor(counts, n), StepAlong(counts, g, k), counts)[a]
<1> DEFINE r == RowMajor(counts, n)[a]
           c == counts[a]
           p == Prefix(counts, a - 1, n)
           d == CarryIn(m, g, k, a)
           e == CarryIn(m, g, k, a - 1)
           s == StepAlong(counts, g, k)[a]
<1>1. Len(counts) \in Nat \ {0} /\ DOMAIN counts = 1 .. Len(counts) /\ n + k \in Nat
  BY CountsFacts DEF StepFits
<1>2. a \in 1 .. Len(counts) /\ a \in 0 .. Len(counts) /\ a - 1 \in 0 .. Len(counts)
  BY <1>1
<1>3. c \in Nat \ {0} /\ r \in 0 .. (c - 1) /\ r \in Nat /\ p \in Nat
  <2>1. c \in Nat /\ c > 0
    BY <1>2, CountsFacts
  <2>2. r \in 0 .. (c - 1)
    BY RowMajorFacts
  <2>3. p \in Nat
    BY <1>2, PrefixFacts
  <2>4. QED
    BY <2>1, <2>2, <2>3
<1>4. Prefix(counts, a, n) = p * c + r
  BY RowMajorFacts
<1>5. /\ Prefix(counts, a - 1, n + k) = Prefix(counts, a, n + k) \div c
      /\ RowMajor(counts, n + k)[a] = Prefix(counts, a, n + k) % c
  BY <1>1, <1>2, PrefixFacts, RowMajorFacts
<1>6. RowMajor(counts, n) \in [1 .. Len(counts) -> Nat] /\ Len(RowMajor(counts, n)) = Len(counts)
  BY <1>1, RowMajorFacts
<1>7. /\ m \in 1 .. Len(counts) /\ m <= g
      /\ m = a => r + s < c
      /\ a > m => r + s >= c
  <2>1. s \in Nat
    BY <1>2 DEF StepAlong, StepFits
  <2>2. QED
    BY <1>3, <2>1, CarryEnds
<1>8. g \in 1 .. Len(counts) /\ k \in Nat \ {0} /\ s = (IF a = g THEN k ELSE 1)
      /\ (a = g => r + k <= c) /\ (a > g => c = 1)
  BY <1>2 DEF StepFits, StepAlong
<1>9. Advance(RowMajor(counts, n), StepAlong(counts, g, k), counts)[a]
      = IF a < m THEN r ELSE IF a = m THEN r + s ELSE 0
  BY <1>2, <1>6, AdvanceIs
<1>10. Prefix(counts, a, n + k) = p * c + r + d
  BY <1>4
<1>11. d = (IF a >= g THEN k ELSE IF a >= m THEN 1 ELSE 0)
       /\ e = (IF a - 1 >= g THEN k ELSE IF a - 1 >= m THEN 1 ELSE 0)
  BY DEF CarryIn
<1> HIDE DEF r, c, p, d, e, s
<1>12. CASE a > g
  <2>1. c = 1 /\ r = 0 /\ d = k /\ e = k
    BY <1>3, <1>7, <1>8, <1>11, <1>12
  <2>2. a > m
    BY <1>2, <1>7, <1>8, <1>12
  <2>3. p * c + r + d = p + k
    BY <1>3, <1>8, <2>1
  <2>4. (p + k) \div 1 = p + k /\ (p + k) % 1 = 0
    BY <1>3, <1>8
  <2>5. QED
    BY <1>3, <1>5, <1>7, <1>8, <1>9, <1>10, <2>1, <2>2, <2>3, <2>4 DEF c, p, e
<1>13. CASE a <= g
  <2>1. d \in Nat /\ e \in {0, 1}
    BY <1>2, <1>7, <1>8, <1>11, <1>13
  <2>2. r + d - e * c = IF a < m THEN r ELSE IF a = m THEN r + s ELSE 0
    <3>1. CASE a < m
      <4>1. d = 0 /\ e = 0
        BY <1>2, <1>7, <1>8, <1>11, <3>1
      <4>2. QED
        BY <1>3, <3>1, <4>1
    <3>2. CASE a = m
      <4>1. d = s /\ e = 0
        BY <1>2, <1>7, <1>8, <1>11, <1>13, <3>2
      <4>2. QED
        BY <1>3, <1>8, <3>2, <4>1
    <3>3. CASE a > m
      <4>1. r + s = c
        BY <1>2, <1>3, <1>7, <1>8, <1>13, <3>3
      <4>2. d = s /\ e = 1
        BY <1>2, <1>7, <1>8, <1>11, <1>13, <3>3
      <4>3. QED
        BY <1>3, <1>7, <1>8, <3>3, <4>1, <4>2
    <3>4. QED
      BY <1>2, <1>7, <3>1, <3>2, <3>3
  <2>3. r + d - e * c \in 0 .. (c - 1)
    <3>1. a = m => r + s \in 0 .. (c - 1)
      BY <1>3, <1>7, <1>8
    <3>2. QED
      BY <1>3, <2>2, <3>1
  <2> DEFINE y == r + d - e * c
  <2>4. y = r + d - e * c /\ y \in 0 .. (c - 1)
    BY <2>3
  <2> HIDE DEF y
  <2> DEFINE x == Prefix(counts, a, n + k)
             q == p + e
  <2>5. x \in Nat /\ q \in Nat /\ x = q * c + y
    <3>1. x \in Nat /\ q \in Nat
      <4> DEFINE j == n + k
      <4>1. j \in Nat /\ a \in 0 .. Len(counts)
        BY <1>1, <1>2
      <4> HIDE DEF j
      <4>2. Prefix(counts, a, j) \in Nat
        BY <4>1, PrefixFacts
      <4>3. q \in Nat
        BY <1>3, <2>1
      <4>4. QED
        BY <4>2, <4>3 DEF j
    <3>2. (p + e) * c = p * c + e * c
      BY <1>3, <2>1
    <3>3. p * c \in Nat /\ e * c \in Nat
      BY <1>3, <2>1
    <3>4. x = p * c + r + d
      BY <1>10
    <3> HIDE DEF x
    <3>5. QED
      BY <1>3, <2>1, <2>4, <3>1, <3>2, <3>3, <3>4
  <2>6. x = Prefix(counts, a, n + k) /\ q = p + e
    OBVIOUS
  <2> HIDE DEF x, q
  <2>7. x \div c = q /\ x % c = y
    BY <1>3, <2>4, <2>5, DivisionUnique
  <2>8. QED
    BY <1>5, <1>9, <2>2, <2>4, <2>6, <2>7 DEF c, p, e
<1>14. QED
  BY <1>2, <1>8, <1>12, <1>13

\* Carrying finds the coordinates of the item k further on, over every row end.
THEOREM AdvanceWalks ==
    ASSUME NEW counts \in Counts, NEW n \in Nat, NEW g, NEW k, StepFits(counts, n, g, k)
    PROVE  Advance(RowMajor(counts, n), StepAlong(counts, g, k), counts)
           = RowMajor(counts, n + k)
<1> DEFINE D == Len(counts)
           R == RowMajor(counts, n)
           m == MovedAxis(R, StepAlong(counts, g, k), counts)
           A == Advance(R, StepAlong(counts, g, k), counts)
           Follows(a) == Prefix(counts, a, n + k) = Prefix(counts, a, n) + CarryIn(m, g, k, a)
           S == {i \in Nat : i < D => Follows(D - i)}
<1>1. D \in Nat \ {0} /\ g \in 1 .. D /\ k \in Nat \ {0} /\ n + k \in Nat
  BY CountsFacts DEF StepFits
<1>2. R \in [1 .. D -> Nat] /\ Len(R) = D /\ RowMajor(counts, n + k) \in [1 .. D -> Nat]
  <2> DEFINE j == n + k
  <2>1. j \in Nat
    BY <1>1
  <2> HIDE DEF j
  <2>2. RowMajor(counts, j) \in [1 .. D -> Nat]
    BY <2>1, RowMajorFacts
  <2>3. R \in [1 .. D -> Nat]
    BY RowMajorFacts
  <2>4. Len(R) = D
    BY <1>1, <2>3
  <2>5. QED
    BY <2>2, <2>3, <2>4 DEF j
<1>3. 0 \in S
  <2>1. Follows(D)
    BY <1>1, PrefixFacts DEF CarryIn
  <2>2. QED
    BY <1>1, <2>1
<1>4. ASSUME NEW i \in Nat, i \in S PROVE i + 1 \in S
  <2> SUFFICES ASSUME i + 1 < D PROVE Follows(D - (i + 1))
    OBVIOUS
  <2> DEFINE a == D - i
  <2>1. a \in 2 .. D /\ a - 1 = D - (i + 1)
    BY <1>1
  <2>2. Follows(a)
    BY <1>1, <1>4
  <2> HIDE DEF a
  <2>3. Follows(a - 1)
    BY <2>1, <2>2, CarryStep
  <2>4. QED
    BY <2>1, <2>3
<1> HIDE DEF S
<1>5. \A a \in 1 .. D : Follows(a)
  <2>1. ASSUME NEW a \in 1 .. D PROVE Follows(a)
    <3>1. D - a \in Nat /\ D - a < D /\ D - (D - a) = a
      BY <1>1
    <3>2. D - a \in S
      BY <1>3, <1>4, <3>1, Induction
    <3>3. QED
      BY <3>1, <3>2 DEF S
  <2>2. QED
    BY <2>1
<1>6. A \in [1 .. D -> Nat] /\ \A a \in 1 .. D : A[a] = RowMajor(counts, n + k)[a]
  <2>1. A = [a \in 1 .. D |-> A[a]]
    BY <1>2, AdvanceIs
  <2>2. ASSUME NEW a \in 2 .. D PROVE A[a] = RowMajor(counts, n + k)[a]
    <3>1. a \in 1 .. D
      BY <1>1
    <3>2. QED
      BY <1>5, <3>1, CarryStep
  <2>3. A[1] = RowMajor(counts, n + k)[1]
    <3>1. 1 \in 1 .. D /\ 1 \in 0 .. D
      BY <1>1
    <3>2. RowMajor(counts, n + k)[1] = R[1] + CarryIn(m, g, k, 1)
      BY <1>1, <1>5, <3>1, RowMajorFacts
    <3>3. m \in 1 .. D /\ m <= g
      BY CarryEnds
    <3>4. A[1] = IF 1 < m THEN R[1] ELSE IF 1 = m THEN R[1] + StepAlong(counts, g, k)[1] ELSE 0
      BY <1>2, <3>1, AdvanceIs
    <3>5. StepAlong(counts, g, k)[1] = IF 1 = g THEN k ELSE 1
      BY <3>1 DEF StepAlong
    <3> HIDE DEF m, A, R
    <3>6. QED
      BY <1>1, <1>2, <3>1, <3>2, <3>3, <3>4, <3>5 DEF CarryIn
  <2>4. ASSUME NEW a \in 1 .. D PROVE A[a] = RowMajor(counts, n + k)[a]
    <3>1. a = 1 \/ a \in 2 .. D
      BY <1>1
    <3>2. QED
      BY <2>2, <2>3, <3>1
  <2>5. QED
    BY <1>2, <2>1, <2>4
<1>7. QED
  BY <1>2, <1>6

\* The first tile count that reaches the end of the range is divide_round_up's.
LEMMA RoundUp ==
    ASSUME NEW n \in Nat \ {0}, NEW q \in Nat \ {0}
    PROVE  /\ divide_round_up(n, q) \in Nat \ {0}
           /\ \A c \in Nat : c * q >= n <=> c >= divide_round_up(n, q)
<1> DEFINE u == n \div q
           r == n % q
           d == divide_round_up(n, q)
<1>1. u \in Nat /\ r \in 0 .. (q - 1) /\ n = u * q + r
  BY Division
<1>2. d = IF r = 0 THEN u ELSE u + 1
  BY DEF divide_round_up
<1> HIDE DEF u, r, d
<1>3. d \in Nat \ {0}
  BY <1>1, <1>2
<1>4. n <= d * q /\ n > (d - 1) * q
  <2>1. CASE r = 0
    BY <1>1, <1>2, <2>1
  <2>2. CASE r # 0
    <3>1. d = u + 1 /\ (u + 1) * q = u * q + q /\ u * q \in Nat /\ d - 1 = u
      BY <1>1, <1>2, <2>2
    <3>2. QED
      BY <1>1, <2>2, <3>1
  <2>3. QED
    BY <2>1, <2>2
<1>5. ASSUME NEW c \in Nat PROVE c * q >= n <=> c >= d
  <2>1. CASE c >= d
    <3>1. c * q >= d * q
      BY <1>3, <2>1
    <3>2. QED
      BY <1>3, <1>4, <2>1, <3>1
  <2>2. CASE c < d
    <3>1. c * q <= (d - 1) * q
      <4>1. c <= d - 1 /\ d - 1 \in Nat
        BY <1>3, <2>2
      <4>2. \A x, y, z \in Nat : x <= y => x * z <= y * z
        OBVIOUS
      <4>3. QED
        BY <4>1, <4>2
    <3>2. c * q \in Nat /\ (d - 1) * q \in Int
      BY <1>3
    <3>3. QED
      BY <1>3, <1>4, <2>2, <3>1, <3>2
  <2>3. QED
    BY <1>3, <2>1, <2>2
<1>6. QED
  BY <1>3, <1>5 DEF d

\* A grid: the number of elements along each axis and those of a tile.
IsGrid(range, tile) == range \in Counts /\ tile \in Counts /\ Len(range) = Len(tile)

\* The tiles of a grid along its axes.
LEMMA TileCountsType ==
    ASSUME NEW range, NEW tile, IsGrid(range, tile)
    PROVE  /\ TileCounts(range, tile) \in Counts
           /\ Len(TileCounts(range, tile)) = Len(range)
           /\ \A a \in 1 .. Len(range) :
                 TileCounts(range, tile)[a] = divide_round_up(range[a], tile[a])
<1> DEFINE D == Len(range)
           counts == TileCounts(range, tile)
<1>1. D \in Nat \ {0} /\ DOMAIN range = 1 .. D /\ Len(tile) = D
  BY CountsFacts DEF IsGrid
<1>2. \A a \in 1 .. D : counts[a] = divide_round_up(range[a], tile[a])
  BY <1>1 DEF TileCounts
<1>3. ASSUME NEW a \in 1 .. D PROVE divide_round_up(range[a], tile[a]) \in Nat \ {0}
  <2>1. range[a] \in Nat \ {0} /\ tile[a] \in Nat \ {0}
    BY <1>1, CountsFacts DEF IsGrid
  <2>2. QED
    BY <2>1, RoundUp
<1>4. counts \in [1 .. D -> Nat \ {0}]
  BY <1>1, <1>3 DEF TileCounts
<1>5. Len(counts) = D
  BY <1>1, <1>4
<1>6. QED
  BY <1>1, <1>2, <1>4, <1>5 DEF Counts

\* Where in the range tile n begins.
TileStart(range, tile, n) ==
    [a \in 1 .. Len(range) |-> RowMajor(TileCounts(range, tile), n)[a] * tile[a]]

\* The static functions carry in elements, from the start of a tile to that of
\* the next one, and get over a last tile that is cut.
THEOREM TilesWalk ==
    ASSUME NEW range, NEW tile, IsGrid(range, tile), NEW n \in Nat
    PROVE  /\ TileStart(range, tile, n) \in [1 .. Len(range) -> Nat]
           /\ Advance(TileStart(range, tile, n), tile, range) = TileStart(range, tile, n + 1)
<1> DEFINE D == Len(range)
           counts == TileCounts(range, tile)
           R == RowMajor(counts, n)
           at == TileStart(range, tile, n)
           ones == StepAlong(counts, D, 1)
           m == MovedAxis(R, ones, counts)
<1>1. D \in Nat \ {0} /\ Len(tile) = D /\ counts \in Counts /\ Len(counts) = D
  BY TileCountsType, CountsFacts DEF IsGrid
<1>2. R \in [1 .. D -> Nat] /\ Len(R) = D
  BY <1>1, RowMajorFacts
<1>3. ASSUME NEW a \in 1 .. D
      PROVE  /\ tile[a] \in Nat \ {0} /\ range[a] \in Nat \ {0} /\ counts[a] \in Nat \ {0}
             /\ counts[a] = divide_round_up(range[a], tile[a])
             /\ at[a] = R[a] * tile[a] /\ at[a] \in Nat /\ ones[a] = 1
  <2>1. tile[a] \in Nat /\ tile[a] > 0 /\ range[a] \in Nat /\ range[a] > 0
        /\ counts[a] \in Nat /\ counts[a] > 0
    BY <1>1, CountsFacts DEF IsGrid
  <2>2. at[a] = R[a] * tile[a] /\ R[a] \in Nat
    BY <1>2 DEF TileStart
  <2>3. ones[a] = 1
    BY <1>1 DEF StepAlong
  <2>4. counts[a] = divide_round_up(range[a], tile[a])
    BY TileCountsType
  <2>5. \A x, y \in Nat : x * y \in Nat
    OBVIOUS
  <2> HIDE DEF R, at, ones, counts
  <2>6. QED
    BY <2>1, <2>2, <2>3, <2>4, <2>5
<1>4. at \in [1 .. D -> Nat] /\ Len(at) = D
  <2>1. at \in [1 .. D -> Nat]
    BY <1>3 DEF TileStart
  <2>2. QED
    BY <1>1, <2>1
<1>5. StepFits(counts, n, D, 1)
  <2>1. ASSUME D # 1 PROVE R[D] + 1 <= counts[D]
    <3>1. D \in 2 .. D /\ D \in 1 .. D
      BY <1>1, <2>1
    <3>2. R[D] \in 0 .. (counts[D] - 1) /\ counts[D] \in Nat
      BY <1>1, <1>3, <3>1, RowMajorFacts
    <3>3. QED
      BY <3>2
  <2>2. QED
    BY <1>1, <2>1 DEF StepFits
<1>6. \A a \in 1 .. D : at[a] + tile[a] >= range[a] <=> R[a] + ones[a] >= counts[a]
  <2>1. SUFFICES ASSUME NEW a \in 1 .. D
                 PROVE  at[a] + tile[a] >= range[a] <=> R[a] + ones[a] >= counts[a]
    OBVIOUS
  <2> DEFINE r == R[a]
             q == tile[a]
             x == at[a]
  <2>2. r \in Nat /\ q \in Nat \ {0} /\ x = r * q /\ ones[a] = 1
        /\ range[a] \in Nat \ {0} /\ counts[a] = divide_round_up(range[a], q)
    BY <1>2, <1>3
  <2>3. (r + 1) * q >= range[a] <=> r + 1 >= counts[a]
    <3>1. r + 1 \in Nat
      BY <2>2
    <3> HIDE DEF r, q, x, counts
    <3>2. \A c \in Nat : c * q >= range[a] <=> c >= counts[a]
      BY <2>2, RoundUp
    <3>3. QED
      BY <3>1, <3>2
  <2>4. (r + 1) * q = x + q
    <3> HIDE DEF r, q, x
    <3>1. QED
      BY <2>2
  <2>5. QED
    BY <2>2, <2>3, <2>4
<1>7. MovedAxis(at, tile, range) = m
  <2>1. {a \in 2 .. Len(at) : ~Beyond(at[a] + tile[a], range[a])}
        = {a \in 2 .. Len(R) : ~Beyond(R[a] + ones[a], counts[a])}
    <3>1. \A a \in 2 .. D : a \in 1 .. D
      BY <1>1
    <3> HIDE DEF at, R, ones, counts
    <3>2. QED
      BY <1>2, <1>4, <1>6, <3>1 DEF Beyond
  <2>2. QED
    BY <2>1 DEF MovedAxis
<1>8. Advance(R, ones, counts) = RowMajor(counts, n + 1)
  BY <1>1, <1>5, AdvanceWalks
<1>9. ASSUME NEW a \in 1 .. D
      PROVE  Advance(at, tile, range)[a] = RowMajor(counts, n + 1)[a] * tile[a]
  <2>1. Advance(at, tile, range)[a] = IF a < m THEN at[a] ELSE IF a = m THEN at[a] + tile[a] ELSE 0
    BY <1>4, <1>7, AdvanceIs
  <2>2. RowMajor(counts, n + 1)[a] = IF a < m THEN R[a] ELSE IF a = m THEN R[a] + 1 ELSE 0
    BY <1>2, <1>3, <1>8, AdvanceIs
  <2>3. R[a] \in Nat /\ tile[a] \in Nat /\ at[a] = R[a] * tile[a]
    BY <1>2, <1>3
  <2>4. (R[a] + 1) * tile[a] = R[a] * tile[a] + tile[a] /\ 0 * tile[a] = 0
    <3> HIDE DEF R
    <3>1. \A x, y \in Nat : (x + 1) * y = x * y + y /\ 0 * y = 0
      OBVIOUS
    <3>2. QED
      BY <2>3, <3>1
  <2> HIDE DEF R, at, m, counts
  <2>5. QED
    BY <2>1, <2>2, <2>3, <2>4
<1>10. Advance(at, tile, range) = TileStart(range, tile, n + 1)
  <2>1. Advance(at, tile, range) = [a \in 1 .. D |-> Advance(at, tile, range)[a]]
    BY <1>4, AdvanceIs
  <2>2. TileStart(range, tile, n + 1) = [a \in 1 .. D |-> RowMajor(counts, n + 1)[a] * tile[a]]
    BY DEF TileStart
  <2> HIDE DEF at, counts
  <2>3. QED
    BY <1>9, <2>1, <2>2
<1>11. QED
  BY <1>4, <1>10

-----------------------------------------------------------------------------
(* Dividing in any order.  The divisions before have split the axes into   *)
(* groups; an axis in the group from lo to hi has the number of that group.*)

ValidCuts(cuts, axes) ==
    /\ axes \in Nat \ {0}
    /\ cuts \in [1 .. (axes - 1) -> 1 .. (axes - 1)]
    /\ Len(cuts) = axes - 1
    /\ \A j, k \in 1 .. (axes - 1) : cuts[j] = cuts[k] => j = k
    /\ \A m \in 1 .. (axes - 1) : \E k \in 1 .. (axes - 1) : cuts[k] = m

CutsUpTo(cuts, k) == {cuts[j] : j \in 1 .. k}

IsGroup(cuts, axes, k, lo, hi) ==
    /\ lo \in 1 .. axes /\ hi \in lo .. axes
    /\ lo = 1 \/ lo - 1 \in CutsUpTo(cuts, k)
    /\ hi = axes \/ hi \in CutsUpTo(cuts, k)
    /\ \A m \in CutsUpTo(cuts, k) : m < lo \/ m >= hi

GroupNumber(counts, n, lo, hi) ==
    IF lo = 1 THEN Prefix(counts, hi, n)
              ELSE Prefix(counts, hi, n) % Product(counts, lo, hi)

\* Dividing the number of a group of axes cuts the group in two.
LEMMA GroupSplits ==
    ASSUME NEW counts \in Counts, NEW n \in Nat, NEW lo \in 1 .. Len(counts),
           NEW hi \in 1 .. Len(counts), NEW m \in lo .. (hi - 1)
    PROVE  LET x == GroupNumber(counts, n, lo, hi)
           IN  /\ x \div Product(counts, m + 1, hi) = GroupNumber(counts, n, lo, m)
               /\ x % Product(counts, m + 1, hi) = GroupNumber(counts, n, m + 1, hi)
<1> DEFINE D == Len(counts)
           x == Prefix(counts, hi, n)
           a == Product(counts, lo, m)
           b == Product(counts, m + 1, hi)
<1>1. D \in Nat \ {0} /\ m \in Nat \ {0} /\ m + 1 \in Nat \ {0} /\ lo \in Nat \ {0}
      /\ m \in 0 .. D /\ hi \in 0 .. D /\ hi \in m .. D /\ D \in hi .. D /\ lo <= m + 1
      /\ hi + 1 \in Nat \ {0} /\ m + 1 <= hi + 1 /\ hi \in Nat /\ D \in 0 .. D
  BY CountsFacts
<1>2. x \in Nat /\ a \in Nat \ {0} /\ b \in Nat \ {0}
  BY <1>1, PrefixFacts, ProductType
<1>3. Prefix(counts, m, n) = x \div b
  <2> DEFINE c == Product(counts, hi + 1, D)
  <2>1. Product(counts, m + 1, D) = b * c
    BY <1>1, ProductSplits
  <2>2. c \in Nat \ {0}
    BY <1>1, ProductType
  <2>3. x = n \div c /\ Prefix(counts, m, n) = n \div (b * c)
    BY <2>1 DEF Prefix
  <2> HIDE DEF x, b, c
  <2>4. QED
    BY <1>2, <2>2, <2>3, DivideTwice
<1>4. Product(counts, lo, hi) = a * b
  BY <1>1, ProductSplits
<1>5. (x % (a * b)) \div b = (x \div b) % a /\ (x % (a * b)) % b = x % b
  <2> HIDE DEF x, a, b
  <2>1. QED
    BY <1>2, DivideTwice
<1>6. /\ GroupNumber(counts, n, lo, hi) = IF lo = 1 THEN x ELSE x % (a * b)
      /\ GroupNumber(counts, n, lo, m) = IF lo = 1 THEN x \div b ELSE (x \div b) % a
      /\ GroupNumber(counts, n, m + 1, hi) = x % b
  BY <1>1, <1>3, <1>4 DEF GroupNumber
<1> HIDE DEF x, a, b
<1>7. QED
  BY <1>5, <1>6 DEF b

\* Each division of the split leaves the group on the side of axis a.
LEMMA DivideStep ==
    ASSUME NEW counts \in Counts, NEW n \in Nat, NEW cuts, ValidCuts(cuts, Len(counts)),
           NEW k \in 1 .. (Len(counts) - 1), NEW a \in 1 .. Len(counts),
           NEW lo, NEW hi, IsGroup(cuts, Len(counts), k - 1, lo, hi), a \in lo .. hi
    PROVE  \E l, h : /\ IsGroup(cuts, Len(counts), k, l, h) /\ a \in l .. h
                     /\ Divide(cuts, counts, a, GroupNumber(counts, n, lo, hi), k)
                        = GroupNumber(counts, n, l, h)
<1> DEFINE D == Len(counts)
           m == cuts[k]
           B == CutsUpTo(cuts, k - 1)
           Apart == \E b \in B : (a <= b /\ b < m) \/ (m < b /\ b < a)
           x == GroupNumber(counts, n, lo, hi)
<1>1. D \in Nat \ {0} /\ m \in 1 .. (D - 1) /\ m \notin B /\ B \subseteq 1 .. (D - 1)
      /\ CutsUpTo(cuts, k) = B \cup {m}
  <2>1. D \in Nat \ {0} /\ m \in 1 .. (D - 1)
    BY CountsFacts DEF ValidCuts
  <2>2. \A j \in 1 .. (k - 1) : j \in 1 .. (D - 1) /\ cuts[j] \in 1 .. (D - 1) /\ cuts[j] # m
    <3>1. cuts \in [1 .. (D - 1) -> 1 .. (D - 1)]
          /\ \A i, j \in 1 .. (D - 1) : cuts[i] = cuts[j] => i = j
      BY DEF ValidCuts
    <3>2. k \in 1 .. (D - 1) /\ \A j \in 1 .. (k - 1) : j \in 1 .. (D - 1) /\ j # k
      BY <2>1
    <3> HIDE DEF D
    <3>3. QED
      BY <3>1, <3>2
  <2>3. m \notin B /\ B \subseteq 1 .. (D - 1)
    BY <2>2 DEF CutsUpTo
  <2>4. 1 .. k = (1 .. (k - 1)) \cup {k}
    BY <2>1
  <2>5. CutsUpTo(cuts, k) = B \cup {m}
    BY <2>4 DEF CutsUpTo
  <2>6. QED
    BY <2>1, <2>3, <2>5
<1>2. /\ lo \in 1 .. D /\ hi \in lo .. D
      /\ lo = 1 \/ lo - 1 \in B
      /\ hi = D \/ hi \in B
      /\ \A b \in B : b < lo \/ b >= hi
  BY DEF IsGroup
<1>3. Divide(cuts, counts, a, x, k)
      = LET d == Product(counts, m + 1, Min({D} \cup {b \in B : b > m}))
        IN  IF Apart THEN x ELSE IF a <= m THEN x \div d ELSE x % d
  BY DEF Divide, CutsUpTo
<1> HIDE DEF B, m
<1>4. CASE Apart
  <2>1. PICK b \in B : (a <= b /\ b < m) \/ (m < b /\ b < a)
    BY <1>4
  <2>2. m < lo \/ m >= hi
    BY <1>1, <1>2, <2>1
  <2>3. IsGroup(cuts, D, k, lo, hi)
    BY <1>1, <1>2, <2>2 DEF IsGroup
  <2>4. Divide(cuts, counts, a, x, k) = x
    BY <1>3, <1>4
  <2>5. QED
    BY <2>3, <2>4
<1>5. CASE ~Apart
  <2>1. lo <= m /\ m < hi
    <3>1. m < lo => FALSE
      BY <1>1, <1>2, <1>5
    <3>2. m >= hi => FALSE
      BY <1>1, <1>2, <1>5
    <3>3. QED
      BY <1>1, <1>2, <3>1, <3>2
  <2>2. Min({D} \cup {b \in B : b > m}) = hi
    <3> DEFINE S == {D} \cup {b \in B : b > m}
    <3>1. hi \in S /\ S \subseteq Int /\ \A b \in S : hi <= b
      <4>1. hi \in S
        BY <1>2, <2>1
      <4>2. \A b \in S : b \in Int /\ hi <= b
        <5>1. \A b \in B : b \in Int /\ (b > m => hi <= b)
          BY <1>1, <1>2, <2>1
        <5>2. D \in Int /\ hi <= D
          BY <1>1, <1>2
        <5>3. QED
          BY <5>1, <5>2
      <4>3. QED
        BY <4>1, <4>2
    <3> HIDE DEF S
    <3>2. \A y \in S : (\A b \in S : y <= b) => y = hi
      BY <3>1
    <3>3. Min(S) = hi
      BY <3>1, <3>2 DEF Min
    <3>4. QED
      BY <3>3 DEF S
  <2>3. hi \in 1 .. D /\ m \in lo .. (hi - 1)
    BY <1>1, <1>2, <2>1
  <2>4. /\ x \div Product(counts, m + 1, hi) = GroupNumber(counts, n, lo, m)
        /\ x % Product(counts, m + 1, hi) = GroupNumber(counts, n, m + 1, hi)
    BY <1>2, <2>3, GroupSplits
  <2>5. Divide(cuts, counts, a, x, k)
        = IF a <= m THEN GroupNumber(counts, n, lo, m) ELSE GroupNumber(counts, n, m + 1, hi)
    BY <1>3, <1>5, <2>2, <2>4
  <2>6. IsGroup(cuts, D, k, lo, m) /\ IsGroup(cuts, D, k, m + 1, hi)
    <3>1. m \in 1 .. D /\ m \in lo .. D /\ m + 1 \in 1 .. D /\ hi \in (m + 1) .. D /\ m + 1 - 1 = m
      BY <1>1, <1>2, <2>1
    <3>2. \A b \in B \cup {m} : (b < lo \/ b >= m) /\ (b < m + 1 \/ b >= hi)
      BY <1>1, <1>2, <2>1
    <3>3. IsGroup(cuts, D, k, lo, m)
      BY <1>1, <1>2, <3>1, <3>2 DEF IsGroup
    <3>4. IsGroup(cuts, D, k, m + 1, hi)
      <4>1. m + 1 - 1 \in CutsUpTo(cuts, k) /\ (hi = D \/ hi \in CutsUpTo(cuts, k))
        BY <1>1, <1>2, <3>1
      <4>2. \A b \in CutsUpTo(cuts, k) : b < m + 1 \/ b >= hi
        BY <1>1, <3>2
      <4>3. QED
        BY <3>1, <4>1, <4>2 DEF IsGroup
    <3>5. QED
      BY <3>3, <3>4
  <2>7. CASE a <= m
    <3>1. a \in lo .. m
      BY <1>1, <1>2, <2>7
    <3>2. QED
      BY <2>5, <2>6, <2>7, <3>1
  <2>8. CASE a > m
    <3>1. a \in (m + 1) .. hi /\ ~(a <= m)
      BY <1>1, <1>2, <2>8
    <3>2. QED
      BY <2>5, <2>6, <3>1
  <2>9. QED
    BY <1>1, <2>7, <2>8
<1>6. QED
  BY <1>4, <1>5

\* The defining equation of the recursion in Split.
SplitFunction(cuts, counts, n, a) ==
    CHOOSE part : part = [k \in 0 .. Len(cuts) |->
        IF k = 0 THEN n ELSE Divide(cuts, counts, a, part[k - 1], k)]

\* The recursive definition of Split has a solution.
LEMMA SplitExists ==
    ASSUME NEW cuts, NEW counts, NEW n, NEW a, Len(cuts) \in Nat
    PROVE  LET part == SplitFunction(cuts, counts, n, a)
           IN  part = [k \in 0 .. Len(cuts) |->
                          IF k = 0 THEN n ELSE Divide(cuts, counts, a, part[k - 1], k)]
<1> DEFINE Eq(g, i) == g = [k \in 0 .. i |-> IF k = 0 THEN n
                                             ELSE Divide(cuts, counts, a, g[k - 1], k)]
           S == {i \in Nat : \E g : Eq(g, i)}
<1>1. 0 \in S
  <2> DEFINE g == [k \in 0 .. 0 |-> n]
  <2>1. Eq(g, 0)
    OBVIOUS
  <2>2. QED
    BY <2>1
<1>2. ASSUME NEW i \in Nat, i \in S PROVE i + 1 \in S
  <2>1. PICK g : Eq(g, i)
    BY <1>2
  <2> DEFINE h == [k \in 0 .. (i + 1) |-> IF k <= i THEN g[k] ELSE Divide(cuts, counts, a, g[i], k)]
  <2>2. \A k \in 0 .. (i + 1) :
            h[k] = IF k = 0 THEN n ELSE Divide(cuts, counts, a, h[k - 1], k)
    <3> SUFFICES ASSUME NEW k \in 0 .. (i + 1)
                 PROVE  h[k] = IF k = 0 THEN n ELSE Divide(cuts, counts, a, h[k - 1], k)
      OBVIOUS
    <3>1. CASE k <= i
      BY <2>1, <3>1
    <3>2. CASE k = i + 1
      BY <3>2
    <3>3. QED
      BY <3>1, <3>2
  <2>3. Eq(h, i + 1)
    BY <2>2
  <2> HIDE DEF h
  <2>4. QED
    BY <2>3
<1> HIDE DEF S
<1>3. Len(cuts) \in S
  BY <1>1, <1>2, Induction
<1>4. QED
  BY <1>3 DEF S, SplitFunction

\* In whichever order a nest divides, it finds the coordinates that the dynamic
\* functions compute one by one.
THEOREM SplitIsRowMajor ==
    ASSUME NEW counts \in Counts, NEW n \in Nat, NEW cuts, ValidCuts(cuts, Len(counts))
    PROVE  Split(cuts, counts, n) = RowMajor(counts, n)
<1> DEFINE D == Len(counts)
           part(a) == SplitFunction(cuts, counts, n, a)
<1>1. D \in Nat \ {0} /\ DOMAIN counts = 1 .. D /\ Len(cuts) = D - 1 /\ Len(cuts) \in Nat
  BY CountsFacts DEF ValidCuts
<1>2. Split(cuts, counts, n) = [a \in 1 .. D |-> part(a)[Len(cuts)]]
  BY <1>1 DEF Split, SplitFunction
<1>3. ASSUME NEW a \in 1 .. D PROVE part(a)[Len(cuts)] = RowMajor(counts, n)[a]
  <2> DEFINE Known(k) == \E lo, hi : /\ IsGroup(cuts, D, k, lo, hi) /\ a \in lo .. hi
                                     /\ part(a)[k] = GroupNumber(counts, n, lo, hi)
             S == {k \in Nat : k < D => Known(k)}
  <2>1. \A k \in 0 .. (D - 1) :
            part(a)[k] = IF k = 0 THEN n ELSE Divide(cuts, counts, a, part(a)[k - 1], k)
    BY <1>1, SplitExists
  <2>2. 0 \in S
    <3>1. IsGroup(cuts, D, 0, 1, D)
      BY <1>1 DEF IsGroup, CutsUpTo
    <3>2. part(a)[0] = GroupNumber(counts, n, 1, D)
      <4>1. part(a)[0] = n
        BY <1>1, <2>1, 0 \in 0 .. (D - 1)
      <4>2. GroupNumber(counts, n, 1, D) = n
        BY PrefixFacts DEF GroupNumber
      <4>3. QED
        BY <4>1, <4>2
    <3>3. Known(0)
      BY <3>1, <3>2
    <3>4. QED
      BY <3>3
  <2>3. ASSUME NEW i \in Nat, i \in S PROVE i + 1 \in S
    <3> SUFFICES ASSUME i + 1 < D PROVE Known(i + 1)
      OBVIOUS
    <3>1. i + 1 \in 1 .. (D - 1) /\ i + 1 - 1 = i /\ i < D /\ i + 1 \in 0 .. (D - 1)
      BY <1>1
    <3>2. PICK lo, hi : /\ IsGroup(cuts, D, i, lo, hi) /\ a \in lo .. hi
                        /\ part(a)[i] = GroupNumber(counts, n, lo, hi)
      BY <2>3, <3>1
    <3>3. PICK l, h : /\ IsGroup(cuts, D, i + 1, l, h) /\ a \in l .. h
                      /\ Divide(cuts, counts, a, GroupNumber(counts, n, lo, hi), i + 1)
                         = GroupNumber(counts, n, l, h)
      <4> DEFINE k == i + 1
      <4>1. k \in 1 .. (D - 1) /\ IsGroup(cuts, D, k - 1, lo, hi)
        BY <3>1, <3>2
      <4> HIDE DEF k
      <4>2. \E l, h : /\ IsGroup(cuts, D, k, l, h) /\ a \in l .. h
                      /\ Divide(cuts, counts, a, GroupNumber(counts, n, lo, hi), k)
                         = GroupNumber(counts, n, l, h)
        BY <3>2, <4>1, DivideStep
      <4>3. QED
        BY <4>2 DEF k
    <3>4. part(a)[i + 1] = GroupNumber(counts, n, l, h)
      BY <2>1, <3>1, <3>2, <3>3
    <3>5. QED
      BY <3>3, <3>4
  <2> HIDE DEF S, Known
  <2>4. D - 1 \in Nat /\ D - 1 < D /\ D - 1 \in S
    <3>1. \A k \in Nat : k \in S
      BY <2>2, <2>3, Induction
    <3>2. QED
      BY <1>1, <3>1
  <2>5. PICK lo, hi : /\ IsGroup(cuts, D, D - 1, lo, hi) /\ a \in lo .. hi
                      /\ part(a)[D - 1] = GroupNumber(counts, n, lo, hi)
    BY <2>4 DEF S, Known
  <2>6. \A m \in 1 .. (D - 1) : m < lo \/ m >= hi
    <3>1. \A m \in 1 .. (D - 1) : m \in CutsUpTo(cuts, D - 1)
      BY DEF CutsUpTo, ValidCuts
    <3>2. QED
      BY <2>5, <3>1 DEF IsGroup
  <2>7. lo = a /\ hi = a
    <3>1. lo \in 1 .. D /\ hi \in lo .. D
      BY <2>5 DEF IsGroup
    <3>2. lo < hi => lo \in 1 .. (D - 1)
      BY <1>1, <3>1
    <3>3. QED
      BY <1>1, <2>5, <2>6, <3>1, <3>2
  <2>8. CASE a = 1
    <3>1. RowMajor(counts, n)[a] = Prefix(counts, a, n)
      BY <2>8, RowMajorFacts
    <3>2. QED
      BY <1>1, <2>5, <2>7, <2>8, <3>1 DEF GroupNumber
  <2>9. CASE a # 1
    <3>1. a \in 2 .. D /\ a \in Nat \ {0} /\ a \in 0 .. D /\ a - 1 \in 0 .. D
      BY <1>1, <2>9
    <3>2. RowMajor(counts, n)[a] = Prefix(counts, a, n) % counts[a]
      BY <3>1, RowMajorFacts
    <3>3. Product(counts, a, a) = Product(counts, a, a - 1) * counts[a]
          /\ Product(counts, a, a - 1) = 1 /\ counts[a] \in Nat
      BY <3>1, ProductRule, CountsFacts
    <3>4. Product(counts, a, a) = counts[a]
      BY <3>3
    <3>5. QED
      BY <1>1, <2>5, <2>7, <2>9, <3>2, <3>4 DEF GroupNumber
  <2>10. QED
    BY <2>8, <2>9
<1>4. RowMajor(counts, n) = [a \in 1 .. D |-> RowMajor(counts, n)[a]]
  BY <1>1 DEF RowMajor
<1> HIDE DEF part, D
<1>5. QED
  BY <1>2, <1>3, <1>4

-----------------------------------------------------------------------------
(* Every tile of the grid is an item of the range.                         *)

\* Every tile of the grid is the tile of an item.
LEMMA RowMajorOnto ==
    ASSUME NEW counts \in Counts, NEW c,
           \A a \in 1 .. Len(counts) : c[a] \in 0 .. (counts[a] - 1)
    PROVE  \E n \in Nat : /\ n < Linear(counts)
                          /\ \A a \in 1 .. Len(counts) : RowMajor(counts, n)[a] = c[a]
<1> DEFINE D == Len(counts)
           Digit(x, a, i) == (x \div Product(counts, a + 1, i)) % counts[a]
           Found(x, i) == /\ x \in Nat /\ x < Product(counts, 1, i)
                          /\ \A a \in 1 .. i : Digit(x, a, i) = c[a]
           S == {i \in Nat : i <= D => \E x : Found(x, i)}
<1>1. D \in Nat \ {0} /\ \A a \in 1 .. D : counts[a] \in Nat \ {0}
  <2>1. \A a \in 1 .. D : counts[a] \in Nat /\ counts[a] > 0
    BY CountsFacts
  <2>2. QED
    BY <2>1, CountsFacts
<1>2. 0 \in S
  <2>1. Product(counts, 1, 0) = 1
    BY <1>1, ProductRule
  <2>2. Found(0, 0)
    BY <2>1
  <2>3. QED
    BY <2>2
<1>3. ASSUME NEW i \in Nat, i \in S PROVE i + 1 \in S
  <2> SUFFICES ASSUME i + 1 <= D PROVE \E x : Found(x, i + 1)
    OBVIOUS
  <2>1. PICK x : Found(x, i)
    BY <1>1, <1>3
  <2> DEFINE l == i + 1
             q == counts[l]
             y == x * q + c[l]
             p == Product(counts, 1, i)
  <2>2. /\ l \in 1 .. D /\ l \in 0 .. D /\ l - 1 = i /\ i \in 0 .. D
        /\ q \in Nat \ {0} /\ c[l] \in 0 .. (q - 1)
    BY <1>1
  <2>3. Product(counts, 1, l) = p * q /\ p \in Nat
    BY <1>1, <2>2, ProductRule, ProductType
  <2>4. x \in Nat /\ x < p
    BY <2>1
  <2>5. y \in Nat /\ y < p * q /\ y \div q = x /\ y % q = c[l]
    <3> DEFINE r == c[l]
    <3>1. r \in 0 .. (q - 1) /\ q \in Nat \ {0} /\ y = x * q + r
      BY <2>2
    <3> HIDE DEF r, q, p, y
    <3>2. x * q \in Nat /\ x * q <= (p - 1) * q /\ (p - 1) * q = p * q - q /\ p * q \in Nat
      <4>1. \A u, v, w \in Nat : u <= v => u * w <= v * w
        OBVIOUS
      <4>2. x <= p - 1 /\ p - 1 \in Nat
        BY <2>3, <2>4
      <4>3. x * q <= (p - 1) * q
        BY <2>4, <3>1, <4>1, <4>2
      <4>4. (p - 1) * q = p * q - q
        BY <2>3, <3>1
      <4>5. QED
        BY <2>3, <2>4, <3>1, <4>3, <4>4
    <3>3. y \in Nat /\ y < p * q
      BY <3>1, <3>2
    <3>4. y \div q = x /\ y % q = r
      BY <2>4, <3>1, <3>3, DivisionUnique
    <3>5. QED
      BY <3>3, <3>4 DEF r
  <2>6. ASSUME NEW a \in 1 .. l PROVE Digit(y, a, l) = c[a]
    <3>1. CASE a = l
      <4>1. Product(counts, l + 1, l) = 1
        BY <2>2, ProductRule
      <4>2. y \div 1 = y
        BY <2>5
      <4>3. QED
        BY <2>5, <3>1, <4>1, <4>2
    <3>2. CASE a # l
      <4>1. a \in 1 .. i /\ a + 1 \in Nat \ {0} /\ a + 1 <= l
        BY <3>2
      <4>2. Product(counts, a + 1, l) = Product(counts, a + 1, i) * q
            /\ Product(counts, a + 1, i) \in Nat \ {0}
        BY <2>2, <4>1, ProductRule, ProductType
      <4> DEFINE v == Product(counts, a + 1, i)
      <4>3. y \div (v * q) = x \div v
        <5>1. v \in Nat \ {0}
          BY <4>2
        <5> HIDE DEF v, y, q
        <5>2. y \div (v * q) = (y \div q) \div v
          BY <2>2, <2>5, <5>1, DivideTwice
        <5>3. QED
          BY <2>5, <5>2
      <4>4. Digit(x, a, i) = c[a]
        BY <2>1, <4>1
      <4>5. QED
        BY <4>2, <4>3, <4>4
    <3>3. QED
      BY <3>1, <3>2
  <2>7. Found(y, l)
    BY <2>3, <2>5, <2>6
  <2> HIDE DEF y, Found
  <2>8. QED
    BY <2>7
<1> HIDE DEF S
<1>4. D \in S
  BY <1>1, <1>2, <1>3, Induction
<1>5. PICK n : Found(n, D)
  BY <1>1, <1>4 DEF S
<1>6. n \in Nat /\ n < Linear(counts)
  BY <1>5 DEF Linear
<1>7. ASSUME NEW a \in 1 .. D PROVE RowMajor(counts, n)[a] = c[a]
  <2>1. Prefix(counts, a, n) % counts[a] = c[a]
    BY <1>5 DEF Prefix
  <2>2. CASE a = 1
    <3>1. RowMajor(counts, n)[a] = Prefix(counts, a, n)
      BY <1>6, <2>2, RowMajorFacts
    <3>2. RowMajor(counts, n)[a] \in 0 .. (counts[a] - 1)
      BY <1>6, RowMajorInGrid
    <3>3. \A x, y \in Nat : x < y => x % y = x
      OBVIOUS
    <3>4. QED
      BY <1>1, <2>1, <3>1, <3>2, <3>3
  <2>3. CASE a # 1
    <3>1. a \in 2 .. D
      BY <1>1, <2>3
    <3>2. QED
      BY <1>6, <2>1, <3>1, RowMajorFacts
  <2>4. QED
    BY <2>2, <2>3
<1>8. QED
  BY <1>6, <1>7

-----------------------------------------------------------------------------
(* The first item, the items of one row, and the end of the range.         *)

\* linear_range, the number of items.
LEMMA LinearFacts ==
    ASSUME NEW counts \in Counts
    PROVE  /\ Linear(counts) \in Nat \ {0}
           /\ Product(counts, 2, Len(counts)) \in Nat \ {0}
           /\ Linear(counts) = counts[1] * Product(counts, 2, Len(counts))
<1>1. Len(counts) \in Nat \ {0} /\ counts[1] \in Nat /\ 1 \in 1 .. Len(counts)
      /\ Len(counts) \in 0 .. Len(counts) /\ Len(counts) \in 1 .. Len(counts)
  BY CountsFacts
<1>2. Product(counts, 1, 1) = Product(counts, 1, 0) * counts[1] /\ Product(counts, 1, 0) = 1
  BY <1>1, ProductRule
<1>3. Product(counts, 1, 1) = counts[1]
  BY <1>1, <1>2
<1>4. Product(counts, 1, Len(counts)) \in Nat \ {0} /\ Product(counts, 2, Len(counts)) \in Nat \ {0}
  BY <1>1, ProductType
<1>5. Product(counts, 1, Len(counts)) = Product(counts, 1, 1) * Product(counts, 1 + 1, Len(counts))
  BY <1>1, ProductSplits
<1>6. 1 + 1 = 2
  OBVIOUS
<1>7. QED
  BY <1>3, <1>4, <1>5, <1>6 DEF Linear

\* Item 0 is the first tile along every axis.
LEMMA FirstItem ==
    ASSUME NEW counts \in Counts
    PROVE  \A a \in 1 .. Len(counts) : RowMajor(counts, 0)[a] = 0
<1> SUFFICES ASSUME NEW a \in 1 .. Len(counts) PROVE RowMajor(counts, 0)[a] = 0
  OBVIOUS
<1> DEFINE p == Product(counts, a + 1, Len(counts))
<1>1. Len(counts) \in Nat \ {0} /\ DOMAIN counts = 1 .. Len(counts)
  BY CountsFacts
<1>2. p \in Nat \ {0} /\ counts[a] \in Nat \ {0}
  <2>1. a + 1 \in Nat \ {0} /\ Len(counts) \in 0 .. Len(counts)
    BY <1>1
  <2>2. counts[a] \in Nat /\ counts[a] > 0
    BY CountsFacts
  <2>3. QED
    BY <2>1, <2>2, ProductType
<1>3. RowMajor(counts, 0)[a] = IF a = 1 THEN 0 \div p ELSE (0 \div p) % counts[a]
  BY <1>1 DEF RowMajor
<1>4. \A x \in Nat \ {0} : 0 \div x = 0 /\ 0 % x = 0
  OBVIOUS
<1> HIDE DEF p
<1>5. QED
  BY <1>2, <1>3, <1>4

\* No tile has a number of linear_range or more: the first axis ends before it.
LEMMA PastTheEnd ==
    ASSUME NEW counts \in Counts, NEW n \in Nat, n >= Linear(counts)
    PROVE  RowMajor(counts, n)[1] >= counts[1]
<1> DEFINE p == Product(counts, 2, Len(counts))
           q == n \div p
           r == n % p
           c == counts[1]
<1>1. RowMajor(counts, n)[1] = q
  BY CountsFacts, RowMajorFacts DEF Prefix
<1>2. p \in Nat \ {0} /\ c \in Nat /\ n >= c * p
  BY LinearFacts, CountsFacts
<1> HIDE DEF p, c
<1>3. q \in Nat /\ r \in 0 .. (p - 1) /\ n = q * p + r
  BY <1>2, Division
<1> HIDE DEF q, r
<1>4. ASSUME q < c PROVE FALSE
  <2>1. (q + 1) * p <= c * p
    <3>1. \A x, y, z \in Nat : x <= y => x * z <= y * z
      OBVIOUS
    <3>2. q + 1 \in Nat /\ q + 1 <= c
      BY <1>2, <1>3, <1>4
    <3>3. QED
      BY <1>2, <3>1, <3>2
  <2>2. (q + 1) * p = q * p + p /\ q * p \in Nat
    BY <1>2, <1>3
  <2>3. c * p \in Nat
    BY <1>2
  <2>4. QED
    BY <1>2, <1>3, <2>1, <2>2, <2>3
<1>5. QED
  BY <1>1, <1>2, <1>3, <1>4 DEF c

\* The items of one row have its coordinates, but for the one along it.
LEMMA RowItems ==
    ASSUME NEW counts \in Counts, NEW n \in Nat, NEW g, NEW i \in Nat,
           i # 0 => StepFits(counts, n, g, i),
           i # 0 => RowMajor(counts, n)[g] + i < counts[g]
    PROVE  \A a \in 1 .. Len(counts) :
               RowMajor(counts, n + i)[a] = RowMajor(counts, n)[a] + (IF a = g THEN i ELSE 0)
<1> DEFINE D == Len(counts)
           R == RowMajor(counts, n)
           step == StepAlong(counts, g, i)
           m == MovedAxis(R, step, counts)
<1>1. D \in Nat \ {0} /\ R \in [1 .. D -> Nat]
  BY CountsFacts, RowMajorFacts
<1>2. CASE i = 0
  BY <1>1, <1>2
<1>3. CASE i # 0
  <2>1. g \in 1 .. D /\ (\A a \in 1 .. D : a > g => counts[a] = 1)
    BY <1>3 DEF StepFits
  <2>2. m \in 1 .. D /\ m <= g /\ (\A a \in 2 .. D : a > m => R[a] + step[a] >= counts[a])
    BY <1>3, CarryEnds
  <2>3. step[g] = i
    BY <2>1 DEF StepAlong
  <2>4. m = g
    <3>1. counts[g] \in Nat /\ R[g] \in Nat
      BY <1>1, <2>1, CountsFacts
    <3>2. m < g => g \in 2 .. D
      BY <1>1, <2>1, <2>2
    <3> HIDE DEF m, R, step, D
    <3>3. m < g => R[g] + i >= counts[g]
      BY <2>2, <2>3, <3>2
    <3>4. R[g] + i < counts[g]
      BY <1>3 DEF R
    <3>5. g \in Int /\ m \in Int
      BY <2>1, <2>2
    <3>6. QED
      BY <2>2, <3>1, <3>3, <3>4, <3>5
  <2>5. RowMajor(counts, n + i) = Advance(R, step, counts)
    BY <1>3, AdvanceWalks
  <2>6. ASSUME NEW a \in 1 .. D
        PROVE  RowMajor(counts, n + i)[a] = R[a] + (IF a = g THEN i ELSE 0)
    <3>1. RowMajor(counts, n + i)[a] = IF a < g THEN R[a] ELSE IF a = g THEN R[a] + i ELSE 0
      BY <1>1, <2>3, <2>4, <2>5, AdvanceIs
    <3>2. a > g => R[a] = 0
      <4>1. a > g => a \in 2 .. D /\ counts[a] = 1
        BY <1>1, <2>1
      <4>2. a > g => R[a] \in 0 .. (counts[a] - 1)
        BY <4>1, RowMajorFacts
      <4>3. QED
        BY <4>1, <4>2
    <3>3. R[a] \in Nat
      BY <1>1
    <3> HIDE DEF R
    <3>4. QED
      BY <2>1, <3>1, <3>2, <3>3
  <2>7. QED
    BY <2>6
<1>4. QED
  BY <1>2, <1>3

\* When the outermost axis is the only one of several tiles.
LEMMA OneAxis ==
    ASSUME NEW counts \in Counts, NEW n \in Nat, Len(counts) = 1 \/ (Len(counts) = 2 /\ counts[2] = 1)
    PROVE  RowMajor(counts, n)[1] = n /\ Linear(counts) = counts[1]
<1>1. Len(counts) \in Nat \ {0} /\ counts[1] \in Nat
  BY CountsFacts
<1>2. Product(counts, 2, Len(counts)) = 1
  <2>1. CASE Len(counts) = 1
    BY <2>1, ProductRule
  <2>2. CASE Len(counts) = 2 /\ counts[2] = 1
    <3>1. 2 \in 0 .. Len(counts) /\ 1 \in 0 .. Len(counts) /\ 2 - 1 = 1 /\ 2 \in Nat \ {0}
      BY <2>2
    <3>2. Product(counts, 2, 1) = 1
      BY <3>1, ProductRule
    <3>3. Product(counts, 2, 2) = Product(counts, 2, 2 - 1) * counts[2]
      BY <3>1, ProductRule
    <3>4. QED
      BY <2>2, <3>1, <3>2, <3>3
  <2>3. QED
    BY <2>1, <2>2
<1>3. RowMajor(counts, n)[1] = n \div 1
  BY <1>1, <1>2, RowMajorFacts DEF Prefix
<1>4. n \div 1 = n /\ counts[1] * 1 = counts[1]
  BY <1>1
<1>5. QED
  BY <1>2, <1>3, <1>4, LinearFacts
=============================================================================
