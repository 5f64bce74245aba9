--------------------------- MODULE TokenTheorems ----------------------------
(***************************************************************************)
(* The laws of Total, for every set of accounts and every U64_MAX.          *)
(***************************************************************************)
EXTENDS Tokens, FiniteSetTheorems, FunctionTheorems, TLAPS

\* The units held by finitely many accounts are finitely many.
LEMMA UnitsFinite ==
  ASSUME NEW S, IsFiniteSet(S), NEW f
  PROVE  IsFiniteSet(Units(f, S))
<1>1. IsFiniteSet(1..U64_MAX)
  BY U64Assumption, FS_Interval
<1>2. IsFiniteSet(S \X (1..U64_MAX))
  BY <1>1, FS_Product
<1> QED
  BY <1>2, FS_Subset DEF Units

\* A total of finitely many accounts is a natural number.
LEMMA TotalType ==
  ASSUME NEW S, IsFiniteSet(S), NEW f
  PROVE  Total(f, S) \in Nat
BY UnitsFinite, FS_CardinalityType DEF Total

LEMMA TotalEmpty ==
  ASSUME NEW f
  PROVE  Total(f, {}) = 0
<1>1. Units(f, {}) = {}
  BY DEF Units
<1> QED
  BY <1>1, FS_EmptySet DEF Total

LEMMA SegmentCardinality ==
  ASSUME NEW n \in Nat
  PROVE  IsFiniteSet(1..n) /\ Cardinality(1..n) = n
<1>1. 1 \in Int /\ n \in Int
  OBVIOUS
<1>2. IsFiniteSet(1..n) /\ Cardinality(1..n) = IF 1 > n THEN 0 ELSE n - 1 + 1
  BY <1>1, FS_Interval, Zenon
<1> QED
  BY <1>2

\* The total of one account is what it holds.
LEMMA TotalSingleton ==
  ASSUME NEW f, NEW x, f[x] \in Amounts
  PROVE  Total(f, {x}) = f[x]
<1>0. f[x] \in Nat /\ f[x] <= U64_MAX
  BY U64Assumption DEF Amounts
<1>1. Units(f, {x}) = {x} \X (1..f[x])
  BY <1>0, U64Assumption DEF Units
<1>2. IsFiniteSet({x}) /\ Cardinality({x}) = 1
  BY FS_Singleton
<1>3. IsFiniteSet(1..f[x]) /\ Cardinality(1..f[x]) = f[x]
  BY <1>0, SegmentCardinality
<1>4. Cardinality({x} \X (1..f[x])) = 1 * f[x]
  BY <1>2, <1>3, FS_Product
<1>5. Total(f, {x}) = 1 * f[x]
  BY <1>1, <1>4 DEF Total
<1> QED
  BY <1>0, <1>5

\* Totals of disjoint sets of accounts add up.
LEMMA TotalDisjointUnion ==
  ASSUME NEW f, NEW S, NEW T, IsFiniteSet(S), IsFiniteSet(T), S \cap T = {}
  PROVE  Total(f, S \cup T) = Total(f, S) + Total(f, T)
<1>1. Units(f, S \cup T) = Units(f, S) \cup Units(f, T)
  BY DEF Units
<1>2. Units(f, S) \cap Units(f, T) = {}
  BY DEF Units
<1>3. IsFiniteSet(Units(f, S)) /\ IsFiniteSet(Units(f, T))
  BY UnitsFinite
<1> DEFINE A == Units(f, S)
           B == Units(f, T)
<1> HIDE DEF A, B
<1>4. Cardinality(A \cup B) = Cardinality(A) + Cardinality(B) - Cardinality(A \cap B)
  BY <1>3, FS_Union DEF A, B
<1>5. Cardinality(A) \in Nat /\ Cardinality(B) \in Nat
  BY <1>3, FS_CardinalityType DEF A, B
<1>6. Cardinality(A \cap B) = 0
  BY <1>2, FS_EmptySet DEF A, B
<1>7. Cardinality(A \cup B) = Cardinality(A) + Cardinality(B)
  BY <1>4, <1>5, <1>6
<1> QED
  BY <1>1, <1>7 DEF Total, A, B

\* Taking accounts away takes their total away.
LEMMA TotalDifference ==
  ASSUME NEW f, NEW S, NEW T, IsFiniteSet(S), T \subseteq S
  PROVE  /\ Total(f, S \ T) = Total(f, S) - Total(f, T)
         /\ Total(f, T) <= Total(f, S)
<1>1. IsFiniteSet(T) /\ IsFiniteSet(S \ T)
  BY FS_Subset
<1>2. S = (S \ T) \cup T /\ (S \ T) \cap T = {}
  OBVIOUS
<1>3. Total(f, S) = Total(f, S \ T) + Total(f, T)
  BY <1>1, <1>2, TotalDisjointUnion
<1> QED
  BY <1>1, <1>3, TotalType

\* A share of at most BPS basis points never exceeds the amount it is of.
LEMMA ShareBound ==
  ASSUME NEW a \in Nat, NEW b \in 0..BPS
  PROVE  ShareOf(a, b) \in 0..a
<1>1. BPS \in Nat /\ BPS > 0
  BY DEF BPS
<1>2. a * b \in Nat /\ a * b <= a * BPS
  BY <1>1
<1> DEFINE x == a * b
<1> HIDE DEF x
<1>3. x \in Nat /\ x <= a * BPS
  BY <1>2 DEF x
<1>4. x \div BPS \in 0..a
  BY <1>1, <1>3
<1> QED
  BY <1>4 DEF x, ShareOf

LEMMA SaturatingAddType ==
  ASSUME NEW a \in Nat, NEW b \in Nat
  PROVE  SaturatingAdd(a, b) \in Amounts
BY U64Assumption DEF SaturatingAdd, Amounts

\* Only what the accounts of the set hold matters.
LEMMA TotalSame ==
  ASSUME NEW S, NEW f, NEW g, \A x \in S : f[x] = g[x]
  PROVE  Total(f, S) = Total(g, S)
<1>1. Units(f, S) = Units(g, S)
  BY DEF Units
<1> QED
  BY <1>1 DEF Total

\* One account more, one account less.
LEMMA TotalAddOne ==
  ASSUME NEW f, NEW S, NEW x, IsFiniteSet(S), x \notin S, f[x] \in Amounts
  PROVE  Total(f, S \cup {x}) = Total(f, S) + f[x]
<1>1. IsFiniteSet({x}) /\ S \cap {x} = {}
  BY FS_Singleton
<1>2. Total(f, S \cup {x}) = Total(f, S) + Total(f, {x})
  BY <1>1, TotalDisjointUnion
<1> QED
  BY <1>2, TotalSingleton

LEMMA TotalRemoveOne ==
  ASSUME NEW f, NEW S, NEW x \in S, IsFiniteSet(S), f[x] \in Amounts
  PROVE  /\ Total(f, S \ {x}) = Total(f, S) - f[x]
         /\ f[x] <= Total(f, S)
<1>1. {x} \subseteq S
  OBVIOUS
<1>2. /\ Total(f, S \ {x}) = Total(f, S) - Total(f, {x})
      /\ Total(f, {x}) <= Total(f, S)
  BY <1>1, TotalDifference
<1> QED
  BY <1>2, TotalSingleton

\* One account changes what it holds.
LEMMA TotalChangeOne ==
  ASSUME NEW f, NEW g, NEW S, NEW x \in S, IsFiniteSet(S),
         f[x] \in Amounts, g[x] \in Amounts, \A y \in S \ {x} : g[y] = f[y]
  PROVE  Total(g, S) = Total(f, S) - f[x] + g[x]
<1>1. Total(f, S \ {x}) = Total(f, S) - f[x]
  BY TotalRemoveOne
<1>2. Total(g, S \ {x}) = Total(g, S) - g[x]
  BY TotalRemoveOne
<1>3. Total(g, S \ {x}) = Total(f, S \ {x})
  BY TotalSame
<1>4. Total(f, S) \in Nat /\ Total(g, S) \in Nat /\ f[x] \in Nat /\ g[x] \in Nat
  BY TotalType, U64Assumption DEF Amounts
<1> QED
  BY <1>1, <1>2, <1>3, <1>4

\* Accounts that hold nothing add nothing; accounts that all hold the same.
LEMMA TotalConstant ==
  ASSUME NEW f, NEW S, IsFiniteSet(S), NEW k \in Amounts, \A x \in S : f[x] = k
  PROVE  Total(f, S) = Cardinality(S) * k
<1>0. k \in Nat /\ k <= U64_MAX
  BY U64Assumption DEF Amounts
<1>1. Units(f, S) = S \X (1..k)
  BY <1>0, U64Assumption DEF Units
<1>2. IsFiniteSet(1..k) /\ Cardinality(1..k) = k
  BY <1>0, SegmentCardinality
<1> QED
  BY <1>1, <1>2, FS_Product DEF Total

LEMMA TotalZero ==
  ASSUME NEW f, NEW S, IsFiniteSet(S), \A x \in S : f[x] = 0
  PROVE  Total(f, S) = 0
<1>1. 0 \in Amounts
  BY U64Assumption DEF Amounts
<1>2. Total(f, S) = Cardinality(S) * 0
  BY <1>1, TotalConstant
<1>3. Cardinality(S) \in Nat
  BY FS_CardinalityType
<1> QED
  BY <1>2, <1>3

\* Accounts that hold more have a larger total.
LEMMA TotalMonotone ==
  ASSUME NEW f, NEW g, NEW S, IsFiniteSet(S),
         \A x \in S : f[x] \in Nat /\ g[x] \in Nat /\ f[x] <= g[x]
  PROVE  Total(f, S) <= Total(g, S)
<1>1. Units(f, S) \subseteq Units(g, S)
  <2> SUFFICES ASSUME NEW u \in S \X (1..U64_MAX), u[2] <= f[u[1]]
               PROVE  u[2] <= g[u[1]]
    BY DEF Units
  <2>1. u[1] \in S /\ u[2] \in Nat
    BY U64Assumption
  <2> QED
    BY <2>1
<1>2. IsFiniteSet(Units(g, S))
  BY UnitsFinite
<1> QED
  BY <1>1, <1>2, FS_Subset DEF Total

\* Renaming the accounts changes no total.
LEMMA TotalRenamed ==
  ASSUME NEW f, NEW g, NEW S, NEW T, IsFiniteSet(S), NEW b \in [S -> T],
         \A x, y \in S : b[x] = b[y] => x = y,
         \A z \in T : \E x \in S : b[x] = z,
         \A x \in S : g[b[x]] = f[x]
  PROVE  Total(g, T) = Total(f, S)
<1> DEFINE h == [u \in Units(f, S) |-> <<b[u[1]], u[2]>>]
<1>1. h \in [Units(f, S) -> Units(g, T)]
  BY DEF Units
<1>2. \A u, v \in Units(f, S) : h[u] = h[v] => u = v
  BY DEF Units
<1>3. \A w \in Units(g, T) : \E u \in Units(f, S) : h[u] = w
  <2> SUFFICES ASSUME NEW w \in Units(g, T) PROVE \E u \in Units(f, S) : h[u] = w
    OBVIOUS
  <2>1. w \in T \X (1..U64_MAX) /\ w[2] <= g[w[1]]
    BY DEF Units
  <2>2. PICK x \in S : b[x] = w[1]
    BY <2>1
  <2>3. <<x, w[2]>> \in Units(f, S)
    BY <2>1, <2>2 DEF Units
  <2>4. h[<<x, w[2]>>] = w
    BY <2>1, <2>2, <2>3
  <2> QED
    BY <2>3, <2>4
<1> HIDE DEF h
<1>4. h \in Bijection(Units(f, S), Units(g, T))
  BY <1>1, <1>2, <1>3, Fun_IsBij
<1>5. ExistsBijection(Units(f, S), Units(g, T))
  BY <1>4 DEF ExistsBijection
<1> QED
  BY <1>5, UnitsFinite, FS_Bijection DEF Total

\* An account is credited; an account is debited.
LEMMA TotalCredit ==
  ASSUME NEW f, NEW g, NEW S, NEW x \in S, IsFiniteSet(S), NEW m \in Nat,
         f[x] \in Amounts, g[x] \in Amounts, \A y \in S \ {x} : g[y] = f[y]
  PROVE  g[x] = f[x] + m => Total(g, S) = Total(f, S) + m
<1>1. Total(g, S) = Total(f, S) - f[x] + g[x]
  BY TotalChangeOne
<1>2. f[x] \in Nat /\ Total(f, S) \in Nat
  BY TotalType, U64Assumption DEF Amounts
<1> QED
  BY <1>1, <1>2

LEMMA TotalDebit ==
  ASSUME NEW f, NEW g, NEW S, NEW x \in S, IsFiniteSet(S), NEW m \in Nat,
         f[x] \in Amounts, g[x] \in Amounts, \A y \in S \ {x} : g[y] = f[y]
  PROVE  g[x] = f[x] - m => Total(g, S) = Total(f, S) - m
<1>1. Total(g, S) = Total(f, S) - f[x] + g[x]
  BY TotalChangeOne
<1>2. f[x] \in Nat /\ Total(f, S) \in Nat
  BY TotalType, U64Assumption DEF Amounts
<1> QED
  BY <1>1, <1>2

\* The accounts S before (f) and after (h) x gives m away; T before and after y
\* receives it.
Debited(f, h, S, x, m) ==
  /\ IsFiniteSet(S) /\ x \in S /\ f[x] \in Amounts /\ m \in 0..f[x]
  /\ h[x] = f[x] - m /\ \A z \in S \ {x} : h[z] = f[z]
Credited(g, k, T, y, m) ==
  /\ IsFiniteSet(T) /\ y \in T /\ g[y] \in Amounts
  /\ k[y] = g[y] + m /\ \A z \in T \ {y} : k[z] = g[z]

\* A transfer keeps what two groups of accounts hold together, and no account can
\* come to hold more than that.
LEMMA TotalTransfer ==
  ASSUME NEW S, NEW T, NEW f, NEW g, NEW h, NEW k, NEW x, NEW y, NEW m,
         Debited(f, h, S, x, m), Credited(g, k, T, y, m),
         Total(f, S) + Total(g, T) <= U64_MAX
  PROVE  /\ h[x] \in Amounts /\ k[y] \in Amounts
         /\ Total(h, S) + Total(k, T) = Total(f, S) + Total(g, T)
<1>1. /\ IsFiniteSet(S) /\ x \in S /\ f[x] \in Amounts /\ m \in Nat /\ m <= f[x]
      /\ h[x] = f[x] - m /\ \A z \in S \ {x} : h[z] = f[z]
  BY U64Assumption DEF Debited, Amounts
<1>2. /\ IsFiniteSet(T) /\ y \in T /\ g[y] \in Amounts
      /\ k[y] = g[y] + m /\ \A z \in T \ {y} : k[z] = g[z]
  BY DEF Credited
<1>3. f[x] \in Nat /\ g[y] \in Nat /\ Total(f, S) \in Nat /\ Total(g, T) \in Nat
  BY <1>1, <1>2, TotalType, U64Assumption DEF Amounts
<1>4. f[x] <= Total(f, S)
  BY <1>1, TotalRemoveOne
<1>5. g[y] <= Total(g, T)
  BY <1>2, TotalRemoveOne
<1>6. h[x] \in Amounts /\ k[y] \in Amounts
  BY <1>1, <1>2, <1>3, <1>4, <1>5, U64Assumption DEF Amounts
<1>7. Total(h, S) = Total(f, S) - m
  BY <1>1, <1>6, TotalDebit
<1>8. Total(k, T) = Total(g, T) + m
  BY <1>1, <1>2, <1>6, TotalCredit
<1> QED
  BY <1>1, <1>3, <1>6, <1>7, <1>8

\* The rounding is down: a share is worth no more than its rate.
LEMMA ShareRoundsDown ==
  ASSUME NEW a \in Nat, NEW b \in Nat, NEW c \in Nat, b <= c
  PROVE  ShareOf(a, b) * BPS <= a * c
<1>1. a * b \in Nat /\ a * c \in Nat /\ a * b <= a * c
  <2> DEFINE d == c - b
  <2>1. d \in Nat /\ c = b + d
    OBVIOUS
  <2> HIDE DEF d
  <2>2. a * c = a * b + a * d
    BY <2>1
  <2>3. a * b \in Nat /\ a * d \in Nat
    BY <2>1
  <2> QED
    BY <2>2, <2>3
<1> DEFINE x == a * b
           y == a * c
<1> HIDE DEF x, y
<1>2. x \in Nat /\ y \in Nat /\ x <= y
  BY <1>1 DEF x, y
<1>3. (x \div 10000) * 10000 <= y
  BY <1>2
<1> QED
  BY <1>3 DEF x, y, ShareOf, BPS

=============================================================================
