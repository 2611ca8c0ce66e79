------------------------------ MODULE ArithProofs ------------------------------
(***************************************************************************)
(* Facts that the other proofs share: division by the size of a ring, and  *)
(* sums over finite sets, for the levels of the order book and the buckets *)
(* of the delta factor.  SumFunctionOnSet is a fold that takes its         *)
(* elements in an unknown order; here it is shown that the order does not  *)
(* matter and that any one element can be taken out.  For the scores of    *)
(* the cancel factor: cardinalities, the bound on one deviation among n    *)
(* numbers by their variance, and the order of fractions.                  *)
(*                                                                         *)
(* Induction over finite sets: a non-empty set of finite sets has a member *)
(* none of whose proper subsets is in it.                                  *)
(***************************************************************************)
EXTENDS FiniteSetsExt, Sequences, FiniteSetTheorems, TLAPS

(* Integers and sequences *)

\* Division by a positive number.
LEMMA DivMod ==
    ASSUME NEW a \in Nat, NEW b \in Nat \ {0}
    PROVE  /\ a \div b \in Nat
           /\ a % b \in 0 .. b - 1
           /\ a = b * (a \div b) + (a % b)
<1>1. a \div b \in Nat  BY SMT
<1>2. a % b \in 0 .. b - 1  BY SMT
<1>3. a = b * (a \div b) + (a % b)  BY SMT
<1> QED  BY <1>1, <1>2, <1>3

\* Two multiples are at least one b apart.
LEMMA Turns ==
    ASSUME NEW m \in Nat, NEW n \in Nat, NEW b \in Nat, m < n
    PROVE  b * m + b <= b * n
  BY SMT

LEMMA MoreTimes ==
    ASSUME NEW m \in Nat, NEW n \in Nat, NEW b \in Nat, m <= n
    PROVE  m * b <= n * b /\ m * b \in Int /\ n * b \in Int
  BY SMT

\* Places of a ring, without the division.
LEMMA RingPlace ==
    ASSUME NEW b \in Nat \ {0}, NEW a \in 0 .. 2 * b - 1
    PROVE  a % b = IF a < b THEN a ELSE a - b
<1> DEFINE q == a \div b
           r == a % b
<1>0. a \in Nat  BY SMT
<1>1. q \in Nat /\ r \in 0 .. b - 1 /\ a = b * q + r
  <2> HIDE DEF q, r
  <2> QED  BY <1>0, DivMod, Zenon DEF q, r
<1> HIDE DEF q, r
<1>2. b * 1 = b  BY SMT
<1>3. 1 < q => b * 1 + b <= b * q  BY <1>1, Turns
<1>4. q = 0 \/ q = 1
  <2> DEFINE p == b * q
  <2>1. p \in Nat  BY <1>1
  <2>2. 1 < q => b + b <= p  BY <1>2, <1>3
  <2>3. a = p + r  BY <1>1
  <2> HIDE DEF p
  <2> QED  BY <1>1, <2>1, <2>2, <2>3
<1>5. q = 0 => a = r  BY <1>1
<1>6. q = 1 => a = b + r  BY <1>1
<1> QED  BY <1>1, <1>4, <1>5, <1>6 DEF r

(* A ring of n slots: the slot k places after h, the one i places behind it, and how
   many places after h the slot s comes, 1 .. n *)

RingStep(n, h, k)  == (h + k) % n
RingBack(n, h, i)  == (h + n - i) % n
RingAhead(n, h, s) == ((s + n - h - 1) % n) + 1

LEMMA RingBackPlace ==
    ASSUME NEW n \in Nat \ {0}, NEW h \in 0 .. n - 1, NEW i \in 0 .. n - 1
    PROVE  RingBack(n, h, i) = IF i <= h THEN h - i ELSE h + n - i
<1> DEFINE a == h + n - i
           v == a % n
<1>1. a \in 0 .. 2 * n - 1  OBVIOUS
<1>2. RingBack(n, h, i) = v  BY DEF RingBack
<1> HIDE DEF a
<1>3. v = IF a < n THEN a ELSE a - n  BY <1>1, RingPlace
<1> HIDE DEF v
<1> QED  BY <1>2, <1>3 DEF a

LEMMA RingAheadPlace ==
    ASSUME NEW n \in Nat \ {0}, NEW h \in 0 .. n - 1, NEW s \in 0 .. n - 1
    PROVE  RingAhead(n, h, s) = IF s <= h THEN s + n - h ELSE s - h
<1> DEFINE a == s + n - h - 1
           v == a % n
<1>1. a \in 0 .. 2 * n - 1  OBVIOUS
<1>2. RingAhead(n, h, s) = v + 1  BY DEF RingAhead
<1> HIDE DEF a
<1>3. v = IF a < n THEN a ELSE a - n  BY <1>1, RingPlace
<1> HIDE DEF v
<1> QED  BY <1>2, <1>3 DEF a

\* Moving the head by k moves the slots k places back and passes over no other.
LEMMA RingMove ==
    ASSUME NEW n \in Nat \ {0}, NEW h \in 0 .. n - 1, NEW k \in 0 .. n, NEW i \in 0 .. n - 1
    PROVE  LET s == RingBack(n, RingStep(n, h, k), i) IN
           /\ RingStep(n, h, k) \in 0 .. n - 1
           /\ s \in 0 .. n - 1
           /\ i < k => RingAhead(n, h, s) = k - i
           /\ i >= k => /\ i - k \in 0 .. n - 1 /\ RingAhead(n, h, s) > k
                        /\ s = RingBack(n, h, i - k)
<1> DEFINE a == h + k
           g == a % n
           s == RingBack(n, g, i)
<1>0. a \in 0 .. 2 * n - 1  OBVIOUS
<1> HIDE DEF a
<1>1. g = IF a < n THEN a ELSE a - n  BY <1>0, RingPlace
<1> HIDE DEF g
<1>2. g \in 0 .. n - 1  BY <1>0, <1>1
<1>3. s = IF i <= g THEN g - i ELSE g + n - i  BY <1>2, RingBackPlace
<1>4. s \in 0 .. n - 1  BY <1>2, <1>3
<1> HIDE DEF s
<1>5. RingAhead(n, h, s) = IF s <= h THEN s + n - h ELSE s - h  BY <1>4, RingAheadPlace
<1>6. i < k => RingAhead(n, h, s) = k - i  BY <1>1, <1>2, <1>3, <1>4, <1>5 DEF a
<1>7. i >= k => i - k \in 0 .. n - 1 /\ RingAhead(n, h, s) > k
  BY <1>1, <1>2, <1>3, <1>4, <1>5 DEF a
<1>8. ASSUME i >= k PROVE s = RingBack(n, h, i - k)
  <2>1. RingBack(n, h, i - k) = IF i - k <= h THEN h - (i - k) ELSE h + n - (i - k)
    BY <1>7, <1>8, RingBackPlace
  <2> QED  BY <1>1, <1>2, <1>3, <1>8, <2>1 DEF a
<1>9. RingStep(n, h, k) = g  BY DEF RingStep, g, a
<1> QED  BY <1>2, <1>4, <1>6, <1>7, <1>8, <1>9 DEF s

\* Zero places behind the head is the head, and no other is.
LEMMA RingHead ==
    ASSUME NEW n \in Nat \ {0}, NEW h \in 0 .. n - 1
    PROVE  /\ RingBack(n, h, 0) = h
           /\ \A i \in 0 .. n - 1 : /\ RingBack(n, h, i) \in 0 .. n - 1
                                    /\ i # 0 => RingBack(n, h, i) # h
<1>1. \A i \in 0 .. n - 1 : RingBack(n, h, i) = IF i <= h THEN h - i ELSE h + n - i
  BY RingBackPlace
<1> QED  BY <1>1

\* The time that i buckets of size b span.
LEMMA Spans ==
    ASSUME NEW b \in Nat \ {0}
    PROVE  /\ 0 * b = 0 /\ 1 * b = b
           /\ \A i \in Nat : i * b \in Nat
           /\ \A i, j \in Nat : (i + j) * b = i * b + j * b
           /\ \A i, j \in Nat : i < j => i * b + b <= j * b
<1>1. 0 * b = 0 /\ 1 * b = b  BY SMT
<1>2. \A i \in Nat : i * b \in Nat  BY SMT
<1>3. \A i, j \in Nat : (i + j) * b = i * b + j * b  BY SMT
<1>4. ASSUME NEW i \in Nat, NEW j \in Nat, i < j PROVE i * b + b <= j * b
  <2>1. b * i + b <= b * j  BY <1>4, Turns
  <2> QED  BY <2>1, SMT
<1> QED  BY <1>1, <1>2, <1>3, <1>4

\* Minima.
LEMMA LeastOf ==
    ASSUME NEW S \in SUBSET Int, NEW m \in S, \A x \in S : m <= x
    PROVE  Min(S) = m
<1>1. \A x \in S : (\A y \in S : x <= y) => x = m  BY SMT
<1> QED  BY <1>1 DEF Min

LEMMA MinMember ==
    ASSUME NEW S \in SUBSET Nat, S # {}
    PROVE  Min(S) \in S /\ \A x \in S : Min(S) <= x
<1> DEFINE R == {p \in Nat \X Nat : p[1] < p[2]}
<1>0. IsWellFoundedOn(R, Nat)  BY NatLessThanWellFounded DEF OpToRel
<1> HIDE DEF R
<1>1. PICK m \in S : \A x \in S : ~(<<x, m>> \in R)  BY <1>0, WFMin
<1>2. ASSUME NEW x \in S PROVE m <= x
  <2>1. ~(<<x, m>> \in R) /\ x \in Nat /\ m \in Nat  BY <1>1
  <2>2. x < m => <<x, m>> \in R  BY <2>1 DEF R
  <2> QED  BY <2>1, <2>2
<1>3. S \in SUBSET Int  OBVIOUS
<1>4. Min(S) = m  BY <1>2, <1>3, LeastOf
<1> QED  BY <1>2, <1>4

LEMMA MinOfTwo ==
    ASSUME NEW a \in Int, NEW b \in Int
    PROVE  Min({a, b}) = IF a <= b THEN a ELSE b
<1> DEFINE m == IF a <= b THEN a ELSE b
<1>1. m \in {a, b} /\ {a, b} \in SUBSET Int /\ \A y \in {a, b} : m <= y  BY SMT
<1> HIDE DEF m
<1>2. Min({a, b}) = m  BY <1>1, LeastOf
<1> QED  BY <1>2 DEF m

\* A function on 1 .. n is a sequence of length n.
LEMMA FunIsSeq ==
    ASSUME NEW S, NEW n \in Nat, NEW s \in [1 .. n -> S]
    PROVE  s \in Seq(S) /\ Len(s) = n
  BY SMT

\* The elements of a sequence.
LEMMA SeqElement ==
    ASSUME NEW S, NEW s \in Seq(S)
    PROVE  /\ Len(s) \in Nat /\ DOMAIN s = 1 .. Len(s)
           /\ \A i \in 1 .. Len(s) : s[i] \in S
  BY SMT

-----------------------------------------------------------------------------
(* Cardinalities *)

\* A part and the rest.
LEMMA CardSplit ==
    ASSUME NEW S, IsFiniteSet(S), NEW T \in SUBSET S
    PROVE  /\ IsFiniteSet(T) /\ IsFiniteSet(S \ T)
           /\ Cardinality(T) \in Nat /\ Cardinality(S \ T) \in Nat /\ Cardinality(S) \in Nat
           /\ Cardinality(S) = Cardinality(T) + Cardinality(S \ T)
<1>1. IsFiniteSet(T) /\ IsFiniteSet(S \ T)  BY FS_Subset
<1>2. Cardinality(T) \in Nat /\ Cardinality(S \ T) \in Nat /\ Cardinality(S) \in Nat
  BY <1>1, FS_CardinalityType
<1> DEFINE R == S \ T
<1>3. S = T \cup R /\ T \cap R = {}  OBVIOUS
<1>4. Cardinality(T \cup R) = Cardinality(T) + Cardinality(R) - Cardinality(T \cap R)
  BY <1>1, FS_Union
<1>5. Cardinality(T \cap R) = 0  BY <1>3, FS_EmptySet
<1> HIDE DEF R
<1> QED  BY <1>1, <1>2, <1>3, <1>4, <1>5 DEF R

\* Sets in one-to-one correspondence.
LEMMA SameSize ==
    ASSUME NEW S, IsFiniteSet(S), NEW T, NEW f \in [S -> T],
           \A a, b \in S : f[a] = f[b] => a = b, \A y \in T : \E x \in S : f[x] = y
    PROVE  IsFiniteSet(T) /\ Cardinality(T) = Cardinality(S)
<1>1. f \in Injection(S, T)  BY DEF Injection, IsInjective
<1>2. f \in Surjection(S, T)  BY DEF Surjection
<1>3. ExistsBijection(S, T)  BY <1>1, <1>2 DEF ExistsBijection, Bijection
<1> QED  BY <1>3, FS_Bijection

\* Two elements make a cardinality of two.
LEMMA TwoElements ==
    ASSUME NEW S, IsFiniteSet(S), NEW a \in S, NEW b \in S, a # b
    PROVE  Cardinality(S) >= 2
<1> DEFINE T == S \ {a}
           R == T \ {b}
<1>1. IsFiniteSet(T) /\ Cardinality(S) = Cardinality(T) + 1 /\ b \in T
  <2>1. IsFiniteSet(T) /\ Cardinality(T) = Cardinality(S) - 1  BY FS_RemoveElement
  <2>2. Cardinality(S) \in Nat  BY FS_CardinalityType
  <2> QED  BY <2>1, <2>2
<1> HIDE DEF T
<1>2. IsFiniteSet(R) /\ Cardinality(R) = Cardinality(T) - 1  BY <1>1, FS_RemoveElement
<1>3. Cardinality(R) \in Nat /\ Cardinality(T) \in Nat  BY <1>1, <1>2, FS_CardinalityType
<1> QED  BY <1>1, <1>2, <1>3

-----------------------------------------------------------------------------
(* Sums *)

\* A set of subsets of a finite set has a minimal member.
LEMMA MinimalSubset ==
    ASSUME NEW S, IsFiniteSet(S), NEW T \in SUBSET (SUBSET S), T # {}
    PROVE  \E s \in T : \A t \in T : t \subseteq s => t = s
<1>1. IsWellFoundedOn(StrictSubsetOrdering(S), SUBSET S)
  BY FS_StrictSubsetOrderingWellFounded, FS_FiniteSubsetsOfFinite
<1>2. PICK s \in T : \A t \in T : ~(<<t, s>> \in StrictSubsetOrdering(S))
  <2>1. T \subseteq SUBSET S  OBVIOUS
  <2> QED  BY <1>1, <2>1, WFMin
<1>3. ASSUME NEW t \in T, t \subseteq s PROVE t = s
  BY <1>2, <1>3 DEF StrictSubsetOrdering
<1> QED  BY <1>3

\* The element the fold takes first.
First(s) == CHOOSE x \in s : TRUE

\* g is the table of the partial sums of w over the subsets of S.
Table(g, w, S) ==
    g = [s \in SUBSET S |-> IF s = {} THEN 0 ELSE w[First(s)] + g[s \ {First(s)}]]

\* It is one.
LEMMA FirstIn == \A s : s # {} => First(s) \in s
  BY DEF First

\* The sum is the table's last entry.
LEMMA SumIsTable ==
    ASSUME NEW w, NEW S
    PROVE  SumFunctionOnSet(w, S) = (CHOOSE g : Table(g, w, S))[S]
  BY DEF SumFunctionOnSet, FoldFunctionOnSet, MapThenFoldSet, Table, First

\* Two tables agree where both are defined.
LEMMA TableUnique ==
    ASSUME NEW w, NEW S, IsFiniteSet(S), NEW R, NEW g, NEW h,
           Table(g, w, S), Table(h, w, R), NEW u \in SUBSET S, u \in SUBSET R
    PROVE  g[u] = h[u]
<1> DEFINE T == {t \in SUBSET u : g[t] # h[t]}
<1> SUFFICES ASSUME T # {} PROVE FALSE
  OBVIOUS
<1>1. T \in SUBSET (SUBSET S)  OBVIOUS
<1>2. PICK t \in T : \A r \in T : r \subseteq t => r = t
  <2> HIDE DEF T
  <2> QED  BY <1>1, MinimalSubset
<1>3. /\ g[t] = IF t = {} THEN 0 ELSE w[First(t)] + g[t \ {First(t)}]
      /\ h[t] = IF t = {} THEN 0 ELSE w[First(t)] + h[t \ {First(t)}]
  BY <1>1 DEF Table
<1>4. t # {}  BY <1>2, <1>3
<1>5. First(t) \in t  BY <1>4, FirstIn
<1>6. t \ {First(t)} \notin T  BY <1>2, <1>5
<1>7. g[t \ {First(t)}] = h[t \ {First(t)}]  BY <1>6
<1> QED  BY <1>2, <1>3, <1>7

\* There is a table.
LEMMA TableExists ==
    ASSUME NEW w, NEW S, IsFiniteSet(S)
    PROVE  \E g : Table(g, w, S)
<1> DEFINE T == {t \in SUBSET S : ~\E g : Table(g, w, t)}
<1> SUFFICES ASSUME T # {} PROVE FALSE
  OBVIOUS
<1>0. T \in SUBSET (SUBSET S)  OBVIOUS
<1>1. PICK t \in T : \A r \in T : r \subseteq t => r = t
  <2> HIDE DEF T
  <2> QED  BY <1>0, MinimalSubset
<1> DEFINE G(r) == CHOOSE g : Table(g, w, r)
           g == [s \in SUBSET t |-> IF s = {} THEN 0
                                    ELSE w[First(s)] + G(s \ {First(s)})[s \ {First(s)}]]
<1>2. ASSUME NEW r \in SUBSET t, r # t PROVE Table(G(r), w, r)
  <2>1. \E f : Table(f, w, r)  BY <1>1, <1>2
  <2> QED  BY <2>1
<1>3. IsFiniteSet(t)  BY FS_Subset
<1> HIDE DEF G
<1>4. ASSUME NEW r \in SUBSET t, r # t PROVE g[r] = G(r)[r]
  <2>1. Table(G(r), w, r)  BY <1>2, <1>4
  <2>2. G(r)[r] = IF r = {} THEN 0 ELSE w[First(r)] + G(r)[r \ {First(r)}]
    BY <2>1 DEF Table
  <2>3. CASE r = {}  BY <2>2, <2>3
  <2>4. CASE r # {}
    <3> DEFINE q == r \ {First(r)}
    <3>1. q \in SUBSET r /\ q # t  BY <1>4, <2>4, FirstIn
    <3>2. Table(G(q), w, q)  BY <1>2, <3>1
    <3>3. IsFiniteSet(r)  BY <1>3, FS_Subset
    <3>4. G(r)[q] = G(q)[q]  BY <2>1, <3>1, <3>2, <3>3, TableUnique
    <3>5. g[r] = w[First(r)] + G(q)[q]  BY <2>4
    <3> QED  BY <2>2, <2>4, <3>4, <3>5
  <2> QED  BY <2>3, <2>4
<1>5. ASSUME NEW s \in SUBSET t, s # {}
      PROVE  g[s] = w[First(s)] + g[s \ {First(s)}]
  <2>1. s \ {First(s)} \in SUBSET t /\ s \ {First(s)} # t  BY <1>5, FirstIn
  <2>2. g[s \ {First(s)}] = G(s \ {First(s)})[s \ {First(s)}]  BY <1>4, <2>1
  <2>3. g[s] = w[First(s)] + G(s \ {First(s)})[s \ {First(s)}]  BY <1>5
  <2> QED  BY <2>2, <2>3
<1>6. g[{}] = 0 /\ DOMAIN g = SUBSET t /\ g = [s \in DOMAIN g |-> g[s]]  OBVIOUS
<1> HIDE DEF g
<1>7. Table(g, w, t)
  <2>1. \A s \in SUBSET t : g[s] = IF s = {} THEN 0 ELSE w[First(s)] + g[s \ {First(s)}]
    BY <1>5, <1>6
  <2> QED  BY <1>6, <2>1 DEF Table
<1> QED  BY <1>7

\* The defining equation of the sum.
LEMMA SumUnfold ==
    ASSUME NEW w, NEW S, IsFiniteSet(S)
    PROVE  SumFunctionOnSet(w, S) =
             IF S = {} THEN 0
             ELSE w[First(S)] + SumFunctionOnSet(w, S \ {First(S)})
<1> DEFINE G(r) == CHOOSE g : Table(g, w, r)
           q == S \ {First(S)}
<1>1. Table(G(S), w, S)  BY TableExists
<1>2. IsFiniteSet(q)  BY FS_Subset
<1>3. Table(G(q), w, q)  BY <1>2, TableExists
<1>4. SumFunctionOnSet(w, S) = G(S)[S] /\ SumFunctionOnSet(w, q) = G(q)[q]
  BY SumIsTable
<1> HIDE DEF G
<1>5. G(S)[S] = IF S = {} THEN 0 ELSE w[First(S)] + G(S)[q]  BY <1>1 DEF Table
<1>6. G(S)[q] = G(q)[q]  BY <1>1, <1>3, TableUnique
<1> QED  BY <1>4, <1>5, <1>6

(* What the proofs use *)

\* The sum over no element.
LEMMA SumEmpty == ASSUME NEW w PROVE SumFunctionOnSet(w, {}) = 0
  BY SumUnfold, FS_EmptySet

\* A sum of integers is one.
LEMMA SumInt ==
    ASSUME NEW S, IsFiniteSet(S), NEW w, \A x \in S : w[x] \in Int
    PROVE  SumFunctionOnSet(w, S) \in Int
<1> DEFINE T == {t \in SUBSET S : SumFunctionOnSet(w, t) \notin Int}
<1> SUFFICES ASSUME T # {} PROVE FALSE
  OBVIOUS
<1>1. T \in SUBSET (SUBSET S)  OBVIOUS
<1>2. PICK t \in T : \A r \in T : r \subseteq t => r = t
  <2> HIDE DEF T
  <2> QED  BY <1>1, MinimalSubset
<1>3. t # {}  BY SumEmpty
<1>4. First(t) \in t /\ w[First(t)] \in Int  BY <1>3, FirstIn
<1>5. SumFunctionOnSet(w, t \ {First(t)}) \in Int  BY <1>2, <1>4
<1>6. IsFiniteSet(t)  BY FS_Subset
<1>7. SumFunctionOnSet(w, t) = w[First(t)] + SumFunctionOnSet(w, t \ {First(t)})
  BY <1>3, <1>6, SumUnfold
<1> QED  BY <1>4, <1>5, <1>7

\* Any element can be taken out.
LEMMA SumRemove ==
    ASSUME NEW S, IsFiniteSet(S), NEW w, \A x \in S : w[x] \in Int, NEW y \in S
    PROVE  SumFunctionOnSet(w, S) = w[y] + SumFunctionOnSet(w, S \ {y})
<1> DEFINE Sum(s) == SumFunctionOnSet(w, s)
           T == {t \in SUBSET S : \E x \in t : Sum(t) # w[x] + Sum(t \ {x})}
<1> SUFFICES ASSUME T # {} PROVE FALSE
  OBVIOUS
<1>1. T \in SUBSET (SUBSET S)  OBVIOUS
<1>2. PICK t \in T : \A r \in T : r \subseteq t => r = t
  <2> HIDE DEF T
  <2> QED  BY <1>1, MinimalSubset
<1>3. PICK x \in t : Sum(t) # w[x] + Sum(t \ {x})  OBVIOUS
<1> DEFINE c == First(t)
           q == t \ {x, c}
<1>4. c \in t  BY FirstIn
<1>5. \A r \in SUBSET S : IsFiniteSet(r) /\ Sum(r) \in Int
  <2>1. \A r \in SUBSET S : IsFiniteSet(r)  BY FS_Subset
  <2> QED  BY <2>1, SumInt
<1>6. Sum(t) = w[c] + Sum(t \ {c})  BY <1>3, <1>5, SumUnfold
<1>7. x # c  BY <1>3, <1>6
<1>8. /\ t \ {c} \notin T /\ t \ {x} \notin T
      /\ x \in t \ {c} /\ c \in t \ {x}
      /\ (t \ {c}) \ {x} = q /\ (t \ {x}) \ {c} = q
  BY <1>2, <1>3, <1>4, <1>7
<1> HIDE DEF Sum, c
<1>9. Sum(t \ {c}) = w[x] + Sum(q)
  <2>1. t \ {c} \in SUBSET S  OBVIOUS
  <2> QED  BY <1>8, <2>1
<1>10. Sum(t \ {x}) = w[c] + Sum(q)
  <2>1. t \ {x} \in SUBSET S  OBVIOUS
  <2> QED  BY <1>8, <2>1
<1>11. w[x] \in Int /\ w[c] \in Int /\ Sum(q) \in Int  BY <1>4, <1>5
<1> QED  BY <1>3, <1>6, <1>9, <1>10, <1>11

\* Only the values on the set matter.
LEMMA SumEqual ==
    ASSUME NEW S, IsFiniteSet(S), NEW w, NEW v, \A x \in S : w[x] = v[x]
    PROVE  SumFunctionOnSet(w, S) = SumFunctionOnSet(v, S)
<1> DEFINE T == {t \in SUBSET S : SumFunctionOnSet(w, t) # SumFunctionOnSet(v, t)}
<1> SUFFICES ASSUME T # {} PROVE FALSE
  OBVIOUS
<1>1. T \in SUBSET (SUBSET S)  OBVIOUS
<1>2. PICK t \in T : \A r \in T : r \subseteq t => r = t
  <2> HIDE DEF T
  <2> QED  BY <1>1, MinimalSubset
<1>3. t # {}  BY SumEmpty
<1>4. First(t) \in t /\ w[First(t)] = v[First(t)]  BY <1>3, FirstIn
<1>5. SumFunctionOnSet(w, t \ {First(t)}) = SumFunctionOnSet(v, t \ {First(t)})
  BY <1>2, <1>4
<1>6. IsFiniteSet(t)  BY FS_Subset
<1>7. /\ SumFunctionOnSet(w, t) = w[First(t)] + SumFunctionOnSet(w, t \ {First(t)})
      /\ SumFunctionOnSet(v, t) = v[First(t)] + SumFunctionOnSet(v, t \ {First(t)})
  BY <1>3, <1>6, SumUnfold
<1> QED  BY <1>4, <1>5, <1>7

\* A sum of natural numbers is one.
LEMMA SumNat ==
    ASSUME NEW S, IsFiniteSet(S), NEW w, \A x \in S : w[x] \in Nat
    PROVE  SumFunctionOnSet(w, S) \in Nat
<1> DEFINE T == {t \in SUBSET S : SumFunctionOnSet(w, t) \notin Nat}
<1> SUFFICES ASSUME T # {} PROVE FALSE
  OBVIOUS
<1>1. T \in SUBSET (SUBSET S)  OBVIOUS
<1>2. PICK t \in T : \A r \in T : r \subseteq t => r = t
  <2> HIDE DEF T
  <2> QED  BY <1>1, MinimalSubset
<1>3. t # {}  BY SumEmpty
<1>4. First(t) \in t /\ w[First(t)] \in Nat  BY <1>3, FirstIn
<1>5. SumFunctionOnSet(w, t \ {First(t)}) \in Nat  BY <1>2, <1>4
<1>6. IsFiniteSet(t)  BY FS_Subset
<1>7. SumFunctionOnSet(w, t) = w[First(t)] + SumFunctionOnSet(w, t \ {First(t)})
  BY <1>3, <1>6, SumUnfold
<1> QED  BY <1>4, <1>5, <1>7

\* Two sets without a common element.
LEMMA SumDisjoint ==
    ASSUME NEW A, IsFiniteSet(A), NEW B, IsFiniteSet(B), A \cap B = {},
           NEW w, \A x \in A \cup B : w[x] \in Int
    PROVE  SumFunctionOnSet(w, A \cup B) = SumFunctionOnSet(w, A) + SumFunctionOnSet(w, B)
<1> DEFINE Sum(s) == SumFunctionOnSet(w, s)
           T == {t \in SUBSET B : Sum(A \cup t) # Sum(A) + Sum(t)}
<1> SUFFICES ASSUME T # {} PROVE FALSE
  OBVIOUS
<1>1. T \in SUBSET (SUBSET B)  OBVIOUS
<1>2. PICK t \in T : \A r \in T : r \subseteq t => r = t
  <2> HIDE DEF T
  <2> QED  BY <1>1, MinimalSubset
<1>3. \A r \in SUBSET B : IsFiniteSet(r) /\ IsFiniteSet(A \cup r)
  BY FS_Subset, FS_Union
<1>4. Sum(A) \in Int /\ \A r \in SUBSET B : Sum(r) \in Int
  BY <1>3, SumInt
<1>5. t # {}
  <2> SUFFICES ASSUME t = {} PROVE FALSE  OBVIOUS
  <2>1. A \cup t = A  OBVIOUS
  <2>2. Sum(t) = 0  BY SumEmpty
  <2>3. Sum(A \cup t) # Sum(A) + Sum(t)  BY <1>2
  <2> HIDE DEF Sum
  <2> QED  BY <1>4, <2>1, <2>2, <2>3
<1>6. PICK x : x \in t  BY <1>5
<1> DEFINE q == t \ {x}
<1>7. Sum(t) = w[x] + Sum(q)  BY <1>3, <1>6, SumRemove
<1>8. Sum(A \cup t) = w[x] + Sum(A \cup q)
  <2> DEFINE u == A \cup t
  <2>1. u \ {x} = A \cup q /\ x \in u  BY <1>6
  <2>2. (\A y \in u : w[y] \in Int) /\ IsFiniteSet(u)  BY <1>3
  <2> HIDE DEF u
  <2>3. Sum(u) = w[x] + Sum(u \ {x})  BY <2>1, <2>2, SumRemove
  <2> QED  BY <2>1, <2>3 DEF u
<1> HIDE DEF Sum
<1>9. Sum(A \cup q) = Sum(A) + Sum(q)
  <2>1. q \in SUBSET B /\ q # t /\ q \subseteq t  BY <1>6
  <2> QED  BY <1>2, <2>1
<1>10. w[x] \in Int /\ Sum(q) \in Int /\ Sum(A) \in Int  BY <1>4, <1>6
<1> QED  BY <1>2, <1>7, <1>8, <1>9, <1>10

\* Summing class by class.
OfClass(D, class, c)   == {k \in D : class[k] = c}
OfClasses(D, class, C) == {k \in D : class[k] \in C}

LEMMA SumByClass ==
    ASSUME NEW D, IsFiniteSet(D), NEW w, \A k \in D : w[k] \in Int, NEW class,
           NEW C, IsFiniteSet(C), NEW v,
           \A c \in C : v[c] = SumFunctionOnSet(w, OfClass(D, class, c))
    PROVE  SumFunctionOnSet(v, C) = SumFunctionOnSet(w, OfClasses(D, class, C))
<1> USE DEF OfClass, OfClasses
<1> DEFINE In(s) == {k \in D : class[k] \in s}
           Of(c) == {k \in D : class[k] = c}
           T == {t \in SUBSET C : SumFunctionOnSet(v, t) # SumFunctionOnSet(w, In(t))}
<1> SUFFICES ASSUME T # {} PROVE FALSE
  OBVIOUS
<1>1. T \in SUBSET (SUBSET C)  OBVIOUS
<1>2. PICK t \in T : \A r \in T : r \subseteq t => r = t
  <2> HIDE DEF T
  <2> QED  BY <1>1, MinimalSubset
<1>3. ASSUME NEW s \in SUBSET D PROVE IsFiniteSet(s) /\ SumFunctionOnSet(w, s) \in Int
  <2>1. IsFiniteSet(s)  BY FS_Subset
  <2> QED  BY <2>1, SumInt
<1>4. \A c \in C : v[c] = SumFunctionOnSet(w, Of(c)) /\ v[c] \in Int
  <2>1. \A c \in C : Of(c) \in SUBSET D  OBVIOUS
  <2> HIDE DEF Of
  <2>2. \A c \in C : v[c] = SumFunctionOnSet(w, Of(c))  BY DEF Of
  <2> QED  BY <1>3, <2>1, <2>2
<1>5. t # {}
  <2>1. In({}) = {}  OBVIOUS
  <2>2. SumFunctionOnSet(v, {}) = 0 /\ SumFunctionOnSet(w, {}) = 0  BY SumEmpty
  <2> HIDE DEF In
  <2> QED  BY <1>2, <2>1, <2>2
<1>6. PICK c : c \in t  BY <1>5
<1> DEFINE q == t \ {c}
<1>7. IsFiniteSet(t)  BY FS_Subset
<1>8. SumFunctionOnSet(v, t) = v[c] + SumFunctionOnSet(v, q)
  BY <1>4, <1>6, <1>7, SumRemove
<1>9. /\ In(t) = Of(c) \cup In(q) /\ Of(c) \cap In(q) = {}
      /\ Of(c) \in SUBSET D /\ In(q) \in SUBSET D
  BY <1>6
<1>10. q \notin T  BY <1>2, <1>6
<1>11. q \in SUBSET C  OBVIOUS
<1> HIDE DEF In, Of, q
<1>12. SumFunctionOnSet(v, q) = SumFunctionOnSet(w, In(q))  BY <1>10, <1>11
<1>13. SumFunctionOnSet(w, In(t)) = SumFunctionOnSet(w, Of(c)) + SumFunctionOnSet(w, In(q))
  <2> DEFINE a == Of(c)
             b == In(q)
  <2>1. (\A k \in a \cup b : w[k] \in Int) /\ a \cap b = {}  BY <1>9
  <2>2. IsFiniteSet(a) /\ IsFiniteSet(b)  BY <1>3, <1>9
  <2> HIDE DEF a, b
  <2>3. SumFunctionOnSet(w, a \cup b) = SumFunctionOnSet(w, a) + SumFunctionOnSet(w, b)
    BY <2>1, <2>2, SumDisjoint
  <2> QED  BY <1>9, <2>3 DEF a, b
<1> QED  BY <1>2, <1>4, <1>6, <1>8, <1>12, <1>13
-----------------------------------------------------------------------------
(* Deviations: for n numbers with sum s and sum of squares q, s^2 <= n*q *)

LEMMA SquareNat == ASSUME NEW x \in Int PROVE x * x \in Nat
<1>1. CASE x >= 0  BY <1>1, SMT
<1>2. CASE x < 0
  <2> DEFINE y == -x
  <2>1. y \in Nat /\ x = -y  BY <1>2
  <2> HIDE DEF y
  <2>2. x * x = y * y  BY <2>1, SMT
  <2>3. y * y \in Nat  BY <2>1, SMT
  <2> QED  BY <2>2, <2>3
<1> QED  BY <1>1, <1>2

LEMMA Factorless ==
    ASSUME NEW n \in Nat \ {0}, NEW x \in Int, n * x >= 0
    PROVE  x >= 0
<1> SUFFICES ASSUME x <= -1 PROVE FALSE  OBVIOUS
<1> DEFINE y == -x
<1>1. y \in Nat /\ y >= 1 /\ n * x = -(n * y)  BY SMT
<1>2. n * y >= n  BY <1>1, SMT
<1> HIDE DEF y
<1>3. n * y \in Nat /\ n * x \in Int  BY <1>1, SMT
<1> QED  BY <1>1, <1>2, <1>3

\* One number more.
LEMMA SpreadStep ==
    ASSUME NEW n \in Nat, NEW s \in Int, NEW q \in Nat, NEW c \in Int, s * s <= n * q,
           n = 0 => s = 0
    PROVE  (s + c) * (s + c) <= (n + 1) * (q + c * c)
<1> DEFINE x == n * (c * c) - 2 * (c * s) + q
           d == n * q - s * s
           p == (n * c - s) * (n * c - s)
<1>1. x \in Int /\ d \in Nat  BY SMT
<1>2. n * x = p + d  BY SMT
<1>3. p \in Nat
  <2>1. n * c - s \in Int  BY SMT
  <2> QED  BY <2>1, SquareNat
<1>4. (n + 1) * (q + c * c) - (s + c) * (s + c) = d + x  BY SMT
<1>5. n = 0 => x = q  BY SMT
<1> HIDE DEF x, d, p
<1>6. x >= 0
  <2>1. CASE n = 0  BY <1>5, <2>1
  <2>2. CASE n # 0
    <3>1. n * x >= 0  BY <1>1, <1>2, <1>3
    <3> QED  BY <1>1, <2>2, <3>1, Factorless
  <2> QED  BY <2>1, <2>2
<1>7. (n + 1) * (q + c * c) \in Int /\ (s + c) * (s + c) \in Int  BY SMT
<1> QED  BY <1>1, <1>4, <1>6, <1>7

\* The largest share of the deviation that one number can have.
LEMMA PeakBound ==
    ASSUME NEW m \in Nat, NEW s \in Int, NEW q \in Nat, NEW c \in Int, s * s <= m * q
    PROVE  LET n == m + 1
               p == n * c - (s + c)
               v == n * (q + c * c) - (s + c) * (s + c)
           IN  p * p <= m * v
<1> DEFINE n == m + 1
           p == n * c - (s + c)
           v == n * (q + c * c) - (s + c) * (s + c)
           d == m * q - s * s
<1>1. m * v - p * p = n * d  BY SMT
<1>2. d \in Nat /\ n \in Nat /\ m * v \in Int /\ p * p \in Int  BY SMT
<1> HIDE DEF n, p, v, d
<1>3. n * d \in Nat  BY <1>2, SMT
<1>4. p * p <= m * v  BY <1>1, <1>2, <1>3
<1> QED  BY <1>4 DEF n, p, v

\* Over any finite set.
LEMMA Spread ==
    ASSUME NEW S, IsFiniteSet(S), NEW w, \A x \in S : w[x] \in Int,
           NEW u, \A x \in S : u[x] = w[x] * w[x]
    PROVE  LET n == Cardinality(S)
               s == SumFunctionOnSet(w, S)
               q == SumFunctionOnSet(u, S)
           IN  n \in Nat /\ s \in Int /\ q \in Nat /\ s * s <= n * q
<1> DEFINE n(t) == Cardinality(t)
           s(t) == SumFunctionOnSet(w, t)
           q(t) == SumFunctionOnSet(u, t)
           T == {t \in SUBSET S : ~(s(t) * s(t) <= n(t) * q(t))}
<1>1. \A x \in S : u[x] \in Nat  BY SquareNat
<1>2. ASSUME NEW t \in SUBSET S
      PROVE  IsFiniteSet(t) /\ n(t) \in Nat /\ s(t) \in Int /\ q(t) \in Nat
  <2>1. IsFiniteSet(t)  BY FS_Subset
  <2>2. q(t) \in Nat  BY <1>1, <2>1, SumNat
  <2> QED  BY <2>1, <2>2, SumInt, FS_CardinalityType
<1>3. T = {}
  <2> SUFFICES ASSUME T # {} PROVE FALSE  OBVIOUS
  <2>1. T \in SUBSET (SUBSET S)  OBVIOUS
  <2>2. PICK t \in T : \A r \in T : r \subseteq t => r = t
    <3> HIDE DEF T
    <3> QED  BY <2>1, MinimalSubset
  <2>3. t \in SUBSET S /\ ~(s(t) * s(t) <= n(t) * q(t))  OBVIOUS
  <2>4. t # {}
    <3> SUFFICES ASSUME t = {} PROVE FALSE  OBVIOUS
    <3>1. s(t) = 0 /\ q(t) = 0 /\ n(t) = 0  BY SumEmpty, FS_EmptySet
    <3> HIDE DEF s, q, n, T
    <3> QED  BY <2>3, <3>1
  <2>5. PICK x : x \in t  BY <2>4
  <2> DEFINE r == t \ {x}
  <2>6. r \in SUBSET S /\ r \subseteq t /\ r # t /\ x \in S  BY <2>5
  <2>7. s(r) * s(r) <= n(r) * q(r)  BY <2>2, <2>6
  <2>8. s(t) = w[x] + s(r)  BY <1>2, <2>5, SumRemove
  <2>9. q(t) = u[x] + q(r)
    <3>1. \A y \in t : u[y] \in Int  BY <1>1, <2>3
    <3> QED  BY <1>2, <2>5, <3>1, SumRemove
  <2>10. n(r) = n(t) - 1  BY <1>2, <2>5, FS_RemoveElement
  <2>11. n(r) = 0 => s(r) = 0
    <3> SUFFICES ASSUME n(r) = 0 PROVE s(r) = 0  OBVIOUS
    <3>1. IsFiniteSet(r)  BY <1>2, <2>6
    <3>2. r = {}  BY <3>1, FS_EmptySet
    <3> QED  BY <3>2, SumEmpty
  <2>12. /\ n(r) \in Nat /\ s(r) \in Int /\ q(r) \in Nat
         /\ n(t) \in Nat /\ s(t) \in Int /\ q(t) \in Nat
    BY <1>2, <2>6
  <2>13. w[x] \in Int /\ u[x] = w[x] * w[x]  BY <2>6
  <2> HIDE DEF s, q, n, T, r
  <2>14. (s(r) + w[x]) * (s(r) + w[x]) <= (n(r) + 1) * (q(r) + w[x] * w[x])
    BY <2>7, <2>11, <2>12, <2>13, SpreadStep
  <2>15. s(t) = s(r) + w[x] /\ n(t) = n(r) + 1 /\ q(t) = q(r) + w[x] * w[x]
    <3>1. w[x] * w[x] \in Nat  BY <2>13, SquareNat
    <3> QED  BY <2>8, <2>9, <2>10, <2>12, <2>13, <3>1
  <2> QED  BY <2>3, <2>14, <2>15
<1>4. S \in SUBSET S  OBVIOUS
<1>5. s(S) * s(S) <= n(S) * q(S)  BY <1>3, <1>4
<1> QED  BY <1>2, <1>4, <1>5
-----------------------------------------------------------------------------
(* Fractions with positive denominators, by cross multiplication *)

LEMMA Scale ==
    ASSUME NEW k \in Nat \ {0}, NEW x \in Int, NEW y \in Int
    PROVE  /\ k * x \in Int /\ k * y \in Int
           /\ x < y <=> k * x < k * y
           /\ x <= y <=> k * x <= k * y
<1> DEFINE d == y - x
           e == x - y
<1>1. k * d = k * y - k * x /\ k * e = k * x - k * y /\ k * x \in Int /\ k * y \in Int  BY SMT
<1>2. d \in Int /\ e \in Int  OBVIOUS
<1> HIDE DEF d, e
<1>3. (k * d >= 0 => d >= 0) /\ (k * e >= 0 => e >= 0)  BY <1>2, Factorless
<1>4. (d >= 0 => k * d >= 0) /\ (e >= 0 => k * e >= 0)
  <2>1. d >= 0 => k * d \in Nat  BY <1>2, SMT
  <2>2. e >= 0 => k * e \in Nat  BY <1>2, SMT
  <2> QED  BY <2>1, <2>2
<1> QED  BY <1>1, <1>3, <1>4 DEF d, e

LEMMA FractionOrder ==
    ASSUME NEW an \in Int, NEW bn \in Int, NEW cn \in Int,
           NEW ad \in Nat \ {0}, NEW bd \in Nat \ {0}, NEW cd \in Nat \ {0}
    PROVE  /\ an * bd < bn * ad /\ bn * cd <= cn * bd => an * cd < cn * ad
           /\ an * bd <= bn * ad /\ bn * cd < cn * bd => an * cd < cn * ad
<1> DEFINE x == cd * (an * bd)
           y == cd * (bn * ad)
           u == ad * (bn * cd)
           v == ad * (cn * bd)
           l == bd * (an * cd)
           r == bd * (cn * ad)
<1>1. an * bd \in Int /\ bn * ad \in Int /\ bn * cd \in Int /\ cn * bd \in Int
      /\ an * cd \in Int /\ cn * ad \in Int
  BY SMT
<1>2. x = l /\ y = u /\ v = r  BY SMT
<1>3. /\ x \in Int /\ y \in Int
      /\ an * bd < bn * ad <=> x < y
      /\ an * bd <= bn * ad <=> x <= y
  BY <1>1, Scale
<1>4. /\ u \in Int /\ v \in Int
      /\ bn * cd < cn * bd <=> u < v
      /\ bn * cd <= cn * bd <=> u <= v
  BY <1>1, Scale
<1>5. an * cd < cn * ad <=> l < r  BY <1>1, Scale
<1> HIDE DEF x, y, u, v, l, r
<1> QED  BY <1>1, <1>2, <1>3, <1>4, <1>5
=============================================================================
