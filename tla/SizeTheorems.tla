---------------------------- MODULE SizeTheorems ----------------------------
(***************************************************************************)
(* The arithmetic of sizes: what SumFunction of the community modules is   *)
(* over a finite set, that is, the size of a table of slices and how a     *)
(* single entry changes it; and words, which wrap around.                  *)
(*                                                                         *)
(* SumFunction folds over a CHOOSE of a recursive function, so that its    *)
(* value has to be shown to exist, by induction on the set.  The induction *)
(* is stated with a set in place of the predicate of the library's         *)
(* theorems: the members for which the claim holds.                        *)
(***************************************************************************)
EXTENDS Functions, FiniteSetTheorems, TLAPS

(* Products, of which the solver knows little.                             *)
LEMMA TimesPositive ==
    ASSUME NEW w \in Nat \ {0}, NEW k \in Int, k >= 1
    PROVE  w * k >= w
  OBVIOUS

LEMMA TimesSum ==
    ASSUME NEW w \in Int, NEW p \in Int, NEW q \in Int
    PROVE  /\ w * (p + q) = w * p + w * q
           /\ w * (p - q) = w * p - w * q
           /\ w * p \in Int
  OBVIOUS

(* A number has one quotient and one remainder.                            *)
LEMMA Divides ==
    ASSUME NEW w \in Nat \ {0}, NEW a \in Int
    PROVE  /\ a \div w \in Int /\ a % w \in 0..w-1
           /\ a = w * (a \div w) + (a % w)
  OBVIOUS

LEMMA RemainderIsUnique ==
    ASSUME NEW w \in Nat \ {0}, NEW q \in Int, NEW r \in 0..w-1
    PROVE  (w * q + r) % w = r
<1> DEFINE a == w * q + r
           p == a \div w
           s == a % w
<1>1. a \in Int /\ p \in Int /\ s \in 0..w-1 /\ a = w * p + s
  BY TimesSum, Divides
<1>2. w * (p - q) = r - s /\ w * (q - p) = s - r
  BY <1>1, TimesSum
<1>3. ~ (p - q >= 1)
  BY <1>1, <1>2, TimesPositive
<1>4. ~ (q - p >= 1)
  BY <1>1, <1>2, TimesPositive
<1>5. p = q
  BY <1>1, <1>3, <1>4
<1> QED
  BY <1>1, <1>2, <1>5

(* What is taken from a word may be taken from the number it stands for.   *)
LEMMA WordMinus ==
    ASSUME NEW w \in Nat \ {0}, NEW a \in Int, NEW b \in Int
    PROVE  ((a % w) - b) % w = (a - b) % w
<1> DEFINE x == (a % w) - b
           r == x % w
<1>1. a % w \in Int /\ a \div w \in Int /\ x \in Int /\ x \div w \in Int /\ r \in 0..w-1
  BY Divides
<1>2. a = w * (a \div w) + (a % w) /\ x = w * (x \div w) + r
  BY <1>1, Divides
<1>3. a - b = w * (a \div w + x \div w) + r
  <2> HIDE DEF r
  <2>1. a - b = w * (a \div w) + x
    BY <1>1, <1>2
  <2>2. w * (a \div w + x \div w) = w * (a \div w) + w * (x \div w)
    BY <1>1, TimesSum
  <2>3. w * (a \div w) \in Int /\ w * (x \div w) \in Int
    BY <1>1, TimesSum
  <2> HIDE DEF x
  <2> QED
    BY <1>1, <1>2, <2>1, <2>2, <2>3
<1>4. a \div w + x \div w \in Int
  BY <1>1
<1> QED
  BY <1>1, <1>3, <1>4, RemainderIsUnique

(* A number that is nothing as a word is nothing, or a word away.          *)
LEMMA MultipleIsFar ==
    ASSUME NEW w \in Nat \ {0}, NEW a \in Int, a % w = 0
    PROVE  a = 0 \/ a >= w \/ 0 - a >= w
<1> DEFINE q == a \div w
<1>1. q \in Int /\ a = w * q
  <2>1. a \div w \in Int /\ a = w * (a \div w) + (a % w) /\ w * (a \div w) \in Int
    BY Divides, TimesSum
  <2> QED
    BY <2>1
<1>2. w * (0 - q) = w * 0 - w * q /\ w * 0 = 0
  BY <1>1, TimesSum
<1>3. q >= 1 => w * q >= w
  BY <1>1, TimesPositive
<1>4. 0 - q >= 1 => w * (0 - q) >= w
  BY <1>1, TimesPositive
<1>5. q = 0 => w * q = 0
  BY <1>1, <1>2
<1> HIDE DEF q
<1> QED
  BY <1>1, <1>2, <1>3, <1>4, <1>5

(* A number that is a word already.                                        *)
LEMMA WordOfSmall ==
    ASSUME NEW w \in Nat \ {0}, NEW a \in 0..w-1
    PROVE  a % w = a
  OBVIOUS

(* An excess that is less than what is left of the words does not come of  *)
(* wrapping around.                                                        *)
LEMMA ExcessOfWord ==
    ASSUME NEW w \in Nat \ {0}, NEW l \in 0..w-1, NEW s \in 0..w-1, NEW b \in Nat,
           l + b < w, (s - l) % w <= b
    PROVE  s = l + ((s - l) % w)
<1>1. CASE s >= l
  <2> DEFINE a == s - l
  <2>1. a \in 0..w-1
    BY <1>1
  <2>2. a % w = a
    <3> HIDE DEF a
    <3> QED BY <2>1, WordOfSmall
  <2> QED
    BY <2>1, <2>2
<1>2. CASE s < l
  <2> DEFINE r == w + s - l
  <2>1. r \in 0..w-1
    BY <1>2
  <2>2. s - l = w * (0 - 1) + r
    BY <1>2
  <2>3. (w * (0 - 1) + r) % w = r
    <3> HIDE DEF r
    <3> QED BY <2>1, RemainderIsUnique
  <2>4. (s - l) % w = r
    BY <2>2, <2>3
  <2> QED
    BY <1>2, <2>1, <2>4
<1> QED
  BY <1>1, <1>2

-----------------------------------------------------------------------------
(* Induction over the numbers.                                             *)
LEMMA Induct ==
    ASSUME NEW N, 0 \in N, \A n \in Nat \cap N : n + 1 \in N
    PROVE Nat \subseteq N
<1> SUFFICES ASSUME Nat \ N # {} PROVE FALSE
  OBVIOUS
<1>1. PICK n \in Nat \ N : \A m \in Nat \ N : ~ (<<m, n>> \in OpToRel(<, Nat))
  BY NatLessThanWellFounded, WFMin
<1>2. \A m \in Nat : m < n => m \in N
  BY <1>1 DEF OpToRel
<1>3. n # 0
  OBVIOUS
<1>4. n - 1 \in Nat /\ n - 1 < n /\ (n - 1) + 1 = n
  BY <1>3
<1> QED
  BY <1>2, <1>4

(* Induction over the subsets of a finite set: what holds of a set when it *)
(* holds of the set without any one of its members holds of all.           *)
LEMMA SetInduct ==
    ASSUME NEW S, IsFiniteSet(S), NEW F,
           \A T \in SUBSET S : (\A x \in T : T \ {x} \in F) => T \in F
    PROVE  SUBSET S \subseteq F
<1> DEFINE N == {n \in Nat : \A T \in SUBSET S : Cardinality(T) = n => T \in F}
<1>1. 0 \in N
  BY FS_EmptySet, FS_Subset
<1>2. ASSUME NEW n \in Nat \cap N PROVE n + 1 \in N
  <2> SUFFICES ASSUME NEW T \in SUBSET S, Cardinality(T) = n + 1 PROVE T \in F
    OBVIOUS
  <2>1. ASSUME NEW x \in T PROVE T \ {x} \in F
    <3>1. Cardinality(T \ {x}) = Cardinality(T) - 1
      BY FS_Subset, FS_RemoveElement
    <3>2. Cardinality(T \ {x}) = n
      BY <3>1
    <3> QED
      BY <3>2
  <2> QED
    BY <2>1
<1>3. Nat \subseteq N
  <2> HIDE DEF N
  <2> QED BY <1>1, <1>2, Induct
<1>4. \A T \in SUBSET S : Cardinality(T) \in Nat
  BY FS_Subset, FS_CardinalityType
<1> QED
  BY <1>3, <1>4

(* The fold takes the members of a set in the order CHOOSE gives them.     *)
Chosen(s) == CHOOSE x \in s : TRUE

Body(g, f, S) == [s \in SUBSET S |->
    IF s = {} THEN 0 ELSE f[Chosen(s)] + g[s \ {Chosen(s)}]]

(* The sum is the value of any solution of this equation.                  *)
LEMMA Unfold ==
    ASSUME NEW f, NEW S
    PROVE SumFunctionOnSet(f, S) = (CHOOSE g : g = Body(g, f, S))[S]
  BY DEF SumFunctionOnSet, FoldFunctionOnSet, MapThenFoldSet, Body, Chosen

(* What is chosen of a set is in it.                                       *)
LEMMA ChosenIn == \A s : s # {} => Chosen(s) \in s
  BY DEF Chosen

(* Two solutions agree on what both are about.                             *)
LEMMA Agree ==
    ASSUME NEW f, NEW S, IsFiniteSet(S), NEW T \in SUBSET S, NEW g, NEW h,
           g = Body(g, f, S), h = Body(h, f, T)
    PROVE  \A s \in SUBSET T : g[s] = h[s]
<1> DEFINE F == {s \in SUBSET T : g[s] = h[s]}
<1>1. ASSUME NEW s \in SUBSET T, \A x \in s : s \ {x} \in F PROVE s \in F
  <2>1. g[s] = IF s = {} THEN 0 ELSE f[Chosen(s)] + g[s \ {Chosen(s)}]
    BY DEF Body
  <2>2. h[s] = IF s = {} THEN 0 ELSE f[Chosen(s)] + h[s \ {Chosen(s)}]
    BY DEF Body
  <2>3. s # {} => g[s \ {Chosen(s)}] = h[s \ {Chosen(s)}]
    BY <1>1, ChosenIn
  <2> QED
    BY <2>1, <2>2, <2>3
<1>2. IsFiniteSet(T)
  BY FS_Subset
<1>3. SUBSET T \subseteq F
  <2> HIDE DEF F
  <2> QED BY <1>1, <1>2, SetInduct
<1> QED
  BY <1>3

(* There is a solution: one that is right up to n members, put into the    *)
(* equation, is right up to n + 1.                                         *)
LEMMA Exists ==
    ASSUME NEW f, NEW S, IsFiniteSet(S)
    PROVE  \E g : g = Body(g, f, S)
<1> DEFINE Upto(g, n) == \A s \in SUBSET S : Cardinality(s) <= n => g[s] = Body(g, f, S)[s]
           N == {n \in Nat : \E g : Upto(g, n)}
<1>1. \A s \in SUBSET S : Cardinality(s) \in Nat
  BY FS_Subset, FS_CardinalityType
<1>2. 0 \in N
  <2> DEFINE g == [s \in SUBSET S |-> 0]
  <2>1. \A s \in SUBSET S : Cardinality(s) <= 0 => s = {}
    BY <1>1, FS_Subset, FS_EmptySet
  <2>2. Upto(g, 0)
    BY <2>1 DEF Body
  <2> QED
    BY <2>2
<1>3. ASSUME NEW n \in Nat \cap N PROVE n + 1 \in N
  <2>1. PICK g : Upto(g, n)
    OBVIOUS
  <2> DEFINE h == Body(g, f, S)
  <2>2. ASSUME NEW s \in SUBSET S, Cardinality(s) <= n + 1 PROVE h[s] = Body(h, f, S)[s]
    <3>1. CASE s = {}
      BY <3>1 DEF Body
    <3>2. CASE s # {}
      <4> DEFINE r == s \ {Chosen(s)}
      <4>1. Chosen(s) \in s
        BY <3>2, ChosenIn
      <4>2. Cardinality(r) = Cardinality(s) - 1
        BY <4>1, FS_Subset, FS_RemoveElement
      <4>3. Cardinality(r) <= n
        BY <1>1, <2>2, <4>2
      <4>4. g[r] = h[r]
        BY <2>1, <4>3
      <4>5. h[s] = f[Chosen(s)] + g[r]
        BY <3>2 DEF Body
      <4>6. Body(h, f, S)[s] = f[Chosen(s)] + h[r]
        BY <3>2 DEF Body
      <4> QED
        BY <4>4, <4>5, <4>6
    <3> QED
      BY <3>1, <3>2
  <2>3. Upto(h, n + 1)
    BY <2>2
  <2> QED
    BY <2>3
<1>4. Cardinality(S) \in N
  <2> HIDE DEF N
  <2> QED BY <1>1, <1>2, <1>3, Induct
<1>5. PICK g : Upto(g, Cardinality(S))
  BY <1>4
<1> DEFINE h == Body(g, f, S)
<1>6. \A s \in SUBSET S : g[s] = h[s]
  BY <1>1, <1>5, FS_Subset
<1>7. h = Body(h, f, S)
  <2>1. \A s \in SUBSET S : s # {} => g[s \ {Chosen(s)}] = h[s \ {Chosen(s)}]
    BY <1>6
  <2> QED
    BY <2>1 DEF Body
<1> QED
  BY <1>7

-----------------------------------------------------------------------------
(* The empty sum.                                                          *)
LEMMA SumEmpty == ASSUME NEW f PROVE SumFunctionOnSet(f, {}) = 0
<1>1. PICK g : g = Body(g, f, {})
  BY Exists, FS_EmptySet
<1>2. (CHOOSE h : h = Body(h, f, {})) = Body(CHOOSE h : h = Body(h, f, {}), f, {})
  BY <1>1
<1>3. {} \in SUBSET {}
  OBVIOUS
<1> QED
  BY <1>2, <1>3, Unfold DEF Body

(* A sum is one of its terms and the sum of the others.                    *)
LEMMA SumChosen ==
    ASSUME NEW f, NEW S, IsFiniteSet(S), S # {}
    PROVE  SumFunctionOnSet(f, S) = f[Chosen(S)] + SumFunctionOnSet(f, S \ {Chosen(S)})
<1> DEFINE T == S \ {Chosen(S)}
           g == CHOOSE h : h = Body(h, f, S)
           k == CHOOSE h : h = Body(h, f, T)
<1>1. IsFiniteSet(T)
  BY FS_RemoveElement
<1>2. g = Body(g, f, S)
  BY Exists
<1>3. k = Body(k, f, T)
  BY <1>1, Exists
<1>4. g[T] = k[T]
  <2> HIDE DEF g, k, T
  <2>1. T \in SUBSET S
    BY DEF T
  <2> QED BY <1>2, <1>3, <2>1, Agree
<1>5. g[S] = f[Chosen(S)] + g[T]
  <2> HIDE DEF g
  <2> QED BY <1>2 DEF Body
<1> QED
  BY <1>4, <1>5, Unfold

(* Sums of integers are integers.                                          *)
LEMMA SumInt ==
    ASSUME NEW S, IsFiniteSet(S), NEW f, \A x \in S : f[x] \in Int
    PROVE  \A T \in SUBSET S : SumFunctionOnSet(f, T) \in Int
<1> DEFINE F == {T \in SUBSET S : SumFunctionOnSet(f, T) \in Int}
<1>1. ASSUME NEW T \in SUBSET S, \A x \in T : T \ {x} \in F PROVE T \in F
  <2>1. CASE T = {}
    BY <2>1, SumEmpty
  <2>2. CASE T # {}
    <3>1. Chosen(T) \in T
      BY <2>2, ChosenIn
    <3>2. IsFiniteSet(T)
      BY FS_Subset
    <3>3. SumFunctionOnSet(f, T \ {Chosen(T)}) \in Int
      BY <1>1, <3>1
    <3>4. f[Chosen(T)] \in Int
      BY <3>1
    <3> QED
      BY <2>2, <3>2, <3>3, <3>4, SumChosen
  <2> QED
    BY <2>1, <2>2
<1>2. SUBSET S \subseteq F
  <2> HIDE DEF F
  <2> QED BY <1>1, SetInduct
<1> QED
  BY <1>2

(* It may be any of its terms: the order does not matter.                  *)
LEMMA SumRemove ==
    ASSUME NEW S, IsFiniteSet(S), NEW f, \A x \in S : f[x] \in Int
    PROVE  \A T \in SUBSET S : \A x \in T :
             SumFunctionOnSet(f, T) = f[x] + SumFunctionOnSet(f, T \ {x})
<1> DEFINE F == {T \in SUBSET S : \A x \in T :
                    SumFunctionOnSet(f, T) = f[x] + SumFunctionOnSet(f, T \ {x})}
<1>1. ASSUME NEW T \in SUBSET S, \A x \in T : T \ {x} \in F PROVE T \in F
  <2> SUFFICES ASSUME NEW x \in T
               PROVE  SumFunctionOnSet(f, T) = f[x] + SumFunctionOnSet(f, T \ {x})
    OBVIOUS
  <2> DEFINE c == Chosen(T)
  <2>1. c \in T
    BY ChosenIn
  <2>2. IsFiniteSet(T)
    BY FS_Subset
  <2>3. SumFunctionOnSet(f, T) = f[c] + SumFunctionOnSet(f, T \ {c})
    BY <2>2, SumChosen
  <2>4. CASE x # c
    <3> DEFINE r == (T \ {c}) \ {x}
    <3>1. SumFunctionOnSet(f, T \ {c}) = f[x] + SumFunctionOnSet(f, r)
      BY <1>1, <2>1, <2>4
    <3>2. SumFunctionOnSet(f, T \ {x}) = f[c] + SumFunctionOnSet(f, (T \ {x}) \ {c})
      BY <1>1, <2>1, <2>4
    <3>3. (T \ {x}) \ {c} = r
      OBVIOUS
    <3>4. f[x] \in Int /\ f[c] \in Int /\ SumFunctionOnSet(f, r) \in Int
      <4> HIDE DEF c
      <4>1. r \in SUBSET S
        OBVIOUS
      <4> QED
        BY <2>1, <4>1, SumInt
    <3> HIDE DEF r, c
    <3>5. SumFunctionOnSet(f, T \ {x}) = f[c] + SumFunctionOnSet(f, r)
      BY <3>2, <3>3
    <3> QED
      BY <2>3, <3>1, <3>5, <3>4
  <2> QED
    BY <2>3, <2>4
<1>2. SUBSET S \subseteq F
  <2> HIDE DEF F
  <2> QED BY <1>1, SetInduct
<1> QED
  BY <1>2

(* A sum depends on its terms only.                                        *)
LEMMA SumSame ==
    ASSUME NEW S, IsFiniteSet(S), NEW f, NEW g, \A x \in S : f[x] = g[x]
    PROVE  \A T \in SUBSET S : SumFunctionOnSet(f, T) = SumFunctionOnSet(g, T)
<1> DEFINE F == {T \in SUBSET S : SumFunctionOnSet(f, T) = SumFunctionOnSet(g, T)}
<1>1. ASSUME NEW T \in SUBSET S, \A x \in T : T \ {x} \in F PROVE T \in F
  <2>1. CASE T = {}
    BY <2>1, SumEmpty
  <2>2. CASE T # {}
    <3>1. Chosen(T) \in T
      BY <2>2, ChosenIn
    <3>2. IsFiniteSet(T)
      BY FS_Subset
    <3>3. SumFunctionOnSet(f, T \ {Chosen(T)}) = SumFunctionOnSet(g, T \ {Chosen(T)})
      BY <1>1, <3>1
    <3>4. f[Chosen(T)] = g[Chosen(T)]
      BY <3>1
    <3>5. SumFunctionOnSet(f, T) = f[Chosen(T)] + SumFunctionOnSet(f, T \ {Chosen(T)})
      BY <2>2, <3>2, SumChosen
    <3>6. SumFunctionOnSet(g, T) = g[Chosen(T)] + SumFunctionOnSet(g, T \ {Chosen(T)})
      BY <2>2, <3>2, SumChosen
    <3> QED
      BY <3>3, <3>4, <3>5, <3>6
  <2> QED
    BY <2>1, <2>2
<1>2. SUBSET S \subseteq F
  <2> HIDE DEF F
  <2> QED BY <1>1, SetInduct
<1> QED
  BY <1>2

(* It grows with each of them,                                             *)
LEMMA SumGrows ==
    ASSUME NEW S, IsFiniteSet(S), NEW f, \A x \in S : f[x] \in Int,
           NEW g, \A x \in S : g[x] \in Int, \A x \in S : f[x] <= g[x]
    PROVE  \A T \in SUBSET S : SumFunctionOnSet(f, T) <= SumFunctionOnSet(g, T)
<1> DEFINE F == {T \in SUBSET S : SumFunctionOnSet(f, T) <= SumFunctionOnSet(g, T)}
<1>1. ASSUME NEW T \in SUBSET S, \A x \in T : T \ {x} \in F PROVE T \in F
  <2>1. CASE T = {}
    BY <2>1, SumEmpty
  <2>2. CASE T # {}
    <3>1. PICK x \in T : TRUE
      BY <2>2
    <3> DEFINE r == T \ {x}
    <3>2. SumFunctionOnSet(f, r) <= SumFunctionOnSet(g, r)
      BY <1>1, <3>1
    <3>3. /\ SumFunctionOnSet(f, T) = f[x] + SumFunctionOnSet(f, r)
          /\ SumFunctionOnSet(g, T) = g[x] + SumFunctionOnSet(g, r)
      BY <3>1, SumRemove
    <3>4. SumFunctionOnSet(f, r) \in Int /\ SumFunctionOnSet(g, r) \in Int
      BY SumInt
    <3>5. f[x] \in Int /\ g[x] \in Int /\ f[x] <= g[x]
      BY <3>1
    <3> HIDE DEF r
    <3> QED
      BY <3>2, <3>3, <3>4, <3>5
  <2> QED
    BY <2>1, <2>2
<1>2. SUBSET S \subseteq F
  <2> HIDE DEF F
  <2> QED BY <1>1, SetInduct
<1> QED
  BY <1>2

(* and with the set, when no term is negative.                             *)
LEMMA SumWider ==
    ASSUME NEW S, IsFiniteSet(S), NEW f, \A x \in S : f[x] \in Nat, NEW U \in SUBSET S
    PROVE  \A T \in SUBSET S :
             U \subseteq T => SumFunctionOnSet(f, U) <= SumFunctionOnSet(f, T)
<1> DEFINE F == {T \in SUBSET S :
                   U \subseteq T => SumFunctionOnSet(f, U) <= SumFunctionOnSet(f, T)}
<1>0. \A x \in S : f[x] \in Int
  OBVIOUS
<1>1. ASSUME NEW T \in SUBSET S, \A x \in T : T \ {x} \in F PROVE T \in F
  <2> SUFFICES ASSUME U \subseteq T, U # T
               PROVE  SumFunctionOnSet(f, U) <= SumFunctionOnSet(f, T)
    BY <1>0, SumInt
  <2>1. PICK x \in T : x \notin U
    OBVIOUS
  <2> DEFINE r == T \ {x}
  <2>2. SumFunctionOnSet(f, U) <= SumFunctionOnSet(f, r)
    BY <1>1, <2>1
  <2>3. SumFunctionOnSet(f, T) = f[x] + SumFunctionOnSet(f, r)
    BY <1>0, <2>1, SumRemove
  <2>4. SumFunctionOnSet(f, r) \in Int /\ SumFunctionOnSet(f, U) \in Int /\ f[x] \in Nat
    BY <1>0, SumInt
  <2> HIDE DEF r
  <2> QED
    BY <2>2, <2>3, <2>4
<1>2. SUBSET S \subseteq F
  <2> HIDE DEF F
  <2> QED BY <1>1, SetInduct
<1> QED
  BY <1>2

(* Sums of natural numbers are natural numbers.                            *)
LEMMA SumNat ==
    ASSUME NEW S, IsFiniteSet(S), NEW f, \A x \in S : f[x] \in Nat
    PROVE  \A T \in SUBSET S : SumFunctionOnSet(f, T) \in Nat
<1>1. \A x \in S : f[x] \in Int
  OBVIOUS
<1>2. \A T \in SUBSET S : SumFunctionOnSet(f, T) \in Int
  BY <1>1, SumInt
<1>3. \A T \in SUBSET S : SumFunctionOnSet(f, {}) <= SumFunctionOnSet(f, T)
  BY SumWider
<1> QED
  BY <1>2, <1>3, SumEmpty

(* No term is more than the sum, when none is negative.                    *)
LEMMA SumOfOne ==
    ASSUME NEW S, IsFiniteSet(S), NEW f, \A x \in S : f[x] \in Nat
    PROVE  \A T \in SUBSET S : \A x \in T : f[x] <= SumFunctionOnSet(f, T)
<1> SUFFICES ASSUME NEW T \in SUBSET S, NEW x \in T PROVE f[x] <= SumFunctionOnSet(f, T)
  OBVIOUS
<1>1. \A y \in S : f[y] \in Int
  OBVIOUS
<1>2. SumFunctionOnSet(f, T) = f[x] + SumFunctionOnSet(f, T \ {x})
  BY <1>1, SumRemove
<1>3. SumFunctionOnSet(f, T \ {x}) \in Nat /\ f[x] \in Nat
  BY SumNat
<1> QED
  BY <1>2, <1>3

(* A sum of terms that are bounded.                                        *)
LEMMA SumBound ==
    ASSUME NEW S, IsFiniteSet(S), NEW f, \A x \in S : f[x] \in Int,
           NEW b \in Int, \A x \in S : f[x] <= b
    PROVE  SumFunctionOnSet(f, S) <= b * Cardinality(S)
<1> DEFINE F == {T \in SUBSET S : SumFunctionOnSet(f, T) <= b * Cardinality(T)}
<1>1. ASSUME NEW T \in SUBSET S, \A x \in T : T \ {x} \in F PROVE T \in F
  <2>1. CASE T = {}
    BY <2>1, SumEmpty, FS_EmptySet
  <2>2. CASE T # {}
    <3>1. PICK x \in T : TRUE
      BY <2>2
    <3> DEFINE r == T \ {x}
               n == Cardinality(r)
               s == SumFunctionOnSet(f, r)
    <3>2. IsFiniteSet(T)
      BY FS_Subset
    <3>3. Cardinality(T) = n + 1 /\ n \in Nat
      <4>1. IsFiniteSet(r) /\ Cardinality(r) = Cardinality(T) - 1
        BY <3>1, <3>2, FS_RemoveElement
      <4>2. Cardinality(T) \in Nat /\ Cardinality(r) \in Nat
        BY <3>2, <4>1, FS_CardinalityType
      <4> QED
        BY <4>1, <4>2
    <3>4. s <= b * n
      BY <1>1, <3>1
    <3>5. SumFunctionOnSet(f, T) = f[x] + s
      BY <3>1, SumRemove
    <3>6. s \in Int /\ f[x] \in Int /\ f[x] <= b
      BY <3>1, SumInt
    <3> HIDE DEF n, s
    <3>7. b * (n + 1) = b * n + b * 1 /\ b * n \in Int
      BY <3>3, TimesSum
    <3>8. SumFunctionOnSet(f, T) <= b * Cardinality(T)
      BY <3>3, <3>4, <3>5, <3>6, <3>7
    <3> QED
      BY <3>8
  <2> QED
    BY <2>1, <2>2
<1>2. SUBSET S \subseteq F
  <2> HIDE DEF F
  <2> QED BY <1>1, SetInduct
<1> QED
  BY <1>2

(* One entry of a table changes: so does the total, by as much.            *)
LEMMA SumExcept ==
    ASSUME NEW S, IsFiniteSet(S), NEW f \in [S -> Int], NEW x \in S, NEW v \in Int
    PROVE  /\ SumFunction([f EXCEPT ![x] = v]) = SumFunction(f) - f[x] + v
           /\ SumFunction(f) \in Int
<1> DEFINE g == [f EXCEPT ![x] = v]
           r == S \ {x}
<1>1. /\ SumFunctionOnSet(f, S) = f[x] + SumFunctionOnSet(f, r)
      /\ SumFunctionOnSet(g, S) = v + SumFunctionOnSet(g, r)
  <2>1. \A y \in S : f[y] \in Int
    OBVIOUS
  <2>2. \A y \in S : g[y] \in Int
    OBVIOUS
  <2>3. g[x] = v
    OBVIOUS
  <2> HIDE DEF g
  <2> QED
    BY <2>1, <2>2, <2>3, SumRemove
<1>2. SumFunctionOnSet(f, r) = SumFunctionOnSet(g, r)
  <2>1. \A y \in r : f[y] = g[y]
    OBVIOUS
  <2>2. IsFiniteSet(r)
    BY FS_RemoveElement
  <2> HIDE DEF g, r
  <2> QED
    BY <2>1, <2>2, SumSame
<1>3. SumFunctionOnSet(f, r) \in Int /\ SumFunctionOnSet(f, S) \in Int
  BY SumInt
<1>4. SumFunction(f) = SumFunctionOnSet(f, S) /\ SumFunction(g) = SumFunctionOnSet(g, S)
  BY DEF SumFunction
<1> QED
  BY <1>1, <1>2, <1>3, <1>4
=============================================================================
