--------------------------- MODULE CommonLemmas ---------------------------
(***************************************************************************)
(* What the proofs of several components rest on: a bounded set of numbers *)
(* has a largest one, which is why a ring of waiters cannot climb a lock   *)
(* order for ever; and what SumFunctionOnSet of the community modules,     *)
(* defined by recursion over subsets, computes.  The models use it for     *)
(* what a ledger adds up to and for what a batch of recipes needs.  The    *)
(* others are about a sequence as a list of rows, typed by its own         *)
(* elements.                                                               *)
(*                                                                         *)
(* An induction is a set of numbers here, that of the cardinalities at     *)
(* which a claim holds: Climb says that it holds at all of them.           *)
(***************************************************************************)
EXTENDS Integers, SequencesExt, FiniteSetTheorems, WellFoundedInduction,
        SequenceTheorems, TLAPS

\* A bounded set of numbers has a largest one.
LEMMA NoEndlessClimb ==
  ASSUME NEW bound \in Nat, NEW T \in SUBSET (0..bound), T # {}
  PROVE  \E k \in T : \A j \in T : j <= k
  <1> DEFINE below == {n \in Nat : bound - n \in T}
  <1>1. \A k \in T : bound - k \in below
    OBVIOUS
  <1>2. below # {} /\ below \subseteq Nat
    BY <1>1
  <1>3. PICK n \in below : \A m \in below : ~(<<m, n>> \in OpToRel(<, Nat))
    BY <1>2, NatLessThanWellFounded, WFMin, Zenon
  <1>4. \A m \in below : ~(m < n)
    <2>1. \A m \in Nat : m < n => <<m, n>> \in OpToRel(<, Nat)
      BY <1>2, <1>3, Zenon DEF OpToRel
    <2>2. QED
      BY <1>2, <1>3, <2>1, Zenon
  <1>5. \A j \in T : j <= bound - n
    BY <1>1, <1>4
  <1>6. QED
    BY <1>3, <1>5

-----------------------------------------------------------------------------
\* The element a sum takes first, and what the recursion says of a function.
First(s) == CHOOSE x \in s : TRUE
Adds(f, s, g) == IF s = {} THEN 0 ELSE f[First(s)] + g[s \ {First(s)}]
Small(S, k) == {s \in SUBSET S : Cardinality(s) <= k}
SumsUpTo(f, S, k, g) ==
  /\ g = [s \in Small(S, k) |-> g[s]]
  /\ \A s \in Small(S, k) : g[s] = Adds(f, s, g)
Sums(f, S, g) == g = [s \in SUBSET S |-> Adds(f, s, g)]

\* That is the one the community modules call Max.
LEMMA MaxIsLargest ==
  ASSUME NEW bound \in Nat, NEW T \in SUBSET (0..bound), T # {}
  PROVE  Max(T) \in T /\ \A j \in T : j <= Max(T)
  <1>1. PICK k \in T : \A j \in T : j <= k
    BY NoEndlessClimb
  <1>2. \A j \in T : k >= j
    BY <1>1
  <1>3. QED
    BY <1>2 DEF Max

\* A set of numbers that holds zero and every successor holds every number.
LEMMA Climb ==
  ASSUME NEW P, 0 \in P, \A k \in Nat : k \in P => k + 1 \in P
  PROVE  Nat \subseteq P
  <1> DEFINE wrong == {k \in Nat : k \notin P}
  <1>1. SUFFICES ASSUME wrong # {} PROVE FALSE
    OBVIOUS
  <1>2. wrong \subseteq Nat
    OBVIOUS
  <1>3. PICK k \in wrong : \A m \in wrong : ~(<<m, k>> \in OpToRel(<, Nat))
    BY <1>1, <1>2, NatLessThanWellFounded, WFMin, Zenon
  <1>4. k \in Nat /\ k # 0
    OBVIOUS
  <1>5. k - 1 \in Nat /\ k - 1 < k /\ (k - 1) + 1 = k
    BY <1>4
  <1>6. k - 1 \in wrong
    <2> DEFINE j == k - 1
    <2>1. j \in Nat /\ j + 1 \in wrong
      BY <1>5
    <2> HIDE DEF j
    <2>2. j \notin P
      BY <2>1
    <2>3. j \in wrong
      BY <2>1, <2>2
    <2>4. QED
      BY <2>3 DEF j
  <1>7. <<k - 1, k>> \in OpToRel(<, Nat)
    BY <1>4, <1>5, Zenon DEF OpToRel
  <1>8. QED
    BY <1>3, <1>6, <1>7, Zenon

LEMMA FirstIsElement ==
  ASSUME NEW s, s # {}
  PROVE  First(s) \in s
  BY DEF First

\* What remains of a finite set is smaller by one.
LEMMA Rest ==
  ASSUME NEW S, IsFiniteSet(S), NEW s \in SUBSET S, NEW x \in s
  PROVE  /\ IsFiniteSet(s) /\ Cardinality(s) \in Nat
         /\ s \ {x} \in SUBSET S
         /\ Cardinality(s \ {x}) = Cardinality(s) - 1
  <1>1. IsFiniteSet(s) /\ Cardinality(s) \in Nat
    BY FS_Subset, FS_CardinalityType
  <1>2. Cardinality(s \ {x}) = Cardinality(s) - 1
    BY <1>1, FS_RemoveElement
  <1>3. QED
    BY <1>1, <1>2

-----------------------------------------------------------------------------
\* The recursion has a solution.
LEMMA SumExists ==
  ASSUME NEW f, NEW S, IsFiniteSet(S)
  PROVE  \E g : Sums(f, S, g)
  <1> DEFINE P == {k \in Nat : \E g : SumsUpTo(f, S, k, g)}
  <1>1. \A s \in SUBSET S : IsFiniteSet(s) /\ Cardinality(s) \in Nat
    BY FS_Subset, FS_CardinalityType
  <1>2. 0 \in P
    <2> DEFINE g == [s \in Small(S, 0) |-> 0]
    <2>1. \A s \in Small(S, 0) : s = {}
      <3>1. \A s \in SUBSET S : Cardinality(s) <= 0 => Cardinality(s) = 0
        BY <1>1
      <3>2. QED
        BY <1>1, <3>1, FS_EmptySet DEF Small
    <2>2. SumsUpTo(f, S, 0, g)
      BY <2>1 DEF SumsUpTo, Adds
    <2>3. QED
      BY <2>2
  <1>3. ASSUME NEW k \in Nat, k \in P PROVE k + 1 \in P
    <2>1. PICK g : SumsUpTo(f, S, k, g)
      BY <1>3
    <2> DEFINE h == [s \in Small(S, k + 1) |-> Adds(f, s, g)]
    <2>2. \A s \in Small(S, k + 1) : s # {} => s \ {First(s)} \in Small(S, k)
      <3> TAKE s \in Small(S, k + 1)
      <3> HAVE s # {}
      <3>1. First(s) \in s /\ s \in SUBSET S /\ Cardinality(s) <= k + 1
        BY FirstIsElement DEF Small
      <3>2. s \ {First(s)} \in SUBSET S /\ Cardinality(s \ {First(s)}) = Cardinality(s) - 1
        BY <3>1, Rest
      <3>3. Cardinality(s) - 1 <= k
        BY <1>1, <3>1
      <3>4. QED
        BY <3>2, <3>3 DEF Small
    <2>3. \A s \in Small(S, k) : s \in Small(S, k + 1) /\ h[s] = g[s]
      <3>1. \A s \in Small(S, k) : s \in Small(S, k + 1)
        BY <1>1 DEF Small
      <3>2. \A s \in Small(S, k) : g[s] = Adds(f, s, g)
        BY <2>1 DEF SumsUpTo
      <3>3. QED
        BY <3>1, <3>2
    <2>4. \A s \in Small(S, k + 1) : h[s] = Adds(f, s, h)
      BY <2>2, <2>3 DEF Adds
    <2>5. SumsUpTo(f, S, k + 1, h)
      BY <2>4 DEF SumsUpTo
    <2>6. QED
      BY <2>5
  <1>4. Cardinality(S) \in P
    <2>1. Cardinality(S) \in Nat
      BY FS_CardinalityType
    <2>2. Nat \subseteq P
      <3> HIDE DEF P
      <3>1. QED
        BY <1>2, <1>3, Climb
    <2>3. QED
      BY <2>1, <2>2
  <1>5. PICK g : SumsUpTo(f, S, Cardinality(S), g)
    BY <1>4
  <1>6. Small(S, Cardinality(S)) = SUBSET S
    BY FS_Subset DEF Small
  <1>7. g = [s \in SUBSET S |-> g[s]] /\ \A s \in SUBSET S : g[s] = Adds(f, s, g)
    BY <1>5, <1>6 DEF SumsUpTo
  <1>8. g = [s \in SUBSET S |-> Adds(f, s, g)]
    BY <1>7
  <1>9. QED
    BY <1>8 DEF Sums


LEMMA SumsOn ==
  ASSUME NEW f, NEW S, IsFiniteSet(S)
  PROVE  \E g : Sums(f, S, g) /\ SumFunctionOnSet(f, S) = g[S]
  <1> DEFINE solution == CHOOSE g : g = [s \in SUBSET S |-> IF s = {} THEN 0
                            ELSE f[CHOOSE x \in s : TRUE] + g[s \ {CHOOSE x \in s : TRUE}]]
  <1>1. SumFunctionOnSet(f, S) = solution[S]
    BY Zenon DEF SumFunctionOnSet, FoldFunctionOnSet, MapThenFoldSet
  <1>2. \E g : g = [s \in SUBSET S |-> IF s = {} THEN 0
                      ELSE f[CHOOSE x \in s : TRUE] + g[s \ {CHOOSE x \in s : TRUE}]]
    <2>1. PICK g : Sums(f, S, g)
      BY SumExists
    <2>2. QED
      BY <2>1, Zenon DEF Sums, Adds, First
  <1>3. Sums(f, S, solution)
    BY <1>2, Zenon DEF Sums, Adds, First
  <1>4. QED
    BY <1>1, <1>3

\* Two solutions agree wherever both are defined.
LEMMA SumsAgree ==
  ASSUME NEW f, NEW S, IsFiniteSet(S), NEW T \in SUBSET S, NEW g, NEW h,
         Sums(f, S, g), Sums(f, T, h)
  PROVE  \A s \in SUBSET T : g[s] = h[s]
  <1> DEFINE P == {k \in Nat : \A s \in SUBSET T : Cardinality(s) = k => g[s] = h[s]}
  <1>1. \A s \in SUBSET T : s \in SUBSET S /\ IsFiniteSet(s) /\ Cardinality(s) \in Nat
    BY FS_Subset, FS_CardinalityType
  <1>2. \A s \in SUBSET T : g[s] = Adds(f, s, g) /\ h[s] = Adds(f, s, h)
    BY <1>1 DEF Sums
  <1>3. 0 \in P
    <2>1. ASSUME NEW s \in SUBSET T, Cardinality(s) = 0 PROVE g[s] = h[s]
      <3>1. s = {}
        BY <1>1, <2>1, FS_EmptySet
      <3>2. QED
        BY <1>2, <3>1 DEF Adds
    <2>2. QED
      BY <2>1
  <1>4. ASSUME NEW k \in Nat, k \in P PROVE k + 1 \in P
    <2>1. ASSUME NEW s \in SUBSET T, Cardinality(s) = k + 1 PROVE g[s] = h[s]
      <3>1. s # {}
        BY <2>1, FS_EmptySet
      <3>2. First(s) \in s
        BY <3>1, FirstIsElement
      <3>3. s \ {First(s)} \in SUBSET T /\ Cardinality(s \ {First(s)}) = k
        <4>1. Cardinality(s \ {First(s)}) = Cardinality(s) - 1
          BY <1>1, <3>2, Rest
        <4>2. QED
          BY <2>1, <4>1
      <3>4. g[s \ {First(s)}] = h[s \ {First(s)}]
        BY <1>4, <3>3
      <3>5. QED
        BY <1>2, <3>4 DEF Adds
    <2>2. QED
      BY <2>1
  <1>5. Nat \subseteq P
    <2> HIDE DEF P
    <2>1. QED
      BY <1>3, <1>4, Climb
  <1>6. QED
    BY <1>1, <1>5

-----------------------------------------------------------------------------
\* What SumFunctionOnSet computes.
LEMMA SumOfNone ==
  ASSUME NEW f
  PROVE  SumFunctionOnSet(f, {}) = 0
  <1>1. PICK g : Sums(f, {}, g) /\ SumFunctionOnSet(f, {}) = g[{}]
    BY SumsOn, FS_EmptySet
  <1>2. QED
    BY <1>1 DEF Sums, Adds

LEMMA SumUnfolds ==
  ASSUME NEW f, NEW S, IsFiniteSet(S), S # {}
  PROVE  SumFunctionOnSet(f, S) = f[First(S)] + SumFunctionOnSet(f, S \ {First(S)})
  <1> DEFINE T == S \ {First(S)}
  <1>1. T \in SUBSET S /\ IsFiniteSet(T)
    BY FS_Subset
  <1>2. PICK g : Sums(f, S, g) /\ SumFunctionOnSet(f, S) = g[S]
    BY SumsOn
  <1>3. PICK h : Sums(f, T, h) /\ SumFunctionOnSet(f, T) = h[T]
    BY <1>1, SumsOn
  <1>4. g[T] = h[T]
    BY <1>1, <1>2, <1>3, SumsAgree
  <1>5. g[S] = f[First(S)] + g[T]
    BY <1>2 DEF Sums, Adds
  <1>6. QED
    BY <1>2, <1>3, <1>4, <1>5

LEMMA SumIsInteger ==
  ASSUME NEW S, IsFiniteSet(S), NEW f, \A x \in S : f[x] \in Int
  PROVE  \A T \in SUBSET S : SumFunctionOnSet(f, T) \in Int
  <1> DEFINE P == {k \in Nat : \A T \in SUBSET S : Cardinality(T) = k => SumFunctionOnSet(f, T) \in Int}
  <1>1. \A T \in SUBSET S : IsFiniteSet(T) /\ Cardinality(T) \in Nat
    BY FS_Subset, FS_CardinalityType
  <1>2. 0 \in P
    <2>1. \A T \in SUBSET S : Cardinality(T) = 0 => T = {}
      BY <1>1, FS_EmptySet
    <2>2. QED
      BY <2>1, SumOfNone
  <1>3. ASSUME NEW k \in Nat, k \in P PROVE k + 1 \in P
    <2>1. ASSUME NEW T \in SUBSET S, Cardinality(T) = k + 1 PROVE SumFunctionOnSet(f, T) \in Int
      <3>1. T # {} /\ First(T) \in T
        BY <2>1, FS_EmptySet, FirstIsElement
      <3>2. T \ {First(T)} \in SUBSET S /\ Cardinality(T \ {First(T)}) = k
        <4>1. Cardinality(T \ {First(T)}) = Cardinality(T) - 1
          BY <3>1, Rest
        <4>2. QED
          BY <2>1, <4>1
      <3>3. SumFunctionOnSet(f, T \ {First(T)}) \in Int
        BY <1>3, <3>2
      <3>4. QED
        BY <1>1, <3>1, <3>3, SumUnfolds
    <2>2. QED
      BY <2>1
  <1>4. Nat \subseteq P
    <2> HIDE DEF P
    <2>1. QED
      BY <1>2, <1>3, Climb
  <1>5. QED
    BY <1>1, <1>4

\* The order in which the elements are taken makes no difference.
LEMMA SumTakes ==
  ASSUME NEW S, IsFiniteSet(S), NEW f, \A x \in S : f[x] \in Int
  PROVE  \A T \in SUBSET S : \A x \in T :
           SumFunctionOnSet(f, T) = f[x] + SumFunctionOnSet(f, T \ {x})
  <1> DEFINE Takes(T) == \A x \in T :
                           SumFunctionOnSet(f, T) = f[x] + SumFunctionOnSet(f, T \ {x})
  <1> DEFINE P == {k \in Nat : \A T \in SUBSET S : Cardinality(T) = k => Takes(T)}
  <1>1. \A T \in SUBSET S : IsFiniteSet(T) /\ Cardinality(T) \in Nat
    BY FS_Subset, FS_CardinalityType
  <1>2. 0 \in P
    <2>1. \A T \in SUBSET S : Cardinality(T) = 0 => T = {}
      BY <1>1, FS_EmptySet
    <2>2. QED
      BY <2>1
  <1>3. ASSUME NEW k \in Nat, k \in P PROVE k + 1 \in P
    <2>1. ASSUME NEW T \in SUBSET S, Cardinality(T) = k + 1, NEW x \in T
          PROVE  SumFunctionOnSet(f, T) = f[x] + SumFunctionOnSet(f, T \ {x})
      <3> DEFINE c == First(T)
      <3>1. T # {} /\ c \in T
        BY FirstIsElement
      <3>2. SumFunctionOnSet(f, T) = f[c] + SumFunctionOnSet(f, T \ {c})
        BY <1>1, <3>1, SumUnfolds
      <3> HIDE DEF c
      <3>3. CASE c = x
        BY <3>2, <3>3
      <3>4. CASE c # x
        <4>1. \A y \in T : T \ {y} \in SUBSET S /\ Cardinality(T \ {y}) = k
          <5> TAKE y \in T
          <5>1. Cardinality(T \ {y}) = Cardinality(T) - 1
            BY Rest
          <5>2. QED
            BY <2>1, <5>1
        <4>2. SumFunctionOnSet(f, T \ {c}) = f[x] + SumFunctionOnSet(f, (T \ {c}) \ {x})
          <5>1. Takes(T \ {c})
            BY <1>3, <3>1, <4>1
          <5>2. QED
            BY <3>4, <5>1
        <4>3. SumFunctionOnSet(f, T \ {x}) = f[c] + SumFunctionOnSet(f, (T \ {x}) \ {c})
          <5>1. Takes(T \ {x})
            BY <1>3, <4>1
          <5>2. QED
            BY <3>1, <3>4, <5>1
        <4> DEFINE rest == SumFunctionOnSet(f, (T \ {x}) \ {c})
        <4>4. (T \ {c}) \ {x} = (T \ {x}) \ {c}
          OBVIOUS
        <4>5. f[x] \in Int /\ f[c] \in Int /\ rest \in Int
          BY <3>1, SumIsInteger
        <4>6. SumFunctionOnSet(f, T) = f[c] + (f[x] + rest)
          BY <3>2, <4>2, <4>4, Zenon
        <4>7. SumFunctionOnSet(f, T \ {x}) = f[c] + rest
          BY <4>3
        <4> HIDE DEF rest
        <4>8. f[c] + (f[x] + rest) = f[x] + (f[c] + rest)
          BY <4>5
        <4>9. QED
          BY <4>6, <4>7, <4>8, Zenon
      <3>5. QED
        BY <3>3, <3>4
    <2>2. QED
      BY <2>1
  <1>4. Nat \subseteq P
    <2> HIDE DEF P
    <2>1. QED
      BY <1>2, <1>3, Climb
  <1>5. QED
    BY <1>1, <1>4


\* A sum depends on the summands only.
LEMMA SumSame ==
  ASSUME NEW S, IsFiniteSet(S), NEW f, NEW g, \A x \in S : f[x] = g[x] /\ f[x] \in Int
  PROVE  \A T \in SUBSET S : SumFunctionOnSet(f, T) = SumFunctionOnSet(g, T)
  <1> DEFINE P == {k \in Nat : \A T \in SUBSET S :
                     Cardinality(T) = k => SumFunctionOnSet(f, T) = SumFunctionOnSet(g, T)}
  <1>1. \A T \in SUBSET S : IsFiniteSet(T) /\ Cardinality(T) \in Nat
    BY FS_Subset, FS_CardinalityType
  <1>2. 0 \in P
    <2>1. \A T \in SUBSET S : Cardinality(T) = 0 => T = {}
      BY <1>1, FS_EmptySet
    <2>2. QED
      BY <2>1, SumOfNone
  <1>3. ASSUME NEW k \in Nat, k \in P PROVE k + 1 \in P
    <2>1. ASSUME NEW T \in SUBSET S, Cardinality(T) = k + 1
          PROVE  SumFunctionOnSet(f, T) = SumFunctionOnSet(g, T)
      <3>1. T # {} /\ First(T) \in T
        BY <2>1, FS_EmptySet, FirstIsElement
      <3>2. T \ {First(T)} \in SUBSET S /\ Cardinality(T \ {First(T)}) = k
        <4>1. Cardinality(T \ {First(T)}) = Cardinality(T) - 1
          BY <3>1, Rest
        <4>2. QED
          BY <2>1, <4>1
      <3>3. SumFunctionOnSet(f, T \ {First(T)}) = SumFunctionOnSet(g, T \ {First(T)})
        BY <1>3, <3>2
      <3>4. f[First(T)] = g[First(T)]
        BY <3>1
      <3>5. /\ SumFunctionOnSet(f, T) = f[First(T)] + SumFunctionOnSet(f, T \ {First(T)})
            /\ SumFunctionOnSet(g, T) = g[First(T)] + SumFunctionOnSet(g, T \ {First(T)})
        BY <1>1, <3>1, SumUnfolds
      <3>6. QED
        BY <3>3, <3>4, <3>5, Zenon
    <2>2. QED
      BY <2>1
  <1>4. Nat \subseteq P
    <2> HIDE DEF P
    <2>1. QED
      BY <1>2, <1>3, Climb
  <1>5. QED
    BY <1>1, <1>4

\* One summand is changed.
LEMMA SumChanges ==
  ASSUME NEW S, IsFiniteSet(S), NEW f, NEW g, NEW x \in S,
         \A y \in S : f[y] \in Int /\ g[y] \in Int, \A y \in S \ {x} : f[y] = g[y]
  PROVE  SumFunctionOnSet(g, S) = SumFunctionOnSet(f, S) + (g[x] - f[x])
  <1> DEFINE rest == SumFunctionOnSet(f, S \ {x})
  <1>1. IsFiniteSet(S \ {x})
    BY FS_Subset
  <1>2. SumFunctionOnSet(g, S \ {x}) = rest
    BY <1>1, SumSame
  <1>3. SumFunctionOnSet(f, S) = f[x] + rest
    BY SumTakes
  <1>4. SumFunctionOnSet(g, S) = g[x] + SumFunctionOnSet(g, S \ {x})
    BY SumTakes
  <1>5. rest \in Int /\ f[x] \in Int /\ g[x] \in Int
    BY SumIsInteger
  <1> HIDE DEF rest
  <1>6. SumFunctionOnSet(g, S) = g[x] + rest
    BY <1>2, <1>4
  <1>7. QED
    BY <1>3, <1>5, <1>6

\* Nothing is added up to nothing.
LEMMA SumOfZeros ==
  ASSUME NEW S, IsFiniteSet(S), NEW f, \A x \in S : f[x] = 0
  PROVE  \A T \in SUBSET S : SumFunctionOnSet(f, T) = 0
  <1> DEFINE P == {k \in Nat : \A T \in SUBSET S : Cardinality(T) = k => SumFunctionOnSet(f, T) = 0}
  <1>1. \A T \in SUBSET S : IsFiniteSet(T) /\ Cardinality(T) \in Nat
    BY FS_Subset, FS_CardinalityType
  <1>2. 0 \in P
    <2>1. \A T \in SUBSET S : Cardinality(T) = 0 => T = {}
      BY <1>1, FS_EmptySet
    <2>2. QED
      BY <2>1, SumOfNone
  <1>3. ASSUME NEW k \in Nat, k \in P PROVE k + 1 \in P
    <2>1. ASSUME NEW T \in SUBSET S, Cardinality(T) = k + 1 PROVE SumFunctionOnSet(f, T) = 0
      <3>1. T # {} /\ First(T) \in T
        BY <2>1, FS_EmptySet, FirstIsElement
      <3>2. T \ {First(T)} \in SUBSET S /\ Cardinality(T \ {First(T)}) = k
        <4>1. Cardinality(T \ {First(T)}) = Cardinality(T) - 1
          BY <3>1, Rest
        <4>2. QED
          BY <2>1, <4>1
      <3>3. SumFunctionOnSet(f, T \ {First(T)}) = 0 /\ f[First(T)] = 0
        BY <1>3, <3>1, <3>2
      <3>4. SumFunctionOnSet(f, T) = f[First(T)] + SumFunctionOnSet(f, T \ {First(T)})
        BY <1>1, <3>1, SumUnfolds
      <3>5. QED
        BY <3>3, <3>4
    <2>2. QED
      BY <2>1
  <1>4. Nat \subseteq P
    <2> HIDE DEF P
    <2>1. QED
      BY <1>2, <1>3, Climb
  <1>5. QED
    BY <1>1, <1>4

\* A sum of natural numbers is at least each of them.
LEMMA SumCovers ==
  ASSUME NEW S, IsFiniteSet(S), NEW f, \A x \in S : f[x] \in Nat
  PROVE  /\ \A T \in SUBSET S : SumFunctionOnSet(f, T) \in Nat
         /\ \A x \in S : f[x] <= SumFunctionOnSet(f, S)
  <1> DEFINE P == {k \in Nat : \A T \in SUBSET S : Cardinality(T) = k => SumFunctionOnSet(f, T) \in Nat}
  <1>1. \A T \in SUBSET S : IsFiniteSet(T) /\ Cardinality(T) \in Nat
    BY FS_Subset, FS_CardinalityType
  <1>2. 0 \in P
    <2>1. \A T \in SUBSET S : Cardinality(T) = 0 => T = {}
      BY <1>1, FS_EmptySet
    <2>2. QED
      BY <2>1, SumOfNone
  <1>3. ASSUME NEW k \in Nat, k \in P PROVE k + 1 \in P
    <2>1. ASSUME NEW T \in SUBSET S, Cardinality(T) = k + 1 PROVE SumFunctionOnSet(f, T) \in Nat
      <3>1. T # {} /\ First(T) \in T
        BY <2>1, FS_EmptySet, FirstIsElement
      <3>2. T \ {First(T)} \in SUBSET S /\ Cardinality(T \ {First(T)}) = k
        <4>1. Cardinality(T \ {First(T)}) = Cardinality(T) - 1
          BY <3>1, Rest
        <4>2. QED
          BY <2>1, <4>1
      <3>3. SumFunctionOnSet(f, T \ {First(T)}) \in Nat /\ f[First(T)] \in Nat
        BY <1>3, <3>1, <3>2
      <3>4. SumFunctionOnSet(f, T) = f[First(T)] + SumFunctionOnSet(f, T \ {First(T)})
        BY <1>1, <3>1, SumUnfolds
      <3>5. QED
        BY <3>3, <3>4
    <2>2. QED
      BY <2>1
  <1>4. Nat \subseteq P
    <2> HIDE DEF P
    <2>1. QED
      BY <1>2, <1>3, Climb
  <1>5. \A T \in SUBSET S : SumFunctionOnSet(f, T) \in Nat
    BY <1>1, <1>4
  <1>6. ASSUME NEW x \in S PROVE f[x] <= SumFunctionOnSet(f, S)
    <2> DEFINE rest == SumFunctionOnSet(f, S \ {x})
    <2>1. SumFunctionOnSet(f, S) = f[x] + rest
      BY SumTakes
    <2>2. rest \in Nat /\ f[x] \in Nat
      BY <1>5
    <2> HIDE DEF rest
    <2>3. QED
      BY <2>1, <2>2
  <1>7. QED
    BY <1>5, <1>6

-----------------------------------------------------------------------------
LEMMA RowAppended ==
  ASSUME NEW s, s \in Seq({s[n] : n \in DOMAIN s}), NEW r
  PROVE  LET t == Append(s, r)
         IN  /\ t \in Seq({t[n] : n \in DOMAIN t})
             /\ Len(s) \in Nat /\ DOMAIN s = 1..Len(s)
             /\ DOMAIN t = DOMAIN s \cup {Len(s) + 1} /\ t[Len(s) + 1] = r
             /\ \A n \in DOMAIN s : t[n] = s[n] /\ n # Len(s) + 1
  <1> DEFINE S == {s[n] : n \in DOMAIN s} \cup {r}
             t == Append(s, r)
  <1>1. s \in Seq(S) /\ r \in S
    BY SeqMonotonic
  <1>2. /\ t \in Seq(S) /\ Len(t) = Len(s) + 1 /\ t[Len(s) + 1] = r
        /\ \A n \in 1..Len(s) : t[n] = s[n]
    BY <1>1, AppendProperties
  <1>3. Len(s) \in Nat /\ DOMAIN s = 1..Len(s) /\ DOMAIN t = 1..Len(t)
    BY <1>1, <1>2
  <1> HIDE DEF t, S
  <1>4. \A n \in DOMAIN t : t[n] \in {t[m] : m \in DOMAIN t}
    OBVIOUS
  <1>5. t \in Seq({t[n] : n \in DOMAIN t})
    BY <1>2, <1>4, SeqDef
  <1>6. QED
    BY <1>2, <1>3, <1>5 DEF t

LEMMA RowChanged ==
  ASSUME NEW s, s \in Seq({s[n] : n \in DOMAIN s}), NEW k \in DOMAIN s, NEW r
  PROVE  LET t == [s EXCEPT ![k] = r]
         IN  /\ t \in Seq({t[n] : n \in DOMAIN t})
             /\ DOMAIN t = DOMAIN s /\ Len(t) = Len(s)
             /\ \A n \in DOMAIN s : t[n] = IF n = k THEN r ELSE s[n]
  <1> DEFINE S == {s[n] : n \in DOMAIN s} \cup {r}
             t == [s EXCEPT ![k] = r]
  <1>1. s \in Seq(S) /\ r \in S
    BY SeqMonotonic
  <1>2. t \in Seq(S) /\ Len(t) = Len(s) /\ DOMAIN t = DOMAIN s /\ DOMAIN s = 1..Len(s) /\ Len(s) \in Nat
    BY <1>1
  <1>3. DOMAIN t = 1..Len(t)
    BY <1>2
  <1>4. \A n \in DOMAIN s : t[n] = IF n = k THEN r ELSE s[n]
    OBVIOUS
  <1> HIDE DEF t, S
  <1>5. \A n \in DOMAIN t : t[n] \in {t[m] : m \in DOMAIN t}
    OBVIOUS
  <1>6. t \in Seq({t[n] : n \in DOMAIN t})
    <2>1. t \in [1..Len(t) -> {t[n] : n \in DOMAIN t}] /\ Len(t) \in Nat
      BY <1>2, <1>3, <1>5
    <2>2. QED
      BY <2>1, SeqDef
  <1>7. QED
    BY <1>2, <1>4, <1>6 DEF t

LEMMA OneRow ==
  ASSUME NEW s, s \in Seq({s[n] : n \in DOMAIN s})
  PROVE  DOMAIN s = 1..Len(s) /\ Len(s) \in Nat /\ (Len(s) = 1 => DOMAIN s = {1})
  <1> DEFINE S == {s[n] : n \in DOMAIN s}
  <1>1. s \in Seq(S)
    OBVIOUS
  <1> HIDE DEF S
  <1>2. DOMAIN s = 1..Len(s) /\ Len(s) \in Nat
    BY <1>1
  <1>3. \A n : n \in 1..1 <=> n \in {1}
    OBVIOUS
  <1>4. QED
    BY <1>2, <1>3

-----------------------------------------------------------------------------
\* The sequence of no elements, and that of one.
LEMMA NoneInSequence ==
  SetToSeq({}) = <<>>
  <1>1. Cardinality({}) = 0
    BY FS_EmptySet
  <1>2. \A f \in [1..0 -> {}] : f = <<>>
    OBVIOUS
  <1>3. <<>> \in [1..0 -> {}] /\ IsInjective(<<>>)
    BY DEF IsInjective
  <1>4. QED
    BY <1>1, <1>2, <1>3 DEF SetToSeq

LEMMA OneInSequence ==
  ASSUME NEW x
  PROVE  SetToSeq({x}) = <<x>>
  <1>1. Cardinality({x}) = 1
    BY FS_Singleton
  <1>2. \A f \in [1..1 -> {x}] : f = <<x>>
    OBVIOUS
  <1>3. <<x>> \in [1..1 -> {x}] /\ IsInjective(<<x>>)
    BY DEF IsInjective
  <1>4. QED
    BY <1>1, <1>2, <1>3 DEF SetToSeq

\* Every finite set is the range of its sequence.
LEMMA SetInSequence ==
  ASSUME NEW S, IsFiniteSet(S)
  PROVE  /\ SetToSeq(S) \in Seq(S)
         /\ \A x \in S : \E n \in DOMAIN SetToSeq(S) : SetToSeq(S)[n] = x
  <1>1. PICK f : f \in Bijection(1..Cardinality(S), S)
    BY FS_CardinalityType DEF ExistsBijection
  <1>2. Cardinality(S) \in Nat
    BY FS_CardinalityType
  <1>3. f \in [1..Cardinality(S) -> S] /\ IsInjective(f)
    BY <1>1 DEF Bijection, Injection
  <1> DEFINE seq == SetToSeq(S)
  <1>4. seq \in [1..Cardinality(S) -> S] /\ IsInjective(seq)
    BY <1>3, Zenon DEF SetToSeq
  <1> HIDE DEF seq
  <1>5. seq \in Seq(S)
    BY <1>2, <1>4, SeqDef
  <1>6. seq \in Injection(1..Cardinality(S), S)
    BY <1>4, Zenon DEF Injection, IsInjective
  <1>7. IsFiniteSet(1..Cardinality(S)) /\ Cardinality(1..Cardinality(S)) = Cardinality(S)
    BY <1>2, FS_Interval
  <1>8. seq \in Surjection(1..Cardinality(S), S)
    BY <1>6, <1>7, FS_Injection
  <1>9. \A x \in S : \E n \in DOMAIN seq : seq[n] = x
    BY <1>4, <1>8 DEF Surjection
  <1>10. QED
    BY <1>5, <1>9 DEF seq

\* The smaller of two numbers.
LEMMA MinOfTwo ==
  ASSUME NEW a \in Int, NEW b \in Int
  PROVE  /\ a <= b => Min({a, b}) = a
         /\ b <= a => Min({a, b}) = b
  <1>1. ASSUME NEW x \in {a, b}, NEW y \in {a, b}, \A z \in {a, b} : x <= z, \A z \in {a, b} : y <= z
        PROVE  x = y
    <2>1. x <= y /\ y <= x /\ x \in Int /\ y \in Int
      BY <1>1
    <2>2. QED
      BY <2>1
  <1>2. \E x \in {a, b} : \A z \in {a, b} : x <= z
    <2>1. CASE a <= b
      BY <2>1
    <2>2. CASE b <= a
      BY <2>2
    <2>3. QED
      BY <2>1, <2>2
  <1>3. Min({a, b}) \in {a, b} /\ \A z \in {a, b} : Min({a, b}) <= z
    BY <1>2, Zenon DEF Min
  <1>4. QED
    BY <1>3

\* The sum over 1..n takes its last term.
LEMMA SumOfFirst ==
  ASSUME NEW f, NEW m \in Nat, \A k \in 1..m : f[k] \in Int, NEW n \in 1..m
  PROVE  SumFunctionOnSet(f, 1..n) = f[n] + SumFunctionOnSet(f, 1..(n - 1))
  <1>0. PICK S, T, x : S = 1..m /\ T = 1..n /\ x = n
    OBVIOUS
  <1>1. n \in Int /\ n >= 1 /\ n <= m
    OBVIOUS
  <1>2. T \ {x} = 1..(n - 1)
    BY <1>0, <1>1
  <1>3. IsFiniteSet(S)
    BY <1>0, FS_Interval
  <1>4. T \in SUBSET S /\ x \in T
    BY <1>0, <1>1
  <1>5. \A k \in S : f[k] \in Int
    BY <1>0
  <1>6. SumFunctionOnSet(f, T) = f[x] + SumFunctionOnSet(f, T \ {x})
    BY ONLY <1>3, <1>4, <1>5, SumTakes
  <1>7. SumFunctionOnSet(f, 1..n) = f[n] + SumFunctionOnSet(f, 1..(n - 1))
    BY <1>0, <1>2, <1>6
  <1>8. QED
    BY <1>7
=============================================================================
