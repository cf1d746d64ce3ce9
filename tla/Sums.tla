-------------------------------- MODULE Sums --------------------------------
(***************************************************************************)
(* What the sum of a function over a finite set (SumFunctionOnSet of        *)
(* Functions) is: lemmas the ledgers' proofs rest on.  The code sums its    *)
(* accounts by venue and by outcome; every balance it keeps moves one entry *)
(* at a time, so the facts wanted are what one entry does to a sum; and its *)
(* reports add up the same legs by ticket, by venue and by league, so those *)
(* of a sum taken in parts.                                                 *)
(*                                                                          *)
(* The induction theorems of the library take an operator as a parameter;   *)
(* here the induction is over a set instead: the numbers, or the subsets,   *)
(* for which the formula holds.                                             *)
(***************************************************************************)
EXTENDS Integers, FiniteSets, Functions, TLAPS, FiniteSetTheorems, WellFoundedInduction

-----------------------------------------------------------------------------
(* Induction over a set of numbers, and over the subsets of a finite set.   *)

\* A set that has 0, and the successor of every number it has, has them all.
LEMMA NatSetInduction ==
  ASSUME NEW P, 0 \in P, \A n \in Nat : n \in P => n + 1 \in P
  PROVE  Nat \subseteq P
<1>1. SUFFICES ASSUME Nat \ P # {} PROVE FALSE
  OBVIOUS
<1>2. \E m \in Nat \ P : \A y \in Nat \ P : ~ (<<y, m>> \in OpToRel(<, Nat))
  BY <1>1, NatLessThanWellFounded, WFMin
<1>3. \A y, m \in Nat : y < m => <<y, m>> \in OpToRel(<, Nat)
  BY Zenon DEF OpToRel
<1>4. \E m \in Nat \ P : \A y \in Nat \ P : ~ (y < m)
  BY <1>2, <1>3, Zenon
<1>5. \A m \in Nat \ P : m - 1 \in Nat \ P
  OBVIOUS
<1> QED
  BY <1>4, <1>5

\* A family of subsets of S that has the empty one, and every one of its
\* members with an element of S added, has S.
LEMMA FiniteInduction ==
  ASSUME NEW S, IsFiniteSet(S), NEW P, {} \in P,
         \A T \in SUBSET S, x \in S : T \in P /\ x \notin T => T \cup {x} \in P
  PROVE  S \in P
<1> DEFINE Q == {n \in Nat : \A T \in SUBSET S : Cardinality(T) = n => T \in P}
<1>1. \A T \in SUBSET S : IsFiniteSet(T) /\ Cardinality(T) \in Nat
  BY FS_Subset, FS_CardinalityType
<1>2. 0 \in Q
  <2>1. \A T \in SUBSET S : Cardinality(T) = 0 => T = {}
    BY <1>1, FS_EmptySet
  <2> QED BY <2>1
<1>3. ASSUME NEW n \in Nat, n \in Q
      PROVE  n + 1 \in Q
  <2> SUFFICES ASSUME NEW T \in SUBSET S, Cardinality(T) = n + 1
               PROVE  T \in P
    OBVIOUS
  <2>1. T # {}
    <3>1. n + 1 # 0
      OBVIOUS
    <3> QED BY <3>1, FS_EmptySet, Zenon
  <2>2. PICK x \in T : TRUE
    BY <2>1
  <2> DEFINE R == T \ {x}
  <2>3. R \in SUBSET S /\ x \in S /\ x \notin R /\ T = R \cup {x}
    OBVIOUS
  <2>4. Cardinality(R) = Cardinality(T) - 1
    BY <1>1, FS_RemoveElement
  <2> HIDE DEF R
  <2>5. Cardinality(R) = n
    BY <2>4
  <2>6. R \in P
    BY <1>3, <2>3, <2>5
  <2> QED BY <2>3, <2>6
<1> HIDE DEF Q
<1>4. Nat \subseteq Q
  BY <1>2, <1>3, NatSetInduction
<1> QED BY <1>1, <1>4 DEF Q

-----------------------------------------------------------------------------
(* The recursive function the library's definition chooses exists, is       *)
(* unique, and gives the sum.                                               *)

\* The element the library takes out of s first.
Chosen(s) == CHOOSE x \in s : TRUE

\* g adds up f over the sets of D: the library's recursive function, as an
\* equation.
Body(f, g, s) == IF s = {} THEN 0 ELSE f[Chosen(s)] + g[s \ {Chosen(s)}]
Adds(f, g, D) == g = [s \in D |-> Body(f, g, s)]

UpTo(S, n) == {s \in SUBSET S : Cardinality(s) <= n}

\* Taking the chosen element out leaves a smaller subset.
LEMMA SubUpTo ==
  ASSUME NEW S, IsFiniteSet(S), NEW n \in Nat, NEW s \in UpTo(S, n + 1), s # {}
  PROVE  s \ {Chosen(s)} \in UpTo(S, n)
<1>1. Chosen(s) \in s
  BY DEF Chosen
<1>2. IsFiniteSet(s) /\ s \subseteq S /\ Cardinality(s) <= n + 1 /\ Cardinality(s) \in Nat
  BY FS_Subset, FS_CardinalityType DEF UpTo
<1>3. Cardinality(s \ {Chosen(s)}) = Cardinality(s) - 1
  BY <1>1, <1>2, FS_RemoveElement
<1> QED
  BY <1>2, <1>3 DEF UpTo

\* There is such a function over the subsets of a finite set.
LEMMA AddsExists ==
  ASSUME NEW S, IsFiniteSet(S), NEW f
  PROVE  \E g : Adds(f, g, SUBSET S)
<1> DEFINE P == {n \in Nat : \E g : Adds(f, g, UpTo(S, n))}
<1>1. 0 \in P
  <2> DEFINE g == [s \in UpTo(S, 0) |-> 0]
  <2>1. \A s \in UpTo(S, 0) : s = {}
    BY FS_Subset, FS_CardinalityType, FS_EmptySet DEF UpTo
  <2>2. Adds(f, g, UpTo(S, 0))
    BY <2>1 DEF Adds, Body
  <2> QED
    BY <2>2
<1>2. ASSUME NEW n \in Nat, n \in P
      PROVE  n + 1 \in P
  <2>1. PICK g : Adds(f, g, UpTo(S, n))
    BY <1>2
  <2> DEFINE h == [s \in UpTo(S, n + 1) |-> Body(f, g, s)]
  <2>2. UpTo(S, n) \subseteq UpTo(S, n + 1)
    BY FS_Subset, FS_CardinalityType DEF UpTo
  <2>3. \A t \in UpTo(S, n) : h[t] = g[t]
    BY <2>1, <2>2 DEF Adds
  <2>4. \A s \in UpTo(S, n + 1) : Body(f, h, s) = Body(f, g, s)
    <3> HIDE DEF h
    <3> QED
    BY <2>3, SubUpTo DEF Body
  <2>5. Adds(f, h, UpTo(S, n + 1))
    BY <2>4 DEF Adds
  <2>6. n + 1 \in Nat
    OBVIOUS
  <2> HIDE DEF h
  <2> QED
    BY <2>5, <2>6
<1> HIDE DEF P
<1>3. Cardinality(S) \in P
  BY <1>1, <1>2, NatSetInduction, FS_CardinalityType
<1>4. UpTo(S, Cardinality(S)) = SUBSET S
  BY FS_Subset DEF UpTo
<1> QED
  BY <1>3, <1>4 DEF P

\* The library's sum is its value at the whole set.
LEMMA SumIs ==
  ASSUME NEW S, IsFiniteSet(S), NEW f
  PROVE  \E g : Adds(f, g, SUBSET S) /\ SumFunctionOnSet(f, S) = g[S]
<1> DEFINE G == CHOOSE g : Adds(f, g, SUBSET S)
<1>1. Adds(f, G, SUBSET S)
  BY AddsExists
<1>2. SumFunctionOnSet(f, S) = G[S]
  BY DEF SumFunctionOnSet, FoldFunctionOnSet, MapThenFoldSet, Adds, Body, Chosen
<1> QED
  BY <1>1, <1>2

\* Two of them agree on the subsets they share.
LEMMA SameSums ==
  ASSUME NEW S, IsFiniteSet(S), NEW f, NEW g, NEW T, T \subseteq S, NEW h,
         Adds(f, g, SUBSET S), Adds(f, h, SUBSET T)
  PROVE  \A s \in SUBSET T : g[s] = h[s]
<1> DEFINE P == {n \in Nat : \A s \in SUBSET T : Cardinality(s) = n => g[s] = h[s]}
<1>1. \A s \in SUBSET T : IsFiniteSet(s) /\ Cardinality(s) \in Nat /\ s \in SUBSET S
  BY FS_Subset, FS_CardinalityType
<1>2. \A s \in SUBSET T : g[s] = Body(f, g, s) /\ h[s] = Body(f, h, s)
  BY <1>1 DEF Adds
<1>3. 0 \in P
  <2>1. \A s \in SUBSET T : Cardinality(s) = 0 => s = {}
    BY <1>1, FS_EmptySet
  <2> QED BY <1>2, <2>1 DEF Body
<1>4. ASSUME NEW n \in Nat, n \in P
      PROVE  n + 1 \in P
  <2> SUFFICES ASSUME NEW s \in SUBSET T, Cardinality(s) = n + 1
               PROVE  g[s] = h[s]
    OBVIOUS
  <2>1. s # {}
    <3>1. n + 1 # 0
      OBVIOUS
    <3> QED BY <3>1, FS_EmptySet, Zenon
  <2>2. Chosen(s) \in s
    BY <2>1 DEF Chosen
  <2>3. Cardinality(s \ {Chosen(s)}) = n /\ s \ {Chosen(s)} \in SUBSET T
    BY <1>1, <2>2, FS_RemoveElement
  <2>4. g[s \ {Chosen(s)}] = h[s \ {Chosen(s)}]
    BY <1>4, <2>3
  <2> QED BY <1>2, <2>1, <2>4 DEF Body
<1> HIDE DEF P
<1>5. Nat \subseteq P
  BY <1>3, <1>4, NatSetInduction
<1> QED BY <1>1, <1>5 DEF P

-----------------------------------------------------------------------------
(* Sums.                                                                    *)

\* Nothing sums to zero.
LEMMA SumEmpty ==
  ASSUME NEW f
  PROVE  SumFunctionOnSet(f, {}) = 0
<1>1. IsFiniteSet({})
  BY FS_EmptySet
<1>2. PICK g : Adds(f, g, SUBSET {}) /\ SumFunctionOnSet(f, {}) = g[{}]
  BY <1>1, SumIs
<1> QED BY <1>2 DEF Adds, Body

\* A sum is the chosen element's value and the sum of the rest.
LEMMA SumChosen ==
  ASSUME NEW S, IsFiniteSet(S), NEW f, S # {}
  PROVE  /\ Chosen(S) \in S
         /\ SumFunctionOnSet(f, S)
              = f[Chosen(S)] + SumFunctionOnSet(f, S \ {Chosen(S)})
<1> DEFINE T == S \ {Chosen(S)}
<1>1. Chosen(S) \in S
  BY DEF Chosen
<1>2. IsFiniteSet(T) /\ T \subseteq S
  BY FS_Subset
<1>3. PICK g : Adds(f, g, SUBSET S) /\ SumFunctionOnSet(f, S) = g[S]
  BY SumIs
<1> HIDE DEF T
<1>4. PICK h : Adds(f, h, SUBSET T) /\ SumFunctionOnSet(f, T) = h[T]
  BY <1>2, SumIs
<1>5. g[T] = h[T]
  BY <1>2, <1>3, <1>4, SameSums
<1>6. g[S] = f[Chosen(S)] + g[T]
  BY <1>3 DEF Adds, Body, T
<1> QED BY <1>1, <1>3, <1>4, <1>5, <1>6 DEF T

\* A sum of integers is an integer: any element's value and the sum of the rest.
LEMMA SumSplit ==
  ASSUME NEW S, IsFiniteSet(S), NEW f, \A x \in S : f[x] \in Int
  PROVE  /\ SumFunctionOnSet(f, S) \in Int
         /\ \A x \in S : SumFunctionOnSet(f, S) = f[x] + SumFunctionOnSet(f, S \ {x})
<1> DEFINE Sum(s) == SumFunctionOnSet(f, s)
           Splits(s) == Sum(s) \in Int /\ \A x \in s : Sum(s) = f[x] + Sum(s \ {x})
           P == {n \in Nat : \A s \in SUBSET S : Cardinality(s) <= n => Splits(s)}
<1>1. \A s \in SUBSET S : IsFiniteSet(s) /\ Cardinality(s) \in Nat
  BY FS_Subset, FS_CardinalityType
<1>2. 0 \in P
  <2>1. \A s \in SUBSET S : Cardinality(s) <= 0 => s = {}
    BY <1>1, FS_EmptySet
  <2>2. Splits({})
    BY SumEmpty
  <2> QED BY <2>1, <2>2
<1>3. ASSUME NEW n \in Nat, n \in P
      PROVE  n + 1 \in P
  <2> SUFFICES ASSUME NEW s \in SUBSET S, Cardinality(s) = n + 1
               PROVE  Splits(s)
    BY <1>1, <1>3
  <2> DEFINE c == Chosen(s)
  <2>1. IsFiniteSet(s) /\ s # {}
    BY <1>1, FS_EmptySet
  <2>2. c \in s /\ Sum(s) = f[c] + Sum(s \ {c})
    BY <2>1, SumChosen
  <2> HIDE DEF c, Sum
  <2>3. ASSUME NEW x \in s
        PROVE  s \ {x} \in SUBSET S /\ IsFiniteSet(s \ {x}) /\ Cardinality(s \ {x}) = n
    <3> DEFINE t == s \ {x}
    <3>1. IsFiniteSet(t) /\ Cardinality(t) = Cardinality(s) - 1
      BY <2>1, FS_RemoveElement
    <3>2. t \in SUBSET S
      OBVIOUS
    <3> HIDE DEF t
    <3>3. Cardinality(t) = n
      BY <3>1
    <3> QED BY <3>1, <3>2, <3>3 DEF t
  <2>4. ASSUME NEW x \in s
        PROVE  Splits(s \ {x}) /\ f[x] \in Int
    <3>1. n <= n
      OBVIOUS
    <3> QED BY <1>3, <2>3, <3>1
  <2>5. Sum(s) \in Int
    BY <2>2, <2>4
  <2>6. ASSUME NEW x \in s
        PROVE  Sum(s) = f[x] + Sum(s \ {x})
    <3>1. CASE x = c
      BY <2>2, <3>1
    <3>2. CASE x # c
      <4> DEFINE r == (s \ {c}) \ {x}
      <4>1. r = (s \ {x}) \ {c} /\ x \in s \ {c} /\ c \in s \ {x}
        BY <2>2, <3>2
      <4>2. Sum(s \ {c}) = f[x] + Sum(r)
        BY <2>2, <2>4, <4>1
      <4>3. Sum(s \ {x}) = f[c] + Sum(r)
        BY <2>4, <4>1
      <4>4. Sum(s \ {x}) \in Int /\ Sum(s \ {c}) \in Int /\ f[x] \in Int /\ f[c] \in Int
        BY <2>2, <2>4
      <4>5. Sum(r) \in Int
        <5>1. IsFiniteSet(s \ {c}) /\ Cardinality(s \ {c}) = n /\ x \in s \ {c}
          BY <2>2, <2>3, <4>1
        <5>2. Cardinality(r) = n - 1 /\ r \in SUBSET S
          BY <5>1, FS_RemoveElement
        <5> QED BY <1>3, <5>2
      <4> HIDE DEF r
      <4> QED BY <2>2, <4>2, <4>3, <4>4, <4>5
    <3> QED BY <3>1, <3>2
  <2> QED BY <2>5, <2>6
<1> HIDE DEF P
<1>4. Nat \subseteq P
  BY <1>2, <1>3, NatSetInduction
<1>5. Splits(S)
  BY <1>1, <1>4 DEF P
<1> QED BY <1>5

\* One element more adds its value.
LEMMA SumAdd ==
  ASSUME NEW S, IsFiniteSet(S), NEW f, \A y \in S : f[y] \in Int,
         NEW T \in SUBSET S, NEW x \in S, x \notin T
  PROVE  /\ SumFunctionOnSet(f, T) \in Int
         /\ SumFunctionOnSet(f, T \cup {x}) = f[x] + SumFunctionOnSet(f, T)
<1>1. IsFiniteSet(T) /\ IsFiniteSet(T \cup {x})
  BY FS_Subset
<1>2. (T \cup {x}) \ {x} = T /\ x \in T \cup {x}
  OBVIOUS
<1>3. \A y \in T \cup {x} : f[y] \in Int
  OBVIOUS
<1>4. SumFunctionOnSet(f, T \cup {x}) = f[x] + SumFunctionOnSet(f, (T \cup {x}) \ {x})
  BY <1>1, <1>2, <1>3, SumSplit
<1> QED BY <1>1, <1>2, <1>4, SumSplit

\* Functions equal on S have equal sums over it.
LEMMA SumSame ==
  ASSUME NEW S, IsFiniteSet(S), NEW f, NEW g,
         \A x \in S : f[x] \in Int /\ f[x] = g[x]
  PROVE  SumFunctionOnSet(f, S) = SumFunctionOnSet(g, S)
<1> DEFINE P == {T \in SUBSET S : SumFunctionOnSet(f, T) = SumFunctionOnSet(g, T)}
<1>1. {} \in P
  BY SumEmpty
<1>2. ASSUME NEW T \in SUBSET S, NEW x \in S, T \in P, x \notin T
      PROVE  T \cup {x} \in P
  <2>1. \A y \in S : f[y] \in Int /\ g[y] \in Int
    OBVIOUS
  <2>2. SumFunctionOnSet(f, T \cup {x}) = f[x] + SumFunctionOnSet(f, T)
    BY <1>2, <2>1, SumAdd
  <2>3. SumFunctionOnSet(g, T \cup {x}) = g[x] + SumFunctionOnSet(g, T)
    BY <1>2, <2>1, SumAdd
  <2> QED BY <1>2, <2>2, <2>3
<1> HIDE DEF P
<1>3. S \in P
  BY <1>1, <1>2, FiniteInduction
<1> QED BY <1>3 DEF P

\* The sum of a constant.
LEMMA SumConstant ==
  ASSUME NEW S, IsFiniteSet(S), NEW f, NEW k \in Int, \A x \in S : f[x] = k
  PROVE  SumFunctionOnSet(f, S) = k * Cardinality(S)
<1> DEFINE P == {T \in SUBSET S : SumFunctionOnSet(f, T) = k * Cardinality(T)}
<1>1. {} \in P
  BY SumEmpty, FS_EmptySet
<1>2. ASSUME NEW T \in SUBSET S, NEW x \in S, T \in P, x \notin T
      PROVE  T \cup {x} \in P
  <2>1. SumFunctionOnSet(f, T \cup {x}) = k + SumFunctionOnSet(f, T)
    BY <1>2, SumAdd
  <2>2. IsFiniteSet(T)
    BY FS_Subset
  <2>3. Cardinality(T) \in Nat /\ Cardinality(T \cup {x}) = Cardinality(T) + 1
    BY <1>2, <2>2, FS_AddElement, FS_CardinalityType
  <2>4. \A c \in Nat : k + k * c = k * (c + 1)
    OBVIOUS
  <2>5. k + k * Cardinality(T) = k * (Cardinality(T) + 1)
    BY <2>3, <2>4
  <2> QED BY <1>2, <2>1, <2>3, <2>5
<1> HIDE DEF P
<1>3. S \in P
  BY <1>1, <1>2, FiniteInduction
<1> QED BY <1>3 DEF P

\* A function changed at one element changes its sum by as much (how a fill, a
\* settlement or a transfer moves a balance).
LEMMA SumUpdate ==
  ASSUME NEW S, IsFiniteSet(S), NEW f, NEW g, NEW x \in S,
         \A y \in S : f[y] \in Int /\ g[y] \in Int,
         \A y \in S \ {x} : g[y] = f[y]
  PROVE  /\ SumFunctionOnSet(f, S) \in Int /\ SumFunctionOnSet(g, S) \in Int
         /\ SumFunctionOnSet(g, S) = SumFunctionOnSet(f, S) + (g[x] - f[x])
<1>1. IsFiniteSet(S \ {x})
  BY FS_Subset
<1>2. SumFunctionOnSet(f, S \ {x}) = SumFunctionOnSet(g, S \ {x})
  BY <1>1, SumSame
<1>3. /\ SumFunctionOnSet(f, S) = f[x] + SumFunctionOnSet(f, S \ {x})
      /\ SumFunctionOnSet(g, S) = g[x] + SumFunctionOnSet(g, S \ {x})
      /\ SumFunctionOnSet(f, S) \in Int /\ SumFunctionOnSet(g, S) \in Int
  BY SumSplit
<1>4. SumFunctionOnSet(f, S \ {x}) \in Int
  BY <1>1, SumSplit
<1> QED BY <1>2, <1>3, <1>4

\* A set is added up by parts.
LEMMA SumUnion ==
  ASSUME NEW S, IsFiniteSet(S), NEW f, \A x \in S : f[x] \in Int,
         NEW A \in SUBSET S, NEW B \in SUBSET S, A \cap B = {}
  PROVE  SumFunctionOnSet(f, A \cup B) = SumFunctionOnSet(f, A) + SumFunctionOnSet(f, B)
<1> DEFINE P == {T \in SUBSET B : SumFunctionOnSet(f, A \cup T)
                                    = SumFunctionOnSet(f, A) + SumFunctionOnSet(f, T)}
<1>1. IsFiniteSet(A) /\ IsFiniteSet(B)
  BY FS_Subset
<1>2. \A T \in SUBSET S : SumFunctionOnSet(f, T) \in Int
  <2> TAKE T \in SUBSET S
  <2>1. IsFiniteSet(T)
    BY FS_Subset
  <2> QED BY <2>1, SumSplit
<1>3. {} \in P
  <2>1. A \cup {} = A
    OBVIOUS
  <2> QED BY <1>2, <2>1, SumEmpty
<1>4. ASSUME NEW T \in SUBSET B, NEW x \in B, T \in P, x \notin T
      PROVE  T \cup {x} \in P
  <2>1. /\ A \cup (T \cup {x}) = (A \cup T) \cup {x}
        /\ x \notin A \cup T /\ A \cup T \in SUBSET S /\ T \in SUBSET S /\ x \in S
    BY <1>4
  <2>2. SumFunctionOnSet(f, T \cup {x}) = f[x] + SumFunctionOnSet(f, T)
    BY <1>4, <2>1, SumAdd
  <2> DEFINE C == A \cup T
  <2>3. SumFunctionOnSet(f, C \cup {x}) = f[x] + SumFunctionOnSet(f, C)
    <3>1. x \notin C /\ C \in SUBSET S /\ x \in S
      BY <2>1
    <3> HIDE DEF C, P
    <3> QED BY <3>1, SumAdd
  <2>4. SumFunctionOnSet(f, C) = SumFunctionOnSet(f, A) + SumFunctionOnSet(f, T)
    BY <1>4
  <2>5. f[x] \in Int /\ SumFunctionOnSet(f, A) \in Int /\ SumFunctionOnSet(f, T) \in Int
    BY <1>2, <2>1
  <2> DEFINE D == A \cup (T \cup {x})
  <2>6. D = C \cup {x}
    BY <2>1
  <2> HIDE DEF C, D
  <2>7. SumFunctionOnSet(f, D) = SumFunctionOnSet(f, A) + SumFunctionOnSet(f, T \cup {x})
    BY <2>2, <2>3, <2>4, <2>5, <2>6
  <2> QED BY <2>7 DEF D
<1> HIDE DEF P
<1>5. B \in P
  BY <1>1, <1>3, <1>4, FiniteInduction
<1> QED BY <1>5 DEF P

\* The same of all functions.
LEMMA AddToAny ==
  ASSUME NEW S, IsFiniteSet(S), NEW T \in SUBSET S, NEW x \in S, x \notin T
  PROVE  \A q : (\A y \in S : q[y] \in Int) =>
           /\ SumFunctionOnSet(q, T) \in Int
           /\ SumFunctionOnSet(q, T \cup {x}) = q[x] + SumFunctionOnSet(q, T)
<1>1. SUFFICES ASSUME NEW q, \A y \in S : q[y] \in Int
               PROVE  /\ SumFunctionOnSet(q, T) \in Int
                      /\ SumFunctionOnSet(q, T \cup {x}) = q[x] + SumFunctionOnSet(q, T)
  OBVIOUS
<1> QED BY <1>1, SumAdd

\* The sum of a sum.
LEMMA SumPlus ==
  ASSUME NEW S, IsFiniteSet(S), NEW f, NEW g, NEW h,
         \A x \in S : f[x] \in Int /\ g[x] \in Int /\ h[x] = f[x] + g[x]
  PROVE  SumFunctionOnSet(h, S) = SumFunctionOnSet(f, S) + SumFunctionOnSet(g, S)
<1> DEFINE P == {T \in SUBSET S : SumFunctionOnSet(h, T)
                                    = SumFunctionOnSet(f, T) + SumFunctionOnSet(g, T)}
<1>1. {} \in P
  BY SumEmpty
<1>2. ASSUME NEW T \in SUBSET S, NEW x \in S, T \in P, x \notin T
      PROVE  T \cup {x} \in P
  <2>1. /\ \A y \in S : f[y] \in Int
        /\ \A y \in S : g[y] \in Int
        /\ \A y \in S : h[y] \in Int
    OBVIOUS
  <2>2. SumFunctionOnSet(h, T) = SumFunctionOnSet(f, T) + SumFunctionOnSet(g, T)
    BY <1>2
  <2>3. h[x] = f[x] + g[x] /\ f[x] \in Int /\ g[x] \in Int
    OBVIOUS
  <2>4. \A q : (\A y \in S : q[y] \in Int) =>
          /\ SumFunctionOnSet(q, T) \in Int
          /\ SumFunctionOnSet(q, T \cup {x}) = q[x] + SumFunctionOnSet(q, T)
    <3>1. T \in SUBSET S /\ x \in S /\ x \notin T /\ IsFiniteSet(S)
      BY <1>2
    <3> HIDE DEF P
    <3> QED BY <3>1, AddToAny, Zenon
  <2>5. /\ SumFunctionOnSet(f, T \cup {x}) = f[x] + SumFunctionOnSet(f, T)
        /\ SumFunctionOnSet(f, T) \in Int
    BY <2>1, <2>4
  <2>6. /\ SumFunctionOnSet(g, T \cup {x}) = g[x] + SumFunctionOnSet(g, T)
        /\ SumFunctionOnSet(g, T) \in Int
    BY <2>1, <2>4
  <2>7. SumFunctionOnSet(h, T \cup {x}) = h[x] + SumFunctionOnSet(h, T)
    BY <2>1, <2>4
  <2> QED BY <2>5, <2>6, <2>7, <2>2, <2>3
<1> HIDE DEF P
<1>3. S \in P
  BY <1>1, <1>2, FiniteInduction
<1> QED BY <1>3 DEF P

\* A part of amounts adds up to no more than the whole.
LEMMA SumPart ==
  ASSUME NEW S, IsFiniteSet(S), NEW f, \A x \in S : f[x] \in Nat, NEW A \in SUBSET S
  PROVE  SumFunctionOnSet(f, A) <= SumFunctionOnSet(f, S)
<1> DEFINE P == {T \in SUBSET S : SumFunctionOnSet(f, T) \in Nat}
<1>1. {} \in P
  BY SumEmpty
<1>2. ASSUME NEW T \in SUBSET S, NEW x \in S, T \in P, x \notin T
      PROVE  T \cup {x} \in P
  <2>1. SumFunctionOnSet(f, T \cup {x}) = f[x] + SumFunctionOnSet(f, T)
    BY <1>2, SumAdd
  <2> QED BY <1>2, <2>1
<1>3. \A T \in SUBSET S : SumFunctionOnSet(f, T) \in Nat
  <2> TAKE T \in SUBSET S
  <2> DEFINE Q == {U \in SUBSET T : U \in P}
  <2>1. IsFiniteSet(T)
    BY FS_Subset
  <2>2. {} \in Q
    BY <1>1
  <2>3. \A U \in SUBSET T, x \in T : U \in Q /\ x \notin U => U \cup {x} \in Q
    BY <1>2
  <2> HIDE DEF Q
  <2>4. T \in Q
    BY <2>1, <2>2, <2>3, FiniteInduction
  <2> QED BY <2>4 DEF Q
<1> HIDE DEF P
<1>4. A \cup (S \ A) = S /\ A \cap (S \ A) = {} /\ S \ A \in SUBSET S
  OBVIOUS
<1>5. SumFunctionOnSet(f, A \cup (S \ A)) = SumFunctionOnSet(f, A) + SumFunctionOnSet(f, S \ A)
  BY <1>4, SumUnion
<1> QED BY <1>3, <1>4, <1>5

\* What is added up group by group is the whole.
LEMMA SumGrouped ==
  ASSUME NEW S, IsFiniteSet(S), NEW f, \A x \in S : f[x] \in Int,
         NEW K, IsFiniteSet(K), NEW key, \A x \in S : key[x] \in K,
         NEW part, \A k \in K : part[k] = {x \in S : key[x] = k},
         NEW g, \A k \in K : g[k] = SumFunctionOnSet(f, part[k])
  PROVE  SumFunctionOnSet(g, K) = SumFunctionOnSet(f, S)
<1> DEFINE Part(T, k) == {x \in T : key[x] = k}
           G(T) == [k \in K |-> SumFunctionOnSet(f, Part(T, k))]
           P == {T \in SUBSET S : SumFunctionOnSet(G(T), K) = SumFunctionOnSet(f, T)}
<1>1. \A T \in SUBSET S, k \in K : SumFunctionOnSet(f, Part(T, k)) \in Int
  <2> TAKE T \in SUBSET S, k \in K
  <2>1. IsFiniteSet(Part(T, k)) /\ \A x \in Part(T, k) : f[x] \in Int
    BY FS_Subset
  <2> QED BY <2>1, SumSplit
<1>2. {} \in P
  <2>1. \A k \in K : G({})[k] = 0
    <3> TAKE k \in K
    <3>1. Part({}, k) = {}
      OBVIOUS
    <3> QED BY <3>1, SumEmpty
  <2> DEFINE z == G({})
  <2>2. \A k \in K : z[k] = 0
    BY <2>1
  <2> HIDE DEF z
  <2>3. SumFunctionOnSet(z, K) = 0 * Cardinality(K) /\ Cardinality(K) \in Nat
    BY <2>2, SumConstant, FS_CardinalityType
  <2>4. SumFunctionOnSet(z, K) = SumFunctionOnSet(f, {})
    BY <2>3, SumEmpty
  <2> QED BY <2>4 DEF z
<1>3. ASSUME NEW T \in SUBSET S, NEW x \in S, T \in P, x \notin T
      PROVE  T \cup {x} \in P
  <2> DEFINE U == T \cup {x}
             a == G(T)
             b == G(U)
  <2>1. key[x] \in K /\ f[x] \in Int
    OBVIOUS
  <2>2. Part(U, key[x]) = Part(T, key[x]) \cup {x} /\ x \notin Part(T, key[x])
    BY <1>3
  <2>3. \A k \in K \ {key[x]} : Part(U, k) = Part(T, k)
    OBVIOUS
  <2>4. SumFunctionOnSet(f, Part(T, key[x]) \cup {x}) = f[x] + SumFunctionOnSet(f, Part(T, key[x]))
    <3>1. Part(T, key[x]) \in SUBSET S
      OBVIOUS
    <3> HIDE DEF Part
    <3> QED BY <3>1, <2>2, SumAdd
  <2>5. \A k \in K : a[k] \in Int /\ b[k] \in Int
    <3>1. U \in SUBSET S
      OBVIOUS
    <3> HIDE DEF Part, U
    <3> QED BY <1>1, <3>1
  <2>6. b[key[x]] = f[x] + a[key[x]]
    <3> HIDE DEF Part, U
    <3> QED BY <2>1, <2>2, <2>4
  <2>7. \A k \in K \ {key[x]} : b[k] = a[k]
    <3> HIDE DEF Part, U
    <3> QED BY <2>3
  <2>8. SumFunctionOnSet(a, K) = SumFunctionOnSet(f, T)
    BY <1>3
  <2>9. SumFunctionOnSet(f, U) = f[x] + SumFunctionOnSet(f, T) /\ SumFunctionOnSet(f, T) \in Int
    BY <1>3, SumAdd
  <2> HIDE DEF a, b, P
  <2>10. SumFunctionOnSet(b, K) = SumFunctionOnSet(a, K) + (b[key[x]] - a[key[x]])
    <3>1. \A k \in K : \A c, d :
            /\ \A y \in K : c[y] \in Int /\ d[y] \in Int
            /\ \A y \in K \ {k} : d[y] = c[y]
            => SumFunctionOnSet(d, K) = SumFunctionOnSet(c, K) + (d[k] - c[k])
      BY SumUpdate
    <3> QED BY <2>1, <2>5, <2>7, <3>1
  <2>11. SumFunctionOnSet(b, K) = SumFunctionOnSet(f, U)
    BY <2>1, <2>5, <2>6, <2>8, <2>9, <2>10
  <2> QED BY <2>11 DEF b, P
<1>4. S \in P
  <2> HIDE DEF P
  <2> QED BY <1>2, <1>3, FiniteInduction
<1> DEFINE c == G(S)
<1>5. \A k \in K : c[k] \in Int /\ c[k] = g[k]
  <2>1. \A k \in K : Part(S, k) = part[k]
    OBVIOUS
  <2> HIDE DEF Part
  <2> QED BY <1>1, <2>1
<1>6. SumFunctionOnSet(c, K) = SumFunctionOnSet(f, S)
  BY <1>4
<1> HIDE DEF c
<1> QED BY <1>5, <1>6, SumSame

\* The values of a function on a finite set are finitely many.
LEMMA ImageFinite ==
  ASSUME NEW S, IsFiniteSet(S), NEW f
  PROVE  IsFiniteSet({f[x] : x \in S})
<1> DEFINE T == {f[x] : x \in S}
           g == [x \in S |-> f[x]]
<1>1. g \in Surjection(S, T)
  BY DEF Surjection
<1> HIDE DEF T, g
<1>2. IsFiniteSet(T)
  BY <1>1, FS_Surjection
<1> QED BY <1>2 DEF T

\* What is added up under other names, each of its own.
LEMMA SumRenamed ==
  ASSUME NEW S, IsFiniteSet(S), NEW f, NEW g, NEW name,
         \A x, y \in S : name[x] = name[y] => x = y,
         \A x \in S : f[x] \in Int /\ g[name[x]] = f[x],
         NEW names, names = {name[x] : x \in S}
  PROVE  SumFunctionOnSet(g, names) = SumFunctionOnSet(f, S)
<1> DEFINE N(T) == {name[x] : x \in T}
           P == {T \in SUBSET S : SumFunctionOnSet(g, N(T)) = SumFunctionOnSet(f, T)}
<1>1. IsFiniteSet(N(S)) /\ \A y \in N(S) : g[y] \in Int
  <2>1. IsFiniteSet(N(S))
    BY ImageFinite
  <2> QED BY <2>1
<1>2. {} \in P
  <2>1. N({}) = {}
    OBVIOUS
  <2> QED BY <2>1, SumEmpty
<1>3. ASSUME NEW T \in SUBSET S, NEW x \in S, T \in P, x \notin T
      PROVE  T \cup {x} \in P
  <2>1. N(T \cup {x}) = N(T) \cup {name[x]} /\ N(T) \in SUBSET N(S) /\ name[x] \in N(S)
    OBVIOUS
  <2>2. name[x] \notin N(T)
    BY <1>3
  <2>3. SumFunctionOnSet(f, T \cup {x}) = f[x] + SumFunctionOnSet(f, T)
    BY <1>3, SumAdd
  <2>4. SumFunctionOnSet(g, N(T)) = SumFunctionOnSet(f, T)
    BY <1>3
  <2> HIDE DEF N
  <2>5. SumFunctionOnSet(g, N(T) \cup {name[x]}) = g[name[x]] + SumFunctionOnSet(g, N(T))
    BY <1>1, <2>1, <2>2, SumAdd
  <2> QED BY <2>1, <2>3, <2>4, <2>5
<1> HIDE DEF P
<1>4. S \in P
  BY <1>2, <1>3, FiniteInduction
<1>5. N(S) = names
  OBVIOUS
<1> QED BY <1>4, <1>5 DEF P

\* A sum of sums is the sum over the pairs: e of the pairs adds up what inner
\* has of each, and g is the sum of inner.
AddsPairs(S, R, F, e, inner, g, pairs) ==
  /\ IsFiniteSet(S) /\ IsFiniteSet(R)
  /\ \A s \in S : F[s] \in SUBSET R
  /\ \A s \in S : \A r \in F[s] : e[<<s, r>>] \in Int /\ inner[s][r] = e[<<s, r>>]
  /\ \A s \in S : g[s] = SumFunctionOnSet(inner[s], F[s])
  /\ \A p : p \in pairs <=> p \in S \X R /\ p[2] \in F[p[1]]

LEMMA SumPairs ==
  ASSUME NEW S, NEW R, NEW F, NEW e, NEW inner, NEW g, NEW pairs,
         AddsPairs(S, R, F, e, inner, g, pairs)
  PROVE  SumFunctionOnSet(g, S) = SumFunctionOnSet(e, pairs)
<1> USE DEF AddsPairs
<1> DEFINE Q == {p \in S \X R : p[2] \in F[p[1]]}
           first == [p \in Q |-> p[1]]
           part == [s \in S |-> {p \in Q : first[p] = s}]
<1>1. IsFiniteSet(Q)
  <2>1. IsFiniteSet(S \X R) /\ Q \subseteq S \X R
    BY FS_Product
  <2> QED BY <2>1, FS_Subset
<1>2. \A p \in Q : e[p] \in Int /\ first[p] \in S
  <2> TAKE p \in Q
  <2>1. p = <<p[1], p[2]>> /\ p[1] \in S /\ p[2] \in F[p[1]]
    OBVIOUS
  <2> QED BY <2>1
<1>3. ASSUME NEW s \in S
      PROVE  g[s] = SumFunctionOnSet(e, part[s])
  <2> DEFINE name == [r \in F[s] |-> <<s, r>>]
  <2>1. IsFiniteSet(F[s])
    BY FS_Subset
  <2>2. {name[r] : r \in F[s]} = {p \in Q : first[p] = s}
    <3>1. ASSUME NEW r \in F[s]
          PROVE  name[r] \in Q /\ first[name[r]] = s
      BY <3>1
    <3>2. ASSUME NEW p \in Q, first[p] = s
          PROVE  p[2] \in F[s] /\ name[p[2]] = p
      <4>1. p = <<p[1], p[2]>> /\ p[1] = s /\ p[2] \in F[p[1]]
        BY <3>2
      <4> QED BY <4>1
    <3> HIDE DEF Q, first, name
    <3> QED BY <3>1, <3>2
  <2>3. \A x, y \in F[s] : name[x] = name[y] => x = y
    OBVIOUS
  <2>4. \A r \in F[s] : inner[s][r] \in Int /\ e[name[r]] = inner[s][r]
    OBVIOUS
  <2>5. part[s] = {name[r] : r \in F[s]}
    BY <2>2
  <2> HIDE DEF name, Q, first, part
  <2> DEFINE X == F[s]
             i == inner[s]
             Y == part[s]
  <2>6. SumFunctionOnSet(e, Y) = SumFunctionOnSet(i, X)
    <3>1. /\ IsFiniteSet(X) /\ \A x, y \in X : name[x] = name[y] => x = y
          /\ \A r \in X : i[r] \in Int /\ e[name[r]] = i[r]
      BY <2>1, <2>3, <2>4
    <3>2. Y = {name[r] : r \in X}
      BY <2>5
    <3> HIDE DEF X, i, Y
    <3>3. \A a, b, c, A, B : /\ IsFiniteSet(A) /\ \A x, y \in A : c[x] = c[y] => x = y
                             /\ \A r \in A : a[r] \in Int /\ b[c[r]] = a[r]
                             /\ B = {c[r] : r \in A}
                             => SumFunctionOnSet(b, B) = SumFunctionOnSet(a, A)
      BY SumRenamed
    <3> QED BY <3>1, <3>2, <3>3
  <2> QED BY <2>6
<1>4. \A s \in S : part[s] = {p \in Q : first[p] = s}
  OBVIOUS
<1> HIDE DEF first, part
<1>5. SumFunctionOnSet(g, S) = SumFunctionOnSet(e, Q)
  <2> HIDE DEF Q
  <2>1. \A x \in Q : e[x] \in Int
    BY <1>2
  <2>2. \A x \in Q : first[x] \in S
    BY <1>2
  <2>3. \A k \in S : part[k] = {x \in Q : first[x] = k}
    BY <1>4
  <2>4. \A k \in S : g[k] = SumFunctionOnSet(e, part[k])
    BY <1>3
  <2> QED BY <1>1, <2>1, <2>2, <2>3, <2>4, SumGrouped
<1> QED BY <1>5

\* What is counted group by group is the whole.
LEMMA CountGrouped ==
  ASSUME NEW S, IsFiniteSet(S), NEW K, IsFiniteSet(K), NEW key, \A x \in S : key[x] \in K,
         NEW part, \A k \in K : part[k] = {x \in S : key[x] = k},
         NEW g, \A k \in K : g[k] = Cardinality(part[k])
  PROVE  SumFunctionOnSet(g, K) = Cardinality(S)
<1> DEFINE one == [x \in S |-> 1]
<1>1. /\ \A x \in S : one[x] = 1
      /\ \A k \in K : part[k] \in SUBSET S
  OBVIOUS
<1> HIDE DEF one
<1>2. \A T \in SUBSET S : SumFunctionOnSet(one, T) = Cardinality(T)
  <2> TAKE T \in SUBSET S
  <2>1. IsFiniteSet(T) /\ \A x \in T : one[x] = 1
    BY <1>1, FS_Subset
  <2>2. SumFunctionOnSet(one, T) = 1 * Cardinality(T)
    BY <2>1, SumConstant
  <2> QED BY <2>1, <2>2, FS_CardinalityType
<1>3. \A k \in K : g[k] = SumFunctionOnSet(one, part[k])
  <2> TAKE k \in K
  <2>1. g[k] = Cardinality(part[k])
    BY <1>1
  <2> QED BY <1>1, <1>2, <2>1
<1>4. \A x \in S : one[x] \in Int
  BY <1>1
<1>5. SumFunctionOnSet(g, K) = SumFunctionOnSet(one, S)
  BY <1>3, <1>4, SumGrouped
<1> QED BY <1>2, <1>5
=============================================================================
