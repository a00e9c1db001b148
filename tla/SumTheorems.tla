----------------------------- MODULE SumTheorems -----------------------------
(***************************************************************************)
(* Facts about least members and about sums over finite sets, which the    *)
(* proofs of several components use.  The sum of the community modules is  *)
(* a recursive function on the subsets of a set; what it computes follows  *)
(* from the fact that a set of finite sets that is not empty has a member  *)
(* of which it contains no proper subset: a smallest counterexample.       *)
(***************************************************************************)
EXTENDS Integers, FiniteSetsExt, FiniteSetTheorems, WellFoundedInduction, TLAPS

LEMMA LeastOf ==
  ASSUME NEW T, T \subseteq Nat, T # {}
  PROVE  \E x \in T : \A y \in T : x <= y
<1>1. PICK x \in T : \A y \in T : ~(<<y, x>> \in OpToRel(<, Nat))
  BY NatLessThanWellFounded, WFMin
<1>2. \A y \in T : ~(y < x)
  BY <1>1 DEF OpToRel
<1> QED
  BY <1>2

LEMMA SmallestSet ==
  ASSUME NEW A, IsFiniteSet(A), NEW B, B \subseteq SUBSET A, B # {}
  PROVE  \E s \in B : \A t \in B : t \subseteq s => t = s
<1> DEFINE sizes == {Cardinality(s) : s \in B}
<1>1. \A s \in B : IsFiniteSet(s) /\ Cardinality(s) \in Nat
  BY FS_Subset, FS_CardinalityType
<1>2. sizes \subseteq Nat /\ sizes # {}
  BY <1>1
<1>3. PICK n \in sizes : \A m \in sizes : ~(<<m, n>> \in OpToRel(<, Nat))
  <2> HIDE DEF sizes
  <2> QED
    BY <1>2, NatLessThanWellFounded, WFMin
<1>4. PICK s \in B : Cardinality(s) = n
  BY <1>3
<1>5. \A t \in B : ~(Cardinality(t) < Cardinality(s))
  BY <1>1, <1>3, <1>4 DEF OpToRel
<1> SUFFICES ASSUME NEW t \in B, t \subseteq s PROVE t = s
  BY <1>4
<1>6. Cardinality(t) <= Cardinality(s) /\ (Cardinality(s) = Cardinality(t) => s = t)
  BY <1>1, FS_Subset
<1> QED
  BY <1>1, <1>5, <1>6

Some(s) == CHOOSE x \in s : TRUE

(* g holds the sums of f over the subsets of S. *)
Sums(g, f, S) ==
  g = [s \in SUBSET S |-> IF s = {} THEN 0 ELSE f[Some(s)] + g[s \ {Some(s)}]]

Total(f, S) == MapThenSumSet(LAMBDA x : f[x], S)

LEMMA TotalIs ==
  ASSUME NEW f, NEW S
  PROVE  Total(f, S) = (CHOOSE g : Sums(g, f, S))[S]
  BY DEF Total, Sums, Some, MapThenSumSet, MapThenFoldSet

LEMMA SomeIsIn ==
  ASSUME NEW s, s # {}
  PROVE  Some(s) \in s
  BY DEF Some

LEMMA SumsAgree ==
  ASSUME NEW f, NEW g, NEW S, NEW h, NEW T, IsFiniteSet(S), Sums(g, f, S), Sums(h, f, T)
  PROVE  \A s \in (SUBSET S) \cap (SUBSET T) : g[s] = h[s]
<1> DEFINE Bad == {s \in (SUBSET S) \cap (SUBSET T) : g[s] # h[s]}
<1> SUFFICES ASSUME Bad # {} PROVE FALSE
  OBVIOUS
<1>1. PICK s \in Bad : \A t \in Bad : t \subseteq s => t = s
  <2>1. Bad \subseteq SUBSET S
    OBVIOUS
  <2> HIDE DEF Bad
  <2> QED
    BY <2>1, SmallestSet
<1>2. g[s] = IF s = {} THEN 0 ELSE f[Some(s)] + g[s \ {Some(s)}]
  BY <1>1 DEF Sums
<1>3. h[s] = IF s = {} THEN 0 ELSE f[Some(s)] + h[s \ {Some(s)}]
  <2>1. s \in (SUBSET S) \cap (SUBSET T)
    BY <1>1
  <2>2. s \in SUBSET T
    BY <2>1
  <2> HIDE DEF Bad
  <2> QED
    BY <2>2 DEF Sums
<1>4. s # {}
  BY <1>1, <1>2, <1>3
<1>5. Some(s) \in s
  BY <1>4, SomeIsIn
<1>6. g[s \ {Some(s)}] = h[s \ {Some(s)}]
  BY <1>1, <1>5
<1> QED
  BY <1>1, <1>2, <1>3, <1>6

LEMMA SumsExist ==
  ASSUME NEW f, NEW S, IsFiniteSet(S)
  PROVE  \E g : Sums(g, f, S)
<1> DEFINE Bad == {s \in SUBSET S : ~\E g : Sums(g, f, s)}
<1> SUFFICES ASSUME Bad # {} PROVE FALSE
  OBVIOUS
<1>1. PICK s \in Bad : \A t \in Bad : t \subseteq s => t = s
  <2>1. Bad \subseteq SUBSET S
    OBVIOUS
  <2> HIDE DEF Bad
  <2> QED
    BY <2>1, SmallestSet
<1> DEFINE on(t) == CHOOSE g : Sums(g, f, t)
           rest(t) == t \ {Some(t)}
           all == [t \in SUBSET s |-> IF t = {} THEN 0 ELSE f[Some(t)] + on(rest(t))[rest(t)]]
<1>2. \A t \in SUBSET s : t # s => Sums(on(t), f, t)
  BY <1>1
<1>3. \A t \in SUBSET s : t # {} => rest(t) \in SUBSET s /\ rest(t) # s
  BY SomeIsIn
<1>4. \A t \in SUBSET s : t # s => all[t] = on(t)[t]
  <2> SUFFICES ASSUME NEW t \in SUBSET s, t # s PROVE all[t] = on(t)[t]
    OBVIOUS
  <2>1. Sums(on(t), f, t)
    BY <1>2
  <2>2. on(t)[t] = IF t = {} THEN 0 ELSE f[Some(t)] + on(t)[rest(t)]
    <3> HIDE DEF on
    <3> QED
      BY <2>1 DEF Sums
  <2>3. t # {} => on(t)[rest(t)] = on(rest(t))[rest(t)]
    <3> SUFFICES ASSUME t # {} PROVE on(t)[rest(t)] = on(rest(t))[rest(t)]
      OBVIOUS
    <3>1. Sums(on(rest(t)), f, rest(t))
      BY <1>2, <1>3
    <3>2. IsFiniteSet(t)
      BY <1>1, FS_Subset
    <3>3. rest(t) \in (SUBSET t) \cap (SUBSET rest(t))
      OBVIOUS
    <3> HIDE DEF on, rest
    <3> QED
      BY <2>1, <3>1, <3>2, <3>3, SumsAgree
  <2> QED
    BY <2>2, <2>3
<1>5. \A t \in SUBSET s : all[t] = IF t = {} THEN 0 ELSE f[Some(t)] + all[rest(t)]
  <2> SUFFICES ASSUME NEW t \in SUBSET s
               PROVE  all[t] = IF t = {} THEN 0 ELSE f[Some(t)] + all[rest(t)]
    OBVIOUS
  <2>1. all[t] = IF t = {} THEN 0 ELSE f[Some(t)] + on(rest(t))[rest(t)]
    OBVIOUS
  <2>2. t # {} => all[rest(t)] = on(rest(t))[rest(t)]
    <3> HIDE DEF all, on, rest
    <3> QED
      BY <1>3, <1>4
  <2> HIDE DEF all, on, rest
  <2> QED
    BY <2>1, <2>2
<1>6. Sums(all, f, s)
  <2>1. all = [t \in SUBSET s |-> all[t]]
    OBVIOUS
  <2> HIDE DEF all, on
  <2> QED
    BY <1>5, <2>1 DEF Sums
<1> QED
  BY <1>1, <1>6
LEMMA TotalFromSums ==
  ASSUME NEW f, NEW A, IsFiniteSet(A), NEW g, Sums(g, f, A), NEW S \in SUBSET A
  PROVE  Total(f, S) = g[S]
<1> DEFINE h == CHOOSE h : Sums(h, f, S)
<1>1. IsFiniteSet(S)
  BY FS_Subset
<1>2. Sums(h, f, S)
  BY <1>1, SumsExist
<1>3. Total(f, S) = h[S]
  BY TotalIs
<1>4. S \in (SUBSET S) \cap (SUBSET A)
  OBVIOUS
<1> HIDE DEF h
<1> QED
  BY <1>1, <1>2, <1>3, <1>4, SumsAgree

LEMMA SumsAreIntegers ==
  ASSUME NEW f, NEW A, IsFiniteSet(A), \A x \in A : f[x] \in Int, NEW g, Sums(g, f, A)
  PROVE  \A s \in SUBSET A : g[s] \in Int
<1> DEFINE Bad == {s \in SUBSET A : g[s] \notin Int}
<1> SUFFICES ASSUME Bad # {} PROVE FALSE
  OBVIOUS
<1>1. PICK s \in Bad : \A t \in Bad : t \subseteq s => t = s
  <2>1. Bad \subseteq SUBSET A
    OBVIOUS
  <2> HIDE DEF Bad
  <2> QED
    BY <2>1, SmallestSet
<1>2. g[s] = IF s = {} THEN 0 ELSE f[Some(s)] + g[s \ {Some(s)}]
  BY <1>1 DEF Sums
<1>3. s # {}
  BY <1>1, <1>2
<1>4. Some(s) \in s
  BY <1>3, SomeIsIn
<1>5. g[s \ {Some(s)}] \in Int
  BY <1>1, <1>4
<1>6. f[Some(s)] \in Int
  BY <1>1, <1>4
<1> QED
  BY <1>1, <1>2, <1>3, <1>5, <1>6

(* The order in which the members are added does not matter. *)
LEMMA AnyMember ==
  ASSUME NEW f, NEW A, IsFiniteSet(A), \A x \in A : f[x] \in Int, NEW g, Sums(g, f, A)
  PROVE  \A s \in SUBSET A : \A x \in s : g[s] = f[x] + g[s \ {x}]
<1> DEFINE Bad == {s \in SUBSET A : ~\A x \in s : g[s] = f[x] + g[s \ {x}]}
<1> SUFFICES ASSUME Bad # {} PROVE FALSE
  OBVIOUS
<1>1. PICK s \in Bad : \A t \in Bad : t \subseteq s => t = s
  <2>1. Bad \subseteq SUBSET A
    OBVIOUS
  <2> HIDE DEF Bad
  <2> QED
    BY <2>1, SmallestSet
<1>2. PICK x \in s : g[s] # f[x] + g[s \ {x}]
  BY <1>1
<1> DEFINE c == Some(s)
<1>3. c \in s
  BY <1>2, SomeIsIn
<1>4. g[s] = f[c] + g[s \ {c}]
  BY <1>1, <1>2 DEF Sums
<1> HIDE DEF c
<1>5. c # x
  BY <1>2, <1>4
<1>6. g[s \ {c}] = f[x] + g[(s \ {c}) \ {x}]
  <2>1. s \ {c} \notin Bad /\ s \ {c} \in SUBSET A /\ x \in s \ {c}
    BY <1>1, <1>3, <1>5
  <2> QED
    BY <2>1
<1>7. g[s \ {x}] = f[c] + g[(s \ {x}) \ {c}]
  <2>1. s \ {x} \notin Bad /\ s \ {x} \in SUBSET A /\ c \in s \ {x}
    BY <1>1, <1>3, <1>5
  <2> QED
    BY <2>1
<1>8. (s \ {c}) \ {x} = (s \ {x}) \ {c}
  OBVIOUS
<1>9. f[c] \in Int /\ f[x] \in Int /\ g[(s \ {x}) \ {c}] \in Int
  <2>1. (s \ {x}) \ {c} \in SUBSET A /\ c \in A /\ x \in A
    BY <1>1, <1>3
  <2> QED
    BY <2>1, SumsAreIntegers
<1>10. \A i, j, k \in Int : i + (j + k) = j + (i + k)
  OBVIOUS
<1>11. g[s] = f[c] + (f[x] + g[(s \ {x}) \ {c}])
  BY <1>4, <1>6, <1>8, Zenon
<1>12. f[x] + g[s \ {x}] = f[x] + (f[c] + g[(s \ {x}) \ {c}])
  BY <1>7, Zenon
<1> QED
  BY <1>2, <1>9, <1>10, <1>11, <1>12, Zenon

LEMMA TotalOfNone == ASSUME NEW f PROVE Total(f, {}) = 0
<1>1. IsFiniteSet({})
  BY FS_EmptySet
<1>2. PICK g : Sums(g, f, {})
  BY <1>1, SumsExist
<1>3. g[{}] = 0
  BY <1>2 DEF Sums
<1>4. {} \in SUBSET {}
  OBVIOUS
<1> QED
  BY <1>1, <1>2, <1>3, <1>4, TotalFromSums

LEMMA TotalWithOneMore ==
  ASSUME NEW f, NEW S, IsFiniteSet(S), NEW x, x \notin S, \A y \in S \cup {x} : f[y] \in Int
  PROVE  /\ Total(f, S) \in Int
         /\ Total(f, S \cup {x}) = f[x] + Total(f, S)
<1> DEFINE A == S \cup {x}
<1>1. IsFiniteSet(A)
  BY FS_AddElement
<1>2. PICK g : Sums(g, f, A)
  BY <1>1, SumsExist
<1>3. A \in SUBSET A /\ S \in SUBSET A /\ x \in A /\ A \ {x} = S
  OBVIOUS
<1> HIDE DEF A
<1>4. Total(f, A) = g[A] /\ Total(f, S) = g[S]
  BY <1>1, <1>2, <1>3, TotalFromSums
<1>5. \A y \in A : f[y] \in Int
  BY DEF A
<1>6. g[S] \in Int
  BY <1>1, <1>2, <1>3, <1>5, SumsAreIntegers
<1>7. g[A] = f[x] + g[S]
  BY <1>1, <1>2, <1>3, <1>5, AnyMember
<1> QED
  BY <1>4, <1>6, <1>7 DEF A

LEMMA TotalOfTheSame ==
  ASSUME NEW f, NEW h, NEW S, IsFiniteSet(S), \A x \in S : f[x] = h[x]
  PROVE  Total(f, S) = Total(h, S)
<1>1. PICK g : Sums(g, f, S)
  BY SumsExist
<1>2. g = [s \in SUBSET S |-> g[s]] /\ \A s \in SUBSET S : s # {} => f[Some(s)] = h[Some(s)]
  BY <1>1, SomeIsIn DEF Sums
<1>3. Sums(g, h, S)
  BY <1>1, <1>2 DEF Sums
<1>4. S \in SUBSET S
  OBVIOUS
<1> QED
  BY <1>1, <1>3, <1>4, TotalFromSums

(* Two families whose members fall under the same keys equally often, and  *)
(* which agree wherever the keys do, have the same sum.                    *)
Count(k, S, i) == Cardinality({x \in S : k[x] = i})

LEMMA CountWithoutOne ==
  ASSUME NEW k, NEW S, IsFiniteSet(S), NEW x \in S, NEW i
  PROVE  /\ Count(k, S, i) \in Nat
         /\ k[x] = i => Count(k, S, i) # 0 /\ Count(k, S \ {x}, i) = Count(k, S, i) - 1
         /\ k[x] # i => Count(k, S \ {x}, i) = Count(k, S, i)
<1> DEFINE under == {y \in S : k[y] = i}
<1>1. IsFiniteSet(under) /\ Cardinality(under) \in Nat
  BY FS_Subset, FS_CardinalityType
<1>2. CASE k[x] = i
  <2>1. {y \in S \ {x} : k[y] = i} = under \ {x} /\ x \in under
    BY <1>2
  <2> HIDE DEF under
  <2>2. Cardinality(under \ {x}) = Cardinality(under) - 1
    BY <1>1, <2>1, FS_RemoveElement
  <2>3. Cardinality(under) # 0
    BY <1>1, <2>1, FS_EmptySet
  <2> QED
    BY <1>1, <1>2, <2>1, <2>2, <2>3 DEF Count, under
<1>3. CASE k[x] # i
  <2>1. {y \in S \ {x} : k[y] = i} = under
    BY <1>3
  <2> QED
    BY <1>1, <1>3, <2>1 DEF Count
<1> QED
  BY <1>2, <1>3

LEMMA KeyOfAMember ==
  ASSUME NEW k, NEW S, IsFiniteSet(S), NEW x \in S
  PROVE  Count(k, S, k[x]) # 0
  BY CountWithoutOne

Match(R, S, k, l, f, h) ==
  /\ \A i : Count(k, R, i) = Count(l, S, i)
  /\ \A r \in R : f[r] \in Int
  /\ \A s \in S : h[s] \in Int
  /\ \A r \in R, s \in S : k[r] = l[s] => f[r] = h[s]

LEMMA SameKeysSameSum ==
  ASSUME NEW R, IsFiniteSet(R), NEW S, IsFiniteSet(S), NEW k, NEW l, NEW f, NEW h,
         Match(R, S, k, l, f, h)
  PROVE  Total(f, R) = Total(h, S)
<1>0. /\ \A i : Count(k, R, i) = Count(l, S, i)
      /\ \A r \in R : f[r] \in Int
      /\ \A s \in S : h[s] \in Int
      /\ \A r \in R, s \in S : k[r] = l[s] => f[r] = h[s]
  BY DEF Match
<1> DEFINE Differ(A, B) == (\A i : Count(k, A, i) = Count(l, B, i)) /\ Total(f, A) # Total(h, B)
           Bad == {A \in SUBSET R : \E B \in SUBSET S : Differ(A, B)}
<1> SUFFICES ASSUME Bad # {} PROVE FALSE
  BY <1>0
<1>1. PICK A \in Bad : \A B \in Bad : B \subseteq A => B = A
  <2>1. Bad \subseteq SUBSET R
    OBVIOUS
  <2> HIDE DEF Bad
  <2> QED
    BY <2>1, SmallestSet
<1>2. PICK B \in SUBSET S : Differ(A, B)
  BY <1>1
<1>3. A \subseteq R /\ B \subseteq S /\ IsFiniteSet(A) /\ IsFiniteSet(B)
  BY <1>1, FS_Subset
<1>4. CASE A = {}
  <2>1. ASSUME NEW s \in B PROVE Count(l, B, l[s]) # 0
    <3>1. IsFiniteSet(B)
      BY <1>3
    <3> HIDE DEF Bad, Differ
    <3> QED
      BY <3>1, KeyOfAMember
  <2>2. \A i : Count(k, A, i) = 0
    <3>1. \A i : {x \in A : k[x] = i} = {}
      BY <1>4
    <3> QED
      BY <3>1, FS_EmptySet DEF Count
  <2>3. B = {}
    BY <1>2, <2>1, <2>2
  <2> QED
    BY <1>2, <1>4, <2>3, TotalOfNone
<1>5. ASSUME NEW r \in A PROVE FALSE
  <2>1. Count(k, A, k[r]) # 0
    <3>1. IsFiniteSet(A)
      BY <1>3
    <3> HIDE DEF Bad, Differ
    <3> QED
      BY <3>1, KeyOfAMember
  <2>2. Count(l, B, k[r]) # 0
    BY <1>2, <2>1
  <2>3. PICK s \in B : l[s] = k[r]
    <3>1. {x \in B : l[x] = k[r]} # {}
      BY <2>2, FS_EmptySet DEF Count
    <3> QED
      BY <3>1
  <2> DEFINE A1 == A \ {r}
             B1 == B \ {s}
  <2>4. \A i : Count(k, A1, i) = Count(l, B1, i)
    <3> SUFFICES ASSUME NEW i PROVE Count(k, A1, i) = Count(l, B1, i)
      OBVIOUS
    <3>1. /\ k[r] = i => Count(k, A1, i) = Count(k, A, i) - 1
          /\ k[r] # i => Count(k, A1, i) = Count(k, A, i)
      BY <1>3, CountWithoutOne
    <3>2. /\ l[s] = i => Count(l, B1, i) = Count(l, B, i) - 1
          /\ l[s] # i => Count(l, B1, i) = Count(l, B, i)
      BY <1>3, CountWithoutOne
    <3>3. Count(k, A, i) = Count(l, B, i)
      BY <1>2
    <3> HIDE DEF A1, B1
    <3> QED
      BY <2>3, <3>1, <3>2, <3>3
  <2>5. A1 \in SUBSET R /\ B1 \in SUBSET S /\ A1 \subseteq A /\ A1 # A
    BY <1>3
  <2>6. Total(f, A1) = Total(h, B1)
    <3>1. A1 \notin Bad
      BY <1>1, <2>5
    <3>2. ~Differ(A1, B1)
      BY <2>5, <3>1
    <3> QED
      BY <2>4, <3>2
  <2>7. Total(f, A) = f[r] + Total(f, A1)
    <3>1. IsFiniteSet(A1) /\ r \notin A1 /\ A1 \cup {r} = A
      BY <1>3, FS_RemoveElement
    <3>2. \A y \in A1 \cup {r} : f[y] \in Int
      BY <1>0, <1>3, <3>1
    <3> HIDE DEF A1
    <3> QED
      BY <3>1, <3>2, TotalWithOneMore
  <2>8. Total(h, B) = h[s] + Total(h, B1)
    <3>1. IsFiniteSet(B1) /\ s \notin B1 /\ B1 \cup {s} = B
      BY <1>3, FS_RemoveElement
    <3>2. \A y \in B1 \cup {s} : h[y] \in Int
      BY <1>0, <1>3, <3>1
    <3> HIDE DEF B1
    <3> QED
      BY <3>1, <3>2, TotalWithOneMore
  <2>9. f[r] = h[s]
    BY <1>0, <1>3, <2>3
  <2> HIDE DEF A1, B1
  <2> QED
    BY <1>2, <2>6, <2>7, <2>8, <2>9
<1> QED
  BY <1>4, <1>5
=============================================================================
