---------------------------- MODULE SumTheorems ----------------------------
(***************************************************************************)
(* Sums of natural numbers over finite sets, as SumFunctionOnSet computes  *)
(* them.  The fold picks the elements in an order of its own; the lemmas   *)
(* show that the order does not matter, by well-founded arguments over the *)
(* subsets of a finite set.                                                *)
(***************************************************************************)
EXTENDS Integers, Functions, FiniteSetTheorems, TLAPS

(* g gives the sum of f over every subset of U.                            *)
IsSum(g, f, U) ==
  /\ g \in [SUBSET U -> Nat]
  /\ g[{}] = 0
  /\ \A s \in SUBSET U : \A x \in s : g[s] = f[x] + g[s \ {x}]

(* A set of subsets of a finite set has a minimal member.                  *)
LEMMA MinimalSubset ==
  ASSUME NEW U, IsFiniteSet(U), NEW T, T \subseteq SUBSET U, T # {}
  PROVE  \E V \in T : \A W \in SUBSET V : W # V => W \notin T
<1>1. IsWellFoundedOn(StrictSubsetOrdering(U), FiniteSubsetsOf(U))
  BY FS_StrictSubsetOrderingWellFounded
<1>2. T \subseteq FiniteSubsetsOf(U)
  BY FS_FiniteSubsetsOfFinite
<1>3. PICK V \in T : \A W \in T : ~(<<W, V>> \in StrictSubsetOrdering(U))
  BY <1>1, <1>2, WFMin
<1>4. ASSUME NEW W \in SUBSET V, W # V, W \in T PROVE FALSE
  BY <1>3, <1>4, Zenon DEF StrictSubsetOrdering
<1> QED
  BY <1>4

(* Adding an element extends the sums.                                     *)
LEMMA SumExtends ==
  ASSUME NEW V, NEW a \in V, NEW f, f[a] \in Nat, \A x \in V : f[x] \in Nat,
         NEW g, IsSum(g, f, V \ {a})
  PROVE  \E h : IsSum(h, f, V)
<1> DEFINE h == [s \in SUBSET V |-> IF a \in s THEN f[a] + g[s \ {a}] ELSE g[s]]
<1>1. h \in [SUBSET V -> Nat]
  <2>1. ASSUME NEW s \in SUBSET V
        PROVE  (a \in s => g[s \ {a}] \in Nat) /\ (a \notin s => g[s] \in Nat)
    BY DEF IsSum
  <2> QED
    BY <2>1
<1>2. h[{}] = 0
  BY DEF IsSum
<1>3. ASSUME NEW s \in SUBSET V, NEW x \in s
      PROVE  h[s] = f[x] + h[s \ {x}]
  <2>1. CASE x = a
    BY <2>1
  <2>2. CASE x # a /\ a \notin s
    BY <2>2 DEF IsSum
  <2>3. CASE x # a /\ a \in s
    <3>1. s \ {a} \in SUBSET (V \ {a}) /\ x \in s \ {a}
      BY <2>3
    <3>2. g[s \ {a}] = f[x] + g[(s \ {a}) \ {x}]
      BY <3>1, Zenon DEF IsSum
    <3>3. (s \ {a}) \ {x} = (s \ {x}) \ {a}
      OBVIOUS
    <3>4. h[s] = f[a] + g[s \ {a}] /\ h[s \ {x}] = f[a] + g[(s \ {x}) \ {a}]
      BY <2>3
    <3>5. g[(s \ {a}) \ {x}] \in Nat /\ f[a] \in Nat /\ f[x] \in Nat
      BY DEF IsSum
    <3> DEFINE w == g[(s \ {a}) \ {x}]
    <3>6. f[a] + (f[x] + w) = f[x] + (f[a] + w)
      <4> HIDE DEF w
      <4>1. w \in Nat
        BY <3>5 DEF w
      <4> QED
        BY <3>5, <4>1
    <3> HIDE DEF h
    <3> QED
      BY <3>2, <3>3, <3>4, <3>6, Zenon
  <2> QED
    BY <2>1, <2>2, <2>3
<1> HIDE DEF h
<1> QED
  BY <1>1, <1>2, <1>3, Zenon DEF IsSum

(* A finite set of naturals has a sum for each of its subsets: a smallest  *)
(* subset without one would contradict WFMin.                              *)
LEMMA SumExists ==
  ASSUME NEW U, IsFiniteSet(U), NEW f, \A x \in U : f[x] \in Nat
  PROVE  \E g : IsSum(g, f, U)
<1> DEFINE T == {V \in SUBSET U : ~ \E g : IsSum(g, f, V)}
<1> SUFFICES ASSUME T # {} PROVE FALSE
  OBVIOUS
<1>1. PICK V \in T : \A W \in SUBSET V : W # V => W \notin T
  <2>1. T \subseteq SUBSET U
    OBVIOUS
  <2> HIDE DEF T
  <2> QED
    BY <2>1, MinimalSubset
<1>2. CASE V = {}
  <2>1. IsSum([s \in SUBSET {} |-> 0], f, {})
    BY DEF IsSum
  <2> QED
    BY <1>1, <1>2, <2>1
<1>3. ASSUME NEW a \in V PROVE FALSE
  <2>1. V \ {a} \in SUBSET V /\ V \ {a} # V /\ V \ {a} \in SUBSET U
    BY <1>1
  <2>2. PICK g : IsSum(g, f, V \ {a})
    BY <1>1, <2>1
  <2> QED
    BY <1>1, <2>2, SumExtends
<1> QED
  BY <1>2, <1>3

(* What the fold computes.                                                 *)
Pick(s) == CHOOSE x \in s : TRUE
Unrolls(iter, f, U) ==
  iter = [s \in SUBSET U |->
            IF s = {} THEN 0 ELSE f[Pick(s)] + iter[s \ {Pick(s)}]]

(* SumFunctionOnSet is the fold of the library, unrolled.                  *)
LEMMA SumUnrolled ==
  ASSUME NEW f, NEW U
  PROVE  SumFunctionOnSet(f, U) = (CHOOSE iter : Unrolls(iter, f, U))[U]
BY DEF SumFunctionOnSet, FoldFunctionOnSet, MapThenFoldSet, Unrolls, Pick

(* The element the fold takes next is one of the set.                      *)
LEMMA PickIn == ASSUME NEW s, s # {} PROVE Pick(s) \in s
BY DEF Pick

(* A sum satisfies the fold's equation, whichever element is taken next.   *)
LEMMA SumUnrolls ==
  ASSUME NEW U, NEW f, NEW g, IsSum(g, f, U)
  PROVE  Unrolls(g, f, U)
<1>1. ASSUME NEW s \in SUBSET U
      PROVE  g[s] = IF s = {} THEN 0 ELSE f[Pick(s)] + g[s \ {Pick(s)}]
  BY PickIn, Zenon DEF IsSum
<1>2. g = [s \in SUBSET U |-> g[s]]
  BY DEF IsSum
<1> QED
  BY <1>1, <1>2, Zenon DEF Unrolls

(* Two functions that satisfy the fold's equation agree.                   *)
LEMMA UnrolledUnique ==
  ASSUME NEW U, IsFiniteSet(U), NEW f, NEW g, NEW h,
         Unrolls(g, f, U), Unrolls(h, f, U)
  PROVE  g[U] = h[U]
<1> DEFINE T == {s \in SUBSET U : g[s] # h[s]}
<1>1. ASSUME T # {} PROVE FALSE
  <2>1. PICK V \in T : \A W \in SUBSET V : W # V => W \notin T
    <3>1. T \subseteq SUBSET U
      OBVIOUS
    <3> HIDE DEF T
    <3> QED
      BY <1>1, <3>1, MinimalSubset
  <2>2. CASE V = {}
    BY <2>1, <2>2 DEF Unrolls
  <2>3. CASE V # {}
    <3>1. Pick(V) \in V
      BY <2>3, PickIn
    <3>2. g[V \ {Pick(V)}] = h[V \ {Pick(V)}]
      BY <2>1, <3>1
    <3>3. /\ g[V] = f[Pick(V)] + g[V \ {Pick(V)}]
          /\ h[V] = f[Pick(V)] + h[V \ {Pick(V)}]
      BY <2>1, <2>3, Zenon DEF Unrolls
    <3> QED
      BY <2>1, <3>2, <3>3
  <2> QED
    BY <2>2, <2>3
<1> QED
  BY <1>1

(* The fold is the sum, for the set and for each of its subsets.           *)
LEMMA FoldIsSum ==
  ASSUME NEW U, IsFiniteSet(U), NEW f, NEW g, IsSum(g, f, U), NEW S \in SUBSET U
  PROVE  SumFunctionOnSet(f, S) = g[S]
<1> DEFINE h == [s \in SUBSET S |-> g[s]]
           iter == CHOOSE i : Unrolls(i, f, S)
<1>1. IsSum(h, f, S)
  <2>1. h \in [SUBSET S -> Nat] /\ h[{}] = 0
    BY DEF IsSum
  <2>2. ASSUME NEW s \in SUBSET S, NEW x \in s PROVE h[s] = f[x] + h[s \ {x}]
    BY DEF IsSum
  <2> HIDE DEF h
  <2> QED
    BY <2>1, <2>2 DEF IsSum
<1>2. h[S] = g[S]
  OBVIOUS
<1> HIDE DEF h
<1>3. Unrolls(h, f, S)
  BY <1>1, SumUnrolls
<1>4. Unrolls(iter, f, S)
  BY <1>3
<1>5. IsFiniteSet(S)
  BY FS_Subset
<1>6. iter[S] = h[S]
  BY <1>3, <1>4, <1>5, UnrolledUnique
<1> QED
  BY <1>2, <1>6, SumUnrolled

----------------------------------------------------------------------------
(* Nothing adds up to zero.                                                *)
LEMMA SumEmpty ==
  ASSUME NEW f PROVE SumFunctionOnSet(f, {}) = 0
<1>1. IsFiniteSet({}) /\ \A x \in {} : f[x] \in Nat
  BY FS_EmptySet
<1>2. PICK g : IsSum(g, f, {})
  BY <1>1, SumExists
<1>3. SumFunctionOnSet(f, {}) = g[{}]
  BY <1>1, <1>2, FoldIsSum
<1> QED
  BY <1>2, <1>3 DEF IsSum

(* Naturals add up to a natural.                                           *)
LEMMA SumType ==
  ASSUME NEW S, IsFiniteSet(S), NEW f, \A x \in S : f[x] \in Nat
  PROVE  SumFunctionOnSet(f, S) \in Nat
<1>1. PICK g : IsSum(g, f, S)
  BY SumExists
<1>2. SumFunctionOnSet(f, S) = g[S]
  BY <1>1, FoldIsSum
<1> QED
  BY <1>1, <1>2 DEF IsSum

(* Any element may be taken out first.                                     *)
LEMMA SumRemove ==
  ASSUME NEW S, IsFiniteSet(S), NEW f, \A x \in S : f[x] \in Nat, NEW a \in S
  PROVE  SumFunctionOnSet(f, S) = f[a] + SumFunctionOnSet(f, S \ {a})
<1>1. PICK g : IsSum(g, f, S)
  BY SumExists
<1>2. SumFunctionOnSet(f, S) = g[S]
  BY <1>1, FoldIsSum
<1>3. SumFunctionOnSet(f, S \ {a}) = g[S \ {a}]
  BY <1>1, FoldIsSum
<1> QED
  BY <1>1, <1>2, <1>3 DEF IsSum

(* One more element adds its own value.                                    *)
LEMMA SumAdd ==
  ASSUME NEW S, IsFiniteSet(S), NEW f, NEW a, a \notin S,
         \A x \in S \cup {a} : f[x] \in Nat
  PROVE  SumFunctionOnSet(f, S \cup {a}) = f[a] + SumFunctionOnSet(f, S)
<1>1. IsFiniteSet(S \cup {a}) /\ a \in S \cup {a} /\ (S \cup {a}) \ {a} = S
  BY FS_AddElement
<1> QED
  BY <1>1, SumRemove

(* Functions that agree on a set have the same sum over it.                *)
LEMMA SumAgrees ==
  ASSUME NEW S, IsFiniteSet(S), NEW f, NEW h, 
         \A x \in S : f[x] \in Nat /\ h[x] = f[x]
  PROVE  SumFunctionOnSet(h, S) = SumFunctionOnSet(f, S)
<1>1. PICK g : IsSum(g, f, S)
  BY SumExists
<1>2. IsSum(g, h, S)
  BY <1>1 DEF IsSum
<1> QED
  BY <1>1, <1>2, FoldIsSum

(* A sum of zeros is zero.                                                 *)
LEMMA SumZero ==
  ASSUME NEW S, IsFiniteSet(S), NEW f, \A x \in S : f[x] = 0
  PROVE  SumFunctionOnSet(f, S) = 0
<1> DEFINE g == [s \in SUBSET S |-> 0]
<1>1. IsSum(g, f, S)
  BY DEF IsSum
<1>2. g[S] = 0
  OBVIOUS
<1> HIDE DEF g
<1> QED
  BY <1>1, <1>2, FoldIsSum

(* A function that is d larger at one place has a sum d larger.            *)
LEMMA SumBump ==
  ASSUME NEW S, IsFiniteSet(S), NEW f, NEW h, NEW a \in S,
         NEW d \in Nat, \A x \in S : f[x] \in Nat, h[a] = f[a] + d,
         \A x \in S \ {a} : h[x] = f[x]
  PROVE  SumFunctionOnSet(h, S) = SumFunctionOnSet(f, S) + d
<1>1. IsFiniteSet(S \ {a})
  BY FS_Subset
<1>2. SumFunctionOnSet(f, S) = f[a] + SumFunctionOnSet(f, S \ {a})
  BY SumRemove
<1>3. SumFunctionOnSet(h, S) = h[a] + SumFunctionOnSet(h, S \ {a})
  <2>1. \A x \in S : h[x] \in Nat
    OBVIOUS
  <2> QED
    BY <2>1, SumRemove
<1>4. SumFunctionOnSet(h, S \ {a}) = SumFunctionOnSet(f, S \ {a})
  BY <1>1, SumAgrees
<1>5. SumFunctionOnSet(f, S \ {a}) \in Nat
  BY <1>1, SumType
<1> QED
  BY <1>2, <1>3, <1>4, <1>5

(* Disjoint sets add up separately.                                        *)
LEMMA SumDisjoint ==
  ASSUME NEW S, IsFiniteSet(S), NEW T, IsFiniteSet(T), S \cap T = {},
         NEW f, \A x \in S \cup T : f[x] \in Nat
  PROVE  SumFunctionOnSet(f, S \cup T)
           = SumFunctionOnSet(f, S) + SumFunctionOnSet(f, T)
<1>1. IsFiniteSet(S \cup T)
  BY FS_Union, Zenon
<1>2. PICK g : IsSum(g, f, S \cup T)
  BY <1>1, SumExists
<1> DEFINE Bad == {V \in SUBSET T : g[S \cup V] # g[S] + g[V]}
<1>3. ASSUME Bad # {} PROVE FALSE
  <2>1. PICK V \in Bad : \A W \in SUBSET V : W # V => W \notin Bad
    <3>1. Bad \subseteq SUBSET T
      OBVIOUS
    <3> HIDE DEF Bad
    <3> QED
      BY <1>3, <3>1, MinimalSubset
  <2>2. CASE V = {}
    <3>1. g[S] \in Nat /\ g[{}] = 0 /\ S \cup {} = S
      BY <1>2 DEF IsSum
    <3> QED
      BY <2>1, <2>2, <3>1
  <2>3. ASSUME NEW a \in V PROVE FALSE
    <3>1. V \ {a} \notin Bad /\ V \ {a} \in SUBSET T
      BY <2>1
    <3>2. g[S \cup (V \ {a})] = g[S] + g[V \ {a}]
      BY <3>1
    <3>3. a \notin S /\ (S \cup V) \ {a} = S \cup (V \ {a})
      BY <2>1
    <3>4. g[V] = f[a] + g[V \ {a}]
      BY <1>2, <2>1, Zenon DEF IsSum
    <3>5. g[S \cup V] = f[a] + g[S \cup (V \ {a})]
      <4>1. S \cup V \in SUBSET (S \cup T) /\ a \in S \cup V
        BY <2>1
      <4>2. g[S \cup V] = f[a] + g[(S \cup V) \ {a}]
        BY <1>2, <4>1, Zenon DEF IsSum
      <4> QED
        BY <3>3, <4>2, Zenon
    <3>6. f[a] \in Nat /\ g[S] \in Nat /\ g[V \ {a}] \in Nat
      BY <1>2, <3>1, <2>1 DEF IsSum
    <3>7. g[S \cup V] = g[S] + g[V]
      <4> HIDE DEF Bad
      <4> QED
        BY <3>2, <3>4, <3>5, <3>6
    <3> QED
      BY <2>1, <3>7
  <2> QED
    BY <2>2, <2>3
<1>4. g[S \cup T] = g[S] + g[T]
  BY <1>3, Zenon
<1> HIDE DEF Bad
<1>5. /\ SumFunctionOnSet(f, S \cup T) = g[S \cup T]
      /\ SumFunctionOnSet(f, S) = g[S] /\ SumFunctionOnSet(f, T) = g[T]
  <2>1. ASSUME NEW V \in SUBSET (S \cup T) PROVE SumFunctionOnSet(f, V) = g[V]
    BY <1>1, <1>2, FoldIsSum
  <2> QED
    BY <2>1
<1> QED
  BY <1>4, <1>5

(* More elements never add up to less.                                     *)
LEMMA SumMonotone ==
  ASSUME NEW S, NEW T, IsFiniteSet(T), S \subseteq T,
         NEW f, \A x \in T : f[x] \in Nat
  PROVE  SumFunctionOnSet(f, S) <= SumFunctionOnSet(f, T)
<1>1. IsFiniteSet(S) /\ IsFiniteSet(T \ S)
  BY FS_Subset
<1>2. T = S \cup (T \ S) /\ S \cap (T \ S) = {}
  OBVIOUS
<1>3. SumFunctionOnSet(f, T)
        = SumFunctionOnSet(f, S) + SumFunctionOnSet(f, T \ S)
  BY <1>1, <1>2, SumDisjoint
<1>4. SumFunctionOnSet(f, S) \in Nat /\ SumFunctionOnSet(f, T \ S) \in Nat
  BY <1>1, SumType
<1> QED
  BY <1>3, <1>4

(* Sums add up pointwise.                                                  *)
LEMMA SumPlus ==
  ASSUME NEW S, IsFiniteSet(S), NEW f, NEW d, NEW h,
         \A x \in S : f[x] \in Nat /\ d[x] \in Nat /\ h[x] = f[x] + d[x]
  PROVE  SumFunctionOnSet(h, S) = SumFunctionOnSet(f, S) + SumFunctionOnSet(d, S)
<1>1. PICK F : IsSum(F, f, S)
  BY SumExists
<1>2. PICK D : IsSum(D, d, S)
  BY SumExists
<1> DEFINE H == [s \in SUBSET S |-> F[s] + D[s]]
<1>3. IsSum(H, h, S)
  <2>1. \A s \in SUBSET S : F[s] \in Nat /\ D[s] \in Nat
    BY <1>1, <1>2 DEF IsSum
  <2>2. H \in [SUBSET S -> Nat] /\ H[{}] = 0
    BY <1>1, <1>2, <2>1 DEF IsSum
  <2>3. ASSUME NEW s \in SUBSET S, NEW x \in s PROVE H[s] = h[x] + H[s \ {x}]
    <3> DEFINE r == s \ {x}
    <3>1. F[s] = f[x] + F[r] /\ D[s] = d[x] + D[r] /\ r \in SUBSET S
      BY <1>1, <1>2, Zenon DEF IsSum
    <3> HIDE DEF r
    <3>2. H[s] = F[s] + D[s] /\ H[r] = F[r] + D[r]
      BY <3>1
    <3>3. h[x] = f[x] + d[x] /\ f[x] \in Nat /\ d[x] \in Nat
      OBVIOUS
    <3>4. F[r] \in Nat /\ D[r] \in Nat
      BY <2>1, <3>1
    <3> HIDE DEF H
    <3>5. H[s] = h[x] + H[r]
      BY <3>1, <3>2, <3>3, <3>4
    <3> QED
      BY <3>5 DEF r
  <2> HIDE DEF H
  <2> QED
    BY <2>2, <2>3 DEF IsSum
<1>4. H[S] = F[S] + D[S]
  OBVIOUS
<1> HIDE DEF H
<1>5. S \in SUBSET S
  OBVIOUS
<1> QED
  BY <1>1, <1>2, <1>3, <1>4, <1>5, FoldIsSum

(* A function that is nowhere larger has no larger sum, and has the same   *)
(* sum only if it is the same.                                             *)
LEMMA SumCompare ==
  ASSUME NEW S, IsFiniteSet(S), NEW f, NEW h,
         \A x \in S : f[x] \in Nat /\ h[x] \in Nat /\ f[x] <= h[x]
  PROVE  /\ SumFunctionOnSet(f, S) <= SumFunctionOnSet(h, S)
         /\ SumFunctionOnSet(f, S) = SumFunctionOnSet(h, S) => \A x \in S : f[x] = h[x]
<1> DEFINE d == [x \in S |-> h[x] - f[x]]
<1>1. \A x \in S : d[x] \in Nat /\ h[x] = f[x] + d[x]
  OBVIOUS
<1> HIDE DEF d
<1>2. SumFunctionOnSet(h, S) = SumFunctionOnSet(f, S) + SumFunctionOnSet(d, S)
  BY <1>1, SumPlus
<1>3. SumFunctionOnSet(f, S) \in Nat /\ SumFunctionOnSet(d, S) \in Nat
  BY <1>1, SumType
<1>4. ASSUME SumFunctionOnSet(f, S) = SumFunctionOnSet(h, S), NEW x \in S
      PROVE  f[x] = h[x]
  <2>1. SumFunctionOnSet(d, S) = 0
    BY <1>2, <1>3, <1>4
  <2>2. SumFunctionOnSet(d, S) = d[x] + SumFunctionOnSet(d, S \ {x})
    BY <1>1, SumRemove
  <2>3. SumFunctionOnSet(d, S \ {x}) \in Nat
    <3>1. IsFiniteSet(S \ {x})
      BY FS_Subset
    <3> QED
      BY <1>1, <3>1, SumType
  <2>4. d[x] = 0
    BY <1>1, <2>1, <2>2, <2>3
  <2> QED
    BY <1>1, <2>4
<1> QED
  BY <1>2, <1>3, <1>4

(* Summing over the images of an injection is summing over its domain.     *)
LEMMA SumIndexed ==
  ASSUME NEW S, IsFiniteSet(S), NEW phi, \A x, y \in S : phi[x] = phi[y] => x = y,
         NEW T, T = {phi[x] : x \in S}, IsFiniteSet(T), NEW f, NEW h,
         \A x \in S : f[x] \in Nat /\ f[x] = h[phi[x]]
  PROVE  SumFunctionOnSet(f, S) = SumFunctionOnSet(h, T)
<1>1. \A y \in T : h[y] \in Nat
  OBVIOUS
<1>2. PICK H : IsSum(H, h, T)
  BY <1>1, SumExists, Zenon
<1> DEFINE image(s) == {phi[x] : x \in s}
           F == [s \in SUBSET S |-> H[image(s)]]
<1>3. IsSum(F, f, S)
  <2>1. \A s \in SUBSET S : image(s) \in SUBSET T
    OBVIOUS
  <2>2. image({}) = {}
    OBVIOUS
  <2>3. F \in [SUBSET S -> Nat] /\ F[{}] = 0
    <3> HIDE DEF image
    <3> QED
      BY <1>2, <2>1, <2>2, Zenon DEF IsSum
  <2>4. ASSUME NEW s \in SUBSET S, NEW x \in s PROVE F[s] = f[x] + F[s \ {x}]
    <3>1. image(s) \ {phi[x]} = image(s \ {x}) /\ phi[x] \in image(s)
      OBVIOUS
    <3>2. F[s] = H[image(s)] /\ F[s \ {x}] = H[image(s \ {x})]
      OBVIOUS
    <3>3. image(s) \in SUBSET T
      BY <2>1
    <3>4. \A t \in SUBSET T : \A y \in t : H[t] = h[y] + H[t \ {y}]
      BY <1>2, Zenon DEF IsSum
    <3>5. H[image(s)] = h[phi[x]] + H[image(s) \ {phi[x]}]
      <4> HIDE DEF image
      <4> QED
        BY <3>1, <3>3, <3>4
    <3> HIDE DEF image, F
    <3> QED
      BY <3>1, <3>2, <3>5, Zenon
  <2> HIDE DEF F
  <2> QED
    BY <2>3, <2>4 DEF IsSum
<1>4. F[S] = H[T]
  OBVIOUS
<1> HIDE DEF F
<1>5. S \in SUBSET S /\ T \in SUBSET T
  OBVIOUS
<1> QED
  BY <1>2, <1>3, <1>4, <1>5, FoldIsSum

(* A sum is unchanged by elements that contribute nothing.                 *)
LEMMA SumPadded ==
  ASSUME NEW T, IsFiniteSet(T), NEW S, S \subseteq T, NEW f, NEW h,
         \A x \in S : f[x] \in Nat /\ h[x] = f[x], \A x \in T \ S : h[x] = 0
  PROVE  SumFunctionOnSet(f, S) = SumFunctionOnSet(h, T)
<1>1. IsFiniteSet(S) /\ IsFiniteSet(T \ S)
  BY FS_Subset
<1>2. T = S \cup (T \ S) /\ S \cap (T \ S) = {}
  OBVIOUS
<1>3. \A x \in S \cup (T \ S) : h[x] \in Nat
  OBVIOUS
<1>4. SumFunctionOnSet(h, T) = SumFunctionOnSet(h, S) + SumFunctionOnSet(h, T \ S)
  BY <1>1, <1>2, <1>3, SumDisjoint
<1>5. SumFunctionOnSet(h, S) = SumFunctionOnSet(f, S) /\ SumFunctionOnSet(f, S) \in Nat
  BY <1>1, SumAgrees, SumType
<1>6. SumFunctionOnSet(h, T \ S) = 0
  BY <1>1, SumZero
<1> QED
  BY <1>4, <1>5, <1>6
=============================================================================
