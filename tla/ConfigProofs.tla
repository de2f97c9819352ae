----------------------------- MODULE ConfigProofs -----------------------------
(***************************************************************************)
(* Theorems about the loading of a policy, for every configuration that    *)
(* can be written, whatever the number of its rules and of their values.   *)
(* The invariant says that what is checked is what was written, that the   *)
(* fields checked so far are legal and the rules so far compiled, and what *)
(* a refusal says of the place where it happened.  The lemmas before it    *)
(* say what the two loops over the values of a static rule compute.        *)
(***************************************************************************)
EXTENDS Config, Flattening

-----------------------------------------------------------------------------
(***************************************************************************)
(* The library's FoldLeft is a recursive function of sets of numbers.      *)
(***************************************************************************)

(* The first n numbers have n for their maximum, and so has any set of them *)
(* with n in it.                                                            *)
LEMMA MaxTop ==
    ASSUME NEW n \in Nat, NEW s \in SUBSET (1..n), n \in s
    PROVE  Max(s) = n
<1>1. \A y \in s : n >= y
  OBVIOUS
<1>2. \A x \in s : (\A y \in s : x >= y) => x = n
  <2>1. TAKE x \in s
  <2>2. HAVE \A y \in s : x >= y
  <2>3. x >= n /\ n >= x /\ x \in Nat
    BY <2>2
  <2> QED
    BY <2>3
<1> QED
  BY <1>1, <1>2 DEF Max

(* A set of numbers that is not empty has its maximum in it. *)
LEMMA MaxIn ==
    ASSUME NEW n \in Nat, NEW s \in SUBSET (1..n), s # {}
    PROVE  Max(s) \in s
<1> DEFINE T == {n - x : x \in s}
<1>1. T \subseteq Nat /\ T # {}
  <2>1. \A x \in s : n - x \in Nat /\ n - x \in T
    OBVIOUS
  <2>2. \A t \in T : \E x \in s : t = n - x
    OBVIOUS
  <2> HIDE DEF T
  <2>3. T \subseteq Nat
    BY <2>1, <2>2
  <2>4. T # {}
    BY <2>1
  <2> QED
    BY <2>3, <2>4
<1>2. PICK t \in T : \A u \in T : t <= u
  BY <1>1, Least
<1>3. PICK x \in s : t = n - x
  OBVIOUS
<1>4. \A y \in s : x >= y
  <2>1. TAKE y \in s
  <2>2. n - y \in T /\ x \in Nat /\ y \in Nat
    OBVIOUS
  <2>3. n - x <= n - y
    BY <1>2, <1>3, <2>2
  <2> QED
    BY <2>2, <2>3
<1> QED
  BY <1>4 DEF Max

(* it is how the library folds 1..n, steps[k] taken at k. *)
Folds(it, base, steps, n) ==
    \A s \in SUBSET (1..n) :
        it[s] = IF s = {} THEN base ELSE steps[Max(s)][it[s \ {Max(s)}]]

(* There is such a function. *)
LEMMA FoldExists ==
    ASSUME NEW X, NEW base \in X, NEW N \in Nat, NEW steps \in [1..N -> [X -> X]]
    PROVE  \E it \in [SUBSET (1..N) -> X] : Folds(it, base, steps, N)
<1> DEFINE Has(n) == \E it \in [SUBSET (1..n) -> X] : Folds(it, base, steps, n)
           S == {n \in Nat : n <= N => Has(n)}
<1>1. 0 \in S
  <2> DEFINE it == [s \in SUBSET (1..0) |-> base]
  <2>1. it \in [SUBSET (1..0) -> X]
    OBVIOUS
  <2>2. \A s \in SUBSET (1..0) : s = {} /\ it[s] = base
    OBVIOUS
  <2> HIDE DEF it
  <2>3. Folds(it, base, steps, 0)
    BY <2>2 DEF Folds
  <2>4. Has(0)
    BY <2>1, <2>3
  <2> HIDE DEF Has
  <2> QED
    BY <2>4
<1>2. ASSUME NEW n \in Nat, n \in S
      PROVE  n + 1 \in S
  <2> HIDE DEF Has
  <2> DEFINE k == n + 1
  <2> SUFFICES ASSUME k <= N
               PROVE  Has(k)
    OBVIOUS
  <2>1. Has(n)
    BY <1>2
  <2>2. PICK f \in [SUBSET (1..n) -> X] : Folds(f, base, steps, n)
    BY <2>1 DEF Has
  <2> DEFINE it == [s \in SUBSET (1..k) |-> IF k \in s THEN steps[k][f[s \ {k}]] ELSE f[s]]
  <2>3. k \in Nat /\ k \in 1..N /\ steps[k] \in [X -> X]
    OBVIOUS
  <2>4. \A s \in SUBSET (1..k) : k \notin s => s \in SUBSET (1..n)
    OBVIOUS
  <2>5. \A s \in SUBSET (1..k) :
        s \ {k} \in SUBSET (1..n) /\ s \ {k} \in SUBSET (1..k) /\ k \notin s \ {k}
    OBVIOUS
  <2> HIDE DEF k
  <2>6. it \in [SUBSET (1..k) -> X]
    BY <2>3, <2>4, <2>5
  <2>7. ASSUME NEW s \in SUBSET (1..k)
        PROVE  it[s] = IF s = {} THEN base ELSE steps[Max(s)][it[s \ {Max(s)}]]
    <3>1. CASE k \in s
      <4>1. Max(s) = k
        BY <2>3, <3>1, MaxTop
      <4>2. it[s] = steps[k][f[s \ {k}]] /\ it[s \ {k}] = f[s \ {k}]
        BY <2>5, <3>1
      <4> QED
        BY <3>1, <4>1, <4>2
    <3>2. CASE k \notin s
      <4>1. s \in SUBSET (1..n)
        BY <2>4, <3>2
      <4>2. f[s] = IF s = {} THEN base ELSE steps[Max(s)][f[s \ {Max(s)}]]
        BY <2>2, <4>1 DEF Folds
      <4> DEFINE t == s \ {Max(s)}
      <4>3. t \in SUBSET (1..k) /\ k \notin t
        BY <3>2
      <4> HIDE DEF t
      <4>4. it[s] = f[s] /\ it[t] = f[t]
        BY <3>2, <4>3
      <4> QED
        BY <4>2, <4>4 DEF t
    <3> QED
      BY <3>1, <3>2
  <2> HIDE DEF it
  <2>8. Folds(it, base, steps, k)
    BY <2>7 DEF Folds
  <2> QED
    BY <2>6, <2>8 DEF Has
<1> HIDE DEF S, Has
<1>3. N \in S
  BY <1>1, <1>2, Induction
<1>4. Has(N)
  BY <1>3 DEF S
<1> QED
  BY <1>4 DEF Has

(* e[k] is what the fold of MergeStaticValues makes of k values. *)
Merges(e, values) ==
    /\ e[0] = << >>
    /\ \A k \in 1..Len(values) :
         e[k] = IF values[k] \in Range(e[k - 1]) THEN e[k - 1] ELSE Append(e[k - 1], values[k])

(* The fold of MergeStaticValues, value by value. *)
LEMMA MergedPrefixes ==
    ASSUME NEW V, NEW values \in Seq(V)
    PROVE  \E e : Merges(e, values) /\ Merged(values) = e[Len(values)]
<1> DEFINE N == Len(values)
           X == Seq(V)
           Op(out, v) == IF v \in Range(out) THEN out ELSE Append(out, v)
           steps == [k \in 1..N |-> [out \in X |-> Op(out, values[k])]]
           Is(it) == it = [s \in SUBSET (1..N) |->
                              IF s = {} THEN << >> ELSE Op(it[s \ {Max(s)}], values[Max(s)])]
           iter == CHOOSE it : Is(it)
<1>1. N \in Nat /\ DOMAIN values = 1..N /\ << >> \in X /\ \A k \in 1..N : values[k] \in V
  BY EmptySeq, ElementOfSeq
<1>2. \A out \in X, v \in V : Op(out, v) \in X
  OBVIOUS
<1>3. Merged(values) = iter[1..N]
  BY <1>1 DEF Merged, FoldLeft, MapThenFoldSet
<1>4. Is(iter)
  <2> HIDE DEF Op, X, N
  <2>1. steps \in [1..N -> [X -> X]]
    BY <1>1, <1>2
  <2> HIDE DEF steps
  <2>2. PICK it \in [SUBSET (1..N) -> X] : Folds(it, << >>, steps, N)
    BY <1>1, <2>1, FoldExists
  <2>3. ASSUME NEW s \in SUBSET (1..N)
        PROVE  it[s] = IF s = {} THEN << >> ELSE Op(it[s \ {Max(s)}], values[Max(s)])
    <3>1. CASE s = {}
      BY <2>2, <3>1 DEF Folds
    <3>2. CASE s # {}
      <4> DEFINE m == Max(s)
                 t == s \ {m}
      <4>1. m \in 1..N
        BY <1>1, <3>2, MaxIn
      <4>2. it[s] = steps[m][it[t]] /\ it[t] \in X
        BY <2>2, <3>2 DEF Folds
      <4> HIDE DEF m, t
      <4>3. steps[m][it[t]] = Op(it[t], values[m])
        BY <4>1, <4>2 DEF steps
      <4> QED
        BY <3>2, <4>2, <4>3 DEF m, t
    <3> QED
      BY <3>1, <3>2
  <2>4. Is(it)
    BY <2>3
  <2> HIDE DEF Is
  <2> QED
    BY <2>4
<1> DEFINE e == [k \in 0..N |-> iter[1..k]]
<1>5. e[0] = << >>
  <2> HIDE DEF iter, Op
  <2>1. 1..0 = {} /\ {} \in SUBSET (1..N)
    OBVIOUS
  <2> QED
    BY <1>1, <1>4, <2>1
<1>6. ASSUME NEW k \in 1..N
      PROVE  e[k] = Op(e[k - 1], values[k])
  <2> HIDE DEF iter, Op
  <2>1. k \in Nat /\ 1..k \in SUBSET (1..N) /\ k \in 1..k
    BY <1>1
  <2>2. Max(1..k) = k
    BY <2>1, MaxTop
  <2>3. (1..k) \ {k} = 1..(k - 1) /\ k - 1 \in 0..N /\ k \in 0..N
    BY <1>1
  <2>4. iter[1..k] = Op(iter[(1..k) \ {Max(1..k)}], values[Max(1..k)])
    BY <1>4, <2>1
  <2> QED
    BY <2>2, <2>3, <2>4
<1>7. Merges(e, values) /\ e[N] = iter[1..N]
  <2> HIDE DEF iter, e
  <2>1. Merges(e, values)
    BY <1>5, <1>6 DEF Merges
  <2>2. e[N] = iter[1..N]
    BY <1>1 DEF e
  <2> QED
    BY <2>1, <2>2
<1> HIDE DEF iter, e
<1> QED
  BY <1>3, <1>7

-----------------------------------------------------------------------------
(***************************************************************************)
(* What a fold that keeps some members of a sequence keeps.                *)
(***************************************************************************)

(* e[k] is made of the members of all among the first k that are kept. *)
Keeps(e, all, kept) ==
    /\ e[0] = << >>
    /\ \A k \in 1..Len(all) :
         e[k] = IF k \in kept THEN Append(e[k - 1], all[k]) ELSE e[k - 1]

(* g says where the members of out stand in all: they are those up to k *)
(* that are kept, in their order.                                       *)
Places(g, out, all, kept, k) ==
    /\ \A m \in 1..Len(out) : g[m] \in kept /\ g[m] \in 1..k /\ out[m] = all[g[m]]
    /\ \A m, n \in 1..Len(out) : m < n => g[m] < g[n]
    /\ \A l \in 1..k : l \in kept => \E m \in 1..Len(out) : g[m] = l

(* A fold that keeps some members keeps them in their order. *)
LEMMA KeptInOrder ==
    ASSUME NEW V, NEW all \in Seq(V), NEW kept, NEW e, Keeps(e, all, kept)
    PROVE  \A k \in 0..Len(all) : e[k] \in Seq(V) /\ \E g : Places(g, e[k], all, kept, k)
<1> DEFINE Good(k) == e[k] \in Seq(V) /\ \E g : Places(g, e[k], all, kept, k)
           S == {k \in Nat : k <= Len(all) => Good(k)}
<1>1. Len(all) \in Nat /\ \A k \in 1..Len(all) : all[k] \in V
  BY ElementOfSeq
<1>2. 0 \in S
  <2>1. e[0] = << >> /\ Len(e[0]) = 0 /\ e[0] \in Seq(V)
    BY EmptySeq DEF Keeps
  <2>2. Places(0, e[0], all, kept, 0)
    BY <2>1 DEF Places
  <2>3. Good(0)
    BY <2>1, <2>2
  <2> HIDE DEF Good
  <2> QED
    BY <2>3
<1>3. ASSUME NEW n \in Nat, n \in S
      PROVE  n + 1 \in S
  <2> DEFINE k == n + 1
  <2> HIDE DEF Good
  <2> SUFFICES ASSUME k <= Len(all)
               PROVE  Good(k)
    OBVIOUS
  <2>1. k \in 1..Len(all) /\ k - 1 = n /\ n \in Nat /\ n < k /\ Good(n) /\ all[k] \in V
    BY <1>1, <1>3
  <2> HIDE DEF k
  <2>2. e[k] = IF k \in kept THEN Append(e[n], all[k]) ELSE e[n]
    BY <2>1 DEF Keeps
  <2>3. e[n] \in Seq(V)
    BY <2>1 DEF Good
  <2>4. PICK g : Places(g, e[n], all, kept, n)
    BY <2>1 DEF Good
  <2> DEFINE c == Len(e[n])
  <2>5. c \in Nat
    BY <2>3
  <2>6. CASE k \notin kept
    <3>1. e[k] = e[n]
      BY <2>2, <2>6
    <3>2. \A l \in 1..k : l \in kept => l \in 1..n
      BY <2>1, <2>6
    <3>3. Places(g, e[k], all, kept, k)
      BY <2>1, <2>4, <3>1, <3>2 DEF Places
    <3> QED
      BY <2>3, <3>1, <3>3 DEF Good
  <2>7. CASE k \in kept
    <3> DEFINE out == e[k]
               h == [m \in 1..(c + 1) |-> IF m = c + 1 THEN k ELSE g[m]]
    <3>1. /\ out \in Seq(V) /\ Len(out) = c + 1 /\ out[c + 1] = all[k]
          /\ \A m \in 1..c : out[m] = e[n][m]
      BY <2>1, <2>2, <2>3, <2>7, AppendProperties
    <3>2. h[c + 1] = k /\ \A m \in 1..c : h[m] = g[m]
      BY <2>5
    <3> HIDE DEF h, out
    <3>3. /\ \A m \in 1..c : g[m] \in kept /\ g[m] \in 1..n /\ e[n][m] = all[g[m]]
          /\ \A a, b \in 1..c : a < b => g[a] < g[b]
          /\ \A l \in 1..n : l \in kept => \E m \in 1..c : g[m] = l
      BY <2>4 DEF Places
    <3> HIDE DEF c
    <3>4. ASSUME NEW m \in 1..(c + 1)
          PROVE  h[m] \in kept /\ h[m] \in 1..k /\ out[m] = all[h[m]]
      <4>1. CASE m = c + 1
        BY <2>1, <2>7, <3>1, <3>2, <4>1
      <4>2. CASE m \in 1..c
        BY <2>1, <3>1, <3>2, <3>3, <4>2
      <4> QED
        BY <2>5, <4>1, <4>2
    <3>5. ASSUME NEW a \in 1..(c + 1), NEW b \in 1..(c + 1), a < b
          PROVE  h[a] < h[b]
      <4>1. a \in 1..c
        BY <2>5, <3>5
      <4>2. CASE b = c + 1
        <5>1. h[a] \in 1..n /\ h[b] = k
          BY <3>2, <3>3, <4>1, <4>2
        <5> QED
          BY <2>1, <5>1
      <4>3. CASE b \in 1..c
        BY <3>2, <3>3, <3>5, <4>1, <4>3
      <4> QED
        BY <2>5, <4>2, <4>3
    <3>6. ASSUME NEW l \in 1..k, l \in kept
          PROVE  \E m \in 1..(c + 1) : h[m] = l
      <4>1. CASE l = k
        <5>1. c + 1 \in 1..(c + 1)
          BY <2>5
        <5> QED
          BY <3>2, <4>1, <5>1
      <4>2. CASE l # k
        <5>1. l \in 1..n
          BY <2>1, <4>2
        <5>2. PICK m \in 1..c : g[m] = l
          BY <3>3, <3>6, <5>1
        <5>3. m \in 1..(c + 1)
          BY <2>5, <5>2
        <5> QED
          BY <3>2, <5>2, <5>3
      <4> QED
        BY <4>1, <4>2
    <3>7. Places(h, out, all, kept, k)
      BY <3>1, <3>4, <3>5, <3>6 DEF Places
    <3> QED
      BY <3>1, <3>7 DEF Good, out
  <2> QED
    BY <2>6, <2>7
<1> HIDE DEF S, Good
<1>4. Nat \subseteq S
  BY <1>2, <1>3, Induction
<1>5. \A k \in 0..Len(all) : Good(k)
  BY <1>1, <1>4 DEF S
<1> QED
  BY <1>5 DEF Good

(* The members of out are the kept ones of all. *)
LEMMA KeptRange ==
    ASSUME NEW V, NEW out \in Seq(V), NEW all, NEW kept, NEW k, NEW g,
           Places(g, out, all, kept, k)
    PROVE  \A v : v \in Range(out) <=> \E l \in 1..k : l \in kept /\ v = all[l]
<1>1. \A m \in 1..Len(out) : g[m] \in kept /\ g[m] \in 1..k /\ out[m] = all[g[m]]
  BY DEF Places
<1>2. \A l \in 1..k : l \in kept => \E m \in 1..Len(out) : out[m] = all[l]
  <2>1. TAKE l \in 1..k
  <2>. HAVE l \in kept
  <2>2. PICK m \in 1..Len(out) : g[m] = l
    BY DEF Places
  <2>3. out[m] = all[l]
    BY <2>2, <1>1
  <2> QED
    BY <2>3
<1> QED
  BY <1>1, <1>2 DEF Range

-----------------------------------------------------------------------------
(***************************************************************************)
(* MergeStaticValues.                                                      *)
(***************************************************************************)

(* Where a value stands first. *)
IsFirst(values, l) == \A j \in 1..(l - 1) : values[j] # values[l]

Firsts(values) == {l \in 1..Len(values) : IsFirst(values, l)}

(* The merged values are those of the list, each where it stands first. *)
LEMMA MergedFirsts ==
    ASSUME NEW V, NEW values \in Seq(V)
    PROVE  /\ Merged(values) \in Seq(V)
           /\ \E g : Places(g, Merged(values), values, Firsts(values), Len(values))
<1> DEFINE N == Len(values)
<1>1. N \in Nat
  OBVIOUS
<1>2. PICK e : Merges(e, values) /\ Merged(values) = e[N]
  BY MergedPrefixes
<1> DEFINE kept == {k \in 1..N : values[k] \notin Range(e[k - 1])}
<1>3. Keeps(e, values, kept)
  BY <1>2 DEF Merges, Keeps
<1>4. \A k \in 0..N : e[k] \in Seq(V) /\ \E g : Places(g, e[k], values, kept, k)
  <2> HIDE DEF kept
  <2> QED
    BY <1>3, KeptInOrder
<1>5. ASSUME NEW k \in 1..N
      PROVE  \A v : v \in Range(e[k - 1]) <=> \E l \in 1..(k - 1) : l \in kept /\ v = values[l]
  <2> DEFINE p == k - 1
  <2>1. p \in Nat /\ p \in 0..N
    BY <1>1
  <2> HIDE DEF kept, p
  <2>2. PICK g : Places(g, e[p], values, kept, p)
    BY <1>4, <2>1
  <2>3. e[p] \in Seq(V)
    BY <1>4, <2>1
  <2>4. \A v : v \in Range(e[p]) <=> \E l \in 1..p : l \in kept /\ v = values[l]
    BY <2>1, <2>2, <2>3, KeptRange
  <2> QED
    BY <2>4 DEF p
<1>6. ASSUME NEW k \in 1..N
      PROVE  k \in kept <=> \A l \in 1..(k - 1) : l \in kept => values[l] # values[k]
  <2>1. k \in kept <=> values[k] \notin Range(e[k - 1])
    OBVIOUS
  <2> HIDE DEF kept
  <2> QED
    BY <1>5, <2>1
<1> HIDE DEF kept
<1>7. ASSUME NEW k \in 1..N
      PROVE  \E l \in 1..k : l \in kept /\ values[l] = values[k]
  <2>1. CASE k \in kept
    BY <1>1, <2>1
  <2>2. CASE k \notin kept
    BY <1>1, <1>6, <2>2
  <2> QED
    BY <2>1, <2>2
<1>8. ASSUME NEW k \in 1..N
      PROVE  k \in kept <=> IsFirst(values, k)
  <2>1. ASSUME k \in kept, NEW j \in 1..(k - 1), values[j] = values[k]
        PROVE  FALSE
    <3>1. j \in 1..N
      BY <1>1
    <3>2. PICK l \in 1..j : l \in kept /\ values[l] = values[j]
      BY <1>7, <3>1
    <3>3. l \in 1..(k - 1)
      BY <1>1
    <3> QED
      BY <1>6, <2>1, <3>2, <3>3
  <2>2. ASSUME IsFirst(values, k)
        PROVE  k \in kept
    BY <1>6, <2>2 DEF IsFirst
  <2> QED
    BY <2>1, <2>2 DEF IsFirst
<1>9. kept \subseteq 1..N
  BY DEF kept
<1>10. kept = Firsts(values)
  BY <1>8, <1>9 DEF Firsts
<1> QED
  BY <1>1, <1>2, <1>4, <1>10

(* Nothing is lost by merging and nothing is added. *)
LEMMA MergedRange ==
    ASSUME NEW V, NEW values \in Seq(V)
    PROVE  Range(Merged(values)) = Range(values)
<1>1. PICK out : out = Merged(values)
  OBVIOUS
<1>2. PICK first : first = Firsts(values)
  OBVIOUS
<1>3. PICK N : N = Len(values)
  OBVIOUS
<1>4. N \in Nat /\ out \in Seq(V)
  BY <1>1, <1>3, MergedFirsts
<1>5. PICK g : Places(g, out, values, first, N)
  BY <1>1, <1>2, <1>3, MergedFirsts
<1>6. \A v : v \in Range(out) <=> \E l \in 1..N : l \in first /\ v = values[l]
  BY <1>4, <1>5, KeptRange
<1>7. ASSUME NEW k \in 1..N
      PROVE  \E l \in 1..N : l \in first /\ values[l] = values[k]
  <2> DEFINE T == {l \in 1..N : values[l] = values[k]}
  <2>1. T \subseteq Nat /\ T # {}
    BY <1>4
  <2>2. PICK l \in T : \A j \in T : l <= j
    BY <2>1, Least
  <2>3. l \in 1..N /\ values[l] = values[k]
    BY <2>2
  <2>4. ASSUME NEW j \in 1..(l - 1), values[j] = values[l]
        PROVE  FALSE
    <3>1. j \in T /\ j < l /\ j \in Nat /\ l \in Nat
      BY <1>4, <2>3, <2>4
    <3>2. l <= j
      BY <2>2, <3>1
    <3> QED
      BY <3>1, <3>2
  <2>5. l \in first
    BY <1>2, <1>3, <2>3, <2>4 DEF Firsts, IsFirst
  <2> QED
    BY <2>3, <2>5
<1>8. \A l \in 1..N : values[l] \in Range(values)
  BY <1>3 DEF Range
<1>9. \A v \in Range(values) : \E k \in 1..N : v = values[k]
  BY <1>3 DEF Range
<1>10. \A v \in Range(out) : v \in Range(values)
  BY <1>6, <1>8
<1>11. \A v \in Range(values) : v \in Range(out)
  BY <1>6, <1>7, <1>9
<1> QED
  BY <1>1, <1>10, <1>11, Zenon

(* A value is merged only once. *)
LEMMA MergedOnce ==
    ASSUME NEW V, NEW values \in Seq(V)
    PROVE  IsInjective(Merged(values))
<1>1. PICK out : out = Merged(values)
  OBVIOUS
<1>2. PICK g : Places(g, out, values, Firsts(values), Len(values))
  BY <1>1, MergedFirsts
<1>3. out \in Seq(V) /\ DOMAIN out = 1..Len(out) /\ Len(out) \in Nat
  BY <1>1, MergedFirsts
<1>4. ASSUME NEW a \in 1..Len(out), NEW b \in 1..Len(out), a < b
      PROVE  out[a] # out[b]
  <2>1. /\ g[a] < g[b] /\ g[a] \in 1..Len(values) /\ g[b] \in 1..Len(values)
        /\ IsFirst(values, g[b]) /\ out[a] = values[g[a]] /\ out[b] = values[g[b]]
    BY <1>2, <1>4 DEF Places, Firsts
  <2>2. g[a] \in 1..(g[b] - 1)
    BY <2>1
  <2> QED
    BY <2>1, <2>2 DEF IsFirst
<1>5. \A a, b \in 1..Len(out) : out[a] = out[b] => a = b
  <2>1. TAKE a, b \in 1..Len(out)
  <2>2. a < b \/ b < a \/ a = b
    BY <1>3
  <2> QED
    BY <1>4, <2>2
<1> QED
  BY <1>1, <1>3, <1>5, Zenon DEF IsInjective

(* Two lists are merged to the values of the first before those of the     *)
(* second, those of the first in the order in which they stand first.      *)
LEMMA MergedBefore ==
    ASSUME NEW V, NEW values \in Seq(V), NEW others \in Seq(V),
           NEW found, found = Merged(values \o others),
           NEW k \in DOMAIN found, NEW l \in DOMAIN found, k < l, found[l] \in Range(values)
    PROVE  \E m, n \in DOMAIN values :
               /\ m < n
               /\ values[m] = found[k] /\ IsFirst(values, m)
               /\ values[n] = found[l] /\ IsFirst(values, n)
<1> DEFINE all == values \o others
<1>1. found = Merged(all)
  OBVIOUS
<1>2. /\ all \in Seq(V) /\ Len(values) \in Nat /\ Len(all) \in Nat /\ Len(values) <= Len(all)
      /\ DOMAIN values = 1..Len(values)
      /\ \A i \in 1..Len(values) : all[i] = values[i]
  BY ConcatProperties
<1> HIDE DEF all
<1>3. PICK g : Places(g, found, all, Firsts(all), Len(all))
  BY <1>1, <1>2, MergedFirsts
<1>4. found \in Seq(V) /\ k \in 1..Len(found) /\ l \in 1..Len(found)
  BY <1>1, <1>2, MergedFirsts
<1>5. PICK m, n : m = g[k] /\ n = g[l]
  OBVIOUS
<1>6. /\ m < n /\ m \in 1..Len(all) /\ n \in 1..Len(all)
      /\ IsFirst(all, m) /\ IsFirst(all, n) /\ found[k] = all[m] /\ found[l] = all[n]
  BY <1>3, <1>4, <1>5 DEF Places, Firsts
<1>7. PICK i \in 1..Len(values) : values[i] = found[l]
  BY <1>2 DEF Range
<1>8. n <= i
  <2>1. CASE i \in 1..(n - 1)
    BY <1>2, <1>6, <1>7, <2>1 DEF IsFirst
  <2>2. CASE i \notin 1..(n - 1)
    BY <1>2, <1>6, <2>2
  <2> QED
    BY <2>1, <2>2
<1>9. m \in 1..Len(values) /\ n \in 1..Len(values)
  BY <1>2, <1>6, <1>8
<1>10. ASSUME NEW p \in 1..Len(values), IsFirst(all, p)
      PROVE  IsFirst(values, p)
  <2>1. \A j \in 1..(p - 1) : j \in 1..Len(values)
    BY <1>2
  <2> QED
    BY <1>2, <1>10, <2>1 DEF IsFirst
<1> QED
  BY <1>2, <1>6, <1>9, <1>10

-----------------------------------------------------------------------------
(***************************************************************************)
(* parse_values_text.                                                      *)
(***************************************************************************)

(* A trimmed value has as many fields as before, and no more is trimmed. *)
LEMMA Trimmed ==
    ASSUME NEW v \in Line
    PROVE  /\ Trim(v) \in Line /\ Len(Trim(v)) = Len(v)
           /\ Trim(v)[1] = Unpadded[v[1]] /\ \A n \in 2..Len(v) : Trim(v)[n] = v[n]
           /\ Trim(Trim(v)) = Trim(v)
<1>1. v \in Seq(Words) /\ Len(v) \in Nat /\ Len(v) # 0 /\ DOMAIN v = 1..Len(v)
  BY EmptySeq DEF Line
<1>2. v[1] \in Words /\ Unpadded[v[1]] \in Words /\ Unpadded[Unpadded[v[1]]] = Unpadded[v[1]]
  BY <1>1, ElementOfSeq, WordsAssumption
<1> DEFINE t == [n \in 1..Len(v) |-> IF n = 1 THEN Unpadded[v[1]] ELSE v[n]]
<1>3. Trim(v) = t
  BY <1>1 DEF Trim
<1>4. t \in Seq(Words) /\ Len(t) = Len(v)
  <2>1. \A n \in 1..Len(v) : t[n] \in Words
    BY <1>1, <1>2, ElementOfSeq
  <2> QED
    BY <1>1, <2>1
<1>5. 1 \in 1..Len(v) /\ t[1] = Unpadded[v[1]] /\ \A n \in 2..Len(v) : t[n] = v[n]
  BY <1>1
<1>6. Trim(t) = t
  <2>1. Trim(t) = [n \in 1..Len(v) |-> IF n = 1 THEN Unpadded[t[1]] ELSE t[n]]
    BY <1>1 DEF Trim
  <2>2. \A n \in 1..Len(v) : t[n] = IF n = 1 THEN Unpadded[t[1]] ELSE t[n]
    BY <1>2, <1>5
  <2>3. t = [n \in 1..Len(v) |-> t[n]]
    OBVIOUS
  <2> HIDE DEF t
  <2> QED
    BY <2>1, <2>2, <2>3
<1> HIDE DEF t
<1>7. t \in Line
  BY <1>1, <1>4, EmptySeq DEF Line
<1> QED
  BY <1>3, <1>4, <1>5, <1>6, <1>7

(* e[k] is what the filter of parse_values_text leaves of k entries. *)
Filters(e, list) ==
    /\ e[0] = << >>
    /\ \A k \in 1..Len(list) :
         e[k] = IF Trim(list[k]) = <<Empty>> THEN e[k - 1] ELSE Append(e[k - 1], Trim(list[k]))

(* The filter of parse_values_text, entry by entry. *)
LEMMA EntriesPrefixes ==
    ASSUME NEW list \in Seq(Line)
    PROVE  \E e : Filters(e, list) /\ Entries(list) = e[Len(list)]
<1> DEFINE N == Len(list)
           X == Seq(Line)
           Op(out, v) == IF Trim(v) = <<Empty>> THEN out ELSE Append(out, Trim(v))
           steps == [k \in 1..N |-> [out \in X |-> Op(out, list[k])]]
           Is(it) == it = [s \in SUBSET (1..N) |->
                              IF s = {} THEN << >> ELSE Op(it[s \ {Max(s)}], list[Max(s)])]
           iter == CHOOSE it : Is(it)
<1>1. N \in Nat /\ DOMAIN list = 1..N /\ << >> \in X /\ \A k \in 1..N : list[k] \in Line
  BY EmptySeq, ElementOfSeq
<1>2. \A out \in X, v \in Line : Op(out, v) \in X
  BY Trimmed
<1>3. Entries(list) = iter[1..N]
  BY <1>1 DEF Entries, FoldLeft, MapThenFoldSet
<1>4. Is(iter)
  <2> HIDE DEF Op, X, N
  <2>1. steps \in [1..N -> [X -> X]]
    BY <1>1, <1>2
  <2> HIDE DEF steps
  <2>2. PICK it \in [SUBSET (1..N) -> X] : Folds(it, << >>, steps, N)
    BY <1>1, <2>1, FoldExists
  <2>3. ASSUME NEW s \in SUBSET (1..N)
        PROVE  it[s] = IF s = {} THEN << >> ELSE Op(it[s \ {Max(s)}], list[Max(s)])
    <3>1. CASE s = {}
      BY <2>2, <3>1 DEF Folds
    <3>2. CASE s # {}
      <4> DEFINE m == Max(s)
                 t == s \ {m}
      <4>1. m \in 1..N
        BY <1>1, <3>2, MaxIn
      <4>2. it[s] = steps[m][it[t]] /\ it[t] \in X
        BY <2>2, <3>2 DEF Folds
      <4> HIDE DEF m, t
      <4>3. steps[m][it[t]] = Op(it[t], list[m])
        BY <4>1, <4>2 DEF steps
      <4> QED
        BY <3>2, <4>2, <4>3 DEF m, t
    <3> QED
      BY <3>1, <3>2
  <2>4. Is(it)
    BY <2>3
  <2> HIDE DEF Is
  <2> QED
    BY <2>4
<1> DEFINE e == [k \in 0..N |-> iter[1..k]]
<1>5. e[0] = << >>
  <2> HIDE DEF iter, Op
  <2>1. 1..0 = {} /\ {} \in SUBSET (1..N)
    OBVIOUS
  <2> QED
    BY <1>1, <1>4, <2>1
<1>6. ASSUME NEW k \in 1..N
      PROVE  e[k] = Op(e[k - 1], list[k])
  <2> HIDE DEF iter, Op
  <2>1. k \in Nat /\ 1..k \in SUBSET (1..N) /\ k \in 1..k
    BY <1>1
  <2>2. Max(1..k) = k
    BY <2>1, MaxTop
  <2>3. (1..k) \ {k} = 1..(k - 1) /\ k - 1 \in 0..N /\ k \in 0..N
    BY <1>1
  <2>4. iter[1..k] = Op(iter[(1..k) \ {Max(1..k)}], list[Max(1..k)])
    BY <1>4, <2>1
  <2> QED
    BY <2>2, <2>3, <2>4
<1>7. Filters(e, list) /\ e[N] = iter[1..N]
  <2> HIDE DEF iter, e
  <2>1. Filters(e, list)
    BY <1>5, <1>6 DEF Filters
  <2>2. e[N] = iter[1..N]
    BY <1>1 DEF e
  <2> QED
    BY <2>1, <2>2
<1> HIDE DEF iter, e
<1> QED
  BY <1>3, <1>7

(* The entries of a list, those that are empty among them. *)
TrimmedAll(list) == [n \in 1..Len(list) |-> Trim(list[n])]

(* The entries that are not empty once they are trimmed. *)
Filled(list) == {n \in 1..Len(list) : Trim(list[n]) # <<Empty>>}

(* The entries are the trimmed ones that are filled, in their order. *)
LEMMA EntriesFilled ==
    ASSUME NEW list \in Seq(Line)
    PROVE  /\ Entries(list) \in Seq(Line)
           /\ \E g : Places(g, Entries(list), TrimmedAll(list), Filled(list), Len(list))
<1> DEFINE all == TrimmedAll(list)
<1>1. Len(list) \in Nat /\ \A n \in 1..Len(list) : list[n] \in Line /\ Trim(list[n]) \in Line
  BY ElementOfSeq, Trimmed
<1>2. all \in Seq(Line) /\ Len(all) = Len(list) /\ \A n \in 1..Len(list) : all[n] = Trim(list[n])
  BY <1>1 DEF TrimmedAll
<1>3. PICK e : Filters(e, list) /\ Entries(list) = e[Len(list)]
  BY EntriesPrefixes
<1> HIDE DEF all
<1>4. Keeps(e, all, Filled(list))
  <2>1. ASSUME NEW k \in 1..Len(list)
        PROVE  e[k] = IF k \in Filled(list) THEN Append(e[k - 1], all[k]) ELSE e[k - 1]
    BY <1>2, <1>3 DEF Filters, Filled
  <2>2. e[0] = << >>
    BY <1>3 DEF Filters
  <2> QED
    BY <1>2, <2>1, <2>2 DEF Keeps
<1>5. Len(list) \in 0..Len(all)
  BY <1>1, <1>2
<1>6. e[Len(list)] \in Seq(Line) /\ \E g : Places(g, e[Len(list)], all, Filled(list), Len(list))
  BY <1>2, <1>4, <1>5, KeptInOrder
<1> QED
  BY <1>3, <1>6 DEF all

(* The entries are the trimmed ones that are filled. *)
LEMMA EntriesRange ==
    ASSUME NEW list \in Seq(Line)
    PROVE  \A v : v \in Range(Entries(list)) <=> \E n \in Filled(list) : v = Trim(list[n])
<1>1. PICK out : out = Entries(list)
  OBVIOUS
<1>2. PICK all : all = TrimmedAll(list)
  OBVIOUS
<1>3. PICK g : Places(g, out, all, Filled(list), Len(list))
  BY <1>1, <1>2, EntriesFilled
<1>4. out \in Seq(Line)
  BY <1>1, EntriesFilled
<1>5. \A v : v \in Range(out) <=> \E n \in 1..Len(list) : n \in Filled(list) /\ v = all[n]
  BY <1>3, <1>4, KeptRange
<1>6. \A n \in 1..Len(list) : all[n] = Trim(list[n])
  BY <1>2 DEF TrimmedAll
<1>7. \A n \in Filled(list) : n \in 1..Len(list)
  BY DEF Filled
<1>8. \A v : v \in Range(out) <=> \E n \in Filled(list) : v = Trim(list[n])
  BY <1>5, <1>6, <1>7
<1> QED
  BY <1>1, <1>8

(* There are as many entries as are filled: none, one, or more. *)
LEMMA EntriesCounted ==
    ASSUME NEW list \in Seq(Line)
    PROVE  /\ Filled(list) = {} => Entries(list) = << >>
           /\ \A n : Filled(list) = {n} => Entries(list) = <<Trim(list[n])>>
           /\ \A m, n \in Filled(list) : m # n => Len(Entries(list)) > 1
<1>1. PICK out : out = Entries(list)
  OBVIOUS
<1>2. PICK all : all = TrimmedAll(list)
  OBVIOUS
<1>3. PICK g : Places(g, out, all, Filled(list), Len(list))
  BY <1>1, <1>2, EntriesFilled
<1>4. out \in Seq(Line) /\ Len(out) \in Nat
  BY <1>1, EntriesFilled
<1>5. ASSUME Filled(list) = {}
      PROVE  out = << >>
  <2>1. \A m \in 1..Len(out) : g[m] \in {}
    BY <1>3, <1>5 DEF Places
  <2>2. Len(out) = 0
    BY <1>4, <2>1
  <2> QED
    BY <1>4, <2>2, EmptySeq
<1>6. ASSUME NEW n, Filled(list) = {n}
      PROVE  out = <<Trim(list[n])>>
  <2>1. n \in 1..Len(list) /\ all[n] = Trim(list[n])
    BY <1>2, <1>6 DEF Filled, TrimmedAll
  <2>2. \E m \in 1..Len(out) : g[m] = n
    BY <1>3, <1>6, <2>1 DEF Places
  <2>3. \A m \in 1..Len(out) : g[m] = n /\ out[m] = all[n]
    BY <1>3, <1>6 DEF Places
  <2>4. Len(out) < 2
    <3> SUFFICES ASSUME Len(out) >= 2 PROVE FALSE
      BY <1>4
    <3>1. 1 \in 1..Len(out) /\ 2 \in 1..Len(out)
      BY <1>4
    <3>2. g[1] < g[2]
      BY <1>3, <3>1 DEF Places
    <3>3. g[1] = n /\ g[2] = n /\ n \in Int
      BY <2>1, <2>3, <3>1
    <3>4. n < n
      BY <3>2, <3>3
    <3> QED
      BY <3>3, <3>4
  <2>5. Len(out) = 1
    <3>1. Len(out) # 0
      BY <2>2
    <3> DEFINE c == Len(out)
    <3>2. c \in Nat /\ c < 2 /\ c # 0
      BY <1>4, <2>4, <3>1
    <3> HIDE DEF c
    <3>3. c = 1
      BY <3>2
    <3> QED
      BY <3>3 DEF c
  <2>6. out[1] = Trim(list[n])
    BY <2>1, <2>3, <2>5
  <2> QED
    BY <1>4, <2>5, <2>6
<1>7. ASSUME NEW m \in Filled(list), NEW n \in Filled(list), m # n
      PROVE  Len(out) > 1
  <2>1. m \in 1..Len(list) /\ n \in 1..Len(list)
    BY DEF Filled
  <2>2. PICK a, b \in 1..Len(out) : g[a] = m /\ g[b] = n
    BY <1>3, <2>1 DEF Places
  <2> QED
    BY <1>4, <1>7, <2>2
<1> QED
  BY <1>1, <1>5, <1>6, <1>7

(* A value of several fields splits into values of one field. *)
LEMMA Splitting ==
    ASSUME NEW v \in Line
    PROVE  /\ Split(v) \in Seq(Line) /\ Len(Split(v)) = Len(v)
           /\ \A n \in 1..Len(v) : Split(v)[n] = <<v[n]>>
<1>1. v \in Seq(Words) /\ Len(v) \in Nat /\ DOMAIN v = 1..Len(v)
  BY DEF Line
<1>2. \A n \in 1..Len(v) : <<v[n]>> \in Line
  BY <1>1, ElementOfSeq DEF Line
<1> QED
  BY <1>1, <1>2 DEF Split

(* What a list holds as a whole, as Listed says it. *)
Whole(list) == {Trim(v) : v \in Range(list)} \ {<<Empty>>}

(* The entries of a list are what Listed calls the whole of it. *)
LEMMA EntriesWhole ==
    ASSUME NEW list \in Seq(Line)
    PROVE  Range(Entries(list)) = Whole(list)
<1>1. \A v : v \in Range(Entries(list)) <=> \E n \in Filled(list) : v = Trim(list[n])
  BY EntriesRange
<1>2. DOMAIN list = 1..Len(list)
  OBVIOUS
<1>3. \A v : v \in Whole(list) <=> \E n \in Filled(list) : v = Trim(list[n])
  BY <1>2 DEF Whole, Filled, Range
<1> QED
  BY <1>1, <1>3

(* The values of a bulk text are those it is meant to hold. *)
LEMMA Parsed ==
    ASSUME NEW text \in ValuesText
    PROVE  /\ ParseValuesText(text) \in Seq(Line)
           /\ Range(ParseValuesText(text)) = Listed(text)
<1> DEFINE filled == Filled(text.lines)
           lines == Entries(text.lines)
<1>1. text.lines \in Seq(Line) /\ text.array \in Option(Seq(Line))
  BY DEF ValuesText
<1>2. lines \in Seq(Line)
  BY <1>1, EntriesFilled
<1>3. filled = {n \in DOMAIN text.lines : Trim(text.lines[n]) # <<Empty>>}
  BY <1>1 DEF Filled
<1>4. ParseValuesText(text) =
        IF text.array # << >> THEN Entries(text.array[1])
        ELSE IF Len(lines) = 1 /\ Len(lines[1]) > 1 THEN Entries(Split(lines[1]))
        ELSE lines
  BY DEF ParseValuesText
<1>5. Listed(text) =
        IF text.array # << >> THEN Whole(text.array[1])
        ELSE IF \E m, n \in filled : m # n THEN Whole(text.lines)
        ELSE UNION {Whole(Split(Trim(text.lines[n]))) : n \in filled}
  BY <1>3, Zenon DEF Listed, Whole
<1> HIDE DEF filled, lines
<1>6. CASE text.array # << >>
  <2>1. text.array[1] \in Seq(Line)
    BY <1>1, <1>6 DEF Option, Required
  <2> QED
    BY <1>4, <1>5, <1>6, <2>1, EntriesWhole, EntriesFilled
<1>7. CASE text.array = << >> /\ \E m, n \in filled : m # n
  <2>1. Len(lines) > 1
    <3>1. PICK m, n \in Filled(text.lines) : m # n
      BY <1>7 DEF filled
    <3>2. \A a, b \in Filled(text.lines) : a # b => Len(Entries(text.lines)) > 1
      BY <1>1, EntriesCounted
    <3> QED
      BY <3>1, <3>2 DEF lines
  <2>2. ParseValuesText(text) = lines
    <3> DEFINE c == Len(lines)
    <3>1. c > 1
      BY <2>1
    <3> HIDE DEF c
    <3>2. c # 1
      BY <3>1
    <3> QED
      BY <1>4, <1>7, <3>2 DEF c
  <2>3. Range(lines) = Whole(text.lines)
    BY <1>1, EntriesWhole DEF lines
  <2> QED
    BY <1>2, <1>5, <1>7, <2>2, <2>3
<1>8. CASE text.array = << >> /\ filled = {}
  <2>1. lines = << >> /\ Len(lines) = 0 /\ Range(lines) = {}
    BY <1>1, <1>8, EntriesCounted DEF filled, lines, Range
  <2>2. ParseValuesText(text) = lines /\ Listed(text) = {}
    BY <1>4, <1>5, <1>8, <2>1
  <2> QED
    BY <1>2, <2>1, <2>2
<1>9. ASSUME text.array = << >>, NEW n, filled = {n}
      PROVE  /\ ParseValuesText(text) \in Seq(Line)
             /\ Range(ParseValuesText(text)) = Listed(text)
  <2> DEFINE t == Trim(text.lines[n])
  <2>1. text.lines[n] \in Line /\ t # <<Empty>>
    <3>1. n \in DOMAIN text.lines /\ t # <<Empty>>
      BY <1>3, <1>9
    <3> QED
      BY <1>1, <3>1, ElementOfSeq
  <2>2. t \in Line /\ Trim(t) = t
    BY <2>1, Trimmed
  <2>3. lines = <<t>>
    BY <1>1, <1>9, EntriesCounted DEF filled, lines
  <2> HIDE DEF t
  <2>4. Len(lines) = 1 /\ lines[1] = t /\ Range(lines) = {t}
    BY <2>3 DEF Range
  <2>5. Listed(text) = Whole(Split(t))
    BY <1>5, <1>9 DEF t
  <2>6. CASE Len(t) > 1
    <3>1. ParseValuesText(text) = Entries(Split(t))
      BY <1>4, <1>9, <2>4, <2>6
    <3> QED
      BY <2>2, <2>5, <3>1, Splitting, EntriesWhole, EntriesFilled
  <2>7. CASE ~(Len(t) > 1)
    <3>1. ~(Len(lines[1]) > 1)
      BY <2>4, <2>7
    <3>2. ParseValuesText(text) = lines
      BY <1>4, <1>9, <3>1
    <3>3. t \in Seq(Words) /\ Len(t) = 1
      <4>1. t \in Seq(Words) /\ t # << >>
        BY <2>2 DEF Line
      <4>2. Len(t) \in Nat /\ Len(t) # 0
        BY <4>1, EmptySeq
      <4> DEFINE c == Len(t)
      <4>3. c \in Nat /\ c # 0 /\ ~(c > 1)
        BY <2>7, <4>2
      <4> HIDE DEF c
      <4>4. c = 1
        BY <4>3
      <4> QED
        BY <4>1, <4>4 DEF c
    <3>4. t = <<t[1]>>
      BY <3>3
    <3>5. Split(t) = <<t>>
      BY <2>2, <3>3, <3>4, Splitting
    <3>6. Range(<<t>>) = {t}
      BY DEF Range
    <3>7. Whole(Split(t)) = {t}
      BY <2>1, <2>2, <3>5, <3>6 DEF Whole, t
    <3> QED
      BY <1>2, <2>4, <2>5, <3>2, <3>7
  <2> QED
    BY <2>6, <2>7
<1>10. filled = {} \/ (\E m, n \in filled : m # n) \/ \E n : filled = {n}
  OBVIOUS
<1> QED
  BY <1>6, <1>7, <1>8, <1>9, <1>10

(* A static rule searches for the values it is meant to search for. *)
LEMMA MergedMeant ==
    ASSUME NEW r, r.values \in Seq(Line), r.values_text \in Option(ValuesText)
    PROVE  Values(r) \in Seq(Line) /\ Range(Values(r)) = Meant(r)
<1>1. CASE r.values_text = << >>
  <2>1. Values(r) = Merged(r.values)
    BY <1>1 DEF Values, MergeStaticValues
  <2>2. Meant(r) = Range(r.values)
    BY <1>1 DEF Meant, Range
  <2> QED
    BY <2>1, <2>2, MergedFirsts, MergedRange
<1>2. CASE r.values_text # << >>
  <2> DEFINE text == r.values_text[1]
             parsed == ParseValuesText(text)
  <2>1. text \in ValuesText /\ Range(r.values_text) = {text}
    BY <1>2 DEF Option, Required, Range
  <2>2. parsed \in Seq(Line) /\ Range(parsed) = Listed(text)
    BY <2>1, Parsed
  <2>3. Values(r) = Merged(r.values \o parsed)
    BY <1>2 DEF Values, MergeStaticValues
  <2>4. Meant(r) = Range(r.values) \cup Listed(text)
    BY <2>1 DEF Meant
  <2> HIDE DEF text, parsed
  <2>5. r.values \o parsed \in Seq(Line)
    BY <2>2, ConcatProperties
  <2>6. Range(r.values \o parsed) = Range(r.values) \cup Range(parsed)
    BY <2>2, RangeConcatenation
  <2> QED
    BY <2>2, <2>3, <2>4, <2>5, <2>6, MergedFirsts, MergedRange
<1> QED
  BY <1>1, <1>2

-----------------------------------------------------------------------------
(***************************************************************************)
(* compile_rule.                                                           *)
(***************************************************************************)

(* A field within the values allowed holds one of them or is left out. *)
LEMMA Allowed ==
    ASSUME NEW S, NEW option \in Option(S), NEW T, NEW default \in T
    PROVE  Range(option) \subseteq T <=> UnwrapOr(option, default) \in T
<1>1. CASE option = << >>
  BY <1>1 DEF UnwrapOr, Range
<1>2. CASE option # << >>
  <2>1. DOMAIN option = {1} /\ Range(option) = {option[1]}
    BY <1>2 DEF Option, Required, Range
  <2> QED
    BY <1>2, <2>1 DEF UnwrapOr
<1> QED
  BY <1>1, <1>2

(* What is known of a rule once the configuration is decoded. *)
Decoded(r) ==
    /\ r.builtin_pattern \in Option(STRING) /\ r.custom_regex \in Option(STRING)
    /\ r.data_type \in Option(STRING) /\ r.scope \in Option(STRING)
    /\ r.values \in Seq(Line) /\ r.values_text \in Option(ValuesText)

(* A rule that can be decoded is decoded to fields of their types. *)
LEMMA RuleDecoded ==
    ASSUME NEW s \in MaskingRules0Config
    PROVE  Decoded(RawRule(s))
<1>1. /\ RawRule(s).builtin_pattern = s.builtin_pattern /\ RawRule(s).custom_regex = s.custom_regex
      /\ RawRule(s).data_type = s.data_type /\ RawRule(s).scope = s.scope
      /\ RawRule(s).values_text = s.values_text /\ RawRule(s).values = UnwrapOr(s.values, << >>)
  BY DEF RawRule, MaskingRules0Config, RuleOf
<1>2. /\ s.builtin_pattern \in Option(STRING) /\ s.custom_regex \in Option(STRING)
      /\ s.data_type \in Option(STRING) /\ s.scope \in Option(STRING)
      /\ s.values \in Option(Seq(Line)) /\ s.values_text \in Option(ValuesText)
  BY DEF MaskingRules0Config, RuleOf
<1>3. UnwrapOr(s.values, << >>) \in Seq(Line)
  <2>1. s.values = << >> \/ s.values[1] \in Seq(Line)
    BY <1>2 DEF Option, Required
  <2>2. << >> \in Seq(Line)
    BY EmptySeq
  <2> QED
    BY <2>1, <2>2 DEF UnwrapOr
<1> QED
  BY <1>1, <1>2, <1>3 DEF Decoded

(* A rule compiles without a fault if and only if it is legal. *)
LEMMA FaultOrLegal ==
    ASSUME NEW r, Decoded(r)
    PROVE  Fault(r) = "none" <=> Legal(r)
<1>1. Range(r.scope) \subseteq Scopes <=> UnwrapOr(r.scope, "both") \in Scopes
  BY Allowed DEF Decoded, Scopes
<1>2. Range(r.data_type) \subseteq DataTypes <=> UnwrapOr(r.data_type, "text") \in DataTypes
  BY Allowed DEF Decoded, DataTypes
<1> DEFINE Sound == \/ r.rule_type = "builtin" /\ r.builtin_pattern # << >>
                         /\ r.builtin_pattern[1] \in DOMAIN Catalog
                    \/ r.rule_type = "customRegex" /\ r.custom_regex \notin {<< >>, <<"">>}
                         /\ r.custom_regex[1] \in Compiling
                    \/ r.rule_type = "static" /\ Meant(r) # {}
<1>3. Legal(r) <=> Range(r.scope) \subseteq Scopes /\ Range(r.data_type) \subseteq DataTypes /\ Sound
  BY Zenon DEF Legal
<1>4. CASE r.rule_type = "builtin"
  <2> DEFINE name == r.builtin_pattern[1]
  <2>1. SourceFault(r) =
           IF ~Given(r.builtin_pattern) THEN "MissingBuiltin"
           ELSE IF Lookup(name) = << >> THEN "UnknownBuiltin"
           ELSE IF Lookup(name)[1] \notin Compiling THEN "BadBuiltinRegex"
           ELSE "none"
    BY <1>4 DEF SourceFault
  <2>2. Sound <=> r.builtin_pattern # << >> /\ name \in DOMAIN Catalog
    BY <1>4
  <2>3. Given(r.builtin_pattern) <=> r.builtin_pattern # << >> /\ name # ""
    BY DEF Given
  <2>4. name \in DOMAIN Catalog => Lookup(name) = <<Catalog[name]>> /\ name # ""
    BY CatalogAssumption DEF Lookup
  <2>5. name \notin DOMAIN Catalog => Lookup(name) = << >>
    BY DEF Lookup
  <2>6. name \in DOMAIN Catalog => Catalog[name] \in Compiling
    BY CatalogAssumption DEF Range
  <2> HIDE DEF name, Sound
  <2>7. SourceFault(r) = "none" <=> Sound
    <3>1. <<Catalog[name]>> # << >> /\ <<Catalog[name]>>[1] = Catalog[name]
      OBVIOUS
    <3>2. CASE name \in DOMAIN Catalog
      BY <2>1, <2>2, <2>3, <2>4, <2>6, <3>1, <3>2
    <3>3. CASE name \notin DOMAIN Catalog
      BY <2>1, <2>2, <2>5, <3>3
    <3> QED
      BY <3>2, <3>3
  <2> QED
    BY <1>1, <1>2, <1>3, <2>7 DEF Fault
<1>5. CASE r.rule_type = "customRegex"
  <2>1. SourceFault(r) =
           IF ~Given(r.custom_regex) THEN "MissingCustomRegex"
           ELSE IF r.custom_regex[1] \notin Compiling THEN "BadCustomRegex"
           ELSE "none"
    BY <1>5 DEF SourceFault
  <2>2. Sound <=> r.custom_regex \notin {<< >>, <<"">>} /\ r.custom_regex[1] \in Compiling
    BY <1>5
  <2>3. r.custom_regex # << >> => r.custom_regex = <<r.custom_regex[1]>>
    BY DEF Decoded, Option, Required
  <2>4. Given(r.custom_regex) <=> r.custom_regex \notin {<< >>, <<"">>}
    <3>1. Given(r.custom_regex) <=> r.custom_regex # << >> /\ r.custom_regex[1] # ""
      BY DEF Given
    <3>2. r.custom_regex = <<"">> => r.custom_regex[1] = ""
      <4>1. PICK empty : empty = ""
        OBVIOUS
      <4>2. <<empty>>[1] = empty
        OBVIOUS
      <4> QED
        BY <4>1, <4>2, Zenon
    <3>3. r.custom_regex # << >> /\ r.custom_regex[1] = "" => r.custom_regex = <<"">>
      BY <2>3
    <3> QED
      BY <3>1, <3>2, <3>3
  <2> HIDE DEF Sound
  <2>5. SourceFault(r) = "none" <=> Sound
    BY <2>1, <2>2, <2>4
  <2> QED
    BY <1>1, <1>2, <1>3, <2>5 DEF Fault
<1>6. CASE r.rule_type = "static"
  <2>1. SourceFault(r) = IF Values(r) = << >> THEN "EmptyStaticValues" ELSE "none"
    BY <1>6 DEF SourceFault
  <2>2. Sound <=> Meant(r) # {}
    BY <1>6
  <2>3. Values(r) \in Seq(Line) /\ Range(Values(r)) = Meant(r)
    BY MergedMeant DEF Decoded
  <2>4. Range(Values(r)) = {} <=> Values(r) = << >>
    <3>1. DOMAIN Values(r) = 1..Len(Values(r)) /\ Len(Values(r)) \in Nat
      BY <2>3
    <3>2. Range(Values(r)) = {} <=> DOMAIN Values(r) = {}
      BY DEF Range
    <3>3. DOMAIN Values(r) = {} <=> Len(Values(r)) = 0
      BY <3>1
    <3> QED
      BY <2>3, <3>2, <3>3, EmptySeq
  <2> HIDE DEF Sound
  <2>5. SourceFault(r) = "none" <=> Sound
    BY <2>1, <2>2, <2>3, <2>4
  <2> QED
    BY <1>1, <1>2, <1>3, <2>5 DEF Fault
<1>7. CASE r.rule_type \notin {"builtin", "customRegex", "static"}
  <2>1. SourceFault(r) = "BadRuleType"
    BY <1>7 DEF SourceFault
  <2>2. ~Sound
    BY <1>7
  <2> QED
    BY <1>3, <2>1, <2>2 DEF Fault
<1> QED
  BY <1>4, <1>5, <1>6, <1>7

-----------------------------------------------------------------------------
(***************************************************************************)
(* Decoding.                                                               *)
(***************************************************************************)

(* What is written into a field is what it accepts or is mistyped. *)
LEMMA FieldWritten ==
    ASSUME NEW S, Mistyped \notin S
    PROVE  /\ Option(S) \subseteq Written(S)
           /\ \A v \in Written(S) : v \in Option(S) <=> v # <<Mistyped>>
<1>1. <<Mistyped>> \notin Option(S)
  BY DEF Option, Required
<1> QED
  BY <1>1 DEF Written

(* The same for a field that must be there. *)
LEMMA FieldRequired ==
    ASSUME NEW S, Mistyped \notin S, NEW v \in Written(S)
    PROVE  v \in Required(S) <=> v # <<Mistyped>> /\ Len(v) = 1
<1>1. \A w \in Required(S) : w = <<w[1]>> /\ w # << >> /\ Len(w) = 1
  BY DEF Required
<1>2. Len(<< >>) = 0
  OBVIOUS
<1> QED
  BY <1>1, <1>2, FieldWritten DEF Option

(* A mistyped value is none of the values that a field accepts. *)
LEMMA MistypedNowhere ==
    /\ Mistyped \notin STRING /\ Mistyped \notin BOOLEAN /\ Mistyped \notin Int
    /\ Mistyped \notin Seq(Line) /\ Mistyped \notin ValuesText /\ Mistyped \notin Seq(WrittenRule)
BY ConfigsAssumption

(* A rule as written is decoded if and only if the schema allows it. *)
LEMMA RuleTyped ==
    ASSUME NEW r \in WrittenRule
    PROVE  r \in MaskingRules0Config <=>
              /\ \A field \in DOMAIN r : r[field] # <<Mistyped>>
              /\ Len(r.name) = 1 /\ Len(r.rule_type) = 1
<1>1. /\ r.name \in Written(STRING) /\ r.rule_type \in Written(STRING)
      /\ r.builtin_pattern \in Written(STRING) /\ r.custom_regex \in Written(STRING)
      /\ r.data_type \in Written(STRING) /\ r.scope \in Written(STRING)
      /\ r.values \in Written(Seq(Line)) /\ r.values_text \in Written(ValuesText)
  BY DEF WrittenRule, RuleOf
<1>2. r \in MaskingRules0Config <=>
        /\ r.name \in Required(STRING) /\ r.rule_type \in Required(STRING)
        /\ r.builtin_pattern \in Option(STRING) /\ r.custom_regex \in Option(STRING)
        /\ r.data_type \in Option(STRING) /\ r.scope \in Option(STRING)
        /\ r.values \in Option(Seq(Line)) /\ r.values_text \in Option(ValuesText)
  BY DEF WrittenRule, MaskingRules0Config, RuleOf
<1>3. (\A field \in DOMAIN r : r[field] # <<Mistyped>>) <=>
        /\ r.name # <<Mistyped>> /\ r.rule_type # <<Mistyped>>
        /\ r.builtin_pattern # <<Mistyped>> /\ r.custom_regex # <<Mistyped>>
        /\ r.data_type # <<Mistyped>> /\ r.scope # <<Mistyped>>
        /\ r.values # <<Mistyped>> /\ r.values_text # <<Mistyped>>
  BY DEF WrittenRule, RuleOf
<1>4. /\ r.name \in Required(STRING) <=> r.name # <<Mistyped>> /\ Len(r.name) = 1
      /\ r.rule_type \in Required(STRING) <=> r.rule_type # <<Mistyped>> /\ Len(r.rule_type) = 1
  BY <1>1, MistypedNowhere, FieldRequired
<1>5. /\ r.builtin_pattern \in Option(STRING) <=> r.builtin_pattern # <<Mistyped>>
      /\ r.custom_regex \in Option(STRING) <=> r.custom_regex # <<Mistyped>>
      /\ r.data_type \in Option(STRING) <=> r.data_type # <<Mistyped>>
      /\ r.scope \in Option(STRING) <=> r.scope # <<Mistyped>>
  BY <1>1, MistypedNowhere, FieldWritten
<1>6. /\ r.values \in Option(Seq(Line)) <=> r.values # <<Mistyped>>
      /\ r.values_text \in Option(ValuesText) <=> r.values_text # <<Mistyped>>
  BY <1>1, MistypedNowhere, FieldWritten
<1> QED
  BY <1>2, <1>3, <1>4, <1>5, <1>6, Zenon

(* The rules that can be decoded can be written. *)
LEMMA RulesWritten ==
    MaskingRules0Config \subseteq WrittenRule
<1>1. /\ Option(STRING) \subseteq Written(STRING) /\ Option(Seq(Line)) \subseteq Written(Seq(Line))
      /\ Option(ValuesText) \subseteq Written(ValuesText) /\ Required(STRING) \subseteq Written(STRING)
  BY DEF Written, Option
<1> QED
  BY <1>1 DEF MaskingRules0Config, WrittenRule, RuleOf

(* The configuration is decoded if and only if the schema allows it. *)
LEMMA DecodedOrMistyped ==
    ASSUME NEW c \in ConfigOf(Written, WrittenRule)
    PROVE  c \in GeneratedConfig <=> WellTyped(c)
<1> DEFINE rules == UNION {Range(list) : list \in Range(c.masking_rules)}
           Plain(x) == \A field \in DOMAIN x : x[field] # <<Mistyped>>
<1>1. WellTyped(c) <=>
        \A x \in {c} \cup rules : Plain(x) /\ (x \in rules => Len(x.name) = 1 /\ Len(x.rule_type) = 1)
  BY Zenon DEF WellTyped
<1>2. /\ c.content_type_mode \in Written(STRING) /\ c.mask_request_body \in Written(BOOLEAN)
      /\ c.masking_rules \in Written(Seq(WrittenRule)) /\ c.max_body_size_bytes \in Written(Int)
      /\ c.max_vault_entries \in Written(Int) /\ c.unmask_response_body \in Written(BOOLEAN)
  BY DEF ConfigOf
<1>3. c \in GeneratedConfig <=>
        /\ c.content_type_mode \in Option(STRING) /\ c.mask_request_body \in Option(BOOLEAN)
        /\ c.masking_rules \in Option(Seq(MaskingRules0Config)) /\ c.max_body_size_bytes \in Option(Int)
        /\ c.max_vault_entries \in Option(Int) /\ c.unmask_response_body \in Option(BOOLEAN)
  BY DEF ConfigOf, GeneratedConfig
<1>4. Plain(c) <=>
        /\ c.content_type_mode # <<Mistyped>> /\ c.mask_request_body # <<Mistyped>>
        /\ c.masking_rules # <<Mistyped>> /\ c.max_body_size_bytes # <<Mistyped>>
        /\ c.max_vault_entries # <<Mistyped>> /\ c.unmask_response_body # <<Mistyped>>
  BY DEF ConfigOf
<1>5. /\ c.content_type_mode \in Option(STRING) <=> c.content_type_mode # <<Mistyped>>
      /\ c.mask_request_body \in Option(BOOLEAN) <=> c.mask_request_body # <<Mistyped>>
      /\ c.max_body_size_bytes \in Option(Int) <=> c.max_body_size_bytes # <<Mistyped>>
  BY <1>2, MistypedNowhere, FieldWritten
<1>6. /\ c.max_vault_entries \in Option(Int) <=> c.max_vault_entries # <<Mistyped>>
      /\ c.unmask_response_body \in Option(BOOLEAN) <=> c.unmask_response_body # <<Mistyped>>
      /\ c.masking_rules \in Option(Seq(WrittenRule)) <=> c.masking_rules # <<Mistyped>>
  BY <1>2, MistypedNowhere, FieldWritten
<1>7. CASE c.masking_rules = << >>
  <2>1. rules = {}
    BY <1>7 DEF Range
  <2>2. c.masking_rules \in Option(Seq(MaskingRules0Config)) /\ c.masking_rules \in Option(Seq(WrittenRule))
    BY <1>7 DEF Option
  <2>3. WellTyped(c) <=> Plain(c)
    BY <1>1, <2>1
  <2> HIDE DEF Plain, rules
  <2> QED
    BY <1>3, <1>4, <1>5, <1>6, <2>2, <2>3, Zenon
<1>8. CASE c.masking_rules = <<Mistyped>>
  <2>1. ~WellTyped(c)
    BY <1>1, <1>4, <1>8
  <2>2. Mistyped \notin Seq(MaskingRules0Config)
    <3>1. \A s \in Seq(MaskingRules0Config) : s \in Seq(WrittenRule)
      <4>1. TAKE s \in Seq(MaskingRules0Config)
      <4>2. \A n \in 1..Len(s) : s[n] \in WrittenRule
        BY RulesWritten, ElementOfSeq
      <4> QED
        BY <4>2
    <3> QED
      BY <3>1, MistypedNowhere
  <2>3. c.masking_rules \notin Option(Seq(MaskingRules0Config))
    BY <1>8, <2>2 DEF Option, Required
  <2> QED
    BY <1>3, <2>1, <2>3
<1>9. CASE c.masking_rules # << >> /\ c.masking_rules # <<Mistyped>>
  <2> DEFINE list == c.masking_rules[1]
  <2>1. list \in Seq(WrittenRule) /\ Range(c.masking_rules) = {list}
    BY <1>6, <1>9 DEF Option, Required, Range
  <2>2. rules = Range(list)
    BY <2>1
  <2>3. c.masking_rules \in Option(Seq(MaskingRules0Config)) <=> list \in Seq(MaskingRules0Config)
    BY <1>6, <1>9 DEF Option, Required
  <2> HIDE DEF list
  <2>4. list \in Seq(MaskingRules0Config) <=> \A x \in rules : x \in MaskingRules0Config
    <3>1. DOMAIN list = 1..Len(list) /\ Len(list) \in Nat
      BY <2>1
    <3>2. ASSUME list \in Seq(MaskingRules0Config), NEW n \in 1..Len(list)
          PROVE  list[n] \in MaskingRules0Config
      BY <3>2, ElementOfSeq
    <3>3. ASSUME \A n \in 1..Len(list) : list[n] \in MaskingRules0Config
          PROVE  list \in Seq(MaskingRules0Config)
      BY <2>1, <3>3
    <3>4. (\A x \in rules : x \in MaskingRules0Config) <=>
             \A n \in 1..Len(list) : list[n] \in MaskingRules0Config
      BY <2>2, <3>1 DEF Range
    <3> HIDE DEF rules
    <3> QED
      BY <3>2, <3>3, <3>4
  <2>5. ASSUME NEW x \in rules
        PROVE  x \in MaskingRules0Config <=> Plain(x) /\ Len(x.name) = 1 /\ Len(x.rule_type) = 1
    <3>1. x \in WrittenRule
      BY <2>1, <2>2, <2>5, ElementOfSeq DEF Range
    <3> QED
      BY <3>1, RuleTyped
  <2> HIDE DEF rules
  <2>6. WellTyped(c) <=> Plain(c) /\ \A x \in rules : x \in MaskingRules0Config
    <3> HIDE DEF Plain
    <3> QED
      BY <1>1, <2>5
  <2> HIDE DEF Plain
  <2> QED
    BY <1>3, <1>4, <1>5, <1>6, <1>9, <2>3, <2>4, <2>6
<1> QED
  BY <1>7, <1>8, <1>9

-----------------------------------------------------------------------------
(***************************************************************************)
(* The invariant.                                                          *)
(***************************************************************************)

(* The faults that compile_rule returns. *)
RuleFaults ==
    {"BadRuleType", "BadScope", "BadDataType", "UnknownBuiltin", "MissingBuiltin",
     "MissingCustomRegex", "BadCustomRegex", "BadBuiltinRegex", "EmptyStaticValues"}

(* compile_rule returns no other fault than those of a rule. *)
LEMMA FaultKinds ==
    ASSUME NEW r
    PROVE  Fault(r) \in RuleFaults \cup {"none"}
<1>1. CASE r.rule_type = "builtin"
  BY <1>1, Zenon DEF Fault, SourceFault, RuleFaults
<1>2. CASE r.rule_type = "customRegex"
  BY <1>2, Zenon DEF Fault, SourceFault, RuleFaults
<1>3. CASE r.rule_type = "static"
  BY <1>3, Zenon DEF Fault, SourceFault, RuleFaults
<1>4. CASE r.rule_type \notin {"builtin", "customRegex", "static"}
  BY <1>4 DEF Fault, SourceFault, RuleFaults
<1> QED
  BY <1>1, <1>2, <1>3, <1>4

(* A rule without a fault compiles to a rule that searches for something. *)
LEMMA CompiledTyped ==
    ASSUME NEW r, Fault(r) = "none"
    PROVE  /\ Compiled(r).kind \in {"Regex", "Static"}
           /\ Compiled(r).scope \in Scopes
           /\ Compiled(r).data_type \in DataTypes
           /\ Compiled(r).searched # << >>
<1>1. /\ UnwrapOr(r.scope, "both") \in Scopes /\ UnwrapOr(r.data_type, "text") \in DataTypes
      /\ SourceFault(r) = "none"
  BY DEF Fault
<1>2. /\ Compiled(r).scope = UnwrapOr(r.scope, "both")
      /\ Compiled(r).data_type = UnwrapOr(r.data_type, "text")
      /\ Compiled(r).kind = (IF r.rule_type = "static" THEN "Static" ELSE "Regex")
      /\ Compiled(r).searched = Searched(r)
  BY DEF Compiled
<1>3. Searched(r) # << >>
  <2>1. CASE r.rule_type = "builtin"
    <3>1. Searched(r) = Lookup(r.builtin_pattern[1])
      BY <2>1 DEF Searched
    <3>2. Lookup(r.builtin_pattern[1]) # << >>
      BY <1>1, <2>1 DEF SourceFault
    <3> QED
      BY <3>1, <3>2
  <2>2. CASE r.rule_type = "customRegex"
    <3>1. Searched(r) = r.custom_regex
      BY <2>2 DEF Searched
    <3>2. Given(r.custom_regex)
      BY <1>1, <2>2 DEF SourceFault
    <3> QED
      BY <3>1, <3>2 DEF Given
  <2>3. CASE r.rule_type = "static"
    <3>1. Searched(r) = Values(r)
      BY <2>3 DEF Searched
    <3>2. Values(r) # << >>
      BY <1>1, <2>3 DEF SourceFault
    <3> QED
      BY <3>1, <3>2
  <2>4. CASE r.rule_type \notin {"builtin", "customRegex", "static"}
    <3>1. SourceFault(r) = "BadRuleType"
      BY <2>4 DEF SourceFault
    <3> QED
      BY <1>1, <3>1
  <2> QED
    BY <2>1, <2>2, <2>3, <2>4
<1> QED
  BY <1>1, <1>2, <1>3

(* The places of LegalAt before the rules. *)
ModeLegal == Range(raw.content_type_mode) \subseteq ContentTypeModes

SizeLegal == Range(raw.max_body_size_bytes) \subseteq BodySizes

VaultLegal == Range(raw.max_vault_entries) \subseteq VaultSizes

(* The configuration to be checked is the one written, with the defaults, *)
(* unless it has not been or cannot be decoded.                           *)
Decoding ==
    IF pc = "decode" \/ error.kind = "Undecodable"
    THEN raw = [rules |-> << >>]
    ELSE config \in GeneratedConfig /\ raw = Raw(config)

Phases ==
    /\ pc \in {"decode", "mode", "body size", "vault entries", "rules", "loaded", "refused"}
    /\ rule \in 1..(Len(raw.rules) + 1)
    /\ pc \in {"decode", "mode", "body size", "vault entries"} => rule = 1
    /\ pc = "loaded" => rule = Len(raw.rules) + 1
    /\ pc # "refused" => error = NoError

(* The fields of a policy are within their bounds and its rules are those  *)
(* compiled so far, none of which is at fault.                             *)
Accepted ==
    /\ DOMAIN policy = {"mask_request_body", "unmask_response_body", "content_type_mode",
                        "max_body_size_bytes", "max_vault_entries", "rules"}
    /\ policy.mask_request_body \in BOOLEAN
    /\ policy.unmask_response_body \in BOOLEAN
    /\ policy.content_type_mode \in ContentTypeModes
    /\ policy.max_body_size_bytes \in BodySizes
    /\ policy.max_vault_entries \in VaultSizes
    /\ policy.rules = [n \in 1..(rule - 1) |-> Compiled(raw.rules[n])]
    /\ \A n \in 1..(rule - 1) : Fault(raw.rules[n]) = "none"

(* What has been checked is legal. *)
Checked ==
    /\ pc \in {"body size", "vault entries", "rules", "loaded"} => ModeLegal
    /\ pc \in {"vault entries", "rules", "loaded"} => SizeLegal
    /\ pc \in {"rules", "loaded"} => VaultLegal

(* What is refused is at fault, and all before it is legal. *)
Refused ==
    \/ error = [kind |-> "Undecodable", rule |-> 0] /\ config \notin GeneratedConfig
    \/ error = [kind |-> "BadContentTypeMode", rule |-> 0] /\ ~ModeLegal
    \/ error = [kind |-> "BadMaxBodySize", rule |-> 0] /\ ModeLegal /\ ~SizeLegal
    \/ error = [kind |-> "BadMaxVaultEntries", rule |-> 0] /\ ModeLegal /\ SizeLegal /\ ~VaultLegal
    \/ /\ rule <= Len(raw.rules)
       /\ Fault(raw.rules[rule]) # "none"
       /\ error = [kind |-> Fault(raw.rules[rule]), rule |-> rule]
       /\ ModeLegal /\ SizeLegal /\ VaultLegal

IInv ==
    /\ config \in Configs
    /\ Decoding
    /\ Phases
    /\ Accepted
    /\ Checked
    /\ pc = "refused" => Refused

(* What is known of a decoded configuration. *)
LEMMA RawTyped ==
    ASSUME IInv, pc # "decode", error.kind # "Undecodable"
    PROVE  /\ raw.content_type_mode \in Option(STRING)
           /\ raw.max_body_size_bytes \in Option(Int)
           /\ raw.max_vault_entries \in Option(Int)
           /\ Len(raw.rules) \in Nat /\ DOMAIN raw.rules = 1..Len(raw.rules)
           /\ \A n \in 1..Len(raw.rules) : Decoded(raw.rules[n])
<1> DEFINE rules == UnwrapOr(config.masking_rules, << >>)
<1>1. config \in GeneratedConfig /\ raw = Raw(config)
  BY DEF IInv, Decoding
<1>2. /\ config.content_type_mode \in Option(STRING) /\ config.max_body_size_bytes \in Option(Int)
      /\ config.max_vault_entries \in Option(Int)
      /\ config.masking_rules \in Option(Seq(MaskingRules0Config))
  BY <1>1 DEF GeneratedConfig, ConfigOf
<1>3. /\ raw.content_type_mode = config.content_type_mode
      /\ raw.max_body_size_bytes = config.max_body_size_bytes
      /\ raw.max_vault_entries = config.max_vault_entries
      /\ raw.rules = [n \in DOMAIN rules |-> RawRule(rules[n])]
  BY <1>1 DEF Raw
<1>4. rules \in Seq(MaskingRules0Config)
  <2>1. config.masking_rules = << >> \/ config.masking_rules[1] \in Seq(MaskingRules0Config)
    BY <1>2 DEF Option, Required
  <2>2. << >> \in Seq(MaskingRules0Config)
    BY EmptySeq
  <2> QED
    BY <2>1, <2>2 DEF UnwrapOr
<1> HIDE DEF rules
<1>5. DOMAIN raw.rules = 1..Len(rules) /\ Len(rules) \in Nat /\ Len(raw.rules) = Len(rules)
  BY <1>3, <1>4
<1>6. \A n \in 1..Len(raw.rules) : Decoded(raw.rules[n])
  <2>1. TAKE n \in 1..Len(raw.rules)
  <2>2. rules[n] \in MaskingRules0Config /\ raw.rules[n] = RawRule(rules[n])
    BY <1>3, <1>4, <1>5, ElementOfSeq
  <2> QED
    BY <2>2, RuleDecoded
<1> QED
  BY <1>2, <1>3, <1>5, <1>6

(* The defaults are within their bounds. *)
LEMMA DefaultsAllowed ==
    "auto" \in ContentTypeModes /\ DefaultBodySize \in BodySizes /\ DefaultVaultSize \in VaultSizes
<1>1. "auto" \in ContentTypeModes
  BY DEF ContentTypeModes
<1>2. DefaultBodySize \in BodySizes
  <2>1. /\ DefaultBodySize \in Int /\ MaxBodySize \in Int
        /\ 1024 <= DefaultBodySize /\ DefaultBodySize <= MaxBodySize
    BY SMT DEF DefaultBodySize, MaxBodySize
  <2> QED
    BY <2>1 DEF BodySizes
<1>3. DefaultVaultSize \in VaultSizes
  <2>1. /\ DefaultVaultSize \in Int /\ MaxVaultSize \in Int
        /\ 100 <= DefaultVaultSize /\ DefaultVaultSize <= MaxVaultSize
    BY SMT DEF DefaultVaultSize, MaxVaultSize
  <2> QED
    BY <2>1 DEF VaultSizes
<1> QED
  BY <1>1, <1>2, <1>3

(* The invariant holds of every configuration as it is written. *)
LEMMA InitEstablishes ==
    ASSUME Init
    PROVE  IInv
<1>1. /\ raw = [rules |-> << >>] /\ Len(raw.rules) = 0 /\ rule = 1 /\ pc = "decode"
      /\ config \in Configs /\ error = NoError
  BY DEF Init
<1>2. /\ DOMAIN policy = {"mask_request_body", "unmask_response_body", "content_type_mode",
                          "max_body_size_bytes", "max_vault_entries", "rules"}
      /\ policy.mask_request_body \in BOOLEAN /\ policy.unmask_response_body \in BOOLEAN
      /\ policy.content_type_mode \in ContentTypeModes
      /\ policy.max_body_size_bytes \in BodySizes /\ policy.max_vault_entries \in VaultSizes
      /\ policy.rules = << >>
  BY DefaultsAllowed DEF Init, Defaults
<1>3. << >> = [n \in 1..(rule - 1) |-> Compiled(raw.rules[n])]
  BY <1>1
<1>4. Accepted
  BY <1>1, <1>2, <1>3 DEF Accepted
<1> QED
  BY <1>1, <1>4 DEF IInv, Decoding, Phases, Checked

(* A configuration that cannot be decoded is refused. *)
LEMMA DecodeKeeps ==
    ASSUME IInv, Decode
    PROVE  IInv'
<1>1. /\ pc = "decode" /\ rule = 1 /\ error = NoError /\ config \in Configs
      /\ raw = [rules |-> << >>] /\ Accepted
  BY DEF IInv, Phases, Decoding, Decode
<1>2. CASE config \in GeneratedConfig
  <2>1. /\ raw' = Raw(config) /\ pc' = "mode" /\ UNCHANGED <<config, rule, error>>
        /\ policy' = [policy EXCEPT !.mask_request_body = raw'.mask_request_body,
                                   !.unmask_response_body = raw'.unmask_response_body]
    BY <1>2 DEF Decode
  <2>2. raw'.mask_request_body \in BOOLEAN /\ raw'.unmask_response_body \in BOOLEAN
    <3>1. config.mask_request_body \in Option(BOOLEAN) /\ config.unmask_response_body \in Option(BOOLEAN)
      BY <1>2 DEF GeneratedConfig, ConfigOf
    <3>2. /\ raw'.mask_request_body = UnwrapOr(config.mask_request_body, TRUE)
          /\ raw'.unmask_response_body = UnwrapOr(config.unmask_response_body, TRUE)
      BY <2>1 DEF Raw
    <3>3. \A option \in Option(BOOLEAN) : UnwrapOr(option, TRUE) \in BOOLEAN
      <4>1. TAKE option \in Option(BOOLEAN)
      <4>2. option # << >> => option[1] \in BOOLEAN
        BY DEF Option, Required
      <4>3. CASE option = << >>
        BY <4>3 DEF UnwrapOr
      <4>4. CASE option # << >>
        BY <4>2, <4>4, Zenon DEF UnwrapOr
      <4> QED
        BY <4>3, <4>4
    <3> QED
      BY <3>1, <3>2, <3>3
  <2>3. Decoding' /\ rule' = 1 /\ error' = NoError
    BY <1>1, <1>2, <2>1 DEF Decoding, NoError
  <2>4. Len(raw'.rules) \in Nat
    <3> DEFINE rules == UnwrapOr(config.masking_rules, << >>)
    <3>1. config.masking_rules \in Option(Seq(MaskingRules0Config))
      BY <1>2 DEF GeneratedConfig, ConfigOf
    <3>2. rules \in Seq(MaskingRules0Config)
      <4>1. config.masking_rules = << >> \/ config.masking_rules[1] \in Seq(MaskingRules0Config)
        BY <3>1 DEF Option, Required
      <4>2. << >> \in Seq(MaskingRules0Config)
        BY EmptySeq
      <4> QED
        BY <4>1, <4>2 DEF UnwrapOr
    <3>3. raw'.rules = [n \in DOMAIN rules |-> RawRule(rules[n])]
      BY <2>1 DEF Raw
    <3> HIDE DEF rules
    <3> QED
      BY <3>2, <3>3
  <2>5. policy.rules = << >>
    BY <1>1 DEF Accepted
  <2>6. /\ DOMAIN policy' = DOMAIN policy
        /\ policy'.mask_request_body \in BOOLEAN /\ policy'.unmask_response_body \in BOOLEAN
        /\ policy'.content_type_mode = policy.content_type_mode
        /\ policy'.max_body_size_bytes = policy.max_body_size_bytes
        /\ policy'.max_vault_entries = policy.max_vault_entries
        /\ policy'.rules = policy.rules
    BY <1>1, <2>1, <2>2 DEF Accepted
  <2>7. << >> = [n \in 1..(rule' - 1) |-> Compiled(raw'.rules[n])]
    BY <2>3
  <2>8. Accepted'
    BY <1>1, <2>3, <2>5, <2>6, <2>7 DEF Accepted
  <2> QED
    BY <1>1, <2>1, <2>3, <2>4, <2>8 DEF IInv, Phases, Checked
<1>3. CASE config \notin GeneratedConfig
  <2>1. /\ pc' = "refused" /\ error' = [kind |-> "Undecodable", rule |-> 0]
        /\ UNCHANGED <<config, raw, rule, policy>>
    BY <1>3 DEF Decode, Refuse
  <2>2. Decoding' /\ Refused'
    BY <1>1, <1>3, <2>1 DEF Decoding, Refused
  <2>3. Accepted'
    BY <1>1, <2>1 DEF Accepted
  <2> QED
    BY <1>1, <2>1, <2>2, <2>3 DEF IInv, Phases, Checked
<1> QED
  BY <1>2, <1>3

(* A check of a field that accepts it: the policy holds an allowed value, *)
(* and the rest is as before.                                             *)
AcceptsOne ==
    /\ UNCHANGED <<config, raw, rule, error>>
    /\ DOMAIN policy' = DOMAIN policy
    /\ policy'.rules = policy.rules
    /\ policy'.mask_request_body = policy.mask_request_body
    /\ policy'.unmask_response_body = policy.unmask_response_body
    /\ policy'.content_type_mode \in ContentTypeModes
    /\ policy'.max_body_size_bytes \in BodySizes
    /\ policy'.max_vault_entries \in VaultSizes

(* A check that accepts keeps what does not depend on the place. *)
LEMMA AcceptKeeps ==
    ASSUME IInv, AcceptsOne, pc \in {"mode", "body size", "vault entries"},
           pc' \in {"body size", "vault entries", "rules"}
    PROVE  config' \in Configs /\ Decoding' /\ Phases' /\ Accepted'
<1>1. Decoding' /\ config' \in Configs
  <2>1. error = NoError
    BY DEF IInv, Phases
  <2>2. error.kind # "Undecodable" /\ pc # "decode" /\ pc' # "decode"
    BY <2>1 DEF NoError
  <2> QED
    BY <2>2 DEF IInv, Decoding, AcceptsOne
<1>2. Phases'
  BY DEF IInv, Phases, AcceptsOne
<1>3. Accepted'
  BY DEF IInv, Accepted, AcceptsOne
<1> QED
  BY <1>1, <1>2, <1>3

(* A check of a field or of a rule that refuses. *)
LEMMA RefuseKeeps ==
    ASSUME IInv, NEW kind, NEW n, Refuse(kind, n), pc \notin {"decode", "refused"},
           kind # "Undecodable",
           \/ kind = "BadContentTypeMode" /\ n = 0 /\ ~ModeLegal
           \/ kind = "BadMaxBodySize" /\ n = 0 /\ ModeLegal /\ ~SizeLegal
           \/ kind = "BadMaxVaultEntries" /\ n = 0 /\ ModeLegal /\ SizeLegal /\ ~VaultLegal
           \/ /\ kind = Fault(raw.rules[rule]) /\ n = rule /\ rule <= Len(raw.rules)
              /\ kind # "none" /\ ModeLegal /\ SizeLegal /\ VaultLegal
    PROVE  IInv'
<1>1. /\ pc' = "refused" /\ error' = [kind |-> kind, rule |-> n]
      /\ UNCHANGED <<config, raw, rule, policy>>
  BY DEF Refuse
<1>2. Decoding'
  <2>1. error = NoError
    BY DEF IInv, Phases
  <2>2. error.kind # "Undecodable" /\ error'.kind # "Undecodable" /\ pc' # "decode"
    BY <1>1, <2>1 DEF NoError
  <2> QED
    BY <1>1, <2>2 DEF IInv, Decoding
<1>3. ModeLegal' = ModeLegal /\ SizeLegal' = SizeLegal /\ VaultLegal' = VaultLegal
  BY <1>1 DEF ModeLegal, SizeLegal, VaultLegal
<1>4. Refused'
  BY <1>1, <1>3 DEF Refused
<1>5. Accepted'
  BY <1>1 DEF IInv, Accepted
<1> QED
  BY <1>1, <1>2, <1>4, <1>5 DEF IInv, Phases, Checked

(* What is legal depends on the raw configuration alone. *)
LEMMA SameLegal ==
    ASSUME UNCHANGED raw
    PROVE  (ModeLegal' <=> ModeLegal) /\ (SizeLegal' <=> SizeLegal) /\ (VaultLegal' <=> VaultLegal)
BY DEF ModeLegal, SizeLegal, VaultLegal

(* None of the three checks comes before the configuration is decoded. *)
LEMMA Running ==
    ASSUME IInv, pc \notin {"decode", "refused"}
    PROVE  error.kind # "Undecodable"
<1>1. error = NoError
  BY DEF IInv, Phases
<1> QED
  BY <1>1 DEF NoError

(* The content type mode is one of three, or refused. *)
LEMMA CheckModeKeeps ==
    ASSUME IInv, CheckMode
    PROVE  IInv'
<1>1. PICK value : value = UnwrapOr(raw.content_type_mode, "auto")
  OBVIOUS
<1>2. /\ pc = "mode"
      /\ value \in ContentTypeModes => Accept("body size", "content_type_mode", value)
      /\ value \notin ContentTypeModes => Refuse("BadContentTypeMode", 0)
  BY <1>1, Zenon DEF CheckMode
<1>3. raw.content_type_mode \in Option(STRING)
  <2>1. error.kind # "Undecodable"
    BY <1>2, Running
  <2> QED
    BY <1>2, <2>1, RawTyped DEF IInv, Checked
<1>4. ModeLegal <=> value \in ContentTypeModes
  BY <1>1, <1>3, Allowed, DefaultsAllowed DEF ModeLegal
<1>5. CASE value \in ContentTypeModes
  <2>1. AcceptsOne /\ pc' = "body size"
    BY <1>2, <1>5 DEF IInv, Accepted, AcceptsOne, Accept
  <2>2. config' \in Configs /\ Decoding' /\ Phases' /\ Accepted'
    BY <1>2, <2>1, AcceptKeeps
  <2>3. ModeLegal'
    BY <1>3, <1>4, <1>5, <2>1, SameLegal DEF AcceptsOne
  <2> QED
    BY <2>1, <2>2, <2>3 DEF IInv, Checked
<1>6. CASE value \notin ContentTypeModes
  <2>1. Refuse("BadContentTypeMode", 0)
    BY <1>2, <1>6
  <2> QED
    BY <1>2, <1>3, <1>4, <1>6, <2>1, RefuseKeeps
<1> QED
  BY <1>5, <1>6

(* The body size is within its bounds, or refused. *)
LEMMA CheckBodySizeKeeps ==
    ASSUME IInv, CheckBodySize
    PROVE  IInv'
<1>1. PICK value : value = UnwrapOr(raw.max_body_size_bytes, DefaultBodySize)
  OBVIOUS
<1>2. /\ pc = "body size"
      /\ value \in BodySizes => Accept("vault entries", "max_body_size_bytes", value)
      /\ value \notin BodySizes => Refuse("BadMaxBodySize", 0)
  BY <1>1, Zenon DEF CheckBodySize
<1>3. raw.max_body_size_bytes \in Option(Int) /\ ModeLegal
  <2>1. error.kind # "Undecodable"
    BY <1>2, Running
  <2> QED
    BY <1>2, <2>1, RawTyped DEF IInv, Checked
<1>4. SizeLegal <=> value \in BodySizes
  BY <1>1, <1>3, Allowed, DefaultsAllowed DEF SizeLegal
<1>5. CASE value \in BodySizes
  <2>1. AcceptsOne /\ pc' = "vault entries"
    BY <1>2, <1>5 DEF IInv, Accepted, AcceptsOne, Accept
  <2>2. config' \in Configs /\ Decoding' /\ Phases' /\ Accepted'
    BY <1>2, <2>1, AcceptKeeps
  <2>3. ModeLegal' /\ SizeLegal'
    BY <1>3, <1>4, <1>5, <2>1, SameLegal DEF AcceptsOne
  <2> QED
    BY <2>1, <2>2, <2>3 DEF IInv, Checked
<1>6. CASE value \notin BodySizes
  <2>1. Refuse("BadMaxBodySize", 0)
    BY <1>2, <1>6
  <2> QED
    BY <1>2, <1>3, <1>4, <1>6, <2>1, RefuseKeeps
<1> QED
  BY <1>5, <1>6

(* The vault size is within its bounds, or refused. *)
LEMMA CheckVaultEntriesKeeps ==
    ASSUME IInv, CheckVaultEntries
    PROVE  IInv'
<1>1. PICK value : value = UnwrapOr(raw.max_vault_entries, DefaultVaultSize)
  OBVIOUS
<1>2. /\ pc = "vault entries"
      /\ value \in VaultSizes => Accept("rules", "max_vault_entries", value)
      /\ value \notin VaultSizes => Refuse("BadMaxVaultEntries", 0)
  BY <1>1, Zenon DEF CheckVaultEntries
<1>3. raw.max_vault_entries \in Option(Int) /\ ModeLegal /\ SizeLegal
  <2>1. error.kind # "Undecodable"
    BY <1>2, Running
  <2> QED
    BY <1>2, <2>1, RawTyped DEF IInv, Checked
<1>4. VaultLegal <=> value \in VaultSizes
  BY <1>1, <1>3, Allowed, DefaultsAllowed DEF VaultLegal
<1>5. CASE value \in VaultSizes
  <2>1. AcceptsOne /\ pc' = "rules"
    BY <1>2, <1>5 DEF IInv, Accepted, AcceptsOne, Accept
  <2>2. config' \in Configs /\ Decoding' /\ Phases' /\ Accepted'
    BY <1>2, <2>1, AcceptKeeps
  <2>3. ModeLegal' /\ SizeLegal' /\ VaultLegal'
    BY <1>3, <1>4, <1>5, <2>1, SameLegal DEF AcceptsOne
  <2> QED
    BY <2>1, <2>2, <2>3 DEF IInv, Checked
<1>6. CASE value \notin VaultSizes
  <2>1. Refuse("BadMaxVaultEntries", 0)
    BY <1>2, <1>6
  <2> QED
    BY <1>2, <1>3, <1>4, <1>6, <2>1, RefuseKeeps
<1> QED
  BY <1>5, <1>6

(* A list compiled up to n - 1 and then its nth rule is compiled up to *)
(* n.                                                                  *)
LEMMA Extended ==
    ASSUME NEW f, NEW n \in Nat, NEW s, s = [k \in 1..(n - 1) |-> f[k]], n >= 1
    PROVE  Append(s, f[n]) = [k \in 1..n |-> f[k]]
<1> DEFINE t == [k \in 1..n |-> f[k]]
           V == {f[k] : k \in 1..n}
<1>1. s \in Seq(V) /\ Len(s) = n - 1
  OBVIOUS
<1>2. t \in Seq(V) /\ Len(t) = n
  OBVIOUS
<1>3. f[n] \in V
  OBVIOUS
<1>4. \A k \in 1..(n - 1) : s[k] = f[k]
  OBVIOUS
<1>5. \A k \in 1..n : t[k] = f[k]
  OBVIOUS
<1> HIDE DEF t, V
<1>6. Append(s, f[n]) \in Seq(V) /\ Len(Append(s, f[n])) = n
  BY <1>1, <1>3, AppendProperties
<1>7. ASSUME NEW k \in 1..n
      PROVE  Append(s, f[n])[k] = t[k]
  <2>1. CASE k = n
    BY <1>1, <1>3, <1>5, <2>1, AppendProperties
  <2>2. CASE k # n
    <3>1. k \in 1..(n - 1)
      BY <2>2
    <3> QED
      BY <1>1, <1>3, <1>4, <1>5, <3>1, AppendProperties
  <2> QED
    BY <2>1, <2>2
<1>8. Append(s, f[n]) = t
  BY <1>2, <1>6, <1>7, SeqEqual
<1> QED
  BY <1>8 DEF t

(* A rule compiles and is appended, or the policy is refused for it. *)
LEMMA CompileRuleKeeps ==
    ASSUME IInv, CompileRule
    PROVE  IInv'
<1>1. PICK r : r = raw.rules[rule]
  OBVIOUS
<1>2. /\ pc = "rules" /\ rule <= Len(raw.rules)
      /\ Fault(r) = "none" => /\ policy' = [policy EXCEPT !.rules = Append(@, Compiled(r))]
                              /\ rule' = rule + 1
                              /\ UNCHANGED <<config, raw, pc, error>>
      /\ Fault(r) # "none" => Refuse(Fault(r), rule)
  BY <1>1, Zenon DEF CompileRule
<1>3. error.kind # "Undecodable" /\ ModeLegal /\ SizeLegal /\ VaultLegal
  BY <1>2, Running DEF IInv, Checked
<1>4. Len(raw.rules) \in Nat /\ rule \in 1..(Len(raw.rules) + 1)
  BY <1>2, <1>3, RawTyped DEF IInv, Phases
<1>5. CASE Fault(r) = "none"
  <2>1. /\ policy' = [policy EXCEPT !.rules = Append(@, Compiled(r))]
        /\ rule' = rule + 1 /\ UNCHANGED <<config, raw, pc, error>>
    BY <1>2, <1>5
  <2>2. /\ DOMAIN policy' = DOMAIN policy
        /\ policy'.mask_request_body = policy.mask_request_body
        /\ policy'.unmask_response_body = policy.unmask_response_body
        /\ policy'.content_type_mode = policy.content_type_mode
        /\ policy'.max_body_size_bytes = policy.max_body_size_bytes
        /\ policy'.max_vault_entries = policy.max_vault_entries
        /\ policy'.rules = Append(policy.rules, Compiled(r))
    BY <2>1 DEF IInv, Accepted
  <2>3. policy'.rules = [n \in 1..rule |-> Compiled(raw.rules[n])]
    <3>1. PICK compiled : compiled = [n \in 1..Len(raw.rules) |-> Compiled(raw.rules[n])]
      OBVIOUS
    <3>2. \A n \in 1..Len(raw.rules) : compiled[n] = Compiled(raw.rules[n])
      BY <3>1
    <3>3. policy.rules = [n \in 1..(rule - 1) |-> compiled[n]]
      BY <1>2, <1>4, <3>2 DEF IInv, Accepted
    <3>4. Append(policy.rules, compiled[rule]) = [n \in 1..rule |-> compiled[n]]
      BY <1>4, <3>3, Extended
    <3>5. compiled[rule] = Compiled(r)
      BY <1>1, <1>2, <1>4, <3>2
    <3>6. 1..rule \subseteq 1..Len(raw.rules)
      BY <1>2, <1>4
    <3>7. [n \in 1..rule |-> compiled[n]] = [n \in 1..rule |-> Compiled(raw.rules[n])]
      BY <3>2, <3>6, Zenon
    <3> QED
      BY <2>2, <3>4, <3>5, <3>7
  <2>4. \A n \in 1..rule : Fault(raw.rules[n]) = "none"
    BY <1>1, <1>4, <1>5 DEF IInv, Accepted
  <2>5. rule' - 1 = rule /\ rule' \in 1..(Len(raw.rules) + 1)
    BY <1>2, <1>4, <2>1
  <2>6. Accepted'
    BY <2>1, <2>2, <2>3, <2>4, <2>5 DEF IInv, Accepted
  <2>7. Phases'
    BY <1>2, <2>1, <2>5 DEF IInv, Phases
  <2>8. Decoding'
    BY <2>1 DEF IInv, Decoding
  <2>9. config' \in Configs /\ pc' = "rules"
    BY <1>2, <2>1 DEF IInv
  <2>10. ModeLegal' /\ SizeLegal' /\ VaultLegal'
    BY <1>3, <2>1, SameLegal
  <2> QED
    BY <2>6, <2>7, <2>8, <2>9, <2>10 DEF IInv, Checked
<1>6. CASE Fault(r) # "none"
  <2>1. PICK kind : kind = Fault(r)
    OBVIOUS
  <2>2. Refuse(kind, rule)
    BY <1>2, <1>6, <2>1
  <2>3. kind # "Undecodable" /\ kind # "none" /\ kind = Fault(raw.rules[rule])
    BY <1>1, <1>6, <2>1, FaultKinds DEF RuleFaults
  <2> QED
    BY <1>2, <1>3, <2>2, <2>3, RefuseKeeps
<1> QED
  BY <1>5, <1>6

(* A policy is loaded once all of its rules have compiled. *)
LEMMA LoadKeeps ==
    ASSUME IInv, Load
    PROVE  IInv'
<1>1. /\ pc = "rules" /\ rule > Len(raw.rules) /\ pc' = "loaded"
      /\ UNCHANGED <<config, raw, rule, policy, error>>
  BY DEF Load
<1>2. Len(raw.rules) \in Nat /\ rule \in 1..(Len(raw.rules) + 1)
  BY <1>1, Running, RawTyped DEF IInv, Phases
<1>3. rule = Len(raw.rules) + 1
  BY <1>1, <1>2
<1>4. Phases' /\ Decoding' /\ Accepted'
  BY <1>1, <1>3 DEF IInv, Phases, Decoding, Accepted
<1>5. ModeLegal' /\ SizeLegal' /\ VaultLegal'
  BY <1>1, SameLegal DEF IInv, Checked
<1> QED
  BY <1>1, <1>4, <1>5 DEF IInv, Checked

(* Every step keeps the invariant. *)
LEMMA NextKeeps ==
    ASSUME IInv, [Next]_vars
    PROVE  IInv'
<1>1. CASE Next
  BY <1>1, DecodeKeeps, CheckModeKeeps, CheckBodySizeKeeps, CheckVaultEntriesKeeps,
     CompileRuleKeeps, LoadKeeps DEF Next
<1>2. CASE UNCHANGED vars
  BY <1>2 DEF vars, IInv, Decoding, Phases, Accepted, Checked, Refused,
              ModeLegal, SizeLegal, VaultLegal
<1> QED
  BY <1>1, <1>2

(* The invariant holds of every load of every configuration. *)
THEOREM Invariance ==
    Spec => []IInv
<1>1. Init => IInv
  BY InitEstablishes
<1>2. IInv /\ [Next]_vars => IInv'
  BY NextKeeps
<1> QED
  BY <1>1, <1>2, PTL DEF Spec

-----------------------------------------------------------------------------
(***************************************************************************)
(* The theorems.                                                           *)
(***************************************************************************)

(* The invariant implies type correctness. *)
LEMMA TypedByInvariant ==
    ASSUME IInv
    PROVE  TypeOK
<1>1. Len(raw.rules) \in Nat /\ rule \in 1..(Len(raw.rules) + 1)
  <2>1. CASE pc = "decode" \/ error.kind = "Undecodable"
    <3>1. raw = [rules |-> << >>]
      BY <2>1 DEF IInv, Decoding
    <3>2. Len(raw.rules) = 0
      BY <3>1
    <3>3. rule \in 1..(Len(raw.rules) + 1)
      BY DEF IInv, Phases
    <3> QED
      BY <3>2, <3>3
  <2>2. CASE pc # "decode" /\ error.kind # "Undecodable"
    BY <2>2, RawTyped DEF IInv, Phases
  <2> QED
    BY <2>1, <2>2
<1>2. ASSUME NEW n \in DOMAIN policy.rules
      PROVE  /\ policy.rules[n].kind \in {"Regex", "Static"}
             /\ policy.rules[n].scope \in Scopes
             /\ policy.rules[n].data_type \in DataTypes
             /\ policy.rules[n].searched # << >>
  <2>1. n \in 1..(rule - 1) /\ policy.rules[n] = Compiled(raw.rules[n])
    BY <1>2 DEF IInv, Accepted
  <2>2. Fault(raw.rules[n]) = "none"
    BY <2>1 DEF IInv, Accepted
  <2> QED
    BY <2>1, <2>2, CompiledTyped
<1>3. error.kind \in ConfigErrors \cup {"none", "Undecodable"} /\ error.rule \in 0..Len(raw.rules)
  <2>1. CASE pc # "refused"
    <3>1. error = NoError
      BY <2>1 DEF IInv, Phases
    <3>2. error.kind = "none" /\ error.rule = 0
      BY <3>1 DEF NoError
    <3> QED
      BY <1>1, <3>2
  <2>2. CASE pc = "refused"
    <3>1. PICK kind : kind = Fault(raw.rules[rule])
      OBVIOUS
    <3>2. kind \in RuleFaults \cup {"none"}
      BY <3>1, FaultKinds
    <3>3. \/ /\ error.kind \in {"Undecodable", "BadContentTypeMode", "BadMaxBodySize", "BadMaxVaultEntries"}
             /\ error.rule = 0
          \/ /\ rule <= Len(raw.rules) /\ kind # "none"
             /\ error.kind = kind /\ error.rule = rule
      BY <2>2, <3>1 DEF IInv, Refused
    <3> QED
      BY <1>1, <3>2, <3>3 DEF ConfigErrors, RuleFaults
  <2> QED
    BY <2>1, <2>2
<1>4. pc \in {"decode", "mode", "body size", "vault entries", "rules", "loaded", "refused"}
  BY DEF IInv, Phases
<1> QED
  BY <1>1, <1>2, <1>3, <1>4 DEF IInv, Accepted, TypeOK

(* Type correctness: the limits and the modes are what the rest of the     *)
(* policy is written for at every moment (config.rs:181-236).              *)
THEOREM TypeCorrect ==
    Spec => []TypeOK
<1>1. IInv => TypeOK
  BY TypedByInvariant
<1> QED
  BY <1>1, Invariance, PTL

(* The places of a configuration by their names. *)
LEMMA Placed ==
    /\ LegalAt(0) <=> WellTyped(config)
    /\ LegalAt(1) <=> ModeLegal
    /\ LegalAt(2) <=> SizeLegal
    /\ LegalAt(3) <=> VaultLegal
    /\ \A n \in Nat : n > 0 => (LegalAt(3 + n) <=> Legal(raw.rules[n]))
<1>1. LegalAt(0) <=> WellTyped(config)
  BY DEF LegalAt
<1>2. LegalAt(1) <=> ModeLegal
  BY DEF LegalAt, ModeLegal
<1>3. LegalAt(2) <=> SizeLegal
  BY DEF LegalAt, SizeLegal
<1>4. LegalAt(3) <=> VaultLegal
  BY DEF LegalAt, VaultLegal
<1>5. ASSUME NEW n \in Nat, n > 0
      PROVE  LegalAt(3 + n) <=> Legal(raw.rules[n])
  BY <1>5 DEF LegalAt
<1> QED
  BY <1>1, <1>2, <1>3, <1>4, <1>5

(* The invariant implies that the first fault is the one refused. *)
LEMMA FirstFaultByInvariant ==
    ASSUME IInv
    PROVE  RefusedForFirstFault
<1>1. WellTyped(config) <=> config \in GeneratedConfig
  BY ConfigsAssumption, DecodedOrMistyped DEF IInv
<1>2. ASSUME pc # "decode", error.kind # "Undecodable"
      PROVE  /\ LegalAt(0) /\ Len(raw.rules) \in Nat
             /\ \A n \in 1..Len(raw.rules) : LegalAt(3 + n) <=> Fault(raw.rules[n]) = "none"
  <2>1. LegalAt(0)
    BY <1>1, <1>2, Placed DEF IInv, Decoding
  <2>2. Len(raw.rules) \in Nat /\ \A n \in 1..Len(raw.rules) : Decoded(raw.rules[n])
    BY <1>2, RawTyped
  <2>3. ASSUME NEW n \in 1..Len(raw.rules)
        PROVE  LegalAt(3 + n) <=> Fault(raw.rules[n]) = "none"
    <3>1. n \in Nat /\ n > 0
      BY <2>2
    <3>2. LegalAt(3 + n) <=> Legal(raw.rules[n])
      BY <3>1, Placed
    <3> QED
      BY <2>2, <3>2, FaultOrLegal
  <2> QED
    BY <2>1, <2>2, <2>3
<1>3. ASSUME pc = "loaded"
      PROVE  \A place \in 0..(3 + Len(raw.rules)) : LegalAt(place)
  <2>1. error.kind # "Undecodable" /\ pc # "decode"
    BY <1>3 DEF IInv, Phases, NoError
  <2>2. /\ LegalAt(0) /\ Len(raw.rules) \in Nat
        /\ \A n \in 1..Len(raw.rules) : LegalAt(3 + n) <=> Fault(raw.rules[n]) = "none"
    BY <1>2, <2>1
  <2>3. LegalAt(1) /\ LegalAt(2) /\ LegalAt(3)
    BY <1>3, Placed DEF IInv, Checked
  <2>4. \A n \in 1..Len(raw.rules) : Fault(raw.rules[n]) = "none"
    BY <1>3, <2>2 DEF IInv, Phases, Accepted
  <2>5. TAKE place \in 0..(3 + Len(raw.rules))
  <2>6. CASE place \in 0..3
    BY <2>2, <2>3, <2>6
  <2>7. CASE place \notin 0..3
    <3>1. place - 3 \in 1..Len(raw.rules) /\ 3 + (place - 3) = place
      BY <2>2, <2>7
    <3> QED
      BY <2>2, <2>4, <3>1
  <2> QED
    BY <2>6, <2>7
<1>4. ASSUME pc = "refused"
      PROVE  /\ ~LegalAt(PlaceOf(error))
             /\ \A place \in 0..(PlaceOf(error) - 1) : LegalAt(place)
  <2>1. Refused
    BY <1>4 DEF IInv
  <2>2. CASE error = [kind |-> "Undecodable", rule |-> 0] /\ config \notin GeneratedConfig
    <3>1. PlaceOf(error) = 0
      BY <2>2 DEF PlaceOf
    <3>2. 0..(0 - 1) = {}
      OBVIOUS
    <3> QED
      BY <1>1, <2>2, <3>1, <3>2, Placed
  <2>3. CASE error = [kind |-> "BadContentTypeMode", rule |-> 0] /\ ~ModeLegal
    <3>1. PlaceOf(error) = 1
      BY <2>3 DEF PlaceOf
    <3>2. LegalAt(0)
      BY <1>2, <1>4, <2>3
    <3>3. 0..(1 - 1) = {0}
      OBVIOUS
    <3> QED
      BY <2>3, <3>1, <3>2, <3>3, Placed
  <2>4. CASE error = [kind |-> "BadMaxBodySize", rule |-> 0] /\ ModeLegal /\ ~SizeLegal
    <3>1. PlaceOf(error) = 2
      BY <2>4 DEF PlaceOf
    <3>2. LegalAt(0)
      BY <1>2, <1>4, <2>4
    <3>3. 0..(2 - 1) = {0, 1}
      OBVIOUS
    <3> QED
      BY <2>4, <3>1, <3>2, <3>3, Placed
  <2>5. CASE error = [kind |-> "BadMaxVaultEntries", rule |-> 0] /\ ModeLegal /\ SizeLegal /\ ~VaultLegal
    <3>1. PlaceOf(error) = 3
      BY <2>5 DEF PlaceOf
    <3>2. LegalAt(0)
      BY <1>2, <1>4, <2>5
    <3>3. 0..(3 - 1) = {0, 1, 2}
      OBVIOUS
    <3> QED
      BY <2>5, <3>1, <3>2, <3>3, Placed
  <2>6. CASE /\ rule <= Len(raw.rules)
             /\ Fault(raw.rules[rule]) # "none"
             /\ error = [kind |-> Fault(raw.rules[rule]), rule |-> rule]
             /\ ModeLegal /\ SizeLegal /\ VaultLegal
    <3>1. PICK kind : kind = Fault(raw.rules[rule])
      OBVIOUS
    <3>2. kind \in RuleFaults
      BY <2>6, <3>1, FaultKinds
    <3>3. error.kind = kind /\ error.rule = rule
      BY <2>6, <3>1
    <3>4. error.kind \notin {"Undecodable", "BadContentTypeMode", "BadMaxBodySize", "BadMaxVaultEntries"}
      BY <3>2, <3>3 DEF RuleFaults
    <3>5. PlaceOf(error) = 3 + rule
      BY <3>3, <3>4 DEF PlaceOf
    <3>6. /\ LegalAt(0) /\ Len(raw.rules) \in Nat
          /\ \A n \in 1..Len(raw.rules) : LegalAt(3 + n) <=> Fault(raw.rules[n]) = "none"
      BY <1>2, <1>4, <3>4
    <3>7. rule \in 1..Len(raw.rules) /\ rule \in Nat
      <4>1. rule \in 1..(Len(raw.rules) + 1)
        BY DEF IInv, Phases
      <4> DEFINE length == Len(raw.rules)
      <4>2. length \in Nat /\ rule \in 1..(length + 1) /\ rule <= length
        BY <2>6, <3>6, <4>1
      <4> HIDE DEF length
      <4>3. rule \in 1..length /\ rule \in Nat
        BY <4>2
      <4> QED
        BY <4>3 DEF length
    <3>8. ~LegalAt(3 + rule)
      BY <2>6, <3>6, <3>7
    <3>9. LegalAt(1) /\ LegalAt(2) /\ LegalAt(3)
      BY <2>6, Placed
    <3>10. PICK there : there = PlaceOf(error)
      OBVIOUS
    <3>11. there = 3 + rule
      BY <3>5, <3>10
    <3>12. ~LegalAt(there)
      BY <3>8, <3>11
    <3>13. ASSUME NEW place \in 0..(there - 1)
           PROVE  LegalAt(place)
      <4>1. CASE place \in 0..3
        BY <3>6, <3>9, <4>1
      <4>2. CASE place \notin 0..3
        <5>1. place - 3 \in 1..(rule - 1) /\ 3 + (place - 3) = place
          BY <3>7, <3>11, <3>13, <4>2
        <5>2. Fault(raw.rules[place - 3]) = "none"
          BY <5>1 DEF IInv, Accepted
        <5>3. place - 3 \in 1..Len(raw.rules)
          BY <3>6, <3>7, <5>1
        <5> QED
          BY <3>6, <5>1, <5>2, <5>3
      <4> QED
        BY <4>1, <4>2
    <3> QED
      BY <3>10, <3>12, <3>13
  <2> QED
    BY <2>1, <2>2, <2>3, <2>4, <2>5, <2>6 DEF Refused
<1> QED
  BY <1>3, <1>4 DEF RefusedForFirstFault

(* A policy is loaded only if it is legal throughout, and a refused one *)
(* is refused for the first of its faults (config.rs:181-236,           *)
(* lib.rs:52-66).                                                       *)
THEOREM RefusesFirstFault ==
    Spec => []RefusedForFirstFault
<1>1. IInv => RefusedForFirstFault
  BY FirstFaultByInvariant
<1> QED
  BY <1>1, Invariance, PTL

(* Where a value stands first is unique. *)
LEMMA FirstFound ==
    ASSUME NEW V, NEW values \in Seq(V), NEW v, NEW m \in DOMAIN values,
           values[m] = v, IsFirst(values, m)
    PROVE  (CHOOSE k \in DOMAIN values : values[k] = v /\ \A l \in 1..(k - 1) : values[l] # v) = m
<1> DEFINE Is(k) == values[k] = v /\ \A l \in 1..(k - 1) : values[l] # v
<1>1. DOMAIN values = 1..Len(values) /\ Len(values) \in Nat
  OBVIOUS
<1>2. Is(m)
  BY DEF IsFirst
<1>3. ASSUME NEW k \in DOMAIN values, Is(k)
      PROVE  k = m
  <2>1. k \in Nat /\ m \in Nat /\ k >= 1 /\ m >= 1
    BY <1>1
  <2>2. ~(k < m)
    <3>1. k < m => k \in 1..(m - 1)
      BY <2>1
    <3> QED
      BY <1>2, <1>3, <3>1
  <2>3. ~(m < k)
    <3>1. m < k => m \in 1..(k - 1)
      BY <2>1
    <3> QED
      BY <1>2, <1>3, <3>1
  <2> QED
    BY <2>1, <2>2, <2>3
<1> HIDE DEF Is
<1>4. (CHOOSE k \in DOMAIN values : Is(k)) = m
  BY <1>2, <1>3
<1> QED
  BY <1>4 DEF Is

(* The values of a rule are merged from its array and from something *)
(* else.                                                             *)
LEMMA MergedFirst ==
    ASSUME NEW r, Decoded(r)
    PROVE  \E others \in Seq(Line) : Values(r) = Merged(r.values \o others)
<1>1. r.values \in Seq(Line) /\ r.values_text \in Option(ValuesText)
  BY DEF Decoded
<1>2. CASE r.values_text = << >>
  <2>1. Values(r) = Merged(r.values)
    BY <1>2 DEF Values, MergeStaticValues
  <2>2. << >> \in Seq(Line) /\ r.values \o << >> = r.values
    BY <1>1, EmptySeq
  <2> QED
    BY <2>1, <2>2
<1>3. CASE r.values_text # << >>
  <2>1. r.values_text[1] \in ValuesText
    BY <1>1, <1>3 DEF Option, Required
  <2>2. ParseValuesText(r.values_text[1]) \in Seq(Line)
    BY <2>1, Parsed
  <2>3. Values(r) = Merged(r.values \o ParseValuesText(r.values_text[1]))
    BY <1>3 DEF Values, MergeStaticValues
  <2> QED
    BY <2>2, <2>3
<1> QED
  BY <1>2, <1>3

(* What ValuesMerged says of one rule. *)
Searches(found, r) ==
    LET values == r.values
        first(v) == CHOOSE k \in DOMAIN values :
                      values[k] = v /\ \A l \in 1..(k - 1) : values[l] # v
    IN  /\ IsInjective(found)
        /\ Range(found) = Meant(r)
        /\ \A k, l \in DOMAIN found :
             k < l /\ found[l] \in Range(values) =>
                /\ found[k] \in Range(values)
                /\ first(found[k]) < first(found[l])

(* A static rule searches for what it is meant to, in order. *)
LEMMA ValuesSearched ==
    ASSUME NEW r, Decoded(r)
    PROVE  Searches(Values(r), r)
<1> DEFINE first(v) == CHOOSE k \in DOMAIN r.values :
                         r.values[k] = v /\ \A l \in 1..(k - 1) : r.values[l] # v
<1>1. r.values \in Seq(Line) /\ r.values_text \in Option(ValuesText)
  BY DEF Decoded
<1>2. PICK others \in Seq(Line) : Values(r) = Merged(r.values \o others)
  BY MergedFirst
<1>3. PICK found : found = Values(r)
  OBVIOUS
<1>4. r.values \o others \in Seq(Line)
  BY <1>1, ConcatProperties
<1>5. IsInjective(found)
  BY <1>2, <1>3, <1>4, MergedOnce
<1>6. Range(found) = Meant(r)
  BY <1>1, <1>3, MergedMeant
<1>7. ASSUME NEW k \in DOMAIN found, NEW l \in DOMAIN found, k < l, found[l] \in Range(r.values)
      PROVE  found[k] \in Range(r.values) /\ first(found[k]) < first(found[l])
  <2> HIDE DEF first
  <2>1. PICK m, n \in DOMAIN r.values :
          /\ m < n
          /\ r.values[m] = found[k] /\ IsFirst(r.values, m)
          /\ r.values[n] = found[l] /\ IsFirst(r.values, n)
    BY <1>1, <1>2, <1>3, <1>7, MergedBefore
  <2>2. first(found[k]) = m
    BY <1>1, <2>1, FirstFound DEF first
  <2>3. first(found[l]) = n
    BY <1>1, <2>1, FirstFound DEF first
  <2>4. found[k] \in Range(r.values)
    BY <2>1 DEF Range
  <2> QED
    BY <2>1, <2>2, <2>3, <2>4
<1>8. Searches(found, r) <=>
        /\ IsInjective(found)
        /\ Range(found) = Meant(r)
        /\ \A k, l \in DOMAIN found :
             k < l /\ found[l] \in Range(r.values) =>
               found[k] \in Range(r.values) /\ first(found[k]) < first(found[l])
  BY Zenon DEF Searches
<1> HIDE DEF first
<1>9. Searches(found, r)
  BY <1>5, <1>6, <1>7, <1>8
<1> QED
  BY <1>3, <1>9

(* The invariant implies that the values of every rule are merged. *)
LEMMA MergedByInvariant ==
    ASSUME IInv
    PROVE  ValuesMerged
<1>1. ValuesMerged <=>
        (pc = "loaded" =>
           \A n \in DOMAIN raw.rules :
             raw.rules[n].rule_type = "static" => Searches(policy.rules[n].searched, raw.rules[n]))
  BY Zenon DEF ValuesMerged, Searches
<1>2. SUFFICES ASSUME pc = "loaded", NEW n \in DOMAIN raw.rules, raw.rules[n].rule_type = "static"
               PROVE  Searches(policy.rules[n].searched, raw.rules[n])
  BY <1>1
<1>3. pc # "decode" /\ error.kind # "Undecodable" /\ rule = Len(raw.rules) + 1
  BY <1>2 DEF IInv, Phases, NoError
<1>4. PICK r : r = raw.rules[n]
  OBVIOUS
<1>5. Decoded(r) /\ n \in 1..Len(raw.rules) /\ Len(raw.rules) \in Nat
  BY <1>2, <1>3, <1>4, RawTyped
<1>6. policy.rules[n] = Compiled(r)
  BY <1>3, <1>4, <1>5 DEF IInv, Accepted
<1>7. Compiled(r).searched = Values(r)
  BY <1>2, <1>4 DEF Compiled, Searched
<1> QED
  BY <1>4, <1>5, <1>6, <1>7, ValuesSearched

(* A static rule of a loaded policy searches for all the values of both *)
(* its lists, each once, those of its array first and in their order    *)
(* (config.rs:263-322).                                                 *)
THEOREM ValuesAreMerged ==
    Spec => []ValuesMerged
<1>1. IInv => ValuesMerged
  BY MergedByInvariant
<1> QED
  BY <1>1, Invariance, PTL
=============================================================================
