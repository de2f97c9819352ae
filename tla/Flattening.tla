------------------------------ MODULE Flattening -------------------------------
(***************************************************************************)
(* Lemmas about sequences joined one behind another: what FlattenSeq makes *)
(* of them, how long it is, where each of them stands in it, and what a    *)
(* scan that leaps over a text puts out. They go by induction over a       *)
(* number. The induction theorems of the library take the property as an   *)
(* operator and cannot be cited; Induction takes it as a set, which the    *)
(* principle of the least element of well-founded orders, stated for sets, *)
(* gives.                                                                  *)
(***************************************************************************)
EXTENDS Integers, SequencesExt, SequenceTheorems, WellFoundedInduction, TLAPS

(* A set of numbers that is not empty has a least element. *)
LEMMA Least ==
    ASSUME NEW T, T \subseteq Nat, T # {}
    PROVE  \E x \in T : \A y \in T : x <= y
<1>1. IsWellFoundedOn(OpToRel(<, Nat), Nat)
  BY NatLessThanWellFounded
<1>2. PICK x \in T : \A y \in T : ~(<<y, x>> \in OpToRel(<, Nat))
  BY <1>1, WFMin
<1>3. \A y \in T : <<y, x>> \in OpToRel(<, Nat) <=> y < x
  BY DEF OpToRel
<1>4. \A y \in T : x <= y
  <2>1. TAKE y \in T
  <2>2. ~(y < x) /\ x \in Nat /\ y \in Nat
    BY <1>2, <1>3
  <2> QED
    BY <2>2
<1> QED
  BY <1>4

(* Induction, for a property given as the set of the numbers that have it. *)
LEMMA Induction ==
    ASSUME NEW S, 0 \in S, \A n \in Nat : n \in S => n + 1 \in S
    PROVE  Nat \subseteq S
<1> SUFFICES ASSUME Nat \ S # {} PROVE FALSE
  OBVIOUS
<1>1. PICK x \in Nat \ S : \A y \in Nat \ S : x <= y
  BY Least
<1>2. x # 0
  BY <1>1
<1>3. x - 1 \in Nat /\ x - 1 \in S
  BY <1>1, <1>2
<1> QED
  BY <1>1, <1>3

-----------------------------------------------------------------------------
(* f[k] is what the first k members of s make, one behind another. *)
Joins(f, s) ==
    /\ DOMAIN f = 0..Len(s)
    /\ f[0] = << >>
    /\ \A k \in 1..Len(s) : f[k] = f[k - 1] \o s[k]

(* There is such a function ... *)
LEMMA JoinsExists ==
    ASSUME NEW s, Len(s) \in Nat
    PROVE  \E f : Joins(f, s)
<1> DEFINE Upto(f, n) == /\ DOMAIN f = 0..n
                         /\ f[0] = << >>
                         /\ \A k \in 1..n : f[k] = f[k - 1] \o s[k]
           S == {n \in Nat : \E f : Upto(f, n)}
<1>1. 0 \in S
  <2> DEFINE f == [k \in 0..0 |-> << >>]
  <2>1. Upto(f, 0)
    OBVIOUS
  <2> QED
    BY <2>1
<1>2. ASSUME NEW n \in Nat, n \in S
      PROVE  n + 1 \in S
  <2>1. PICK f : Upto(f, n)
    BY <1>2
  <2> DEFINE g == [k \in 0..(n + 1) |-> IF k = n + 1 THEN f[n] \o s[n + 1] ELSE f[k]]
  <2>2. g[0] = << >> /\ DOMAIN g = 0..(n + 1)
    BY <2>1
  <2>3. ASSUME NEW k \in 1..(n + 1)
        PROVE  g[k] = g[k - 1] \o s[k]
    <3>1. CASE k = n + 1
      BY <3>1
    <3>2. CASE k # n + 1
      <4>1. k \in 1..n /\ k - 1 \in 0..n
        BY <3>2
      <4>2. f[k] = f[k - 1] \o s[k]
        BY <2>1, <4>1
      <4>3. g[k] = f[k] /\ g[k - 1] = f[k - 1]
        BY <3>2, <4>1
      <4> QED
        BY <4>2, <4>3
    <3> QED
      BY <3>1, <3>2
  <2>4. Upto(g, n + 1)
    BY <2>2, <2>3
  <2> HIDE DEF g
  <2> QED
    BY <2>4
<1> HIDE DEF S
<1>3. Len(s) \in S
  BY <1>1, <1>2, Induction
<1> QED
  BY <1>3 DEF S, Joins

(* ... and it is made of sequences if the members of s are. *)
LEMMA JoinsTyped ==
    ASSUME NEW C, NEW s \in Seq(Seq(C)), NEW f, Joins(f, s)
    PROVE  \A k \in 0..Len(s) : f[k] \in Seq(C)
<1> DEFINE S == {n \in Nat : n <= Len(s) => f[n] \in Seq(C)}
<1>1. 0 \in S
  BY EmptySeq DEF Joins
<1>2. Len(s) \in Nat
  OBVIOUS
<1>3. ASSUME NEW n \in Nat, n \in S
      PROVE  n + 1 \in S
  <2> SUFFICES ASSUME n + 1 <= Len(s)
               PROVE  f[n + 1] \in Seq(C)
    OBVIOUS
  <2>1. n + 1 \in 1..Len(s) /\ n + 1 - 1 = n /\ f[n] \in Seq(C)
    BY <1>3, <1>2
  <2>2. f[n + 1] = f[n] \o s[n + 1]
    <3> DEFINE m == n + 1
    <3>1. m \in 1..Len(s) /\ m - 1 = n
      BY <2>1
    <3> HIDE DEF m
    <3>2. f[m] = f[m - 1] \o s[m]
      BY <3>1 DEF Joins
    <3> QED
      BY <3>1, <3>2 DEF m
  <2>3. s[n + 1] \in Seq(C)
    BY <2>1, ElementOfSeq
  <2> QED
    BY <2>1, <2>2, <2>3, ConcatProperties
<1> HIDE DEF S
<1>4. \A n \in Nat : n \in S
  BY <1>1, <1>3, Induction
<1>5. \A k \in 0..Len(s) : k \in Nat /\ k <= Len(s)
  BY <1>2
<1> QED
  BY <1>4, <1>5 DEF S, Joins

(* Two sequences that begin with the same members are joined alike. *)
LEMMA JoinsAlike ==
    ASSUME NEW s, NEW t, NEW f, NEW g, Joins(f, s), Joins(g, t),
           NEW j \in Nat, j <= Len(s), j <= Len(t), Len(s) \in Nat, Len(t) \in Nat,
           \A k \in 1..j : s[k] = t[k]
    PROVE  f[j] = g[j]
<1> DEFINE S == {n \in Nat : n <= j => f[n] = g[n]}
<1>1. 0 \in S
  BY DEF Joins
<1>2. ASSUME NEW n \in Nat, n \in S
      PROVE  n + 1 \in S
  <2> SUFFICES ASSUME n + 1 <= j
               PROVE  f[n + 1] = g[n + 1]
    OBVIOUS
  <2>1. /\ n + 1 \in 1..j /\ n + 1 \in 1..Len(s) /\ n + 1 \in 1..Len(t)
        /\ f[n] = g[n] /\ n + 1 - 1 = n
    BY <1>2
  <2>2. f[n + 1] = f[n] \o s[n + 1] /\ g[n + 1] = g[n] \o t[n + 1]
    BY <2>1 DEF Joins
  <2> QED
    BY <2>1, <2>2
<1> HIDE DEF S
<1>3. \A n \in Nat : n \in S
  BY <1>1, <1>2, Induction
<1> QED
  BY <1>3 DEF S

(* FlattenSeq joins all of the members. *)
LEMMA FlattenJoins ==
    ASSUME NEW C, NEW s \in Seq(Seq(C)), NEW f, Joins(f, s)
    PROVE  FlattenSeq(s) = f[Len(s)] /\ FlattenSeq(s) \in Seq(C)
<1> DEFINE N == Len(s)
           flat == CHOOSE g : g = [k \in 1..N |-> IF k = 1 THEN s[k] ELSE g[k - 1] \o s[k]]
<1>1. N \in Nat /\ f[N] \in Seq(C)
  BY JoinsTyped
<1>2. CASE N = 0
  <2>1. s = << >> /\ FlattenSeq(s) = s
    BY <1>2, EmptySeq DEF FlattenSeq
  <2> QED
    BY <1>1, <1>2, <2>1 DEF Joins
<1>3. CASE N # 0
  <2>1. FlattenSeq(s) = flat[N]
    BY <1>3 DEF FlattenSeq
  <2>2. flat = [k \in 1..N |-> IF k = 1 THEN s[k] ELSE flat[k - 1] \o s[k]]
    <3> DEFINE g == [k \in 1..N |-> f[k]]
    <3>1. ASSUME NEW k \in 1..N
          PROVE  g[k] = IF k = 1 THEN s[k] ELSE g[k - 1] \o s[k]
      <4>1. f[k] = f[k - 1] \o s[k] /\ s[k] \in Seq(C)
        BY ElementOfSeq DEF Joins
      <4>2. CASE k = 1
        <5>1. f[k - 1] = << >>
          BY <4>2 DEF Joins
        <5>2. << >> \o s[k] = s[k]
          BY <4>1, ConcatEmptySeq
        <5> QED
          BY <4>1, <4>2, <5>1, <5>2
      <4>3. CASE k # 1
        <5>1. g[k] = f[k] /\ g[k - 1] = f[k - 1]
          BY <1>1, <4>3
        <5> QED
          BY <4>1, <4>3, <5>1
      <4> QED
        BY <4>2, <4>3
    <3>2. g = [k \in 1..N |-> IF k = 1 THEN s[k] ELSE g[k - 1] \o s[k]]
      BY <3>1
    <3> HIDE DEF g, N
    <3> QED
      BY <3>2
  <2>3. Joins([k \in 0..N |-> IF k = 0 THEN << >> ELSE flat[k]], s)
    <3> HIDE DEF flat
    <3> DEFINE h == [k \in 0..N |-> IF k = 0 THEN << >> ELSE flat[k]]
    <3>1. ASSUME NEW k \in 1..N
          PROVE  h[k] = h[k - 1] \o s[k]
      <4>1. CASE k = 1
        <5>1. s[k] \in Seq(C)
          BY <1>1, ElementOfSeq
        <5>2. << >> \o s[k] = s[k]
          BY <5>1, ConcatEmptySeq
        <5>3. h[k] = s[k] /\ h[k - 1] = << >>
          BY <1>1, <2>2, <4>1
        <5> QED
          BY <5>2, <5>3
      <4>2. CASE k # 1
        <5>1. h[k] = flat[k] /\ h[k - 1] = flat[k - 1]
          BY <1>1, <4>2
        <5> QED
          BY <2>2, <4>2, <5>1
      <4> QED
        BY <4>1, <4>2
    <3>2. DOMAIN h = 0..Len(s) /\ h[0] = << >>
      BY <1>1
    <3> HIDE DEF h, N
    <3> QED
      BY <3>1, <3>2 DEF Joins, N, h
  <2> HIDE DEF flat
  <2>4. flat[N] = f[N]
    <3> DEFINE h == [k \in 0..N |-> IF k = 0 THEN << >> ELSE flat[k]]
    <3>1. Joins(h, s) /\ h[N] = flat[N] /\ N \in Nat /\ N <= Len(s) /\ Len(s) \in Nat
      BY <1>1, <1>3, <2>3
    <3> HIDE DEF h, N
    <3>2. Joins(f, s) /\ \A k \in 1..N : s[k] = s[k]
      BY <1>1
    <3>3. h[N] = f[N]
      BY <3>1, <3>2, JoinsAlike
    <3> QED
      BY <3>1, <3>3
  <2> QED
    BY <1>1, <2>1, <2>4
<1> QED
  BY <1>2, <1>3

(* The sums of the numbers in a are in f, those of the first k in f[k]. *)
Sums(f, a, N) ==
    /\ a \in [1..N -> Nat]
    /\ f \in [0..N -> Nat]
    /\ f[0] = 0
    /\ \A k \in 1..N : f[k] = f[k - 1] + a[k]

(* Of numbers that add up pairwise the sums add up. *)
LEMMA SumsAdd ==
    ASSUME NEW N \in Nat, NEW f, NEW g, NEW h, NEW a, NEW b, NEW c,
           Sums(f, a, N), Sums(g, b, N), Sums(h, c, N),
           \A k \in 1..N : c[k] = a[k] + b[k]
    PROVE  h[N] = f[N] + g[N]
<1> DEFINE S == {n \in Nat : n <= N => h[n] = f[n] + g[n]}
<1>1. 0 \in S
  BY DEF Sums
<1>2. ASSUME NEW n \in Nat, n \in S
      PROVE  n + 1 \in S
  <2> SUFFICES ASSUME n + 1 <= N
               PROVE  h[n + 1] = f[n + 1] + g[n + 1]
    OBVIOUS
  <2> DEFINE k == n + 1
  <2>1. k \in 1..N /\ n \in 0..N /\ k - 1 = n /\ h[n] = f[n] + g[n]
    BY <1>2
  <2> HIDE DEF k
  <2>2. h[k] = h[n] + c[k] /\ g[k] = g[n] + b[k] /\ f[k] = f[n] + a[k] /\ c[k] = a[k] + b[k]
    BY <2>1 DEF Sums
  <2>3. f[n] \in Nat /\ g[n] \in Nat /\ a[k] \in Nat /\ b[k] \in Nat
    BY <2>1 DEF Sums
  <2>4. h[k] = f[k] + g[k]
    BY <2>1, <2>2, <2>3
  <2> QED
    BY <2>4 DEF k
<1> HIDE DEF S
<1>3. N \in S
  BY <1>1, <1>2, Induction
<1> QED
  BY <1>3 DEF S

LengthsOf(s) == [k \in 1..Len(s) |-> Len(s[k])]

(* Joined sequences are as long as their members together. *)
LEMMA JoinsLength ==
    ASSUME NEW C, NEW s \in Seq(Seq(C)), NEW f, Joins(f, s)
    PROVE  Sums([k \in 0..Len(s) |-> Len(f[k])], LengthsOf(s), Len(s))
<1>1. Len(f[0]) = 0 /\ Len(s) \in Nat
  BY EmptySeq DEF Joins
<1>2. ASSUME NEW k \in 0..Len(s)
      PROVE  Len(f[k]) \in Nat
  BY JoinsTyped
<1>3. ASSUME NEW k \in 1..Len(s)
      PROVE  Len(f[k]) = Len(f[k - 1]) + Len(s[k]) /\ Len(s[k]) \in Nat
  <2>1. k - 1 \in 0..Len(s)
    BY <1>1
  <2>2. f[k - 1] \in Seq(C)
    BY <2>1, JoinsTyped
  <2>3. s[k] \in Seq(C)
    BY ElementOfSeq
  <2>4. f[k] = f[k - 1] \o s[k]
    BY DEF Joins
  <2> DEFINE front == f[k - 1]
             member == s[k]
  <2>5. front \in Seq(C) /\ member \in Seq(C) /\ f[k] = front \o member
    BY <2>2, <2>3, <2>4
  <2> HIDE DEF front, member
  <2>6. Len(front \o member) = Len(front) + Len(member)
    BY <2>5, ConcatProperties
  <2>7. Len(f[k]) = Len(front) + Len(member) /\ Len(member) \in Nat
    BY <2>5, <2>6
  <2> QED
    BY <2>7 DEF front, member
<1> DEFINE N == Len(s)
           g == [k \in 0..N |-> Len(f[k])]
           a == [k \in 1..N |-> Len(s[k])]
<1>4. a \in [1..N -> Nat] /\ g \in [0..N -> Nat] /\ g[0] = 0
  BY <1>1, <1>2, <1>3
<1>5. ASSUME NEW k \in 1..N
      PROVE  g[k] = g[k - 1] + a[k]
  <2>1. k \in 0..N /\ k - 1 \in 0..N
    BY <1>1
  <2>2. g[k] = Len(f[k]) /\ g[k - 1] = Len(f[k - 1]) /\ a[k] = Len(s[k])
    BY <2>1
  <2> QED
    BY <1>3, <2>2
<1> HIDE DEF a, g, N
<1>6. Sums(g, a, N)
  BY <1>4, <1>5 DEF Sums
<1> QED
  BY <1>6 DEF a, g, N, LengthsOf

(* The same with FlattenSeq. *)
LEMMA FlattenLength ==
    ASSUME NEW C, NEW s \in Seq(Seq(C)), NEW N, N = Len(s)
    PROVE  \E f : Sums(f, LengthsOf(s), N) /\ f[N] = Len(FlattenSeq(s))
<1>1. N \in Nat
  OBVIOUS
<1>2. PICK f : Joins(f, s)
  BY <1>1, JoinsExists
<1> DEFINE g == [k \in 0..N |-> Len(f[k])]
<1>3. Sums(g, LengthsOf(s), N)
  BY <1>2, JoinsLength
<1>4. g[N] = Len(FlattenSeq(s))
  BY <1>1, <1>2, FlattenJoins
<1> HIDE DEF g
<1> QED
  BY <1>3, <1>4

(* The lengths of joined sequences add up member by member. *)
LEMMA LengthsAdd ==
    ASSUME NEW C, NEW s \in Seq(Seq(C)), NEW t \in Seq(Seq(C)), NEW u \in Seq(Seq(C)),
           Len(t) = Len(s), Len(u) = Len(s),
           \A k \in 1..Len(s) : Len(u[k]) = Len(s[k]) + Len(t[k])
    PROVE  Len(FlattenSeq(u)) = Len(FlattenSeq(s)) + Len(FlattenSeq(t))
<1> DEFINE N == Len(s)
           a == LengthsOf(s)
           b == LengthsOf(t)
           c == LengthsOf(u)
<1>1. N \in Nat /\ Len(s) = N /\ Len(t) = N /\ Len(u) = N
  OBVIOUS
<1>2. \A k \in 1..N : c[k] = a[k] + b[k]
  BY DEF LengthsOf
<1> HIDE DEF N
<1>3. PICK f : Sums(f, LengthsOf(s), N) /\ f[N] = Len(FlattenSeq(s))
  BY <1>1, FlattenLength
<1>4. PICK g : Sums(g, LengthsOf(t), N) /\ g[N] = Len(FlattenSeq(t))
  BY <1>1, FlattenLength
<1>5. PICK h : Sums(h, LengthsOf(u), N) /\ h[N] = Len(FlattenSeq(u))
  BY <1>1, FlattenLength
<1> HIDE DEF a, b, c
<1>6. Sums(f, a, N) /\ Sums(g, b, N) /\ Sums(h, c, N)
  BY <1>3, <1>4, <1>5 DEF a, b, c
<1>7. h[N] = f[N] + g[N]
  BY <1>6, <1>1, <1>2, SumsAdd
<1> QED
  BY <1>3, <1>4, <1>5, <1>7

(* Only the lengths of the members count. *)
LEMMA LengthsAlike ==
    ASSUME NEW C, NEW s \in Seq(Seq(C)), NEW t \in Seq(Seq(C)), Len(t) = Len(s),
           \A k \in 1..Len(s) : Len(t[k]) = Len(s[k])
    PROVE  Len(FlattenSeq(t)) = Len(FlattenSeq(s))
<1> DEFINE N == Len(s)
           zero == [k \in 1..N |-> 0]
           zeros == [k \in 0..N |-> 0]
<1>1. N \in Nat /\ Len(s) = N /\ Len(t) = N
  OBVIOUS
<1>2. Sums(zeros, zero, N)
  BY <1>1 DEF Sums
<1>3. \A k \in 1..N : LengthsOf(t)[k] = LengthsOf(s)[k] + zero[k]
  <2>1. TAKE k \in 1..N
  <2>2. s[k] \in Seq(C)
    BY ElementOfSeq
  <2>3. Len(s[k]) \in Nat
    BY <2>2
  <2> QED
    BY <2>3 DEF LengthsOf
<1>4. zeros[N] = 0
  BY <1>1
<1> HIDE DEF N, zero, zeros
<1>5. PICK f : Sums(f, LengthsOf(s), N) /\ f[N] = Len(FlattenSeq(s))
  BY <1>1, FlattenLength
<1>6. PICK g : Sums(g, LengthsOf(t), N) /\ g[N] = Len(FlattenSeq(t))
  BY <1>1, FlattenLength
<1> DEFINE a == LengthsOf(s)
           b == LengthsOf(t)
<1>7. Sums(f, a, N) /\ Sums(g, b, N) /\ \A k \in 1..N : b[k] = a[k] + zero[k]
  BY <1>3, <1>5, <1>6
<1> HIDE DEF a, b
<1>8. g[N] = f[N] + zeros[N]
  BY <1>7, <1>1, <1>2, SumsAdd
<1>9. f[N] \in Nat
  BY <1>1, <1>5 DEF Sums
<1> QED
  BY <1>4, <1>5, <1>6, <1>8, <1>9

-----------------------------------------------------------------------------
(* What some of the members make is how what more of them make begins. *)
LEMMA JoinsPrefix ==
    ASSUME NEW C, NEW s \in Seq(Seq(C)), NEW f, Joins(f, s),
           NEW j \in 0..Len(s), NEW m \in j..Len(s)
    PROVE  /\ Len(f[j]) <= Len(f[m])
           /\ \A i \in 1..Len(f[j]) : f[m][i] = f[j][i]
<1> DEFINE Begins(n) == /\ Len(f[j]) <= Len(f[n])
                        /\ \A i \in 1..Len(f[j]) : f[n][i] = f[j][i]
           S == {n \in Nat : j + n <= Len(s) => Begins(j + n)}
<1>1. /\ Len(s) \in Nat /\ j \in Nat
      /\ \A k \in 0..Len(s) : f[k] \in Seq(C) /\ Len(f[k]) \in Nat
  <2>1. \A k \in 0..Len(s) : f[k] \in Seq(C)
    BY JoinsTyped
  <2> QED
    BY <2>1
<1>2. 0 \in S
  BY <1>1
<1>3. ASSUME NEW n \in Nat, n \in S
      PROVE  n + 1 \in S
  <2> SUFFICES ASSUME j + (n + 1) <= Len(s)
               PROVE  Begins(j + (n + 1))
    OBVIOUS
  <2> DEFINE k == j + (n + 1)
  <2>1. k \in 1..Len(s) /\ k - 1 = j + n /\ k - 1 \in 0..Len(s) /\ Begins(k - 1)
    <3>1. k \in 1..Len(s) /\ k - 1 = j + n /\ k - 1 \in 0..Len(s) /\ j + n <= Len(s)
      BY <1>1
    <3> HIDE DEF Begins, k
    <3>2. Begins(j + n)
      BY <1>3, <3>1
    <3> QED
      BY <3>1, <3>2
  <2> DEFINE before == f[k - 1]
             after == f[k]
             last == s[k]
             start == f[j]
  <2> HIDE DEF k
  <2>2. after = before \o last /\ before \in Seq(C) /\ last \in Seq(C) /\ start \in Seq(C)
    BY <1>1, <2>1, ElementOfSeq DEF Joins
  <2>3. Len(start) <= Len(before) /\ \A i \in 1..Len(start) : before[i] = start[i]
    BY <2>1
  <2> HIDE DEF before, after, last, start
  <2>4. /\ Len(after) = Len(before) + Len(last)
        /\ \A i \in 1..Len(before) + Len(last) :
             after[i] = IF i <= Len(before) THEN before[i] ELSE last[i - Len(before)]
        /\ Len(before) \in Nat /\ Len(last) \in Nat /\ Len(start) \in Nat
    BY <2>2, ConcatProperties
  <2>5. Len(start) <= Len(after)
    BY <2>3, <2>4
  <2>6. ASSUME NEW i \in 1..Len(start)
        PROVE  after[i] = start[i]
    <3>1. i \in 1..Len(before) + Len(last) /\ i <= Len(before)
      BY <2>3, <2>4
    <3>2. after[i] = before[i]
      BY <2>4, <3>1
    <3> QED
      BY <2>3, <3>2
  <2> QED
    BY <2>5, <2>6 DEF after, start, k
<1> HIDE DEF S
<1>4. Nat \subseteq S
  BY <1>2, <1>3, Induction
<1>5. m - j \in Nat /\ j + (m - j) = m /\ m <= Len(s)
  BY <1>1
<1> DEFINE d == m - j
<1>6. d \in S /\ j + d = m
  BY <1>4, <1>5
<1> HIDE DEF d
<1> QED
  BY <1>5, <1>6 DEF S

(* A text stands in another behind b characters. *)
StandsAt(all, t, b) ==
    /\ b \in Nat
    /\ b + Len(t) <= Len(all)
    /\ \A i \in 1..Len(t) : all[b + i] = t[i]

(* A member stands in what is made of all, behind what those before it *)
(* make.                                                               *)
LEMMA JoinsPlace ==
    ASSUME NEW C, NEW s \in Seq(Seq(C)), NEW f, Joins(f, s), NEW j \in 1..Len(s)
    PROVE  /\ StandsAt(f[Len(s)], s[j], Len(f[j - 1]))
           /\ Len(f[j]) = Len(f[j - 1]) + Len(s[j])
<1> DEFINE before == f[j - 1]
           upto == f[j]
           all == f[Len(s)]
           t == s[j]
<1>1. j - 1 \in 0..Len(s) /\ j \in 0..Len(s) /\ Len(s) \in j..Len(s)
  OBVIOUS
<1>2. upto = before \o t /\ before \in Seq(C) /\ upto \in Seq(C) /\ t \in Seq(C)
  BY <1>1, JoinsTyped, ElementOfSeq DEF Joins
<1>3. Len(upto) <= Len(all) /\ \A i \in 1..Len(upto) : all[i] = upto[i]
  BY <1>1, JoinsPrefix
<1> HIDE DEF before, upto, all, t
<1>4. /\ Len(upto) = Len(before) + Len(t)
      /\ \A i \in 1..Len(before) + Len(t) :
           upto[i] = IF i <= Len(before) THEN before[i] ELSE t[i - Len(before)]
      /\ Len(before) \in Nat /\ Len(t) \in Nat
  BY <1>2, ConcatProperties
<1>5. ASSUME NEW i \in 1..Len(t)
      PROVE  all[Len(before) + i] = t[i]
  <2> DEFINE k == Len(before) + i
  <2>1. k \in 1..Len(before) + Len(t) /\ k - Len(before) = i /\ ~(k <= Len(before))
    BY <1>4
  <2> HIDE DEF k
  <2>2. upto[k] = t[i] /\ all[k] = upto[k]
    BY <1>3, <1>4, <2>1
  <2> QED
    BY <2>2 DEF k
<1>6. /\ Len(before) \in Nat
      /\ Len(upto) = Len(before) + Len(t)
      /\ Len(upto) <= Len(all)
      /\ \A i \in 1..Len(t) : all[Len(before) + i] = t[i]
  BY <1>3, <1>4, <1>5
<1> QED
  BY <1>6 DEF before, upto, all, t, StandsAt

-----------------------------------------------------------------------------
(* A scan of N places: at each it puts out something and goes on further *)
(* on.                                                                   *)
Scans(g, piece, next, N) ==
    g = [k \in 0..N |-> IF k = N THEN << >> ELSE piece[k] \o g[next[k]]]

(* There is such a scan if every step goes further right. *)
LEMMA ScansExist ==
    ASSUME NEW N \in Nat, NEW piece, NEW next, \A k \in 0..(N - 1) : next[k] \in (k + 1)..N
    PROVE  \E g : Scans(g, piece, next, N)
<1> DEFINE At(g, k) == IF k = N THEN << >> ELSE piece[k] \o g[next[k]]
           From(g, n) == \A k \in (N - n)..N : g[k] = At(g, k)
           S == {n \in Nat : n <= N => \E g : From(g, n)}
<1>1. 0 \in S
  <2> DEFINE g == [k \in 0..N |-> << >>]
  <2>1. From(g, 0)
    OBVIOUS
  <2> HIDE DEF From
  <2> QED
    BY <2>1
<1>2. ASSUME NEW n \in Nat, n \in S
      PROVE  n + 1 \in S
  <2> SUFFICES ASSUME n + 1 <= N
               PROVE  \E g : From(g, n + 1)
    OBVIOUS
  <2>1. PICK g : From(g, n)
    BY <1>2
  <2> DEFINE first == N - (n + 1)
             h == [k \in 0..N |-> IF k = first THEN piece[first] \o g[next[first]] ELSE g[k]]
  <2>2. ASSUME NEW k \in first..N
        PROVE  h[k] = At(h, k)
    <3>1. first \in 0..(N - 1) /\ k \in 0..N
      OBVIOUS
    <3>2. ASSUME NEW l \in (first + 1)..N
          PROVE  h[l] = g[l]
      BY <3>1
    <3>3. CASE k = first
      <4>1. next[k] \in (first + 1)..N
        BY <3>1, <3>3
      <4>2. h[next[k]] = g[next[k]]
        BY <3>2, <4>1
      <4>3. k # N /\ h[first] = piece[first] \o g[next[first]]
        <5>1. first \in 0..N /\ k # N
          BY <3>1, <3>3
        <5> HIDE DEF first
        <5> QED
          BY <5>1
      <4> QED
        BY <3>3, <4>2, <4>3
    <3>4. CASE k # first
      <4>1. k \in (first + 1)..N /\ k \in (N - n)..N
        BY <3>1, <3>4
      <4>2. g[k] = At(g, k) /\ h[k] = g[k]
        BY <2>1, <3>2, <4>1
      <4>3. CASE k = N
        BY <4>2, <4>3
      <4>4. CASE k # N
        <5>1. next[k] \in (first + 1)..N
          BY <4>1, <4>4
        <5>2. h[next[k]] = g[next[k]]
          BY <3>2, <5>1
        <5> QED
          BY <4>2, <4>4, <5>2
      <4> QED
        BY <4>3, <4>4
    <3> QED
      BY <3>3, <3>4
  <2>3. From(h, n + 1)
    BY <2>2
  <2> HIDE DEF h, From
  <2> QED
    BY <2>3
<1> HIDE DEF S, From
<1>3. N \in S
  BY <1>1, <1>2, Induction
<1>4. PICK g : From(g, N)
  BY <1>3 DEF S
<1>5. \A k \in 0..N : g[k] = At(g, k)
  BY <1>4 DEF From
<1> DEFINE h == [k \in 0..N |-> g[k]]
<1>6. ASSUME NEW k \in 0..N
      PROVE  h[k] = At(h, k)
  <2>1. CASE k = N
    BY <1>5, <2>1
  <2>2. CASE k # N
    <3>1. next[k] \in 0..N
      BY <2>2
    <3>2. h[next[k]] = g[next[k]]
      BY <3>1
    <3> QED
      BY <1>5, <2>2, <3>2
  <2> QED
    BY <2>1, <2>2
<1>7. h = [k \in 0..N |-> At(h, k)]
  BY <1>6
<1> HIDE DEF h
<1> QED
  BY <1>7 DEF Scans

(* What is put out from a place on is a sequence if all that is put out is. *)
LEMMA ScansTyped ==
    ASSUME NEW C, NEW N \in Nat, NEW piece, NEW next, NEW g, Scans(g, piece, next, N),
           \A k \in 0..(N - 1) : next[k] \in (k + 1)..N /\ piece[k] \in Seq(C)
    PROVE  \A k \in 0..N : g[k] \in Seq(C)
<1> DEFINE S == {n \in Nat : n <= N => \A k \in (N - n)..N : g[k] \in Seq(C)}
<1>1. g[N] = << >> /\ \A k \in 0..(N - 1) : g[k] = piece[k] \o g[next[k]]
  <2> DEFINE At(k) == IF k = N THEN << >> ELSE piece[k] \o g[next[k]]
  <2>1. g = [k \in 0..N |-> At(k)]
    BY DEF Scans
  <2> HIDE DEF At
  <2>2. \A k \in 0..N : g[k] = At(k)
    BY <2>1
  <2>3. N \in 0..N /\ \A k \in 0..(N - 1) : k \in 0..N /\ k # N
    OBVIOUS
  <2> QED
    BY <2>2, <2>3 DEF At
<1>2. 0 \in S
  <2>1. \A k \in (N - 0)..N : k = N
    OBVIOUS
  <2>2. g[N] \in Seq(C)
    BY <1>1, EmptySeq
  <2> QED
    BY <2>1, <2>2
<1>3. ASSUME NEW n \in Nat, n \in S
      PROVE  n + 1 \in S
  <2> SUFFICES ASSUME n + 1 <= N, NEW k \in (N - (n + 1))..N
               PROVE  g[k] \in Seq(C)
    OBVIOUS
  <2>1. CASE k \in (N - n)..N
    BY <1>3, <2>1
  <2>2. CASE k \notin (N - n)..N
    <3>1. k \in 0..(N - 1) /\ k = N - (n + 1)
      BY <2>2
    <3> DEFINE l == next[k]
    <3>2. l \in (N - n)..N
      BY <3>1
    <3>3. g[l] \in Seq(C) /\ piece[k] \in Seq(C)
      BY <1>3, <3>1, <3>2
    <3>4. g[k] = piece[k] \o g[l]
      BY <1>1, <3>1
    <3> QED
      BY <3>3, <3>4, ConcatProperties
  <2> QED
    BY <2>1, <2>2
<1> HIDE DEF S
<1>4. N \in S
  BY <1>2, <1>3, Induction
<1> QED
  BY <1>4 DEF S

(* Three texts joined are the same text in either grouping. *)
LEMMA Regroups ==
    ASSUME NEW C, NEW x, NEW y, NEW z, x \in Seq(C) /\ y \in Seq(C) /\ z \in Seq(C)
    PROVE  (x \o y) \o z = x \o (y \o z)
BY ConcatAssociative

(* Where each of r is a member of out before the next of r, the first of r *)
(* is all the members before the last.                                     *)
Unfolds(r, out, C) ==
    /\ \A j \in 0..Len(out) : r[j] \in Seq(C)
    /\ \A j \in 1..Len(out) : r[j - 1] = out[j] \o r[j]

LEMMA Telescopes ==
    ASSUME NEW C, NEW out \in Seq(Seq(C)), NEW r, Unfolds(r, out, C)
    PROVE  r[0] = FlattenSeq(out) \o r[Len(out)]
<1> DEFINE N == Len(out)
<1>1. N \in Nat
  OBVIOUS
<1>2. PICK f : Joins(f, out)
  BY <1>1, JoinsExists
<1>3. \A k \in 0..N : f[k] \in Seq(C)
  BY <1>2, JoinsTyped
<1> DEFINE Good(n) == r[0] = f[n] \o r[n]
           S == {n \in Nat : n <= N => Good(n)}
<1>4. 0 \in S
  <2>1. f[0] = << >> /\ r[0] \in Seq(C)
    BY <1>1, <1>2 DEF Joins, Unfolds
  <2>2. << >> \o r[0] = r[0]
    BY <2>1, ConcatEmptySeq
  <2> QED
    BY <2>1, <2>2
<1>5. ASSUME NEW n \in Nat, n \in S
      PROVE  n + 1 \in S
  <2> HIDE DEF Good
  <2> SUFFICES ASSUME n + 1 <= N
               PROVE  Good(n + 1)
    OBVIOUS
  <2> DEFINE k == n + 1
  <2>1. k \in 1..N /\ k - 1 = n /\ n \in 0..N /\ k \in 0..N /\ Good(n)
    BY <1>5
  <2> HIDE DEF k
  <2>2. f[k] = f[n] \o out[k] /\ r[n] = out[k] \o r[k]
    BY <1>2, <2>1 DEF Joins, Unfolds
  <2> DEFINE x == f[n]
             y == out[k]
             z == r[k]
  <2>3. x \in Seq(C) /\ y \in Seq(C) /\ z \in Seq(C)
    BY <1>3, <2>1, ElementOfSeq DEF Unfolds
  <2>4. r[0] = x \o (y \o z) /\ f[k] = x \o y /\ r[k] = z
    BY <2>1, <2>2 DEF Good
  <2> HIDE DEF x, y, z
  <2>5. (x \o y) \o z = x \o (y \o z)
    BY <2>3, Regroups, SMTT(30)
  <2>6. r[0] = f[k] \o r[k]
    BY <2>4, <2>5
  <2> QED
    BY <2>6 DEF k, Good
<1> HIDE DEF S, Good
<1>6. Good(N)
  <2>1. N \in S
    BY <1>1, <1>4, <1>5, Induction
  <2> QED
    BY <1>1, <2>1 DEF S
<1>7. FlattenSeq(out) = f[N]
  BY <1>2, FlattenJoins
<1> QED
  BY <1>6, <1>7 DEF Good

(* The same, character by character. *)
Spells(r, t, C) ==
    /\ \A k \in 0..Len(t) : r[k] \in Seq(C)
    /\ \A k \in 1..Len(t) : r[k - 1] = <<t[k]>> \o r[k]

LEMMA Letters ==
    ASSUME NEW C, NEW t \in Seq(C), NEW r, Spells(r, t, C)
    PROVE  r[0] = t \o r[Len(t)]
<1> DEFINE N == Len(t)
           Good(n) == r[0] = SubSeq(t, 1, n) \o r[n]
           S == {n \in Nat : n <= N => Good(n)}
<1>1. N \in Nat
  OBVIOUS
<1>2. 0 \in S
  <2>1. SubSeq(t, 1, 0) = << >>
    BY SubSeqEmpty
  <2>2. << >> \o r[0] = r[0]
    BY <1>1, ConcatEmptySeq DEF Spells
  <2> QED
    BY <2>1, <2>2
<1>3. ASSUME NEW n \in Nat, n \in S
      PROVE  n + 1 \in S
  <2> HIDE DEF Good
  <2> SUFFICES ASSUME n + 1 <= N
               PROVE  Good(n + 1)
    OBVIOUS
  <2> DEFINE k == n + 1
  <2>1. k \in 1..N /\ k - 1 = n /\ n \in 0..N /\ k \in 0..N /\ Good(n)
    BY <1>3
  <2>2. \A i \in 1..n : t[i] \in C
    BY <2>1, ElementOfSeq
  <2>3. SubSeq(t, 1, n) \in Seq(C)
    BY <2>2, SubSeqProperties
  <2> HIDE DEF k
  <2>4. SubSeq(t, 1, k) = SubSeq(t, 1, k - 1) \o <<t[k]>>
    <3>1. 1 \in 1..Len(t) /\ k \in 1..Len(t)
      BY <2>1
    <3> QED
      BY <3>1, SubSeqRecursiveSecond
  <2>5. r[n] = <<t[k]>> \o r[k]
    BY <2>1 DEF Spells
  <2> DEFINE x == SubSeq(t, 1, n)
             y == <<t[k]>>
             z == r[k]
  <2>6. x \in Seq(C) /\ y \in Seq(C) /\ z \in Seq(C)
    <3>1. t[k] \in C
      BY <2>1, ElementOfSeq
    <3> QED
      BY <2>1, <2>3, <3>1 DEF Spells
  <2>7. r[0] = x \o (y \o z) /\ SubSeq(t, 1, k) = x \o y /\ r[k] = z
    BY <2>1, <2>4, <2>5 DEF Good
  <2> HIDE DEF x, y, z
  <2>8. (x \o y) \o z = x \o (y \o z)
    BY <2>6, Regroups, SMTT(30)
  <2>9. r[0] = SubSeq(t, 1, k) \o r[k]
    BY <2>7, <2>8
  <2> QED
    BY <2>9 DEF k, Good
<1> HIDE DEF S, Good
<1>4. Good(N)
  <2>1. N \in S
    BY <1>1, <1>2, <1>3, Induction
  <2> QED
    BY <1>1, <2>1 DEF S
<1>5. SubSeq(t, 1, N) = t
  BY SubSeqFull
<1> QED
  BY <1>4, <1>5 DEF Good
=============================================================================
