------------------------------ MODULE VaultProofs ------------------------------
(***************************************************************************)
(* Proofs about Vault.tla, for every set of texts, every masker and every  *)
(* capacity.  IInv is the inductive invariant: the safety properties that  *)
(* are about pairs and indexes carry each other, TokensInUse says of every *)
(* mask whether it was drawn or issued as a token, and Answered ties the   *)
(* history of calls to the pairs.                                          *)
(***************************************************************************)
EXTENDS Vault, SequenceTheorems, FiniteSetTheorems, TLAPS

(* A mask was drawn, or it is a token with a number already used. *)
TokensInUse ==
    \A i \in 1..Len(entries) :
        \/ entries[i].mask \in FP(entries[i].original)
        \/ \E n \in 1..fallback_counter : entries[i].mask = Fallback(n)

(* What an enrolling call was answered is still what the vault would say.  *)
Answered ==
    \A i \in 1..Len(log) :
        log[i].enroll =>
            \/ /\ Known(log[i].original)
               /\ log[i].mask = entries[by_original[log[i].original]].mask
            \/ /\ ~Known(log[i].original)
               /\ Len(entries) = MaxEntries
               /\ log[i].mask = log[i].original

Pairs == IndexConsistent /\ OneToOne /\ MaskIsNoEarlierOriginal /\ TokensInUse

IInv == TypeOK /\ Pairs

-----------------------------------------------------------------------------
(* What issuing a mask does to the pairs.  Lemmas on Push, for a value that *)
(* is new and a mask that is drawn and accepted, or that is the next token. *)

NextToken == Fallback(fallback_counter + 1)

Chosen(o, m) ==
    \/ /\ m \in FP(o)
       /\ Acceptable(o, m)
       /\ fallback_counter' = fallback_counter
    \/ /\ m = NextToken
       /\ fallback_counter' = fallback_counter + 1

NewPair(o, m) ==
    /\ o \in Texts
    /\ m \in Masks
    /\ ~Known(o)
    /\ ~Full
    /\ Push(o, m)

(* The vault grows by the pair at the end, and the old pairs stay. *)
LEMMA PushEntries ==
    ASSUME TypeOK, NEW o, NEW m, NewPair(o, m)
    PROVE  /\ Len(entries') = Len(entries) + 1
           /\ \A i \in 1..Len(entries) : entries'[i] = entries[i]
           /\ entries'[Len(entries) + 1] = [mask |-> m, original |-> o]
           /\ entries' \in Seq([mask : Masks, original : Texts])
           /\ Len(entries') <= MaxEntries
           /\ Len(entries) \in Nat
<1>1. [mask |-> m, original |-> o] \in [mask : Masks, original : Texts]
  BY DEF NewPair
<1>2. entries \in Seq([mask : Masks, original : Texts])
  BY DEF TypeOK
<1>3. entries' = Append(entries, [mask |-> m, original |-> o])
  BY DEF NewPair, Push
<1>4. Len(entries) < MaxEntries
  BY <1>2, BoundsAssumption DEF NewPair, Full
<1> HIDE DEF Masks
<1> QED
  BY <1>1, <1>2, <1>3, <1>4, BoundsAssumption

(* The indexes gain the new pair and keep the others. *)
LEMMA PushIndexed ==
    ASSUME TypeOK, IndexConsistent, NEW o, NEW m, NewPair(o, m)
    PROVE  IndexConsistent'
<1> DEFINE N == Len(entries)
<1>1. /\ Len(entries') = N + 1
      /\ \A i \in 1..N : entries'[i] = entries[i]
      /\ entries'[N + 1] = [mask |-> m, original |-> o]
      /\ N \in Nat
  BY PushEntries
<1>2. /\ DOMAIN by_original' = DOMAIN by_original \cup {o}
      /\ by_original'[o] = N + 1
      /\ \A x \in DOMAIN by_original : by_original'[x] = by_original[x]
      /\ seen_masks' = seen_masks \cup {m}
  BY DEF NewPair, Push, Known
<1>3. 1..Len(entries') = 1..N \cup {N + 1}
  BY <1>1
<1>4. DOMAIN by_original' = {entries'[i].original : i \in 1..Len(entries')}
  <2>1. entries'[N + 1].original = o
    BY <1>1
  <2> QED
    BY <1>1, <1>2, <1>3, <2>1 DEF IndexConsistent
<1>5. seen_masks' = {entries'[i].mask : i \in 1..Len(entries')}
  <2>1. entries'[N + 1].mask = m
    BY <1>1
  <2> QED
    BY <1>1, <1>2, <1>3, <2>1 DEF IndexConsistent
<1>6. ASSUME NEW x \in DOMAIN by_original'
      PROVE  entries'[by_original'[x]].original = x
  <2>1. CASE x = o
    BY <1>1, <1>2, <2>1
  <2>2. CASE x \in DOMAIN by_original
    <3>1. by_original[x] \in 1..N
      BY <2>2 DEF TypeOK
    <3> QED
      BY <1>1, <1>2, <2>2, <3>1 DEF IndexConsistent
  <2> QED
    BY <1>2, <2>1, <2>2
<1> QED
  BY <1>4, <1>5, <1>6 DEF IndexConsistent

(* The next token has a number of its own, which none of the masks issued  *)
(* as tokens has.                                                          *)
LEMMA TokenFresh ==
    ASSUME TypeOK, ~Full
    PROVE  /\ fallback_counter + 1 \in 1..MaxEntries
           /\ NextToken \in Tokens
           /\ \A k \in 1..fallback_counter : Fallback(k) # NextToken
<1> DEFINE n == fallback_counter + 1
<1>1. n \in 1..MaxEntries /\ fallback_counter \in Nat
  <2>1. Len(entries) \in Nat /\ fallback_counter \in 0..Len(entries)
    BY DEF TypeOK
  <2>2. Len(entries) < MaxEntries
    BY <2>1, BoundsAssumption DEF Full
  <2> QED
    BY <2>1, <2>2, BoundsAssumption
<1>2. NextToken \in Tokens
  BY <1>1 DEF Tokens, NextToken
<1>3. ASSUME NEW k \in 1..fallback_counter, Fallback(k) = Fallback(n)
      PROVE  FALSE
  <2>1. k \in 1..MaxEntries /\ k # n
    BY <1>1, BoundsAssumption
  <2> QED
    BY <1>1, <1>3, <2>1, FallbackAssumption
<1> QED
  BY <1>1, <1>2, <1>3 DEF NextToken

(* The new pair does not repeat an original, and it repeats a mask only if *)
(* that is a token an earlier value has drawn.                             *)
LEMMA PushOneToOne ==
    ASSUME TypeOK, IndexConsistent, OneToOne, TokensInUse,
           NEW o, NEW m, NewPair(o, m), Chosen(o, m)
    PROVE  OneToOne'
<1> DEFINE N == Len(entries)
<1>1. /\ Len(entries') = N + 1
      /\ \A i \in 1..N : entries'[i] = entries[i]
      /\ entries'[N + 1] = [mask |-> m, original |-> o]
      /\ N \in Nat
  BY PushEntries
<1>2. \A i \in 1..N : entries[i].original # o
  BY DEF NewPair, Known, IndexConsistent
<1>3. ASSUME NEW i \in 1..N, entries[i].mask = m
      PROVE  m \in Tokens \cap FP(entries[i].original)
  <2>1. m = NextToken
    BY <1>3 DEF Chosen, Acceptable, IndexConsistent
  <2>2. m \in Tokens /\ \A k \in 1..fallback_counter : Fallback(k) # m
    BY <2>1, TokenFresh DEF NewPair
  <2> QED
    BY <1>3, <2>2 DEF TokensInUse
<1>4. ASSUME NEW i \in 1..Len(entries'), NEW j \in 1..Len(entries'), i < j
      PROVE  /\ entries'[i].original # entries'[j].original
             /\ entries'[i].mask = entries'[j].mask =>
                   entries'[j].mask \in Tokens \cap FP(entries'[i].original)
  <2>1. CASE i \in 1..N /\ j \in 1..N
    BY <1>1, <1>4, <2>1 DEF OneToOne
  <2>2. CASE i \in 1..N /\ j = N + 1
    BY <1>1, <1>2, <1>3, <2>2
  <2> QED
    BY <1>1, <1>4, <2>1, <2>2
<1> QED
  BY <1>4 DEF OneToOne, Tokens

(* The new mask, if it is drawn, is none of the originals enrolled by now; *)
(* the older masks come before the new original, of which nothing is       *)
(* claimed.                                                                *)
LEMMA PushNoEarlierOriginal ==
    ASSUME TypeOK, IndexConsistent, MaskIsNoEarlierOriginal,
           NEW o, NEW m, NewPair(o, m), Chosen(o, m)
    PROVE  MaskIsNoEarlierOriginal'
<1> DEFINE N == Len(entries)
<1>1. /\ Len(entries') = N + 1
      /\ \A i \in 1..N : entries'[i] = entries[i]
      /\ entries'[N + 1] = [mask |-> m, original |-> o]
      /\ N \in Nat
  BY PushEntries
<1>2. m \in Tokens \/ (m # o /\ \A i \in 1..N : entries[i].original # m)
  <2>1. CASE Acceptable(o, m)
    BY <2>1 DEF Acceptable, IndexConsistent
  <2>2. CASE m = NextToken
    BY <2>2, TokenFresh DEF NewPair
  <2> QED
    BY <2>1, <2>2 DEF Chosen
<1>3. ASSUME NEW i \in 1..Len(entries'), NEW j \in 1..Len(entries'), i <= j,
             entries'[j].mask = entries'[i].original
      PROVE  entries'[j].mask \in Tokens
  <2>1. CASE j \in 1..N
    BY <1>1, <1>3, <2>1 DEF MaskIsNoEarlierOriginal
  <2>2. CASE j = N + 1 /\ i \in 1..N
    BY <1>1, <1>2, <1>3, <2>2
  <2>3. CASE j = N + 1 /\ i = N + 1
    BY <1>1, <1>2, <1>3, <2>3
  <2> QED
    BY <1>1, <1>3, <2>1, <2>2, <2>3
<1> QED
  BY <1>3 DEF MaskIsNoEarlierOriginal, Tokens

-----------------------------------------------------------------------------
(* A draw for a text is a text, and a mask known to the vault is a mask.   *)
LEMMA ReuseMask ==
    ASSUME TypeOK, NEW o, Known(o)
    PROVE  entries[by_original[o]].mask \in Masks
<1> DEFINE k == by_original[o]
<1>1. k \in 1..Len(entries)
  BY DEF TypeOK, Known
<1>2. entries \in Seq([mask : Masks, original : Texts])
  BY DEF TypeOK
<1>3. entries[k] \in [mask : Masks, original : Texts]
  BY <1>1, <1>2, ElementOfSeq
<1> QED
  BY <1>3

(* A call adds its answer to the history. *)
LEMMA AnswerTyped ==
    ASSUME TypeOK, NEW o \in Texts, NEW e \in BOOLEAN, NEW m \in Masks,
           Answer(o, e, m)
    PROVE  /\ log' \in Seq(Calls)
           /\ Len(log') = Len(log) + 1
           /\ Len(log) \in Nat
           /\ \A i \in 1..Len(log) : log'[i] = log[i]
           /\ log'[Len(log) + 1] = [original |-> o, enroll |-> e, mask |-> m]
<1>1. [original |-> o, enroll |-> e, mask |-> m] \in Calls
  BY DEF Calls
<1>2. log \in Seq(Calls)
  BY DEF TypeOK
<1>3. log' = Append(log, [original |-> o, enroll |-> e, mask |-> m])
  BY DEF Answer
<1> HIDE DEF Masks
<1> QED
  BY <1>1, <1>2, <1>3

(* An issued pair keeps the whole invariant on pairs.                      *)
LEMMA PushPairs ==
    ASSUME IInv, NEW o, NEW m, NewPair(o, m), Chosen(o, m)
    PROVE  Pairs'
<1> DEFINE N == Len(entries)
<1>1. /\ TypeOK /\ IndexConsistent /\ OneToOne /\ MaskIsNoEarlierOriginal
      /\ TokensInUse
  BY DEF IInv, Pairs
<1>2. IndexConsistent' /\ OneToOne' /\ MaskIsNoEarlierOriginal'
  BY <1>1, PushIndexed, PushOneToOne, PushNoEarlierOriginal
<1>3. TokensInUse'
  <2>1. /\ Len(entries') = N + 1
        /\ \A i \in 1..N : entries'[i] = entries[i]
        /\ entries'[N + 1] = [mask |-> m, original |-> o]
        /\ N \in Nat
    BY <1>1, PushEntries
  <2>2. /\ fallback_counter \in Nat
        /\ fallback_counter' \in {fallback_counter, fallback_counter + 1}
    BY <1>1, <2>1 DEF TypeOK, Chosen
  <2>3. ASSUME NEW i \in 1..Len(entries')
        PROVE  \/ entries'[i].mask \in FP(entries'[i].original)
               \/ \E n \in 1..fallback_counter' : entries'[i].mask = Fallback(n)
    <3>1. CASE i \in 1..N
      <4>1. CASE entries[i].mask \in FP(entries[i].original)
        BY <2>1, <3>1, <4>1
      <4>2. ASSUME NEW n \in 1..fallback_counter, entries[i].mask = Fallback(n)
            PROVE  n \in 1..fallback_counter' /\ entries'[i].mask = Fallback(n)
        BY <2>1, <2>2, <3>1, <4>2
      <4> QED
        BY <1>1, <3>1, <4>1, <4>2 DEF TokensInUse
    <3>2. CASE i = N + 1
      <4>1. CASE m \in FP(o)
        BY <2>1, <3>2, <4>1
      <4>2. CASE m = NextToken /\ fallback_counter' = fallback_counter + 1
        <5>1. fallback_counter' \in 1..fallback_counter'
          BY <2>2, <4>2
        <5>2. m = Fallback(fallback_counter')
          BY <4>2 DEF NextToken
        <5> QED
          BY <2>1, <3>2, <5>1, <5>2
      <4> QED
        BY <4>1, <4>2 DEF Chosen
    <3> QED
      BY <2>1, <3>1, <3>2
  <2> QED
    BY <2>3 DEF TokensInUse
<1> QED
  BY <1>2, <1>3 DEF Pairs

(* Nothing of the pairs moves when the vault does not. *)
LEMMA VaultUnchanged ==
    ASSUME IInv, UNCHANGED <<entries, by_original, seen_masks, fallback_counter>>
    PROVE  Pairs'
BY DEF IInv, Pairs, IndexConsistent, OneToOne, MaskIsNoEarlierOriginal,
       TokensInUse, Tokens

-----------------------------------------------------------------------------
LEMMA InitIInv == Init => IInv
<1> SUFFICES ASSUME Init
             PROVE  IInv
  OBVIOUS
<1> USE DEF Init, New
<1>1. TypeOK
  BY BoundsAssumption DEF TypeOK
<1>2. IndexConsistent
  BY DEF IndexConsistent
<1>3. OneToOne /\ MaskIsNoEarlierOriginal /\ TokensInUse
  BY DEF OneToOne, MaskIsNoEarlierOriginal, TokensInUse
<1> QED
  BY <1>1, <1>2, <1>3 DEF IInv, Pairs

(* A call that only answers, or that only counts a truncation as well.     *)
LEMMA AnswerOnly ==
    ASSUME IInv, NEW o \in Texts, NEW e \in BOOLEAN, NEW m \in Masks,
           Answer(o, e, m),
           UNCHANGED <<entries, by_original, seen_masks, fallback_counter>>,
           truncations' = truncations \/ truncations' = truncations + 1
    PROVE  IInv'
<1>1. TypeOK
  BY DEF IInv
<1>2. log' \in Seq(Calls) /\ Len(log') = Len(log) + 1 /\ Len(log) \in Nat
  BY <1>1, AnswerTyped
<1>3. truncations' \in 0..Len(log')
  BY <1>1, <1>2 DEF TypeOK
<1>4. TypeOK'
  BY <1>1, <1>2, <1>3 DEF TypeOK, Calls, Masks, Tokens
<1>5. Pairs'
  BY VaultUnchanged
<1> QED
  BY <1>4, <1>5 DEF IInv

(* A call that issues the mask m. *)
LEMMA AnswerIssued ==
    ASSUME IInv, NEW o, NEW m, NewPair(o, m), Chosen(o, m),
           Answer(o, TRUE, m), UNCHANGED truncations
    PROVE  IInv'
<1> USE DEF NewPair
<1>1. TypeOK
  BY DEF IInv
<1>2. log' \in Seq(Calls) /\ Len(log') = Len(log) + 1 /\ Len(log) \in Nat
  BY <1>1, AnswerTyped
<1>3. /\ Len(entries') = Len(entries) + 1
      /\ entries' \in Seq([mask : Masks, original : Texts])
      /\ Len(entries') <= MaxEntries
      /\ Len(entries) \in Nat
  BY <1>1, PushEntries
<1>4. /\ DOMAIN by_original' \subseteq Texts
      /\ by_original' \in [DOMAIN by_original' -> 1..Len(entries')]
      /\ seen_masks' \subseteq Masks
  BY <1>1, <1>3 DEF TypeOK, Push
<1>5. fallback_counter' \in 0..Len(entries') /\ fallback_counter \in Nat
  BY <1>1, <1>3 DEF TypeOK, Chosen
<1>6. truncations' \in 0..Len(log')
  BY <1>1, <1>2 DEF TypeOK
<1>7. TypeOK'
  BY <1>2, <1>3, <1>4, <1>5, <1>6 DEF TypeOK, Calls, Masks, Tokens
<1>8. Pairs'
  BY PushPairs
<1> QED
  BY <1>7, <1>8 DEF IInv

(* Both ways of issuing a mask add a pair, with a draw or the next token.  *)
LEMMA IssuedPair ==
    ASSUME TypeOK, NEW o \in Texts, IssueDraw(o) \/ IssueFallback(o)
    PROVE  \E m \in Masks : /\ NewPair(o, m)
                            /\ Chosen(o, m)
                            /\ Answer(o, TRUE, m)
<1>1. CASE IssueDraw(o)
  <2>1. PICK m \in FP(o) : Acceptable(o, m) /\ Answer(o, TRUE, m) /\ Push(o, m)
    BY <1>1 DEF IssueDraw
  <2>2. m \in Masks
    BY <2>1, FPAssumption DEF Masks
  <2> QED
    BY <1>1, <2>1, <2>2 DEF IssueDraw, NewPair, Chosen
<1>2. CASE IssueFallback(o)
  <2>1. /\ ~Known(o) /\ ~Full
        /\ fallback_counter' = fallback_counter + 1
        /\ Answer(o, TRUE, NextToken) /\ Push(o, NextToken)
    BY <1>2 DEF IssueFallback, NextToken
  <2>2. NextToken \in Masks
    BY <2>1, TokenFresh DEF Masks
  <2> QED
    BY <2>1, <2>2 DEF NewPair, Chosen
<1> QED
  BY <1>1, <1>2

(* The invariant is kept by each kind of call. *)
LEMMA NextIInv == IInv /\ [Next]_vars => IInv'
<1> SUFFICES ASSUME IInv, [Next]_vars
             PROVE  IInv'
  OBVIOUS
<1>1. ASSUME NEW o \in Texts, NEW e \in BOOLEAN, Reuse(o, e)
      PROVE  IInv'
  BY <1>1, ReuseMask, AnswerOnly DEF Reuse, vault, IInv
<1>2. ASSUME NEW o \in Texts, DrawOnly(o)
      PROVE  IInv'
  <2>1. PICK m \in FP(o) : Answer(o, FALSE, m)
    BY <1>2 DEF DrawOnly
  <2>2. m \in Masks
    BY <2>1, FPAssumption DEF Masks
  <2> QED
    BY <1>2, <2>1, <2>2, AnswerOnly DEF DrawOnly, vault
<1>3. ASSUME NEW o \in Texts, Refuse(o)
      PROVE  IInv'
  BY <1>3, AnswerOnly DEF Refuse, Masks
<1>4. ASSUME NEW o \in Texts, IssueDraw(o) \/ IssueFallback(o)
      PROVE  IInv'
  <2>1. TypeOK
    BY DEF IInv
  <2>2. PICK m \in Masks : NewPair(o, m) /\ Chosen(o, m) /\ Answer(o, TRUE, m)
    BY <1>4, <2>1, IssuedPair
  <2>3. UNCHANGED truncations
    BY <1>4 DEF IssueDraw, IssueFallback
  <2> QED
    BY <2>2, <2>3, AnswerIssued
<1>5. CASE UNCHANGED vars
  BY <1>5, VaultUnchanged DEF IInv, TypeOK, vars, Calls, Masks, Tokens
<1> QED
  BY <1>1, <1>2, <1>3, <1>4, <1>5 DEF Next, MaskValue

(* The invariant holds in every reachable state of the vault. *)
THEOREM Invariance == Spec => []IInv
BY InitIInv, NextIInv, PTL DEF Spec

(* Every state of the vault is well typed: never more pairs than           *)
(* max_entries, indexes inside the vector, counters within their calls.    *)
THEOREM TypeCorrect == Spec => []TypeOK
BY Invariance, PTL DEF IInv

(* The pairs are one to one for every masker, capacity and order of calls, *)
(* tokens included, but for a token that an earlier value of a token's     *)
(* format drew before it was issued.  Nothing is assumed of the texts.     *)
THEOREM PairsOneToOne == Spec => []OneToOne
BY Invariance, PTL DEF IInv, Pairs

(* The reverse index and the collision set always agree with the pairs.    *)
THEOREM IndexesAgree == Spec => []IndexConsistent
BY Invariance, PTL DEF IInv, Pairs

(* No mask is a value enrolled before it, and none is its own original,    *)
(* but for a token that such a value is spelled like.                      *)
THEOREM MasksHideEarlierOriginals == Spec => []MaskIsNoEarlierOriginal
BY Invariance, PTL DEF IInv, Pairs

-----------------------------------------------------------------------------
(* The history of calls.  HInv adds to IInv what the answers given so far   *)
(* say about the vault.                                                     *)
Passed == {i \in 1..Len(log) : log[i].enroll /\ ~Known(log[i].original)}

Counted ==
    /\ truncations = Cardinality(Passed)
    /\ Passed # {} => Len(entries) = MaxEntries

HInv == IInv /\ Answered /\ SameMaskOnceEnrolled /\ Counted

(* A known value has a pair, and a mask that is not the value, but for a   *)
(* token.                                                                  *)
LEMMA KnownPair ==
    ASSUME IInv, NEW o, Known(o), entries[by_original[o]].mask = o
    PROVE  o \in Tokens
<1>1. by_original[o] \in 1..Len(entries)
  BY DEF IInv, TypeOK, Known
<1>2. entries[by_original[o]].original = o
  BY DEF IInv, Pairs, IndexConsistent, Known
<1>3. Len(entries) \in Nat
  BY DEF IInv, TypeOK
<1> QED
  BY <1>1, <1>2, <1>3 DEF IInv, Pairs, MaskIsNoEarlierOriginal

(* What a step does to the two things Answered compares the history with:  *)
(* known values stay known under the same mask, and a vault that is full   *)
(* learns no value.                                                        *)
Monotone ==
    /\ \A x \in DOMAIN by_original :
          /\ x \in DOMAIN by_original'
          /\ entries'[by_original'[x]].mask = entries[by_original[x]].mask
    /\ Full => UNCHANGED <<entries, by_original>>

LEMMA PushMonotone ==
    ASSUME IInv, NEW o, NEW m, NewPair(o, m)
    PROVE  Monotone
<1>1. TypeOK
  BY DEF IInv
<1>2. /\ \A i \in 1..Len(entries) : entries'[i] = entries[i]
      /\ entries'[Len(entries) + 1] = [mask |-> m, original |-> o]
  BY <1>1, PushEntries
<1>3. ASSUME NEW x \in DOMAIN by_original
      PROVE  /\ x \in DOMAIN by_original'
             /\ entries'[by_original'[x]].mask = entries[by_original[x]].mask
  <2>1. by_original[x] \in 1..Len(entries)
    BY <1>1, <1>3 DEF TypeOK
  <2>2. x # o
    BY <1>3 DEF NewPair, Known
  <2>3. x \in DOMAIN by_original' /\ by_original'[x] = by_original[x]
    BY <1>3, <2>2 DEF NewPair, Push
  <2> QED
    BY <1>2, <2>1, <2>3
<1> QED
  BY <1>3 DEF Monotone, NewPair

(* Every call is one of four kinds: what it answers is what the vault says *)
(* of the value afterwards, unless the call did not enroll.                *)
Recalled(o, e) ==
    /\ Known(o)
    /\ Answer(o, e, entries[by_original[o]].mask)
    /\ UNCHANGED vault

Drawn(o, m) ==
    /\ ~Known(o)
    /\ m \in Masks
    /\ Answer(o, FALSE, m)
    /\ UNCHANGED vault

Issued(o, m) ==
    /\ NewPair(o, m)
    /\ Chosen(o, m)
    /\ Answer(o, TRUE, m)
    /\ UNCHANGED truncations

LEMMA FourKinds ==
    ASSUME IInv, Next
    PROVE  \E o \in Texts :
              \/ \E e \in BOOLEAN : Recalled(o, e)
              \/ \E m \in Masks : Drawn(o, m)
              \/ Refuse(o)
              \/ \E m \in Masks : Issued(o, m)
<1>1. PICK o \in Texts, e \in BOOLEAN : MaskValue(o, e)
  BY DEF Next
<1>2. CASE Reuse(o, e)
  BY <1>2 DEF Reuse, Recalled
<1>3. CASE DrawOnly(o)
  BY <1>3, FPAssumption DEF DrawOnly, Drawn, Masks
<1>4. CASE Refuse(o)
  BY <1>4
<1>5. CASE IssueDraw(o) \/ IssueFallback(o)
  <2>1. UNCHANGED truncations
    BY <1>5 DEF IssueDraw, IssueFallback
  <2> QED
    BY <1>5, <2>1, IssuedPair DEF Issued, IInv
<1> QED
  BY <1>1, <1>2, <1>3, <1>4, <1>5 DEF MaskValue

(* A step that keeps Monotone and adds an answer that the vault vouches    *)
(* for afterwards keeps Answered.                                          *)
LEMMA AnsweredStep ==
    ASSUME IInv, Answered, Monotone,
           NEW o \in Texts, NEW e \in BOOLEAN, NEW m \in Masks,
           Answer(o, e, m),
           e => \/ Known(o)' /\ m = entries'[by_original'[o]].mask
                \/ Full /\ ~Known(o) /\ m = o
    PROVE  Answered'
<1>1. /\ Len(log') = Len(log) + 1
      /\ Len(log) \in Nat
      /\ \A i \in 1..Len(log) : log'[i] = log[i]
      /\ log'[Len(log) + 1] = [original |-> o, enroll |-> e, mask |-> m]
  BY AnswerTyped DEF IInv
<1>2. Full => Len(entries) = MaxEntries
  <2>1. Len(entries) \in Nat /\ Len(entries) <= MaxEntries
    BY DEF IInv, TypeOK
  <2> QED
    BY <2>1, BoundsAssumption DEF Full
<1>3. ASSUME NEW i \in 1..Len(log'), log'[i].enroll
      PROVE  \/ /\ log'[i].original \in DOMAIN by_original'
                /\ log'[i].mask = entries'[by_original'[log'[i].original]].mask
             \/ /\ log'[i].original \notin DOMAIN by_original'
                /\ Len(entries') = MaxEntries
                /\ log'[i].mask = log'[i].original
  <2>1. CASE i \in 1..Len(log) /\ Known(log[i].original)
    BY <1>1, <1>3, <2>1 DEF Answered, Monotone, Known
  <2>2. CASE i \in 1..Len(log) /\ ~Known(log[i].original)
    <3>1. Len(entries) = MaxEntries /\ log[i].mask = log[i].original
      BY <1>1, <1>3, <2>2 DEF Answered
    <3>2. UNCHANGED <<entries, by_original>>
      BY <3>1, BoundsAssumption DEF Monotone, Full
    <3> QED
      BY <1>1, <2>2, <3>1, <3>2 DEF Known
  <2>3. CASE i = Len(log) + 1
    BY <1>1, <1>2, <1>3, <2>3 DEF Known, Monotone
  <2> QED
    BY <1>1, <2>1, <2>2, <2>3
<1> QED
  BY <1>3 DEF Answered, Known

LEMMA NextAnswered ==
    ASSUME IInv, Answered, Next
    PROVE  Answered'
<1>1. PICK o \in Texts :
         \/ \E e \in BOOLEAN : Recalled(o, e)
         \/ \E m \in Masks : Drawn(o, m)
         \/ Refuse(o)
         \/ \E m \in Masks : Issued(o, m)
  BY FourKinds
<1>2. ASSUME UNCHANGED <<entries, by_original>>
      PROVE  Monotone
  BY <1>2 DEF Monotone
<1>3. ASSUME NEW e \in BOOLEAN, Recalled(o, e)
      PROVE  Answered'
  <2>1. entries[by_original[o]].mask \in Masks
    BY <1>3, ReuseMask DEF IInv, Recalled
  <2>2. Monotone
    BY <1>2, <1>3 DEF Recalled, vault
  <2> QED
    BY <1>3, <2>1, <2>2, AnsweredStep DEF Recalled, vault, Known
<1>4. ASSUME NEW m \in Masks, Drawn(o, m)
      PROVE  Answered'
  BY <1>2, <1>4, AnsweredStep DEF Drawn, vault
<1>5. CASE Refuse(o)
  BY <1>2, <1>5, AnsweredStep DEF Refuse, Masks
<1>6. ASSUME NEW m \in Masks, Issued(o, m)
      PROVE  Answered'
  <2>1. Monotone
    BY <1>6, PushMonotone DEF Issued
  <2>2. Known(o)' /\ m = entries'[by_original'[o]].mask
    BY <1>6, PushEntries DEF Issued, NewPair, Push, Known, IInv
  <2> QED
    BY <1>6, <2>1, <2>2, AnsweredStep DEF Issued
<1> QED
  BY <1>1, <1>3, <1>4, <1>5, <1>6

LEMMA NextSameMask ==
    ASSUME IInv, Answered, SameMaskOnceEnrolled, Next
    PROVE  SameMaskOnceEnrolled'
<1>1. PICK o \in Texts :
         \/ \E e \in BOOLEAN : Recalled(o, e)
         \/ \E m \in Masks : Drawn(o, m)
         \/ Refuse(o)
         \/ \E m \in Masks : Issued(o, m)
  BY FourKinds
<1> DEFINE Fits(e, m) ==
             \A i \in 1..Len(log) :
                 log[i].original = o /\ log[i].enroll =>
                     m = log[i].mask \/ (~e /\ log[i].mask = o)
<1>2. PICK e \in BOOLEAN, m \in Masks : Answer(o, e, m) /\ Fits(e, m)
  <2>1. ASSUME NEW e \in BOOLEAN, Recalled(o, e)
        PROVE  LET m == entries[by_original[o]].mask
               IN  m \in Masks /\ Answer(o, e, m) /\ Fits(e, m)
    BY <2>1, ReuseMask DEF Recalled, Answered, IInv
  <2>2. ASSUME NEW m \in Masks, Drawn(o, m)
        PROVE  Answer(o, FALSE, m) /\ Fits(FALSE, m)
    BY <2>2 DEF Drawn, Answered
  <2>3. ASSUME Refuse(o)
        PROVE  o \in Masks /\ Answer(o, TRUE, o) /\ Fits(TRUE, o)
    BY <2>3 DEF Refuse, Answered, Masks
  <2>4. ASSUME NEW m \in Masks, Issued(o, m)
        PROVE  Answer(o, TRUE, m) /\ Fits(TRUE, m)
    <3>1. ~Known(o) /\ Len(entries) # MaxEntries
      BY <2>4, BoundsAssumption DEF Issued, NewPair, Full
    <3> QED
      BY <2>4, <3>1 DEF Issued, Answered
  <2> QED
    BY <1>1, <2>1, <2>2, <2>3, <2>4
<1>3. /\ Len(log') = Len(log) + 1
      /\ Len(log) \in Nat
      /\ \A i \in 1..Len(log) : log'[i] = log[i]
      /\ log'[Len(log) + 1] = [original |-> o, enroll |-> e, mask |-> m]
  BY <1>2, AnswerTyped DEF IInv
<1>4. ASSUME NEW i \in 1..Len(log'), NEW j \in 1..Len(log'), i < j,
             log'[i].original = log'[j].original, log'[i].enroll
      PROVE  \/ log'[j].mask = log'[i].mask
             \/ ~log'[j].enroll /\ log'[i].mask = log'[i].original
  <2>1. i \in 1..Len(log)
    BY <1>3, <1>4
  <2>2. CASE j \in 1..Len(log)
    BY <1>3, <1>4, <2>1, <2>2 DEF SameMaskOnceEnrolled
  <2>3. CASE j = Len(log) + 1
    BY <1>2, <1>3, <1>4, <2>1, <2>3
  <2> QED
    BY <1>3, <2>2, <2>3
<1> QED
  BY <1>4 DEF SameMaskOnceEnrolled

(* The calls a full vault passed through are finitely many, and the next   *)
(* answer joins them if it was refused.                                    *)
LEMMA PassedFinite ==
    ASSUME TypeOK
    PROVE  IsFiniteSet(Passed) /\ Cardinality(Passed) \in Nat
<1>1. Len(log) \in Nat
  BY DEF TypeOK
<1>2. IsFiniteSet(1..Len(log))
  BY <1>1, FS_Interval
<1>3. Passed \subseteq 1..Len(log)
  BY DEF Passed
<1> QED
  BY <1>2, <1>3, FS_Subset, FS_CardinalityType

LEMMA PassedStep ==
    ASSUME TypeOK, NEW o \in Texts, NEW e \in BOOLEAN, NEW m \in Masks,
           Answer(o, e, m), UNCHANGED by_original
    PROVE  /\ ~e \/ Known(o) => Passed' = Passed
           /\ e /\ ~Known(o) => Cardinality(Passed') = Cardinality(Passed) + 1
<1>1. /\ Len(log') = Len(log) + 1
      /\ Len(log) \in Nat
      /\ \A i \in 1..Len(log) : log'[i] = log[i]
      /\ log'[Len(log) + 1] = [original |-> o, enroll |-> e, mask |-> m]
  BY AnswerTyped
<1>2. ASSUME ~e \/ Known(o)
      PROVE  Passed' = Passed
  BY <1>1, <1>2 DEF Passed, Known
<1>3. ASSUME e, ~Known(o)
      PROVE  Cardinality(Passed') = Cardinality(Passed) + 1
  <2>1. Passed' = Passed \cup {Len(log) + 1}
    BY <1>1, <1>3 DEF Passed, Known
  <2>2. Len(log) + 1 \notin Passed
    BY <1>1 DEF Passed
  <2> QED
    BY <2>1, <2>2, PassedFinite, FS_AddElement
<1> QED
  BY <1>2, <1>3

(* No value is known from a call that was refused, so issuing a mask, in a *)
(* vault that never refused one, leaves it so.                             *)
LEMMA PassedIssued ==
    ASSUME TypeOK, Passed = {}, NEW o, NEW m \in Masks,
           NewPair(o, m), Answer(o, TRUE, m)
    PROVE  Passed' = {}
<1>1. /\ Len(log') = Len(log) + 1
      /\ Len(log) \in Nat
      /\ \A i \in 1..Len(log) : log'[i] = log[i]
      /\ log'[Len(log) + 1] = [original |-> o, enroll |-> TRUE, mask |-> m]
  BY AnswerTyped DEF NewPair
<1>2. DOMAIN by_original' = DOMAIN by_original \cup {o}
  BY DEF NewPair, Push
<1>3. ASSUME NEW i \in 1..Len(log'), log'[i].enroll
      PROVE  log'[i].original \in DOMAIN by_original'
  <2>1. CASE i \in 1..Len(log)
    BY <1>1, <1>2, <1>3, <2>1 DEF Passed, Known
  <2>2. CASE i = Len(log) + 1
    BY <1>1, <1>2, <2>2
  <2> QED
    BY <1>1, <2>1, <2>2
<1> QED
  BY <1>3 DEF Passed, Known

LEMMA NextPassed ==
    ASSUME IInv, Counted, Next
    PROVE  Counted'
<1>1. PICK o \in Texts :
         \/ \E e \in BOOLEAN : Recalled(o, e)
         \/ \E m \in Masks : Drawn(o, m)
         \/ Refuse(o)
         \/ \E m \in Masks : Issued(o, m)
  BY FourKinds
<1>2. TypeOK
  BY DEF IInv
<1>3. /\ truncations = Cardinality(Passed)
      /\ Passed # {} => Len(entries) = MaxEntries
  BY DEF Counted
<1>4. /\ truncations' = Cardinality(Passed')
      /\ Passed' # {} => Len(entries') = MaxEntries
  <2>1. ASSUME NEW e \in BOOLEAN, Recalled(o, e)
        PROVE  <1>4!1 /\ <1>4!2
    <3>1. entries[by_original[o]].mask \in Masks
      BY <1>2, <2>1, ReuseMask DEF Recalled
    <3>2. Passed' = Passed
      BY <1>2, <2>1, <3>1, PassedStep DEF Recalled, vault
    <3> QED
      BY <1>3, <2>1, <3>2 DEF Recalled, vault
  <2>2. ASSUME NEW m \in Masks, Drawn(o, m)
        PROVE  <1>4!1 /\ <1>4!2
    <3>1. Passed' = Passed
      BY <1>2, <2>2, PassedStep DEF Drawn, vault
    <3> QED
      BY <1>3, <2>2, <3>1 DEF Drawn, vault
  <2>3. ASSUME Refuse(o)
        PROVE  <1>4!1 /\ <1>4!2
    <3>1. Cardinality(Passed') = Cardinality(Passed) + 1
      BY <1>2, <2>3, PassedStep DEF Refuse, Masks
    <3>2. Len(entries) = MaxEntries
      BY <1>2, <2>3, BoundsAssumption DEF Refuse, Full, TypeOK
    <3> QED
      BY <1>3, <2>3, <3>1, <3>2 DEF Refuse
  <2>4. ASSUME NEW m \in Masks, Issued(o, m)
        PROVE  <1>4!1 /\ <1>4!2
    <3>1. Passed = {}
      BY <1>3, <2>4, BoundsAssumption DEF Issued, NewPair, Full
    <3>2. Passed' = {}
      BY <1>2, <2>4, <3>1, PassedIssued DEF Issued
    <3> QED
      BY <1>3, <2>4, <3>1, <3>2 DEF Issued
  <2> QED
    BY <1>1, <2>1, <2>2, <2>3, <2>4
<1> QED
  BY <1>4 DEF Counted

LEMMA InitHInv == Init => HInv
<1> SUFFICES ASSUME Init
             PROVE  HInv
  OBVIOUS
<1>1. IInv
  BY InitIInv
<1>2. log = << >> /\ truncations = 0
  BY DEF Init, New
<1>3. Answered /\ SameMaskOnceEnrolled
  BY <1>2 DEF Answered, SameMaskOnceEnrolled
<1>4. Counted
  <2>1. Passed = {}
    BY <1>2 DEF Passed
  <2> QED
    BY <1>2, <2>1, FS_EmptySet DEF Counted
<1> QED
  BY <1>1, <1>3, <1>4 DEF HInv

LEMMA NextHInv == HInv /\ [Next]_vars => HInv'
<1> SUFFICES ASSUME HInv, [Next]_vars
             PROVE  HInv'
  OBVIOUS
<1>1. IInv'
  BY NextIInv DEF HInv
<1>2. CASE Next
  BY <1>1, <1>2, NextAnswered, NextSameMask, NextPassed DEF HInv
<1>3. CASE UNCHANGED vars
  BY <1>1, <1>3
  DEF HInv, vars, Answered, SameMaskOnceEnrolled, Counted, Passed, Known
<1> QED
  BY <1>2, <1>3

(* The history of calls never disagrees with the pairs (mask.rs:97-107).   *)
THEOREM HistoryInvariance == Spec => []HInv
BY InitHInv, NextHInv, PTL DEF Spec

(* Every value keeps the mask it was first enrolled with, whoever asks and *)
(* in whatever order, for every masker and capacity.                       *)
THEOREM MasksAreStable == Spec => []SameMaskOnceEnrolled
BY HistoryInvariance, PTL DEF HInv

(* Only a full vault passes a value through, but for a value spelled like  *)
(* its token, and truncations counts those passed through.                 *)
THEOREM TruncationsCount == Spec => []PassedThroughCounted
<1>1. ASSUME HInv, NEW i \in 1..Len(log),
             log[i].enroll, log[i].mask = log[i].original
      PROVE  i \in Passed \/ log[i].mask \in Tokens
  BY <1>1, KnownPair DEF HInv, Answered, Passed
<1>2. HInv => PassedThroughCounted
  BY <1>1 DEF HInv, Counted, Passed, PassedThroughCounted
<1> QED
  BY <1>2, HistoryInvariance, PTL

-----------------------------------------------------------------------------
(* The vault implements the dictionary of Pseudonyms.tla.  The dictionary  *)
(* has one entry per pair, which ties its size to the length of entries.   *)
Sized ==
    /\ IsFiniteSet(DOMAIN by_original)
    /\ Cardinality(DOMAIN by_original) = Len(entries)

LEMMA NextSized ==
    ASSUME IInv, Sized, [Next]_vars
    PROVE  Sized'
<1>1. CASE Next
  <2>1. PICK o \in Texts :
           \/ \E e \in BOOLEAN : Recalled(o, e)
           \/ \E m \in Masks : Drawn(o, m)
           \/ Refuse(o)
           \/ \E m \in Masks : Issued(o, m)
    BY <1>1, FourKinds
  <2>2. ASSUME UNCHANGED <<entries, by_original>>
        PROVE  Sized'
    BY <2>2 DEF Sized
  <2>3. ASSUME NEW m \in Masks, Issued(o, m)
        PROVE  Sized'
    <3>1. TypeOK /\ NewPair(o, m)
      BY <2>3 DEF Issued, IInv
    <3>2. Len(entries') = Len(entries) + 1
      BY <3>1, PushEntries
    <3>3. DOMAIN by_original' = DOMAIN by_original \cup {o}
      BY <3>1 DEF NewPair, Push
    <3>4. o \notin DOMAIN by_original
      BY <3>1 DEF NewPair, Known
    <3>5. /\ IsFiniteSet(DOMAIN by_original \cup {o})
          /\ Cardinality(DOMAIN by_original \cup {o}) =
                Cardinality(DOMAIN by_original) + 1
      BY <3>4, FS_AddElement DEF Sized
    <3> QED
      BY <3>2, <3>3, <3>5 DEF Sized
  <2> QED
    BY <2>1, <2>2, <2>3 DEF Recalled, Drawn, Refuse, vault
<1>2. CASE UNCHANGED vars
  BY <1>2 DEF vars, Sized
<1> QED
  BY <1>1, <1>2

(* Pseudonyms counts with the same Cardinality. *)
LEMMA SameCardinality == \A S : P!Cardinality(S) = Cardinality(S)
BY DEF P!Cardinality, Cardinality

(* The mapping of the initial state. *)
LEMMA InitImplements == Init => Sized /\ P!Init
<1> SUFFICES ASSUME Init
             PROVE  Sized /\ P!Init
  OBVIOUS
<1>1. by_original = << >> /\ entries = << >> /\ log = << >>
  BY DEF Init, New
<1>2. DOMAIN by_original = {}
  BY <1>1
<1>3. Sized
  BY <1>1, <1>2, FS_EmptySet DEF Sized
<1>4. dictBar = << >>
  BY <1>1, <1>2 DEF dictBar
<1> QED
  BY <1>1, <1>3, <1>4 DEF P!Init

(* The pair of a known value. *)
LEMMA PairOf ==
    ASSUME IInv, NEW x \in DOMAIN by_original
    PROVE  /\ by_original[x] \in 1..Len(entries)
           /\ entries[by_original[x]].original = x
BY DEF IInv, TypeOK, Pairs, IndexConsistent

(* Issuing a mask enters a value, whatever the mask. *)
LEMMA IssuedEnters ==
    ASSUME IInv, Sized, NEW o \in Texts, NEW m \in Masks, Issued(o, m)
    PROVE  P!Enter(o, m)
<1>0. DOMAIN dictBar = DOMAIN by_original
  BY DEF dictBar
<1>1. TypeOK /\ NewPair(o, m)
  BY DEF Issued, IInv
<1>2. o \notin DOMAIN dictBar
  BY <1>0, <1>1 DEF NewPair, Known
<1>3. Cardinality(DOMAIN dictBar) < MaxEntries
  BY <1>0, <1>1, BoundsAssumption DEF NewPair, Full, Sized, TypeOK
<1>4. dictBar' = [x \in DOMAIN dictBar \cup {o} |->
                    IF x = o THEN m ELSE dictBar[x]]
  <2>1. DOMAIN by_original' = DOMAIN by_original \cup {o}
    BY <1>1 DEF NewPair, Push
  <2>2. entries'[by_original'[o]].mask = m
    BY <1>1, <2>1, PushEntries DEF NewPair, Push
  <2>3. \A x \in DOMAIN by_original :
           x # o /\ entries'[by_original'[x]].mask = dictBar[x]
    BY <1>1, PushMonotone DEF Monotone, dictBar, NewPair, Known
  <2> QED
    BY <1>0, <2>1, <2>2, <2>3 DEF dictBar
<1> QED
  BY <1>2, <1>3, <1>4, SameCardinality DEF Issued, Answer, P!Enter, P!Told

(* The mapping of a step: each kind of call is one action of Pseudonyms.   *)
LEMMA NextImplements ==
    ASSUME IInv, Sized, [Next]_vars
    PROVE  [P!Next]_(P!dictVars)
<1>1. CASE Next
  <2>0. DOMAIN dictBar = DOMAIN by_original
    BY DEF dictBar
  <2>1. \E o \in Texts, e \in BOOLEAN : MaskValue(o, e)
    BY <1>1 DEF Next
  <2>2. ASSUME NEW o \in Texts, NEW e \in BOOLEAN, Recalled(o, e)
        PROVE  P!Recall(o, e)
    BY <2>0, <2>2 DEF Recalled, vault, dictBar, P!Recall, P!Told, Answer, Known
  <2>3. ASSUME NEW o \in Texts, DrawOnly(o)
        PROVE  P!Redact(o)
    BY <2>0, <2>3 DEF DrawOnly, vault, dictBar, P!Redact, P!Told, Answer, Known
  <2>4. ASSUME NEW o \in Texts, Refuse(o)
        PROVE  P!Refuse(o)
    <3>1. Len(entries) = MaxEntries
      BY <2>4, BoundsAssumption DEF Refuse, Full, IInv, TypeOK
    <3> QED
      BY <2>0, <2>4, <3>1, SameCardinality
      DEF Refuse, Sized, dictBar, P!Refuse, P!Told, Answer, Known
  <2>5. ASSUME NEW o \in Texts, NEW m \in Masks, Issued(o, m)
        PROVE  \/ \E p \in FP(o) : P!Assign(o, p)
               \/ \E c \in Tokens : P!Encode(o, c)
    <3>1. TypeOK /\ NewPair(o, m) /\ Chosen(o, m)
      BY <2>5 DEF Issued, IInv
    <3>2. P!Enter(o, m)
      BY <2>5, IssuedEnters
    <3>3. ASSUME m \in FP(o), Acceptable(o, m)
          PROVE  P!Assign(o, m)
      <4>1. m \notin DOMAIN dictBar \cup {o}
        BY <2>0, <3>3 DEF Acceptable
      <4>2. m \notin P!Range(dictBar)
        BY <2>0, <3>3, PairOf DEF P!Range, dictBar, Acceptable, IInv, Pairs, IndexConsistent
      <4> QED
        BY <3>2, <4>1, <4>2 DEF P!Assign
    <3>4. ASSUME m = NextToken
          PROVE  m \in Tokens /\ P!Encode(o, m)
      <4>1. m \in Tokens /\ \A k \in 1..fallback_counter : Fallback(k) # m
        BY <3>1, <3>4, TokenFresh DEF NewPair
      <4>2. ASSUME NEW x \in DOMAIN dictBar, dictBar[x] = m
            PROVE  m \in FP(x)
        BY <2>0, <4>1, <4>2, PairOf DEF dictBar, IInv, Pairs, TokensInUse
      <4> QED
        BY <3>2, <4>1, <4>2 DEF P!Encode
    <3> QED
      BY <3>1, <3>3, <3>4 DEF Chosen
  <2>6. PICK o \in Texts :
           \/ \E e \in BOOLEAN : Recalled(o, e)
           \/ DrawOnly(o)
           \/ Refuse(o)
           \/ \E m \in Masks : Issued(o, m)
    <3>1. PICK o \in Texts, e \in BOOLEAN : MaskValue(o, e)
      BY <2>1
    <3>2. CASE Reuse(o, e)
      BY <3>2 DEF Reuse, Recalled
    <3>3. CASE IssueDraw(o) \/ IssueFallback(o)
      <4>1. UNCHANGED truncations
        BY <3>3 DEF IssueDraw, IssueFallback
      <4> QED
        BY <3>3, <4>1, IssuedPair DEF Issued, IInv
    <3> QED
      BY <3>1, <3>2, <3>3 DEF MaskValue
  <2> QED
    BY <2>2, <2>3, <2>4, <2>5, <2>6 DEF P!Next
<1>2. CASE UNCHANGED vars
  BY <1>2 DEF vars, P!dictVars, dictBar
<1> QED
  BY <1>1, <1>2

(* For every masker and capacity, the vault is the dictionary it promises. *)
THEOREM Refinement == Spec => ImplementsPseudonyms
<1>1. IInv /\ Sized /\ [Next]_vars => Sized' /\ [P!Next]_(P!dictVars)
  BY NextSized, NextImplements
<1> QED
  BY <1>1, InitImplements, Invariance, PTL DEF Spec, ImplementsPseudonyms, P!Spec
=============================================================================
