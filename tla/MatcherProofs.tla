----------------------------- MODULE MatcherProofs -----------------------------
(***************************************************************************)
(* Proofs about Matcher.tla, for texts of every length, any number of      *)
(* rules of any scope, and whatever matches the patterns have.             *)
(* The walk of resolve_overlaps is the heart of it: Walked says of the     *)
(* matches already looked at what KeptUnlessCovered says of all of them.   *)
(***************************************************************************)
EXTENDS Matcher, SequenceTheorems, TLAPS

(* Each loop starts on untouched variables and needs no other's. *)
Phases ==
    /\ pc = "collect" => todo = {} /\ resolved = << >> /\ cursor = 0
    /\ pc \in {"collect", "resolve"} => next = 1 /\ last_end = 0 /\ out = << >>
    /\ pc = "emit" => todo = {}
    /\ pc = "done" => next = Len(resolved) + 1 /\ todo = {}

(* The cursor is the end of the last match kept, and all others end before. *)
CursorAtEnd ==
    /\ cursor = IF resolved = << >> THEN 0 ELSE resolved[Len(resolved)].end
    /\ \A i \in 1..Len(resolved) : resolved[i].end <= cursor

(* The matches looked at are the first ones in the order, and those not    *)
(* kept are exactly the ones that begin under a match kept.                *)
Walked ==
    pc # "collect" =>
        /\ Kept \subseteq spans \ todo
        /\ \A s \in spans \ todo, t \in todo : Beats(s, t)
        /\ \A t \in spans \ todo :
              t \notin Kept <=> \E s \in Kept : Beats(s, t) /\ t.start < s.end

(* The rebuilding loop has consumed the input up to the last match it did. *)
Rebuilt ==
    pc = "emit" => last_end = IF next = 1 THEN 0 ELSE resolved[next - 1].end

MaskedPieces == {i \in 1..Len(out) : out[i].kind # "copied"}

(* What is masked so far is the matches kept that the loop has passed. *)
MaskedSoFar ==
    {[start |-> out[i].start, end |-> out[i].end, kind |-> out[i].kind] :
        i \in MaskedPieces}
    = {[start |-> resolved[k].start, end |-> resolved[k].end,
        kind |-> IF Scope(resolved[k].rule) = "both"
                 THEN "enrolled" ELSE "masked"] : k \in 1..(next - 1)}

(* Only rules that apply to the side have matches. *)
InScope == \A s \in spans : Includes(s.rule)

IInv ==
    /\ TypeOK
    /\ Phases
    /\ InScope
    /\ KeptInOrder
    /\ CursorAtEnd
    /\ Walked
    /\ Rebuilt
    /\ Tiling
    /\ MaskedSoFar

-----------------------------------------------------------------------------
(* The order of the walk is strict and total on matches. *)
LEMMA BeatsAsymmetric ==
    ASSUME NEW s \in Span, NEW t \in Span
    PROVE  ~(Beats(s, t) /\ Beats(t, s))
BY SizesAssumption DEF Span, Rules, Beats

LEMMA BeforeIsBeats ==
    ASSUME NEW s \in Span, NEW t \in Span, Before(s, t), s # t
    PROVE  Beats(s, t)
<1>1. /\ s.start \in Nat /\ s.end \in Nat /\ s.rule \in Nat
      /\ t.start \in Nat /\ t.end \in Nat /\ t.rule \in Nat
      /\ s = [start |-> s.start, end |-> s.end, rule |-> s.rule]
      /\ t = [start |-> t.start, end |-> t.end, rule |-> t.rule]
  BY SizesAssumption DEF Span, Rules
<1>2. s.start # t.start \/ s.end # t.end \/ s.rule # t.rule
  BY <1>1
<1> QED
  BY <1>1, <1>2 DEF Before, Beats, Length

(* The matches of a rule are matches in the text. *)
LEMMA CollectedSpans ==
    ASSUME len \in 0..MaxLen, NEW r \in Rules, NEW S \in FindIter[len]
    PROVE  {[start |-> s.start, end |-> s.end, rule |-> r] : s \in S}
             \subseteq {s \in Span : s.end <= len}
<1>1. S \subseteq Offsets(len)
  BY DEF FindIter
<1> QED
  BY <1>1, SizesAssumption DEF Offsets, Span, Rules

LEMMA InitIInv == Init => IInv
<1> SUFFICES ASSUME Init
             PROVE  IInv
  OBVIOUS
<1> USE DEF Init
<1>1. len \in Nat /\ 1 \in 1..(NumRules + 1)
  BY SizesAssumption
<1>2. \/ pc = "done" /\ out = <<Copied(0, len)>>
      \/ pc = "collect" /\ out = << >>
  OBVIOUS
<1>3. Copied(0, len) \in Piece
  BY <1>1, SizesAssumption DEF Copied, Piece
<1>4. TypeOK
  BY <1>1, <1>2, <1>3 DEF TypeOK
<1>5. Kept = {}
  BY DEF Kept
<1>6. Phases /\ InScope /\ KeptInOrder /\ CursorAtEnd /\ Walked /\ Rebuilt
  BY <1>2, <1>5
  DEF Phases, InScope, KeptInOrder, CursorAtEnd, Walked, Rebuilt
<1>7. Tiling
  BY <1>2 DEF Tiling, Copied
<1>8. MaskedSoFar
  BY <1>2 DEF MaskedSoFar, MaskedPieces, Copied
<1> QED
  BY <1>4, <1>6, <1>7, <1>8 DEF IInv

LEMMA CollectIInv ==
    ASSUME IInv, Collect
    PROVE  IInv'
<1> USE DEF Collect
<1>1. /\ pc = "collect" /\ rule \in Rules
      /\ todo = {} /\ resolved = << >> /\ cursor = 0
      /\ next = 1 /\ last_end = 0 /\ out = << >>
      /\ len \in 0..MaxLen
  BY DEF IInv, Phases, TypeOK, Rules
<1>2. rule' \in 1..(NumRules + 1)
  BY <1>1, SizesAssumption DEF Rules
<1>3. /\ spans' \subseteq {s \in Span : s.end <= len}
      /\ \A s \in spans' : Includes(s.rule)
  <2>1. CASE Includes(rule)
    <3>1. PICK S \in FindIter[len] : spans' = spans \cup
             {[start |-> s.start, end |-> s.end, rule |-> rule] : s \in S}
      BY <2>1
    <3> QED
      BY <1>1, <2>1, <3>1, CollectedSpans DEF IInv, TypeOK, InScope
  <2>2. CASE ~Includes(rule)
    BY <2>2 DEF IInv, TypeOK, InScope
  <2> QED
    BY <2>1, <2>2
<1>4. TypeOK'
  BY <1>1, <1>2, <1>3 DEF IInv, TypeOK
<1>5. InScope'
  BY <1>3 DEF InScope, Includes
<1>6. Phases' /\ KeptInOrder' /\ CursorAtEnd' /\ Walked' /\ Rebuilt' /\ Tiling'
  BY <1>1
  DEF IInv, Phases, KeptInOrder, CursorAtEnd, Walked, Rebuilt, Tiling
<1>7. MaskedSoFar'
  BY DEF IInv, MaskedSoFar, MaskedPieces
<1> QED
  BY <1>4, <1>5, <1>6, <1>7 DEF IInv

LEMMA NoMatchIInv ==
    ASSUME IInv, NoMatch
    PROVE  IInv'
<1> USE DEF NoMatch
<1>1. /\ todo = {} /\ resolved = << >> /\ cursor = 0
      /\ next = 1 /\ last_end = 0 /\ len \in 0..MaxLen
  BY DEF IInv, Phases, TypeOK
<1>2. out' = <<Copied(0, len)>> /\ Copied(0, len) \in Piece
  BY <1>1, SizesAssumption DEF Copied, Piece
<1>3. TypeOK'
  BY <1>1, <1>2 DEF IInv, TypeOK
<1>4. Kept' = {}
  BY <1>1 DEF Kept
<1>5. Phases' /\ InScope' /\ KeptInOrder' /\ CursorAtEnd' /\ Walked' /\ Rebuilt'
  BY <1>1, <1>4
  DEF IInv, Phases, InScope, KeptInOrder, CursorAtEnd, Walked, Rebuilt
<1>6. Tiling'
  BY <1>2 DEF Tiling, Copied
<1>7. MaskedSoFar'
  BY <1>1, <1>2 DEF MaskedSoFar, MaskedPieces, Copied
<1> QED
  BY <1>3, <1>5, <1>6, <1>7 DEF IInv

LEMMA StartResolvingIInv ==
    ASSUME IInv, StartResolving
    PROVE  IInv'
<1> USE DEF StartResolving
<1>1. /\ resolved = << >> /\ cursor = 0 /\ next = 1 /\ last_end = 0 /\ out = << >>
  BY DEF IInv, Phases
<1>2. TypeOK'
  BY <1>1 DEF IInv, TypeOK
<1>3. Kept' = {}
  BY <1>1 DEF Kept
<1>4. Phases' /\ InScope' /\ KeptInOrder' /\ CursorAtEnd' /\ Walked' /\ Rebuilt'
      /\ Tiling'
  BY <1>1, <1>3
  DEF IInv, Phases, InScope, Includes, KeptInOrder, CursorAtEnd, Walked, Rebuilt,
      Tiling
<1>5. MaskedSoFar'
  BY DEF IInv, MaskedSoFar, MaskedPieces
<1> QED
  BY <1>2, <1>4, <1>5 DEF IInv

(* The match the walk looks at comes before everything it has yet to see.  *)
LEMMA LeastBeatsRest ==
    ASSUME TypeOK, NEW s \in todo, Least(s), NEW t \in todo \ {s}
    PROVE  Beats(s, t)
<1>1. s \in Span /\ t \in Span
  BY DEF TypeOK
<1> QED
  BY <1>1, BeforeIsBeats DEF Least

LEMMA DropIInv ==
    ASSUME IInv, NEW s \in todo, Drop(s)
    PROVE  IInv'
<1> USE DEF Drop
<1>1. TypeOK /\ s \in spans /\ s \in Span /\ s.start \in Nat
  BY DEF IInv, TypeOK, Span
<1>2. TypeOK'
  BY <1>1 DEF TypeOK
<1>3. Kept' = Kept
  BY DEF Kept
<1>4. /\ Kept \subseteq spans \ todo
      /\ \A a \in spans \ todo, t \in todo : Beats(a, t)
      /\ \A t \in spans \ todo :
            t \notin Kept <=> \E a \in Kept : Beats(a, t) /\ t.start < a.end
  BY DEF IInv, Walked
<1>5. \E a \in Kept : Beats(a, s) /\ s.start < a.end
  <2>1. Len(resolved) \in Nat
    BY <1>1 DEF TypeOK
  <2>2. resolved # << >> /\ cursor = resolved[Len(resolved)].end
    BY <1>1 DEF IInv, CursorAtEnd
  <2>3. Len(resolved) \in 1..Len(resolved)
    BY <1>1, <2>1, <2>2 DEF TypeOK
  <2>4. resolved[Len(resolved)] \in Kept
    BY <2>3 DEF Kept
  <2> QED
    BY <1>4, <2>2, <2>4
<1>6. Walked'
  <2>1. spans' \ todo' = (spans \ todo) \cup {s}
    BY <1>1
  <2>2. \A a \in spans' \ todo', t \in todo' : Beats(a, t)
    BY <1>1, <1>4, <2>1, LeastBeatsRest
  <2>3. \A t \in spans' \ todo' :
            t \notin Kept <=> \E a \in Kept : Beats(a, t) /\ t.start < a.end
    BY <1>4, <1>5, <2>1
  <2> QED
    BY <1>3, <1>4, <2>1, <2>2, <2>3 DEF Walked
<1>7. Phases' /\ InScope' /\ KeptInOrder' /\ CursorAtEnd' /\ Rebuilt' /\ Tiling'
  BY DEF IInv, Phases, InScope, Includes, KeptInOrder, CursorAtEnd, Rebuilt, Tiling
<1>8. MaskedSoFar'
  BY DEF IInv, MaskedSoFar, MaskedPieces
<1> QED
  BY <1>2, <1>6, <1>7, <1>8 DEF IInv

LEMMA KeepIInv ==
    ASSUME IInv, NEW s \in todo, Keep(s)
    PROVE  IInv'
<1> USE DEF Keep
<1> DEFINE N == Len(resolved)
<1>1. /\ TypeOK /\ s \in spans /\ s \in Span
      /\ s.start \in Nat /\ s.end \in Nat /\ s.start <= s.end /\ s.end <= len
      /\ cursor \in Nat /\ len \in Nat
  BY DEF IInv, TypeOK, Span
<1>2. /\ N \in Nat
      /\ resolved' \in Seq(spans)
      /\ Len(resolved') = N + 1
      /\ \A i \in 1..N : resolved'[i] = resolved[i]
      /\ resolved'[N + 1] = s
  BY <1>1 DEF TypeOK
<1>3. next = 1 /\ last_end = 0 /\ out = << >>
  BY DEF IInv, Phases
<1>4. TypeOK'
  BY <1>1, <1>2, <1>3 DEF TypeOK
<1>5. Kept' = Kept \cup {s}
  BY <1>2 DEF Kept
<1>6. \A i \in 1..N : resolved[i].end <= cursor /\ resolved[i].end \in Nat
  <2>1. ASSUME NEW i \in 1..N
        PROVE  resolved[i].end \in Nat
    <3>1. resolved[i] \in spans
      BY <1>1, ElementOfSeq DEF TypeOK
    <3> QED
      BY <1>1, <3>1 DEF TypeOK, Span
  <2> QED
    BY <2>1 DEF IInv, CursorAtEnd
<1>7. KeptInOrder'
  <2>1. ASSUME NEW i \in 1..(N + 1), NEW j \in 1..(N + 1), i < j
        PROVE  resolved'[i].end <= resolved'[j].start
    <3>1. CASE j \in 1..N
      BY <1>2, <2>1, <3>1 DEF IInv, KeptInOrder
    <3>2. CASE j = N + 1
      BY <1>1, <1>2, <1>6, <2>1, <3>2
    <3> QED
      BY <1>2, <3>1, <3>2
  <2> QED
    BY <1>2, <2>1 DEF KeptInOrder
<1>8. CursorAtEnd'
  <2>1. resolved' # << >>
    BY <1>2
  <2> QED
    BY <1>1, <1>2, <1>6, <2>1 DEF CursorAtEnd
<1>9. Walked'
  <2>1. /\ Kept \subseteq spans \ todo
        /\ \A a \in spans \ todo, t \in todo : Beats(a, t)
        /\ \A t \in spans \ todo :
              t \notin Kept <=> \E a \in Kept : Beats(a, t) /\ t.start < a.end
    BY DEF IInv, Walked
  <2>2. spans' \ todo' = (spans \ todo) \cup {s}
    BY <1>1
  <2>3. \A a \in spans' \ todo', t \in todo' : Beats(a, t)
    BY <1>1, <2>1, <2>2, LeastBeatsRest
  <2>4. \A a \in Kept : a.end <= cursor /\ a.end \in Nat
    BY <1>6 DEF Kept
  <2>5. \A a \in Kept : ~(s.start < a.end)
    BY <1>1, <2>4
  <2>6. ~(s.start < s.start) /\ ~Beats(s, s)
    BY <1>1, BeatsAsymmetric
  <2>7. ASSUME NEW t \in spans \ todo
        PROVE  ~Beats(s, t)
    <3>1. t \in Span
      BY <1>1 DEF TypeOK
    <3> QED
      BY <1>1, <2>1, <3>1, BeatsAsymmetric
  <2>8. \A t \in spans' \ todo' :
            t \notin Kept' <=> \E a \in Kept' : Beats(a, t) /\ t.start < a.end
    BY <1>5, <2>1, <2>2, <2>5, <2>6, <2>7
  <2> QED
    BY <1>5, <2>1, <2>2, <2>3, <2>8 DEF Walked
<1>10. Phases' /\ InScope' /\ Rebuilt' /\ Tiling'
  BY <1>3 DEF IInv, Phases, InScope, Includes, Rebuilt, Tiling
<1>11. MaskedSoFar'
  BY <1>3 DEF MaskedSoFar, MaskedPieces
<1> QED
  BY <1>4, <1>7, <1>8, <1>9, <1>10, <1>11 DEF IInv

LEMMA StartEmittingIInv ==
    ASSUME IInv, StartEmitting
    PROVE  IInv'
<1> USE DEF StartEmitting
<1>1. next = 1 /\ last_end = 0 /\ out = << >>
  BY DEF IInv, Phases
<1>2. TypeOK'
  BY DEF IInv, TypeOK
<1>3. Kept' = Kept
  BY DEF Kept
<1>4. Phases' /\ InScope' /\ KeptInOrder' /\ CursorAtEnd' /\ Walked' /\ Rebuilt'
      /\ Tiling'
  BY <1>1, <1>3
  DEF IInv, Phases, InScope, Includes, KeptInOrder, CursorAtEnd, Walked, Rebuilt,
      Tiling
<1>5. MaskedSoFar'
  BY DEF IInv, MaskedSoFar, MaskedPieces
<1> QED
  BY <1>2, <1>4, <1>5 DEF IInv

(* The overlap test of the rebuilding loop never fires: the matches kept   *)
(* are disjoint, so the next one starts at or after last_end.              *)
LEMMA EmitNeverSkips ==
    ASSUME IInv, pc = "emit", next <= Len(resolved)
    PROVE  /\ next \in 1..Len(resolved)
           /\ resolved[next] \in spans
           /\ last_end <= resolved[next].start
<1>1. next \in 1..Len(resolved)
  BY DEF IInv, TypeOK
<1>2. resolved[next] \in spans
  BY <1>1, ElementOfSeq DEF IInv, TypeOK
<1>3. CASE next = 1
  BY <1>2, <1>3 DEF IInv, Rebuilt, TypeOK, Span
<1>4. CASE next # 1
  <2>1. next - 1 \in 1..Len(resolved) /\ next - 1 < next
    <3>1. Len(resolved) \in Nat
      BY DEF IInv, TypeOK
    <3> QED
      BY <1>1, <1>4, <3>1
  <2>2. last_end = resolved[next - 1].end
    BY <1>4 DEF IInv, Rebuilt
  <2> QED
    BY <1>1, <1>2, <2>1, <2>2 DEF IInv, KeptInOrder
<1> QED
  BY <1>1, <1>2, <1>3, <1>4

(* Rules that apply to the side get the kind MaskedSoFar expects. *)
LEMMA KindInScope ==
    ASSUME NEW r, Includes(r)
    PROVE  Kind(r) = IF Scope(r) = "both" THEN "enrolled" ELSE "masked"
BY DEF Includes, Kind

LEMMA EmitIInv ==
    ASSUME IInv, Emit
    PROVE  IInv'
<1> DEFINE s == resolved[next]
           N == Len(out)
           c == Copied(last_end, s.start)
           k == IF Scope(s.rule) = "both" THEN "enrolled" ELSE "masked"
           m == [start |-> s.start, end |-> s.end, kind |-> k]
<1>1. /\ pc = "emit" /\ next \in 1..Len(resolved)
      /\ s \in spans /\ last_end <= s.start
  BY EmitNeverSkips DEF Emit
<1>2. /\ TypeOK /\ last_end \in Nat /\ cursor \in Nat /\ len \in 0..MaxLen
      /\ s \in Span /\ s.start \in Nat /\ s.end \in Nat /\ s.start <= s.end
      /\ s.start \in 0..MaxLen /\ s.end \in 0..MaxLen
      /\ last_end \in 0..MaxLen
  BY <1>1, SizesAssumption DEF IInv, TypeOK, Span
<1>3. Masked(s) = m
  BY <1>1, KindInScope DEF IInv, InScope, Masked
<1>4. /\ out' = Append(Append(out, c), m)
      /\ last_end' = s.end
      /\ next' = next + 1
      /\ UNCHANGED <<len, filter, pc, rule, spans, todo, cursor, resolved>>
  BY <1>1, <1>2, <1>3 DEF Emit
<1>5. c \in Piece /\ m \in Piece
  BY <1>2 DEF Copied, Piece
<1>6. /\ N \in Nat
      /\ out' \in Seq(Piece)
      /\ Len(out') = N + 2
      /\ \A i \in 1..N : out'[i] = out[i]
      /\ out'[N + 1] = c
      /\ out'[N + 2] = m
  <2>1. out \in Seq(Piece)
    BY <1>2 DEF TypeOK
  <2> HIDE DEF c, m
  <2> QED
    BY <1>4, <1>5, <2>1
<1>7. s.end <= cursor
  BY <1>1 DEF IInv, CursorAtEnd
<1>8. TypeOK'
  <2>1. next' \in 1..(Len(resolved') + 1)
    BY <1>1, <1>4
  <2>2. last_end' \in 0..cursor'
    BY <1>2, <1>4, <1>7
  <2> QED
    BY <1>2, <1>4, <1>6, <2>1, <2>2 DEF TypeOK
<1>9. Kept' = Kept
  BY <1>4 DEF Kept
<1>10. Phases' /\ InScope' /\ KeptInOrder' /\ CursorAtEnd' /\ Walked'
  BY <1>1, <1>4, <1>9
  DEF IInv, Phases, InScope, Includes, KeptInOrder, CursorAtEnd, Walked
<1>11. Rebuilt'
  BY <1>1, <1>4 DEF Rebuilt
<1>12. Tiling'
  <2>1. ASSUME NEW i \in 1..(N + 2)
        PROVE  out'[i].start = IF i = 1 THEN 0 ELSE out'[i - 1].end
    <3>1. CASE i \in 1..N
      BY <1>6, <3>1 DEF IInv, Tiling
    <3>2. CASE i = N + 1
      <4>1. c.start = last_end
        BY DEF Copied
      <4>2. last_end = IF out = << >> THEN 0 ELSE out[N].end
        BY <1>1 DEF IInv, Tiling
      <4>3. out = << >> <=> N = 0
        BY <1>2 DEF TypeOK
      <4> QED
        BY <1>6, <3>2, <4>1, <4>2, <4>3
    <3>3. CASE i = N + 2
      BY <1>6, <3>3 DEF Copied
    <3> QED
      BY <1>6, <3>1, <3>2, <3>3
  <2>2. out' # << >> /\ out'[Len(out')].end = s.end
    BY <1>6
  <2> QED
    BY <1>1, <1>4, <1>6, <2>1, <2>2 DEF Tiling
<1>13. MaskedSoFar'
  <2>1. c.kind = "copied" /\ m.kind # "copied"
    BY DEF Copied
  <2>2. MaskedPieces' = MaskedPieces \cup {N + 2}
    BY <1>6, <2>1 DEF MaskedPieces
  <2>3. \A i \in MaskedPieces : out'[i] = out[i]
    BY <1>6 DEF MaskedPieces
  <2>4. {[start |-> out'[i].start, end |-> out'[i].end, kind |-> out'[i].kind] :
            i \in MaskedPieces'}
        = {[start |-> out[i].start, end |-> out[i].end, kind |-> out[i].kind] :
            i \in MaskedPieces} \cup {m}
    BY <1>6, <2>2, <2>3
  <2>5. 1..(next' - 1) = 1..(next - 1) \cup {next}
    BY <1>1, <1>4
  <2> DEFINE Of(j) == [start |-> resolved[j].start, end |-> resolved[j].end,
                       kind |-> IF Scope(resolved[j].rule) = "both"
                                THEN "enrolled" ELSE "masked"]
  <2>6. Of(next) = m
    OBVIOUS
  <2>7. {Of(j) : j \in 1..(next' - 1)} = {Of(j) : j \in 1..(next - 1)} \cup {m}
    <3> HIDE DEF Of, m
    <3> QED
      BY <2>5, <2>6
  <2>8. {[start |-> out[i].start, end |-> out[i].end, kind |-> out[i].kind] :
            i \in MaskedPieces} = {Of(j) : j \in 1..(next - 1)}
    BY DEF IInv, MaskedSoFar
  <2>9. {[start |-> out'[i].start, end |-> out'[i].end, kind |-> out'[i].kind] :
            i \in MaskedPieces'} = {Of(j) : j \in 1..(next' - 1)}
    BY <2>4, <2>7, <2>8
  <2> QED
    BY <1>4, <2>9 DEF MaskedSoFar
<1> QED
  BY <1>8, <1>10, <1>11, <1>12, <1>13 DEF IInv

LEMMA FinishIInv ==
    ASSUME IInv, Finish
    PROVE  IInv'
<1> USE DEF Finish
<1> DEFINE N == Len(out)
           c == Copied(last_end, len)
<1>1. /\ TypeOK /\ next = Len(resolved) + 1 /\ todo = {}
      /\ last_end \in 0..MaxLen /\ len \in 0..MaxLen
  <2>1. TypeOK /\ todo = {}
    BY DEF IInv, Phases
  <2>2. next \in 1..(Len(resolved) + 1) /\ Len(resolved) \in Nat
    BY <2>1 DEF TypeOK
  <2>3. len \in 0..MaxLen /\ cursor \in 0..len /\ last_end \in 0..cursor
    BY <2>1 DEF TypeOK
  <2> QED
    BY <2>1, <2>2, <2>3, SizesAssumption
<1>2. c \in Piece /\ c.start = last_end /\ c.end = len /\ c.kind = "copied"
  BY <1>1 DEF Copied, Piece
<1>3. /\ N \in Nat
      /\ out' \in Seq(Piece)
      /\ Len(out') = N + 1
      /\ \A i \in 1..N : out'[i] = out[i]
      /\ out'[N + 1] = c
  <2>1. out \in Seq(Piece)
    BY <1>1 DEF TypeOK
  <2> HIDE DEF c
  <2> QED
    BY <1>2, <2>1 DEF c
<1>4. TypeOK'
  BY <1>1, <1>3 DEF TypeOK
<1>5. Kept' = Kept
  BY DEF Kept
<1>6. Phases' /\ InScope' /\ KeptInOrder' /\ CursorAtEnd' /\ Walked' /\ Rebuilt'
  BY <1>1, <1>5
  DEF IInv, Phases, InScope, Includes, KeptInOrder, CursorAtEnd, Walked, Rebuilt
<1>7. Tiling'
  <2>1. last_end = IF out = << >> THEN 0 ELSE out[N].end
    BY DEF IInv, Tiling
  <2>2. out = << >> <=> N = 0
    BY <1>1 DEF TypeOK
  <2>3. \A i \in 1..N : out[i].start = IF i = 1 THEN 0 ELSE out[i - 1].end
    BY DEF IInv, Tiling
  <2>4. \A i \in 1..(N + 1) :
            out'[i].start = IF i = 1 THEN 0 ELSE out'[i - 1].end
    BY <1>2, <1>3, <2>1, <2>2, <2>3
  <2>5. out' # << >> /\ out'[Len(out')].end = len'
    BY <1>2, <1>3
  <2> QED
    BY <1>3, <2>4, <2>5 DEF Tiling
<1>8. MaskedSoFar'
  <2>1. MaskedPieces' = MaskedPieces
    BY <1>2, <1>3 DEF MaskedPieces
  <2>2. \A i \in MaskedPieces : out'[i] = out[i]
    BY <1>3 DEF MaskedPieces
  <2>3. {[start |-> out'[i].start, end |-> out'[i].end, kind |-> out'[i].kind] :
            i \in MaskedPieces'}
        = {[start |-> out[i].start, end |-> out[i].end, kind |-> out[i].kind] :
            i \in MaskedPieces}
    BY <2>1, <2>2
  <2> QED
    BY <2>3 DEF IInv, MaskedSoFar
<1> QED
  BY <1>4, <1>6, <1>7, <1>8 DEF IInv

LEMMA NextIInv == IInv /\ [Next]_vars => IInv'
<1> SUFFICES ASSUME IInv, [Next]_vars
             PROVE  IInv'
  OBVIOUS
<1>1. CASE UNCHANGED vars
  <2> USE <1>1 DEF vars
  <2>1. TypeOK' /\ Phases' /\ InScope' /\ KeptInOrder' /\ CursorAtEnd'
    BY DEF IInv, TypeOK, Phases, InScope, Includes, KeptInOrder, CursorAtEnd
  <2>2. Kept' = Kept /\ MaskedPieces' = MaskedPieces
    BY DEF Kept, MaskedPieces
  <2>3. Walked' /\ Rebuilt' /\ Tiling'
    BY <2>2 DEF IInv, Walked, Rebuilt, Tiling
  <2>4. MaskedSoFar'
    BY <2>2 DEF IInv, MaskedSoFar
  <2> QED
    BY <2>1, <2>3, <2>4 DEF IInv
<1> QED
  BY <1>1, CollectIInv, NoMatchIInv, StartResolvingIInv, DropIInv, KeepIInv,
     StartEmittingIInv, EmitIInv, FinishIInv
  DEF Next

(* The invariant of the three loops. *)
THEOREM Invariance == Spec => []IInv
BY InitIInv, NextIInv, PTL DEF Spec

(* Every state of the rewriter is well typed: all offsets are in the text. *)
THEOREM TypeCorrect == Spec => []TypeOK
BY Invariance, PTL DEF IInv

(* The matches that are replaced never overlap, for any rules and text. *)
THEOREM NoOverlap == Spec => []KeptInOrder
BY Invariance, PTL DEF IInv

(* A match is lost only under an earlier or longer one that is kept. *)
THEOREM GreedySelection == Spec => []KeptUnlessCovered
<1>1. IInv => KeptUnlessCovered
  <2> SUFFICES ASSUME IInv, pc \in {"emit", "done"}
               PROVE  \A t \in spans :
                         t \notin Kept <=>
                             \E s \in Kept : Beats(s, t) /\ t.start < s.end
    BY DEF KeptUnlessCovered
  <2>1. todo = {} /\ pc # "collect"
    BY DEF IInv, Phases
  <2> QED
    BY <2>1 DEF IInv, Walked
<1> QED
  BY <1>1, Invariance, PTL

(* The output is the input, piece by piece, with nothing lost or repeated. *)
THEOREM OutputTilesInput == Spec => []Tiling
BY Invariance, PTL DEF IInv

(* Exactly the matches kept are masked, enrolled as their rule says. *)
THEOREM MasksWhatIsKept == Spec => []MaskedAsKept
<1>1. IInv => MaskedAsKept
  <2> SUFFICES ASSUME IInv, pc = "done"
               PROVE  MaskedAsKept
    BY DEF MaskedAsKept
  <2>1. next - 1 = Len(resolved)
    BY DEF IInv, Phases, TypeOK
  <2>2. {[start |-> out[i].start, end |-> out[i].end, kind |-> out[i].kind] :
            i \in MaskedPieces}
        = {[start |-> s.start, end |-> s.end,
            kind |-> IF Scope(s.rule) = "both" THEN "enrolled" ELSE "masked"] :
            s \in Kept}
    BY <2>1 DEF IInv, MaskedSoFar, Kept
  <2> QED
    BY <2>2 DEF MaskedAsKept, MaskedPieces
<1> QED
  BY <1>1, Invariance, PTL
=============================================================================
