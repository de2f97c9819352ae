---------------------------- MODULE JsonWalkProofs -----------------------------
(***************************************************************************)
(* Theorems about the JSON walker, for every set of documents. The scanner *)
(* keeps no parse tree: a stack of contexts, the part of a number and a    *)
(* few indices stand for it. None of the properties is inductive, for each *)
(* rests on these standing for the state of the parser at the same byte,   *)
(* inside a string and a number too. The invariant says that they do.      *)
(***************************************************************************)
EXTENDS JsonWalk, JsonGrammarProofs

(* A body that is JSON is one of the documents, a body that is not gets no *)
(* further than the parser.                                                *)
Origin ==
    /\ IsJson => \E d \in Documents : body = d.body /\ parse = d.parse
    /\ ~IsJson => pc \in {"parse", "plaintext"}

(* Each phase starts on untouched variables. *)
Phases ==
    /\ pc = "parse" => i = 0 /\ stack = <<"TopLevel">> /\ ranges = << >>
    /\ pc \in {"parse", "scan", "string", "number"} =>
         next = 1 /\ last = 0 /\ out = << >>
    /\ pc \in {"rewrite", "done"} => i = Len(body)

(* Only objects have names, and only arrays a first element to come. *)
Placed(p) ==
    /\ p.mode \in {"first name", "name", "colon"} => Within(p, "object")
    /\ p.mode = "first" => Within(p, "array")

(* The contexts s are the containers open in the parser, outermost first ... *)
Mirrors(s, p) ==
    /\ Len(s) = Len(p.open) + 1
    /\ s[1] = "TopLevel"
    /\ \A k \in 1..Len(p.open) :
         s[k + 1] # "TopLevel" /\ Container(s[k + 1]) = p.open[k]

(* ... and the innermost knows whether the parser expects a value. *)
Expects(s, p) ==
    Within(p, "object") => (s[Len(s)] = "ObjectExpectingValue" <=> p.mode = "value")

Settles(s, p) == Placed(p) /\ Mirrors(s, p) /\ Expects(s, p)

(* Where the main loop looks at a byte, the parser is between two tokens; a *)
(* number just read does not go on.                                        *)
Between ==
    pc \in {"scan", "string", "number"} =>
        /\ parse[i].mode \in Gaps \cup Ended
        /\ parse[i].mode \in Numbers /\ i < Len(body) => parse[i + 1].mode \notin Numbers
        /\ Settles(stack, parse[i])

InName == {"in name", "escape in name"}

(* scan_string is where the parser is in the same string or name. *)
InString ==
    pc = "string" =>
        /\ i < j /\ j <= Len(body)
        /\ parse[j].open = parse[i].open
        /\ \/ /\ ctx = "ObjectExpectingKeyOrEnd"
              /\ Within(parse[i], "object")
              /\ parse[j].mode = "in name"
              /\ \A k \in (i + 1)..j : parse[k].mode \in InName
           \/ /\ ctx # "ObjectExpectingKeyOrEnd"
              /\ parse[i].mode \in {"value", "first"}
              /\ parse[j].mode = "string"
              /\ \A k \in (i + 1)..j : parse[k].mode \in InText

(* scan_number is where the parser is in the same number. *)
InNumber ==
    pc = "number" =>
        /\ i <= j /\ j <= Len(body)
        /\ parse[j].open = parse[i].open
        /\ parse[i].mode \in {"value", "first"}
        /\ \A k \in (i + 1)..j : parse[k].mode \in Numbers
        /\ j = i => part = "integer" /\ DigitAt(i)
        /\ j > i =>
             /\ part = "integer" => parse[j].mode \in {"minus", "zero", "integer"}
             /\ part = "fraction" => parse[j].mode \in {"point", "fraction"}
             /\ part = "exponent" => parse[j].mode \in {"e", "sign", "exponent"}
             /\ parse[j].mode = "e" => ~At(j, "+") /\ ~At(j, "-")

Covered(k) == \E n \in 1..Len(ranges) : ranges[n].start <= k /\ k < ranges[n].end

(* What is scanned is settled: its strings and numbers are the ranges. *)
LeavesFound ==
    IsJson =>
        /\ \A k \in 0..(i - 1) : InLeaf(k) <=> Covered(k)
        /\ \A n \in 1..Len(ranges) :
             /\ ranges[n].start <= ranges[n].end
             /\ ranges[n].end <= i
             /\ ranges[n].end = i => parse[i].mode \in Numbers
        /\ \A m, n \in 1..Len(ranges) : m < n => ranges[m].end < ranges[n].start

(* The new body is the old one up to last, but for the leaves. *)
Rewritten ==
    pc = "rewrite" =>
        /\ last = IF next = 1 THEN 0 ELSE ranges[next - 1].end
        /\ Len(out) = last
        /\ \A k \in 0..(last - 1) : ~InLeaf(k) => out[k + 1] = body[k + 1]

IInv ==
    /\ TypeOK
    /\ Origin
    /\ AgreesWithParser
    /\ Phases
    /\ Between
    /\ InString
    /\ InNumber
    /\ LeavesFound
    /\ Rewritten
    /\ OnlyLeavesRewritten

-----------------------------------------------------------------------------
(* Contexts that mirror the parser's containers are never empty, and the *)
(* innermost context is of the kind of the innermost container.          *)
LEMMA Innermosts ==
    ASSUME NEW s \in Seq(Contexts), NEW p \in State, Mirrors(s, p)
    PROVE  /\ Len(s) \in Nat \ {0} /\ s # << >>
           /\ s[Len(s)] \in Contexts
           /\ p.open = << >> => s[Len(s)] = "TopLevel"
           /\ p.open # << >> => Len(s) > 1 /\ Container(s[Len(s)]) = Innermost(p)
           /\ Within(p, "object") =>
                s[Len(s)] \in {"ObjectExpectingKeyOrEnd", "ObjectExpectingValue"}
           /\ Within(p, "array") => s[Len(s)] = "ArrayExpectingValueOrEnd"
           /\ p.open # << >> => Within(p, "object") \/ Within(p, "array")
<1>1. p.open \in Seq({"object", "array"}) /\ Len(p.open) \in Nat
  BY DEF State
<1>2. Len(s) \in Nat \ {0} /\ s # << >>
  BY <1>1, EmptySeq DEF Mirrors
<1>3. s[Len(s)] \in Contexts
  BY <1>2, ElementOfSeq
<1>4. CASE p.open = << >>
  BY <1>2, <1>3, <1>4 DEF Mirrors, Within
<1>5. CASE p.open # << >>
  <2>1. Len(p.open) \in Nat \ {0}
    BY <1>1, <1>5, EmptySeq
  <2>2. Innermost(p) \in {"object", "array"}
    BY <1>1, <2>1, ElementOfSeq DEF Innermost
  <2>3. s[Len(s)] # "TopLevel" /\ Container(s[Len(s)]) = Innermost(p)
    BY <2>1 DEF Mirrors, Innermost
  <2> QED
    BY <1>2, <1>3, <1>5, <2>1, <2>2, <2>3 DEF Within, Contexts, Container, Mirrors
<1> QED
  BY <1>4, <1>5

(* advance_after_value changes the innermost context only, and never the *)
(* container it stands for.                                              *)
LEMMA Advancing ==
    ASSUME NEW s \in Seq(Contexts), s # << >>
    PROVE  /\ AdvanceAfterValue(s) \in Seq(Contexts)
           /\ Len(AdvanceAfterValue(s)) = Len(s)
           /\ \A k \in 1..Len(s) :
                /\ s[k] = "TopLevel" <=> AdvanceAfterValue(s)[k] = "TopLevel"
                /\ Container(AdvanceAfterValue(s)[k]) = Container(s[k])
           /\ AdvanceAfterValue(s)[Len(s)] # "ObjectExpectingValue"
<1>1. Len(s) \in Nat \ {0}
  BY EmptySeq
<1>2. CASE s[Len(s)] = "ObjectExpectingValue"
  <2>1. AdvanceAfterValue(s) = [s EXCEPT ![Len(s)] = "ObjectExpectingKeyOrEnd"]
    BY <1>2 DEF AdvanceAfterValue
  <2>2. "ObjectExpectingKeyOrEnd" \in Contexts
    BY DEF Contexts
  <2> QED
    BY <1>1, <1>2, <2>1, <2>2, ExceptSeq DEF Container
<1>3. CASE s[Len(s)] # "ObjectExpectingValue"
  BY <1>1, <1>3 DEF AdvanceAfterValue
<1> QED
  BY <1>2, <1>3

(* After a value the advanced contexts agree with the parser, which then *)
(* expects none.                                                         *)
LEMMA MirrorsAdvanced ==
    ASSUME NEW s \in Seq(Contexts), NEW p \in State, NEW q \in State,
           Mirrors(s, p), q.open = p.open, q.mode \in {"after"} \cup (Ended \cap Numbers)
    PROVE  /\ AdvanceAfterValue(s) \in Seq(Contexts)
           /\ AdvanceAfterValue(s) # << >>
           /\ Settles(AdvanceAfterValue(s), q)
<1>1. p.open \in Seq({"object", "array"}) /\ Len(p.open) \in Nat
  BY DEF State
<1>2. Len(s) \in Nat \ {0} /\ s # << >>
  BY Innermosts
<1>3. q.mode \notin {"first name", "name", "colon", "first", "value"}
  BY DEF Numbers
<1>4. Len(AdvanceAfterValue(s)) = Len(s) /\ AdvanceAfterValue(s) \in Seq(Contexts)
  BY <1>2, Advancing
<1>5. AdvanceAfterValue(s) # << >>
  BY <1>2, <1>4, EmptySeq
<1>6. Mirrors(AdvanceAfterValue(s), q)
  BY <1>1, <1>2, Advancing DEF Mirrors
<1> QED
  BY <1>2, <1>3, <1>4, <1>5, <1>6, Advancing DEF Settles, Placed, Expects

(* A context pushed mirrors the container the parser opens ... *)
LEMMA MirrorsOpened ==
    ASSUME NEW s \in Seq(Contexts), NEW p \in State, NEW c \in Contexts, NEW m \in Modes,
           Mirrors(s, p), c # "TopLevel"
    PROVE  /\ Append(s, c) \in Seq(Contexts)
           /\ Append(s, c) # << >>
           /\ Append(s, c)[Len(Append(s, c))] = c
           /\ Mirrors(Append(s, c), Opened(p, m, Container(c)))
           /\ Within(Opened(p, m, Container(c)), Container(c))
<1>1. p.open \in Seq({"object", "array"}) /\ Len(p.open) \in Nat
  BY DEF State
<1>2. Len(s) \in Nat \ {0}
  BY Innermosts
<1>3. Container(c) \in {"object", "array"}
  BY DEF Container
<1> DEFINE q == Opened(p, m, Container(c))
<1>4. /\ q \in State
      /\ Len(q.open) = Len(p.open) + 1
      /\ \A k \in 1..Len(p.open) : q.open[k] = p.open[k]
      /\ q.open[Len(p.open) + 1] = Container(c)
  BY <1>3, Opening
<1>5. /\ Append(s, c) \in Seq(Contexts)
      /\ Append(s, c) # << >>
      /\ Len(Append(s, c)) = Len(s) + 1
      /\ \A k \in 1..Len(s) : Append(s, c)[k] = s[k]
      /\ Append(s, c)[Len(s) + 1] = c
  BY AppendProperties
<1>6. q.open # << >> /\ Innermost(q) = Container(c)
  BY <1>1, <1>4, EmptySeq DEF Innermost
<1> HIDE DEF q
<1>7. Mirrors(Append(s, c), q)
  BY <1>1, <1>2, <1>4, <1>5, SMTT(30) DEF Mirrors
<1> QED
  BY <1>5, <1>6, <1>7 DEF Within, q

(* ... and one popped the container the parser closes. *)
LEMMA MirrorsClosed ==
    ASSUME NEW s \in Seq(Contexts), NEW p \in State, Mirrors(s, p), p.open # << >>
    PROVE  /\ SubSeq(s, 1, Len(s) - 1) \in Seq(Contexts)
           /\ SubSeq(s, 1, Len(s) - 1) # << >>
           /\ Mirrors(SubSeq(s, 1, Len(s) - 1), Closed(p))
<1>1. p.open \in Seq({"object", "array"}) /\ Len(p.open) \in Nat \ {0}
  BY EmptySeq DEF State
<1>2. Len(s) \in Nat /\ Len(s) > 1
  BY Innermosts
<1>3. \A k \in 1..(Len(s) - 1) : s[k] \in Contexts
  BY <1>2, ElementOfSeq
<1> DEFINE t == SubSeq(s, 1, Len(s) - 1)
<1>4. /\ t \in Seq(Contexts)
      /\ Len(t) = Len(s) - 1
      /\ \A k \in 1..(Len(s) - 1) : t[k] = s[k]
  BY <1>2, <1>3, SubSeqProperties
<1> HIDE DEF t
<1>5. t # << >>
  BY <1>2, <1>4, EmptySeq
<1>6. /\ Len(Closed(p).open) = Len(p.open) - 1
      /\ \A k \in 1..(Len(p.open) - 1) : Closed(p).open[k] = p.open[k]
  BY <1>1, Closing
<1> DEFINE q == Closed(p)
<1> HIDE DEF q
<1>7. Mirrors(t, q)
  <2>1. Len(t) = Len(q.open) + 1 /\ t[1] = "TopLevel"
    BY <1>1, <1>2, <1>4, <1>6 DEF Mirrors, q
  <2>2. ASSUME NEW k \in 1..Len(q.open)
        PROVE  t[k + 1] # "TopLevel" /\ Container(t[k + 1]) = q.open[k]
    <3>1. k \in 1..Len(p.open) /\ k \in 1..(Len(p.open) - 1) /\ k + 1 \in 1..(Len(s) - 1)
      BY <1>1, <1>6 DEF Mirrors, q
    <3>2. t[k + 1] = s[k + 1] /\ q.open[k] = p.open[k]
      BY <1>4, <1>6, <3>1 DEF q
    <3> QED
      BY <3>1, <3>2 DEF Mirrors
  <2> QED
    BY <2>1, <2>2 DEF Mirrors
<1> QED
  BY <1>4, <1>5, <1>7 DEF t, q

-----------------------------------------------------------------------------
(* Every byte of a JSON body is read by the parser, and the body is whole. *)
LEMMA Parsing ==
    ASSUME IInv, IsJson
    PROVE  /\ body \in Seq(Bytes) /\ Len(body) \in Nat
           /\ \A k \in 0..Len(body) : parse[k] \in State
           /\ \A k \in 0..(Len(body) - 1) :
                /\ body[k + 1] \in Bytes
                /\ parse[k + 1] \in After(parse[k], body[k + 1])
           /\ parse[0] = Start
           /\ parse[Len(body)].mode \in Ended /\ parse[Len(body)].open = << >>
<1>1. Document(body, parse)
  BY DocumentsAssumption DEF IInv, Origin
<1>2. body \in Seq(Bytes) /\ Len(body) \in Nat
  BY <1>1 DEF Document
<1>3. \A k \in 0..Len(body) : parse[k] \in State
  BY <1>1 DEF Document
<1>4. ASSUME NEW k \in 0..(Len(body) - 1)
      PROVE  body[k + 1] \in Bytes /\ parse[k + 1] \in After(parse[k], body[k + 1])
  <2>1. k + 1 \in 1..Len(body) /\ k + 1 - 1 = k
    BY <1>2
  <2> QED
    BY <1>1, <1>2, <2>1, ElementOfSeq DEF Document
<1> QED
  BY <1>1, <1>2, <1>3, <1>4 DEF Document, Accepting

(* Only a body that is JSON is scanned. *)
LEMMA Scanning ==
    ASSUME IInv, pc \notin {"parse", "plaintext"}
    PROVE  IsJson
BY DEF IInv, Origin

(* The leaves are those of the parse, which never changes. *)
LEMMA LeafKept ==
    ASSUME UNCHANGED parse, NEW k
    PROVE  InLeaf(k)' <=> InLeaf(k)
BY DEF InLeaf

(* The ranges are in the part of the body that is scanned. *)
LEMMA RangesBehind ==
    ASSUME IInv, IsJson
    PROVE  /\ i \in Nat /\ Len(ranges) \in Nat
           /\ \A n \in 1..Len(ranges) :
                /\ ranges[n] \in [start : 0..Len(body), end : 0..Len(body)]
                /\ ranges[n].start \in Nat /\ ranges[n].end \in Nat
                /\ ranges[n].start <= ranges[n].end
                /\ ranges[n].end <= i
<1>1. \A n \in 1..Len(ranges) : ranges[n] \in [start : 0..Len(body), end : 0..Len(body)]
  BY ElementOfSeq DEF IInv, TypeOK
<1>2. i \in Nat /\ Len(body) \in Nat
  BY Parsing DEF IInv, TypeOK
<1>3. Len(ranges) \in Nat
  BY DEF IInv, TypeOK
<1> QED
  BY <1>1, <1>2, <1>3 DEF IInv, LeavesFound

(* The scanner goes on over bytes that are in no leaf ... *)
LEMMA NoneFound ==
    ASSUME IInv, IsJson, NEW on \in 0..Len(body), i < on, i' = on,
           UNCHANGED <<body, parse, ranges>>,
           \A k \in i..(on - 1) : ~InLeaf(k)
    PROVE  LeavesFound'
<1>1. i \in Nat /\ on \in Nat
  BY Parsing, RangesBehind
<1>2. ASSUME NEW k \in 0..(on - 1)
      PROVE  InLeaf(k) <=> Covered(k)
  <2>1. CASE k < i
    BY <1>1, <2>1 DEF IInv, LeavesFound
  <2>2. CASE k >= i
    BY <1>1, <2>2, RangesBehind DEF Covered
  <2> QED
    BY <1>1, <2>1, <2>2
<1>3. \A k \in 0..(i' - 1) : InLeaf(k)' <=> Covered(k)'
  BY <1>2, LeafKept DEF Covered
<1>4. \A n \in 1..Len(ranges') :
        /\ ranges'[n].start <= ranges'[n].end
        /\ ranges'[n].end <= i'
        /\ ranges'[n].end # i'
  BY <1>1, RangesBehind
<1>5. \A m, n \in 1..Len(ranges') : m < n => ranges'[m].end < ranges'[n].start
  BY DEF IInv, LeavesFound
<1> QED
  BY <1>3, <1>4, <1>5 DEF LeavesFound

(* ... or over one leaf, which becomes the last of the ranges. *)
LEMMA OneFound ==
    ASSUME IInv, IsJson, NEW from \in 0..Len(body), NEW to \in 0..Len(body),
           NEW on \in 0..Len(body), i < on, i <= from, from <= to, to <= on, i' = on,
           UNCHANGED <<body, parse>>,
           ranges' = Append(ranges, [start |-> from, end |-> to]),
           \A k \in i..(on - 1) : InLeaf(k) <=> from <= k /\ k < to,
           from = i => parse[i].mode \notin Numbers,
           to = on => parse[on].mode \in Numbers
    PROVE  /\ LeavesFound'
           /\ ranges' \in Seq([start : 0..Len(body'), end : 0..Len(body')])
           /\ Len(ranges') = Len(ranges) + 1
<1>1. i \in Nat /\ on \in Nat /\ from \in Nat /\ to \in Nat /\ Len(ranges) \in Nat
  BY Parsing, RangesBehind
<1> DEFINE r == [start |-> from, end |-> to]
<1>2. r \in [start : 0..Len(body), end : 0..Len(body)] /\ r.start = from /\ r.end = to
  OBVIOUS
<1> HIDE DEF r
<1>3. /\ ranges' \in Seq([start : 0..Len(body), end : 0..Len(body)])
      /\ Len(ranges') = Len(ranges) + 1
      /\ \A n \in 1..Len(ranges) : ranges'[n] = ranges[n]
      /\ ranges'[Len(ranges) + 1] = r
  <2>1. ranges \in Seq([start : 0..Len(body), end : 0..Len(body)])
    BY DEF IInv, TypeOK
  <2> QED
    BY <1>2, <2>1, AppendProperties DEF r
<1>4. \A k \in Nat : Covered(k)' <=> (Covered(k) \/ (from <= k /\ k < to))
  <2>1. ASSUME NEW k \in Nat, Covered(k)'
        PROVE  Covered(k) \/ (from <= k /\ k < to)
    <3>1. PICK n \in 1..(Len(ranges) + 1) : ranges'[n].start <= k /\ k < ranges'[n].end
      BY <1>3, <2>1 DEF Covered
    <3>2. CASE n = Len(ranges) + 1
      BY <1>2, <1>3, <3>1, <3>2
    <3>3. CASE n # Len(ranges) + 1
      <4>1. n \in 1..Len(ranges)
        BY <1>1, <3>3
      <4> QED
        BY <1>3, <3>1, <4>1 DEF Covered
    <3> QED
      BY <3>2, <3>3
  <2>2. ASSUME NEW k \in Nat, Covered(k)
        PROVE  Covered(k)'
    <3>1. PICK n \in 1..Len(ranges) : ranges[n].start <= k /\ k < ranges[n].end
      BY <2>2 DEF Covered
    <3>2. n \in 1..Len(ranges') /\ ranges'[n] = ranges[n]
      BY <1>1, <1>3, <3>1
    <3> QED
      BY <3>1, <3>2 DEF Covered
  <2>3. ASSUME NEW k \in Nat, from <= k, k < to
        PROVE  Covered(k)'
    <3>1. Len(ranges) + 1 \in 1..Len(ranges')
      BY <1>1, <1>3
    <3> QED
      BY <1>2, <1>3, <2>3, <3>1 DEF Covered
  <2> QED
    BY <2>1, <2>2, <2>3
<1>5. ASSUME NEW k \in 0..(on - 1)
      PROVE  InLeaf(k) <=> Covered(k) \/ (from <= k /\ k < to)
  <2>1. CASE k < i
    BY <1>1, <2>1 DEF IInv, LeavesFound
  <2>2. CASE k >= i
    <3>1. ~Covered(k)
      BY <1>1, <2>2, RangesBehind DEF Covered
    <3> QED
      BY <1>1, <2>2, <3>1
  <2> QED
    BY <1>1, <2>1, <2>2
<1>6. \A k \in 0..(i' - 1) : InLeaf(k)' <=> Covered(k)'
  BY <1>1, <1>4, <1>5, LeafKept
<1>7. ASSUME NEW n \in 1..Len(ranges')
      PROVE  /\ ranges'[n].start <= ranges'[n].end
             /\ ranges'[n].end <= i'
             /\ ranges'[n].end = i' => parse'[i'].mode \in Numbers
  <2>1. CASE n = Len(ranges) + 1
    BY <1>1, <1>2, <1>3, <2>1
  <2>2. CASE n # Len(ranges) + 1
    <3>1. n \in 1..Len(ranges)
      BY <1>1, <1>3, <2>2
    <3> QED
      BY <1>1, <1>3, <3>1, RangesBehind
  <2> QED
    BY <2>1, <2>2
<1>8. ASSUME NEW m \in 1..Len(ranges'), NEW n \in 1..Len(ranges'), m < n
      PROVE  ranges'[m].end < ranges'[n].start
  <2>1. m \in 1..Len(ranges)
    BY <1>1, <1>3, <1>8
  <2>2. CASE n = Len(ranges) + 1
    <3>1. ranges[m].end <= i /\ (ranges[m].end = i => parse[i].mode \in Numbers)
      BY <2>1 DEF IInv, LeavesFound
    <3> QED
      BY <1>1, <1>2, <1>3, <2>1, <2>2, <3>1, RangesBehind, SMTT(30)
  <2>3. CASE n # Len(ranges) + 1
    <3>1. n \in 1..Len(ranges)
      BY <1>1, <1>3, <2>3
    <3> QED
      BY <1>3, <1>8, <2>1, <3>1 DEF IInv, LeavesFound
  <2> QED
    BY <2>2, <2>3
<1> QED
  BY <1>3, <1>6, <1>7, <1>8 DEF LeavesFound

(* An arm of the main loop keeps the invariant if the contexts it leaves    *)
(* agree with the parser over the byte it has read.                        *)
LEMMA ArmKeeps ==
    ASSUME IInv, NEW b, NEW s \in Seq(Contexts), s # << >>, Arm(b, s),
           parse[i + 1].mode \in Gaps, Settles(s, parse[i + 1])
    PROVE  IInv'
<1>1. /\ pc = "scan" /\ pc' = "scan" /\ i < Len(body)
      /\ i' = i + 1 /\ j' = i + 1 /\ stack' = s
      /\ UNCHANGED <<body, parse, part, ranges, next, last, out>>
  BY DEF Arm, At, Goto, rewriter
<1>2. IsJson
  BY <1>1, Scanning
<1>3. i \in Nat /\ i + 1 \in 0..Len(body) /\ Len(body) \in Nat
  BY <1>1, <1>2, Parsing DEF IInv, TypeOK
<1>4. parse[i + 1].mode \notin Numbers \cup InText
  BY DEF Gaps, Numbers, InText
<1>5. ~InLeaf(i)
  BY <1>4 DEF InLeaf
<1>6. TypeOK'
  BY <1>1, <1>3 DEF IInv, TypeOK
<1>7. Origin' /\ AgreesWithParser' /\ Phases' /\ InString' /\ InNumber'
  BY <1>1, <1>2 DEF IInv, Origin, IsJson, AgreesWithParser, Phases, InString, InNumber
<1>8. Between'
  BY <1>1, <1>4 DEF Between
<1>9. LeavesFound'
  <2>1. i..(i + 1 - 1) = {i}
    BY <1>3
  <2>2. i < i + 1 /\ i + 1 \in 0..Len(body)
    BY <1>3
  <2> QED
    BY <1>1, <1>2, <1>5, <2>1, <2>2, NoneFound, SMTT(30)
<1>10. Rewritten' /\ OnlyLeavesRewritten'
  BY <1>1 DEF Rewritten, OnlyLeavesRewritten
<1> QED
  BY <1>6, <1>7, <1>8, <1>9, <1>10 DEF IInv

(* What the main loop knows of the byte it looks at. *)
LEMMA Looking ==
    ASSUME IInv, pc = "scan", i < Len(body)
    PROVE  /\ i \in Nat /\ IsJson
           /\ body[i + 1] \in Bytes
           /\ parse[i] \in State /\ parse[i + 1] \in State
           /\ parse[i].mode \in Gaps \cup Ended
           /\ parse[i + 1] \in After(parse[i], body[i + 1])
           /\ parse[i].mode \in Numbers => parse[i + 1].mode \notin Numbers
           /\ stack \in Seq(Contexts) /\ stack # << >> /\ Len(stack) \in Nat \ {0}
           /\ Settles(stack, parse[i])
           /\ ctx \in Contexts
<1>1. IsJson
  BY Scanning
<1>2. i \in 0..(Len(body) - 1) /\ i \in 0..Len(body) /\ i + 1 \in 0..Len(body)
  BY <1>1, Parsing DEF IInv, TypeOK
<1>3. stack \in Seq(Contexts) /\ Settles(stack, parse[i])
  BY DEF IInv, TypeOK, Between
<1>4. parse[i] \in State /\ parse[i + 1] \in State
  BY <1>1, <1>2, Parsing
<1> QED
  BY <1>1, <1>2, <1>3, <1>4, Parsing, Innermosts DEF IInv, Between, ctx, Settles

(* What the parser makes of that byte. *)
LEMMA Byte ==
    ASSUME IInv, pc = "scan", i < Len(body)
    PROVE  /\ ReadsBetween(parse[i], body[i + 1], parse[i + 1])
           /\ ReadsFirst(parse[i], body[i + 1], parse[i + 1])
BY Looking, ReadBetween, ReadFirst

(* White space: the scanner and the parser stay between two tokens. *)
LEMMA SkipSpaceKeeps == ASSUME IInv, SkipSpace PROVE IInv'
<1>1. pc = "scan" /\ i < Len(body) /\ body[i + 1] = "space"
  BY DEF SkipSpace, Arm, At
<1>2. /\ parse[i + 1].open = parse[i].open
      /\ parse[i + 1].mode = IF parse[i].mode \in Gaps THEN parse[i].mode ELSE "after"
  BY <1>1, Byte DEF ReadsBetween
<1>3. parse[i + 1].mode \in Gaps
  BY <1>2 DEF Gaps
<1>4. Settles(stack, parse[i + 1])
  <2>1. Settles(stack, parse[i])
    BY <1>1, Looking
  <2>2. parse[i].mode # "value" /\ parse[i].mode \notin Gaps => parse[i + 1].mode # "value"
    BY <1>2
  <2>3. parse[i].mode = "value" => parse[i + 1].mode = "value"
    BY <1>2 DEF Gaps
  <2>4. Mirrors(stack, parse[i + 1])
    BY <1>2, <2>1 DEF Settles, Mirrors
  <2>5. Placed(parse[i + 1])
    BY <1>2, <2>1 DEF Settles, Placed, Within, Innermost
  <2>6. Expects(stack, parse[i + 1])
    BY <1>2, <2>1, <2>2, <2>3 DEF Settles, Expects, Within, Innermost
  <2> QED
    BY <2>4, <2>5, <2>6 DEF Settles
<1> QED
  BY <1>1, <1>3, <1>4, Looking, ArmKeeps DEF SkipSpace

(* A container that opens: its context is the innermost one. *)
LEMMA OpenKeeps ==
    ASSUME IInv,
           \/ OpenObject
           \/ OpenArray
    PROVE  IInv'
<1>1. CASE OpenObject
  <2>1. pc = "scan" /\ i < Len(body) /\ body[i + 1] = "{"
    BY <1>1 DEF OpenObject, Arm, At
  <2> DEFINE c == "ObjectExpectingKeyOrEnd"
             s == Append(stack, c)
             p == parse[i]
             q == parse[i + 1]
  <2>2. q = Opened(p, "first name", "object")
    BY <2>1, Byte DEF ReadsBetween
  <2>here. p \in State /\ stack \in Seq(Contexts) /\ Mirrors(stack, p)
    BY <2>1, Looking DEF Settles
  <2> HIDE DEF p, q
  <2>3. c \in Contexts /\ "first name" \in Modes /\ "first name" \in Gaps /\ Container(c) = "object"
    BY DEF Contexts, Modes, Gaps, Container
  <2>4. q.mode = "first name"
    BY <2>here, <2>2, <2>3, Opening
  <2>5. /\ s \in Seq(Contexts) /\ s # << >> /\ s[Len(s)] = c
        /\ Mirrors(s, q) /\ Within(q, "object")
    <3>1. c # "TopLevel"
      OBVIOUS
    <3> HIDE DEF c
    <3> QED
      BY <2>here, <2>2, <2>3, <3>1, MirrorsOpened
  <2>6. Settles(s, q)
    BY <2>4, <2>5 DEF Settles, Placed, Expects
  <2> QED
    BY <1>1, <2>3, <2>4, <2>5, <2>6, ArmKeeps DEF OpenObject, q
<1>2. CASE OpenArray
  <2>1. pc = "scan" /\ i < Len(body) /\ body[i + 1] = "["
    BY <1>2 DEF OpenArray, Arm, At
  <2> DEFINE c == "ArrayExpectingValueOrEnd"
             s == Append(stack, c)
             p == parse[i]
             q == parse[i + 1]
  <2>2. q = Opened(p, "first", "array")
    BY <2>1, Byte DEF ReadsBetween
  <2>here. p \in State /\ stack \in Seq(Contexts) /\ Mirrors(stack, p)
    BY <2>1, Looking DEF Settles
  <2> HIDE DEF p, q
  <2>3. c \in Contexts /\ "first" \in Modes /\ "first" \in Gaps /\ Container(c) = "array"
    BY DEF Contexts, Modes, Gaps, Container
  <2>4. q.mode = "first"
    BY <2>here, <2>2, <2>3, Opening
  <2>5. /\ s \in Seq(Contexts) /\ s # << >> /\ s[Len(s)] = c
        /\ Mirrors(s, q) /\ Within(q, "array")
    <3>1. c # "TopLevel"
      OBVIOUS
    <3> HIDE DEF c
    <3> QED
      BY <2>here, <2>2, <2>3, <3>1, MirrorsOpened
  <2>6. ~Within(q, "object")
    BY <2>5 DEF Within
  <2>7. Settles(s, q)
    BY <2>4, <2>5, <2>6 DEF Settles, Placed, Expects
  <2> QED
    BY <1>2, <2>3, <2>4, <2>5, <2>7, ArmKeeps DEF OpenArray, q
<1> QED
  BY <1>1, <1>2

(* A container that ends: what is around it has got its value. *)
LEMMA CloseKeeps ==
    ASSUME IInv,
           \/ CloseObject
           \/ CloseArray
    PROVE  IInv'
<1>1. PICK b \in {"}", "]"} : Arm(b, AdvanceAfterValue(Outer))
  BY DEF CloseObject, CloseArray
<1>2. pc = "scan" /\ i < Len(body) /\ body[i + 1] = b
  BY <1>1 DEF Arm, At
<1>3. parse[i].open # << >> /\ parse[i + 1] = Closed(parse[i])
  BY <1>1, <1>2, Byte DEF ReadsBetween, Within
<1>4. Closed(parse[i]) \in State /\ Closed(parse[i]).mode = "after"
  BY <1>2, <1>3, Looking, Closing
<1>5. Outer \in Seq(Contexts) /\ Outer # << >> /\ Mirrors(Outer, Closed(parse[i]))
  <2>1. parse[i] \in State /\ stack \in Seq(Contexts) /\ Mirrors(stack, parse[i])
    BY <1>2, Looking DEF Settles
  <2> QED
    BY <1>3, <2>1, MirrorsClosed DEF Outer
<1>6. /\ AdvanceAfterValue(Outer) \in Seq(Contexts)
      /\ AdvanceAfterValue(Outer) # << >>
      /\ Settles(AdvanceAfterValue(Outer), Closed(parse[i]))
  BY <1>4, <1>5, MirrorsAdvanced
<1>7. "after" \in Gaps
  BY DEF Gaps
<1> QED
  BY <1>1, <1>3, <1>4, <1>6, <1>7, ArmKeeps

(* The bytes between tokens that leave no container. *)
LEMMA CommaKeeps == ASSUME IInv, Comma PROVE IInv'
<1>1. pc = "scan" /\ i < Len(body) /\ body[i + 1] = "," /\ Arm(",", stack)
  BY DEF Comma, Arm, At
<1> DEFINE p == parse[i]
           q == parse[i + 1]
<1>2. /\ p.mode \in Ended
      /\ q.open = p.open
      /\ \/ Within(p, "object") /\ q.mode = "name"
         \/ Within(p, "array") /\ q.mode = "value"
  BY <1>1, Byte DEF ReadsBetween
<1>3. p \in State /\ stack \in Seq(Contexts) /\ stack # << >> /\ Settles(stack, p)
  BY <1>1, Looking
<1> HIDE DEF p, q
<1>4. q.mode \in Gaps /\ p.mode # "value"
  BY <1>2 DEF Gaps, Ended
<1>5. Mirrors(stack, q)
  BY <1>2, <1>3 DEF Settles, Mirrors
<1>6. /\ Within(q, "object") <=> Within(p, "object")
      /\ ~(Within(q, "object") /\ Within(p, "array"))
  BY <1>2 DEF Within, Innermost
<1>7. Settles(stack, q)
  BY <1>2, <1>3, <1>4, <1>5, <1>6 DEF Settles, Placed, Expects
<1> QED
  BY <1>1, <1>3, <1>4, <1>7, ArmKeeps DEF q

(* A colon: both now expect the value of the name just read. *)
LEMMA ColonKeeps == ASSUME IInv, Colon PROVE IInv'
<1> DEFINE s == [stack EXCEPT ![Len(stack)] = "ObjectExpectingValue"]
           p == parse[i]
           q == parse[i + 1]
<1>1. /\ pc = "scan" /\ i < Len(body) /\ body[i + 1] = ":" /\ Arm(":", s)
      /\ ctx = "ObjectExpectingKeyOrEnd"
  BY DEF Colon, Arm, At
<1>2. p.mode = "colon" /\ q.open = p.open /\ q.mode = "value"
  BY <1>1, Byte DEF ReadsBetween
<1>3. /\ p \in State /\ stack \in Seq(Contexts) /\ Len(stack) \in Nat \ {0}
      /\ Settles(stack, p)
  BY <1>1, Looking
<1>4. /\ s \in Seq(Contexts) /\ Len(s) = Len(stack)
      /\ \A k \in 1..Len(stack) :
           s[k] = IF k = Len(stack) THEN "ObjectExpectingValue" ELSE stack[k]
  BY <1>3, ExceptSeq DEF Contexts
<1> HIDE DEF s, p, q
<1>5. s # << >>
  BY <1>3, <1>4, EmptySeq
<1>6. Len(stack) > 1 /\ Len(p.open) \in Nat /\ Len(p.open) = Len(stack) - 1
  <2>1. p.open # << >>
    BY <1>2, <1>3 DEF Settles, Placed, Within
  <2> QED
    BY <1>3, <2>1, Innermosts DEF Settles, Mirrors
<1>7. Mirrors(s, q)
  <2>1. ASSUME NEW k \in 1..Len(p.open)
        PROVE  s[k + 1] # "TopLevel" /\ Container(s[k + 1]) = p.open[k]
    <3>1. stack[k + 1] # "TopLevel" /\ Container(stack[k + 1]) = p.open[k]
      BY <1>3 DEF Settles, Mirrors
    <3>2. k + 1 \in 1..Len(stack)
      BY <1>3, <1>6
    <3>3. CASE k + 1 = Len(stack)
      BY <1>1, <1>4, <3>1, <3>2, <3>3 DEF ctx, Container
    <3>4. CASE k + 1 # Len(stack)
      BY <1>4, <3>1, <3>2, <3>4
    <3> QED
      BY <3>3, <3>4
  <2>2. Len(s) = Len(p.open) + 1 /\ s[1] = "TopLevel"
    BY <1>3, <1>4, <1>6 DEF Settles, Mirrors
  <2> QED
    BY <1>2, <2>1, <2>2 DEF Mirrors
<1>8. Settles(s, q)
  BY <1>2, <1>3, <1>4, <1>7 DEF Settles, Placed, Expects
<1>9. q.mode \in Gaps
  BY <1>2 DEF Gaps
<1> QED
  BY <1>1, <1>4, <1>5, <1>8, <1>9, ArmKeeps DEF q

(* The scanner takes a literal for a value, as the parser does. *)
LEMMA LiteralKeeps == ASSUME IInv, Literal PROVE IInv'
<1> DEFINE s == AdvanceAfterValue(stack)
           p == parse[i]
           q == parse[i + 1]
<1>1. pc = "scan" /\ i < Len(body) /\ body[i + 1] = "literal" /\ Arm("literal", s)
  BY DEF Literal, Arm, At
<1>2. q.open = p.open /\ q.mode = "after"
  BY <1>1, Byte DEF ReadsBetween
<1>3. p \in State /\ q \in State /\ stack \in Seq(Contexts) /\ Mirrors(stack, p)
  BY <1>1, Looking DEF Settles
<1> HIDE DEF p, q
<1>4. s \in Seq(Contexts) /\ s # << >> /\ Settles(s, q)
  BY <1>2, <1>3, MirrorsAdvanced
<1>5. q.mode \in Gaps
  BY <1>2 DEF Gaps
<1> QED
  BY <1>1, <1>4, <1>5, ArmKeeps DEF q

-----------------------------------------------------------------------------
(* A step of scan_string or scan_number that finds no range. *)
LEMMA Untouched ==
    ASSUME IInv, UNCHANGED <<body, parse, i, stack, ranges, rewriter>>, pc # "rewrite",
           pc \notin {"done", "parse", "plaintext"}, pc' \in {"scan", "string", "number"},
           j' \in Nat, part' \in {"integer", "fraction", "exponent"}
    PROVE  /\ TypeOK' /\ Origin' /\ AgreesWithParser' /\ Phases'
           /\ LeavesFound' /\ Rewritten' /\ OnlyLeavesRewritten'
<1>1. pc \in {"scan", "string", "number"} /\ IsJson
  BY Scanning DEF IInv, TypeOK
<1>2. UNCHANGED <<body, parse, i, stack, ranges, next, last, out>>
  BY DEF rewriter
<1>3. TypeOK'
  BY <1>2 DEF IInv, TypeOK
<1>4. Origin' /\ AgreesWithParser' /\ Phases'
  BY <1>1, <1>2 DEF IInv, Origin, AgreesWithParser, Phases, IsJson
<1>5. LeavesFound'
  BY <1>2 DEF IInv, LeavesFound, IsJson, InLeaf, Covered
<1>6. Rewritten' /\ OnlyLeavesRewritten'
  BY DEF Rewritten, OnlyLeavesRewritten
<1> QED
  BY <1>3, <1>4, <1>5, <1>6

(* A quote: scan_string starts where the parser enters a string or a name. *)
LEMMA StartStringKeeps == ASSUME IInv, StartString PROVE IInv'
<1> DEFINE p == parse[i]
           q == parse[i + 1]
<1>1. /\ pc = "scan" /\ i < Len(body) /\ body[i + 1] = "quote"
      /\ pc' = "string" /\ j' = i + 1
      /\ UNCHANGED <<body, parse, i, part, stack, ranges, rewriter>>
  BY DEF StartString, At
<1>2. /\ q.open = p.open
      /\ \/ p.mode \in {"value", "first"} /\ q.mode = "string"
         \/ p.mode \in {"first name", "name"} /\ q.mode = "in name"
  BY <1>1, Byte DEF ReadsFirst
<1>3. /\ p \in State /\ stack \in Seq(Contexts)
      /\ Settles(stack, p) /\ i \in Nat /\ IsJson
  BY <1>1, Looking
<1>4. Len(body) \in Nat
  BY <1>3, Parsing
<1>5. Between'
  BY <1>1 DEF IInv, Between
<1>6. InString'
  <2>1. j' \in Nat /\ i < j' /\ j' <= Len(body) /\ (i + 1)..j' = {i + 1}
    BY <1>1, <1>3, <1>4
  <2>2. CASE p.mode \in {"value", "first"} /\ q.mode = "string"
    <3>1. ctx # "ObjectExpectingKeyOrEnd"
      <4>1. CASE Within(p, "object")
        <5>1. p.mode = "value"
          BY <1>3, <2>2, <4>1 DEF Settles, Placed, Within
        <5> QED
          BY <1>3, <4>1, <5>1 DEF Settles, Expects, ctx
      <4>2. CASE ~Within(p, "object")
        <5> HIDE DEF p
        <5> QED
          BY <1>3, <4>2, Innermosts DEF Settles, ctx
      <4> QED
        BY <4>1, <4>2
    <3> QED
      BY <1>1, <1>2, <2>1, <2>2, <3>1 DEF InString, InText, ctx
  <2>3. CASE p.mode \in {"first name", "name"} /\ q.mode = "in name"
    <3>1. Within(p, "object") /\ p.mode # "value"
      BY <1>3, <2>3 DEF Settles, Placed
    <3>2. ctx = "ObjectExpectingKeyOrEnd"
      <4> HIDE DEF p
      <4> QED
        BY <1>3, <3>1, Innermosts DEF Settles, Expects, ctx
    <3> QED
      BY <1>1, <1>2, <2>1, <2>3, <3>1, <3>2 DEF InString, InName, ctx
  <2> QED
    BY <1>2, <2>2, <2>3
<1>7. InNumber'
  BY <1>1 DEF InNumber
<1>8. j' \in Nat /\ part' \in {"integer", "fraction", "exponent"}
  BY <1>1, <1>3 DEF IInv, TypeOK
<1> QED
  BY <1>1, <1>5, <1>6, <1>7, <1>8, Untouched DEF IInv

(* What scan_string and scan_number know of the byte they look at. *)
LEMMA Inside ==
    ASSUME IInv, pc \in {"string", "number"}
    PROVE  /\ IsJson /\ i \in Nat /\ j \in Nat /\ Len(body) \in Nat
           /\ i <= j /\ j <= Len(body) /\ i < Len(body)
           /\ parse[i] \in State /\ parse[j] \in State
           /\ parse[j].open = parse[i].open
           /\ stack \in Seq(Contexts) /\ Settles(stack, parse[i])
           /\ j < Len(body) =>
                /\ body[j + 1] \in Bytes /\ parse[j + 1] \in State
                /\ parse[j + 1] \in After(parse[j], body[j + 1])
           /\ j = Len(body) => parse[j].mode \in Ended
<1>1. IsJson
  BY Scanning
<1>2. i \in Nat /\ j \in Nat /\ Len(body) \in Nat
  BY <1>1, Parsing DEF IInv, TypeOK
<1>3. /\ i <= j /\ j <= Len(body) /\ parse[j].open = parse[i].open
      /\ i < Len(body)
  <2>1. CASE pc = "string"
    <3>1. i < j /\ j <= Len(body) /\ parse[j].open = parse[i].open
      BY <2>1 DEF IInv, InString
    <3> QED
      BY <1>2, <3>1
  <2>2. CASE pc = "number"
    BY <1>2, <2>2 DEF IInv, InNumber, DigitAt
  <2> QED
    BY <2>1, <2>2
<1>5. i \in 0..Len(body) /\ j \in 0..Len(body)
  BY <1>2, <1>3
<1>6. j < Len(body) => j \in 0..(Len(body) - 1) /\ j + 1 \in 0..Len(body)
  BY <1>2
<1>7. stack \in Seq(Contexts) /\ Settles(stack, parse[i])
  BY DEF IInv, TypeOK, Between
<1> QED
  BY <1>1, <1>2, <1>3, <1>5, <1>6, <1>7, Parsing

-----------------------------------------------------------------------------
(* A plain byte of a string stays in the string. *)
LEMMA CharacterKeeps == ASSUME IInv, Character PROVE IInv'
<1> DEFINE p == parse[j]
           q == parse[j + 1]
           b == body[j + 1]
<1>1. /\ pc = "string" /\ pc' = "string" /\ j < Len(body) /\ j' = j + 1
      /\ body[j + 1] \notin {"backslash", "quote"}
      /\ UNCHANGED <<body, parse, i, stack, ranges, part, rewriter>>
  BY DEF Character, Skip
<1>2. i \in Nat /\ j \in Nat /\ Len(body) \in Nat
  BY <1>1, Inside
<1>3. p \in State /\ b \in Bytes /\ q \in After(p, b) /\ b \notin {"backslash", "quote"}
  BY <1>1, Inside
<1> HIDE DEF p, q, b
<1>4. p.mode \in {"string", "in name"} => q.open = p.open /\ q.mode = p.mode
  BY <1>3, ReadText DEF ReadsText
<1>5. InString'
  <2>1. \A k \in (i + 1)..(j + 1) : k \in (i + 1)..j \/ k = j + 1
    BY <1>2
  <2>2. i < j' /\ j' <= Len(body') /\ ctx' = ctx
    <3>1. i < j
      BY <1>1 DEF IInv, InString
    <3> QED
      BY <1>1, <1>2, <3>1 DEF ctx
  <2>3. CASE ctx = "ObjectExpectingKeyOrEnd"
    BY <1>1, <1>4, <2>1, <2>2, <2>3 DEF IInv, InString, InName, p, q
  <2>4. CASE ctx # "ObjectExpectingKeyOrEnd"
    BY <1>1, <1>4, <2>1, <2>2, <2>4 DEF IInv, InString, InText, p, q
  <2> QED
    BY <2>3, <2>4
<1>6. Between' /\ InNumber'
  BY <1>1 DEF IInv, Between, InNumber
<1>7. j' \in Nat /\ part' \in {"integer", "fraction", "exponent"}
  BY <1>1, <1>2 DEF IInv, TypeOK
<1> QED
  BY <1>1, <1>5, <1>6, <1>7, Untouched DEF IInv

(* A backslash and the byte after it are one escape for both. *)
LEMMA EscapeKeeps == ASSUME IInv, Escape PROVE IInv'
<1> DEFINE p == parse[j]
           q == parse[j + 1]
           r == parse[j + 2]
<1>1. /\ pc = "string" /\ pc' = "string" /\ j < Len(body) /\ j' = j + 2
      /\ body[j + 1] = "backslash"
      /\ UNCHANGED <<body, parse, i, stack, ranges, part, rewriter>>
  BY DEF Escape, Skip, At
<1>2. IsJson /\ i \in Nat /\ j \in Nat /\ Len(body) \in Nat
  BY <1>1, Inside
<1>3. p \in State /\ q \in State /\ q \in After(p, "backslash") /\ "backslash" \in Bytes
  BY <1>1, Inside
<1> HIDE DEF p, q, r
<1>5. p.mode \in {"string", "in name"}
  BY <1>1 DEF IInv, InString, p
<1>4. /\ q.open = p.open
      /\ p.mode = "string" => q.mode = "escape"
      /\ p.mode = "in name" => q.mode = "escape in name"
  BY <1>3, <1>5, ReadText DEF ReadsText
<1>6. j + 1 < Len(body)
  <2>1. q.mode \notin Ended
    BY <1>4, <1>5 DEF Ended
  <2> QED
    BY <1>1, <1>2, <2>1, Parsing DEF q
<1>7. j + 1 \in 0..(Len(body) - 1) /\ j + 2 \in 0..Len(body) /\ j + 1 + 1 = j + 2
  BY <1>2, <1>6
<1> DEFINE b == body[j + 2]
<1>8. b \in Bytes /\ r \in After(q, b)
  BY <1>2, <1>7, Parsing DEF q, r
<1> HIDE DEF b
<1>9. r.open = p.open /\ r.mode = p.mode
  <2>1. q.mode \in {"escape", "escape in name"}
    BY <1>4, <1>5
  <2>2. ReadsText(q, b, r)
    BY <1>3, <1>8, <2>1, ReadText
  <2> QED
    BY <1>4, <1>5, <2>2 DEF ReadsText
<1>10. InString'
  <2>1. \A k \in (i + 1)..(j + 2) : k \in (i + 1)..j \/ k = j + 1 \/ k = j + 2
    BY <1>2
  <2>2. i < j' /\ j' <= Len(body') /\ ctx' = ctx
    <3>1. i < j
      BY <1>1 DEF IInv, InString
    <3> QED
      BY <1>1, <1>2, <1>7, <3>1 DEF ctx
  <2>3. CASE ctx = "ObjectExpectingKeyOrEnd"
    BY <1>1, <1>4, <1>9, <2>1, <2>2, <2>3 DEF IInv, InString, InName, p, q, r
  <2>4. CASE ctx # "ObjectExpectingKeyOrEnd"
    BY <1>1, <1>4, <1>9, <2>1, <2>2, <2>4 DEF IInv, InString, InText, p, q, r
  <2> QED
    BY <2>3, <2>4
<1>11. Between' /\ InNumber'
  BY <1>1 DEF IInv, Between, InNumber
<1>12. j' \in Nat /\ part' \in {"integer", "fraction", "exponent"}
  BY <1>1, <1>2 DEF IInv, TypeOK
<1> QED
  BY <1>1, <1>10, <1>11, <1>12, Untouched DEF IInv

(* A key leaves no range: none of its bytes is in a leaf. *)
LEMMA EndKeyKeeps == ASSUME IInv, EndKey PROVE IInv'
<1> DEFINE p == parse[j]
           q == parse[j + 1]
<1>1. /\ pc = "string" /\ pc' = "scan" /\ j < Len(body) /\ i' = j + 1 /\ j' = j + 1
      /\ body[j + 1] = "quote" /\ ctx = "ObjectExpectingKeyOrEnd"
      /\ UNCHANGED <<body, parse, part, stack, ranges, next, last, out>>
  BY DEF EndKey, At, Goto, rewriter
<1>2. /\ IsJson /\ i \in Nat /\ j \in Nat /\ Len(body) \in Nat /\ i < j
      /\ stack \in Seq(Contexts) /\ Settles(stack, parse[i])
  BY <1>1, Inside DEF IInv, InString
<1>3. p \in State /\ "quote" \in Bytes /\ q \in After(p, "quote")
  BY <1>1, Inside
<1>4. /\ Within(parse[i], "object") /\ p.open = parse[i].open
      /\ p.mode = "in name"
      /\ \A k \in (i + 1)..j : parse[k].mode \in InName
  BY <1>1 DEF IInv, InString
<1>5. q.open = p.open /\ q.mode = "colon"
  <2> HIDE DEF p, q
  <2> QED
    BY <1>3, <1>4, ReadText DEF ReadsText
<1>6. LeavesFound'
  <2>1. ASSUME NEW k \in i..(j + 1 - 1)
        PROVE  ~InLeaf(k)
    <3>1. parse[k + 1].mode \in InName \cup {"colon"}
      <4>1. k = j \/ k + 1 \in (i + 1)..j
        BY <1>2
      <4> QED
        BY <1>4, <1>5, <4>1
    <3> QED
      BY <3>1 DEF InLeaf, InName, InText, Numbers
  <2>2. j + 1 \in 0..Len(body) /\ i < j + 1
    BY <1>1, <1>2
  <2> QED
    BY <1>1, <1>2, <2>1, <2>2, NoneFound
<1>7. Between'
  <2>1. Mirrors(stack, q)
    BY <1>2, <1>4, <1>5 DEF Settles, Mirrors
  <2>2. Within(q, "object")
    BY <1>4, <1>5 DEF Within, Innermost
  <2>3. Settles(stack, q)
    BY <1>1, <1>5, <2>1, <2>2 DEF Settles, Placed, Expects, ctx
  <2>4. q.mode \in Gaps /\ q.mode \notin Numbers
    BY <1>5 DEF Gaps, Numbers
  <2> QED
    BY <1>1, <2>3, <2>4 DEF Between
<1>8. TypeOK'
  <2>1. j + 1 \in 0..Len(body) /\ j + 1 \in Nat
    BY <1>1, <1>2
  <2> QED
    BY <1>1, <2>1 DEF IInv, TypeOK
<1>9. Origin' /\ AgreesWithParser' /\ Phases' /\ InString' /\ InNumber'
  BY <1>1, <1>2 DEF IInv, Origin, IsJson, AgreesWithParser, Phases, InString, InNumber
<1>10. Rewritten' /\ OnlyLeavesRewritten'
  BY <1>1 DEF Rewritten, OnlyLeavesRewritten
<1> QED
  BY <1>6, <1>7, <1>8, <1>9, <1>10 DEF IInv

(* A value leaves the range of its leaf. *)
LEMMA CapturedKeeps ==
    ASSUME IInv, pc \in {"string", "number"},
           NEW from \in 0..Len(body), NEW to \in 0..Len(body), NEW on \in 0..Len(body),
           i < on, i <= from, from <= to, to <= on,
           Captured(from, to, on),
           parse[on].open = parse[i].open,
           parse[on].mode \in {"after"} \cup (Ended \cap Numbers),
           parse[on].mode \in Numbers /\ on < Len(body) => parse[on + 1].mode \notin Numbers,
           \A k \in i..(on - 1) : InLeaf(k) <=> from <= k /\ k < to,
           from = i => parse[i].mode \notin Numbers,
           to = on => parse[on].mode \in Numbers
    PROVE  IInv'
<1>1. /\ pc' = "scan" /\ i' = on /\ j' = on
      /\ ranges' = Append(ranges, [start |-> from, end |-> to])
      /\ stack' = AdvanceAfterValue(stack)
      /\ UNCHANGED <<body, parse, part, next, last, out>>
  BY DEF Captured, Goto, rewriter
<1>2. /\ IsJson /\ i \in Nat /\ Len(body) \in Nat
      /\ stack \in Seq(Contexts) /\ Settles(stack, parse[i])
      /\ parse[i] \in State
  BY Inside
<1>3. parse[on] \in State /\ on \in Nat
  BY <1>2, Parsing
<1>4. /\ LeavesFound'
      /\ ranges' \in Seq([start : 0..Len(body'), end : 0..Len(body')])
      /\ Len(ranges') = Len(ranges) + 1
  BY <1>1, <1>2, OneFound
<1>5. stack' \in Seq(Contexts) /\ stack' # << >> /\ Settles(stack', parse[on])
  BY <1>1, <1>2, <1>3, MirrorsAdvanced DEF Settles
<1>6. Between'
  BY <1>1, <1>5 DEF Between, Gaps
<1>7. TypeOK'
  <2>1. next' \in 1..(Len(ranges') + 1)
    BY <1>1, <1>4, <1>2, RangesBehind DEF IInv, TypeOK
  <2> QED
    BY <1>1, <1>3, <1>4, <1>5, <2>1 DEF IInv, TypeOK
<1>8. Origin' /\ AgreesWithParser' /\ Phases' /\ InString' /\ InNumber'
  BY <1>1, <1>2 DEF IInv, Origin, IsJson, AgreesWithParser, Phases, InString, InNumber
<1>9. Rewritten' /\ OnlyLeavesRewritten'
  BY <1>1 DEF Rewritten, OnlyLeavesRewritten
<1> QED
  BY <1>4, <1>6, <1>7, <1>8, <1>9 DEF IInv

(* The closing quote of a value: its bytes are a leaf, and become a range. *)
LEMMA EndStringKeeps == ASSUME IInv, EndString PROVE IInv'
<1> DEFINE p == parse[j]
           q == parse[j + 1]
<1>1. /\ pc = "string" /\ j < Len(body)
      /\ body[j + 1] = "quote" /\ ctx # "ObjectExpectingKeyOrEnd"
      /\ Captured(i + 1, j, j + 1)
  BY DEF EndString, At
<1>2. /\ IsJson /\ i \in Nat /\ j \in Nat /\ Len(body) \in Nat /\ i < j
  BY <1>1, Inside DEF IInv, InString
<1>3. p \in State /\ "quote" \in Bytes /\ q \in After(p, "quote")
  BY <1>1, Inside
<1>4. /\ parse[i].mode \in {"value", "first"} /\ p.open = parse[i].open
      /\ p.mode = "string"
      /\ \A k \in (i + 1)..j : parse[k].mode \in InText
  BY <1>1 DEF IInv, InString
<1>5. q.open = p.open /\ q.mode = "after"
  <2> HIDE DEF p, q
  <2> QED
    BY <1>3, <1>4, ReadText DEF ReadsText
<1>6. ASSUME NEW k \in i..(j + 1 - 1)
      PROVE  InLeaf(k) <=> i + 1 <= k /\ k < j
  <2>1. CASE k = i
    <3>1. parse[k].mode \notin InText /\ parse[k + 1].mode \notin Numbers
      BY <1>2, <1>4, <2>1 DEF InText, Numbers
    <3> QED
      BY <1>2, <2>1, <3>1 DEF InLeaf
  <2>2. CASE k = j
    <3>1. parse[k + 1].mode \notin InText \cup Numbers
      BY <1>5, <2>2 DEF InText, Numbers
    <3> QED
      BY <1>2, <2>2, <3>1 DEF InLeaf
  <2>3. CASE i + 1 <= k /\ k < j
    <3>1. k \in (i + 1)..j /\ k + 1 \in (i + 1)..j
      BY <1>2, <2>3
    <3> QED
      BY <1>4, <2>3, <3>1 DEF InLeaf
  <2> QED
    BY <1>2, <2>1, <2>2, <2>3
<1>7. q.mode \notin Numbers /\ j + 1 # j
  BY <1>2, <1>5 DEF Numbers
<1>8. /\ i + 1 \in 0..Len(body) /\ j \in 0..Len(body) /\ j + 1 \in 0..Len(body)
      /\ i < j + 1 /\ i <= i + 1 /\ i + 1 <= j /\ j <= j + 1 /\ i + 1 # i
  BY <1>1, <1>2
<1> QED
  BY <1>1, <1>4, <1>5, <1>6, <1>7, <1>8, CapturedKeeps

-----------------------------------------------------------------------------
(* A minus or a digit: scan_number starts where the parser enters a number. *)
LEMMA StartNumberKeeps == ASSUME IInv, StartNumber PROVE IInv'
<1> DEFINE p == parse[i]
           b == body[i + 1]
           q == parse[i + 1]
<1>1. /\ pc = "scan" /\ i < Len(body) /\ b \in Digits \cup {"-"}
      /\ pc' = "number" /\ part' = "integer"
      /\ j' = IF b = "-" THEN i + 1 ELSE i
      /\ UNCHANGED <<body, parse, i, stack, ranges, rewriter>>
  BY DEF StartNumber, At, DigitAt
<1>2. /\ p.mode \in Numbers => q.mode \notin Numbers
      /\ i \in Nat /\ IsJson
  BY <1>1, Looking
<1>3. Len(body) \in Nat
  BY <1>2, Parsing
<1>4. ReadsFirst(p, b, q)
  BY <1>1, Byte
<1> HIDE DEF p, b, q
<1>5. /\ p.mode \in {"value", "first"} /\ q.open = p.open
      /\ b = "-" => q.mode = "minus"
  BY <1>1, <1>2, <1>4 DEF ReadsFirst
<1>6. InNumber'
  <2>1. CASE b = "-"
    <3>1. j' = i + 1 /\ (i + 1)..(i + 1) = {i + 1}
      BY <1>1, <1>2, <2>1
    <3> QED
      BY <1>1, <1>2, <1>3, <1>5, <2>1, <3>1 DEF InNumber, Numbers, p, q
  <2>2. CASE b # "-"
    <3>1. j' = i /\ (i + 1)..i = {} /\ DigitAt(i)'
      BY <1>1, <1>2, <2>2 DEF DigitAt, b
    <3> QED
      BY <1>1, <1>2, <1>3, <1>5, <3>1 DEF InNumber, p
  <2> QED
    BY <2>1, <2>2
<1>7. Between' /\ InString'
  BY <1>1 DEF IInv, Between, InString
<1>8. j' \in Nat /\ part' \in {"integer", "fraction", "exponent"}
  BY <1>1, <1>2
<1> QED
  BY <1>1, <1>6, <1>7, <1>8, Untouched DEF IInv

(* What scan_number knows of the number so far, and of the byte behind it. *)
LEMMA NumberByte ==
    ASSUME IInv, pc = "number", j < Len(body)
    PROVE  /\ j = i => /\ part = "integer" /\ body[j + 1] \in Digits
                       /\ parse[j + 1].open = parse[j].open
                       /\ parse[j + 1].mode \in {"zero", "integer"}
           /\ j # i => /\ parse[j].mode \in Numbers
                       /\ ReadsNumber(parse[j], body[j + 1], parse[j + 1])
<1> DEFINE p == parse[j]
           b == body[j + 1]
           q == parse[j + 1]
<1>1. i \in Nat /\ j \in Nat /\ i <= j
  BY Inside
<1>2. p \in State /\ b \in Bytes /\ q \in After(p, b)
  BY Inside
<1>3. CASE j = i
  <2>1. part = "integer" /\ b \in Digits /\ p.mode \in {"value", "first"}
    BY <1>3 DEF IInv, InNumber, DigitAt
  <2> HIDE DEF p, b, q
  <2>2. p.mode \in Gaps \cup Ended /\ p.mode \notin Numbers
    BY <2>1 DEF Gaps, Numbers
  <2>3. ReadsFirst(p, b, q)
    BY <1>2, <2>2, ReadFirst
  <2>4. q.open = p.open /\ q.mode \in {"zero", "integer"}
    BY <2>1, <2>2, <2>3 DEF ReadsFirst
  <2> QED
    BY <1>3, <2>1, <2>4 DEF p, b, q
<1>4. CASE j # i
  <2>1. j \in (i + 1)..j
    BY <1>1, <1>4
  <2>2. p.mode \in Numbers
    BY <2>1 DEF IInv, InNumber
  <2> HIDE DEF p, b, q
  <2>3. ReadsNumber(p, b, q)
    BY <1>2, <2>2, ReadNumber
  <2> QED
    BY <1>4, <2>2, <2>3 DEF p, b, q
<1> QED
  BY <1>3, <1>4

(* What is known of the part of the number scan_number is in. *)
PartOf(m, t) ==
    /\ t = "integer" => m \in {"minus", "zero", "integer"}
    /\ t = "fraction" => m \in {"point", "fraction"}
    /\ t = "exponent" => m \in {"e", "sign", "exponent"}

(* A number read one byte further is the same number, in the part the *)
(* parser is in.                                                      *)
LEMMA NumberGoesOn ==
    ASSUME IInv, pc = "number", pc' = "number",
           UNCHANGED <<body, parse, i, stack, ranges, rewriter>>,
           NEW n \in {1, 2}, j' = j + n, j + n <= Len(body),
           \A k \in (j + 1)..(j + n) : parse[k].mode \in Numbers,
           parse[j + n].open = parse[j].open,
           part' \in {"integer", "fraction", "exponent"},
           PartOf(parse[j + n].mode, part'),
           parse[j + n].mode = "e" => ~At(j + n, "+") /\ ~At(j + n, "-")
    PROVE  IInv'
<1>1. i \in Nat /\ j \in Nat /\ Len(body) \in Nat /\ i <= j
  BY Inside
<1>2. /\ parse[j].open = parse[i].open
      /\ parse[i].mode \in {"value", "first"}
      /\ \A k \in (i + 1)..j : parse[k].mode \in Numbers
  BY DEF IInv, InNumber
<1>3. \A k \in (i + 1)..(j + n) : parse[k].mode \in Numbers
  <2>1. \A k \in (i + 1)..(j + n) : k \in (i + 1)..j \/ k \in (j + 1)..(j + n)
    BY <1>1
  <2> QED
    BY <1>2, <2>1
<1>4. i < j + n /\ j' \in Nat
  BY <1>1
<1>5. parse[j + n].mode = "e" => ~At(j, "+")' /\ ~At(j, "-")'
  BY DEF At
<1>6. InNumber'
  BY <1>1, <1>2, <1>3, <1>4, <1>5 DEF InNumber, PartOf
<1>7. Between' /\ InString'
  BY DEF IInv, Between, InString
<1> QED
  BY <1>4, <1>6, <1>7, Untouched DEF IInv

(* A digit keeps the number in its part. *)
LEMMA DigitKeeps == ASSUME IInv, Digit PROVE IInv'
<1>1. /\ pc = "number" /\ pc' = "number" /\ j < Len(body) /\ j' = j + 1
      /\ body[j + 1] \in Digits
      /\ UNCHANGED <<body, parse, i, stack, ranges, part, rewriter>>
  BY DEF Digit, DigitAt, Skip
<1>2. j \in Nat /\ Len(body) \in Nat /\ part \in {"integer", "fraction", "exponent"}
  BY <1>1, Inside DEF IInv, TypeOK
<1>3. /\ parse[j + 1].open = parse[j].open
      /\ parse[j + 1].mode \in {"zero", "integer", "fraction", "exponent"}
      /\ PartOf(parse[j + 1].mode, part)
  <2>1. CASE j = i
    BY <1>1, <2>1, NumberByte DEF PartOf
  <2>2. CASE j # i
    <3>1. ReadsNumber(parse[j], body[j + 1], parse[j + 1])
      BY <1>1, <2>2, NumberByte
    <3>2. i < j
      BY <1>1, <2>2, Inside
    <3>3. PartOf(parse[j].mode, part)
      BY <1>1, <3>2 DEF IInv, InNumber, PartOf
    <3> QED
      BY <1>1, <1>2, <3>1, <3>3 DEF ReadsNumber, PartOf
  <2> QED
    BY <2>1, <2>2
<1>4. parse[j + 1].mode \in Numbers /\ parse[j + 1].mode # "e"
  BY <1>3 DEF Numbers
<1>5. (j + 1)..(j + 1) = {j + 1} /\ j + 1 <= Len(body)
  BY <1>1, <1>2
<1> QED
  BY <1>1, <1>2, <1>3, <1>4, <1>5, NumberGoesOn

(* A point starts the fraction, for both. *)
LEMMA PointKeeps == ASSUME IInv, Point PROVE IInv'
<1>1. /\ pc = "number" /\ pc' = "number" /\ j < Len(body) /\ j' = j + 1
      /\ body[j + 1] = "." /\ part' = "fraction"
      /\ UNCHANGED <<body, parse, i, stack, ranges, rewriter>>
  BY DEF Point, PointAt, At, Skip
<1>2. j \in Nat /\ Len(body) \in Nat
  BY <1>1, Inside
<1>3. j # i
  BY <1>1, NumberByte DEF Digits
<1>4. parse[j + 1].open = parse[j].open /\ parse[j + 1].mode = "point"
  BY <1>1, <1>3, NumberByte DEF ReadsNumber
<1>5. /\ (j + 1)..(j + 1) = {j + 1} /\ j + 1 <= Len(body)
      /\ parse[j + 1].mode \in Numbers /\ PartOf(parse[j + 1].mode, part')
  BY <1>1, <1>2, <1>4 DEF Numbers, PartOf
<1> QED
  BY <1>1, <1>4, <1>5, NumberGoesOn

(* The sign of an exponent goes with its e. *)
LEMMA ExponentKeeps == ASSUME IInv, Exponent PROVE IInv'
<1> DEFINE n == IF At(j + 1, "+") \/ At(j + 1, "-") THEN 2 ELSE 1
<1>1. /\ pc = "number" /\ pc' = "number" /\ j < Len(body) /\ j' = j + n
      /\ body[j + 1] = "e" /\ part' = "exponent"
      /\ UNCHANGED <<body, parse, i, stack, ranges, rewriter>>
  BY DEF Exponent, ExponentAt, At, Skip
<1>2. IsJson /\ j \in Nat /\ Len(body) \in Nat
  BY <1>1, Inside
<1>3. j # i
  BY <1>1, NumberByte DEF Digits
<1>4. parse[j + 1].open = parse[j].open /\ parse[j + 1].mode = "e"
  BY <1>1, <1>3, NumberByte DEF ReadsNumber
<1>5. (j + 1)..(j + 1) = {j + 1} /\ j + 1 <= Len(body)
  BY <1>1, <1>2
<1>6. CASE At(j + 1, "+") \/ At(j + 1, "-")
  <2> DEFINE p == parse[j + 1]
             b == body[j + 2]
             q == parse[j + 2]
  <2>1. j + 1 < Len(body) /\ b \in {"+", "-"} /\ n = 2
    BY <1>2, <1>6 DEF At
  <2>2. /\ j + 1 \in 0..(Len(body) - 1) /\ j + 1 \in 0..Len(body) /\ j + 2 <= Len(body)
        /\ j + 1 + 1 = j + 2
    BY <1>2, <2>1
  <2>3. p \in State /\ b \in Bytes /\ q \in After(p, b)
    BY <1>2, <2>2, Parsing
  <2>4. p.mode = "e"
    BY <1>4
  <2> HIDE DEF p, b, q
  <2>5. ReadsNumber(p, b, q)
    BY <2>3, <2>4, ReadNumber DEF Numbers
  <2>6. q.open = p.open /\ q.mode = "sign"
    BY <2>1, <2>5 DEF ReadsNumber
  <2>7. (j + 1)..(j + 2) = {j + 1, j + 2}
    BY <1>2
  <2>8. /\ \A k \in (j + 1)..(j + 2) : parse[k].mode \in Numbers
        /\ parse[j + 2].open = parse[j].open
        /\ PartOf(parse[j + 2].mode, part')
        /\ parse[j + 2].mode # "e"
    BY <1>1, <1>4, <2>6, <2>7 DEF p, q, Numbers, PartOf
  <2>9. j' = j + 2
    BY <1>1, <2>1
  <2> HIDE DEF n
  <2> QED
    BY <1>1, <2>2, <2>8, <2>9, NumberGoesOn
<1>7. CASE ~(At(j + 1, "+") \/ At(j + 1, "-"))
  <2>1. j' = j + 1
    BY <1>1, <1>7
  <2>2. parse[j + 1].mode \in Numbers /\ PartOf(parse[j + 1].mode, part')
    BY <1>1, <1>4 DEF Numbers, PartOf
  <2> HIDE DEF n
  <2> QED
    BY <1>1, <1>4, <1>5, <1>7, <2>1, <2>2, NumberGoesOn
<1> QED
  BY <1>6, <1>7

(* A number that ends for scan_number ends for the parser. *)
LEMMA EndNumberKeeps == ASSUME IInv, EndNumber PROVE IInv'
<1> DEFINE p == parse[j]
           b == body[j + 1]
           q == parse[j + 1]
<1>1. /\ pc = "number" /\ j # i /\ Captured(i, j, j)
      /\ ~DigitAt(j) /\ ~PointAt(j) /\ ~ExponentAt(j)
  BY DEF EndNumber, NumberEnds
<1>2. /\ IsJson /\ i \in Nat /\ j \in Nat /\ Len(body) \in Nat /\ i < j /\ j <= Len(body)
      /\ i \in 0..Len(body) /\ j \in 0..Len(body)
  BY <1>1, Inside
<1>3. /\ parse[i].mode \in {"value", "first"} /\ p.open = parse[i].open
      /\ \A k \in (i + 1)..j : parse[k].mode \in Numbers
      /\ PartOf(p.mode, part)
      /\ p.mode = "e" => ~At(j, "+") /\ ~At(j, "-")
      /\ part \in {"integer", "fraction", "exponent"}
  BY <1>1, <1>2 DEF IInv, InNumber, PartOf, TypeOK
<1>4. p.mode \in Numbers
  <2>1. j \in (i + 1)..j
    BY <1>2
  <2> QED
    BY <1>3, <2>1
<1>5. p.mode \in Ended /\ (j < Len(body) => q.mode \notin Numbers)
  <2>1. CASE j = Len(body)
    BY <1>1, <1>2, <2>1, Inside
  <2>2. CASE j < Len(body)
    <3>1. ReadsNumber(p, b, q)
      BY <1>1, <2>2, NumberByte
    <3>2. /\ b \notin Digits
          /\ b = "." => part # "integer"
          /\ b = "e" => part = "exponent"
          /\ b \in {"+", "-"} => p.mode # "e"
      BY <1>1, <1>3, <2>2 DEF DigitAt, PointAt, ExponentAt, At
    <3> HIDE DEF p, b, q
    <3>3. b \notin Digits \cup {".", "e", "+", "-"}
      BY <1>3, <3>1, <3>2 DEF ReadsNumber, PartOf
    <3> QED
      BY <3>1, <3>3 DEF ReadsNumber
  <2> QED
    BY <1>2, <2>1, <2>2
<1>6. ASSUME NEW k \in i..(j - 1)
      PROVE  InLeaf(k) <=> i <= k /\ k < j
  <2>1. k + 1 \in (i + 1)..j
    BY <1>2
  <2> QED
    BY <1>2, <1>3, <2>1 DEF InLeaf
<1>7. parse[i].mode \notin Numbers
  BY <1>3 DEF Numbers
<1>8. i <= i /\ i <= j /\ j <= j
  BY <1>2
<1> QED
  BY <1>1, <1>2, <1>3, <1>4, <1>5, <1>6, <1>7, <1>8, CapturedKeeps

-----------------------------------------------------------------------------
(* The invariant holds before the body is parsed. *)
LEMMA InitIInv == Init => IInv
<1> SUFFICES ASSUME Init PROVE IInv
  OBVIOUS
<1>1. /\ pc = "parse" /\ i = 0 /\ j = 0 /\ part = "integer" /\ stack = <<"TopLevel">>
      /\ ranges = << >> /\ next = 1 /\ last = 0 /\ out = << >>
  BY DEF Init
<1>2. Origin
  BY <1>1 DEF Init, Origin, IsJson
<1>3. body \in Seq(Bytes)
  <2>1. ASSUME NEW d \in Documents
        PROVE  d.body \in Seq(Bytes)
    BY DocumentsAssumption DEF Document
  <2> QED
    BY <2>1, OthersAssumption DEF Init
<1>4. Len(body) \in Nat
  BY <1>3
<1>5. TypeOK
  <2>1. <<"TopLevel">> \in Seq(Contexts) /\ <<"TopLevel">> # << >>
    BY DEF Contexts
  <2>2. 0 \in 0..Len(body) /\ 1 \in 1..(Len(ranges) + 1)
    BY <1>1, <1>4
  <2> QED
    BY <1>1, <1>3, <1>4, <2>1, <2>2 DEF TypeOK
<1>6. AgreesWithParser /\ Phases /\ Between /\ InString /\ InNumber /\ Rewritten
      /\ OnlyLeavesRewritten
  BY <1>1 DEF AgreesWithParser, Phases, Between, InString, InNumber, Rewritten,
              OnlyLeavesRewritten
<1>7. LeavesFound
  <2>1. Len(ranges) = 0 /\ i = 0
    BY <1>1
  <2> QED
    BY <2>1 DEF LeavesFound, Covered
<1> QED
  BY <1>2, <1>5, <1>6, <1>7 DEF IInv

(* A body that parses is scanned from its first byte, at the top level. *)
LEMMA ParseKeeps == ASSUME IInv, Parse PROVE IInv'
<1>1. /\ pc = "parse" /\ IsJson /\ pc' = "scan"
      /\ UNCHANGED <<body, parse, i, j, part, stack, ranges, next, last, out>>
  BY DEF Parse, IsJson, scanner, rewriter
<1>2. i = 0 /\ stack = <<"TopLevel">> /\ parse[0] = Start
  BY <1>1, Parsing DEF IInv, Phases
<1>3. Between'
  <2>1. /\ parse[0].mode = "value" /\ parse[0].open = << >>
    BY <1>2 DEF Start
  <2>2. Len(parse[0].open) = 0 /\ Len(stack) = 1 /\ stack[1] = "TopLevel"
    BY <1>2, <2>1
  <2>3. Mirrors(stack, parse[0])
    BY <2>2 DEF Mirrors
  <2>4. ~Within(parse[0], "object")
    BY <2>1 DEF Within
  <2>5. Settles(stack, parse[0])
    BY <2>1, <2>3, <2>4 DEF Settles, Placed, Expects
  <2> QED
    BY <1>1, <1>2, <2>1, <2>5 DEF Between, Gaps, Numbers
<1>4. TypeOK'
  BY <1>1 DEF IInv, TypeOK
<1>5. Origin' /\ AgreesWithParser' /\ Phases' /\ InString' /\ InNumber'
  BY <1>1 DEF IInv, Origin, IsJson, AgreesWithParser, Phases, InString, InNumber
<1>6. LeavesFound'
  BY <1>1 DEF IInv, LeavesFound, IsJson, InLeaf, Covered
<1>7. Rewritten' /\ OnlyLeavesRewritten'
  BY <1>1 DEF Rewritten, OnlyLeavesRewritten
<1> QED
  BY <1>3, <1>4, <1>5, <1>6, <1>7 DEF IInv

(* At the end of the body every leaf is a range, and none is rewritten. *)
LEMMA EndScanKeeps == ASSUME IInv, EndScan PROVE IInv'
<1>1. /\ pc = "scan" /\ i >= Len(body) /\ pc' = "rewrite"
      /\ UNCHANGED <<body, parse, i, j, part, stack, ranges, next, last, out>>
  BY DEF EndScan, scanner, rewriter
<1>2. IsJson
  BY <1>1, Scanning
<1>3. i = Len(body)
  BY <1>1, <1>2, Parsing DEF IInv, TypeOK
<1>4. next = 1 /\ last = 0 /\ out = << >> /\ Len(out) = 0
  BY <1>1 DEF IInv, Phases
<1>5. TypeOK'
  BY <1>1 DEF IInv, TypeOK
<1>6. Origin' /\ AgreesWithParser' /\ Phases' /\ Between' /\ InString' /\ InNumber'
  BY <1>1, <1>2, <1>3 DEF IInv, Origin, IsJson, AgreesWithParser, Phases, Between,
                          InString, InNumber
<1>7. LeavesFound'
  BY <1>1 DEF IInv, LeavesFound, IsJson, InLeaf, Covered
<1>8. Rewritten' /\ OnlyLeavesRewritten'
  BY <1>1, <1>4 DEF Rewritten, OnlyLeavesRewritten
<1> QED
  BY <1>5, <1>6, <1>7, <1>8 DEF IInv

-----------------------------------------------------------------------------
(* What the rewriter knows of the next range. *)
LEMMA NextRange ==
    ASSUME IInv, pc = "rewrite", next <= Len(ranges)
    PROVE  /\ IsJson /\ Len(body) \in Nat /\ last \in Nat
           /\ next \in 1..Len(ranges)
           /\ ranges[next].start \in Nat /\ ranges[next].end \in Nat
           /\ last <= ranges[next].start
           /\ ranges[next].start <= ranges[next].end
           /\ ranges[next].end <= Len(body)
<1>1. IsJson
  BY Scanning
<1>2. next \in 1..Len(ranges) /\ next \in Nat /\ Len(body) \in Nat /\ last \in Nat
  BY <1>1, Parsing, RangesBehind DEF IInv, TypeOK
<1>3. /\ ranges[next].start \in Nat /\ ranges[next].end \in Nat
      /\ ranges[next].start <= ranges[next].end
      /\ ranges[next].end <= i
  BY <1>1, <1>2, RangesBehind
<1>4. i = Len(body)
  BY DEF IInv, Phases
<1>5. last <= ranges[next].start
  <2>1. last = IF next = 1 THEN 0 ELSE ranges[next - 1].end
    BY DEF IInv, Rewritten
  <2>2. CASE next = 1
    BY <1>3, <2>1, <2>2
  <2>3. CASE next # 1
    <3>1. next - 1 \in 1..Len(ranges) /\ next - 1 < next
      BY <1>2, <2>3
    <3>2. ranges[next - 1].end < ranges[next].start
      BY <1>1, <1>2, <3>1 DEF IInv, LeavesFound
    <3> QED
      BY <1>2, <1>3, <2>1, <2>3, <3>2
  <2> QED
    BY <2>2, <2>3
<1> QED
  BY <1>1, <1>2, <1>3, <1>4, <1>5

(* A piece of the body. *)
LEMMA Slicing ==
    ASSUME body \in Seq(Bytes), NEW from \in Nat, NEW to \in Nat,
           from <= to, to <= Len(body)
    PROVE  /\ Slice(from, to) \in Seq(Bytes)
           /\ Len(Slice(from, to)) = to - from
           /\ \A k \in 1..(to - from) : Slice(from, to)[k] = body[from + k]
<1>1. \A k \in (from + 1)..to : body[k] \in Bytes
  BY ElementOfSeq
<1>2. from + 1 \in Int /\ to \in Int
  OBVIOUS
<1>3. /\ SubSeq(body, from + 1, to) \in Seq(Bytes)
      /\ Len(SubSeq(body, from + 1, to)) =
           IF from + 1 <= to THEN to - (from + 1) + 1 ELSE 0
      /\ \A k \in 1..(to - (from + 1) + 1) :
           SubSeq(body, from + 1, to)[k] = body[from + 1 + k - 1]
  BY <1>1, <1>2, SubSeqProperties
<1> DEFINE s == SubSeq(body, from + 1, to)
<1> HIDE DEF s
<1>4. Len(s) = to - from /\ \A k \in 1..(to - from) : s[k] = body[from + k]
  BY <1>3 DEF s
<1> QED
  BY <1>3, <1>4 DEF s, Slice

(* One range rewritten: the bytes before it are copied, and it keeps its *)
(* length.                                                               *)
LEMMA RewriteKeeps == ASSUME IInv, Rewrite PROVE IInv'
<1> DEFINE r == ranges[next]
           copied == Slice(last, r.start)
<1>1. PICK text \in Transform(Slice(r.start, r.end)) :
        out' = out \o copied \o Fitted(text, r)
  BY DEF Rewrite
<1>2. /\ pc = "rewrite" /\ pc' = "rewrite" /\ next <= Len(ranges)
      /\ next' = next + 1 /\ last' = r.end
      /\ UNCHANGED <<body, parse, i, j, part, stack, ranges>>
  BY DEF Rewrite, scanner
<1>3. /\ IsJson /\ Len(body) \in Nat /\ last \in Nat
      /\ next \in 1..Len(ranges) /\ Len(ranges) \in Nat
      /\ r.start \in Nat /\ r.end \in Nat
      /\ last <= r.start /\ r.start <= r.end /\ r.end <= Len(body)
  BY <1>2, NextRange, RangesBehind
<1>4. body \in Seq(Bytes) /\ out \in Seq(Bytes) /\ Len(out) = last
  BY <1>2 DEF IInv, TypeOK, Rewritten
<1>5. /\ copied \in Seq(Bytes) /\ Len(copied) = r.start - last
      /\ \A k \in 1..(r.start - last) : copied[k] = body[last + k]
  <2> HIDE DEF r
  <2>1. r.start <= Len(body)
    BY <1>3
  <2> QED
    BY <1>3, <1>4, <2>1, Slicing
<1>6. Slice(r.start, r.end) \in Seq(Bytes) /\ Len(Slice(r.start, r.end)) = r.end - r.start
  BY <1>3, <1>4, Slicing
<1>7. text \in Seq(Bytes)
  <2>1. PICK d \in Documents : body = d.body
    BY <1>3 DEF IInv, Origin
  <2>2. r.start + 1 \in 1..(Len(d.body) + 1) /\ r.end \in 0..Len(d.body)
    BY <1>3, <2>1
  <2>3. Transform(SubSeq(d.body, r.start + 1, r.end)) \subseteq Seq(Bytes)
    BY <2>2, TransformAssumption
  <2> QED
    BY <1>1, <2>1, <2>3 DEF Slice
<1> DEFINE fitted == Fitted(text, r)
<1>8. fitted \in Seq(Bytes) /\ Len(fitted) = r.end - r.start
  BY <1>6, <1>7 DEF Fitted
<1> HIDE DEF copied, fitted, r
<1>9. /\ out' \in Seq(Bytes) /\ Len(out') = r.end
      /\ \A k \in 1..r.start : out'[k] = IF k <= last THEN out[k] ELSE body[k]
  <2>1. /\ out \o copied \in Seq(Bytes) /\ Len(out \o copied) = r.start
        /\ \A k \in 1..r.start : (out \o copied)[k] =
             IF k <= last THEN out[k] ELSE copied[k - last]
    <3>1. /\ out \o copied \in Seq(Bytes)
          /\ Len(out \o copied) = Len(out) + Len(copied)
          /\ \A k \in 1..(Len(out) + Len(copied)) : (out \o copied)[k] =
               IF k <= Len(out) THEN out[k] ELSE copied[k - Len(out)]
      BY <1>4, <1>5, ConcatProperties
    <3>2. Len(out) = last /\ Len(out) + Len(copied) = r.start
      BY <1>3, <1>4, <1>5
    <3> QED
      BY <3>1, <3>2
  <2> DEFINE front == out \o copied
  <2> HIDE DEF front
  <2>2. /\ front \o fitted \in Seq(Bytes) /\ Len(front \o fitted) = r.end
        /\ \A k \in 1..r.start : (front \o fitted)[k] = front[k]
    <3>1. front \in Seq(Bytes) /\ Len(front) = r.start
      BY <2>1 DEF front
    <3>2. /\ front \o fitted \in Seq(Bytes)
          /\ Len(front \o fitted) = Len(front) + Len(fitted)
          /\ \A k \in 1..(Len(front) + Len(fitted)) : (front \o fitted)[k] =
               IF k <= Len(front) THEN front[k] ELSE fitted[k - Len(front)]
      BY <1>8, <3>1, ConcatProperties
    <3>3. Len(front) + Len(fitted) = r.end /\ r.start <= r.end
      BY <1>3, <1>8, <3>1
    <3>4. \A k \in 1..r.start : k \in 1..(Len(front) + Len(fitted)) /\ k <= Len(front)
      BY <1>3, <3>1, <3>3
    <3> QED
      BY <3>2, <3>3, <3>4
  <2>3. out' = front \o fitted
    BY <1>1 DEF front, copied, fitted, r
  <2>4. ASSUME NEW k \in 1..r.start
        PROVE  out'[k] = IF k <= last THEN out[k] ELSE body[k]
    <3>1. out'[k] = IF k <= last THEN out[k] ELSE copied[k - last]
      BY <2>1, <2>2, <2>3 DEF front
    <3>2. CASE k > last
      <4>1. k - last \in 1..(r.start - last) /\ last + (k - last) = k
        BY <1>3, <3>2
      <4> QED
        BY <1>3, <1>5, <3>1, <3>2, <4>1
    <3>3. CASE k <= last
      BY <3>1, <3>3
    <3> QED
      BY <1>3, <3>2, <3>3
  <2> QED
    BY <2>2, <2>3, <2>4
<1>10. ASSUME NEW k \in 0..(r.end - 1), ~InLeaf(k)
       PROVE  out'[k + 1] = body[k + 1]
  <2>1. k < r.start
    <3>1. i = Len(body)
      BY <1>2 DEF IInv, Phases
    <3>2. r.start <= k => Covered(k)
      BY <1>3 DEF Covered, r
    <3> QED
      BY <1>3, <1>10, <3>1, <3>2 DEF IInv, LeavesFound
  <2>2. CASE k < last
    BY <1>2, <1>3, <1>9, <1>10, <2>1, <2>2, SMTT(30) DEF IInv, Rewritten
  <2>3. CASE k >= last
    BY <1>3, <1>9, <2>1, <2>3
  <2> QED
    BY <1>3, <2>2, <2>3
<1>11. Rewritten'
  <2>1. next' # 1 /\ next' - 1 = next
    BY <1>2, <1>3
  <2> QED
    BY <1>2, <1>9, <1>10, <2>1 DEF Rewritten, InLeaf, r
<1>12. TypeOK'
  <2>1. r.end \in 0..Len(body) /\ next + 1 \in 1..(Len(ranges) + 1)
    BY <1>3
  <2> QED
    BY <1>2, <1>9, <2>1 DEF IInv, TypeOK
<1>13. /\ Origin' /\ AgreesWithParser' /\ Phases' /\ Between' /\ InString' /\ InNumber'
       /\ OnlyLeavesRewritten'
  BY <1>2, <1>3 DEF IInv, Origin, IsJson, AgreesWithParser, Phases, Between, InString,
                    InNumber, OnlyLeavesRewritten
<1>14. LeavesFound'
  BY <1>2 DEF IInv, LeavesFound, IsJson, InLeaf, Covered
<1> QED
  BY <1>11, <1>12, <1>13, <1>14 DEF IInv

(* The rest of the body is copied behind the last range. *)
LEMMA FinishKeeps == ASSUME IInv, Finish PROVE IInv'
<1> DEFINE rest == Slice(last, Len(body))
<1>1. /\ pc = "rewrite" /\ pc' = "done" /\ out' = out \o rest
      /\ UNCHANGED <<body, parse, i, j, part, stack, ranges, next, last>>
  BY DEF Finish, scanner
<1>2. IsJson /\ Len(body) \in Nat /\ last \in Nat /\ last <= Len(body)
  BY <1>1, Scanning, Parsing DEF IInv, TypeOK
<1>3. body \in Seq(Bytes) /\ out \in Seq(Bytes) /\ Len(out) = last
  BY <1>1 DEF IInv, TypeOK, Rewritten
<1>4. /\ rest \in Seq(Bytes) /\ Len(rest) = Len(body) - last
      /\ \A k \in 1..(Len(body) - last) : rest[k] = body[last + k]
  <2>1. Len(body) <= Len(body)
    BY <1>2
  <2> QED
    BY <1>2, <1>3, <2>1, Slicing
<1> HIDE DEF rest
<1>5. /\ out \o rest \in Seq(Bytes)
      /\ Len(out \o rest) = Len(out) + Len(rest)
      /\ \A k \in 1..(Len(out) + Len(rest)) : (out \o rest)[k] =
           IF k <= Len(out) THEN out[k] ELSE rest[k - Len(out)]
  BY <1>3, <1>4, ConcatProperties
<1>6. Len(out) + Len(rest) = Len(body)
  BY <1>2, <1>3, <1>4
<1>7. ASSUME NEW k \in 0..(Len(body) - 1), ~InLeaf(k)
      PROVE  out'[k + 1] = body[k + 1]
  <2>1. k + 1 \in 1..(Len(out) + Len(rest))
    BY <1>2, <1>6
  <2>2. CASE k < last
    <3>1. out[k + 1] = body[k + 1]
      BY <1>1, <1>2, <1>7, <2>2 DEF IInv, Rewritten
    <3> QED
      BY <1>1, <1>2, <1>3, <1>5, <2>1, <2>2, <3>1
  <2>3. CASE k >= last
    <3>1. k + 1 - last \in 1..(Len(body) - last) /\ last + (k + 1 - last) = k + 1
      BY <1>2, <2>3
    <3>2. rest[k + 1 - last] = body[k + 1]
      BY <1>4, <3>1
    <3>3. ~(k + 1 <= Len(out))
      BY <1>2, <1>3, <2>3
    <3> QED
      BY <1>1, <1>3, <1>5, <2>1, <3>2, <3>3, SMTT(30)
  <2> QED
    BY <1>2, <2>2, <2>3
<1>8. OnlyLeavesRewritten'
  BY <1>1, <1>5, <1>6, <1>7 DEF OnlyLeavesRewritten, InLeaf
<1>9. TypeOK'
  BY <1>1, <1>5 DEF IInv, TypeOK
<1>10. /\ Origin' /\ AgreesWithParser' /\ Phases' /\ Between' /\ InString' /\ InNumber'
       /\ Rewritten'
  BY <1>1, <1>2 DEF IInv, Origin, IsJson, AgreesWithParser, Phases, Between, InString,
                    InNumber, Rewritten
<1>11. LeavesFound'
  BY <1>1 DEF IInv, LeavesFound, IsJson, InLeaf, Covered
<1> QED
  BY <1>8, <1>9, <1>10, <1>11 DEF IInv

-----------------------------------------------------------------------------
(* No byte of a body that is JSON is out of place for the scanner. *)
LEMMA NeverMisplaced == ASSUME IInv, pc = "scan" PROVE ~Misplaced
<1> SUFFICES ASSUME Misplaced PROVE FALSE
  OBVIOUS
<1> DEFINE p == parse[i]
           b == body[i + 1]
           q == parse[i + 1]
<1>1. i < Len(body)
  BY DEF Misplaced
<1>2. /\ p \in State /\ stack \in Seq(Contexts) /\ Settles(stack, p)
      /\ p.mode \in Numbers => q.mode \notin Numbers
      /\ p.mode \in Gaps \cup Ended
  BY <1>1, Looking
<1>3. ReadsBetween(p, b, q) /\ ReadsFirst(p, b, q)
  BY <1>1, Byte
<1>4. \/ b = "}" /\ ctx \notin {"ObjectExpectingKeyOrEnd", "ObjectExpectingValue"}
      \/ b = "]" /\ ctx # "ArrayExpectingValueOrEnd"
      \/ b = "," /\ ctx \notin {"ObjectExpectingKeyOrEnd", "ArrayExpectingValueOrEnd"}
      \/ b = ":" /\ ctx # "ObjectExpectingKeyOrEnd"
      \/ b \in {"backslash", "+", ".", "e", "n", "z"}
  BY DEF Misplaced, At
<1> HIDE DEF p, b, q
<1>5. /\ Within(p, "object") =>
           /\ ctx \in {"ObjectExpectingKeyOrEnd", "ObjectExpectingValue"}
           /\ ctx = "ObjectExpectingValue" <=> p.mode = "value"
      /\ Within(p, "array") => ctx = "ArrayExpectingValueOrEnd"
  BY <1>2, Innermosts DEF Settles, Expects, ctx
<1>6. p.mode \in Ended \cup {"colon"} => p.mode # "value"
  BY DEF Ended
<1>7. CASE b \in {"}", "]"}
  BY <1>3, <1>4, <1>5, <1>7 DEF ReadsBetween
<1>8. CASE b = ","
  BY <1>3, <1>4, <1>5, <1>6, <1>8 DEF ReadsBetween
<1>9. CASE b = ":"
  <2>1. p.mode = "colon"
    BY <1>3, <1>9 DEF ReadsBetween
  <2>2. Within(p, "object")
    BY <1>2, <2>1 DEF Settles, Placed
  <2> QED
    BY <1>4, <1>5, <1>9, <2>1, <2>2
<1>10. CASE b \in {"backslash", "+", ".", "e", "n", "z"}
  BY <1>2, <1>3, <1>10 DEF ReadsFirst
<1> QED
  BY <1>4, <1>7, <1>8, <1>9, <1>10

(* The walker gives up on a body that is not JSON, and on no other. *)
LEMMA GiveUpKeeps == ASSUME IInv, GiveUp PROVE IInv'
<1>1. /\ GivesUp /\ pc' = "plaintext"
      /\ UNCHANGED <<body, parse, i, j, part, stack, ranges, next, last, out>>
  BY DEF GiveUp, scanner, rewriter
<1>2. ASSUME IsJson
      PROVE  FALSE
  <2>1. CASE pc = "parse" /\ parse = << >>
    BY <1>2, <2>1 DEF IsJson
  <2>2. CASE pc = "scan" /\ Misplaced
    BY <2>2, NeverMisplaced
  <2>3. CASE pc = "string" /\ j >= Len(body)
    <3>1. j = Len(body) /\ parse[j].mode \in Ended
      BY <2>3, Inside
    <3>2. parse[j].mode \in {"string", "in name"}
      BY <2>3 DEF IInv, InString
    <3> QED
      BY <3>1, <3>2 DEF Ended
  <2>4. CASE NumberEnds /\ j = i
    BY <2>4 DEF NumberEnds, IInv, InNumber
  <2>5. CASE pc = "rewrite" /\ next <= Len(ranges) /\ BadRange(ranges[next])
    BY <2>5, NextRange DEF BadRange
  <2> QED
    BY <1>1, <2>1, <2>2, <2>3, <2>4, <2>5 DEF GivesUp
<1>3. TypeOK'
  BY <1>1 DEF IInv, TypeOK
<1>4. /\ Origin' /\ AgreesWithParser' /\ Phases' /\ Between' /\ InString' /\ InNumber'
      /\ LeavesFound' /\ Rewritten' /\ OnlyLeavesRewritten'
  BY <1>1, <1>2 DEF IInv, Origin, IsJson, AgreesWithParser, Phases, Between, InString,
                    InNumber, LeavesFound, Rewritten, OnlyLeavesRewritten
<1> QED
  BY <1>3, <1>4 DEF IInv

(* A step that changes nothing breaks nothing. *)
LEMMA StutterKeeps == ASSUME IInv, UNCHANGED vars PROVE IInv'
<1>1. UNCHANGED <<body, parse, pc, i, j, part, stack, ranges, next, last, out>>
  BY DEF vars
<1>2. TypeOK' /\ Origin' /\ AgreesWithParser' /\ Phases'
  BY <1>1 DEF IInv, TypeOK, Origin, AgreesWithParser, Phases, IsJson
<1>3. Between' /\ InString' /\ InNumber'
  BY <1>1 DEF IInv, Between, InString, InNumber, ctx, At, DigitAt
<1>4. LeavesFound' /\ Rewritten' /\ OnlyLeavesRewritten'
  BY <1>1 DEF IInv, LeavesFound, Rewritten, OnlyLeavesRewritten, InLeaf, Covered, IsJson
<1> QED
  BY <1>2, <1>3, <1>4 DEF IInv

-----------------------------------------------------------------------------
(* The invariant holds of every run, for every document. *)
THEOREM Invariance == Spec => []IInv
<1>1. ASSUME IInv, Scan PROVE IInv'
  BY <1>1, SkipSpaceKeeps, OpenKeeps, CloseKeeps, CommaKeeps, ColonKeeps, LiteralKeeps,
     StartStringKeeps, EscapeKeeps, CharacterKeeps, EndKeyKeeps, EndStringKeeps,
     StartNumberKeeps, DigitKeeps, PointKeeps, ExponentKeeps, EndNumberKeeps, EndScanKeeps
     DEF Scan
<1>2. IInv /\ [Next]_vars => IInv'
  BY <1>1, ParseKeeps, RewriteKeeps, FinishKeeps, GiveUpKeeps, StutterKeeps DEF Next
<1> QED
  BY <1>2, InitIInv, PTL DEF Spec

(* The walker's variables keep their types whatever the body. *)
THEOREM WalkTyping == Spec => []TypeOK
<1>1. IInv => TypeOK
  BY DEF IInv
<1> QED
  BY <1>1, Invariance, PTL

(* The walker gives up on a body exactly when the parser does: no JSON body *)
(* is masked as plain text.                                                 *)
THEOREM JsonIsNeverPlaintext == Spec => []AgreesWithParser
<1>1. IInv => AgreesWithParser
  BY DEF IInv
<1> QED
  BY <1>1, Invariance, PTL

(* The scanner's contexts are the parser's open containers wherever the *)
(* main loop looks at a byte.                                           *)
THEOREM ContextsFollow == Spec => []ContextsAgree
<1>1. IInv => ContextsAgree
  BY DEF IInv, Between, Settles, Mirrors, Expects, ContextsAgree, ctx
<1> QED
  BY <1>1, Invariance, PTL

(* The ranges are the string values and numbers of the document: all of *)
(* them, and nothing else.                                              *)
THEOREM LeavesAreFound == Spec => []RangesAreLeaves
<1>1. IInv => RangesAreLeaves
  BY DEF IInv, Phases, LeavesFound, Covered, RangesAreLeaves
<1> QED
  BY <1>1, Invariance, PTL

(* The rewritten body has the length of the body, and its bytes outside the *)
(* leaves.                                                                  *)
THEOREM OnlyLeavesChange == Spec => []OnlyLeavesRewritten
<1>1. IInv => OnlyLeavesRewritten
  BY DEF IInv
<1> QED
  BY <1>1, Invariance, PTL
=============================================================================
