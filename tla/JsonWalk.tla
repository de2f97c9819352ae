-------------------------------- MODULE JsonWalk --------------------------------
(***************************************************************************)
(* The JSON walker of src/json_walk.rs.  The body is first handed to       *)
(* serde_json, which only says whether it is JSON; then a scanner with a   *)
(* stack of its own, which is no JSON parser, finds the values that are    *)
(* strings or numbers; then each of them is rewritten where it stands.     *)
(* Offsets count the bytes before a place, as in the code.                 *)
(***************************************************************************)
EXTENDS JsonGrammar, FiniteSets, Functions

CONSTANTS
    Documents,   \* bodies that are JSON, each with the run of the parser
    Others,      \* bodies that serde_json refuses, those nested too deep too
    Transform(_) \* what mask_request or mask_response may make of a text

ASSUME DocumentsAssumption == \A d \in Documents : Document(d.body, d.parse)

ASSUME OthersAssumption == Others \subseteq Seq(Bytes)

ASSUME TransformAssumption ==
    \A d \in Documents :
        \A from \in 1..(Len(d.body) + 1), to \in 0..Len(d.body) :
            Transform(SubSeq(d.body, from, to)) \subseteq Seq(Bytes)

VARIABLES
    body,   \* the bytes
    parse,  \* the run of the parser if the body is JSON, << >> if it is not
    pc,     \* "parse", "scan", "string", "number", "rewrite", "done", "plaintext"
    i,      \* the scanner has done the bytes before this one
    j,      \* the same, of scan_string and scan_number
    part,   \* the loop scan_number is in: "integer", "fraction", "exponent"
    stack,  \* the contexts, the innermost last
    ranges, \* the values found, as offsets
    next,   \* the next of them to rewrite
    last,   \* the body is copied or rewritten up to here
    out     \* the new body

scanner == <<i, j, part, stack, ranges>>
rewriter == <<next, last, out>>
vars == <<body, parse, pc, i, j, part, stack, ranges, next, last, out>>

Contexts == {"TopLevel", "ObjectExpectingKeyOrEnd", "ObjectExpectingValue",
             "ArrayExpectingValueOrEnd"}

Init ==
    /\ \/ \E d \in Documents : body = d.body /\ parse = d.parse
       \/ body \in Others /\ parse = << >>
    /\ pc = "parse"
    /\ i = 0
    /\ j = 0
    /\ part = "integer"
    /\ stack = <<"TopLevel">>
    /\ ranges = << >>
    /\ next = 1
    /\ last = 0
    /\ out = << >>

(* serde_json accepts the body. *)
Parse ==
    /\ pc = "parse"
    /\ parse # << >>
    /\ pc' = "scan"
    /\ UNCHANGED <<body, parse, scanner, rewriter>>

(***************************************************************************)
(* collect_value_ranges, by the byte it looks at.                          *)
(***************************************************************************)
At(k, b) == k < Len(body) /\ body[k + 1] = b

DigitAt(k) == k < Len(body) /\ body[k + 1] \in Digits

ctx == stack[Len(stack)]

Outer == SubSeq(stack, 1, Len(stack) - 1)

(* Variant: the end of an object or array is no value to what is around it. *)
AdvanceAfterValueFlat(s) == s

(* After a value an object expects a key, or its end. *)
AdvanceAfterValue(s) ==
    IF s # << >> /\ s[Len(s)] = "ObjectExpectingValue"
    THEN [s EXCEPT ![Len(s)] = "ObjectExpectingKeyOrEnd"]
    ELSE s

Goto(k) == i' = k /\ j' = k

(* An arm that looks at one byte, b, and leaves the contexts s. *)
Arm(b, s) ==
    /\ pc = "scan"
    /\ At(i, b)
    /\ stack' = s
    /\ Goto(i + 1)
    /\ UNCHANGED <<body, parse, pc, part, ranges, rewriter>>

(* Variant: the loop goes on without having gone past the space. *)
SkipSpaceStuck ==
    /\ pc = "scan"
    /\ At(i, "space")
    /\ j' = i + 1
    /\ UNCHANGED <<body, parse, pc, i, part, stack, ranges, rewriter>>

SkipSpace == Arm("space", stack)

OpenObject == Arm("{", Append(stack, "ObjectExpectingKeyOrEnd"))

CloseObject ==
    /\ ctx \in {"ObjectExpectingKeyOrEnd", "ObjectExpectingValue"}
    /\ Arm("}", AdvanceAfterValue(Outer))

OpenArray == Arm("[", Append(stack, "ArrayExpectingValueOrEnd"))

CloseArray ==
    /\ ctx = "ArrayExpectingValueOrEnd"
    /\ Arm("]", AdvanceAfterValue(Outer))

Comma ==
    /\ ctx \in {"ObjectExpectingKeyOrEnd", "ArrayExpectingValueOrEnd"}
    /\ Arm(",", stack)

Colon ==
    /\ ctx = "ObjectExpectingKeyOrEnd"
    /\ Arm(":", [stack EXCEPT ![Len(stack)] = "ObjectExpectingValue"])

(* scan_literal: the one byte "literal" stands for those of true, false or *)
(* null.  An n that begins none of them is Misplaced.                      *)
Literal == Arm("literal", AdvanceAfterValue(stack))

(* A value that ends before offset to; the loop goes on at offset on. *)
Captured(from, to, on) ==
    /\ pc' = "scan"
    /\ ranges' = Append(ranges, [start |-> from, end |-> to])
    /\ stack' = AdvanceAfterValue(stack)
    /\ Goto(on)
    /\ UNCHANGED <<body, parse, part, rewriter>>

(* scan_string and scan_number go on. *)
Skip(n) ==
    /\ j' = j + n
    /\ UNCHANGED <<body, parse, pc, i, stack, ranges, rewriter>>

(***************************************************************************)
(* scan_string.                                                            *)
(***************************************************************************)
StartString ==
    /\ pc = "scan"
    /\ At(i, "quote")
    /\ pc' = "string"
    /\ j' = i + 1
    /\ UNCHANGED <<body, parse, i, part, stack, ranges, rewriter>>

(* Variant: a backslash is a byte like any other. *)
EscapeOne == pc = "string" /\ At(j, "backslash") /\ Skip(1) /\ UNCHANGED part

(* A backslash is skipped with the byte behind it. *)
Escape == pc = "string" /\ At(j, "backslash") /\ Skip(2) /\ UNCHANGED part

Character ==
    /\ pc = "string"
    /\ j < Len(body)
    /\ body[j + 1] \notin {"backslash", "quote"}
    /\ Skip(1)
    /\ UNCHANGED part

(* A string is a key where one is expected ... *)
EndKey ==
    /\ pc = "string"
    /\ At(j, "quote")
    /\ ctx = "ObjectExpectingKeyOrEnd"
    /\ pc' = "scan"
    /\ Goto(j + 1)
    /\ UNCHANGED <<body, parse, part, stack, ranges, rewriter>>

(* ... and its content is a range anywhere else. *)
EndString ==
    /\ pc = "string"
    /\ At(j, "quote")
    /\ ctx # "ObjectExpectingKeyOrEnd"
    /\ Captured(i + 1, j, j + 1)

(***************************************************************************)
(* scan_number: a sign, digits, then a point and digits, then an exponent, *)
(* none of which has to be there.                                          *)
(***************************************************************************)
StartNumber ==
    /\ pc = "scan"
    /\ At(i, "-") \/ DigitAt(i)
    /\ pc' = "number"
    /\ j' = IF At(i, "-") THEN i + 1 ELSE i
    /\ part' = "integer"
    /\ UNCHANGED <<body, parse, i, stack, ranges, rewriter>>

Digit == pc = "number" /\ DigitAt(j) /\ Skip(1) /\ UNCHANGED part

PointAt(k) == part = "integer" /\ At(k, ".")

ExponentAt(k) == part \in {"integer", "fraction"} /\ At(k, "e")

Point == pc = "number" /\ PointAt(j) /\ Skip(1) /\ part' = "fraction"

(* Variant: the sign of an exponent is left to the main loop. *)
ExponentUnsigned == pc = "number" /\ ExponentAt(j) /\ Skip(1) /\ part' = "exponent"

Exponent ==
    /\ pc = "number"
    /\ ExponentAt(j)
    /\ Skip(IF At(j + 1, "+") \/ At(j + 1, "-") THEN 2 ELSE 1)
    /\ part' = "exponent"

NumberEnds == pc = "number" /\ ~DigitAt(j) /\ ~PointAt(j) /\ ~ExponentAt(j)

(* Variant: the end of a number is the offset of the byte behind it. *)
EndNumberBeyond == NumberEnds /\ j # i /\ Captured(i, j + 1, j)

EndNumber == NumberEnds /\ j # i /\ Captured(i, j, j)

EndScan ==
    /\ pc = "scan"
    /\ i >= Len(body)
    /\ pc' = "rewrite"
    /\ UNCHANGED <<body, parse, scanner, rewriter>>

(***************************************************************************)
(* transform_value_ranges, once the ranges are known.  A string that is    *)
(* JSON is UTF-8, so the branch for a value that is not is never taken;    *)
(* with no ranges at all Finish copies the body.                           *)
(***************************************************************************)
Slice(from, to) == SubSeq(body, from + 1, to)

BadRange(r) == r.start < last \/ r.end > Len(body) \/ r.start > r.end

(* Variant: a text of another length is put in place of the value. *)
FittedAny(text, r) == text

(* A text of another length is not put in place of the value. *)
Fitted(text, r) ==
    IF Len(text) = r.end - r.start THEN text ELSE Slice(r.start, r.end)

Rewrite ==
    /\ pc = "rewrite"
    /\ next <= Len(ranges)
    /\ LET r == ranges[next]
       IN  /\ ~BadRange(r)
           /\ \E text \in Transform(Slice(r.start, r.end)) :
                out' = out \o Slice(last, r.start) \o Fitted(text, r)
           /\ last' = r.end
    /\ next' = next + 1
    /\ UNCHANGED <<body, parse, pc, scanner>>

Finish ==
    /\ pc = "rewrite"
    /\ next > Len(ranges)
    /\ pc' = "done"
    /\ out' = out \o Slice(last, Len(body))
    /\ UNCHANGED <<body, parse, scanner, next, last>>

(***************************************************************************)
(* Every way to give up; the caller then masks the body as plain text.     *)
(***************************************************************************)
(* The byte at i has no place where it is: no arm of the match takes it. *)
Misplaced ==
    /\ i < Len(body)
    /\ \/ At(i, "}") /\ ctx \notin {"ObjectExpectingKeyOrEnd", "ObjectExpectingValue"}
       \/ At(i, "]") /\ ctx # "ArrayExpectingValueOrEnd"
       \/ At(i, ",") /\ ctx \notin {"ObjectExpectingKeyOrEnd", "ArrayExpectingValueOrEnd"}
       \/ At(i, ":") /\ ctx # "ObjectExpectingKeyOrEnd"
       \/ body[i + 1] \in {"backslash", "+", ".", "e", "n", "z"}

GivesUp ==
    \/ pc = "parse" /\ parse = << >>
    \/ pc = "scan" /\ Misplaced
    \/ pc = "string" /\ j >= Len(body)
    \/ NumberEnds /\ j = i
    \/ pc = "rewrite" /\ next <= Len(ranges) /\ BadRange(ranges[next])

GiveUp ==
    /\ GivesUp
    /\ pc' = "plaintext"
    /\ UNCHANGED <<body, parse, scanner, rewriter>>

Scan ==
    \/ SkipSpace
    \/ OpenObject
    \/ CloseObject
    \/ OpenArray
    \/ CloseArray
    \/ Comma
    \/ Colon
    \/ Literal
    \/ StartString
    \/ Escape
    \/ Character
    \/ EndKey
    \/ EndString
    \/ StartNumber
    \/ Digit
    \/ Point
    \/ Exponent
    \/ EndNumber
    \/ EndScan

Next ==
    \/ Parse
    \/ Scan
    \/ Rewrite
    \/ Finish
    \/ GiveUp

Spec == Init /\ [][Next]_vars

(* The walker is one synchronous call. *)
FairSpec == Spec /\ WF_vars(Next)

TypeOK ==
    /\ body \in Seq(Bytes)
    /\ pc \in {"parse", "scan", "string", "number", "rewrite", "done", "plaintext"}
    /\ i \in 0..Len(body)
    /\ j \in Nat
    /\ part \in {"integer", "fraction", "exponent"}
    /\ stack \in Seq(Contexts)
    /\ stack # << >>
    /\ ranges \in Seq([start : 0..Len(body), end : 0..Len(body)])
    /\ next \in 1..(Len(ranges) + 1)
    /\ last \in 0..Len(body)
    /\ out \in Seq(Bytes)

(***************************************************************************)
(* Safety.                                                                 *)
(***************************************************************************)
IsJson == parse # << >>

(* The scanner accepts whatever serde_json accepted: a JSON body is never  *)
(* masked as plain text, keys and syntax included, because the walker lost *)
(* its way in it (json_walk.rs:28-48, 86-171).                             *)
AgreesWithParser == IsJson => pc # "plaintext"

(* What a context stands for in the parser's terms. *)
Container(c) == IF c = "ArrayExpectingValueOrEnd" THEN "array" ELSE "object"

(* Whenever the main loop looks at a byte, the contexts are the containers *)
(* that are open in the parser, and the innermost says whether a string is *)
(* a key now: an object does not expect a value unless its colon has been  *)
(* read and its value has not (json_walk.rs:98-166, 173-185).              *)
ContextsAgree ==
    IsJson /\ pc = "scan" =>
        LET p == parse[i]
        IN  /\ Len(stack) = Len(p.open) + 1
            /\ stack[1] = "TopLevel"
            /\ \A k \in 1..Len(p.open) : Container(stack[k + 1]) = p.open[k]
            /\ Within(p, "object") =>
                 (ctx = "ObjectExpectingValue" <=> p.mode = "value")

(* The byte behind offset k belongs to a value that is a string or number. *)
InLeaf(k) ==
    \/ parse[k].mode \in InText /\ parse[k + 1].mode \in InText
    \/ parse[k + 1].mode \in Numbers

(* The ranges are the contents of the string values and the numbers, all   *)
(* of them and whole, in order, and nothing of a key (json_walk.rs:83-85). *)
RangesAreLeaves ==
    IsJson /\ pc \in {"rewrite", "done"} =>
        /\ \A k \in 0..(Len(body) - 1) :
             InLeaf(k) <=> \E n \in 1..Len(ranges) :
                              ranges[n].start <= k /\ k < ranges[n].end
        /\ \A m, n \in 1..Len(ranges) : m < n => ranges[m].end < ranges[n].start

(* Whatever the masker makes of the values, the body keeps its length, its *)
(* keys and its syntax byte for byte (json_walk.rs:36-38, 52-80).          *)
OnlyLeavesRewritten ==
    IsJson /\ pc = "done" =>
        /\ Len(out) = Len(body)
        /\ \A k \in 0..(Len(body) - 1) : ~InLeaf(k) => out[k + 1] = body[k + 1]

(* The scanner gets through any body, JSON or not. *)
Terminates == <>(pc \in {"done", "plaintext"})

(* lib.rs:246 says that masks "can't collide with JSON syntax", and        *)
(* home.md:275-276 that numbers are "reparsed back to numbers" once        *)
(* masked, so a masked JSON body should be JSON.  Digits and letters are   *)
(* redrawn where they stand, the first digit of a number and the letter of *)
(* an escape among them (json_walk.rs:158-163, 204-208, mask.rs:157-169).  *)
MaskedBodyIsJson == IsJson /\ pc = "done" => Parses(out)
=============================================================================
