------------------------------ MODULE JsonGrammar ------------------------------
(***************************************************************************)
(* The JSON that serde_json accepts, as the automaton with a stack of RFC  *)
(* 8259: the reference against which the scanner of src/json_walk.rs is    *)
(* judged.  A body is a sequence of bytes, and a byte is one of a few that *)
(* the two tell apart: "0" and "9" stand for the digits, "n" for a letter  *)
(* that makes an escape behind a backslash, "z" for one that does not,     *)
(* "literal" for the bytes of true, false or null.  Escapes of more than   *)
(* two bytes are left out.                                                 *)
(***************************************************************************)
EXTENDS Naturals, Sequences

Digits == {"0", "9"}

Bytes == Digits \cup
    {"{", "}", "[", "]", ",", ":", "quote", "backslash", "space",
     "-", "+", ".", "e", "n", "z", "literal"}

(***************************************************************************)
(* The state of the parser before a byte: what it expects, and the objects *)
(* and arrays that are open.  Strings that are keys are called names.      *)
(***************************************************************************)
Numbers == {"minus", "zero", "integer", "point", "fraction", "e", "sign", "exponent"}

(* A number may end here. *)
Ended == {"after", "zero", "integer", "fraction", "exponent"}

Gaps == {"value", "first", "first name", "name", "colon", "after"}

InText == {"string", "escape"}

Modes == Gaps \cup Numbers \cup InText \cup {"in name", "escape in name"}

State == [mode : Modes, open : Seq({"object", "array"})]

Start == [mode |-> "value", open |-> << >>]

Accepting(p) == p.mode \in Ended /\ p.open = << >>

(* The bytes that are read without a look at what is open: between tokens, *)
(* and in numbers, names and strings.                                      *)
GapMoves ==
    {<<m, "space", m>> : m \in Gaps}
    \cup (Ended \X {"space"} \X {"after"})
    \cup ({"value", "first"} \X {"literal"} \X {"after"})
    \cup ({"colon"} \X {":"} \X {"value"})

NumberMoves ==
    ({"value", "first"} \X {"-"} \X {"minus"})
    \cup ({"value", "first", "minus"} \X {"0"} \X {"zero"})
    \cup ({"value", "first", "minus"} \X {"9"} \X {"integer"})
    \cup ({"integer"} \X Digits \X {"integer"})
    \cup ({"zero", "integer"} \X {"."} \X {"point"})
    \cup ({"point", "fraction"} \X Digits \X {"fraction"})
    \cup ({"zero", "integer", "fraction"} \X {"e"} \X {"e"})
    \cup ({"e"} \X {"-", "+"} \X {"sign"})
    \cup ({"e", "sign", "exponent"} \X Digits \X {"exponent"})

NameMoves ==
    ({"first name", "name"} \X {"quote"} \X {"in name"})
    \cup ({"in name"} \X (Bytes \ {"quote", "backslash"}) \X {"in name"})
    \cup ({"in name"} \X {"backslash"} \X {"escape in name"})
    \cup ({"escape in name"} \X {"quote", "backslash", "n"} \X {"in name"})
    \cup ({"in name"} \X {"quote"} \X {"colon"})

TextMoves ==
    ({"value", "first"} \X {"quote"} \X {"string"})
    \cup ({"string"} \X (Bytes \ {"quote", "backslash"}) \X {"string"})
    \cup ({"string"} \X {"backslash"} \X {"escape"})
    \cup ({"escape"} \X {"quote", "backslash", "n"} \X {"string"})
    \cup ({"string"} \X {"quote"} \X {"after"})

Moves == GapMoves \cup NumberMoves \cup NameMoves \cup TextMoves

Innermost(p) == p.open[Len(p.open)]

Within(p, container) == p.open # << >> /\ Innermost(p) = container

Opened(p, mode, container) == [mode |-> mode, open |-> Append(p.open, container)]

Closed(p) == [mode |-> "after", open |-> SubSeq(p.open, 1, Len(p.open) - 1)]

Moved == [m \in Modes |-> [b \in Bytes |-> {n \in Modes : <<m, b, n>> \in Moves}]]

(* What becomes of the parser over the byte b: nothing if it refuses it. *)
After(p, b) ==
    CASE b = "{" /\ p.mode \in {"value", "first"} -> {Opened(p, "first name", "object")}
      [] b = "[" /\ p.mode \in {"value", "first"} -> {Opened(p, "first", "array")}
      [] b = "}" /\ p.mode \in Ended \cup {"first name"} /\ Within(p, "object") -> {Closed(p)}
      [] b = "]" /\ p.mode \in Ended \cup {"first"} /\ Within(p, "array") -> {Closed(p)}
      [] b = "," /\ p.mode \in Ended /\ Within(p, "object") -> {[p EXCEPT !.mode = "name"]}
      [] b = "," /\ p.mode \in Ended /\ Within(p, "array") -> {[p EXCEPT !.mode = "value"]}
      [] OTHER -> {[p EXCEPT !.mode = n] : n \in Moved[p.mode][b]}

(* A body, and the states of the parser over it: parse[k] is the state     *)
(* when k bytes have been read.                                            *)
Document(body, parse) ==
    /\ body \in Seq(Bytes)
    /\ parse \in [0..Len(body) -> State]
    /\ parse[0] = Start
    /\ \A k \in 1..Len(body) : parse[k] \in After(parse[k - 1], body[k])
    /\ Accepting(parse[Len(body)])

(* The parser gets through a text. *)
Parses(text) ==
    LET reached[k \in 0..Len(text)] ==
            IF k = 0 THEN {Start}
            ELSE UNION {After(p, text[k]) : p \in reached[k - 1]}
    IN  \E p \in reached[Len(text)] : Accepting(p)
=============================================================================
