--------------------------- MODULE JsonGrammarProofs ---------------------------
(***************************************************************************)
(* Lemmas about the parser of JsonGrammar: over which byte it goes from    *)
(* which mode to which, and what it does to the containers that are open.  *)
(* They turn the one set of moves around: the walker looks at a byte, so   *)
(* each lemma starts from the byte and says where the parser then was.     *)
(***************************************************************************)
EXTENDS JsonGrammar, SequenceTheorems, TLAPS

(* What the parser may do over each byte between two tokens ... *)
ReadsBetween(p, b, q) ==
    /\ b = "space" =>
         /\ q.open = p.open
         /\ q.mode = IF p.mode \in Gaps THEN p.mode ELSE "after"
    /\ b = "{" => p.mode \in {"value", "first"} /\ q = Opened(p, "first name", "object")
    /\ b = "[" => p.mode \in {"value", "first"} /\ q = Opened(p, "first", "array")
    /\ b = "}" => /\ p.mode \in Ended \cup {"first name"}
                  /\ Within(p, "object")
                  /\ q = Closed(p)
    /\ b = "]" => /\ p.mode \in Ended \cup {"first"}
                  /\ Within(p, "array")
                  /\ q = Closed(p)
    /\ b = "," => /\ p.mode \in Ended
                  /\ q.open = p.open
                  /\ \/ Within(p, "object") /\ q.mode = "name"
                     \/ Within(p, "array") /\ q.mode = "value"
    /\ b = ":" => p.mode = "colon" /\ q.open = p.open /\ q.mode = "value"
    /\ b = "literal" =>
         p.mode \in {"value", "first"} /\ q.open = p.open /\ q.mode = "after"

(* ... and where a string, a name or a number may begin. *)
ReadsFirst(p, b, q) ==
    /\ b = "quote" =>
         /\ q.open = p.open
         /\ \/ p.mode \in {"value", "first"} /\ q.mode = "string"
            \/ p.mode \in {"first name", "name"} /\ q.mode = "in name"
    /\ b = "-" =>
         p.mode \in {"value", "first"} /\ q.open = p.open /\ q.mode = "minus"
    /\ b \in Digits =>
         /\ q.open = p.open
         /\ \/ p.mode \in {"value", "first"} /\ q.mode \in {"zero", "integer"}
            \/ p.mode \in Numbers /\ q.mode \in Numbers
    /\ b \in {".", "e"} => p.mode \in Numbers /\ q.mode \in Numbers
    /\ b \notin {"backslash", "+", "n", "z"}

(* In a string and in a name the parser looks for the quote that ends it. *)
ReadsText(p, b, q) ==
    /\ q.open = p.open
    /\ p.mode = "string" =>
         /\ b = "quote" => q.mode = "after"
         /\ b = "backslash" => q.mode = "escape"
         /\ b \notin {"quote", "backslash"} => q.mode = "string"
    /\ p.mode = "escape" => q.mode = "string"
    /\ p.mode = "in name" =>
         /\ b = "quote" => q.mode = "colon"
         /\ b = "backslash" => q.mode = "escape in name"
         /\ b \notin {"quote", "backslash"} => q.mode = "in name"
    /\ p.mode = "escape in name" => q.mode = "in name"

(* In a number the parser goes on over the bytes scan_number looks for. *)
ReadsNumber(p, b, q) ==
    /\ b \in Digits =>
         /\ q.open = p.open
         /\ \/ p.mode \in {"minus", "integer"} /\ q.mode \in {"zero", "integer"}
            \/ p.mode \in {"point", "fraction"} /\ q.mode = "fraction"
            \/ p.mode \in {"e", "sign", "exponent"} /\ q.mode = "exponent"
    /\ b = "." =>
         p.mode \in {"zero", "integer"} /\ q.open = p.open /\ q.mode = "point"
    /\ b = "e" =>
         /\ p.mode \in {"zero", "integer", "fraction"}
         /\ q.open = p.open
         /\ q.mode = "e"
    /\ b \in {"+", "-"} => p.mode = "e" /\ q.open = p.open /\ q.mode = "sign"
    /\ b \notin Digits \cup {".", "e", "+", "-"} =>
         p.mode \in Ended /\ q.mode \notin Numbers

(* The moves over white space, literals and the colon, one by one. *)
LEMMA GapMove ==
    ASSUME NEW m, NEW b, NEW n, <<m, b, n>> \in GapMoves
    PROVE  \/ m \in Gaps /\ b = "space" /\ n = m
           \/ m \in Ended /\ b = "space" /\ n = "after"
           \/ m \in {"value", "first"} /\ b = "literal" /\ n = "after"
           \/ m = "colon" /\ b = ":" /\ n = "value"
BY DEF GapMoves

(* The moves over the bytes of a number. *)
LEMMA NumberMove ==
    ASSUME NEW m, NEW b, NEW n, <<m, b, n>> \in NumberMoves
    PROVE  \/ m \in {"value", "first"} /\ b = "-" /\ n = "minus"
           \/ m \in {"value", "first", "minus"} /\ b = "0" /\ n = "zero"
           \/ m \in {"value", "first", "minus"} /\ b = "9" /\ n = "integer"
           \/ m = "integer" /\ b \in Digits /\ n = "integer"
           \/ m \in {"zero", "integer"} /\ b = "." /\ n = "point"
           \/ m \in {"point", "fraction"} /\ b \in Digits /\ n = "fraction"
           \/ m \in {"zero", "integer", "fraction"} /\ b = "e" /\ n = "e"
           \/ m = "e" /\ b \in {"-", "+"} /\ n = "sign"
           \/ m \in {"e", "sign", "exponent"} /\ b \in Digits /\ n = "exponent"
BY DEF NumberMoves

(* The moves over the bytes of a name. *)
LEMMA NameMove ==
    ASSUME NEW m, NEW b, NEW n, <<m, b, n>> \in NameMoves
    PROVE  \/ m \in {"first name", "name"} /\ b = "quote" /\ n = "in name"
           \/ m = "in name" /\ b \in Bytes \ {"quote", "backslash"} /\ n = "in name"
           \/ m = "in name" /\ b = "backslash" /\ n = "escape in name"
           \/ m = "escape in name" /\ b \in {"quote", "backslash", "n"} /\ n = "in name"
           \/ m = "in name" /\ b = "quote" /\ n = "colon"
BY DEF NameMoves

(* The moves over the bytes of a string. *)
LEMMA TextMove ==
    ASSUME NEW m, NEW b, NEW n, <<m, b, n>> \in TextMoves
    PROVE  \/ m \in {"value", "first"} /\ b = "quote" /\ n = "string"
           \/ m = "string" /\ b \in Bytes \ {"quote", "backslash"} /\ n = "string"
           \/ m = "string" /\ b = "backslash" /\ n = "escape"
           \/ m = "escape" /\ b \in {"quote", "backslash", "n"} /\ n = "string"
           \/ m = "string" /\ b = "quote" /\ n = "after"
BY DEF TextMoves

(* Every move is of one of the four kinds. *)
LEMMA MoveByByte ==
    ASSUME NEW m, NEW b, NEW n, <<m, b, n>> \in Moves
    PROVE  \/ <<m, b, n>> \in GapMoves
           \/ <<m, b, n>> \in NumberMoves
           \/ <<m, b, n>> \in NameMoves
           \/ <<m, b, n>> \in TextMoves
BY DEF Moves

(* A move leaves the containers alone. *)
LEMMA Moving ==
    ASSUME NEW p \in State, NEW b \in Bytes, NEW q,
           q \in {[p EXCEPT !.mode = n] : n \in Moved[p.mode][b]}
    PROVE  /\ q \in State
           /\ q.open = p.open
           /\ <<p.mode, b, q.mode>> \in Moves
<1>1. p.mode \in Modes /\ p.open \in Seq({"object", "array"})
  BY DEF State
<1>2. PICK n \in Moved[p.mode][b] : q = [p EXCEPT !.mode = n]
  OBVIOUS
<1>3. n \in Modes /\ <<p.mode, b, n>> \in Moves
  BY <1>1 DEF Moved
<1>4. q = [mode |-> n, open |-> p.open]
  BY <1>2 DEF State
<1> QED
  BY <1>1, <1>3, <1>4 DEF State

(* A byte moves the parser, or opens, closes or continues a container. *)
LEMMA Reading ==
    ASSUME NEW p \in State, NEW b \in Bytes, NEW q \in After(p, b)
    PROVE  \/ /\ b = "{" /\ p.mode \in {"value", "first"}
              /\ q = Opened(p, "first name", "object")
           \/ /\ b = "[" /\ p.mode \in {"value", "first"}
              /\ q = Opened(p, "first", "array")
           \/ /\ b = "}" /\ p.mode \in Ended \cup {"first name"} /\ Within(p, "object")
              /\ q = Closed(p)
           \/ /\ b = "]" /\ p.mode \in Ended \cup {"first"} /\ Within(p, "array")
              /\ q = Closed(p)
           \/ /\ b = "," /\ p.mode \in Ended /\ Within(p, "object")
              /\ q = [mode |-> "name", open |-> p.open]
           \/ /\ b = "," /\ p.mode \in Ended /\ Within(p, "array")
              /\ q = [mode |-> "value", open |-> p.open]
           \/ /\ q \in State
              /\ q.open = p.open
              /\ <<p.mode, b, q.mode>> \in Moves
<1>1. CASE b = "{" /\ p.mode \in {"value", "first"}
  BY <1>1 DEF After
<1>2. CASE b = "[" /\ p.mode \in {"value", "first"}
  BY <1>2 DEF After
<1>3. CASE b = "}" /\ p.mode \in Ended \cup {"first name"} /\ Within(p, "object")
  BY <1>3 DEF After
<1>4. CASE b = "]" /\ p.mode \in Ended \cup {"first"} /\ Within(p, "array")
  BY <1>4 DEF After
<1>5. CASE b = "," /\ p.mode \in Ended /\ Within(p, "object")
  <2>1. ~Within(p, "array")
    BY <1>5 DEF Within
  <2>2. After(p, ",") = {[p EXCEPT !.mode = "name"]}
    BY <1>5, <2>1 DEF After
  <2> QED
    BY <1>5, <2>2 DEF State
<1>6. CASE b = "," /\ p.mode \in Ended /\ Within(p, "array")
  <2>1. ~Within(p, "object")
    BY <1>6 DEF Within
  <2>2. After(p, ",") = {[p EXCEPT !.mode = "value"]}
    BY <1>6, <2>1 DEF After
  <2> QED
    BY <1>6, <2>2 DEF State
<1>7. CASE /\ ~(b = "{" /\ p.mode \in {"value", "first"})
           /\ ~(b = "[" /\ p.mode \in {"value", "first"})
           /\ ~(b = "}" /\ p.mode \in Ended \cup {"first name"} /\ Within(p, "object"))
           /\ ~(b = "]" /\ p.mode \in Ended \cup {"first"} /\ Within(p, "array"))
           /\ ~(b = "," /\ p.mode \in Ended /\ Within(p, "object"))
           /\ ~(b = "," /\ p.mode \in Ended /\ Within(p, "array"))
  <2>1. q \in {[p EXCEPT !.mode = n] : n \in Moved[p.mode][b]}
    BY <1>7 DEF After
  <2> QED
    BY <2>1, Moving
<1> QED
  BY <1>1, <1>2, <1>3, <1>4, <1>5, <1>6, <1>7

(* Over a byte between tokens the parser does what ReadsBetween says. *)
LEMMA ReadBetween ==
    ASSUME NEW p \in State, p.mode \in Gaps \cup Ended, NEW b \in Bytes, NEW q \in After(p, b)
    PROVE  ReadsBetween(p, b, q)
<1> USE DEF ReadsBetween
<1>1. /\ p.mode \notin {"in name", "escape in name", "string", "escape"}
      /\ p.mode \notin {"minus", "point", "e", "sign"}
  BY DEF Gaps, Ended
<1>2. ASSUME <<p.mode, b, q.mode>> \in Moves
      PROVE  \/ p.mode \in Gaps /\ b = "space" /\ q.mode = p.mode
             \/ p.mode \in Ended /\ b = "space" /\ q.mode = "after"
             \/ p.mode \in {"value", "first"} /\ b = "literal" /\ q.mode = "after"
             \/ p.mode = "colon" /\ b = ":" /\ q.mode = "value"
             \/ b \in Digits \cup {"quote", "-", ".", "e"}
  <2>1. CASE <<p.mode, b, q.mode>> \in GapMoves
    BY <2>1, GapMove
  <2>2. CASE <<p.mode, b, q.mode>> \in NumberMoves
    BY <1>1, <2>2, NumberMove DEF Digits
  <2>3. CASE <<p.mode, b, q.mode>> \in NameMoves
    BY <1>1, <2>3, NameMove
  <2>4. CASE <<p.mode, b, q.mode>> \in TextMoves
    BY <1>1, <2>4, TextMove
  <2> QED
    BY <1>2, <2>1, <2>2, <2>3, <2>4, MoveByByte
<1>3. b \notin {"{", "[", "}", "]", ","} =>
        <<p.mode, b, q.mode>> \in Moves /\ q.open = p.open
  BY Reading
<1>4. CASE b \in {"space", "literal", ":"}
  BY <1>2, <1>3, <1>4 DEF Gaps, Ended, Digits
<1>5. CASE b \in {"{", "[", "}", "]", ","}
  <2>1. <<p.mode, b, q.mode>> \notin Moves
    BY <1>2, <1>5 DEF Digits
  <2>2. CASE b = "{"
    BY <2>1, <2>2, Reading
  <2>3. CASE b = "["
    BY <2>1, <2>3, Reading
  <2>4. CASE b = "}"
    BY <2>1, <2>4, Reading
  <2>5. CASE b = "]"
    BY <2>1, <2>5, Reading
  <2>6. CASE b = ","
    <3>1. /\ p.mode \in Ended
          /\ \/ Within(p, "object") /\ q = [mode |-> "name", open |-> p.open]
             \/ Within(p, "array") /\ q = [mode |-> "value", open |-> p.open]
      BY <2>1, <2>6, Reading
    <3>2. /\ q.open = p.open
          /\ \/ Within(p, "object") /\ q.mode = "name"
             \/ Within(p, "array") /\ q.mode = "value"
      BY <3>1
    <3> QED
      BY <2>6, <3>1, <3>2
  <2> QED
    BY <1>5, <2>2, <2>3, <2>4, <2>5, <2>6
<1> QED
  BY <1>4, <1>5

(* A container is opened, or closed. *)
LEMMA Opening ==
    ASSUME NEW p \in State, NEW m \in Modes, NEW c \in {"object", "array"}
    PROVE  /\ Opened(p, m, c) \in State
           /\ Opened(p, m, c).mode = m
           /\ Len(Opened(p, m, c).open) = Len(p.open) + 1
           /\ \A k \in 1..Len(p.open) : Opened(p, m, c).open[k] = p.open[k]
           /\ Opened(p, m, c).open[Len(p.open) + 1] = c
<1>1. p.open \in Seq({"object", "array"})
  BY DEF State
<1> QED
  BY <1>1, AppendProperties DEF Opened, State

(* ... and what closing one leaves. *)
LEMMA Closing ==
    ASSUME NEW p \in State, p.open # << >>
    PROVE  /\ Closed(p) \in State
           /\ Closed(p).mode = "after"
           /\ Len(Closed(p).open) = Len(p.open) - 1
           /\ \A k \in 1..(Len(p.open) - 1) : Closed(p).open[k] = p.open[k]
<1>1. p.open \in Seq({"object", "array"}) /\ Len(p.open) \in Nat \ {0}
  BY EmptySeq DEF State
<1>2. \A k \in 1..(Len(p.open) - 1) : p.open[k] \in {"object", "array"}
  BY <1>1, ElementOfSeq
<1>3. "after" \in Modes
  BY DEF Modes, Gaps
<1>4. /\ SubSeq(p.open, 1, Len(p.open) - 1) \in Seq({"object", "array"})
      /\ Len(SubSeq(p.open, 1, Len(p.open) - 1)) = Len(p.open) - 1
      /\ \A k \in 1..(Len(p.open) - 1) : SubSeq(p.open, 1, Len(p.open) - 1)[k] = p.open[k]
  BY <1>1, <1>2, SubSeqProperties
<1>5. /\ Closed(p).mode = "after"
      /\ Closed(p).open = SubSeq(p.open, 1, Len(p.open) - 1)
      /\ Closed(p) = [mode |-> Closed(p).mode, open |-> Closed(p).open]
  BY <1>1 DEF Closed
<1> QED
  BY <1>3, <1>4, <1>5 DEF State

(* A token begins where ReadsFirst says. *)
LEMMA ReadFirst ==
    ASSUME NEW p \in State, p.mode \in Gaps \cup Ended, NEW b \in Bytes, NEW q \in After(p, b)
    PROVE  ReadsFirst(p, b, q)
<1> USE DEF ReadsFirst
<1>1. /\ p.mode \notin {"in name", "escape in name", "string", "escape"}
      /\ p.mode \notin {"minus", "point", "e", "sign"}
  BY DEF Gaps, Ended
<1>2. CASE b \notin {"quote", "-", ".", "e", "backslash", "+", "n", "z"} \cup Digits
  BY <1>2
<1>3. CASE b \in {"quote", "-", ".", "e", "backslash", "+", "n", "z"} \cup Digits
  <2>1. q.open = p.open /\ <<p.mode, b, q.mode>> \in Moves
    BY <1>3, Reading DEF Digits
  <2>2. CASE <<p.mode, b, q.mode>> \in GapMoves
    BY <1>3, <2>2, GapMove DEF Digits
  <2>3. CASE <<p.mode, b, q.mode>> \in NumberMoves
    <3>1. CASE b = "-"
      BY <1>1, <2>1, <2>3, <3>1, NumberMove DEF Digits
    <3>2. CASE b \in Digits
      <4>1. CASE b = "0"
        BY <1>1, <2>1, <2>3, <4>1, NumberMove DEF Digits, Numbers
      <4>2. CASE b = "9"
        BY <1>1, <2>1, <2>3, <4>2, NumberMove DEF Digits, Numbers
      <4> QED
        BY <3>2, <4>1, <4>2 DEF Digits
    <3>3. CASE b \in {".", "e"}
      BY <1>1, <2>1, <2>3, <3>3, NumberMove DEF Digits, Numbers
    <3>4. CASE b \notin {"-", ".", "e"} \cup Digits
      BY <1>1, <2>1, <2>3, <3>4, NumberMove DEF Digits
    <3> QED
      BY <3>1, <3>2, <3>3, <3>4
  <2>4. CASE <<p.mode, b, q.mode>> \in NameMoves
    BY <1>1, <2>1, <2>4, NameMove DEF Digits
  <2>5. CASE <<p.mode, b, q.mode>> \in TextMoves
    BY <1>1, <2>1, <2>5, TextMove DEF Digits
  <2> QED
    BY <2>1, <2>2, <2>3, <2>4, <2>5, MoveByByte
<1> QED
  BY <1>2, <1>3

(* Inside a string or a name the parser stays until the closing quote. *)
LEMMA ReadText ==
    ASSUME NEW p \in State, NEW b \in Bytes, NEW q \in After(p, b),
           p.mode \in {"string", "escape", "in name", "escape in name"}
    PROVE  ReadsText(p, b, q)
<1> USE DEF ReadsText
<1>1. q.open = p.open /\ <<p.mode, b, q.mode>> \in Moves
  BY Reading DEF Ended
<1>2. p.mode \notin Gaps \cup Ended
  BY DEF Gaps, Ended
<1>3. CASE <<p.mode, b, q.mode>> \in GapMoves
  BY <1>2, <1>3, GapMove
<1>4. CASE <<p.mode, b, q.mode>> \in NumberMoves
  BY <1>4, NumberMove
<1>5. CASE <<p.mode, b, q.mode>> \in NameMoves
  BY <1>1, <1>5, NameMove
<1>6. CASE <<p.mode, b, q.mode>> \in TextMoves
  BY <1>1, <1>6, TextMove
<1> QED
  BY <1>1, <1>3, <1>4, <1>5, <1>6, MoveByByte

(* A number goes on as its part allows, or the value before it has ended. *)
LEMMA ReadNumber ==
    ASSUME NEW p \in State, NEW b \in Bytes, NEW q \in After(p, b), p.mode \in Numbers
    PROVE  ReadsNumber(p, b, q)
<1> USE DEF ReadsNumber
<1>1. p.mode \notin {"value", "first", "colon", "first name", "name", "in name",
                     "escape in name", "string", "escape"} \cup Gaps
  BY DEF Numbers, Gaps
<1>2. ASSUME <<p.mode, b, q.mode>> \in Moves
      PROVE  \/ p.mode \in Ended /\ b = "space" /\ q.mode = "after"
             \/ <<p.mode, b, q.mode>> \in NumberMoves
  <2>1. CASE <<p.mode, b, q.mode>> \in GapMoves
    BY <1>1, <2>1, GapMove
  <2>2. CASE <<p.mode, b, q.mode>> \in NameMoves
    BY <1>1, <2>2, NameMove
  <2>3. CASE <<p.mode, b, q.mode>> \in TextMoves
    BY <1>1, <2>3, TextMove
  <2> QED
    BY <1>2, <2>1, <2>2, <2>3, MoveByByte
<1>3. CASE <<p.mode, b, q.mode>> \in Moves /\ q.open = p.open
  <2>1. CASE p.mode \in Ended /\ b = "space" /\ q.mode = "after"
    BY <1>3, <2>1 DEF Digits, Numbers
  <2>2. CASE <<p.mode, b, q.mode>> \in NumberMoves
    <3>1. CASE b \in Digits
      BY <1>1, <1>3, <2>2, <3>1, NumberMove DEF Digits
    <3>2. CASE b = "."
      BY <1>1, <1>3, <2>2, <3>2, NumberMove DEF Digits
    <3>3. CASE b = "e"
      BY <1>1, <1>3, <2>2, <3>3, NumberMove DEF Digits
    <3>4. CASE b \in {"+", "-"}
      BY <1>1, <1>3, <2>2, <3>4, NumberMove DEF Digits
    <3>5. b \in Digits \cup {".", "e", "+", "-"}
      BY <2>2, NumberMove DEF Digits
    <3> QED
      BY <3>1, <3>2, <3>3, <3>4, <3>5 DEF Digits
  <2> QED
    BY <1>2, <1>3, <2>1, <2>2
<1>4. CASE /\ b \in {"}", "]", ","}
           /\ p.mode \in Ended
           /\ q.mode \in {"after", "name", "value"}
  BY <1>4 DEF Digits, Numbers
<1>5. \/ <<p.mode, b, q.mode>> \in Moves /\ q.open = p.open
      \/ b \in {"}", "]"} /\ p.mode \in Ended /\ q = Closed(p)
      \/ b = "," /\ p.mode \in Ended /\ q = [mode |-> "name", open |-> p.open]
      \/ b = "," /\ p.mode \in Ended /\ q = [mode |-> "value", open |-> p.open]
  BY <1>1, Reading
<1>6. CASE b \in {"}", "]"} /\ p.mode \in Ended /\ q = Closed(p)
  BY <1>4, <1>6 DEF Closed
<1>7. CASE b = "," /\ p.mode \in Ended /\ q = [mode |-> "name", open |-> p.open]
  <2>1. q.mode = "name"
    BY <1>7
  <2> QED
    BY <1>4, <1>7, <2>1
<1>8. CASE b = "," /\ p.mode \in Ended /\ q = [mode |-> "value", open |-> p.open]
  <2>1. q.mode = "value"
    BY <1>8
  <2> QED
    BY <1>4, <1>8, <2>1
<1> QED
  BY <1>3, <1>5, <1>6, <1>7, <1>8
=============================================================================
