------------------------------ MODULE MCRoundTrip ------------------------------
(* Texts of one and two characters, of classes of two, the empty text,     *)
(* which only a token can stand for, and two texts of a token's format, one *)
(* of them spelled like the first token: short masks occur inside longer    *)
(* ones, across the pieces of a response and inside its words.              *)
EXTENDS RoundTrip

MCLowers == {"a", "b"}

MCDigits == {"0", "1"}

short == <<"0">>

long == <<"0", "a">>

codes == {<<"#", d, "#">> : d \in MCDigits}

MCTexts == BoundedSeq(MCLowers \cup MCDigits, 2) \cup codes

MCFallback(n) == <<"#", ToString(n), "#">>

Cut(text, rule) == [text |-> text, rule |-> rule]

(* Bodies of n pieces in up to two leaves. *)
Bodies(cuts, n) ==
    {[i \in 1..n |-> [text |-> c[i].text, rule |-> c[i].rule,
                      leaf |-> IF i <= first THEN 1 ELSE 2]] :
        c \in [1..n -> cuts], first \in 1..n}

Legal(b) ==
    \A i \in 1..Len(b) :
        b[i].rule # "none" => \E k \in LeafOf(b, i) : b[k].text # << >>

(* Two values and the empty one, enrolled or not, clear text, and values    *)
(* spelled like a token or of its format, with one more value.              *)
MCRequests ==
    LET cuts == {Cut(short, "both"), Cut(long, "both"), Cut(<< >>, "both"),
                 Cut(long, "request")}
        clear == Cut(short, "none")
        coded == {Cut(c, "both") : c \in codes}
    IN  {b \in UNION {Bodies(cuts \cup {clear}, n) : n \in 1..2}
                \cup Bodies(cuts, 3)
                \cup Bodies(coded \cup {Cut(<< >>, "both")}, 2) :
           Legal(b)}

(* A value, another turned round, nothing, and what looks like a token. *)
MCWords == {short, Reverse(long), << >>, MCFallback(1)}

(* Anything the upstream can put together of two texts, one of which, a     *)
(* value, a mask or nothing, a rule of scope response may match.            *)
MCResponses ==
    LET texts == V!Tokens \cup MCWords \cup GenerateFp(short) \cup GenerateFp(long)
        clear == {Cut(t, "none") : t \in texts \ {<< >>}}
        cuts == clear \cup {Cut(t, "response") : t \in {short, <<"1">>, << >>}}
    IN  {b \in Bodies(clear, 1) \cup Bodies(cuts, 2) :
           Legal(b) /\ (PlainText(b) \/ \E i \in 1..2 : b[i].rule = "response")}
=============================================================================
