------------------------------- MODULE MCJsonWalk -------------------------------
(* Every JSON document of a few tokens, over strings and numbers that look  *)
(* like something else, and some bodies that are not JSON.                  *)
EXTENDS JsonWalk

CONSTANT MaxTokens \* bound on the tokens of a document

S == INSTANCE SequencesExt

Tokens ==
    {<<"{">>, <<"}">>, <<"[">>, <<"]">>, <<",">>, <<"space", ":", "space">>,
     <<"literal">>, <<"9", "0">>, <<"-", "0", ".", "9", "e", "-", "9">>,
     <<"quote", "quote">>,
     <<"quote", "backslash", "quote", ":", "9", "quote">>,
     <<"quote", "backslash", "n", "quote">>}

(* A beginning of a document, and the run of the parser over it; the run is *)
(* empty if the parser does not get through.                                *)
Extend(d, b) ==
    LET p == d.run[Len(d.run)]
        after == After(p, b)
    IN  [body |-> Append(d.body, b),
         run |-> IF after = {} THEN << >> ELSE Append(d.run, CHOOSE q \in after : TRUE)]

ExtendBy(d, token) ==
    S!FoldLeft(LAMBDA e, b : IF e.run = << >> THEN e ELSE Extend(e, b), d, token)

(* A beginning can still be completed: a member that has begun needs its    *)
(* colon and its value, and every container its end.                        *)
Needed(p) ==
    Len(p.open) + CASE p.mode = "name" -> 3
                    [] p.mode = "colon" -> 2
                    [] p.mode = "value" -> 1
                    [] OTHER -> 0

Completable(d, tokens_left) == Needed(d.run[Len(d.run)]) <= tokens_left

(* The beginnings of documents of up to n tokens. *)
Beginnings[n \in 0..MaxTokens] ==
    IF n = 0 THEN {[body |-> << >>, run |-> <<Start>>]}
    ELSE {d \in {ExtendBy(s, t) : s \in Beginnings[n - 1], t \in Tokens \cup {<< >>}} :
            d.run # << >> /\ Completable(d, MaxTokens - n)}

MCDocuments ==
    {[body |-> d.body, parse |-> [k \in 0..Len(d.body) |-> d.run[k + 1]]] :
        d \in {e \in Beginnings[MaxTokens] : Accepting(e.run[Len(e.run)])}}

MCOthers == {<< >>, <<"{">>, <<"quote", "z">>, <<"9", "z">>}

(* Every digit and letter changes, or none does, or the text grows. *)
Changed(b) == CASE b = "0" -> "9" [] b = "9" -> "0" [] b = "n" -> "z" [] OTHER -> b

MCTransform(t) == {t, [k \in 1..Len(t) |-> Changed(t[k])], Append(t, "z")}
=============================================================================
