-------------------------------- MODULE Matcher --------------------------------
(***************************************************************************)
(* The rewriter of src/matcher.rs: collect the matches of every rule whose *)
(* scope applies, drop the overlapping ones, and rebuild the text in one   *)
(* pass.  A text is its length, a match is a pair of offsets in it, and a  *)
(* rule is its place in the configuration and its scope.  Which matches a  *)
(* pattern has is up to the regex and Aho-Corasick crates: a rule may have *)
(* any set of matches that their find_iter can return.                     *)
(***************************************************************************)
EXTENDS Naturals, Sequences, FiniteSets

CONSTANTS
    MaxLen,   \* bound of the model on the length of a text
    NumRules, \* the rules are numbered 1..NumRules, in configuration order
    Scope(_)  \* Scope(r): "both", "request" or "response"

Rules == 1..NumRules

ASSUME SizesAssumption == MaxLen \in Nat /\ NumRules \in Nat
ASSUME ScopeAssumption ==
    \A r \in Rules : Scope(r) \in {"both", "request", "response"}

VARIABLES
    len,      \* length of the input
    filter,   \* ScopeFilter: the side the text is rewritten for
    pc,       \* "collect", "resolve", "emit", "done": the loop being run
    rule,     \* the next rule of the collecting loop
    spans,    \* every match collected
    todo,     \* those the walk of resolve_overlaps has yet to look at
    cursor,   \* end of the last match the walk kept
    resolved, \* the matches kept, in order
    next,     \* the next of them for the rebuilding loop
    last_end, \* the input up to here has been copied or masked
    out       \* the output: pieces of input, each copied or masked

vars == <<len, filter, pc, rule, spans, todo, cursor, resolved, next,
          last_end, out>>

Span == {s \in [start : 0..MaxLen, end : 0..MaxLen, rule : Rules] :
           s.start <= s.end}

Piece == [start : 0..MaxLen, end : 0..MaxLen, kind : {"copied", "masked", "enrolled"}]

(***************************************************************************)
(* find_iter of the regex and aho-corasick crates: matches go forward and  *)
(* do not overlap; a match may be empty, but not right behind another.     *)
(***************************************************************************)
Offsets(n) == {s \in [start : 0..n, end : 0..n] : s.start <= s.end}

Follows(t, s) ==
    /\ s.start < t.start
    /\ s.end <= t.start
    /\ t.start = t.end => s.end < t.start

FindIter ==
    [n \in 0..MaxLen |->
        {S \in SUBSET Offsets(n) :
            \A s, t \in S : s = t \/ Follows(s, t) \/ Follows(t, s)}]

(***************************************************************************)
(* rewrite, up to its loops: an empty text or no rule ends it at once.     *)
(***************************************************************************)
(* input[a..b] pushed to the output as it is. *)
Copied(a, b) == [start |-> a, end |-> b, kind |-> "copied"]

Init ==
    /\ len \in 0..MaxLen
    /\ filter \in {"request", "response"}
    /\ pc = IF len = 0 \/ NumRules = 0 THEN "done" ELSE "collect"
    /\ rule = 1
    /\ spans = {}
    /\ todo = {}
    /\ cursor = 0
    /\ resolved = << >>
    /\ next = 1
    /\ last_end = 0
    /\ out = IF len = 0 \/ NumRules = 0
             THEN <<Copied(0, len)>> ELSE << >>

(* Variant: rules of scope both run again on the response. *)
IncludesBoth(r) ==
    \/ filter = "request" /\ Scope(r) \in {"request", "both"}
    \/ filter = "response" /\ Scope(r) \in {"response", "both"}

(* ScopeFilter::includes: on the response, rules of scope both are left to *)
(* the unmasking.                                                          *)
Includes(r) ==
    \/ filter = "request" /\ Scope(r) \in {"request", "both"}
    \/ filter = "response" /\ Scope(r) = "response"

Collect ==
    /\ pc = "collect"
    /\ rule <= NumRules
    /\ \/ /\ Includes(rule)
          /\ \E S \in FindIter[len] :
                spans' = spans \cup
                    {[start |-> s.start, end |-> s.end, rule |-> rule] : s \in S}
       \/ /\ ~Includes(rule)
          /\ UNCHANGED spans
    /\ rule' = rule + 1
    /\ UNCHANGED <<len, filter, pc, todo, cursor, resolved, next, last_end, out>>

(* No match at all: the input is returned. *)
NoMatch ==
    /\ pc = "collect"
    /\ rule > NumRules
    /\ spans = {}
    /\ pc' = "done"
    /\ out' = <<Copied(0, len)>>
    /\ UNCHANGED <<len, filter, rule, spans, todo, cursor, resolved, next, last_end>>

StartResolving ==
    /\ pc = "collect"
    /\ rule > NumRules
    /\ spans # {}
    /\ pc' = "resolve"
    /\ todo' = spans
    /\ UNCHANGED <<len, filter, rule, spans, cursor, resolved, next, last_end, out>>

(***************************************************************************)
(* resolve_overlaps.  The sort and the walk over its result are the walk   *)
(* that always looks at the least match left.                              *)
(***************************************************************************)
Length(s) == s.end - s.start

(* Variant: the later rule comes first. *)
BeforeLastRule(s, t) ==
    \/ s.start < t.start
    \/ s.start = t.start /\ Length(s) > Length(t)
    \/ s.start = t.start /\ Length(s) = Length(t) /\ s.rule >= t.rule

Before(s, t) ==
    \/ s.start < t.start
    \/ s.start = t.start /\ Length(s) > Length(t)
    \/ s.start = t.start /\ Length(s) = Length(t) /\ s.rule <= t.rule

Least(s) == s \in todo /\ \A t \in todo : Before(s, t)

Drop(s) ==
    /\ pc = "resolve"
    /\ Least(s)
    /\ s.start < cursor
    /\ todo' = todo \ {s}
    /\ UNCHANGED <<len, filter, pc, rule, spans, cursor, resolved, next, last_end, out>>

(* Variant: the cursor is put past the match, and one further. *)
KeepFarCursor(s) ==
    /\ pc = "resolve"
    /\ Least(s)
    /\ s.start >= cursor
    /\ todo' = todo \ {s}
    /\ cursor' = s.end + 1
    /\ resolved' = Append(resolved, s)
    /\ UNCHANGED <<len, filter, pc, rule, spans, next, last_end, out>>

(* Variant: the cursor is left at the start of the match. *)
KeepShortCursor(s) ==
    /\ pc = "resolve"
    /\ Least(s)
    /\ s.start >= cursor
    /\ todo' = todo \ {s}
    /\ cursor' = s.start
    /\ resolved' = Append(resolved, s)
    /\ UNCHANGED <<len, filter, pc, rule, spans, next, last_end, out>>

Keep(s) ==
    /\ pc = "resolve"
    /\ Least(s)
    /\ s.start >= cursor
    /\ todo' = todo \ {s}
    /\ cursor' = s.end
    /\ resolved' = Append(resolved, s)
    /\ UNCHANGED <<len, filter, pc, rule, spans, next, last_end, out>>

StartEmitting ==
    /\ pc = "resolve"
    /\ todo = {}
    /\ pc' = "emit"
    /\ UNCHANGED <<len, filter, rule, spans, todo, cursor, resolved, next, last_end, out>>

(***************************************************************************)
(* The rebuilding loop of rewrite.  A masked piece is a call of            *)
(* Vault::mask_value; it enrolls on the request side, for scope both.      *)
(***************************************************************************)
Kind(r) == IF filter = "request" /\ Scope(r) = "both" THEN "enrolled" ELSE "masked"

Masked(s) == [start |-> s.start, end |-> s.end, kind |-> Kind(s.rule)]

(* Variant: last_end is moved to the start of the match. *)
EmitNoAdvance ==
    /\ pc = "emit"
    /\ next <= Len(resolved)
    /\ LET s == resolved[next]
       IN  IF s.start < last_end
           THEN UNCHANGED <<last_end, out>>
           ELSE /\ out' = Append(Append(out, Copied(last_end, s.start)), Masked(s))
                /\ last_end' = s.start
    /\ next' = next + 1
    /\ UNCHANGED <<len, filter, pc, rule, spans, todo, cursor, resolved>>

Emit ==
    /\ pc = "emit"
    /\ next <= Len(resolved)
    /\ LET s == resolved[next]
       IN  IF s.start < last_end
           THEN UNCHANGED <<last_end, out>>
           ELSE /\ out' = Append(Append(out, Copied(last_end, s.start)), Masked(s))
                /\ last_end' = s.end
    /\ next' = next + 1
    /\ UNCHANGED <<len, filter, pc, rule, spans, todo, cursor, resolved>>

Finish ==
    /\ pc = "emit"
    /\ next > Len(resolved)
    /\ pc' = "done"
    /\ out' = Append(out, Copied(last_end, len))
    /\ UNCHANGED <<len, filter, rule, spans, todo, cursor, resolved, next, last_end>>

Next ==
    \/ Collect
    \/ NoMatch
    \/ StartResolving
    \/ \E s \in todo : Drop(s) \/ Keep(s)
    \/ StartEmitting
    \/ Emit
    \/ Finish

Spec == Init /\ [][Next]_vars

TypeOK ==
    /\ len \in 0..MaxLen
    /\ filter \in {"request", "response"}
    /\ pc \in {"collect", "resolve", "emit", "done"}
    /\ rule \in 1..(NumRules + 1)
    /\ spans \subseteq {s \in Span : s.end <= len}
    /\ todo \subseteq spans
    /\ cursor \in 0..len
    /\ resolved \in Seq(spans)
    /\ next \in 1..(Len(resolved) + 1)
    /\ last_end \in 0..cursor
    /\ out \in Seq(Piece)

(***************************************************************************)
(* Safety.                                                                 *)
(***************************************************************************)
Kept == {resolved[i] : i \in 1..Len(resolved)}

(* The matches kept never overlap and come in text order, so the slices    *)
(* input[last_end..span.start] of the rebuilding loop are well formed and  *)
(* its own overlap test never fires (matcher.rs:101-105, 135-141).         *)
KeptInOrder ==
    \A i, j \in 1..Len(resolved) : i < j => resolved[i].end <= resolved[j].start

(* s comes before t in the order of the comment on resolve_overlaps, by    *)
(* start, then by length, then by the place of the rule in the             *)
(* configuration (matcher.rs:123).  The comment on the module has another, *)
(* see LongestMatchWins.                                                   *)
Beats(s, t) ==
    \/ s.start < t.start
    \/ s.start = t.start /\ s.end > t.end
    \/ s.start = t.start /\ s.end = t.end /\ s.rule < t.rule

(* Once the overlaps are resolved, a match is gone only if it begins under *)
(* a match that was kept and beats it, and no match kept begins under      *)
(* another: the selection is the leftmost, then longest, then first-rule   *)
(* one, whatever the order of the rules (matcher.rs:123, 126-143).  That   *)
(* is not what matcher.rs:10-12 and gcl.yaml:87-88 say of matches that     *)
(* start at different places: there the earlier rule comes first.          *)
KeptUnlessCovered ==
    pc \in {"emit", "done"} =>
        \A t \in spans :
            t \notin Kept <=>
                \E s \in Kept : Beats(s, t) /\ t.start < s.end

(* The pieces of the output follow each other without a gap or an overlap, *)
(* and when the text is done they are all of it (matcher.rs:98-117).       *)
Tiling ==
    /\ \A i \in 1..Len(out) :
         out[i].start = IF i = 1 THEN 0 ELSE out[i - 1].end
    /\ pc = "emit" => last_end = IF out = << >> THEN 0 ELSE out[Len(out)].end
    /\ pc = "done" => out # << >> /\ out[Len(out)].end = len

(* What is masked in the end is exactly the matches kept, each with the    *)
(* enrollment its rule and the side call for: only a request-side match of *)
(* a rule of scope both is enrolled, and rules that do not apply to the    *)
(* side mask nothing (matcher.rs:47-56, 106-113).                          *)
MaskedAsKept ==
    pc = "done" =>
        {[start |-> out[i].start, end |-> out[i].end, kind |-> out[i].kind] :
            i \in {j \in 1..Len(out) : out[j].kind # "copied"}}
        = {[start |-> s.start, end |-> s.end,
            kind |-> IF Scope(s.rule) = "both" THEN "enrolled" ELSE "masked"] :
            s \in Kept}

(* The precedence of the module's comment: the longer match, of equally    *)
(* long ones that of the earlier rule, the start offset last.              *)
Precedes(s, t) ==
    \/ Length(s) > Length(t)
    \/ Length(s) = Length(t) /\ s.rule < t.rule
    \/ Length(s) = Length(t) /\ s.rule = t.rule /\ s.start < t.start

(* matcher.rs:3-4 says that overlaps are resolved "with longest-match-wins"*)
(* and 10-12 that rules that come earlier "win ties on equal-length spans",*)
(* the start offset being "the final tiebreaker".  So a match dropped      *)
(* should overlap one that was kept and takes precedence.  In fact a match *)
(* that starts earlier wins over a longer one, and over one of the same    *)
(* length of an earlier rule; what it leaves of the other is copied.       *)
LongestMatchWins ==
    pc = "done" =>
        \A t \in spans \ Kept : t.start < t.end =>
            \E s \in Kept : /\ s.start < t.end
                            /\ t.start < s.end
                            /\ Precedes(s, t)
=============================================================================
