--------------------------------- MODULE Config ---------------------------------
(***************************************************************************)
(* Loading the policy: configure, in src/lib.rs, and src/config.rs.  The   *)
(* operator's configuration is decoded into the generated types, with      *)
(* defaults for what is left out, and then checked field by field and rule *)
(* by rule; the first fault refuses it.                                    *)
(*                                                                         *)
(* A field is << >> if it is absent or null, else the one value it holds.  *)
(* A literal value is the sequence of its fields, the texts between its    *)
(* commas; a bulk text is its lines, and its items if it is a JSON array   *)
(* of strings.                                                             *)
(***************************************************************************)
EXTENDS Integers, Sequences, SequencesExt

CONSTANTS
    Configs,    \* the configurations an operator may write
    Catalog,    \* the built-in patterns by name
    Compiling,  \* the patterns that are regular expressions
    Mistyped,   \* a JSON value no field accepts
    Words,      \* what stands between two commas
    Empty,      \* the empty word
    Unpadded    \* a word without the space in front of it

ASSUME WordsAssumption ==
    /\ Empty \in Words
    /\ Unpadded \in [Words -> Words]
    /\ Unpadded[Empty] = Empty
    /\ \A w \in Words : Unpadded[Unpadded[w]] = Unpadded[w]

(* The unit test every_pattern_compiles of the catalog, whose names are *)
(* not empty.                                                           *)
ASSUME CatalogAssumption ==
    /\ Range(Catalog) \subseteq Compiling
    /\ "" \notin DOMAIN Catalog

VARIABLES
    config, \* the configuration as written
    raw,    \* the configuration to be checked
    pc,     \* the next step, "loaded" or "refused"
    rule,   \* the rule to be compiled next
    policy, \* what has been accepted
    error   \* what was refused: the fault and the rule it is in, 0 if none

vars == <<config, raw, pc, rule, policy, error>>

ContentTypeModes == {"auto", "json", "text"}
Scopes == {"request", "response", "both"}
DataTypes == {"text", "name", "email", "number", "alphanumeric", "identifier"}

UnwrapOr(option, default) == IF option = << >> THEN default ELSE option[1]

(***************************************************************************)
(* Decoding.  Other fields of a JSON object are ignored.                   *)
(***************************************************************************)
Required(S) == [1..1 -> S]

Option(S) == {<< >>} \cup Required(S)

Line == Seq(Words) \ {<< >>}

ValuesText == [array : Option(Seq(Line)), lines : Seq(Line)]

(* The fields of a rule and of a configuration, Must(S) and May(S) for the *)
(* values that a field of S may hold.                                      *)
RuleOf(Must(_), May(_)) ==
    [name : Must(STRING), rule_type : Must(STRING),
     builtin_pattern : May(STRING), custom_regex : May(STRING),
     data_type : May(STRING), scope : May(STRING),
     values : May(Seq(Line)), values_text : May(ValuesText)]

ConfigOf(May(_), Rule) ==
    [content_type_mode : May(STRING), mask_request_body : May(BOOLEAN),
     masking_rules : May(Seq(Rule)),
     max_body_size_bytes : May(Int), max_vault_entries : May(Int),
     unmask_response_body : May(BOOLEAN)]

MaskingRules0Config == RuleOf(Required, Option)

(* The limits are i64: a number outside its range is one no field accepts, *)
(* and is Mistyped.                                                        *)
GeneratedConfig == ConfigOf(Option, MaskingRules0Config)

(* What an operator may write in a field of S.  A list with an item that *)
(* is not an object is mistyped as a whole.                              *)
Written(S) == Option(S) \cup {<<Mistyped>>}

WrittenRule == RuleOf(Written, Written)

ASSUME ConfigsAssumption ==
    /\ Configs \subseteq ConfigOf(Written, WrittenRule)
    /\ Mistyped \notin STRING \cup BOOLEAN \cup Int \cup Seq(Line) \cup ValuesText
                           \cup Seq(WrittenRule)

RawRule(r) ==
    [r EXCEPT !.name = @[1], !.rule_type = @[1], !.values = UnwrapOr(@, << >>)]

(* RawConfig::from. *)
Raw(c) ==
    [mask_request_body |-> UnwrapOr(c.mask_request_body, TRUE),
     unmask_response_body |-> UnwrapOr(c.unmask_response_body, TRUE),
     content_type_mode |-> c.content_type_mode,
     max_body_size_bytes |-> c.max_body_size_bytes,
     max_vault_entries |-> c.max_vault_entries,
     rules |-> LET rules == UnwrapOr(c.masking_rules, << >>)
               IN  [n \in DOMAIN rules |-> RawRule(rules[n])]]

DefaultBodySize == 5242880

DefaultVaultSize == 100000

Defaults ==
    [mask_request_body |-> TRUE, unmask_response_body |-> TRUE,
     content_type_mode |-> "auto", max_body_size_bytes |-> DefaultBodySize,
     max_vault_entries |-> DefaultVaultSize, rules |-> << >>]

(* BadStaticAutomaton is left out: that the automaton of a static rule can *)
(* be built is taken for granted.                                          *)
ConfigErrors ==
    {"BadContentTypeMode", "BadMaxBodySize", "BadMaxVaultEntries", "BadRuleType",
     "BadScope", "BadDataType", "UnknownBuiltin", "MissingBuiltin",
     "MissingCustomRegex", "BadCustomRegex", "BadBuiltinRegex", "EmptyStaticValues"}

NoError == [kind |-> "none", rule |-> 0]

Init ==
    /\ config \in Configs
    /\ raw = [rules |-> << >>]
    /\ pc = "decode"
    /\ rule = 1
    /\ policy = Defaults
    /\ error = NoError

Refuse(kind, n) ==
    /\ pc' = "refused"
    /\ error' = [kind |-> kind, rule |-> n]
    /\ UNCHANGED <<config, raw, rule, policy>>

Decode ==
    /\ pc = "decode"
    /\ IF config \in GeneratedConfig
       THEN /\ raw' = Raw(config)
            /\ policy' = [policy EXCEPT !.mask_request_body = raw'.mask_request_body,
                                       !.unmask_response_body = raw'.unmask_response_body]
            /\ pc' = "mode"
            /\ UNCHANGED <<config, rule, error>>
       ELSE Refuse("Undecodable", 0)

(***************************************************************************)
(* The values of a static rule.                                            *)
(***************************************************************************)
Trim(value) == [value EXCEPT ![1] = Unpadded[@]]

(* The entries of a list, trimmed, without those that are empty then. *)
Entries(list) ==
    FoldLeft(LAMBDA out, v : IF Trim(v) = <<Empty>> THEN out ELSE Append(out, Trim(v)),
             << >>, list)

Split(value) == [n \in DOMAIN value |-> <<value[n]>>]

(* A JSON array, else lines, else the fields of the only line. *)
ParseValuesText(text) ==
    LET lines == Entries(text.lines)
    IN  IF text.array # << >> THEN Entries(text.array[1])
        ELSE IF Len(lines) = 1 /\ Len(lines[1]) > 1 THEN Entries(Split(lines[1]))
        ELSE lines

(* The loop over seen, which holds what out holds. *)
Merged(values) ==
    FoldLeft(LAMBDA out, v : IF v \in Range(out) THEN out ELSE Append(out, v),
             << >>, values)

(* Variant: the two lists are deduplicated each for itself. *)
MergeStaticValuesApart(values, text) ==
    IF text = << >> THEN Merged(values)
    ELSE Merged(values) \o Merged(ParseValuesText(text[1]))

(* A text of blanks has no entries, so its early return is not told apart. *)
MergeStaticValues(values, text) ==
    IF text = << >> THEN Merged(values)
    ELSE Merged(values \o ParseValuesText(text[1]))

(***************************************************************************)
(* compile_rule: the fault it returns, or the rule it compiles.            *)
(***************************************************************************)
(* A pattern that is missing or empty is none. *)
Given(option) == option # << >> /\ option[1] # ""

Lookup(name) == IF name \in DOMAIN Catalog THEN <<Catalog[name]>> ELSE << >>

Values(r) == MergeStaticValues(r.values, r.values_text)

SourceFault(r) ==
    CASE r.rule_type = "builtin" ->
           IF ~Given(r.builtin_pattern) THEN "MissingBuiltin"
           ELSE IF Lookup(r.builtin_pattern[1]) = << >> THEN "UnknownBuiltin"
           ELSE IF Lookup(r.builtin_pattern[1])[1] \notin Compiling THEN "BadBuiltinRegex"
           ELSE "none"
      [] r.rule_type = "customRegex" ->
           IF ~Given(r.custom_regex) THEN "MissingCustomRegex"
           ELSE IF r.custom_regex[1] \notin Compiling THEN "BadCustomRegex"
           ELSE "none"
      [] r.rule_type = "static" ->
           IF Values(r) = << >> THEN "EmptyStaticValues" ELSE "none"
      [] OTHER -> "BadRuleType"

Fault(r) ==
    IF UnwrapOr(r.scope, "both") \notin Scopes THEN "BadScope"
    ELSE IF UnwrapOr(r.data_type, "text") \notin DataTypes THEN "BadDataType"
    ELSE SourceFault(r)

(* What the rule searches for: one pattern, or any of its values. *)
Searched(r) ==
    CASE r.rule_type = "builtin" -> Lookup(r.builtin_pattern[1])
      [] r.rule_type = "customRegex" -> r.custom_regex
      [] r.rule_type = "static" -> Values(r)

Compiled(r) ==
    [kind |-> IF r.rule_type = "static" THEN "Static" ELSE "Regex",
     searched |-> Searched(r),
     scope |-> UnwrapOr(r.scope, "both"),
     data_type |-> UnwrapOr(r.data_type, "text")]

(***************************************************************************)
(* PolicyConfig::from_raw.                                                 *)
(***************************************************************************)
Accept(next_pc, field, value) ==
    /\ pc' = next_pc
    /\ policy' = [policy EXCEPT ![field] = value]
    /\ UNCHANGED <<config, raw, rule, error>>

CheckMode ==
    /\ pc = "mode"
    /\ LET mode == UnwrapOr(raw.content_type_mode, "auto")
       IN  IF mode \in ContentTypeModes
           THEN Accept("body size", "content_type_mode", mode)
           ELSE Refuse("BadContentTypeMode", 0)

MaxBodySize == 52428800

BodySizes == 1024..MaxBodySize

(* Variant: the end of the range is left out of the test. *)
CheckBodySizeFrom ==
    /\ pc = "body size"
    /\ LET size == UnwrapOr(raw.max_body_size_bytes, DefaultBodySize)
       IN  IF size >= 1024
           THEN Accept("vault entries", "max_body_size_bytes", size)
           ELSE Refuse("BadMaxBodySize", 0)

CheckBodySize ==
    /\ pc = "body size"
    /\ LET size == UnwrapOr(raw.max_body_size_bytes, DefaultBodySize)
       IN  IF size \in BodySizes
           THEN Accept("vault entries", "max_body_size_bytes", size)
           ELSE Refuse("BadMaxBodySize", 0)

MaxVaultSize == 1000000

VaultSizes == 100..MaxVaultSize

CheckVaultEntries ==
    /\ pc = "vault entries"
    /\ LET size == UnwrapOr(raw.max_vault_entries, DefaultVaultSize)
       IN  IF size \in VaultSizes
           THEN Accept("rules", "max_vault_entries", size)
           ELSE Refuse("BadMaxVaultEntries", 0)

(* Variant: a rule that does not compile is left out. *)
CompileRuleOrSkip ==
    /\ pc = "rules"
    /\ rule <= Len(raw.rules)
    /\ rule' = rule + 1
    /\ policy' = IF Fault(raw.rules[rule]) = "none"
                 THEN [policy EXCEPT !.rules = Append(@, Compiled(raw.rules[rule]))]
                 ELSE policy
    /\ UNCHANGED <<config, raw, pc, error>>

CompileRule ==
    /\ pc = "rules"
    /\ rule <= Len(raw.rules)
    /\ LET r == raw.rules[rule]
       IN  IF Fault(r) = "none"
           THEN /\ policy' = [policy EXCEPT !.rules = Append(@, Compiled(r))]
                /\ rule' = rule + 1
                /\ UNCHANGED <<config, raw, pc, error>>
           ELSE Refuse(Fault(r), rule)

Load ==
    /\ pc = "rules"
    /\ rule > Len(raw.rules)
    /\ pc' = "loaded"
    /\ UNCHANGED <<config, raw, rule, policy, error>>

Next ==
    \/ Decode
    \/ CheckMode
    \/ CheckBodySize
    \/ CheckVaultEntries
    \/ CompileRule
    \/ Load

Spec == Init /\ [][Next]_vars

(* The limits and modes are what the filters, the vault and the matcher    *)
(* are written for, at every moment.                                       *)
TypeOK ==
    /\ pc \in {"decode", "mode", "body size", "vault entries", "rules",
               "loaded", "refused"}
    /\ rule \in 1..(Len(raw.rules) + 1)
    /\ policy.mask_request_body \in BOOLEAN
    /\ policy.unmask_response_body \in BOOLEAN
    /\ policy.content_type_mode \in ContentTypeModes
    /\ policy.max_body_size_bytes \in BodySizes
    /\ policy.max_vault_entries \in VaultSizes
    /\ \A n \in DOMAIN policy.rules :
         /\ policy.rules[n].kind \in {"Regex", "Static"}
         /\ policy.rules[n].scope \in Scopes
         /\ policy.rules[n].data_type \in DataTypes
         /\ policy.rules[n].searched # << >>
    /\ error.kind \in ConfigErrors \cup {"none", "Undecodable"}
    /\ error.rule \in 0..Len(raw.rules)

(***************************************************************************)
(* Safety.                                                                 *)
(***************************************************************************)
(* The entries a bulk text is meant to hold (definition/gcl.yaml:270-277). *)
Listed(text) ==
    LET whole(list) == {Trim(v) : v \in Range(list)} \ {<<Empty>>}
        lines == {n \in DOMAIN text.lines : Trim(text.lines[n]) # <<Empty>>}
    IN  IF text.array # << >> THEN whole(text.array[1])
        ELSE IF \E m, n \in lines : m # n THEN whole(text.lines)
        ELSE UNION {whole(Split(Trim(text.lines[n]))) : n \in lines}

(* What a static rule is meant to search for. *)
Meant(r) ==
    Range(r.values)
        \cup UNION {Listed(text) : text \in Range(r.values_text)}

(* A rule the documentation allows. *)
Legal(r) ==
    /\ Range(r.scope) \subseteq Scopes
    /\ Range(r.data_type) \subseteq DataTypes
    /\ \/ r.rule_type = "builtin" /\ r.builtin_pattern # << >>
          /\ r.builtin_pattern[1] \in DOMAIN Catalog
       \/ r.rule_type = "customRegex" /\ r.custom_regex \notin {<< >>, <<"">>}
          /\ r.custom_regex[1] \in Compiling
       \/ r.rule_type = "static" /\ Meant(r) # {}

(* A configuration the schema allows (definition/gcl.yaml:88-297). *)
WellTyped(c) ==
    LET rules == UNION {Range(list) : list \in Range(c.masking_rules)}
    IN  \A written \in {c} \cup rules :
          /\ \A field \in DOMAIN written : written[field] # <<Mistyped>>
          /\ written \in rules => Len(written.name) = 1 /\ Len(written.rule_type) = 1

(* The places where a configuration can be at fault, in the order checked. *)
LegalAt(place) ==
    CASE place = 0 -> WellTyped(config)
      [] place = 1 -> Range(raw.content_type_mode) \subseteq ContentTypeModes
      [] place = 2 -> Range(raw.max_body_size_bytes) \subseteq BodySizes
      [] place = 3 -> Range(raw.max_vault_entries) \subseteq VaultSizes
      [] OTHER -> Legal(raw.rules[place - 3])

PlaceOf(e) ==
    CASE e.kind = "Undecodable" -> 0
      [] e.kind = "BadContentTypeMode" -> 1
      [] e.kind = "BadMaxBodySize" -> 2
      [] e.kind = "BadMaxVaultEntries" -> 3
      [] OTHER -> 3 + e.rule

(* A policy is loaded only if nothing in it is at fault, however many      *)
(* rules it has, and is refused for its first fault: a legal one is never  *)
(* refused (lib.rs:57-61, config.rs:7-10).                                 *)
RefusedForFirstFault ==
    /\ pc = "loaded" => \A place \in 0..(3 + Len(raw.rules)) : LegalAt(place)
    /\ pc = "refused" =>
         /\ ~LegalAt(PlaceOf(error))
         /\ \A place \in 0..(PlaceOf(error) - 1) : LegalAt(place)

(* A static rule of a loaded policy searches for the values of both lists, *)
(* all of them, each once, those of the array first and in its order: a    *)
(* value with a comma survives where there are several lines or a JSON     *)
(* array (config.rs:263-322).                                              *)
ValuesMerged ==
    pc = "loaded" =>
        \A n \in DOMAIN raw.rules :
            raw.rules[n].rule_type = "static" =>
                LET found == policy.rules[n].searched
                    values == raw.rules[n].values
                    first(v) == CHOOSE k \in DOMAIN values :
                                  values[k] = v /\ \A l \in 1..(k - 1) : values[l] # v
                IN  /\ IsInjective(found)
                    /\ Range(found) = Meant(raw.rules[n])
                    /\ \A k, l \in DOMAIN found :
                         k < l /\ found[l] \in Range(values) =>
                            /\ found[k] \in Range(values)
                            /\ first(found[k]) < first(found[l])
=============================================================================
