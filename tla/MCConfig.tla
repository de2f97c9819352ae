-------------------------------- MODULE MCConfig --------------------------------
(* Configurations with every kind of fault in every place, up to two rules. *)
EXTENDS Config

MCCatalog == [n \in {"UsSsn", "Email"} |-> n]

MCCompiling == {"UsSsn", "Email", "good"}

MCUnpadded == [w \in Words |-> IF w = " x" THEN "x" ELSE w]

(* A rule with nothing but its type. *)
Bare(type) ==
    [name |-> <<"rule">>, rule_type |-> <<type>>, builtin_pattern |-> << >>, custom_regex |-> << >>,
     data_type |-> << >>, values |-> << >>, values_text |-> << >>, scope |-> << >>]

(* Two words with or without a comma between them, among others. *)
Lines == {<<"">>, <<"x">>, <<" x">>, <<"x", "y">>, <<"", "y">>}

Lists(n) == UNION {[1..k -> Lines] : k \in 0..n}

Texts ==
    {[array |-> << >>, lines |-> l] : l \in Lists(2) \ {<< >>}}
        \cup {[array |-> <<a>>, lines |-> <<(<<"[">>)>>] : a \in Lists(2)}

StaticRules ==
    {[Bare("static") EXCEPT !.values = v, !.values_text = t] :
        v \in {<< >>} \cup {<<l>> : l \in Lists(2)},
        t \in {<< >>} \cup {<<t>> : t \in Texts}}

PatternRules ==
    {[Bare("builtin") EXCEPT !.builtin_pattern = p] :
        p \in {<< >>, <<"">>, <<"UsSsn">>, <<"Nope">>}}
    \cup {[Bare("customRegex") EXCEPT !.custom_regex = p] :
        p \in {<< >>, <<"">>, <<"good">>, <<"(unclosed">>}}
    \cup {[Bare("regex") EXCEPT !.custom_regex = <<"good">>]}

Qualified(rules) ==
    {[r EXCEPT !.scope = s, !.data_type = d] : r \in rules,
        s \in {<< >>, <<"request">>, <<"">>}, d \in {<< >>, <<"email">>, <<"phone">>}}

(* Rules that cannot be decoded. *)
BadRules ==
    {[Bare("builtin") EXCEPT !.name = << >>, !.scope = <<"">>],
     [Bare("builtin") EXCEPT !.rule_type = << >>],
     [Bare("static") EXCEPT !.values = <<Mistyped>>]}

SomeRules == BadRules \cup Qualified(PatternRules) \cup {[Bare("static") EXCEPT !.values = <<(<<(<<"y">>)>>)>>]}

RuleLists ==
    {<< >>} \cup {<<(<<r>>)>> : r \in StaticRules}
        \cup {<<(<<r, s>>)>> : r, s \in SomeRules}

Usual ==
    [mask_request_body |-> << >>, unmask_response_body |-> <<FALSE>>,
     content_type_mode |-> << >>, max_body_size_bytes |-> << >>,
     max_vault_entries |-> << >>, masking_rules |-> << >>]

Limits ==
    {[Usual EXCEPT !.content_type_mode = m, !.max_body_size_bytes = b,
                   !.max_vault_entries = v, !.masking_rules = r] :
        m \in {<< >>, <<"json">>, <<"xml">>, <<Mistyped>>},
        b \in {<< >>, <<Mistyped>>, <<-1>>, <<1023>>, <<1024>>, <<52428800>>, <<52428801>>},
        v \in {<< >>, <<99>>, <<100>>, <<1000000>>, <<1000001>>},
        r \in {<< >>, <<(<<Bare("builtin")>>)>>}}

MCConfigs == Limits \cup {[Usual EXCEPT !.masking_rules = r] : r \in RuleLists}
=============================================================================
