------------------------------ MODULE Pseudonyms ------------------------------
(***************************************************************************)
(* What the vault of src/mask.rs promises the code that calls it, with no  *)
(* word on how: a dictionary from original values to pseudonyms.  A value  *)
(* enters the dictionary once and keeps its pseudonym, which is of its own *)
(* format and nobody else's, so that the response phase can turn it back;  *)
(* or it enters with a code, of which less is promised.  The log holds     *)
(* every call with its answer.  Vault.tla implements this.                 *)
(***************************************************************************)
EXTENDS Naturals, Sequences, FiniteSets, Functions

CONSTANTS
    Texts,        \* the values the rules of the policy match
    SameShape(_), \* the texts of the same format as a text
    Codes,        \* what may stand for a value that no text is left for
    Cap           \* how many values may enter (maxVaultEntries)

VARIABLES
    dict,         \* original value -> the pseudonym it entered with
    log           \* the calls so far: [original, enroll, mask]

dictVars == <<dict, log>>

Told(o, e, m) == log' = Append(log, [original |-> o, enroll |-> e, mask |-> m])

Init ==
    /\ dict = << >>
    /\ log = << >>

(* A known value is answered with its pseudonym, whoever asks. *)
Recall(o, e) ==
    /\ o \in DOMAIN dict
    /\ Told(o, e, dict[o])
    /\ UNCHANGED dict

(* A caller that does not enroll gets some text of the same format: no    *)
(* more is promised, and nothing is remembered.                            *)
Redact(o) ==
    /\ o \notin DOMAIN dict
    /\ \E m \in SameShape(o) : Told(o, FALSE, m)
    /\ UNCHANGED dict

(* A full dictionary takes no new value: the caller gets it back as it is. *)
Refuse(o) ==
    /\ o \notin DOMAIN dict
    /\ Cardinality(DOMAIN dict) = Cap
    /\ Told(o, TRUE, o)
    /\ UNCHANGED dict

Enter(o, m) ==
    /\ o \notin DOMAIN dict
    /\ Cardinality(DOMAIN dict) < Cap
    /\ dict' = [x \in DOMAIN dict \cup {o} |-> IF x = o THEN m ELSE dict[x]]
    /\ Told(o, TRUE, m)

(* A new value enters with a pseudonym that no value has, and that is not  *)
(* itself one of the values entered so far.                                *)
Assign(o, m) ==
    /\ m \notin Range(dict)
    /\ m \notin DOMAIN dict \cup {o}
    /\ Enter(o, m)

(* It may enter with a code instead.  A code is used once, but a value of  *)
(* its format may have it for a pseudonym, or be spelled like it.          *)
Encode(o, c) ==
    /\ \A x \in DOMAIN dict : dict[x] = c => c \in SameShape(x)
    /\ Enter(o, c)

Next ==
    \E o \in Texts :
        \/ \E e \in BOOLEAN : Recall(o, e)
        \/ Redact(o)
        \/ Refuse(o)
        \/ \E m \in SameShape(o) : Assign(o, m)
        \/ \E c \in Codes : Encode(o, c)

Spec == Init /\ [][Next]_dictVars
=============================================================================
