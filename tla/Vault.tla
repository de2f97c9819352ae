--------------------------------- MODULE Vault ---------------------------------
(***************************************************************************)
(* The per-request vault of src/mask.rs: the pairs (mask, original) issued *)
(* while the request body is masked, the two indexes over them, and        *)
(* Vault::mask_value with one action per path through it.  A text is a     *)
(* member of Texts; its characters do not matter here, only which texts    *)
(* the masker can draw for it, FP(t).  The generator is a nondeterministic *)
(* choice: it is seeded from the clock and the body, and nothing below     *)
(* relies on which draw it makes.                                          *)
(***************************************************************************)
EXTENDS Naturals, Sequences, FiniteSets, Functions

CONSTANTS
    Texts,        \* the texts that rules match and that masks are drawn from
    FP(_),        \* FP(t): what generate_fp can return for t
    Fallback(_),  \* Fallback(n): the token "##MASK_n_##"
    MaxEntries,   \* max_entries, PolicyConfig::max_vault_entries
    MaxCalls      \* bound of the model on the calls to mask_value

ASSUME BoundsAssumption == MaxEntries \in Nat /\ MaxCalls \in Nat

(* generate_fp replaces a character by one of its class, so it stays among *)
(* the texts of the same format, and it may well redraw the text itself.   *)
ASSUME FPAssumption == \A t \in Texts : t \in FP(t) /\ FP(t) \subseteq Texts

(* Two tokens differ.  A text of the request may be spelled like a token.  *)
ASSUME FallbackAssumption ==
    \A k, n \in 1..MaxEntries : Fallback(k) = Fallback(n) => k = n

Tokens == {Fallback(n) : n \in 1..MaxEntries}
Masks == Texts \cup Tokens

VARIABLES
    entries,          \* Vec<(String, String)>, oldest first
    by_original,      \* original -> position in entries (from 1)
    seen_masks,       \* the masks issued so far
    fallback_counter, \* number of the last fallback token
    truncations,      \* matches passed through because the vault was full
    log               \* history: every call with its answer

vault == <<entries, by_original, seen_masks, fallback_counter, truncations>>
vars == <<entries, by_original, seen_masks, fallback_counter, truncations, log>>

Calls == [original : Texts, enroll : BOOLEAN, mask : Masks]

TypeOK ==
    /\ entries \in Seq([mask : Masks, original : Texts])
    /\ Len(entries) <= MaxEntries
    /\ DOMAIN by_original \subseteq Texts
    /\ by_original \in [DOMAIN by_original -> 1..Len(entries)]
    /\ seen_masks \subseteq Masks
    /\ fallback_counter \in 0..Len(entries)
    /\ truncations \in 0..Len(log)
    /\ log \in Seq(Calls)

(***************************************************************************)
(* The vault of a request, Vault::new.                                     *)
(***************************************************************************)
New ==
    /\ entries = << >>
    /\ by_original = << >>
    /\ seen_masks = {}
    /\ fallback_counter = 0
    /\ truncations = 0

Init == New /\ log = << >>

(***************************************************************************)
(* Variants of the code that the properties below must reject.             *)
(***************************************************************************)
(* Variant: the draw is not compared with the masks already issued. *)
AcceptableUnseen(o, m) == m # o /\ m \notin DOMAIN by_original

(* Variant: the draw is not compared with the originals already enrolled. *)
AcceptableUnindexed(o, m) == m # o /\ m \notin seen_masks

(* Variant: the draw is not compared with the value it stands for. *)
AcceptableSelf(o, m) == m \notin seen_masks /\ m \notin DOMAIN by_original

(* Variant: the capacity test is off by one. *)
FullLate == Len(entries) > MaxEntries

(* Variant: the reverse index is not updated. *)
PushUnindexed(o, m) ==
    /\ seen_masks' = seen_masks \cup {m}
    /\ entries' = Append(entries, [mask |-> m, original |-> o])
    /\ UNCHANGED by_original

(***************************************************************************)
(* Vault::mask_value.  Answer is the value returned to the caller.         *)
(***************************************************************************)
Answer(o, e, m) ==
    log' = Append(log, [original |-> o, enroll |-> e, mask |-> m])

Known(o) == o \in DOMAIN by_original

Full == Len(entries) >= MaxEntries

(* One draw of the retry loop is kept only if it is new in all three ways. *)
Acceptable(o, m) ==
    /\ m # o
    /\ m \notin seen_masks
    /\ m \notin DOMAIN by_original

Push(o, m) ==
    /\ seen_masks' = seen_masks \cup {m}
    /\ entries' = Append(entries, [mask |-> m, original |-> o])
    /\ by_original' = [x \in DOMAIN by_original \cup {o} |->
                         IF x = o THEN Len(entries) + 1 ELSE by_original[x]]

(* The value was enrolled before: its mask again, whatever enroll says. *)
Reuse(o, e) ==
    /\ Known(o)
    /\ Answer(o, e, entries[by_original[o]].mask)
    /\ UNCHANGED vault

(* Variant: the draw is enrolled as well. *)
DrawOnlyRemember(o) ==
    /\ ~Known(o)
    /\ \E m \in FP(o) : Answer(o, FALSE, m) /\ Push(o, m)
    /\ UNCHANGED <<fallback_counter, truncations>>

(* A rule of scope request or response: one unchecked draw, nothing kept. *)
DrawOnly(o) ==
    /\ ~Known(o)
    /\ \E m \in FP(o) : Answer(o, FALSE, m)
    /\ UNCHANGED vault

(* Variant: the refusal is not counted. *)
RefuseUncounted(o) ==
    /\ ~Known(o)
    /\ Full
    /\ Answer(o, TRUE, o)
    /\ UNCHANGED vault

(* The vault is full: the original goes through and is counted. *)
Refuse(o) ==
    /\ ~Known(o)
    /\ Full
    /\ Answer(o, TRUE, o)
    /\ truncations' = truncations + 1
    /\ UNCHANGED <<entries, by_original, seen_masks, fallback_counter>>

(* One of the COLLISION_RETRIES draws is accepted. *)
IssueDraw(o) ==
    /\ ~Known(o)
    /\ ~Full
    /\ \E m \in FP(o) :
         /\ Acceptable(o, m)
         /\ Answer(o, TRUE, m)
         /\ Push(o, m)
    /\ UNCHANGED <<fallback_counter, truncations>>

(* Every draw was rejected, so some text of FP(o) is not acceptable (it    *)
(* may be drawn 16 times running): the next token is issued unchecked.     *)
IssueFallback(o) ==
    /\ ~Known(o)
    /\ ~Full
    /\ \E m \in FP(o) : ~Acceptable(o, m)
    /\ LET n == fallback_counter + 1
       IN  /\ fallback_counter' = n
           /\ Answer(o, TRUE, Fallback(n))
           /\ Push(o, Fallback(n))
    /\ UNCHANGED truncations

MaskValue(o, e) ==
    \/ Reuse(o, e)
    \/ ~e /\ DrawOnly(o)
    \/ e /\ Refuse(o)
    \/ e /\ IssueDraw(o)
    \/ e /\ IssueFallback(o)

Next ==
    /\ Len(log) < MaxCalls
    /\ \E o \in Texts, e \in BOOLEAN : MaskValue(o, e)

Spec == Init /\ [][Next]_vars

(***************************************************************************)
(* Safety.                                                                 *)
(***************************************************************************)
(* The reverse index and the collision set stay in step with the pairs:    *)
(* every original is indexed at its own pair, and a mask is known as       *)
(* issued exactly when some pair holds it (mask.rs:130-133).               *)
IndexConsistent ==
    /\ DOMAIN by_original = {entries[i].original : i \in 1..Len(entries)}
    /\ \A o \in DOMAIN by_original : entries[by_original[o]].original = o
    /\ seen_masks = {entries[i].mask : i \in 1..Len(entries)}

(* No value has two pairs, and no two pairs share a mask, so that replacing *)
(* masks by originals in a response is well defined, with one exception:   *)
(* a token is issued unchecked, and an earlier value of a token's format   *)
(* may have drawn just that one (mask.rs:109-128).                         *)
OneToOne ==
    \A i, j \in 1..Len(entries) :
        i < j =>
            /\ entries[i].original # entries[j].original
            /\ entries[i].mask = entries[j].mask =>
                  entries[j].mask \in Tokens \cap FP(entries[i].original)

(* A mask never shows upstream a value that was enrolled before it, and    *)
(* never the value it stands for, unless that value is spelled like the    *)
(* token issued (mask.rs:113-115, 127).  Nothing is said of the values     *)
(* enrolled later: those the code does not compare.                        *)
MaskIsNoEarlierOriginal ==
    \A i, j \in 1..Len(entries) :
        i <= j /\ entries[j].mask = entries[i].original =>
            entries[j].mask \in Tokens

(* Once an enrolling call has been answered with a mask, every later call  *)
(* for that value gets the same one, enrolling or not; and enrolling calls *)
(* for a value never disagree, even when the vault fills up between them   *)
(* (mask.rs:98-107).                                                       *)
SameMaskOnceEnrolled ==
    \A i, j \in 1..Len(log) :
        /\ i < j
        /\ log[i].original = log[j].original
        /\ log[i].enroll
        => \/ log[j].mask = log[i].mask
           \/ ~log[j].enroll /\ log[i].mask = log[i].original

(* A value that should have been enrolled is handed back as it is only by  *)
(* a full vault, or as a token it is spelled like, and truncations, which  *)
(* the filter reports, counts the calls of the first kind and no others    *)
(* (mask.rs:104-107, lib.rs:138-143).                                      *)
PassedThroughCounted ==
    LET passed == {i \in 1..Len(log) :
                     log[i].enroll /\ ~Known(log[i].original)}
    IN  /\ truncations = Cardinality(passed)
        /\ passed # {} => Len(entries) = MaxEntries
        /\ \A i \in 1..Len(log) :
              log[i].enroll /\ log[i].mask = log[i].original =>
                  i \in passed \/ log[i].mask \in Tokens

(***************************************************************************)
(* The vault implements the dictionary of pseudonyms: a pair of entries is *)
(* an assignment, by_original and seen_masks are how it is looked up.      *)
(***************************************************************************)
dictBar == [o \in DOMAIN by_original |-> entries[by_original[o]].mask]

P == INSTANCE Pseudonyms WITH
        SameShape <- FP, Codes <- Tokens, Cap <- MaxEntries, dict <- dictBar

(* Every run of the vault is a run of the dictionary: known values are     *)
(* recalled, new ones get a fresh pseudonym, a code or, when it is full,   *)
(* nothing (mask.rs:97-134).                                               *)
ImplementsPseudonyms == P!Spec
=============================================================================
