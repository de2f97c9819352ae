------------------------------- MODULE RoundTrip -------------------------------
(***************************************************************************)
(* One exchange seen through its texts: the request body is masked with    *)
(* the vault, the upstream answers with whatever it likes, the response    *)
(* body is masked by the rules of scope response and then unmasked.  This  *)
(* composes Vault.tla with what mask_body and transform_response of lib.rs *)
(* do with it, through matcher.rs, json_walk.rs and unmask.rs.             *)
(*                                                                         *)
(* A body is a sequence of pieces, cut where matches begin and end (see    *)
(* Matcher.tla): a piece has its text, the scope of the rule that won it   *)
(* ("none": no rule, or a key, or JSON syntax), and the number of the JSON *)
(* leaf it is part of; plain text is one leaf.  A text is a sequence of    *)
(* characters.  What is unmasked is the characters and not the pieces: a   *)
(* mask may be spelled across them, or inside one.                         *)
(***************************************************************************)
EXTENDS Naturals, Sequences, FiniteSets, SequencesExt

CONSTANTS
    Lowers, Uppers, Digits, \* the characters that the masker redraws
    Texts, Fallback(_), MaxEntries, \* see Vault.tla
    Requests,  \* the bodies a client may send
    Words,     \* the texts an upstream may write of its own
    Responses, \* the bodies an upstream may answer with
    MaxPieces  \* bound of the model on the pieces of a body

VARIABLES
    entries, by_original, seen_masks, fallback_counter, truncations, log,
    phase,    \* "masking", "upstream", "remasking", "done" or "unbuilt"
    unmask,   \* unmask_response_body of the policy
    json,     \* whether the body at hand is rewritten leaf by leaf
    request,  \* the body of the client
    masked,   \* its pieces rewritten so far
    sent,     \* the body the upstream gets
    response, \* the body of the upstream
    remasked, \* its pieces rewritten so far by rules of scope response
    received  \* the characters the client gets

(* What fp_char may put in place of a character.  The type of the data does *)
(* not matter: its branches keep what the last one keeps as well.           *)
FpChar(c) ==
    CASE c \in Lowers -> Lowers
      [] c \in Uppers -> Uppers
      [] c \in Digits -> Digits
      [] OTHER -> {c}

GenerateFp(t) ==
    {m \in [1..Len(t) -> UNION {FpChar(c) : c \in Range(t)}] :
        \A k \in 1..Len(t) : m[k] \in FpChar(t[k])}

V == INSTANCE Vault WITH FP <- GenerateFp, MaxCalls <- 2 * MaxPieces

vaultVars == <<entries, by_original, seen_masks, fallback_counter, truncations, log>>
vars == <<entries, by_original, seen_masks, fallback_counter, truncations, log,
          phase, unmask, json, request, masked, sent, response, remasked, received>>

Characters == UNION {Range(t) : t \in V!Masks}

Piece(rules) == [text : V!Masks, rule : rules, leaf : 1..MaxPieces]

ASSUME BoundsAssumption == MaxEntries \in Nat /\ MaxPieces \in Nat

(* Texts and tokens are spelled with characters, what is drawn for a text  *)
(* is a text, tokens differ and are not empty.  A text may be spelled like *)
(* a token.                                                                *)
ASSUME TextsAssumption ==
    /\ V!Masks \subseteq Seq(Characters)
    /\ \A t \in Texts : GenerateFp(t) \subseteq Texts
    /\ V!FallbackAssumption
    /\ << >> \notin V!Tokens

LeafOf(body, i) == {k \in 1..Len(body) : body[k].leaf = body[i].leaf}

(* Rules match texts, and nothing in a leaf that is empty (matcher.rs:59); *)
(* the leaves of a body are in order.                                      *)
ASSUME BodiesAssumption ==
    /\ Requests \subseteq Seq(Piece({"none", "both", "request"}))
    /\ Responses \subseteq Seq(Piece({"none", "response"}))
    /\ \A b \in Requests \cup Responses :
          /\ Len(b) <= MaxPieces
          /\ \A i \in 1..Len(b) : b[i].rule # "none" =>
                /\ b[i].text \in Texts
                /\ \E k \in LeafOf(b, i) : b[k].text # << >>
          /\ \A i, j \in 1..Len(b) : i < j => b[i].leaf <= b[j].leaf
    /\ \A b \in Requests : \A i \in 1..Len(b) : b[i].text \in Texts

TextsOf(b) == [i \in 1..Len(b) |-> b[i].text]

PlainText(b) == \A i \in 1..Len(b) : b[i].leaf = 1

(* The characters of the texts at some places of a body. *)
LengthAt(texts, places) ==
    Len(FlattenSeq([i \in 1..Len(texts) |-> IF i \in places THEN texts[i] ELSE << >>]))

Init ==
    /\ V!Init
    /\ phase = "masking"
    /\ unmask \in BOOLEAN
    /\ json \in BOOLEAN
    /\ request \in {b \in Requests : json \/ PlainText(b)}
    /\ masked = << >>
    /\ sent = << >>
    /\ response = << >>
    /\ remasked = << >>
    /\ received = << >>

(***************************************************************************)
(* The rewriting of a body, request side or response side.                 *)
(***************************************************************************)
LastAnswer == log'[Len(log')].mask

(* matcher::rewrite at the next piece: plain text is copied, a match is    *)
(* replaced by what mask_value returns.                                    *)
Rewritten(body, done, enroll) ==
    LET p == body[Len(done) + 1]
    IN  \/ /\ p.rule = "none"
           /\ done' = Append(done, p.text)
           /\ UNCHANGED vaultVars
        \/ /\ p.rule # "none"
           /\ V!MaskValue(p.text, enroll)
           /\ done' = Append(done, LastAnswer)

(* transform_value_ranges: a leaf whose length would change is passed      *)
(* through as it was, with all its matches; plaintext has no such check.   *)
(* Variant: the lengths are not compared. *)
UnguardedBody(body, done, by_leaf) == done

GuardedBody(body, done, by_leaf) ==
    [i \in 1..Len(body) |->
        IF by_leaf /\ LengthAt(done, LeafOf(body, i))
                        # LengthAt(TextsOf(body), LeafOf(body, i))
        THEN body[i].text ELSE done[i]]

(* mask_body, one piece at a time: rules of scope both enroll. *)
MaskPiece ==
    /\ phase = "masking"
    /\ Len(masked) < Len(request)
    /\ Rewritten(request, masked, request[Len(masked) + 1].rule = "both")
    /\ UNCHANGED <<phase, unmask, json, request, sent, response, remasked, received>>

Send ==
    /\ phase = "masking"
    /\ Len(masked) = Len(request)
    /\ phase' = "upstream"
    /\ sent' = GuardedBody(request, masked, json)
    /\ UNCHANGED <<vaultVars, unmask, json, request, masked, response, remasked, received>>

(* The upstream answers, from the texts it was sent and words of its own.  *)
(* Whether the answer is rewritten leaf by leaf is decided anew.           *)
Respond ==
    /\ phase = "upstream"
    /\ json' \in BOOLEAN
    /\ LET known == Words \cup Range(sent)
       IN  \E body \in Responses :
             /\ \A i \in 1..Len(body) : body[i].text \in known
             /\ json' \/ PlainText(body)
             /\ response' = body
    /\ phase' = "remasking"
    /\ UNCHANGED <<vaultVars, unmask, request, masked, sent, remasked, received>>

(* Variant: the masks of the response are enrolled as well. *)
RemaskEnrolling ==
    /\ phase = "remasking"
    /\ Len(remasked) < Len(response)
    /\ Rewritten(response, remasked, TRUE)
    /\ UNCHANGED <<phase, unmask, json, request, masked, sent, response, received>>

(* transform_response, first half: rules of scope response enroll nothing. *)
RemaskPiece ==
    /\ phase = "remasking"
    /\ Len(remasked) < Len(response)
    /\ Rewritten(response, remasked, FALSE)
    /\ UNCHANGED <<phase, unmask, json, request, masked, sent, response, received>>

(***************************************************************************)
(* unmask_text: one pass over the characters.                              *)
(***************************************************************************)
(* The pairs whose mask begins behind the first k characters of a text. *)
MasksAt(text, k) ==
    {n \in 1..Len(entries) : IsPrefix(entries[n].mask, SubSeq(text, k + 1, Len(text)))}

(* Variant: of several masks the one issued first. *)
FoundOldest(pairs) == CHOOSE n \in pairs : \A o \in pairs : n <= o

(* Of several masks the longest (MatchKind::LeftmostLongest), and of two   *)
(* pairs with the same mask the older one.                                 *)
Found(pairs) ==
    CHOOSE n \in pairs : \A o \in pairs :
        \/ Len(entries[o].mask) < Len(entries[n].mask)
        \/ Len(entries[o].mask) = Len(entries[n].mask) /\ n <= o

(* What is put out from the first k characters on: the next mask gives way *)
(* to its original, and the search goes on behind it.                      *)
UnmaskText(text) ==
    LET from[k \in 0..Len(text)] ==
            IF k = Len(text) THEN << >>
            ELSE IF MasksAt(text, k) = {} THEN <<text[k + 1]>> \o from[k + 1]
            ELSE LET pair == entries[Found(MasksAt(text, k))]
                 IN  pair.original \o from[k + Len(pair.mask)]
    IN  from[0]

Remasked == GuardedBody(response, remasked, json)

NeedsUnmask == unmask /\ entries # << >>

(* transform_response, second half. *)
Deliver ==
    /\ phase = "remasking"
    /\ Len(remasked) = Len(response)
    /\ phase' = "done"
    /\ received' = IF NeedsUnmask THEN UnmaskText(FlattenSeq(Remasked))
                   ELSE FlattenSeq(Remasked)
    /\ UNCHANGED <<vaultVars, unmask, json, request, masked, sent, response, remasked>>

(* The automaton over the masks cannot be built: they are left in, and     *)
(* nothing tells.                                                          *)
DeliverMasked ==
    /\ phase = "remasking"
    /\ Len(remasked) = Len(response)
    /\ NeedsUnmask
    /\ FlattenSeq(Remasked) # << >>
    /\ phase' = "unbuilt"
    /\ received' = FlattenSeq(Remasked)
    /\ UNCHANGED <<vaultVars, unmask, json, request, masked, sent, response, remasked>>

Next ==
    \/ MaskPiece
    \/ Send
    \/ Respond
    \/ RemaskPiece
    \/ Deliver
    \/ DeliverMasked

Spec == Init /\ [][Next]_vars

TypeOK ==
    /\ V!TypeOK
    /\ phase \in {"masking", "upstream", "remasking", "done", "unbuilt"}
    /\ unmask \in BOOLEAN
    /\ json \in BOOLEAN
    /\ request \in Seq(Piece({"none", "both", "request"}))
    /\ Len(masked) <= Len(request)
    /\ masked \in Seq(V!Masks)
    /\ sent \in Seq(V!Masks)
    /\ response \in Seq(Piece({"none", "response"}))
    /\ Len(remasked) <= Len(response)
    /\ remasked \in Seq(V!Masks)
    /\ received \in Seq(Characters)

(***************************************************************************)
(* Safety.                                                                 *)
(***************************************************************************)
(* A value that a rule of scope both matched reaches the upstream in clear *)
(* only if the vault was full when it was met, if its leaf, of a JSON body,*)
(* holds a fallback token, or if it is spelled like the token it got:      *)
(* nothing else undoes the masking (mask.rs:104-107, 127,                  *)
(* json_walk.rs:68-76).                                                    *)
ClearOnlyIfAccounted ==
    phase = "upstream" =>
        \A i \in 1..Len(request) :
            request[i].rule = "both" /\ sent[i] = request[i].text =>
                \/ /\ Len(entries) = MaxEntries
                   /\ truncations > 0
                   /\ request[i].text \notin DOMAIN by_original
                \/ /\ json
                   /\ \E k \in LeafOf(request, i) : masked[k] \in V!Tokens
                \/ masked[i] = request[i].text /\ request[i].text \in V!Tokens

(* The values that a rule of scope both masked by a text. *)
SentFor(t) ==
    {request[i].text : i \in {k \in 1..Len(request) :
        request[k].rule = "both" /\ sent[k] = t /\ sent[k] # request[k].text}}

(* The pieces of a body can be told from its characters: no mask begins in *)
(* a piece that was not sent for a value, and none that is longer begins   *)
(* where a mask was put.  Masks inside the masks put are no obstacle.      *)
Unambiguous(texts) ==
    LET all == FlattenSeq(texts)
        before(j) == Len(FlattenSeq(SubSeq(texts, 1, j - 1)))
    IN  \A j \in 1..Len(texts) :
          IF SentFor(texts[j]) = {}
          THEN \A k \in 1..Len(texts[j]) : MasksAt(all, before(j) + k - 1) = {}
          ELSE \A n \in MasksAt(all, before(j)) :
                 Len(entries[n].mask) <= Len(texts[j])

(* No value to be enrolled has the format of a token.  A mask drawn for    *)
(* one that has it may be the token issued to another value, later on.     *)
NoneLikeToken ==
    \A i \in 1..Len(request) :
        request[i].rule = "both" => GenerateFp(request[i].text) \cap V!Tokens = {}

(* Wherever the masks sent for values stand in the response, the client    *)
(* gets those values in their places and the rest as it is, if nothing     *)
(* else there spells a mask: masks never cross and never eat into their    *)
(* neighbours, whatever was masked, refused or passed through on either    *)
(* side.  That holds of a value that a rule of scope response has just     *)
(* masked, too: it is shown in clear (lib.rs:247-281, unmask.rs:26-35).    *)
RoundTrips ==
    phase = "done" /\ unmask /\ NoneLikeToken /\ Unambiguous(Remasked) =>
        /\ \A j \in 1..Len(Remasked) : Cardinality(SentFor(Remasked[j])) <= 1
        /\ received = FlattenSeq(
             [j \in 1..Len(Remasked) |->
                 IF SentFor(Remasked[j]) = {} THEN Remasked[j]
                 ELSE CHOOSE v \in SentFor(Remasked[j]) : TRUE])

(* A request rewritten leaf by leaf keeps its length, whatever the masker  *)
(* and the vault come up with; plaintext keeps it if no token is issued    *)
(* (json_walk.rs:4-12, 69-76).                                             *)
RequestLengthKept ==
    /\ phase = "upstream"
    /\ json \/ \A i \in 1..Len(request) : masked[i] \notin V!Tokens
    =>
        Len(FlattenSeq(sent)) = Len(FlattenSeq(TextsOf(request)))

(* From the moment the request has been sent the pairs stay what they are, *)
(* so that what is unmasked is what was masked on the way out              *)
(* (matcher.rs:34-39, 107-111).                                            *)
PairsFrozenOnceSent ==
    [][phase # "masking" => UNCHANGED <<entries, by_original, seen_masks>>]_vars

(* README.md:227-228 says of scope request that "the client also sees the  *)
(* masked form" of the value.  It sees the value, if the value is enrolled *)
(* by another rule, or another value, if the mask drawn is one issued.     *)
RequestScopeStaysMasked ==
    phase = "done" =>
        \A i \in 1..Len(request) :
            /\ request[i].rule = "request"
            /\ sent[i] # request[i].text
            /\ TextsOf(response) = <<sent[i]>>
            /\ response[1].rule = "none"
            => received = sent[i]

(* lib.rs:239-246 says that unmasking "must preserve the body's byte       *)
(* length exactly" and that it is "length-stable", the masks being         *)
(* format-preserving.  A fallback token is not.                            *)
UnmaskLengthStable ==
    phase = "done" => Len(received) = Len(FlattenSeq(Remasked))
=============================================================================
