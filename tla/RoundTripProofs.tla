---------------------------- MODULE RoundTripProofs ----------------------------
(***************************************************************************)
(* Theorems about one exchange, for every masker, capacity, request and    *)
(* response. The invariant carries what the vault knows through the        *)
(* phases: each piece masked so far is as long as its text or a token,     *)
(* each value enrolled stands in the vault with the mask that was written  *)
(* for it, no pair is of another value, and what was sent and received is  *)
(* made of those.  VP cites the proofs about the vault, whose assumptions  *)
(* VaultAssumed discharges for this masker.                                *)
(***************************************************************************)
EXTENDS RoundTrip, Flattening, FiniteSetTheorems

VP == INSTANCE VaultProofs WITH FP <- GenerateFp, MaxCalls <- 2 * MaxPieces

(* A text may be drawn for itself, and what is drawn for it is a text of *)
(* its length.                                                           *)
LEMMA DrawsFit ==
    ASSUME NEW t \in Texts
    PROVE  /\ t \in Seq(Characters)
           /\ t \in GenerateFp(t)
           /\ \A m \in GenerateFp(t) : m \in Texts /\ Len(m) = Len(t)
<1>1. t \in Seq(Characters)
  BY TextsAssumption DEF V!Masks
<1>2. Len(t) \in Nat /\ DOMAIN t = 1..Len(t) /\ t = [k \in 1..Len(t) |-> t[k]]
  BY <1>1
<1>3. \A k \in 1..Len(t) : t[k] \in Range(t) /\ t[k] \in FpChar(t[k])
  BY <1>2 DEF Range, FpChar
<1>4. t \in GenerateFp(t)
  BY <1>2, <1>3 DEF GenerateFp
<1>5. ASSUME NEW m \in GenerateFp(t)
      PROVE  m \in Texts /\ Len(m) = Len(t)
  <2>1. m \in Texts
    BY TextsAssumption
  <2>2. m \in Seq(Characters)
    BY <2>1, TextsAssumption DEF V!Masks
  <2>3. DOMAIN m = 1..Len(t)
    BY DEF GenerateFp
  <2> QED
    BY <1>2, <2>1, <2>2, <2>3
<1> QED
  BY <1>1, <1>4, <1>5

(* The masker of the exchange is one the proofs about the vault allow. *)
LEMMA VaultAssumed == VP!BoundsAssumption /\ VP!FPAssumption /\ VP!FallbackAssumption
<1>1. VP!BoundsAssumption
  BY BoundsAssumption DEF VP!BoundsAssumption
<1>2. VP!FPAssumption
  BY DrawsFit DEF VP!FPAssumption
<1>3. VP!FallbackAssumption
  BY TextsAssumption DEF VP!FallbackAssumption, V!FallbackAssumption
<1> QED
  BY <1>1, <1>2, <1>3

(* The vault of the exchange and that of the proofs are the same. *)
LEMMA SameVault ==
    /\ V!Masks = VP!Masks /\ V!Tokens = VP!Tokens
    /\ V!TypeOK <=> VP!TypeOK
    /\ V!Init <=> VP!Init
    /\ V!Masks = Texts \cup V!Tokens
<1>1. V!Tokens = VP!Tokens
  BY DEF V!Tokens, VP!Tokens
<1>2. V!Masks = VP!Masks
  BY <1>1 DEF V!Masks, VP!Masks
<1>3. V!Calls = VP!Calls
  BY <1>2 DEF V!Calls, VP!Calls
<1> QED
  BY <1>1, <1>2, <1>3 DEF V!TypeOK, VP!TypeOK, V!Init, VP!Init, V!New, VP!New, V!Masks

(* What a call of mask_value does, and what it answers. *)
Kinds(o, e) ==
    \/ VP!Recalled(o, e)
    \/ ~e /\ \E m \in GenerateFp(o) : VP!Drawn(o, m)
    \/ e /\ VP!Refuse(o)
    \/ e /\ \E m \in GenerateFp(o) \cup V!Tokens : VP!Issued(o, m)

(* A call of mask_value is one of the four kinds the proofs about the vault *)
(* tell apart, and the draw it makes is one of the masker.                  *)
LEMMA CallKinds ==
    ASSUME VP!IInv, NEW o \in Texts, NEW e \in BOOLEAN, V!MaskValue(o, e)
    PROVE  VP!MaskValue(o, e) /\ Kinds(o, e)
<1>1. VP!MaskValue(o, e)
  BY DEF VP!MaskValue, V!MaskValue, V!Reuse, VP!Reuse, V!Known, VP!Known, V!Answer, VP!Answer,
     V!vault, VP!vault, V!DrawOnly, VP!DrawOnly, V!Refuse, VP!Refuse, V!Full, VP!Full,
     V!IssueDraw, VP!IssueDraw, V!IssueFallback, VP!IssueFallback, V!Push, VP!Push,
     V!Acceptable, VP!Acceptable
<1>2. CASE VP!Reuse(o, e)
  <2>1. VP!Recalled(o, e)
    BY <1>2 DEF VP!Reuse, VP!Recalled
  <2> QED
    BY <1>1, <2>1 DEF Kinds
<1>3. CASE ~e /\ VP!DrawOnly(o)
  <2>1. PICK m \in GenerateFp(o) : VP!Answer(o, FALSE, m)
    BY <1>3 DEF VP!DrawOnly
  <2>2. m \in VP!Masks
    BY DrawsFit, SameVault
  <2>3. VP!Drawn(o, m)
    BY <1>3, <2>1, <2>2 DEF VP!DrawOnly, VP!Drawn
  <2> QED
    BY <1>1, <1>3, <2>3 DEF Kinds
<1>4. CASE e /\ VP!Refuse(o)
  BY <1>1, <1>4 DEF Kinds
<1>5. CASE e /\ VP!IssueDraw(o)
  <2>1. PICK m \in GenerateFp(o) :
          VP!Acceptable(o, m) /\ VP!Answer(o, TRUE, m) /\ VP!Push(o, m)
    BY <1>5 DEF VP!IssueDraw
  <2>2. m \in VP!Masks
    BY DrawsFit, SameVault
  <2>3. VP!Issued(o, m)
    BY <1>5, <2>1, <2>2 DEF VP!IssueDraw, VP!Issued, VP!NewPair, VP!Chosen
  <2>4. m \in GenerateFp(o) \cup V!Tokens
    OBVIOUS
  <2> QED
    BY <1>1, <1>5, <2>3, <2>4 DEF Kinds
<1>6. CASE e /\ VP!IssueFallback(o)
  <2> DEFINE t == VP!NextToken
  <2>1. /\ ~VP!Known(o) /\ ~VP!Full /\ VP!Answer(o, TRUE, t) /\ VP!Push(o, t)
        /\ fallback_counter' = fallback_counter + 1
        /\ UNCHANGED truncations
    BY <1>6 DEF VP!IssueFallback, VP!NextToken
  <2>2. t \in VP!Tokens
    BY <2>1, VP!TokenFresh, VaultAssumed DEF VP!IInv
  <2>3. VP!Chosen(o, t)
    BY <2>1 DEF VP!Chosen
  <2> HIDE DEF t
  <2>4. VP!Issued(o, t) /\ t \in V!Tokens
    BY <2>1, <2>2, <2>3, SameVault DEF VP!Issued, VP!NewPair, V!Masks
  <2>5. t \in GenerateFp(o) \cup V!Tokens
    BY <2>4
  <2> QED
    BY <1>1, <1>6, <2>4, <2>5 DEF Kinds
<1> QED
  BY <1>1, <1>2, <1>3, <1>4, <1>5, <1>6 DEF VP!MaskValue

(* A mask is as long as its value, unless it is a token. *)
Fits(m, o) == Len(m) = Len(o) \/ m \in V!Tokens

Shaped == \A n \in 1..Len(entries) : Fits(entries[n].mask, entries[n].original)

(* What the vault says of a value. *)
Stands(o, m) == o \in DOMAIN by_original /\ m = entries[by_original[o]].mask

VaultInv == VP!IInv /\ Shaped

(* The pairs are the old ones, but for pairs of o. *)
Grown(o) ==
    \A n \in 1..Len(entries') :
        \/ n \in 1..Len(entries) /\ entries'[n] = entries[n]
        \/ entries'[n].original = o

(* What a call of mask_value leaves behind, and what it answers. *)
Called(o, e) ==
    /\ VaultInv'
    /\ Len(log) \in Nat /\ Len(log') = Len(log) + 1
    /\ truncations \in Nat /\ truncations' \in Nat /\ truncations' >= truncations
    /\ \A x, m : Stands(x, m) => Stands(x, m)'
    /\ Grown(o)
    /\ ~e \/ Len(entries) = MaxEntries => UNCHANGED <<entries, by_original, seen_masks>>
    /\ LastAnswer \in V!Masks
    /\ Fits(LastAnswer, o)
    /\ e => \/ o \in DOMAIN by_original' /\ LastAnswer = entries'[by_original'[o]].mask
            \/ /\ Len(entries) = MaxEntries
               /\ o \notin DOMAIN by_original
               /\ LastAnswer = o
               /\ truncations' > 0

(* Every call does and answers what Called says. *)
LEMMA Calling ==
    ASSUME VaultInv, NEW o \in Texts, NEW e \in BOOLEAN, V!MaskValue(o, e),
           Len(log) < 2 * MaxPieces
    PROVE  Called(o, e)
<1>1. VP!IInv /\ VP!TypeOK
  BY DEF VaultInv, VP!IInv
<1>2. VP!MaskValue(o, e) /\ Kinds(o, e)
  BY <1>1, CallKinds
<1>3. VP!IInv'
  <2>1. VP!Next
    BY <1>2 DEF VP!Next
  <2> QED
    BY <1>1, <2>1, VP!NextIInv, VaultAssumed
<1>4. /\ Len(entries) \in Nat /\ Len(log) \in Nat /\ truncations \in Nat
      /\ log \in Seq(VP!Calls) /\ Len(entries) <= MaxEntries
  BY <1>1 DEF VP!TypeOK
<1>5. ASSUME NEW m \in V!Masks, VP!Answer(o, e, m)
      PROVE  Len(log') = Len(log) + 1 /\ LastAnswer = m
  <2>1. log' = Append(log, [original |-> o, enroll |-> e, mask |-> m])
    BY <1>5 DEF VP!Answer
  <2>2. [original |-> o, enroll |-> e, mask |-> m] \in VP!Calls
    BY SameVault DEF VP!Calls
  <2> QED
    BY <1>4, <2>1, <2>2, AppendProperties DEF LastAnswer
<1>6. ASSUME UNCHANGED <<entries, by_original, seen_masks>>
      PROVE  /\ \A x, m : Stands(x, m) => Stands(x, m)'
             /\ Shaped'
             /\ Grown(o)
  BY <1>6 DEF Stands, Shaped, VaultInv, Grown
<1>7. CASE VP!Recalled(o, e)
  <2> DEFINE m == entries[by_original[o]].mask
  <2>1. /\ VP!Known(o) /\ VP!Answer(o, e, m)
        /\ UNCHANGED <<entries, by_original, seen_masks, truncations>>
    BY <1>7 DEF VP!Recalled, VP!vault
  <2>2. m \in V!Masks
    BY <1>1, <2>1, VP!ReuseMask, VaultAssumed, SameVault
  <2>3. /\ by_original[o] \in 1..Len(entries)
        /\ entries[by_original[o]].original = o
    BY <1>1, <2>1, VP!PairOf, VaultAssumed DEF VP!Known
  <2>4. Fits(m, o)
    BY <2>3 DEF VaultInv, Shaped
  <2>5. o \in DOMAIN by_original' /\ m = entries'[by_original'[o]].mask
    BY <2>1 DEF VP!Known
  <2> HIDE DEF m
  <2>6. Len(log') = Len(log) + 1 /\ LastAnswer = m
    BY <1>5, <2>1, <2>2
  <2> QED
    BY <1>3, <1>4, <1>6, <2>1, <2>2, <2>4, <2>5, <2>6 DEF Called, VaultInv
<1>8. CASE ~e /\ \E m \in GenerateFp(o) : VP!Drawn(o, m)
  <2>1. PICK m \in GenerateFp(o) : VP!Drawn(o, m)
    BY <1>8
  <2>2. VP!Answer(o, e, m) /\ UNCHANGED <<entries, by_original, seen_masks, truncations>>
    BY <1>8, <2>1 DEF VP!Drawn, VP!vault
  <2>3. m \in V!Masks /\ Fits(m, o)
    BY DrawsFit, SameVault DEF Fits
  <2>4. Len(log') = Len(log) + 1 /\ LastAnswer = m
    BY <1>5, <2>2, <2>3
  <2> QED
    BY <1>3, <1>4, <1>6, <1>8, <2>2, <2>3, <2>4 DEF Called, VaultInv
<1>9. CASE e /\ VP!Refuse(o)
  <2>1. /\ VP!Answer(o, TRUE, o) /\ o \notin DOMAIN by_original
        /\ Len(entries) >= MaxEntries
        /\ truncations' = truncations + 1
        /\ UNCHANGED <<entries, by_original, seen_masks>>
    BY <1>9 DEF VP!Refuse, VP!Full, VP!Known
  <2>2. Len(entries) = MaxEntries /\ truncations' \in Nat /\ truncations' > 0
    BY <1>4, <2>1, BoundsAssumption
  <2>3. VP!Answer(o, e, o)
    BY <1>9, <2>1
  <2>4. o \in V!Masks /\ Fits(o, o)
    BY SameVault DEF Fits
  <2>5. Len(log') = Len(log) + 1 /\ LastAnswer = o
    BY <1>5, <2>4, <2>3
  <2> QED
    BY <1>3, <1>4, <1>6, <2>1, <2>4, <2>5, <2>2 DEF Called, VaultInv
<1>10. CASE e /\ \E m \in GenerateFp(o) \cup V!Tokens : VP!Issued(o, m)
  <2>1. PICK m \in GenerateFp(o) \cup V!Tokens : VP!Issued(o, m)
    BY <1>10
  <2>2. m \in V!Masks /\ Fits(m, o)
    BY DrawsFit, SameVault DEF Fits
  <2>3. VP!NewPair(o, m) /\ VP!Answer(o, e, m) /\ UNCHANGED truncations
    BY <1>10, <2>1 DEF VP!Issued
  <2>4. /\ Len(entries') = Len(entries) + 1
        /\ \A i \in 1..Len(entries) : entries'[i] = entries[i]
        /\ entries'[Len(entries) + 1] = [mask |-> m, original |-> o]
    BY <1>1, <2>3, VP!PushEntries, VaultAssumed
  <2>5. /\ DOMAIN by_original' = DOMAIN by_original \cup {o}
        /\ by_original'[o] = Len(entries) + 1
        /\ \A x \in DOMAIN by_original : by_original'[x] = by_original[x]
    BY <2>3 DEF VP!NewPair, VP!Push, VP!Known
  <2>6. Shaped'
    <3>1. ASSUME NEW n \in 1..Len(entries')
          PROVE  Fits(entries'[n].mask, entries'[n].original)
      <4>1. CASE n \in 1..Len(entries)
        BY <2>4, <4>1 DEF VaultInv, Shaped
      <4>2. CASE n = Len(entries) + 1
        BY <2>2, <2>4, <4>2
      <4> QED
        BY <1>4, <2>4, <4>1, <4>2
    <3> QED
      BY <3>1 DEF Shaped, Fits, V!Tokens
  <2>7. o \in DOMAIN by_original' /\ m = entries'[by_original'[o]].mask
    BY <2>4, <2>5
  <2>8. ASSUME NEW x, NEW y, Stands(x, y)
        PROVE  Stands(x, y)'
    <3>1. x \in DOMAIN by_original /\ by_original[x] \in 1..Len(entries)
      BY <1>1, <2>8 DEF Stands, VP!TypeOK
    <3>2. x \in DOMAIN by_original' /\ by_original'[x] = by_original[x]
      BY <2>5, <3>1
    <3>3. entries'[by_original'[x]] = entries[by_original[x]]
      BY <2>4, <3>1, <3>2
    <3> QED
      BY <2>8, <3>2, <3>3 DEF Stands
  <2>9. Len(entries) # MaxEntries
    BY <1>4, <2>3, BoundsAssumption DEF VP!NewPair, VP!Full
  <2>10. Len(log') = Len(log) + 1 /\ LastAnswer = m
    BY <1>5, <2>2, <2>3
  <2>11. truncations' \in Nat /\ truncations' >= truncations
    BY <1>4, <2>3
  <2>12. Grown(o)
    <3>1. \A n \in 1..Len(entries') : n \in 1..Len(entries) \/ n = Len(entries) + 1
      BY <1>4, <2>4
    <3> QED
      BY <2>4, <3>1 DEF Grown
  <2> QED
    BY <1>3, <1>4, <1>10, <2>2, <2>6, <2>7, <2>8, <2>9, <2>10, <2>11, <2>12
    DEF Called, VaultInv
<1> QED
  BY <1>2, <1>7, <1>8, <1>9, <1>10 DEF Kinds

-----------------------------------------------------------------------------
(* The pieces of a body rewritten so far. *)
Rewrites(body, done) ==
    /\ Len(done) <= Len(body)
    /\ done \in Seq(V!Masks)
    /\ \A i \in 1..Len(done) :
         /\ Fits(done[i], body[i].text)
         /\ body[i].rule = "none" => done[i] = body[i].text

(* A value enrolled has its mask in the vault, or found the vault full. *)
Enrolled ==
    \A i \in 1..Len(masked) :
        request[i].rule = "both" =>
            \/ Stands(request[i].text, masked[i])
            \/ /\ Len(entries) = MaxEntries /\ truncations > 0
               /\ request[i].text \notin DOMAIN by_original
               /\ masked[i] = request[i].text

(* Every value of a pair is one that a rule of scope both matched. *)
FromRequest ==
    \A n \in 1..Len(entries) : \E i \in 1..Len(request) :
        request[i].rule = "both" /\ request[i].text = entries[n].original

(* The client has its answer. *)
Delivered == phase \in {"done", "unbuilt"}

Phases ==
    /\ phase \in {"masking", "upstream", "remasking", "done", "unbuilt"}
    /\ unmask \in BOOLEAN
    /\ json \in BOOLEAN
    /\ request \in Requests
    /\ phase = "masking" => sent = << >>
    /\ phase \in {"masking", "upstream"} => response = << >> /\ remasked = << >>
    /\ phase \in {"remasking", "done", "unbuilt"} => response \in Responses
    /\ ~Delivered => received = << >>

(* What was sent is the body masked, but for what a guard undid. *)
SentAsMasked ==
    phase # "masking" =>
        /\ Len(masked) = Len(request)
        /\ sent \in Seq(V!Masks)
        /\ Len(sent) = Len(request)
        /\ \A i \in 1..Len(request) : sent[i] \in {masked[i], request[i].text}
        /\ phase = "upstream" => sent = GuardedBody(request, masked, json)

Received ==
    /\ Delivered => Len(remasked) = Len(response)
    /\ phase = "done" =>
          received = IF NeedsUnmask THEN UnmaskText(FlattenSeq(Remasked))
                     ELSE FlattenSeq(Remasked)
    /\ phase = "unbuilt" => received = FlattenSeq(Remasked)

IInv ==
    /\ VaultInv
    /\ Len(log) <= Len(masked) + Len(remasked)
    /\ Phases
    /\ Rewrites(request, masked)
    /\ Rewrites(response, remasked)
    /\ Enrolled
    /\ FromRequest
    /\ SentAsMasked
    /\ Received

(* A body rewritten one piece further is rewritten. *)
LEMMA OneMore ==
    ASSUME NEW body, NEW done, NEW m \in V!Masks, Rewrites(body, done), Len(body) \in Nat,
           Len(done) < Len(body), NEW p, p = body[Len(done) + 1], Fits(m, p.text),
           p.rule = "none" => m = p.text
    PROVE  /\ Rewrites(body, Append(done, m))
           /\ Len(Append(done, m)) = Len(done) + 1
           /\ \A i \in 1..Len(done) : Append(done, m)[i] = done[i]
           /\ Append(done, m)[Len(done) + 1] = m
           /\ Len(done) \in Nat
<1>1. done \in Seq(V!Masks) /\ Len(done) \in Nat
  BY DEF Rewrites
<1> DEFINE longer == Append(done, m)
<1>2. /\ longer \in Seq(V!Masks)
      /\ Len(longer) = Len(done) + 1
      /\ \A i \in 1..Len(done) : longer[i] = done[i]
      /\ longer[Len(done) + 1] = m
  BY <1>1, AppendProperties
<1> HIDE DEF longer
<1>3. ASSUME NEW i \in 1..Len(longer)
      PROVE  /\ Fits(longer[i], body[i].text)
             /\ body[i].rule = "none" => longer[i] = body[i].text
  <2>1. CASE i \in 1..Len(done)
    BY <1>2, <2>1 DEF Rewrites
  <2>2. CASE i = Len(done) + 1
    BY <1>2, <2>2
  <2> QED
    BY <1>1, <1>2, <2>1, <2>2
<1>4. Rewrites(body, longer)
  BY <1>1, <1>2, <1>3 DEF Rewrites
<1> QED
  BY <1>1, <1>2, <1>4 DEF longer

(* The bodies are what the assumption on them says. *)
LEMMA RequestPieces ==
    ASSUME request \in Requests
    PROVE  /\ request \in Seq(Piece({"none", "both", "request"}))
           /\ Len(request) \in Nat /\ Len(request) <= MaxPieces
           /\ \A i \in 1..Len(request) :
                /\ request[i] \in Piece({"none", "both", "request"})
                /\ request[i].text \in Texts
                /\ request[i].text \in V!Masks
                /\ request[i].leaf \in 1..MaxPieces
<1>1. request \in Seq(Piece({"none", "both", "request"})) /\ Len(request) <= MaxPieces
  BY BodiesAssumption
<1>2. \A i \in 1..Len(request) : request[i] \in Piece({"none", "both", "request"})
  BY <1>1, ElementOfSeq
<1>3. \A i \in 1..Len(request) : request[i].text \in Texts
  BY BodiesAssumption
<1> QED
  BY <1>1, <1>2, <1>3, LenProperties DEF Piece

(* The same of the response. *)
LEMMA ResponsePieces ==
    ASSUME response \in Responses \cup {<< >>}
    PROVE  /\ response \in Seq(Piece({"none", "response"}))
           /\ Len(response) \in Nat /\ Len(response) <= MaxPieces
           /\ \A i \in 1..Len(response) :
                /\ response[i].text \in V!Masks
                /\ response[i].rule # "none" => response[i].text \in Texts
<1>1. response \in Seq(Piece({"none", "response"})) /\ Len(response) <= MaxPieces
  <2>1. CASE response \in Responses
    BY <2>1, BodiesAssumption
  <2>2. CASE response = << >>
    BY <2>2, BoundsAssumption, EmptySeq
  <2> QED
    BY <2>1, <2>2
<1>2. \A i \in 1..Len(response) : response[i] \in Piece({"none", "response"})
  BY <1>1, ElementOfSeq
<1>3. \A i \in 1..Len(response) : response[i].rule # "none" => response[i].text \in Texts
  BY BodiesAssumption, EmptySeq
<1> QED
  BY <1>1, <1>2, <1>3, LenProperties DEF Piece

(* The invariant holds before the first piece is masked. *)
LEMMA InitIInv == Init => IInv
<1> SUFFICES ASSUME Init PROVE IInv
  OBVIOUS
<1>1. VP!IInv
  BY VP!InitIInv, VaultAssumed, SameVault DEF Init
<1>2. entries = << >> /\ log = << >>
  BY DEF Init, V!Init, V!New
<1>3. Shaped
  BY <1>2 DEF Shaped
<1>4. Phases
  BY DEF Init, Phases, Delivered
<1>5. Rewrites(request, masked) /\ Rewrites(response, remasked)
  BY <1>4, RequestPieces, EmptySeq DEF Init, Rewrites, Phases
<1>6. Enrolled /\ FromRequest /\ SentAsMasked /\ Received
  BY <1>2 DEF Init, Enrolled, FromRequest, SentAsMasked, Received, Delivered
<1>7. Len(log) <= Len(masked) + Len(remasked)
  BY <1>2, EmptySeq DEF Init
<1> QED
  BY <1>1, <1>3, <1>4, <1>5, <1>6, <1>7 DEF IInv, VaultInv

(* One piece rewritten, to m. *)
Wrote(p, e, m) ==
    /\ VaultInv'
    /\ Len(log') \in Nat /\ Len(log') <= Len(log) + 1
    /\ truncations' \in Nat /\ truncations' >= truncations
    /\ \A x, y : Stands(x, y) => Stands(x, y)'
    /\ UNCHANGED entries \/ (e /\ p.rule # "none" /\ Grown(p.text))
    /\ ~e \/ Len(entries) = MaxEntries => UNCHANGED <<entries, by_original, seen_masks>>
    /\ m \in V!Masks
    /\ Fits(m, p.text)
    /\ p.rule = "none" => m = p.text
    /\ p.rule # "none" /\ e =>
         \/ p.text \in DOMAIN by_original' /\ m = entries'[by_original'[p.text]].mask
         \/ /\ Len(entries) = MaxEntries
            /\ p.text \notin DOMAIN by_original
            /\ m = p.text
            /\ truncations' > 0

(* Every piece is rewritten as Wrote says. *)
LEMMA Writing ==
    ASSUME VaultInv, NEW p, NEW e \in BOOLEAN, NEW m, Len(log) < 2 * MaxPieces,
           p.text \in V!Masks, p.rule # "none" => p.text \in Texts,
           \/ p.rule = "none" /\ m = p.text /\ UNCHANGED vaultVars
           \/ p.rule # "none" /\ V!MaskValue(p.text, e) /\ m = LastAnswer
    PROVE  Wrote(p, e, m)
<1>1. Len(log) \in Nat /\ truncations \in Nat
  BY DEF VaultInv, VP!IInv, VP!TypeOK
<1>2. CASE p.rule = "none" /\ m = p.text /\ UNCHANGED vaultVars
  <2>1. UNCHANGED <<entries, by_original, seen_masks, fallback_counter, truncations, log>>
    BY <1>2 DEF vaultVars
  <2>2. VP!IInv'
    BY <2>1, VP!NextIInv, VaultAssumed DEF VP!vars, VaultInv
  <2>3. Shaped'
    BY <2>1 DEF VaultInv, Shaped
  <2> QED
    BY <1>1, <1>2, <2>1, <2>2, <2>3 DEF Wrote, VaultInv, Stands, Fits
<1>3. CASE p.rule # "none" /\ V!MaskValue(p.text, e) /\ m = LastAnswer
  <2>1. Called(p.text, e)
    BY <1>3, Calling
  <2> QED
    BY <1>1, <1>3, <2>1 DEF Called, Wrote
<1> QED
  BY <1>2, <1>3

(* mask_body keeps the invariant: the next piece is copied or masked. *)
LEMMA MaskPieceKeeps == ASSUME IInv, MaskPiece PROVE IInv'
<1> DEFINE n == Len(masked) + 1
           p == request[n]
           e == p.rule = "both"
<1>1. /\ phase = "masking" /\ Len(masked) < Len(request)
      /\ Rewritten(request, masked, e)
      /\ UNCHANGED <<phase, unmask, json, request, sent, response, remasked, received>>
  BY DEF MaskPiece
<1>2. /\ VaultInv /\ Phases /\ Rewrites(request, masked) /\ Enrolled
      /\ Len(log) <= Len(masked) + Len(remasked)
      /\ masked \in Seq(V!Masks) /\ remasked = << >> /\ sent = << >>
      /\ Rewrites(response, remasked)
  BY <1>1 DEF IInv, Rewrites, Phases
<1>3. /\ Len(request) \in Nat /\ Len(request) <= MaxPieces /\ Len(masked) \in Nat
      /\ n \in 1..Len(request)
  BY <1>1, <1>2, RequestPieces DEF Phases
<1>4. p.text \in Texts /\ p.text \in V!Masks
  BY <1>2, <1>3, RequestPieces DEF Phases
<1>5. /\ Len(log) \in Nat /\ truncations \in Nat /\ Len(log) < 2 * MaxPieces
      /\ Len(remasked) = 0
  <2>1. Len(log) \in Nat /\ truncations \in Nat
    BY <1>2 DEF VaultInv, VP!IInv, VP!TypeOK
  <2>2. Len(remasked) = 0
    BY <1>2, EmptySeq
  <2> QED
    BY <1>1, <1>2, <1>3, <2>1, <2>2, BoundsAssumption
<1>6. PICK m : /\ masked' = Append(masked, m)
               /\ \/ p.rule = "none" /\ m = p.text /\ UNCHANGED vaultVars
                  \/ p.rule # "none" /\ V!MaskValue(p.text, e) /\ m = LastAnswer
  BY <1>1 DEF Rewritten
<1>7. e \in BOOLEAN
  OBVIOUS
<1> HIDE DEF p, e
<1>8. Wrote(p, e, m)
  BY <1>2, <1>4, <1>5, <1>6, <1>7, Writing
<1>9. /\ Rewrites(request, masked') /\ Len(masked') = n
      /\ \A i \in 1..Len(masked) : masked'[i] = masked[i]
      /\ masked'[n] = m
  <2>1. Fits(m, p.text) /\ m \in V!Masks /\ (p.rule = "none" => m = p.text)
    BY <1>8 DEF Wrote
  <2>2. p = request[Len(masked) + 1]
    BY DEF p
  <2>3. /\ Rewrites(request, Append(masked, m))
        /\ Len(Append(masked, m)) = Len(masked) + 1
        /\ \A i \in 1..Len(masked) : Append(masked, m)[i] = masked[i]
        /\ Append(masked, m)[Len(masked) + 1] = m
    BY <1>1, <1>2, <1>3, <2>1, <2>2, OneMore
  <2>4. masked' = Append(masked, m)
    BY <1>6
  <2> QED
    BY <2>3, <2>4
<1>10. ASSUME NEW i \in 1..Len(masked'), request[i].rule = "both"
       PROVE  \/ /\ request[i].text \in DOMAIN by_original'
                 /\ masked'[i] = entries'[by_original'[request[i].text]].mask
              \/ /\ Len(entries') = MaxEntries /\ truncations' > 0
                 /\ request[i].text \notin DOMAIN by_original'
                 /\ masked'[i] = request[i].text
  <2>1. CASE i \in 1..Len(masked) /\ Stands(request[i].text, masked[i])
    <3>1. Stands(request[i].text, masked[i])'
      <4> DEFINE x == request[i].text
                 y == masked[i]
      <4>1. Stands(x, y)
        BY <2>1
      <4>2. request' = request /\ masked'[i] = y
        BY <1>1, <1>9, <2>1
      <4>3. \A v, w : Stands(v, w) => v \in DOMAIN by_original' /\ w = entries'[by_original'[v]].mask
        BY <1>8 DEF Wrote, Stands
      <4> HIDE DEF x, y
      <4>4. x \in DOMAIN by_original' /\ y = entries'[by_original'[x]].mask
        BY <4>1, <4>3
      <4> QED
        BY <4>2, <4>4 DEF Stands, x
    <3> QED
      BY <1>1, <3>1 DEF Stands
  <2>2. CASE i \in 1..Len(masked) /\ ~Stands(request[i].text, masked[i])
    <3>1. /\ Len(entries) = MaxEntries /\ truncations > 0
          /\ request[i].text \notin DOMAIN by_original
          /\ masked[i] = request[i].text
      BY <1>2, <1>10, <2>2 DEF Enrolled
    <3>2. UNCHANGED <<entries, by_original>> /\ truncations' > 0
      BY <1>5, <1>8, <3>1 DEF Wrote
    <3> QED
      BY <1>9, <2>2, <3>1, <3>2
  <2>3. CASE i = n
    <3>1. p.rule # "none" /\ e /\ p = request[i]
      BY <1>10, <2>3 DEF p, e
    <3>2. CASE p.text \in DOMAIN by_original' /\ m = entries'[by_original'[p.text]].mask
      BY <1>9, <2>3, <3>1, <3>2
    <3>3. CASE /\ Len(entries) = MaxEntries
               /\ p.text \notin DOMAIN by_original
               /\ m = p.text
               /\ truncations' > 0
      <4>1. UNCHANGED <<entries, by_original>>
        BY <1>8, <3>3 DEF Wrote
      <4> QED
        BY <1>9, <2>3, <3>1, <3>3, <4>1
    <3> QED
      BY <1>8, <3>1, <3>2, <3>3 DEF Wrote
  <2>4. i \in 1..Len(masked) \/ i = n
    BY <1>3, <1>9 DEF n
  <2> QED
    BY <2>1, <2>2, <2>3, <2>4
<1>11. Enrolled'
  BY <1>1, <1>10 DEF Enrolled, Stands
<1>12. Len(log') <= Len(masked') + Len(remasked')
  <2>1. Len(log') \in Nat /\ Len(log') <= Len(log) + 1
    BY <1>8 DEF Wrote
  <2> QED
    BY <1>1, <1>2, <1>3, <1>5, <1>9, <2>1 DEF n
<1>13. Phases' /\ SentAsMasked' /\ Received'
  BY <1>1, <1>2 DEF Phases, SentAsMasked, Received, Delivered
<1>14. FromRequest'
  <2>1. request' = request
    BY <1>1
  <2>2. FromRequest
    BY DEF IInv
  <2>3. CASE UNCHANGED entries
    BY <2>1, <2>2, <2>3 DEF FromRequest
  <2>4. CASE e /\ Grown(p.text)
    <3>1. request[n].rule = "both" /\ request[n].text = p.text
      BY <2>4 DEF e, p
    <3>2. ASSUME NEW k \in 1..Len(entries')
          PROVE  \E i \in 1..Len(request) :
                    request[i].rule = "both" /\ request[i].text = entries'[k].original
      <4>1. CASE k \in 1..Len(entries) /\ entries'[k] = entries[k]
        BY <2>2, <4>1 DEF FromRequest
      <4>2. CASE entries'[k].original = p.text
        BY <1>3, <3>1, <4>2
      <4> QED
        BY <2>4, <4>1, <4>2 DEF Grown
    <3> QED
      BY <2>1, <3>2 DEF FromRequest
  <2> QED
    BY <1>8, <2>3, <2>4 DEF Wrote
<1>15. Rewrites(request', masked') /\ Rewrites(response', remasked') /\ VaultInv'
  BY <1>1, <1>2, <1>8, <1>9 DEF Wrote
<1>16. Rewrites(request, masked)' /\ Rewrites(response, remasked)'
  BY <1>15 DEF Rewrites, Fits, V!Masks, V!Tokens
<1> QED
  BY <1>11, <1>12, <1>13, <1>14, <1>15, <1>16 DEF IInv

(* What does not touch the vault keeps what is known of it. *)
LEMMA VaultKept ==
    ASSUME IInv,
           UNCHANGED <<entries, by_original, seen_masks, fallback_counter, truncations, log>>
    PROVE  /\ VaultInv'
           /\ UNCHANGED <<request, masked>> => Enrolled' /\ Rewrites(request, masked)'
           /\ UNCHANGED request => FromRequest'
           /\ UNCHANGED <<response, remasked>> => Rewrites(response, remasked)'
<1>1. VP!IInv'
  BY VP!NextIInv, VaultAssumed DEF VP!vars, IInv, VaultInv
<1>2. Shaped'
  BY DEF IInv, VaultInv, Shaped
<1>3. UNCHANGED <<request, masked>> => Enrolled' /\ Rewrites(request, masked)'
  BY DEF IInv, Enrolled, Stands, Rewrites, Fits, V!Masks, V!Tokens
<1>4. UNCHANGED <<response, remasked>> => Rewrites(response, remasked)'
  BY DEF IInv, Rewrites, Fits, V!Masks, V!Tokens
<1>5. UNCHANGED request => FromRequest'
  BY DEF IInv, FromRequest
<1> QED
  BY <1>1, <1>2, <1>3, <1>4, <1>5 DEF VaultInv

(* Unmasking depends on the pairs alone. *)
LEMMA SameUnmasking ==
    ASSUME UNCHANGED <<entries, unmask, json, response, remasked>>
    PROVE  /\ NeedsUnmask' <=> NeedsUnmask
           /\ FlattenSeq(Remasked)' = FlattenSeq(Remasked)
           /\ UnmaskText(FlattenSeq(Remasked))' = UnmaskText(FlattenSeq(Remasked))
<1>1. Remasked' = Remasked
  BY DEF Remasked, GuardedBody, LengthAt, LeafOf, TextsOf
<1>2. NeedsUnmask' <=> NeedsUnmask
  BY DEF NeedsUnmask
<1> QED
  BY <1>1, <1>2 DEF UnmaskText, MasksAt, Found

(* What the guard on the lengths makes of a body. *)
LEMMA Guarding ==
    ASSUME NEW body, NEW done, NEW by_leaf, Rewrites(body, done), Len(done) = Len(body),
           Len(body) \in Nat, \A i \in 1..Len(body) : body[i].text \in V!Masks
    PROVE  LET guarded == GuardedBody(body, done, by_leaf)
           IN  /\ guarded \in Seq(V!Masks)
               /\ Len(guarded) = Len(body)
               /\ \A i \in 1..Len(body) : guarded[i] \in {done[i], body[i].text}
<1> DEFINE Undone(i) == by_leaf /\ LengthAt(done, LeafOf(body, i))
                                    # LengthAt(TextsOf(body), LeafOf(body, i))
           guarded == [i \in 1..Len(body) |-> IF Undone(i) THEN body[i].text ELSE done[i]]
<1>1. GuardedBody(body, done, by_leaf) = guarded
  BY DEF GuardedBody
<1> HIDE DEF Undone
<1>2. \A i \in 1..Len(body) : done[i] \in V!Masks
  BY ElementOfSeq DEF Rewrites
<1>3. \A i \in 1..Len(body) : guarded[i] \in {done[i], body[i].text}
  OBVIOUS
<1>4. guarded \in Seq(V!Masks) /\ Len(guarded) = Len(body)
  BY <1>2
<1> QED
  BY <1>1, <1>3, <1>4

(* What is sent depends on the request and on what was masked of it alone. *)
LEMMA SameSending ==
    ASSUME UNCHANGED <<json, request, masked>>
    PROVE  /\ GuardedBody(request, masked, json)' = GuardedBody(request, masked, json)
           /\ V!Masks' = V!Masks
<1>1. V!Masks' = V!Masks
  BY DEF V!Masks, V!Tokens
<1>2. GuardedBody(request, masked, json)' = GuardedBody(request, masked, json)
  BY DEF GuardedBody, LengthAt, LeafOf, TextsOf
<1> QED
  BY <1>1, <1>2

(* Sending keeps it: a leaf is sent as masked or as it was. *)
LEMMA SendKeeps == ASSUME IInv, Send PROVE IInv'
<1>1. /\ phase = "masking" /\ Len(masked) = Len(request)
      /\ phase' = "upstream" /\ sent' = GuardedBody(request, masked, json)
      /\ UNCHANGED <<entries, by_original, seen_masks, fallback_counter, truncations, log>>
      /\ UNCHANGED <<unmask, json, request, masked, response, remasked, received>>
  BY DEF Send, vaultVars
<1>2. /\ VaultInv' /\ Enrolled' /\ FromRequest'
      /\ Rewrites(request, masked)' /\ Rewrites(response, remasked)'
  BY <1>1, VaultKept DEF IInv
<1>3. /\ Rewrites(request, masked) /\ Phases
      /\ \A i \in 1..Len(request) : request[i].text \in V!Masks
  BY RequestPieces DEF IInv, Phases
<1>4. /\ sent' \in Seq(V!Masks)
      /\ Len(sent') = Len(request)
      /\ \A i \in 1..Len(request) : sent'[i] \in {masked[i], request[i].text}
  BY <1>1, <1>3, RequestPieces, Guarding DEF Phases
<1>5. SentAsMasked'
  BY <1>1, <1>4, SameSending DEF SentAsMasked
<1>6. Phases' /\ Received' /\ Len(log') <= Len(masked') + Len(remasked')
  BY <1>1, <1>3 DEF IInv, Phases, Received, Delivered
<1> QED
  BY <1>2, <1>5, <1>6 DEF IInv

(* The upstream may answer whatever it likes. *)
LEMMA RespondKeeps == ASSUME IInv, Respond PROVE IInv'
<1>1. /\ phase = "upstream" /\ phase' = "remasking"
      /\ json' \in BOOLEAN /\ response' \in Responses
      /\ UNCHANGED <<entries, by_original, seen_masks, fallback_counter, truncations, log>>
      /\ UNCHANGED <<unmask, request, masked, sent, remasked, received>>
  BY DEF Respond, vaultVars
<1>2. VaultInv' /\ Enrolled' /\ FromRequest' /\ Rewrites(request, masked)'
  BY <1>1, VaultKept DEF IInv
<1>3. Phases' /\ Received' /\ Len(log') <= Len(masked') + Len(remasked')
  BY <1>1 DEF IInv, Phases, Received, Delivered
<1>4. Rewrites(response, remasked)'
  <2>1. remasked' = << >>
    BY <1>1 DEF IInv, Phases
  <2>2. Len(response') \in Nat
    BY <1>1, BodiesAssumption
  <2> QED
    BY <2>1, <2>2, EmptySeq DEF Rewrites
<1>5. SentAsMasked'
  BY <1>1 DEF IInv, SentAsMasked, V!Masks, V!Tokens
<1> QED
  BY <1>2, <1>3, <1>4, <1>5 DEF IInv

(* What mask_body of scope response does to the next piece of the response. *)
LEMMA Remasking ==
    ASSUME IInv, RemaskPiece
    PROVE  /\ Len(request) \in Nat /\ Len(response) \in Nat /\ Len(remasked) \in Nat
           /\ \E m : /\ remasked' = Append(remasked, m)
                    /\ Wrote(response[Len(remasked) + 1], FALSE, m)
<1> DEFINE n == Len(remasked) + 1
           p == response[n]
<1>1. /\ phase = "remasking" /\ Len(remasked) < Len(response)
      /\ Rewritten(response, remasked, FALSE)
      /\ UNCHANGED <<phase, unmask, json, request, masked, sent, response, received>>
  BY DEF RemaskPiece
<1>2. /\ VaultInv /\ Phases /\ Rewrites(request, masked) /\ Enrolled
      /\ Len(log) <= Len(masked) + Len(remasked)
      /\ Rewrites(response, remasked) /\ SentAsMasked /\ Received
      /\ Len(masked) = Len(request)
  BY <1>1 DEF IInv, SentAsMasked
<1>3. /\ Len(request) \in Nat /\ Len(request) <= MaxPieces
      /\ Len(response) \in Nat /\ Len(response) <= MaxPieces /\ Len(remasked) \in Nat
      /\ n \in 1..Len(response)
      /\ p.text \in V!Masks /\ (p.rule # "none" => p.text \in Texts)
  <2>1. Len(remasked) \in Nat
    BY <1>2 DEF Rewrites
  <2>2. Len(request) \in Nat /\ Len(request) <= MaxPieces
    BY <1>2, RequestPieces DEF Phases
  <2>3. response \in Responses \cup {<< >>}
    BY <1>1, <1>2 DEF Phases
  <2>4. n \in 1..Len(response)
    BY <1>1, <2>1, <2>3, ResponsePieces
  <2> QED
    BY <2>1, <2>2, <2>3, <2>4, ResponsePieces
<1>4. Len(log) \in Nat /\ Len(log) < 2 * MaxPieces
  <2>1. Len(log) \in Nat
    BY <1>2 DEF VaultInv, VP!IInv, VP!TypeOK
  <2> QED
    BY <1>1, <1>2, <1>3, <2>1, BoundsAssumption
<1>5. PICK m : /\ remasked' = Append(remasked, m)
               /\ \/ p.rule = "none" /\ m = p.text /\ UNCHANGED vaultVars
                  \/ p.rule # "none" /\ V!MaskValue(p.text, FALSE) /\ m = LastAnswer
  BY <1>1 DEF Rewritten
<1> HIDE DEF p
<1>6. Wrote(p, FALSE, m)
  BY <1>2, <1>3, <1>4, <1>5, Writing
<1> QED
  BY <1>3, <1>5, <1>6 DEF p

(* It keeps the invariant, and the pairs. *)
LEMMA RemaskPieceKeeps == ASSUME IInv, RemaskPiece PROVE IInv'
<1> DEFINE n == Len(remasked) + 1
           p == response[n]
<1>1. /\ phase = "remasking" /\ Len(remasked) < Len(response)
      /\ UNCHANGED <<phase, unmask, json, request, masked, sent, response, received>>
  BY DEF RemaskPiece
<1>2. /\ VaultInv /\ Phases /\ Rewrites(request, masked) /\ Enrolled
      /\ Len(log) <= Len(masked) + Len(remasked)
      /\ Rewrites(response, remasked) /\ SentAsMasked /\ Received
      /\ Len(masked) = Len(request)
  BY <1>1 DEF IInv, SentAsMasked
<1>3. Len(request) \in Nat /\ Len(response) \in Nat /\ Len(remasked) \in Nat
  BY Remasking
<1>4. Len(log) \in Nat
  BY <1>2 DEF VaultInv, VP!IInv, VP!TypeOK
<1>5. PICK m : remasked' = Append(remasked, m) /\ Wrote(p, FALSE, m)
  BY Remasking
<1> HIDE DEF p
<1>6. Wrote(p, FALSE, m)
  BY <1>5
<1>7. Rewrites(response, remasked') /\ Len(remasked') = n
  <2>1. Fits(m, p.text) /\ m \in V!Masks /\ (p.rule = "none" => m = p.text)
    BY <1>6 DEF Wrote
  <2>2. p = response[Len(remasked) + 1]
    BY DEF p
  <2>3. /\ Rewrites(response, Append(remasked, m))
        /\ Len(Append(remasked, m)) = Len(remasked) + 1
    BY <1>1, <1>2, <1>3, <2>1, <2>2, OneMore
  <2> QED
    BY <1>5, <2>3
<1>8. /\ UNCHANGED <<entries, by_original>> /\ truncations' \in Nat
      /\ truncations' >= truncations
  BY <1>6 DEF Wrote
<1>9. Enrolled'
  <2>1. truncations \in Nat
    BY <1>2 DEF VaultInv, VP!IInv, VP!TypeOK
  <2>2. ASSUME NEW i \in 1..Len(masked), request[i].rule = "both"
        PROVE  \/ Stands(request[i].text, masked[i])
               \/ /\ Len(entries) = MaxEntries /\ truncations' > 0
                  /\ request[i].text \notin DOMAIN by_original
                  /\ masked[i] = request[i].text
    BY <1>2, <1>8, <2>1, <2>2 DEF Enrolled
  <2> QED
    BY <1>1, <1>8, <2>2 DEF Enrolled, Stands
<1>10. Len(log') <= Len(masked') + Len(remasked')
  <2>1. Len(log') \in Nat /\ Len(log') <= Len(log) + 1
    BY <1>6 DEF Wrote
  <2> QED
    BY <1>1, <1>2, <1>3, <1>4, <1>7, <2>1
<1>11. Phases' /\ Received' /\ FromRequest'
  BY <1>1, <1>2, <1>8 DEF IInv, Phases, Received, Delivered, FromRequest
<1>12. SentAsMasked'
  BY <1>1, <1>2 DEF SentAsMasked, V!Masks, V!Tokens
<1>13. Rewrites(request, masked)' /\ Rewrites(response, remasked)' /\ VaultInv'
  BY <1>1, <1>2, <1>6, <1>7 DEF Wrote, Rewrites, Fits, V!Masks, V!Tokens
<1> QED
  BY <1>9, <1>10, <1>11, <1>12, <1>13 DEF IInv

(* Unmasking keeps the invariant: it reads the pairs and changes none. *)
LEMMA DeliverKeeps == ASSUME IInv, Deliver PROVE IInv'
<1>1. /\ phase = "remasking" /\ Len(remasked) = Len(response) /\ phase' = "done"
      /\ received' = IF NeedsUnmask THEN UnmaskText(FlattenSeq(Remasked))
                     ELSE FlattenSeq(Remasked)
      /\ UNCHANGED <<entries, by_original, seen_masks, fallback_counter, truncations, log>>
      /\ UNCHANGED <<unmask, json, request, masked, sent, response, remasked>>
  BY DEF Deliver, vaultVars
<1>2. /\ VaultInv' /\ Enrolled' /\ FromRequest'
      /\ Rewrites(request, masked)' /\ Rewrites(response, remasked)'
  BY <1>1, VaultKept DEF IInv
<1>3. Phases' /\ Len(log') <= Len(masked') + Len(remasked')
  BY <1>1 DEF IInv, Phases, Delivered
<1>4. SentAsMasked'
  BY <1>1 DEF IInv, SentAsMasked, V!Masks, V!Tokens
<1>5. Received'
  BY <1>1, SameUnmasking DEF Received, Delivered
<1> QED
  BY <1>2, <1>3, <1>4, <1>5 DEF IInv

(* So does leaving the masks in. *)
LEMMA DeliverMaskedKeeps == ASSUME IInv, DeliverMasked PROVE IInv'
<1>1. /\ phase = "remasking" /\ Len(remasked) = Len(response) /\ phase' = "unbuilt"
      /\ received' = FlattenSeq(Remasked)
      /\ UNCHANGED <<entries, by_original, seen_masks, fallback_counter, truncations, log>>
      /\ UNCHANGED <<unmask, json, request, masked, sent, response, remasked>>
  BY DEF DeliverMasked, vaultVars
<1>2. /\ VaultInv' /\ Enrolled' /\ FromRequest'
      /\ Rewrites(request, masked)' /\ Rewrites(response, remasked)'
  BY <1>1, VaultKept DEF IInv
<1>3. Phases' /\ Len(log') <= Len(masked') + Len(remasked')
  BY <1>1 DEF IInv, Phases, Delivered
<1>4. SentAsMasked'
  BY <1>1 DEF IInv, SentAsMasked, V!Masks, V!Tokens
<1>5. Received'
  BY <1>1, SameUnmasking DEF Received, Delivered
<1> QED
  BY <1>2, <1>3, <1>4, <1>5 DEF IInv

(* A step that changes nothing breaks nothing. *)
LEMMA StutterKeeps == ASSUME IInv, UNCHANGED vars PROVE IInv'
<1>1. /\ UNCHANGED <<entries, by_original, seen_masks, fallback_counter, truncations, log>>
      /\ UNCHANGED <<phase, unmask, json, request, masked, sent, response, remasked, received>>
  BY DEF vars
<1>2. /\ VaultInv' /\ Enrolled' /\ FromRequest'
      /\ Rewrites(request, masked)' /\ Rewrites(response, remasked)'
  BY <1>1, VaultKept DEF IInv
<1>3. Phases' /\ Len(log') <= Len(masked') + Len(remasked')
  BY <1>1 DEF IInv, Phases, Delivered
<1>4. SentAsMasked'
  BY <1>1, SameSending DEF IInv, SentAsMasked
<1>5. Received'
  BY <1>1, SameUnmasking DEF IInv, Received, Delivered
<1> QED
  BY <1>2, <1>3, <1>4, <1>5 DEF IInv

(* Every exchange keeps the invariant. *)
THEOREM Invariance == Spec => []IInv
<1>1. IInv /\ [Next]_vars => IInv'
  BY MaskPieceKeeps, SendKeeps, RespondKeeps, RemaskPieceKeeps, DeliverKeeps,
     DeliverMaskedKeeps, StutterKeeps
     DEF Next
<1> QED
  BY <1>1, InitIInv, PTL DEF Spec

(* Once the request has been sent no pair is added, changed or lost, for  *)
(* any masker, capacity and bodies: a response is unmasked by what masked *)
(* the request.                                                           *)
THEOREM PairsFreeze == Spec => PairsFrozenOnceSent
<1>1. ASSUME IInv, Next, phase # "masking"
      PROVE  UNCHANGED <<entries, by_original, seen_masks>>
  <2>1. CASE Respond
    BY <2>1 DEF Respond, vaultVars
  <2>2. CASE Deliver \/ DeliverMasked
    BY <2>2 DEF Deliver, DeliverMasked, vaultVars
  <2>3. CASE RemaskPiece
    <3>1. PICK m : Wrote(response[Len(remasked) + 1], FALSE, m)
      BY <1>1, <2>3, Remasking
    <3> QED
      BY <3>1 DEF Wrote
  <2> QED
    BY <1>1, <2>1, <2>2, <2>3 DEF Next, MaskPiece, Send
<1>2. IInv /\ [Next]_vars =>
        [phase # "masking" => UNCHANGED <<entries, by_original, seen_masks>>]_vars
  BY <1>1
<1> QED
  BY <1>2, Invariance, PTL DEF Spec, PairsFrozenOnceSent

-----------------------------------------------------------------------------
(* The pieces of a body at some places. *)
PiecesAt(texts, places) == [i \in 1..Len(texts) |-> IF i \in places THEN texts[i] ELSE << >>]

(* The places of a body taken alone are sequences of texts. *)
LEMMA Places ==
    ASSUME NEW texts \in Seq(V!Masks), NEW places
    PROVE  /\ PiecesAt(texts, places) \in Seq(Seq(Characters))
           /\ Len(PiecesAt(texts, places)) = Len(texts)
           /\ \A k \in 1..Len(texts) : PiecesAt(texts, places)[k] =
                  IF k \in places THEN texts[k] ELSE << >>
           /\ LengthAt(texts, places) = Len(FlattenSeq(PiecesAt(texts, places)))
           /\ LengthAt(texts, places) \in Nat
<1>1. \A k \in 1..Len(texts) : texts[k] \in Seq(Characters)
  BY TextsAssumption, ElementOfSeq
<1>2. PiecesAt(texts, places) \in Seq(Seq(Characters))
  BY <1>1, EmptySeq DEF PiecesAt
<1>3. PICK f : Joins(f, PiecesAt(texts, places))
  BY <1>2, JoinsExists
<1>4. FlattenSeq(PiecesAt(texts, places)) \in Seq(Characters)
  BY <1>2, <1>3, FlattenJoins
<1> QED
  BY <1>2, <1>4 DEF PiecesAt, LengthAt

(* What is as long piece by piece is as long at any places. *)
LEMMA SameLengths ==
    ASSUME NEW s \in Seq(V!Masks), NEW t \in Seq(V!Masks), Len(t) = Len(s), NEW places,
           \A k \in 1..Len(s) : k \in places => Len(t[k]) = Len(s[k])
    PROVE  LengthAt(t, places) = LengthAt(s, places)
<1> DEFINE a == PiecesAt(s, places)
           b == PiecesAt(t, places)
<1>1. /\ a \in Seq(Seq(Characters)) /\ b \in Seq(Seq(Characters))
      /\ Len(a) = Len(s) /\ Len(b) = Len(s)
      /\ \A k \in 1..Len(s) : /\ a[k] = IF k \in places THEN s[k] ELSE << >>
                              /\ b[k] = IF k \in places THEN t[k] ELSE << >>
      /\ LengthAt(s, places) = Len(FlattenSeq(a))
      /\ LengthAt(t, places) = Len(FlattenSeq(b))
  BY Places
<1> HIDE DEF a, b
<1>2. \A k \in 1..Len(a) : Len(b[k]) = Len(a[k])
  BY <1>1
<1>3. Len(FlattenSeq(b)) = Len(FlattenSeq(a))
  BY <1>1, <1>2, LengthsAlike
<1> QED
  BY <1>1, <1>3

(* Lengths at places that do not meet add up. *)
LEMMA LengthAtBoth ==
    ASSUME NEW s \in Seq(V!Masks), NEW P, NEW Q, P \cap Q = {}
    PROVE  LengthAt(s, P \cup Q) = LengthAt(s, P) + LengthAt(s, Q)
<1> DEFINE a == PiecesAt(s, P)
           b == PiecesAt(s, Q)
           c == PiecesAt(s, P \cup Q)
<1>1. /\ a \in Seq(Seq(Characters)) /\ b \in Seq(Seq(Characters)) /\ c \in Seq(Seq(Characters))
      /\ Len(a) = Len(s) /\ Len(b) = Len(s) /\ Len(c) = Len(s)
      /\ \A k \in 1..Len(s) : /\ a[k] = IF k \in P THEN s[k] ELSE << >>
                              /\ b[k] = IF k \in Q THEN s[k] ELSE << >>
                              /\ c[k] = IF k \in P \cup Q THEN s[k] ELSE << >>
      /\ LengthAt(s, P) = Len(FlattenSeq(a))
      /\ LengthAt(s, Q) = Len(FlattenSeq(b))
      /\ LengthAt(s, P \cup Q) = Len(FlattenSeq(c))
  BY Places
<1> HIDE DEF a, b, c
<1>2. ASSUME NEW k \in 1..Len(a)
      PROVE  Len(c[k]) = Len(a[k]) + Len(b[k])
  <2>1. k \in 1..Len(s) /\ Len(<< >>) = 0
    BY <1>1, EmptySeq
  <2>2. s[k] \in Seq(Characters)
    BY <2>1, TextsAssumption, ElementOfSeq
  <2>3. Len(s[k]) \in Nat
    BY <2>2
  <2> DEFINE x == s[k]
  <2>4. /\ a[k] = IF k \in P THEN x ELSE << >>
        /\ b[k] = IF k \in Q THEN x ELSE << >>
        /\ c[k] = IF k \in P \/ k \in Q THEN x ELSE << >>
        /\ ~(k \in P /\ k \in Q)
    BY <1>1, <2>1
  <2>5. Len(x) \in Nat
    BY <2>3
  <2> HIDE DEF x
  <2>6. CASE k \in P
    <3>1. a[k] = x /\ b[k] = << >> /\ c[k] = x
      BY <2>4, <2>6
    <3> QED
      BY <2>1, <2>5, <3>1
  <2>7. CASE k \in Q
    <3>1. a[k] = << >> /\ b[k] = x /\ c[k] = x
      BY <2>4, <2>7
    <3> QED
      BY <2>1, <2>5, <3>1
  <2>8. CASE k \notin P /\ k \notin Q
    <3>1. a[k] = << >> /\ b[k] = << >> /\ c[k] = << >>
      BY <2>4, <2>8
    <3> QED
      BY <2>1, <3>1
  <2> QED
    BY <2>6, <2>7, <2>8
<1>3. /\ Len(b) = Len(a) /\ Len(c) = Len(a)
      /\ \A k \in 1..Len(a) : Len(c[k]) = Len(a[k]) + Len(b[k])
  BY <1>1, <1>2
<1>4. a \in Seq(Seq(Characters)) /\ b \in Seq(Seq(Characters)) /\ c \in Seq(Seq(Characters))
  BY <1>1
<1>5. Len(FlattenSeq(c)) = Len(FlattenSeq(a)) + Len(FlattenSeq(b))
  BY <1>3, <1>4, LengthsAdd
<1> QED
  BY <1>1, <1>5

(* The places of leaf l, leaf[k] being the leaf of piece k. *)
OnLeaf(texts, leaf, l) == {k \in 1..Len(texts) : leaf[k] = l}

(* Two bodies of which each leaf is as long in one as in the other. *)
LEMMA LeafByLeaf ==
    ASSUME NEW s \in Seq(V!Masks), NEW t \in Seq(V!Masks), Len(t) = Len(s),
           NEW leaf, \A k \in 1..Len(s) : leaf[k] \in 1..MaxPieces,
           \A l \in 1..MaxPieces :
              LengthAt(t, OnLeaf(s, leaf, l)) = LengthAt(s, OnLeaf(s, leaf, l))
    PROVE  Len(FlattenSeq(t)) = Len(FlattenSeq(s))
<1> DEFINE On(l) == OnLeaf(s, leaf, l)
           Upto(l) == {k \in 1..Len(s) : leaf[k] <= l}
           Same(l) == LengthAt(t, Upto(l)) = LengthAt(s, Upto(l))
           S == {l \in Nat : l <= MaxPieces => Same(l)}
<1>1. 0 \in S
  <2>1. Upto(0) = {}
    BY BoundsAssumption
  <2>2. LengthAt(t, {}) = LengthAt(s, {})
    BY SameLengths
  <2> QED
    BY <2>1, <2>2
<1>2. ASSUME NEW l \in Nat, l \in S
      PROVE  l + 1 \in S
  <2> HIDE DEF Same
  <2> SUFFICES ASSUME l + 1 <= MaxPieces
               PROVE  Same(l + 1)
    OBVIOUS
  <2>1. Same(l)
    BY <1>2, BoundsAssumption
  <2>2. l + 1 \in 1..MaxPieces
    BY BoundsAssumption
  <2>3. LengthAt(t, On(l + 1)) = LengthAt(s, On(l + 1))
    BY <2>2
  <2>4. Upto(l + 1) = Upto(l) \cup On(l + 1) /\ Upto(l) \cap On(l + 1) = {}
    BY <2>2, BoundsAssumption DEF OnLeaf
  <2> HIDE DEF Upto, On
  <2>5. /\ LengthAt(t, Upto(l) \cup On(l + 1)) = LengthAt(t, Upto(l)) + LengthAt(t, On(l + 1))
        /\ LengthAt(s, Upto(l) \cup On(l + 1)) = LengthAt(s, Upto(l)) + LengthAt(s, On(l + 1))
    BY <2>4, LengthAtBoth
  <2> QED
    BY <2>1, <2>3, <2>4, <2>5 DEF Same
<1> HIDE DEF S
<1>3. MaxPieces \in S
  BY <1>1, <1>2, BoundsAssumption, Induction
<1>4. LengthAt(t, Upto(MaxPieces)) = LengthAt(s, Upto(MaxPieces))
  BY <1>3, BoundsAssumption DEF S
<1>5. Upto(MaxPieces) = 1..Len(s)
  BY BoundsAssumption
<1>6. ASSUME NEW u \in Seq(V!Masks), Len(u) = Len(s)
      PROVE  LengthAt(u, 1..Len(s)) = Len(FlattenSeq(u))
  <2>1. [i \in 1..Len(u) |-> IF i \in 1..Len(s) THEN u[i] ELSE << >>] = u
    BY <1>6
  <2> QED
    BY <2>1 DEF LengthAt
<1> QED
  BY <1>4, <1>5, <1>6

-----------------------------------------------------------------------------
(* Where a value is sent in clear the vault was full, a token undid the *)
(* leaf, or the value is a token.                                       *)
LEMMA ClearIsAccounted == IInv => ClearOnlyIfAccounted
<1> SUFFICES ASSUME IInv, phase = "upstream", NEW i \in 1..Len(request),
                    request[i].rule = "both", sent[i] = request[i].text
             PROVE  \/ /\ Len(entries) = MaxEntries
                       /\ truncations > 0
                       /\ request[i].text \notin DOMAIN by_original
                    \/ /\ json
                       /\ \E k \in LeafOf(request, i) : masked[k] \in V!Tokens
                    \/ masked[i] = request[i].text /\ request[i].text \in V!Tokens
  BY DEF ClearOnlyIfAccounted
<1> DEFINE places == LeafOf(request, i)
           original == TextsOf(request)
<1>1. /\ request \in Requests /\ Rewrites(request, masked) /\ Enrolled /\ VaultInv
      /\ Len(masked) = Len(request) /\ sent = GuardedBody(request, masked, json)
  BY DEF IInv, Phases, SentAsMasked
<1>2. Len(request) \in Nat /\ \A k \in 1..Len(request) : request[k].text \in V!Masks
  BY <1>1, RequestPieces
<1>3. original \in Seq(V!Masks) /\ Len(original) = Len(request)
      /\ \A k \in 1..Len(request) : original[k] = request[k].text
  BY <1>2 DEF TextsOf
<1>4. \A k \in places : k \in 1..Len(request)
  BY DEF LeafOf
<1>5. CASE json /\ LengthAt(masked, places) # LengthAt(original, places)
  <2>1. SUFFICES ASSUME \A k \in places : masked[k] \notin V!Tokens
                 PROVE  FALSE
    BY <1>5
  <2>2. \A k \in 1..Len(request) : k \in places => Len(masked[k]) = Len(original[k])
    BY <1>1, <1>3, <2>1 DEF Rewrites, Fits
  <2>3. masked \in Seq(V!Masks) /\ Len(masked) = Len(original)
        /\ \A k \in 1..Len(original) : k \in places => Len(masked[k]) = Len(original[k])
    BY <1>1, <1>3, <2>2 DEF Rewrites
  <2> HIDE DEF places, original
  <2> QED
    BY <1>3, <1>5, <2>3, SameLengths
<1>6. CASE ~(json /\ LengthAt(masked, places) # LengthAt(original, places))
  <2>1. sent[i] = masked[i]
    BY <1>1, <1>6 DEF GuardedBody
  <2>2. CASE Stands(request[i].text, masked[i])
    <3>1. /\ request[i].text \in DOMAIN by_original
          /\ masked[i] = entries[by_original[request[i].text]].mask
      BY <2>2 DEF Stands
    <3>2. VP!IInv /\ VP!Known(request[i].text)
      BY <1>1, <3>1 DEF VaultInv, VP!Known
    <3>3. entries[by_original[request[i].text]].mask = request[i].text
      BY <2>1, <3>1
    <3>4. request[i].text \in V!Tokens
      BY <3>2, <3>3, VP!KnownPair, VaultAssumed, SameVault
    <3> QED
      BY <3>1, <3>3, <3>4
  <2> QED
    BY <1>1, <2>2 DEF Enrolled
<1> QED
  BY <1>5, <1>6

(* No value that a rule of scope both matches is sent in clear for another *)
(* reason than a full vault, a leaf with a fallback token or a value that  *)
(* is spelled like its token, whatever the masker draws.                   *)
THEOREM ClearIsAlwaysAccounted == Spec => []ClearOnlyIfAccounted
BY Invariance, ClearIsAccounted, PTL

(* What is sent is as long as the request, leaf by leaf. *)
LEMMA LengthIsKept == IInv => RequestLengthKept
<1> SUFFICES ASSUME IInv, phase = "upstream",
                    json \/ \A i \in 1..Len(request) : masked[i] \notin V!Tokens
             PROVE  Len(FlattenSeq(sent)) = Len(FlattenSeq(TextsOf(request)))
  BY DEF RequestLengthKept
<1> DEFINE original == TextsOf(request)
<1>1. /\ request \in Requests /\ Rewrites(request, masked) /\ masked \in Seq(V!Masks)
      /\ Len(masked) = Len(request) /\ sent = GuardedBody(request, masked, json)
      /\ sent \in Seq(V!Masks) /\ Len(sent) = Len(request)
  BY DEF IInv, Phases, SentAsMasked, Rewrites
<1>2. /\ Len(request) \in Nat
      /\ \A k \in 1..Len(request) : request[k].text \in V!Masks /\ request[k].leaf \in 1..MaxPieces
  BY <1>1, RequestPieces
<1>3. original \in Seq(V!Masks) /\ Len(original) = Len(request)
      /\ \A k \in 1..Len(request) : original[k] = request[k].text
  BY <1>2 DEF TextsOf
<1> HIDE DEF original
<1>4. CASE json
  <2> DEFINE leaf == [k \in 1..Len(request) |-> request[k].leaf]
             On(l) == OnLeaf(original, leaf, l)
  <2>1. ASSUME NEW l \in 1..MaxPieces
        PROVE  LengthAt(sent, On(l)) = LengthAt(original, On(l))
    <3> DEFINE places == On(l)
               undone == LengthAt(masked, places) # LengthAt(original, places)
    <3>1. \A k \in places : k \in 1..Len(request) /\ LeafOf(request, k) = places
      BY <1>3 DEF LeafOf, OnLeaf
    <3>2. \A k \in places : sent[k] = IF undone THEN original[k] ELSE masked[k]
      BY <1>1, <1>3, <1>4, <3>1 DEF GuardedBody, original
    <3> HIDE DEF places
    <3>3. CASE undone
      <4>1. Len(sent) = Len(original)
            /\ \A k \in 1..Len(original) : k \in places => Len(sent[k]) = Len(original[k])
        BY <1>1, <1>3, <3>2, <3>3
      <4>2. LengthAt(sent, places) = LengthAt(original, places)
        BY <1>1, <1>3, <4>1, SameLengths
      <4> QED
        BY <4>2 DEF places
    <3>4. CASE ~undone
      <4>1. Len(sent) = Len(masked)
            /\ \A k \in 1..Len(masked) : k \in places => Len(sent[k]) = Len(masked[k])
        BY <1>1, <3>2, <3>4
      <4>2. LengthAt(sent, places) = LengthAt(masked, places)
        BY <1>1, <4>1, SameLengths
      <4> QED
        BY <3>4, <4>2 DEF places
    <3> QED
      BY <3>3, <3>4
  <2>2. Len(sent) = Len(original)
    BY <1>1, <1>3
  <2>3. \A k \in 1..Len(original) : leaf[k] \in 1..MaxPieces
    BY <1>2, <1>3
  <2>4. \A l \in 1..MaxPieces :
             LengthAt(sent, OnLeaf(original, leaf, l))
               = LengthAt(original, OnLeaf(original, leaf, l))
    BY <2>1
  <2> HIDE DEF leaf
  <2>5. Len(FlattenSeq(sent)) = Len(FlattenSeq(original))
    BY <1>1, <1>3, <2>2, <2>3, <2>4, LeafByLeaf
  <2> QED
    BY <2>5 DEF original
<1>5. CASE ~json
  <2>1. \A k \in 1..Len(original) : sent[k] = masked[k]
    BY <1>1, <1>3, <1>5 DEF GuardedBody
  <2>2. \A k \in 1..Len(original) : Len(masked[k]) = Len(original[k])
    BY <1>1, <1>3, <1>5 DEF Rewrites, Fits
  <2>3. /\ Len(sent) = Len(original)
        /\ \A k \in 1..Len(original) : Len(sent[k]) = Len(original[k])
    BY <1>1, <1>3, <2>1, <2>2
  <2>4. sent \in Seq(Seq(Characters)) /\ original \in Seq(Seq(Characters))
    BY <1>1, <1>3, TextsAssumption
  <2>5. Len(FlattenSeq(sent)) = Len(FlattenSeq(original))
    BY <2>3, <2>4, LengthsAlike
  <2> QED
    BY <2>5 DEF original
<1> QED
  BY <1>4, <1>5

(* A request rewritten leaf by leaf keeps its length, and one rewritten as *)
(* plain text keeps it if no token is issued.                              *)
THEOREM LengthIsAlwaysKept == Spec => []RequestLengthKept
BY Invariance, LengthIsKept, PTL

-----------------------------------------------------------------------------
(* The pairs are spelled with characters, and no mask is empty: one that is *)
(* no token is as long as its value and differs from it.                    *)
LEMMA PairsTyped ==
    ASSUME VaultInv
    PROVE  /\ Len(entries) \in Nat
           /\ \A n \in 1..Len(entries) :
                /\ entries[n].mask \in Seq(Characters)
                /\ entries[n].original \in Texts
                /\ entries[n].original \in Seq(Characters)
                /\ Len(entries[n].mask) \in Nat \ {0}
<1>1. VP!IInv /\ VP!TypeOK /\ VP!MaskIsNoEarlierOriginal
  BY DEF VaultInv, VP!IInv, VP!Pairs
<1>2. entries \in Seq([mask : VP!Masks, original : Texts]) /\ Len(entries) \in Nat
  BY <1>1 DEF VP!TypeOK
<1>3. ASSUME NEW n \in 1..Len(entries)
      PROVE  /\ entries[n].mask \in Seq(Characters)
             /\ entries[n].original \in Texts
             /\ entries[n].original \in Seq(Characters)
             /\ Len(entries[n].mask) \in Nat \ {0}
  <2> DEFINE m == entries[n].mask
             o == entries[n].original
  <2>1. entries[n] \in [mask : VP!Masks, original : Texts]
    BY <1>2, ElementOfSeq
  <2>2. m \in V!Masks /\ o \in Texts /\ o \in V!Masks
    BY <2>1, SameVault
  <2>3. m = o => m \in V!Tokens
    BY <1>1, <1>2, SameVault DEF VP!MaskIsNoEarlierOriginal
  <2>4. Fits(m, o)
    BY DEF VaultInv, Shaped
  <2> HIDE DEF m, o
  <2>5. m \in Seq(Characters) /\ o \in Seq(Characters)
    BY <2>2, TextsAssumption
  <2>6. m # << >>
    <3>1. SUFFICES ASSUME m = << >> PROVE FALSE
      OBVIOUS
    <3>2. Len(o) = 0
      BY <2>4, <3>1, TextsAssumption, EmptySeq DEF Fits
    <3>3. o = << >>
      BY <2>5, <3>2, EmptySeq
    <3> QED
      BY <2>3, <3>1, <3>3, TextsAssumption
  <2>7. Len(m) \in Nat \ {0}
    BY <2>5, <2>6, EmptySeq
  <2> QED
    BY <2>2, <2>5, <2>7 DEF m, o
<1> QED
  BY <1>2, <1>3

(* A mask begins at a place when its characters stand there. *)
LEMMA MaskAt ==
    ASSUME VaultInv, NEW text \in Seq(Characters), NEW k \in 0..Len(text), NEW n
    PROVE  n \in MasksAt(text, k) <=>
             /\ n \in 1..Len(entries)
             /\ k + Len(entries[n].mask) <= Len(text)
             /\ \A i \in 1..Len(entries[n].mask) : text[k + i] = entries[n].mask[i]
<1>1. CASE n \notin 1..Len(entries)
  BY <1>1 DEF MasksAt
<1>2. CASE n \in 1..Len(entries)
  <2> DEFINE m == entries[n].mask
             rest == SubSeq(text, k + 1, Len(text))
             N == Len(text)
  <2>1. m \in Seq(Characters) /\ Len(m) \in Nat \ {0} /\ N \in Nat /\ k \in 0..N
    BY <1>2, PairsTyped
  <2>2. \A i \in (k + 1)..N : text[i] \in Characters
    BY <2>1, ElementOfSeq
  <2>3. /\ rest \in Seq(Characters)
        /\ Len(rest) = IF k + 1 <= N THEN N - (k + 1) + 1 ELSE 0
        /\ \A i \in 1..(N - (k + 1) + 1) : rest[i] = text[(k + 1) + i - 1]
    BY <2>1, <2>2, SubSeqProperties
  <2>4. n \in MasksAt(text, k) <=> IsPrefix(m, rest)
    BY <1>2 DEF MasksAt
  <2> HIDE DEF m, rest, N
  <2>5. /\ Len(rest) = N - k
        /\ \A i \in 1..(N - k) : rest[i] = text[k + i]
    <3>1. Len(rest) = N - k /\ N - (k + 1) + 1 = N - k
      BY <2>1, <2>3
    <3>2. ASSUME NEW i \in 1..(N - k)
          PROVE  rest[i] = text[k + i]
      <4>1. (k + 1) + i - 1 = k + i
        BY <2>1
      <4> QED
        BY <2>3, <3>1, <4>1
    <3> QED
      BY <3>1, <3>2
  <2>6. SubSeq(m, 1, Len(m)) = m
    BY <2>1, SubSeqFull
  <2>7. ASSUME Len(m) <= Len(rest)
        PROVE  /\ SubSeq(rest, 1, Len(m)) \in Seq(Characters)
               /\ Len(SubSeq(rest, 1, Len(m))) = Len(m)
               /\ \A i \in 1..Len(m) : SubSeq(rest, 1, Len(m))[i] = text[k + i]
    <3> DEFINE l == Len(m)
    <3>1. 1 \in Int /\ l \in Int /\ l \in Nat \ {0} /\ l <= N - k
      BY <2>1, <2>5, <2>7
    <3>2. \A i \in 1..l : rest[i] \in Characters
      BY <2>1, <2>3, <2>7, ElementOfSeq
    <3> HIDE DEF l
    <3>3. /\ SubSeq(rest, 1, l) \in Seq(Characters)
          /\ Len(SubSeq(rest, 1, l)) = IF 1 <= l THEN l - 1 + 1 ELSE 0
          /\ \A i \in 1..(l - 1 + 1) : SubSeq(rest, 1, l)[i] = rest[1 + i - 1]
      BY <3>1, <3>2, SubSeqProperties
    <3>4. ASSUME NEW i \in 1..l
          PROVE  SubSeq(rest, 1, l)[i] = text[k + i]
      <4>1. i \in 1..(l - 1 + 1) /\ 1 + i - 1 = i /\ i \in 1..(N - k)
        BY <2>1, <3>1
      <4> QED
        BY <2>5, <3>3, <4>1
    <3>5. Len(SubSeq(rest, 1, l)) = l
      BY <3>1, <3>3
    <3> QED
      BY <3>3, <3>4, <3>5 DEF l
  <2>8. CASE Len(m) <= Len(rest)
    <3> DEFINE start == SubSeq(rest, 1, Len(m))
    <3>1. /\ start \in Seq(Characters) /\ Len(start) = Len(m)
          /\ \A i \in 1..Len(m) : start[i] = text[k + i]
      BY <2>7, <2>8
    <3>2. IsPrefix(m, rest) <=> m = start
      BY <2>6, <2>8 DEF IsPrefix
    <3> HIDE DEF start
    <3>3. m = start <=> \A i \in 1..Len(m) : m[i] = start[i]
      BY <2>1, <3>1, SeqEqual
    <3>4. IsPrefix(m, rest) <=> \A i \in 1..Len(m) : text[k + i] = m[i]
      BY <3>1, <3>2, <3>3
    <3>5. k + Len(m) <= N
      BY <2>1, <2>5, <2>8
    <3> QED
      BY <1>2, <2>4, <3>4, <3>5 DEF m, N
  <2>9. CASE ~(Len(m) <= Len(rest))
    <3>1. ~(k + Len(m) <= N)
      BY <2>1, <2>5, <2>9
    <3>2. ~IsPrefix(m, rest)
      BY <2>9 DEF IsPrefix
    <3> QED
      BY <2>4, <3>1, <3>2 DEF m, N
  <2> QED
    BY <2>8, <2>9
<1> QED
  BY <1>1, <1>2

(* There is a longest mask where there is one. *)
LEMMA LongestFound ==
    ASSUME VaultInv, NEW text \in Seq(Characters), NEW k \in 0..Len(text),
           MasksAt(text, k) # {}
    PROVE  LET pairs == MasksAt(text, k)
               n == Found(pairs)
           IN  /\ n \in pairs
               /\ \A o \in pairs : Len(entries[o].mask) <= Len(entries[n].mask)
<1> DEFINE pairs == MasksAt(text, k)
           N == Len(text)
           T == {N - Len(entries[n].mask) : n \in pairs}
<1>1. \A n \in pairs : n \in 1..Len(entries) /\ k + Len(entries[n].mask) <= N
  BY MaskAt
<1>2. N \in Nat /\ \A n \in pairs : Len(entries[n].mask) \in Nat
  BY <1>1, PairsTyped
<1> HIDE DEF pairs, N
<1>3. T \subseteq Nat
  <2>1. ASSUME NEW n \in pairs
        PROVE  N - Len(entries[n].mask) \in Nat
    <3>1. k \in Nat /\ Len(entries[n].mask) \in Nat /\ k + Len(entries[n].mask) <= N
      BY <1>1, <1>2 DEF N
    <3> QED
      BY <1>2, <3>1
  <2> QED
    BY <2>1
<1>4. T # {}
  BY DEF pairs
<1>5. PICK x \in T : \A y \in T : x <= y
  BY <1>3, <1>4, Least
<1>6. PICK n \in pairs : x = N - Len(entries[n].mask)
  BY <1>5
<1>7. \A o \in pairs : Len(entries[o].mask) <= Len(entries[n].mask)
  <2>1. TAKE o \in pairs
  <2> DEFINE a == Len(entries[n].mask)
             b == Len(entries[o].mask)
  <2>2. N - a <= N - b /\ a \in Nat /\ b \in Nat /\ N \in Nat
    BY <1>2, <1>5, <1>6
  <2> HIDE DEF a, b
  <2>3. b <= a
    BY <2>2
  <2> QED
    BY <2>3 DEF a, b
<1> DEFINE L == {o \in pairs : Len(entries[o].mask) = Len(entries[n].mask)}
<1>8. PICK m \in L : \A o \in L : m <= o
  <2>1. L \subseteq Nat /\ L # {}
    BY <1>1, PairsTyped
  <2> HIDE DEF L
  <2> QED
    BY <2>1, Least
<1>9. \A o \in pairs :
         \/ Len(entries[o].mask) < Len(entries[m].mask)
         \/ Len(entries[o].mask) = Len(entries[m].mask) /\ m <= o
  <2>1. TAKE o \in pairs
  <2>2. /\ Len(entries[o].mask) \in Nat /\ Len(entries[n].mask) \in Nat
        /\ Len(entries[o].mask) <= Len(entries[n].mask)
        /\ Len(entries[m].mask) = Len(entries[n].mask)
    BY <1>2, <1>7, <1>8
  <2>3. Len(entries[o].mask) = Len(entries[n].mask) => m <= o
    BY <1>8
  <2> QED
    BY <2>2, <2>3
<1> DEFINE best == Found(pairs)
<1>10. /\ best \in pairs
       /\ \A o \in pairs :
             \/ Len(entries[o].mask) < Len(entries[best].mask)
             \/ Len(entries[o].mask) = Len(entries[best].mask) /\ best <= o
  BY <1>8, <1>9 DEF Found
<1> HIDE DEF best
<1>11. \A o \in pairs : Len(entries[o].mask) <= Len(entries[best].mask)
  BY <1>2, <1>10
<1> QED
  BY <1>10, <1>11 DEF best, pairs

(* What unmask_text puts out from each place on. *)
Unmasks(g, text) ==
    /\ \A k \in 0..Len(text) : g[k] \in Seq(Characters)
    /\ g[Len(text)] = << >>
    /\ \A k \in 0..(Len(text) - 1) :
         IF MasksAt(text, k) = {} THEN g[k] = <<text[k + 1]>> \o g[k + 1]
         ELSE LET n == Found(MasksAt(text, k))
              IN  g[k] = entries[n].original \o g[k + Len(entries[n].mask)]

(* unmask_text computes such an output: each step goes on further right. *)
LEMMA Unmasking ==
    ASSUME VaultInv, NEW text \in Seq(Characters)
    PROVE  \E g : UnmaskText(text) = g[0] /\ Unmasks(g, text)
<1> DEFINE N == Len(text)
           none(k) == MasksAt(text, k) = {}
           pair(k) == entries[Found(MasksAt(text, k))]
           piece == [k \in 0..(N - 1) |-> IF none(k) THEN <<text[k + 1]>> ELSE pair(k).original]
           next == [k \in 0..(N - 1) |-> IF none(k) THEN k + 1 ELSE k + Len(pair(k).mask)]
           At(g, k) == IF k = N THEN << >>
                       ELSE IF MasksAt(text, k) = {} THEN <<text[k + 1]>> \o g[k + 1]
                       ELSE pair(k).original \o g[k + Len(pair(k).mask)]
           from == CHOOSE g : g = [k \in 0..N |-> At(g, k)]
<1>1. N \in Nat
  OBVIOUS
<1>2. ASSUME NEW k \in 0..(N - 1), ~none(k)
      PROVE  /\ pair(k).original \in Seq(Characters)
             /\ k + Len(pair(k).mask) \in (k + 1)..N
  <2> DEFINE n == Found(MasksAt(text, k))
  <2>1. n \in MasksAt(text, k)
    BY <1>1, <1>2, LongestFound
  <2> HIDE DEF n
  <2>2. n \in 1..Len(entries) /\ k + Len(entries[n].mask) <= N
    BY <1>1, <2>1, MaskAt
  <2>3. entries[n].original \in Seq(Characters) /\ Len(entries[n].mask) \in Nat \ {0}
    BY <2>2, PairsTyped
  <2>4. k + Len(entries[n].mask) \in (k + 1)..N
    BY <1>1, <2>2, <2>3
  <2> QED
    BY <2>3, <2>4 DEF n
<1>3. ASSUME NEW k \in 0..(N - 1)
      PROVE  next[k] \in (k + 1)..N /\ piece[k] \in Seq(Characters)
  <2>1. CASE none(k)
    <3>1. k + 1 \in 1..N
      BY <1>1
    <3>2. text[k + 1] \in Characters
      BY <3>1, ElementOfSeq
    <3> QED
      BY <1>1, <2>1, <3>2
  <2>2. CASE ~none(k)
    <3> HIDE DEF none, pair
    <3>1. next[k] = k + Len(pair(k).mask) /\ piece[k] = pair(k).original
      BY <2>2
    <3> QED
      BY <1>2, <2>2, <3>1
  <2> QED
    BY <2>1, <2>2
<1> HIDE DEF N
<1>4. UnmaskText(text) = from[0]
  BY DEF UnmaskText, N
<1> HIDE DEF none, pair
<1>5. ASSUME NEW g, NEW k \in 0..N
      PROVE  At(g, k) = IF k = N THEN << >> ELSE piece[k] \o g[next[k]]
  <2>1. CASE k = N
    BY <2>1
  <2>2. CASE k # N /\ none(k)
    <3>1. k \in 0..(N - 1)
      BY <1>1, <2>2
    <3>2. piece[k] = <<text[k + 1]>> /\ next[k] = k + 1
      BY <2>2, <3>1
    <3> QED
      BY <2>2, <3>2 DEF none
  <2>3. CASE k # N /\ ~none(k)
    <3>1. k \in 0..(N - 1)
      BY <1>1, <2>3
    <3>2. piece[k] = pair(k).original /\ next[k] = k + Len(pair(k).mask)
      BY <2>3, <3>1
    <3> QED
      BY <2>3, <3>2 DEF none
  <2> QED
    BY <2>1, <2>2, <2>3
<1>6. \E g : Scans(g, piece, next, N)
  <2> HIDE DEF piece, next
  <2> QED
    BY <1>1, <1>3, ScansExist
<1> HIDE DEF piece, next
<1>7. \A g : Scans(g, piece, next, N) <=> g = [k \in 0..N |-> At(g, k)]
  <2>1. TAKE g
  <2>2. \A k \in 0..N : At(g, k) = IF k = N THEN << >> ELSE piece[k] \o g[next[k]]
    BY <1>5
  <2> HIDE DEF At
  <2>3. [k \in 0..N |-> At(g, k)]
          = [k \in 0..N |-> IF k = N THEN << >> ELSE piece[k] \o g[next[k]]]
    BY <2>2
  <2> QED
    BY <2>3 DEF Scans
<1> HIDE DEF At
<1>8. from = [k \in 0..N |-> At(from, k)]
  BY <1>6, <1>7
<1> HIDE DEF from
<1>9. \A k \in 0..N : from[k] = At(from, k)
  BY <1>8
<1>10. \A k \in 0..N : from[k] \in Seq(Characters)
  <2>1. Scans(from, piece, next, N)
    BY <1>7, <1>8
  <2>2. \A k \in 0..(N - 1) : next[k] \in (k + 1)..N /\ piece[k] \in Seq(Characters)
    BY <1>3
  <2> QED
    BY <1>1, <2>1, <2>2, ScansTyped
<1>11. from[N] = << >>
  <2>1. N \in 0..N
    BY <1>1
  <2>2. from[N] = At(from, N)
    BY <1>9, <2>1
  <2> QED
    BY <2>2 DEF At
<1>12. ASSUME NEW k \in 0..(N - 1)
       PROVE  IF MasksAt(text, k) = {} THEN from[k] = <<text[k + 1]>> \o from[k + 1]
              ELSE LET n == Found(MasksAt(text, k))
                   IN  from[k] = entries[n].original \o from[k + Len(entries[n].mask)]
  <2>1. k \in 0..N /\ k # N
    BY <1>1
  <2>2. from[k] = At(from, k)
    BY <1>9, <2>1
  <2> QED
    BY <2>1, <2>2 DEF At, pair
<1>13. Unmasks(from, text)
  BY <1>10, <1>11, <1>12 DEF Unmasks, N
<1> QED
  BY <1>4, <1>13

(* Typing. *)
LEMMA BodyTyped ==
    ASSUME NEW b \in Seq(V!Masks)
    PROVE  b \in Seq(Seq(Characters)) /\ FlattenSeq(b) \in Seq(Characters)
<1>1. b \in Seq(Seq(Characters)) /\ Len(b) \in Nat
  BY TextsAssumption
<1>2. PICK f : Joins(f, b)
  BY <1>1, JoinsExists
<1> QED
  BY <1>1, <1>2, FlattenJoins

(* The response as it is unmasked. *)
LEMMA RemaskedTyped ==
    ASSUME IInv, Delivered
    PROVE  Remasked \in Seq(V!Masks) /\ Len(Remasked) = Len(response)
<1>1. /\ Rewrites(response, remasked) /\ Len(remasked) = Len(response)
      /\ response \in Responses \cup {<< >>}
  BY DEF IInv, Received, Phases, Delivered
<1>2. Len(response) \in Nat /\ \A i \in 1..Len(response) : response[i].text \in V!Masks
  BY <1>1, ResponsePieces
<1> QED
  BY <1>1, <1>2, Guarding DEF Remasked

(* The invariant includes the types; unmasking yields characters again. *)
LEMMA IsTyped == IInv => TypeOK
<1> SUFFICES ASSUME IInv PROVE TypeOK
  OBVIOUS
<1>1. /\ VaultInv /\ Phases /\ Rewrites(request, masked) /\ Rewrites(response, remasked)
      /\ SentAsMasked /\ Received
  BY DEF IInv
<1>2. V!TypeOK
  BY <1>1, SameVault DEF VaultInv, VP!IInv
<1>3. /\ request \in Seq(Piece({"none", "both", "request"}))
      /\ masked \in Seq(V!Masks) /\ remasked \in Seq(V!Masks)
      /\ Len(masked) <= Len(request) /\ Len(remasked) <= Len(response)
  BY <1>1, RequestPieces DEF Phases, Rewrites
<1>4. response \in Seq(Piece({"none", "response"}))
  <2>1. response \in Responses \cup {<< >>}
    BY <1>1 DEF Phases
  <2> QED
    BY <2>1, ResponsePieces
<1>5. sent \in Seq(V!Masks)
  BY <1>1, EmptySeq DEF Phases, SentAsMasked
<1>6. received \in Seq(Characters)
  <2>1. CASE ~Delivered
    BY <1>1, <2>1, EmptySeq DEF Phases
  <2>2. CASE phase = "done"
    <3> DEFINE all == FlattenSeq(Remasked)
    <3>1. all \in Seq(Characters)
      BY <2>2, RemaskedTyped, BodyTyped DEF Delivered
    <3>2. received = IF NeedsUnmask THEN UnmaskText(all) ELSE all
      BY <1>1, <2>2 DEF Received
    <3> HIDE DEF all
    <3>3. PICK g : UnmaskText(all) = g[0] /\ Unmasks(g, all)
      BY <1>1, <3>1, Unmasking
    <3>4. 0 \in 0..Len(all)
      BY <3>1
    <3>5. UnmaskText(all) \in Seq(Characters)
      BY <3>3, <3>4 DEF Unmasks
    <3> QED
      BY <3>1, <3>2, <3>5
  <2>3. CASE phase = "unbuilt"
    BY <1>1, <2>3, RemaskedTyped, BodyTyped DEF Received, Delivered
  <2> QED
    BY <2>1, <2>2, <2>3 DEF Delivered
<1>7. /\ phase \in {"masking", "upstream", "remasking", "done", "unbuilt"} /\ unmask \in BOOLEAN
      /\ json \in BOOLEAN
  BY <1>1 DEF Phases
<1> QED
  BY <1>2, <1>3, <1>4, <1>5, <1>6, <1>7 DEF TypeOK

(* Every state of an exchange is well typed, what the client gets included. *)
THEOREM TypeCorrect == Spec => []TypeOK
BY Invariance, IsTyped, PTL

-----------------------------------------------------------------------------
(* A value and the mask sent for it are a pair of the vault. *)
LEMMA SentForPair ==
    ASSUME IInv, phase = "done", NEW t, NEW v \in SentFor(t)
    PROVE  \E n \in 1..Len(entries) : entries[n].mask = t /\ entries[n].original = v
<1>1. PICK i \in 1..Len(request) :
         /\ request[i].rule = "both" /\ sent[i] = t /\ sent[i] # request[i].text
         /\ v = request[i].text
  BY DEF SentFor
<1>2. /\ VaultInv /\ Enrolled /\ Len(masked) = Len(request)
      /\ sent[i] \in {masked[i], request[i].text}
  BY DEF IInv, SentAsMasked
<1>3. masked[i] = t /\ masked[i] # v
  BY <1>1, <1>2
<1>4. Stands(v, t)
  BY <1>1, <1>2, <1>3 DEF Enrolled
<1>5. VP!IInv /\ VP!Known(v)
  BY <1>2, <1>4 DEF VaultInv, VP!Known, Stands
<1>6. by_original[v] \in 1..Len(entries) /\ entries[by_original[v]].original = v
  BY <1>5, VP!PairOf, VaultAssumed DEF VP!Known
<1> QED
  BY <1>4, <1>6 DEF Stands

(* No two pairs have the same mask, where none of the values enrolled has  *)
(* the format of a token.                                                  *)
LEMMA OneMaskEach ==
    ASSUME VaultInv, FromRequest, NoneLikeToken,
           NEW m \in 1..Len(entries), NEW n \in 1..Len(entries),
           entries[m].mask = entries[n].mask
    PROVE  m = n
<1>1. ASSUME NEW i \in 1..Len(entries), NEW j \in 1..Len(entries), i < j
      PROVE  entries[i].mask # entries[j].mask
  <2>1. SUFFICES ASSUME entries[i].mask = entries[j].mask
                 PROVE  FALSE
    OBVIOUS
  <2>2. entries[j].mask \in V!Tokens \cap GenerateFp(entries[i].original)
    BY <1>1, <2>1, SameVault DEF VaultInv, VP!IInv, VP!Pairs, VP!OneToOne
  <2>3. PICK k \in 1..Len(request) :
           request[k].rule = "both" /\ request[k].text = entries[i].original
    BY DEF FromRequest
  <2> QED
    BY <2>2, <2>3 DEF NoneLikeToken
<1>2. Len(entries) \in Nat
  BY PairsTyped
<1> QED
  BY <1>1, <1>2

(* No mask was sent for two values. *)
LEMMA SentForOne ==
    ASSUME IInv, phase = "done", NoneLikeToken, NEW t
    PROVE  /\ \A v, w \in SentFor(t) : v = w
           /\ Cardinality(SentFor(t)) <= 1
<1>1. \A v, w \in SentFor(t) : v = w
  <2>1. TAKE v, w \in SentFor(t)
  <2>2. PICK n \in 1..Len(entries) : entries[n].mask = t /\ entries[n].original = v
    BY SentForPair
  <2>3. PICK m \in 1..Len(entries) : entries[m].mask = t /\ entries[m].original = w
    BY SentForPair
  <2>4. m = n
    BY <2>2, <2>3, OneMaskEach DEF IInv
  <2> QED
    BY <2>2, <2>3, <2>4
<1> DEFINE S == SentFor(t)
<1>2. \A v, w \in S : v = w
  BY <1>1
<1> HIDE DEF S
<1>3. S = {} => Cardinality(S) <= 1
  BY FS_EmptySet
<1>4. ASSUME S # {}
      PROVE  Cardinality(S) <= 1
  <2>1. PICK v : S = {v}
    BY <1>2, <1>4
  <2>2. Cardinality(S) = 1
    BY <2>1, FS_Singleton
  <2> QED
    BY <2>2
<1>5. Cardinality(S) <= 1
  BY <1>3, <1>4
<1> QED
  BY <1>1, <1>5 DEF S

(* Of the masks that begin behind b characters none is longer than that of *)
(* pair m.                                                                 *)
NoneLonger(text, b, m) ==
    \A n \in MasksAt(text, b) : Len(entries[n].mask) <= Len(entries[m].mask)

(* Where the mask sent for a value stands, and no longer one, the value is *)
(* put out and the search goes on behind the mask.                         *)
LEMMA MaskGivesWay ==
    ASSUME VaultInv, FromRequest, NoneLikeToken,
           NEW text \in Seq(Characters), NEW g, Unmasks(g, text),
           NEW b \in Nat, NEW m \in 1..Len(entries), StandsAt(text, entries[m].mask, b),
           NoneLonger(text, b, m)
    PROVE  g[b] = entries[m].original \o g[b + Len(entries[m].mask)]
<1> DEFINE t == entries[m].mask
<1>1. /\ b \in Nat /\ b + Len(t) <= Len(text) /\ \A i \in 1..Len(t) : text[b + i] = t[i]
  BY DEF StandsAt
<1>2. Len(text) \in Nat /\ t \in Seq(Characters) /\ Len(t) \in Nat \ {0}
  BY PairsTyped
<1>3. b \in 0..Len(text) /\ b \in 0..(Len(text) - 1)
  BY <1>1, <1>2
<1>4. m \in MasksAt(text, b)
  BY <1>1, <1>3, MaskAt
<1> DEFINE n == Found(MasksAt(text, b))
<1>5. /\ n \in MasksAt(text, b)
      /\ \A o \in MasksAt(text, b) : Len(entries[o].mask) <= Len(entries[n].mask)
  BY <1>3, <1>4, LongestFound
<1>6. g[b] = entries[n].original \o g[b + Len(entries[n].mask)]
  BY <1>3, <1>4 DEF Unmasks
<1> HIDE DEF n
<1> DEFINE u == entries[n].mask
<1>7. n \in 1..Len(entries) /\ \A i \in 1..Len(u) : text[b + i] = u[i]
  BY <1>3, <1>5, MaskAt
<1>8. u \in Seq(Characters) /\ Len(u) \in Nat
  BY <1>7, PairsTyped
<1>9. Len(u) = Len(t)
  <2>1. Len(u) <= Len(t) /\ Len(t) <= Len(u)
    BY <1>4, <1>5 DEF NoneLonger
  <2> QED
    BY <1>2, <1>8, <2>1
<1>10. \A i \in 1..Len(u) : u[i] = t[i]
  BY <1>1, <1>7, <1>9
<1> HIDE DEF u, t
<1>11. u = t
  BY <1>2, <1>8, <1>9, <1>10, SeqEqual
<1>12. n = m
  BY <1>7, <1>11, OneMaskEach DEF u, t
<1> QED
  BY <1>6, <1>12

(* Where no mask begins in a text it is put out as it is. *)
LEMMA TextStays ==
    ASSUME VaultInv, NEW text \in Seq(Characters), NEW g, Unmasks(g, text),
           NEW b, NEW t \in Seq(Characters), StandsAt(text, t, b),
           \A k \in 1..Len(t) : MasksAt(text, b + k - 1) = {}
    PROVE  g[b] = t \o g[b + Len(t)]
<1> DEFINE r == [k \in 0..Len(t) |-> g[b + k]]
<1>1. /\ Len(text) \in Nat /\ Len(t) \in Nat
      /\ b \in Nat /\ b + Len(t) <= Len(text) /\ \A i \in 1..Len(t) : text[b + i] = t[i]
  BY DEF StandsAt
<1>2. \A k \in 0..Len(t) : r[k] \in Seq(Characters)
  <2>1. TAKE k \in 0..Len(t)
  <2> DEFINE p == b + k
  <2>2. p \in 0..Len(text) /\ r[k] = g[p]
    BY <1>1
  <2> HIDE DEF p
  <2> QED
    BY <2>2 DEF Unmasks
<1>3. ASSUME NEW k \in 1..Len(t)
      PROVE  r[k - 1] = <<t[k]>> \o r[k]
  <2> DEFINE p == b + k - 1
  <2>1. /\ p \in 0..(Len(text) - 1) /\ p + 1 = b + k /\ b + (k - 1) = p
        /\ k - 1 \in 0..Len(t) /\ k \in 0..Len(t) /\ text[b + k] = t[k]
    BY <1>1
  <2>2. MasksAt(text, p) = {}
    OBVIOUS
  <2>3. r[k - 1] = g[p] /\ r[k] = g[p + 1] /\ t[k] = text[p + 1]
    BY <2>1
  <2> HIDE DEF p
  <2>4. g[p] = <<text[p + 1]>> \o g[p + 1]
    BY <2>1, <2>2 DEF Unmasks
  <2> QED
    BY <2>3, <2>4
<1>4. r[0] = g[b] /\ r[Len(t)] = g[b + Len(t)]
  BY <1>1
<1> HIDE DEF r
<1>5. r[0] = t \o r[Len(t)]
  BY <1>2, <1>3, Letters DEF Spells
<1> QED
  BY <1>4, <1>5

(* before(j) of Unambiguous is where piece j begins. *)
LEMMA Begin ==
    ASSUME NEW C, NEW s \in Seq(Seq(C)), NEW f, Joins(f, s), NEW j \in 1..Len(s)
    PROVE  Len(FlattenSeq(SubSeq(s, 1, j - 1))) = Len(f[j - 1])
<1> DEFINE n == j - 1
           u == SubSeq(s, 1, n)
<1>1. Len(s) \in Nat /\ n \in Nat /\ n <= Len(s)
  OBVIOUS
<1> HIDE DEF n
<1>2. \A i \in 1..n : s[i] \in Seq(C)
  BY <1>1, ElementOfSeq
<1>3. /\ u \in Seq(Seq(C))
      /\ Len(u) = IF 1 <= n THEN n - 1 + 1 ELSE 0
      /\ \A i \in 1..(n - 1 + 1) : u[i] = s[1 + i - 1]
  BY <1>1, <1>2, SubSeqProperties
<1>4. Len(u) = n /\ \A i \in 1..n : u[i] = s[i]
  <2>1. Len(u) = n
    BY <1>1, <1>3
  <2>2. ASSUME NEW i \in 1..n
        PROVE  u[i] = s[i]
    <3>1. i \in 1..(n - 1 + 1) /\ 1 + i - 1 = i
      BY <1>1
    <3> QED
      BY <1>3, <3>1
  <2> QED
    BY <2>1, <2>2
<1> HIDE DEF u
<1>5. PICK h : Joins(h, u)
  BY <1>1, <1>4, JoinsExists
<1>6. h[n] = f[n]
  <2>1. n <= Len(u) /\ Len(u) \in Nat /\ \A k \in 1..n : u[k] = s[k]
    BY <1>1, <1>4
  <2> QED
    BY <1>1, <1>5, <2>1, JoinsAlike
<1>7. FlattenSeq(u) = h[n]
  BY <1>3, <1>4, <1>5, FlattenJoins
<1> QED
  BY <1>6, <1>7 DEF u, n

(* The values in the places of the masks sent for them. *)
Restored(texts) ==
    [j \in 1..Len(texts) |->
        IF SentFor(texts[j]) = {} THEN texts[j] ELSE CHOOSE v \in SentFor(texts[j]) : TRUE]

(* Each piece is put out as it is or as the value it was sent for. *)
LEMMA PieceUnmasked ==
    ASSUME IInv, phase = "done", NoneLikeToken,
           NEW texts \in Seq(V!Masks), Unambiguous(texts),
           NEW f, Joins(f, texts), NEW g, Unmasks(g, f[Len(texts)]), NEW j \in 1..Len(texts)
    PROVE  /\ Restored(texts)[j] \in Seq(Characters)
           /\ g[Len(f[j - 1])] = Restored(texts)[j] \o g[Len(f[j])]
<1> DEFINE all == f[Len(texts)]
           b == Len(f[j - 1])
           t == texts[j]
<1>1. /\ texts \in Seq(Seq(Characters)) /\ all \in Seq(Characters) /\ t \in Seq(Characters)
      /\ FlattenSeq(texts) = all /\ VaultInv /\ FromRequest
  <2>1. texts \in Seq(Seq(Characters))
    BY BodyTyped
  <2> QED
    BY <2>1, FlattenJoins, ElementOfSeq DEF IInv
<1>2. StandsAt(all, t, b) /\ Len(f[j]) = b + Len(t)
  BY <1>1, JoinsPlace
<1>3. Len(FlattenSeq(SubSeq(texts, 1, j - 1))) = b
  BY <1>1, Begin
<1>4. /\ SentFor(t) = {} => \A k \in 1..Len(t) : MasksAt(all, b + k - 1) = {}
      /\ SentFor(t) # {} => \A n \in MasksAt(all, b) : Len(entries[n].mask) <= Len(t)
  BY <1>1, <1>3 DEF Unambiguous
<1>5. Unmasks(g, all)
  OBVIOUS
<1> HIDE DEF all, b
<1>6. CASE SentFor(t) = {}
  <2>1. Restored(texts)[j] = t
    BY <1>6 DEF Restored
  <2> HIDE DEF t
  <2>2. \A k \in 1..Len(t) : MasksAt(all, b + k - 1) = {}
    BY <1>4, <1>6
  <2>3. g[b] = t \o g[b + Len(t)]
    <3>1. VaultInv /\ all \in Seq(Characters) /\ t \in Seq(Characters)
      BY <1>1
    <3>2. Unmasks(g, all) /\ StandsAt(all, t, b)
      BY <1>2, <1>5
    <3> QED
      BY <2>2, <3>1, <3>2, TextStays
  <2> QED
    BY <1>1, <1>2, <2>1, <2>3 DEF b
<1>7. CASE SentFor(t) # {}
  <2> DEFINE v == CHOOSE w \in SentFor(t) : TRUE
  <2>1. v \in SentFor(t) /\ Restored(texts)[j] = v
    BY <1>7 DEF Restored
  <2> HIDE DEF t, v
  <2>2. PICK m \in 1..Len(entries) : entries[m].mask = t /\ entries[m].original = v
    BY <2>1, SentForPair
  <2>3. StandsAt(all, entries[m].mask, b) /\ NoneLonger(all, b, m)
    BY <1>2, <1>4, <1>7, <2>2 DEF NoneLonger
  <2>4. g[b] = entries[m].original \o g[b + Len(entries[m].mask)]
    <3>1. b \in Nat
      BY <1>2 DEF StandsAt
    <3>2. VaultInv /\ FromRequest /\ all \in Seq(Characters) /\ Unmasks(g, all)
      BY <1>1, <1>5
    <3>3. m \in 1..Len(entries)
      BY <2>2
    <3> QED
      BY <2>3, <3>1, <3>2, <3>3, MaskGivesWay
  <2>5. g[b] = v \o g[b + Len(t)]
    BY <2>2, <2>4
  <2>6. v \in Seq(Characters)
    BY <1>1, <2>2, PairsTyped
  <2> QED
    BY <1>2, <2>1, <2>5, <2>6 DEF b
<1> QED
  BY <1>6, <1>7

(* Piece by piece, all of the body is. *)
LEMMA AllUnmasked ==
    ASSUME IInv, phase = "done", NoneLikeToken,
           NEW texts \in Seq(V!Masks), Unambiguous(texts)
    PROVE  UnmaskText(FlattenSeq(texts)) = FlattenSeq(Restored(texts))
<1> DEFINE all == FlattenSeq(texts)
           N == Len(texts)
           out == Restored(texts)
<1>1. texts \in Seq(Seq(Characters)) /\ all \in Seq(Characters) /\ N \in Nat /\ VaultInv
  BY BodyTyped DEF IInv
<1>2. PICK f : Joins(f, texts)
  BY <1>1, JoinsExists
<1>3. all = f[N]
  BY <1>1, <1>2, FlattenJoins
<1>4. PICK g : UnmaskText(all) = g[0] /\ Unmasks(g, all)
  BY <1>1, Unmasking
<1> DEFINE r == [j \in 0..N |-> g[Len(f[j])]]
<1>5. ASSUME NEW j \in 1..N
      PROVE  /\ out[j] \in Seq(Characters)
             /\ g[Len(f[j - 1])] = out[j] \o g[Len(f[j])]
  <2>1. Unmasks(g, f[Len(texts)])
    BY <1>3, <1>4
  <2> QED
    BY <1>2, <2>1, PieceUnmasked
<1>6. out \in Seq(Seq(Characters)) /\ Len(out) = N
  <2>1. Len(out) = N /\ out = [j \in 1..N |-> out[j]]
    BY <1>1 DEF Restored
  <2> HIDE DEF out
  <2> QED
    BY <1>1, <1>5, <2>1
<1>7. ASSUME NEW j \in 0..N
      PROVE  r[j] \in Seq(Characters)
  <2> DEFINE p == Len(f[j])
  <2>1. p \in 0..Len(all)
    <3>1. f[j] \in Seq(Characters) /\ Len(f[j]) <= Len(f[N])
      <4>1. N \in j..Len(texts)
        BY <1>1
      <4> QED
        BY <1>1, <1>2, <4>1, JoinsTyped, JoinsPrefix
    <3> QED
      BY <1>1, <1>3, <3>1
  <2> HIDE DEF p
  <2>2. g[p] \in Seq(Characters)
    BY <1>4, <2>1 DEF Unmasks
  <2> QED
    BY <2>2 DEF p
<1>8. ASSUME NEW j \in 1..N
      PROVE  r[j - 1] = out[j] \o r[j]
  <2>1. j - 1 \in 0..N /\ j \in 0..N
    BY <1>1
  <2>2. r[j - 1] = g[Len(f[j - 1])] /\ r[j] = g[Len(f[j])]
    BY <2>1
  <2> QED
    BY <1>5, <2>2
<1>9. r[0] = g[0] /\ r[N] = << >>
  <2>1. Len(f[0]) = 0
    BY <1>2, EmptySeq DEF Joins
  <2>2. g[Len(f[N])] = << >>
    BY <1>3, <1>4 DEF Unmasks
  <2> QED
    BY <1>1, <2>1, <2>2
<1> HIDE DEF r, out, N
<1>10. r[0] = FlattenSeq(out) \o r[Len(out)]
  <2>1. Unfolds(r, out, Characters)
    BY <1>6, <1>7, <1>8 DEF Unfolds
  <2> QED
    BY <1>6, <2>1, Telescopes
<1>11. FlattenSeq(out) \o << >> = FlattenSeq(out)
  <2>1. PICK h : Joins(h, out)
    BY <1>1, <1>6, JoinsExists
  <2>2. FlattenSeq(out) \in Seq(Characters)
    BY <1>6, <2>1, FlattenJoins
  <2> QED
    BY <2>2, ConcatEmptySeq
<1>12. UnmaskText(all) = FlattenSeq(out)
  BY <1>4, <1>6, <1>9, <1>10, <1>11
<1> QED
  BY <1>12 DEF out

(* The client gets the values in the places of their masks. *)
LEMMA TripsRound == IInv => RoundTrips
<1> SUFFICES ASSUME IInv, phase = "done", unmask, NoneLikeToken, Unambiguous(Remasked)
             PROVE  /\ \A j \in 1..Len(Remasked) : Cardinality(SentFor(Remasked[j])) <= 1
                    /\ received = FlattenSeq(Restored(Remasked))
  BY DEF RoundTrips, Restored
<1>1. Remasked \in Seq(V!Masks)
  BY RemaskedTyped DEF Delivered
<1>2. \A j \in 1..Len(Remasked) : Cardinality(SentFor(Remasked[j])) <= 1
  BY SentForOne
<1>3. received = IF NeedsUnmask THEN UnmaskText(FlattenSeq(Remasked))
                 ELSE FlattenSeq(Remasked)
  BY DEF IInv, Received
<1>4. CASE entries # << >>
  BY <1>1, <1>2, <1>3, <1>4, AllUnmasked DEF NeedsUnmask
<1>5. CASE entries = << >>
  <2>1. \A t : SentFor(t) = {}
    BY <1>5, SentForPair, EmptySeq
  <2> DEFINE texts == Remasked
  <2>2. Restored(texts) = [j \in 1..Len(texts) |-> texts[j]]
    BY <2>1 DEF Restored
  <2> HIDE DEF texts
  <2>3. texts = [j \in 1..Len(texts) |-> texts[j]]
    BY <1>1, LenProperties DEF texts
  <2>4. ~NeedsUnmask
    BY <1>5 DEF NeedsUnmask
  <2>5. Restored(Remasked) = Remasked
    BY <2>2, <2>3 DEF texts
  <2> QED
    BY <1>2, <1>3, <2>4, <2>5
<1> QED
  BY <1>4, <1>5

(* Wherever the masks sent for values stand in a response, and nothing else *)
(* there spells a mask, the client gets those values in their places and    *)
(* the rest as it is: for every draw, capacity, request and response,       *)
(* tokens and masks that overlap included, if no value enrolled has the     *)
(* format of a token.                                                       *)
THEOREM AlwaysRoundTrips == Spec => []RoundTrips
BY Invariance, TripsRound, PTL

-----------------------------------------------------------------------------
(* Seen from the vault, an exchange is a sequence of calls of mask_value, *)
(* no more of them than there are pieces in the two bodies.               *)
LEMMA PieceCalls ==
    ASSUME NEW p, NEW e \in BOOLEAN,
           UNCHANGED vaultVars \/ (p.rule # "none" /\ V!MaskValue(p.text, e)),
           p.rule # "none" => p.text \in Texts,
           Len(log) < 2 * MaxPieces
    PROVE  [V!Next]_(V!vars)
<1>1. CASE UNCHANGED vaultVars
  BY <1>1 DEF vaultVars, V!vars
<1>2. CASE p.rule # "none" /\ V!MaskValue(p.text, e)
  BY <1>2 DEF V!Next
<1> QED
  BY <1>1, <1>2

(* A step of the exchange calls mask_value at most once. *)
LEMMA StepCalls == ASSUME IInv, [Next]_vars PROVE [V!Next]_(V!vars)
<1>1. CASE MaskPiece
  <2> DEFINE p == request[Len(masked) + 1]
             e == p.rule = "both"
  <2>1. /\ phase = "masking" /\ Len(masked) < Len(request)
        /\ Rewritten(request, masked, e)
    BY <1>1 DEF MaskPiece
  <2>2. /\ request \in Requests /\ Len(masked) \in Nat /\ Len(log) \in Nat
        /\ Len(log) <= Len(masked) + Len(remasked) /\ Len(remasked) = 0
    BY <2>1, EmptySeq DEF IInv, Phases, Rewrites, VaultInv, VP!IInv, VP!TypeOK
  <2>3. Len(request) \in Nat /\ Len(request) <= MaxPieces /\ p.text \in Texts
    BY <2>1, <2>2, RequestPieces
  <2>4. Len(log) < 2 * MaxPieces /\ e \in BOOLEAN
    BY <2>1, <2>2, <2>3, BoundsAssumption
  <2>5. UNCHANGED vaultVars \/ (p.rule # "none" /\ V!MaskValue(p.text, e))
    BY <2>1 DEF Rewritten
  <2> HIDE DEF p, e
  <2> QED
    BY <2>3, <2>4, <2>5, PieceCalls
<1>2. CASE RemaskPiece
  <2> DEFINE p == response[Len(remasked) + 1]
  <2>1. /\ phase = "remasking" /\ Len(remasked) < Len(response)
        /\ Rewritten(response, remasked, FALSE)
    BY <1>2 DEF RemaskPiece
  <2>2. /\ response \in Responses \cup {<< >>} /\ Len(remasked) \in Nat
        /\ request \in Requests /\ Len(masked) = Len(request)
        /\ Len(log) <= Len(masked) + Len(remasked) /\ Len(log) \in Nat
    BY <2>1 DEF IInv, Phases, Rewrites, SentAsMasked, VaultInv, VP!IInv, VP!TypeOK
  <2>3. /\ Len(response) \in Nat /\ Len(response) <= MaxPieces
        /\ Len(request) \in Nat /\ Len(request) <= MaxPieces
        /\ p.rule # "none" => p.text \in Texts
    BY <2>1, <2>2, RequestPieces, ResponsePieces
  <2>4. Len(log) < 2 * MaxPieces
    BY <2>1, <2>2, <2>3, BoundsAssumption
  <2>5. UNCHANGED vaultVars \/ (p.rule # "none" /\ V!MaskValue(p.text, FALSE))
    BY <2>1 DEF Rewritten
  <2> HIDE DEF p
  <2> QED
    BY <2>3, <2>4, <2>5, PieceCalls
<1>3. CASE Send \/ Respond \/ Deliver \/ DeliverMasked \/ UNCHANGED vars
  BY <1>3 DEF Send, Respond, Deliver, DeliverMasked, vars, vaultVars, V!vars
<1> QED
  BY <1>1, <1>2, <1>3 DEF Next

(* Every exchange is, for its vault, a run of Vault.tla: what is proved of *)
(* the vault holds in it, and MaxCalls bounds the calls by the pieces of   *)
(* both bodies.                                                            *)
THEOREM ExchangeUsesVault == Spec => V!Spec
<1>1. Init => V!Init
  BY DEF Init
<1> QED
  BY <1>1, StepCalls, Invariance, PTL DEF Spec, V!Spec

(* A call of the exchange's vault is a call of the vault proved about. *)
LEMMA CallsAlike ==
    ASSUME IInv, [V!Next]_(V!vars)
    PROVE  [VP!Next]_(VP!vars)
<1>1. CASE UNCHANGED V!vars
  BY <1>1 DEF V!vars, VP!vars
<1>2. CASE V!Next
  <2>1. PICK o \in Texts, e \in BOOLEAN : V!MaskValue(o, e)
    BY <1>2 DEF V!Next
  <2>2. VP!MaskValue(o, e)
    BY <2>1, CallKinds DEF IInv, VaultInv
  <2>3. Len(log) < 2 * MaxPieces
    BY <1>2 DEF V!Next
  <2> QED
    BY <2>1, <2>2, <2>3 DEF VP!Next
<1> QED
  BY <1>1, <1>2

(* Over a whole exchange a value that got a mask in the request keeps it,  *)
(* also where a rule of scope response matches it again (mask.rs:96-107).  *)
THEOREM MasksOutliveTheRequest == Spec => []V!SameMaskOnceEnrolled
<1>1. Init => VP!Init
  BY SameVault DEF Init, V!Init
<1>2. Spec => VP!Spec
  BY <1>1, StepCalls, CallsAlike, Invariance, PTL DEF Spec, VP!Spec
<1>3. VP!Spec => []VP!SameMaskOnceEnrolled
  BY VaultAssumed, VP!MasksAreStable
<1>4. VP!SameMaskOnceEnrolled <=> V!SameMaskOnceEnrolled
  BY DEF VP!SameMaskOnceEnrolled, V!SameMaskOnceEnrolled
<1> QED
  BY <1>2, <1>3, <1>4, PTL

(* To an exchange its vault is a dictionary of pseudonyms: every step looks *)
(* one up, assigns a fresh one, makes one up or is refused one.             *)
THEOREM ExchangeUsesDictionary == Spec => VP!ImplementsPseudonyms
<1>1. Init => VP!Init
  BY SameVault DEF Init, V!Init
<1>2. Spec => VP!Spec
  BY <1>1, StepCalls, CallsAlike, Invariance, PTL DEF Spec, VP!Spec
<1>3. VP!Spec => VP!ImplementsPseudonyms
  BY VaultAssumed, VP!Refinement
<1> QED
  BY <1>2, <1>3, PTL
=============================================================================
