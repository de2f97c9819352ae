------------------------------ MODULE FilterProofs ------------------------------
(***************************************************************************)
(* Theorems about the two handlers.  None of the properties is inductive:  *)
(* what a handler does behind an await rests on what it tested before it,  *)
(* and what the response handler does on what the request handler left for *)
(* it.  Order states both.                                                 *)
(***************************************************************************)
EXTENDS Filter, TLAPS

(* A body is as it was until its handler has come to its end. *)
Fresh ==
    /\ pc \in {"request", "request_body"} =>
          data = Pending /\ sent = Untouched /\ failed.request = FALSE
    /\ pc # "done" =>
          received = Untouched /\ failed.response = FALSE /\ failed.unmask = FALSE

(* What was tested before a body was awaited holds behind the await. *)
Tested ==
    /\ pc = "request_body" => ~RequestSkipped
    /\ pc = "response_body" => ~ResponseSkipped
    /\ received # Untouched => ~ResponseSkipped /\ ~response.body.big

(* A vault with pairs is that of a body that was masked and replaced. *)
Handed ==
    /\ data.vault = "filled" => sent.mask # "no" /\ failed.request = FALSE
    /\ sent # Untouched => ~RequestSkipped /\ ~request.body.big

(* The response handler ended early for a reason, or did all it had to do. *)
Ended ==
    /\ pc = "done" =>
          \/ ResponseSkipped
          \/ response.body.big
          \/ failed.response
          \/ received = Transformed(~failed.unmask)
    /\ received # Untouched => received = Transformed(~failed.unmask)

Order == TypeOK /\ Fresh /\ Tested /\ Handed /\ Ended

(* Nothing has happened at the beginning. *)
LEMMA InitialOrder == Init => Order
  BY DEF Init, Order, TypeOK, Fresh, Tested, Handed, Ended, Message, Body, NoBody,
    Pending, RequestData, Untouched, Passes, Policy

USE DEF Message, Body, NoBody, Pending, Cancel, Continue, RequestData, Untouched,
    Passes, Policy, Scopes, Modes

(* The request handler takes whatever the client sent to a state in which  *)
(* its vault and the body it passed on agree (lib.rs:98-151).              *)
LEMMA RequestFilterKeepsOrder == Order /\ RequestFilter => Order'
<1> SUFFICES ASSUME Order, RequestFilter
             PROVE  Order'
  OBVIOUS
<1> USE DEF Order, TypeOK, Fresh, Tested, Handed, Ended, RequestSkipped
<1>1. CASE SkipRequest
  BY <1>1 DEF SkipRequest, ResponseSkipped, NeedsUnmask
<1>2. CASE AwaitRequestBody
  BY <1>2 DEF AwaitRequestBody
<1>3. CASE RequestTooLarge
  BY <1>3 DEF RequestTooLarge
<1>4. CASE MaskRequest
  <2>1. sent' = [mask |-> RequestMask, unmask |-> FALSE, lost |-> FALSE]
    BY <1>4 DEF MaskRequest
  <2>2. RequestMask \in {"no", "json", "text"}
    BY DEF RequestMask
  <2>3. PICK vault \in {"bare", "filled"} :
          /\ data' = Continue(vault)
          /\ vault = "filled" => RequestMask # "no"
    BY <1>4 DEF MaskRequest, Enrolled
  <2>4. /\ pc = "request_body" /\ pc' = "upstream"
        /\ ~request.body.big
        /\ UNCHANGED <<cfg, request, response, failed, received>>
    BY <1>4 DEF MaskRequest
  <2> QED
    BY <2>1, <2>2, <2>3, <2>4
<1>5. CASE SetRequestFails
  <2>1. failed' = [request |-> TRUE, response |-> failed.response,
                   unmask |-> failed.unmask]
    BY <1>5 DEF SetRequestFails
  <2>2. /\ pc = "request_body" /\ pc' = "upstream"
        /\ data' = Continue("zero")
        /\ UNCHANGED <<cfg, request, response, sent, received>>
    BY <1>5 DEF SetRequestFails
  <2> QED
    BY <2>1, <2>2
<1> QED
  BY <1>1, <1>2, <1>3, <1>4, <1>5 DEF RequestFilter

(* Whatever the gateway does leaves the two bodies alone. *)
LEMMA GatewayKeepsOrder == Order /\ Gateway => Order'
<1> SUFFICES ASSUME Order, Gateway
             PROVE  Order'
  OBVIOUS
<1> USE DEF Order, TypeOK, Fresh, Tested, Handed, Ended, RequestSkipped, Answer
<1>1. CASE UpstreamAnswers
  BY <1>1 DEF UpstreamAnswers
<1>2. CASE AnsweredEarly
  BY <1>2 DEF AnsweredEarly
<1>3. CASE Abort
  BY <1>3 DEF Abort
<1> QED
  BY <1>1, <1>2, <1>3 DEF Gateway

(* The response handler ends with a reason or with the whole of its work   *)
(* (lib.rs:153-206).                                                       *)
LEMMA ResponseFilterKeepsOrder == Order /\ ResponseFilter => Order'
<1> SUFFICES ASSUME Order, ResponseFilter
             PROVE  Order'
  OBVIOUS
<1> USE DEF Order, TypeOK, Fresh, Tested, Handed, Ended, RequestSkipped,
      ResponseSkipped, NeedsUnmask, NeedsResponseMask, HasBody
<1>1. CASE SkipResponse
  BY <1>1 DEF SkipResponse
<1>2. CASE AwaitResponseBody
  BY <1>2 DEF AwaitResponseBody
<1>3. CASE ResponseTooLarge
  BY <1>3 DEF ResponseTooLarge
<1>4. CASE TransformResponse
  <2>1. PICK built \in BOOLEAN :
           /\ received' = Transformed(built)
           /\ failed' = [failed EXCEPT !.unmask = Unmaskable /\ ~built]
    BY <1>4 DEF TransformResponse
  <2>2. failed' = [request |-> failed.request, response |-> failed.response,
                   unmask |-> Unmaskable /\ ~built]
    BY <2>1
  <2>3. /\ pc = "response_body" /\ pc' = "done" /\ ~response.body.big
        /\ UNCHANGED <<cfg, request, response, data, sent>>
    BY <1>4 DEF TransformResponse
  <2>4. Transformed(built) = Transformed(~(Unmaskable /\ ~built))
    BY DEF Transformed
  <2> QED
    BY <2>1, <2>2, <2>3, <2>4 DEF Transformed, Unmaskable, ResponseUseJson, Utf8
<1>5. CASE SetResponseFails
  <2>1. PICK built \in BOOLEAN :
           failed' = [request |-> failed.request, response |-> TRUE,
                      unmask |-> Unmaskable /\ ~built]
    BY <1>5 DEF SetResponseFails
  <2>2. /\ pc = "response_body" /\ pc' = "done"
        /\ UNCHANGED <<cfg, request, response, data, sent, received>>
    BY <1>5 DEF SetResponseFails
  <2> QED
    BY <2>1, <2>2
<1> QED
  BY <1>1, <1>2, <1>3, <1>4, <1>5 DEF ResponseFilter

(* Order holds at every moment of every exchange. *)
THEOREM Invariance == Spec => []Order
<1>1. Order /\ UNCHANGED vars => Order'
  BY DEF Order, TypeOK, Fresh, Tested, Handed, Ended, vars, RequestSkipped,
    ResponseSkipped, NeedsUnmask, NeedsResponseMask, HasBody, Transformed,
    Unmaskable, ResponseUseJson, Utf8
<1>2. Order /\ [Next]_vars => Order'
  BY <1>1, RequestFilterKeepsOrder, ResponseFilterKeepsOrder, GatewayKeepsOrder DEF Next
<1> QED
  BY <1>2, InitialOrder, PTL DEF Spec

(* The variables of the handlers keep their types. *)
THEOREM TypeCorrect == Spec => []TypeOK
<1>1. Order => TypeOK
  BY DEF Order
<1> QED
  BY <1>1, Invariance, PTL

(* A response is unmasked only against a request whose masked body went    *)
(* upstream, however the handlers end (lib.rs:104-136, 158-165).           *)
THEOREM UnmasksOnlyMasked == Spec => []UnmaskedOnlyIfMasked
<1>1. Order => UnmaskedOnlyIfMasked
  BY DEF Order, Handed, Ended, TypeOK, UnmaskedOnlyIfMasked, Transformed,
    Unmaskable, NeedsUnmask
<1> QED
  BY <1>1, Invariance, PTL

(* What was enrolled is unmasked unless one of four reasons excuses it, of *)
(* which only a failed automaton is not logged (lib.rs:163-206, 270-281,   *)
(* unmask.rs:17-24).                                                       *)
THEOREM UnmasksUnlessExcused == Spec => []UnmaskedUnlessExcused
<1>1. Order => UnmaskedUnlessExcused
  BY DEF Order, Ended, TypeOK, UnmaskedUnlessExcused, Transformed,
    Unmaskable, NeedsUnmask,
    ResponseSkipped, HasBody
<1> QED
  BY <1>1, Invariance, PTL

(* Rules of scope response are applied whether or not the request was      *)
(* masked (lib.rs:165-176).                                                *)
THEOREM AppliesResponseRules == Spec => []ResponseRulesApplied
<1>1. Order => ResponseRulesApplied
  BY DEF Order, Ended, TypeOK, ResponseRulesApplied, Transformed, NeedsResponseMask,
    ResponseSkipped, HasBody
<1> QED
  BY <1>1, Invariance, PTL

(* A body no switch, rule or limit lets the policy change is not changed   *)
(* (lib.rs:104-124, 158-188).                                              *)
THEOREM LeavesAlone == Spec => []LeftAlone
<1>1. Order => LeftAlone
  BY DEF Order, Tested, Handed, Ended, TypeOK, LeftAlone, RequestSkipped,
    ResponseSkipped, NeedsUnmask, NeedsResponseMask
<1> QED
  BY <1>1, Invariance, PTL
=============================================================================
