--------------------------------- MODULE Filter ---------------------------------
(***************************************************************************)
(* The two asynchronous handlers of src/lib.rs, request_filter and         *)
(* response_filter, over one exchange: what each early return, size limit, *)
(* content type, failed set_body and cancelled request does to the bodies  *)
(* the upstream and the client get.  What masking and unmasking do inside  *)
(* a body is in RoundTrip.tla; here a body is its format, and what became  *)
(* of it is the passes it went through.                                    *)
(***************************************************************************)
EXTENDS Naturals, FiniteSets

Scopes == {"both", "request", "response"}
Modes == {"auto", "json", "text"}

(* A body is valid JSON, other UTF-8 text, or bytes that are not UTF-8 (a   *)
(* compressed response); big: longer than max_body_size_bytes.             *)
Body == [format : {"json", "text", "binary"}, big : BOOLEAN]
NoBody == [format |-> "none", big |-> FALSE]

Message == [json_type : BOOLEAN, body : Body \cup {NoBody}]

(* What a body has been through: the masking pass ("json" leaf by leaf,    *)
(* "text" as a whole), and the unmasking pass; lost: replaced by nothing.  *)
Passes == [mask : {"no", "json", "text"}, unmask : BOOLEAN, lost : BOOLEAN]
Untouched == [mask |-> "no", unmask |-> FALSE, lost |-> FALSE]

Policy == [mask_request_body : BOOLEAN, unmask_response_body : BOOLEAN,
           content_type_mode : Modes, scopes : SUBSET Scopes]

VARIABLES
    cfg,      \* PolicyConfig: the settings and the scopes of its rules
    pc,       \* where the exchange is, see TypeOK
    request,  \* headers and body from the client
    response, \* headers and body from the upstream
    data,     \* RequestData: what the request handler left for the response
    failed,   \* whether a set_body failed, on either side, or the unmasking
    sent,     \* what the body the upstream gets has been through
    received  \* what the body the client gets has been through

vars == <<cfg, pc, request, response, data, failed, sent, received>>

(* RequestData with the RequestState of a request that continued.  A vault *)
(* is Vault::empty(), whose generator has the seed zero, or seeded from    *)
(* the body and the clock: filled when some value was enrolled, else bare. *)
RequestData == [kind : {"Pending", "Continue", "Cancel"},
                vault : {"zero", "bare", "filled"}, is_json : BOOLEAN]
Pending == [kind |-> "Pending", vault |-> "zero", is_json |-> FALSE]
Cancel == [kind |-> "Cancel", vault |-> "zero", is_json |-> FALSE]

Continue(vault) ==
    [kind |-> "Continue", vault |-> vault, is_json |-> request.json_type]

TypeOK ==
    /\ cfg \in Policy
    /\ pc \in {"request", "request_body", "upstream", "response",
               "response_body", "done", "aborted"}
    /\ request \in Message
    /\ response \in Message
    /\ data \in RequestData
    /\ data = Pending => pc \in {"request", "request_body", "aborted"}
    /\ failed \in [request : BOOLEAN, response : BOOLEAN, unmask : BOOLEAN]
    /\ sent \in Passes
    /\ received \in Passes

Init ==
    /\ cfg \in Policy
    /\ pc = "request"
    /\ request \in Message
    /\ response = [json_type |-> FALSE, body |-> NoBody]
    /\ data = Pending
    /\ failed = [request |-> FALSE, response |-> FALSE, unmask |-> FALSE]
    /\ sent = Untouched
    /\ received = Untouched

HasBody(m) == m.body # NoBody
Utf8(m) == m.body.format # "binary"

(***************************************************************************)
(* request_filter.                                                         *)
(***************************************************************************)
RequestSkipped ==
    \/ ~cfg.mask_request_body
    \/ cfg.scopes = {}
    \/ ~HasBody(request)

SkipRequest ==
    /\ pc = "request"
    /\ RequestSkipped
    /\ pc' = "upstream"
    /\ data' = Continue("zero")
    /\ UNCHANGED <<cfg, request, response, failed, sent, received>>

(* into_body_state().await *)
AwaitRequestBody ==
    /\ pc = "request"
    /\ ~RequestSkipped
    /\ pc' = "request_body"
    /\ UNCHANGED <<cfg, request, response, data, failed, sent, received>>

(* Variant: a body that is too large is not passed on. *)
RequestTooLargeHeld ==
    /\ pc = "request_body"
    /\ request.body.big
    /\ data' = Continue("zero")
    /\ UNCHANGED <<cfg, pc, request, response, failed, sent, received>>

(* Variant: nothing is handed to the response. *)
RequestTooLargeBare ==
    /\ pc = "request_body"
    /\ request.body.big
    /\ pc' = "upstream"
    /\ UNCHANGED <<cfg, request, response, data, failed, sent, received>>

RequestTooLarge ==
    /\ pc = "request_body"
    /\ request.body.big
    /\ pc' = "upstream"
    /\ data' = Continue("zero")
    /\ UNCHANGED <<cfg, request, response, failed, sent, received>>

(* mask_body: leaf by leaf if the body is to be read as JSON and is JSON,  *)
(* as one text otherwise; bytes that are not UTF-8 are left alone.         *)
RequestMask ==
    LET use_json == \/ cfg.content_type_mode = "json"
                    \/ cfg.content_type_mode = "auto" /\ request.json_type
    IN  IF use_json /\ request.body.format = "json" THEN "json"
        ELSE IF Utf8(request) THEN "text" ELSE "no"

(* Rules of scope both may enroll something; others never do. *)
Enrolled ==
    {"bare"} \cup
        IF "both" \in cfg.scopes /\ RequestMask # "no" THEN {"filled"} ELSE {}

MaskRequest ==
    /\ pc = "request_body"
    /\ ~request.body.big
    /\ pc' = "upstream"
    /\ sent' = [Untouched EXCEPT !.mask = RequestMask]
    /\ \E vault \in Enrolled : data' = Continue(vault)
    /\ UNCHANGED <<cfg, request, response, failed, received>>

(* Variant: the vault is kept although the body was not replaced. *)
SetRequestFailsKeepingVault ==
    /\ pc = "request_body"
    /\ ~request.body.big
    /\ pc' = "upstream"
    /\ failed' = [failed EXCEPT !.request = TRUE]
    /\ \E vault \in Enrolled : data' = Continue(vault)
    /\ UNCHANGED <<cfg, request, response, sent, received>>

(* set_body fails: the body goes through and the vault is dropped. *)
SetRequestFails ==
    /\ pc = "request_body"
    /\ ~request.body.big
    /\ pc' = "upstream"
    /\ failed' = [failed EXCEPT !.request = TRUE]
    /\ data' = Continue("zero")
    /\ UNCHANGED <<cfg, request, response, sent, received>>

(***************************************************************************)
(* The gateway around the handlers.                                        *)
(***************************************************************************)
Answer(m) ==
    /\ response' = m
    /\ pc' = "response"

UpstreamAnswers ==
    /\ pc = "upstream"
    /\ \E m \in Message : Answer(m)
    /\ UNCHANGED <<cfg, request, data, failed, sent, received>>

(* The gateway answers by itself while the request handler waits for the   *)
(* rest of the body, say after a timeout: the handler is cancelled.        *)
AnsweredEarly ==
    /\ pc = "request_body"
    /\ data' = Cancel
    /\ \E m \in Message : Answer(m)
    /\ UNCHANGED <<cfg, request, failed, sent, received>>

(* The connection is reset while a handler waits for a body. *)
Abort ==
    /\ pc \in {"request_body", "response_body"}
    /\ pc' = "aborted"
    /\ UNCHANGED <<cfg, request, response, data, failed, sent, received>>

(***************************************************************************)
(* response_filter.                                                        *)
(***************************************************************************)
NeedsUnmask == cfg.unmask_response_body /\ data.vault = "filled"

NeedsResponseMask == "response" \in cfg.scopes

(* Variant: a request that was cancelled is taken for one that continued   *)
(* with nothing enrolled.                                                  *)
ResponseSkippedNotCancelled ==
    \/ ~NeedsUnmask /\ ~NeedsResponseMask
    \/ ~HasBody(response)

(* Variant: only a policy that masked the request looks at the response. *)
ResponseSkippedUnlessMasked ==
    \/ data = Cancel
    \/ ~NeedsUnmask
    \/ ~HasBody(response)

ResponseSkipped ==
    \/ data = Cancel
    \/ ~NeedsUnmask /\ ~NeedsResponseMask
    \/ ~HasBody(response)

SkipResponse ==
    /\ pc = "response"
    /\ ResponseSkipped
    /\ pc' = "done"
    /\ UNCHANGED <<cfg, request, response, data, failed, sent, received>>

(* into_body_state().await *)
AwaitResponseBody ==
    /\ pc = "response"
    /\ ~ResponseSkipped
    /\ pc' = "response_body"
    /\ UNCHANGED <<cfg, request, response, data, failed, sent, received>>

ResponseTooLarge ==
    /\ pc = "response_body"
    /\ response.body.big
    /\ pc' = "done"
    /\ UNCHANGED <<cfg, request, response, data, failed, sent, received>>

ResponseUseJson ==
    \/ cfg.content_type_mode = "json"
    \/ cfg.content_type_mode = "auto" /\ response.json_type
    \/ data.is_json /\ response.json_type

(* The text to unmask; an empty one, of bytes lost, is not searched. *)
Unmaskable == NeedsUnmask /\ Utf8(response)

(* Variant: what rules of scope response were tried on is not unmasked. *)
TransformedOnce(built) ==
    LET lost == NeedsResponseMask /\ ResponseUseJson /\ ~Utf8(response)
        mask == IF ~NeedsResponseMask \/ ~Utf8(response) THEN "no"
                ELSE IF ResponseUseJson /\ response.body.format = "json" THEN "json"
                ELSE "text"
    IN  [mask |-> mask, lost |-> lost,
         unmask |-> Unmaskable /\ built /\ ~NeedsResponseMask]

(* transform_response: rules of scope response first, and what they made   *)
(* of the body is then unmasked, if the automaton over the masks can be    *)
(* built.  Bytes that are not UTF-8 are left alone, except when they are   *)
(* to be read as JSON and a rule of scope response applies: they become    *)
(* the empty text.                                                         *)
Transformed(built) ==
    LET lost == NeedsResponseMask /\ ResponseUseJson /\ ~Utf8(response)
        mask == IF ~NeedsResponseMask \/ ~Utf8(response) THEN "no"
                ELSE IF ResponseUseJson /\ response.body.format = "json" THEN "json"
                ELSE "text"
    IN  [mask |-> mask, unmask |-> Unmaskable /\ built, lost |-> lost]

(* The new body is set, or it is the old one and nothing is done. *)
TransformResponse ==
    /\ pc = "response_body"
    /\ ~response.body.big
    /\ pc' = "done"
    /\ \E built \in BOOLEAN :
          /\ received' = Transformed(built)
          /\ failed' = [failed EXCEPT !.unmask = Unmaskable /\ ~built]
    /\ UNCHANGED <<cfg, request, response, data, sent>>

(* set_body fails: the body goes through as the upstream sent it. *)
SetResponseFails ==
    /\ pc = "response_body"
    /\ ~response.body.big
    /\ pc' = "done"
    /\ \E built \in BOOLEAN :
          /\ Transformed(built) # Untouched
          /\ failed' = [failed EXCEPT !.response = TRUE,
                                      !.unmask = Unmaskable /\ ~built]
    /\ UNCHANGED <<cfg, request, response, data, sent, received>>

RequestFilter ==
    \/ SkipRequest
    \/ AwaitRequestBody
    \/ RequestTooLarge
    \/ MaskRequest
    \/ SetRequestFails

ResponseFilter ==
    \/ SkipResponse
    \/ AwaitResponseBody
    \/ ResponseTooLarge
    \/ TransformResponse
    \/ SetResponseFails

Gateway == UpstreamAnswers \/ AnsweredEarly \/ Abort

Next == RequestFilter \/ ResponseFilter \/ Gateway

Spec == Init /\ [][Next]_vars

(* The handlers run when the host polls them, and a body they await is     *)
(* completed, or its connection is reset: nothing is assumed of the        *)
(* upstream itself, which may never answer.                                *)
FairSpec == Spec /\ WF_vars(RequestFilter) /\ WF_vars(ResponseFilter)

(***************************************************************************)
(* Properties.                                                             *)
(***************************************************************************)
(* A response is unmasked only against a request whose masked body really  *)
(* went upstream: a failed or cancelled or skipped masking leaves nothing  *)
(* to restore by (lib.rs:104-136, 158-165).                                *)
UnmaskedOnlyIfMasked ==
    received.unmask =>
        sent.mask # "no" /\ ~failed.request /\ data.vault = "filled"

(* When masks were enrolled and the policy unmasks, the client gets masks  *)
(* only for a reason: the answer is too long, not UTF-8, or could not be   *)
(* replaced, all of which the code logs, or the automaton over the masks   *)
(* could not be built, which it does not (lib.rs:163-206, 270-281,         *)
(* unmask.rs:17-24).                                                       *)
UnmaskedUnlessExcused ==
    /\ pc = "done"
    /\ cfg.unmask_response_body
    /\ data # Cancel
    /\ data.vault = "filled"
    /\ HasBody(response)
    => \/ received.unmask
       \/ response.body.big
       \/ ~Utf8(response)
       \/ failed.response
       \/ failed.unmask

(* Rules of scope response apply to every UTF-8 answer of a request that   *)
(* was not cancelled, whether or not the request was masked                *)
(* (lib.rs:165-176, home.md:114).                                          *)
ResponseRulesApplied ==
    /\ pc = "done"
    /\ "response" \in cfg.scopes
    /\ data # Cancel
    /\ HasBody(response)
    => \/ received.mask # "no"
       \/ response.body.big
       \/ ~Utf8(response)
       \/ failed.response

(* A policy whose rules and switches leave a side alone never changes the  *)
(* body of that side; a body over the size limit is never changed, and     *)
(* neither is an answer to a request that was cancelled                    *)
(* (lib.rs:104-124, 158-188).  The switch unmask_response_body alone does  *)
(* not leave the response alone: rules of scope response change it even    *)
(* when the switch is off, although lib.rs:14-15 says that the body is     *)
(* "forwarded unchanged" then.                                             *)
LeftAlone ==
    /\ ~cfg.mask_request_body \/ cfg.scopes = {} \/ request.body.big
         => sent = Untouched
    /\ \/ cfg.scopes = {}
       \/ data = Cancel
       \/ response.body.big
       \/ "response" \notin cfg.scopes
             /\ (~cfg.mask_request_body \/ ~cfg.unmask_response_body)
       => received = Untouched

(* Both handlers come to an end: a request is passed on or answered, and   *)
(* a response is delivered, unless the connection is reset.                *)
HandlersEnd ==
    /\ pc = "request" ~> pc \notin {"request", "request_body"}
    /\ pc = "response" ~> pc \in {"done", "aborted"}

(* README.md:114-115 says that "each request has its own seed", and        *)
(* lib.rs:294-296 that masks differ across requests for it.  A request     *)
(* that was not masked hands on the vault with the seed zero, and the      *)
(* rules of scope response draw from it (lib.rs:104-136, 196-197).         *)
MasksVaryAcrossRequests == received.mask # "no" => data.vault # "zero"

(* home.md:271-272 says that compressed responses are "forwarded without   *)
(* unmasking", so a response should never be replaced by an empty body.    *)
ResponseNeverLost == ~received.lost
=============================================================================
