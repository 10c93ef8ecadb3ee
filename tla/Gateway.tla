------------------------------ MODULE Gateway ------------------------------
(***************************************************************************)
(* One request on its way through the server: the auth middleware of its   *)
(* route (server.go), the ValidateToken of the auth handler behind it, the *)
(* service, and the mapping of every outcome to a status and an error code.*)
(* Time passes while the request is on its way, above all while a signing  *)
(* key is fetched and while a backend is called, so a token may expire     *)
(* between two looks at it.                                                *)
(*                                                                         *)
(* The token endpoint has no middleware: its requests go to the IssueToken *)
(* of the auth handler.                                                    *)
(*                                                                         *)
(* Requests share nothing but the caches of the Clerk handler, which are   *)
(* seen here through what findKey (KeyLookup) and IssueToken may answer.   *)
(***************************************************************************)
EXTENDS CloudEvents

CONSTANTS
    MaxTime,        \* the clock, in Unix seconds, runs from 1 to MaxTime
    NoClaim,        \* a token does not have the claim
    BadClaim        \* it has, but its value is not a number

ASSUME GatewayAssumption ==
    /\ MaxTime \in Nat \ {0}
    /\ NoClaim \notin Nat /\ BadClaim \notin Nat /\ NoClaim # BadClaim

VARIABLES
    handler,    \* Server.auth
    service,    \* Server.service
    route,      \* by the middleware: "pact", "events" or "ileap"; or "token"
    bearer,     \* the Authorization header
    now,        \* time.Now().Unix()
    arrived,    \* when the request arrived, or 0
    pc,         \* where the request is
    sampled,    \* now, as ValidateToken read it
    forwarded,  \* the token that the middleware let through (WithAuthToken)
    event,      \* the body of a request on the events route, once it is read
    clerk,      \* what Clerk last answered to IssueToken
    reply,      \* the connect code that the service or IssueToken answered with
    answer      \* status and error code of the response

input == <<handler, service, route, bearer>>
inner == <<sampled, forwarded, event, clerk, reply>>
vars == <<input, now, arrived, pc, inner, answer>>

Time == 1..MaxTime
Claim == Time \cup {NoClaim, BadClaim}

(* A bearer token that has three parts and claims.  start is the later of    *)
(* nbf and iat; a genuine one has the right header and signature and a       *)
(* subject.                                                                  *)
Token == [kind : {"jwt"}, exp : Claim, start : Claim, genuine : BOOLEAN]

(* No header, one of another scheme, no token in it, and one that is no JWT. *)
NotToken == [kind : {"missing", "scheme", "empty", "garbage"}]

HasBearer == bearer.kind \in {"jwt", "garbage"}

None == [kind |-> "none"]

Error(status, code) == [status |-> status, code |-> code]
NoAnswer == Error(0, "")
Success == Error(200, "")

(* The statuses with the codes that go with them. *)
Answer ==
    {NoAnswer, Success,
     Error(400, "BadRequest"), Error(401, "BadRequest"), Error(401, "TokenExpired"),
     Error(403, "AccessDenied"), Error(404, "NoSuchFootprint"),
     Error(500, "InternalError"), Error(501, "NotImplemented"),
     Error(400, "invalid_request"), Error(400, "unsupported_grant_type"),
     Error(429, "temporarily_unavailable"), Error(503, "temporarily_unavailable"),
     Error(500, "server_error")}

After(time, claim) == claim \in Nat /\ time > claim
Before(time, claim) == claim \in Nat /\ time < claim

Init ==
    /\ handler \in {"clerk", "demo", "none"}
    /\ service \in {"demo", "backend", "none"}
    /\ route \in {"pact", "events", "ileap", "token"}
    /\ bearer \in IF route = "token" THEN {[kind |-> "missing"]} ELSE Token \cup NotToken
    /\ now = 1
    /\ arrived = 0
    /\ pc = "wire"
    /\ sampled = 1
    /\ forwarded = None
    /\ event = None
    /\ clerk = "none"
    /\ reply = "none"
    /\ answer = NoAnswer

Tick ==
    /\ now < MaxTime
    /\ now' = now + 1
    /\ UNCHANGED <<input, arrived, pc, inner, answer>>

Goto(label) == pc' = label /\ UNCHANGED answer
Respond(a) == pc' = "done" /\ answer' = a

-----------------------------------------------------------------------------
(* The header checks of the three middlewares. *)
Arrive ==
    /\ pc = "wire"
    /\ route # "token"
    /\ arrived' = now
    /\ IF HasBearer
       THEN Goto(IF route = "ileap" THEN "precheck" ELSE "validate")
       ELSE Respond(IF route = "ileap" THEN Error(403, "AccessDenied")
                                       ELSE Error(400, "BadRequest"))
    /\ UNCHANGED <<input, now, inner>>

(* Mutant: the auth handler is relied upon. *)
isExpiredJWT_Never == FALSE

isExpiredJWT == bearer.kind = "jwt" /\ After(now, bearer.exp)

Precheck ==
    /\ pc = "precheck"
    /\ IF isExpiredJWT THEN Respond(Error(401, "TokenExpired")) ELSE Goto("validate")
    /\ UNCHANGED <<input, arrived, now, inner>>

(* Mutant: the events route refuses as the footprint routes do. *)
Refusal_OnePerAPI(verdict) ==
    IF verdict = "unimplemented" THEN Error(501, "NotImplemented")
    ELSE IF verdict = "unauthenticated" THEN Error(401, "TokenExpired")
    ELSE IF route = "ileap" THEN Error(403, "AccessDenied")
    ELSE Error(401, "BadRequest")

(* What each middleware makes of an error of ValidateToken. *)
Refusal(verdict) ==
    CASE verdict = "unimplemented" -> Error(501, "NotImplemented")
      [] verdict # "unimplemented" /\ route = "pact" -> Error(401, "BadRequest")
      [] verdict # "unimplemented" /\ route = "events" -> Error(400, "BadRequest")
      [] verdict = "unauthenticated" /\ route = "ileap" -> Error(401, "TokenExpired")
      [] verdict = "unknown" /\ route = "ileap" -> Error(403, "AccessDenied")

(* ValidateToken returns. *)
Judge(verdict) ==
    IF verdict = "valid"
    THEN Goto("serve") /\ forwarded' = bearer
    ELSE Respond(Refusal(verdict)) /\ UNCHANGED forwarded

Validates(h) == pc = "validate" /\ handler = h

NoneValidate ==
    /\ Validates("none")
    /\ Judge("unimplemented")
    /\ UNCHANGED <<input, arrived, now, sampled, event, clerk, reply>>

(* Mutant: a claim that cannot be read is taken for one that is not there.   *)
ClerkCheckExp_Lenient ==
    /\ Validates("clerk")
    /\ sampled' = now
    /\ IF bearer.kind # "jwt"
       THEN Judge("unknown")
       ELSE IF After(now, bearer.exp)
            THEN Judge("unauthenticated")
            ELSE Goto("findKey") /\ UNCHANGED forwarded
    /\ UNCHANGED <<input, arrived, now, event, clerk, reply>>

(* Clerk, auth_handler.go:175-192: the claims are read and exp is checked. *)
ClerkCheckExp ==
    /\ Validates("clerk")
    /\ sampled' = now
    /\ IF bearer.kind # "jwt" \/ bearer.exp = BadClaim
       THEN Judge("unknown")
       ELSE IF After(now, bearer.exp)
            THEN Judge("unauthenticated")
            ELSE Goto("findKey") /\ UNCHANGED forwarded
    /\ UNCHANGED <<input, arrived, now, event, clerk, reply>>

(* Lines 218-238, with the time of line 187.                                 *)
ClerkVerdict ==
    IF ~bearer.genuine \/ bearer.start = BadClaim THEN "unknown"
    ELSE IF Before(sampled, bearer.start) THEN "unauthenticated"
    ELSE "valid"

(* Lines 194-239: findKey answers, perhaps after a fetch, or fails, perhaps  *)
(* because Clerk does.                                                       *)
ClerkFindKey ==
    /\ pc = "findKey"
    /\ \/ Judge("unknown")
       \/ Judge(ClerkVerdict)
    /\ UNCHANGED <<input, arrived, now, sampled, event, clerk, reply>>

(* The demo handler, keypair.go:108-133.  The signature comes first, the     *)
(* clock is read to the nanosecond, and of nbf and iat it matters only that  *)
(* an iat can be read.                                                       *)
DemoValidate ==
    /\ Validates("demo")
    /\ IF bearer.kind # "jwt"
       THEN Judge("unknown")
       ELSE IF ~bearer.genuine \/ bearer.exp = BadClaim
            THEN Judge("unknown")
            ELSE \/ After(now, bearer.exp) /\ Judge("unauthenticated")
                 \/ now = bearer.exp /\ Judge("unauthenticated")
                 \/ bearer.start = BadClaim /\ Judge("unknown")
                 \/ ~After(now, bearer.exp) /\ Judge("valid")
    /\ UNCHANGED <<input, arrived, now, sampled, event, clerk, reply>>

-----------------------------------------------------------------------------
(* The codes a service may answer with.  The backend that ileapconnect calls *)
(* is given the forwarded token and looks at it once more.                   *)
ServiceCodes ==
    CASE service = "none" -> {"unimplemented"}
      [] service = "demo" -> {"ok", "not_found"}
      [] service = "backend" ->
            IF After(now, forwarded.exp)
            THEN {"unauthenticated"}
            ELSE {"ok", "not_found", "invalid_argument", "permission_denied",
                  "unimplemented", "unavailable"}

(* Mutant: the code of error.go that its name suggests. *)
HandlerAnswer_PlainNotFound(code) ==
    CASE code = "ok" -> Success
      [] code = "unimplemented" -> Error(501, "NotImplemented")
      [] code = "not_found" -> Error(404, "NotFound")
      [] code = "invalid_argument" -> Error(400, "BadRequest")
      [] code = "permission_denied" -> Error(403, "AccessDenied")
      [] OTHER -> Error(500, "InternalError")

(* writeHandlerError. *)
HandlerAnswer(code) ==
    CASE code = "ok" -> Success
      [] code = "unimplemented" -> Error(501, "NotImplemented")
      [] code = "not_found" -> Error(404, "NoSuchFootprint")
      [] code = "invalid_argument" -> Error(400, "BadRequest")
      [] code = "permission_denied" -> Error(403, "AccessDenied")
      [] OTHER -> Error(500, "InternalError")

Serve ==
    /\ pc = "serve"
    /\ route # "events"
    /\ \E code \in ServiceCodes :
          /\ code = "not_found" => route = "pact"
          /\ reply' = code
          /\ Respond(HandlerAnswer(code))
    /\ UNCHANGED <<input, arrived, now, sampled, forwarded, event, clerk>>

(* limit or offset is refused (Paging). *)
RefuseParameters ==
    /\ pc = "serve"
    /\ route # "events"
    /\ Respond(Error(400, "BadRequest"))
    /\ UNCHANGED <<input, arrived, now, inner>>

(* An event is checked, and dropped. *)
ServeEvent ==
    /\ pc = "serve"
    /\ route = "events"
    /\ event' \in Event
    /\ Respond(IF AcceptsEvent(event') THEN Success ELSE Error(400, "BadRequest"))
    /\ UNCHANGED <<input, arrived, now, sampled, forwarded, clerk, reply>>

-----------------------------------------------------------------------------
(* authToken, up to the call of IssueToken. *)
AskForToken ==
    /\ pc = "wire"
    /\ route = "token"
    /\ arrived' = now
    /\ \/ Goto("issue")
       \/ \E code \in {"invalid_request", "unsupported_grant_type"} : Respond(Error(400, code))
    /\ UNCHANGED <<input, now, inner>>

IssueAnswer(code) ==
    CASE code = "ok" -> Success
      [] code = "unimplemented" -> Error(501, "NotImplemented")
      [] code = "resource_exhausted" -> Error(429, "temporarily_unavailable")
      [] code = "unavailable" -> Error(503, "temporarily_unavailable")
      [] code = "permission_denied" -> Error(400, "invalid_request")
      [] OTHER -> Error(500, "server_error")

(* IssueToken returns. *)
Issue(code) == reply' = code /\ Respond(IssueAnswer(code))

Issues(h) ==
    /\ pc = "issue"
    /\ handler = h
    /\ UNCHANGED <<input, arrived, now, sampled, forwarded, event>>

NoneIssue == Issues("none") /\ Issue("unimplemented") /\ UNCHANGED clerk

(* The credentials are right, or wrong, or the token cannot be signed. *)
DemoIssue ==
    /\ Issues("demo")
    /\ \E code \in {"ok", "permission_denied", "unknown"} : Issue(code)
    /\ UNCHANGED clerk

(* Of what Clerk answers: a body that is what it should be, one that is not, *)
(* 429, 5xx, any other status, and that there is no answer.                  *)
ClerkReply == {"ok", "garbled", "throttled", "failing", "refused", "unreachable"}

(* Mutant: an error of the transport is not looked for. *)
IssueCode_StatusOnly(r) ==
    CASE r = "throttled" -> "resource_exhausted"
      [] r = "failing" -> "unavailable"
      [] OTHER -> "permission_denied"

(* auth_handler.go:115-136. *)
IssueCode(r) ==
    CASE r = "throttled" -> "resource_exhausted"
      [] r \in {"failing", "unreachable"} -> "unavailable"
      [] OTHER -> "permission_denied"

(* A call of SignIn's fails, or it was the last one.  Afterwards a template  *)
(* that fails is done without.                                               *)
ClerkAnswers ==
    /\ clerk' \in ClerkReply
    /\ Issue(IF clerk' = "ok" THEN "ok" ELSE IssueCode(clerk'))

(* A token from the cache, or sign_ins. *)
ClerkSignIn ==
    /\ Issues("clerk")
    /\ \/ Issue("ok") /\ UNCHANGED clerk
       \/ ClerkAnswers
       \/ clerk' = "ok" /\ Goto("touch") /\ UNCHANGED reply

(* With WithActiveOrganization. *)
ClerkTouchSession ==
    /\ pc = "touch"
    /\ ClerkAnswers
    /\ UNCHANGED <<input, arrived, now, sampled, forwarded, event>>

Progress ==
    \/ Arrive \/ Precheck
    \/ NoneValidate \/ ClerkCheckExp \/ ClerkFindKey \/ DemoValidate
    \/ Serve \/ RefuseParameters \/ ServeEvent
    \/ AskForToken \/ NoneIssue \/ DemoIssue \/ ClerkSignIn \/ ClerkTouchSession

Next == Tick \/ Progress

Spec == Init /\ [][Next]_vars

-----------------------------------------------------------------------------
(* Every variable has its type; every error has the code of its status. *)
TypeOK ==
    /\ handler \in {"clerk", "demo", "none"}
    /\ service \in {"demo", "backend", "none"}
    /\ route \in {"pact", "events", "ileap", "token"}
    /\ bearer \in Token \cup NotToken
    /\ now \in Time /\ arrived \in 0..now /\ sampled \in 1..now
    /\ pc \in {"wire", "precheck", "validate", "findKey", "serve", "issue", "touch", "done"}
    /\ forwarded \in Token \cup {None}
    /\ event \in Event \cup {None}
    /\ clerk \in ClerkReply \cup {"none"}
    /\ reply \in {"none", "ok", "not_found", "invalid_argument", "permission_denied",
                  "unimplemented", "unavailable", "unauthenticated",
                  "resource_exhausted", "unknown"}
    /\ answer \in Answer

(* server.go:124-249, auth_handler.go:172-240: whatever the handler and      *)
(* however long a key fetch takes, a service is only called for a token      *)
(* that is genuine and had not expired when the request arrived; the Clerk   *)
(* handler in addition lets none through whose time has not come, nor one    *)
(* whose claims it cannot read.                                              *)
ServiceSeesValidTokens ==
    forwarded # None =>
        /\ forwarded = bearer
        /\ bearer.genuine
        /\ ~After(arrived, bearer.exp)
        /\ handler = "clerk" => /\ ~Before(now, bearer.start)
                                /\ BadClaim \notin {bearer.exp, bearer.start}

(* server.go:202-253: on the iLEAP route a token that has expired before the *)
(* request is answered with 401 TokenExpired, and never with anything else,  *)
(* whichever way the auth handler puts it.                                   *)
ExpiredIsSaidSo ==
    /\ route = "ileap" /\ pc = "done"
    /\ bearer.kind = "jwt" /\ After(arrived, bearer.exp)
    => answer = Error(401, "TokenExpired")

(* A token that has expired, in the second of its exp or later. *)
Expired(t) == t.kind = "jwt" /\ t.exp \in Nat /\ now >= t.exp

(* server.go:119-158: a request on a footprint route that has no token, or   *)
(* one that is refused although it has not expired, whatever the handler     *)
(* says is wrong with it, is answered with BadRequest, by 400 without a      *)
(* token and by 401 with one; server.go:160-200: on the events route every   *)
(* request that is refused is answered with 400 BadRequest.                  *)
PactRefusals ==
    pc = "done" /\ forwarded = None /\ handler # "none" =>
        /\ route = "pact" /\ ~Expired(bearer) =>
               answer = Error(IF HasBearer THEN 401 ELSE 400, "BadRequest")
        /\ route = "events" => answer = Error(400, "BadRequest")

(* server.go:523-619: an event is judged by what its data says, whichever of *)
(* the four ways that is written in, and whatever else the text of it could  *)
(* be taken for: numbers and words that happen to be base64 included.  Only  *)
(* null is judged by the way it is written, and a text that is no JSON but   *)
(* base64 cannot be told from base64.                                        *)
EventsAreJudgedByContent ==
    LET data == event.data
    IN  /\ event # None
        /\ data.content # "null"
        /\ data.written = "text" /\ data.content = "noise" => ~IsBase64(data.text)
        => (answer = Success <=>
               /\ event.wellFormed
               /\ data.content # "nothing"
               /\ \/ event.type = "known"
                  \/ event.type = "published" /\ data.content = "ids")

(* auth_handler.go:115-136, server.go:344-380: who asks for a token while    *)
(* Clerk is throttling, failing or out of reach is told to come back, which  *)
(* nobody is whose credentials Clerk does not accept; whichever of the two   *)
(* calls of a sign-in it was that failed.                                    *)
OutagesAreTemporary ==
    clerk # "none" /\ pc = "done" =>
        /\ clerk \in {"throttled", "failing", "unreachable"} <=>
               answer.code = "temporarily_unavailable"
        /\ clerk = "refused" => answer = Error(400, "invalid_request")

(* ileap_service.proto:76, 99, 131: a token the service finds expired is     *)
(* reported as TokenExpired.                                                 *)
ServiceExpiryIsReported ==
    reply = "unauthenticated" => answer.code = "TokenExpired"

(* server_interfaces.go:14-15: a handler reports a token as expired when it  *)
(* is, and other failures differently.                                       *)
OnlyExpiredIsSaidSo ==
    answer.code = "TokenExpired" => bearer.exp \in Nat /\ now >= bearer.exp
=============================================================================
