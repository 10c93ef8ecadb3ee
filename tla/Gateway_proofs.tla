--------------------------- MODULE Gateway_proofs ---------------------------
(***************************************************************************)
(* Proofs about Gateway, for a clock that runs for any length of time.     *)
(***************************************************************************)
EXTENDS Gateway, TLAPS

(* Until ValidateToken accepts the token nothing is let through, and once it *)
(* has, the token stays the caller's.                                        *)
LetThrough ==
    /\ pc \in {"wire", "precheck", "validate", "findKey", "issue", "touch"} => forwarded = None
    /\ pc = "serve" => forwarded # None
    /\ pc # "done" => event = None
    /\ pc \notin {"touch", "done"} => clerk = "none"

(* Which tokens reach which step, by the routes and the handlers. *)
OnTheWay ==
    /\ pc \in {"precheck", "validate", "findKey"} => HasBearer
    /\ pc = "precheck" => route = "ileap"
    /\ pc \in {"issue", "touch"} => route = "token"
    /\ pc \in {"validate", "findKey"} => route # "token"
    /\ pc = "validate" /\ route = "ileap" =>
          ~(bearer.kind = "jwt" /\ After(arrived, bearer.exp))

(* Between its two halves the Clerk handler has seen a token that had not    *)
(* expired at the time it goes by, which is no earlier than the arrival.     *)
ExpChecked ==
    pc = "findKey" =>
        /\ handler = "clerk"
        /\ bearer.kind = "jwt" /\ bearer.exp # BadClaim
        /\ ~After(sampled, bearer.exp)
        /\ arrived <= sampled

GatewayInv ==
    /\ TypeOK
    /\ LetThrough
    /\ OnTheWay
    /\ ExpChecked
    /\ ServiceSeesValidTokens
    /\ ExpiredIsSaidSo
    /\ PactRefusals
    /\ EventsAreJudgedByContent
    /\ OutagesAreTemporary

(* Whatever is answered on the way has the code of its status. *)
LEMMA AnswersAreAnswers ==
    /\ NoAnswer \in Answer /\ Success \in Answer
    /\ Error(400, "BadRequest") \in Answer /\ Error(401, "TokenExpired") \in Answer
    /\ Error(403, "AccessDenied") \in Answer
    /\ Error(400, "invalid_request") \in Answer
    /\ Error(400, "unsupported_grant_type") \in Answer
    /\ \A code : HandlerAnswer(code) \in Answer /\ IssueAnswer(code) \in Answer
  BY DEF Answer, HandlerAnswer, IssueAnswer

LEMMA RefusalIsAnswer ==
    ASSUME TypeOK, route # "token",
           NEW verdict \in {"unimplemented", "unauthenticated", "unknown"}
    PROVE  Refusal(verdict) \in Answer
  BY DEF TypeOK, Refusal, Answer

LEMMA GatewayInvInit == Init => GatewayInv
  <1> SUFFICES ASSUME Init
               PROVE  GatewayInv
    OBVIOUS
  <1>1. TypeOK
    <2>1. bearer \in Token \cup NotToken
      BY DEF Init, NotToken
    <2> QED BY <2>1, GatewayAssumption DEF Init, TypeOK, Time, Answer
  <1>2. /\ LetThrough /\ OnTheWay /\ ExpChecked
        /\ ServiceSeesValidTokens /\ ExpiredIsSaidSo /\ PactRefusals
        /\ EventsAreJudgedByContent /\ OutagesAreTemporary
    BY DEF Init, LetThrough, OnTheWay, ExpChecked, ServiceSeesValidTokens,
       ExpiredIsSaidSo, PactRefusals, EventsAreJudgedByContent, OutagesAreTemporary
  <1> QED BY <1>1, <1>2 DEF GatewayInv

(* ValidateToken returns: what it must have made sure of.                    *)
Justified(verdict) ==
    /\ verdict = "unimplemented" => handler = "none"
    /\ verdict = "valid" =>
          /\ bearer.kind = "jwt" /\ bearer.genuine
          /\ ~After(arrived, bearer.exp)
          /\ handler = "clerk" => /\ ~Before(now, bearer.start)
                                  /\ BadClaim \notin {bearer.exp, bearer.start}

LEMMA JudgeKeepsInv ==
    ASSUME GatewayInv,
           NEW verdict \in {"valid", "unimplemented", "unauthenticated", "unknown"},
           pc \in {"validate", "findKey"},
           bearer.kind = "jwt" => ~(route = "ileap" /\ After(arrived, bearer.exp)),
           Justified(verdict),
           Judge(verdict),
           UNCHANGED <<input, arrived, now, event, clerk, reply>>,
           sampled' \in 1..now
    PROVE  GatewayInv'
  <1> USE GatewayAssumption
      DEF GatewayInv, TypeOK, LetThrough, OnTheWay, ExpChecked, ServiceSeesValidTokens,
          ExpiredIsSaidSo, PactRefusals, EventsAreJudgedByContent, OutagesAreTemporary,
          Goto, Respond, Judge, input, None
  <1>1. CASE verdict = "valid"
    <2>1. bearer \in Token
      BY <1>1 DEF Justified, NotToken
    <2> QED BY <1>1, <2>1 DEF Justified
  <1>2. CASE verdict # "valid"
    <2>1. Refusal(verdict) \in Answer
      BY <1>2, RefusalIsAnswer
    <2>2. route # "ileap" /\ handler # "none" =>
             Refusal(verdict) = Error(IF route = "pact" THEN 401 ELSE 400, "BadRequest")
      BY <1>2 DEF Refusal, Justified
    <2>3. HasBearer
      OBVIOUS
    <2>4. HasBearer'
      BY <2>3 DEF HasBearer
    <2> QED BY <1>2, <2>1, <2>2, <2>3, <2>4
  <1> QED BY <1>1, <1>2

(* Whatever a decoder accepts is base64, and whatever an encoder writes some *)
(* decoder accepts: of either alphabet, with or without the padding.         *)
LEMMA DecodersTogether ==
    ASSUME NEW t \in Text
    PROVE  (\E d \in Decoders : Decodes(d, t)) <=> IsBase64(t)
  <1> USE DEF Text, AnyText
  <1>1. ASSUME NEW d \in Decoders, Decodes(d, t)
        PROVE  IsBase64(t)
    BY <1>1 DEF Decoders, Decodes, IsBase64
  <1>2. ASSUME IsBase64(t)
        PROVE  \E d \in Decoders : Decodes(d, t)
    <2> DEFINE a == IF t.chars = "url" THEN "url" ELSE "std"
    <2>1. t.chars \in {a, "both"} /\ a \in {"std", "url"} /\ t.length \in {0, 2, 3}
      BY <1>2 DEF IsBase64
    <2> HIDE DEF a
    <2>2. CASE t.padding = "right"
      <3> DEFINE d == [alphabet |-> a, padded |-> TRUE]
      <3>1. d \in Decoders
        BY <2>1 DEF Decoders
      <3>2. Decodes(d, t)
        BY <1>2, <2>1, <2>2 DEF Decodes, IsBase64
      <3> QED BY <3>1, <3>2
    <2>3. CASE t.padding = "none"
      <3> DEFINE d == [alphabet |-> a, padded |-> FALSE]
      <3>1. d \in Decoders
        BY <2>1 DEF Decoders
      <3>2. Decodes(d, t)
        BY <1>2, <2>1, <2>3 DEF Decodes, IsBase64
      <3> QED BY <3>1, <3>2
    <2> QED BY <1>2, <2>2, <2>3 DEF IsBase64
  <1> QED BY <1>1, <1>2

(* What the server makes of data, by the way it is written.                  *)
LEMMA NormalizedContent ==
    ASSUME NEW data \in Data, data.content # "null",
           data.written = "text" /\ data.content = "noise" => ~IsBase64(data.text)
    PROVE  \/ normalizeCloudEventData(data) = data.content
           \/ normalizeCloudEventData(data) = "noise" /\ data.content = "scalar"
  <1>1. CASE data \in [written : {"json"}, content : Content \ {"noise"}]
    BY <1>1 DEF normalizeCloudEventData
  <1>2. ASSUME NEW t \in Text, data = [written |-> "text", content |-> t.says, text |-> t]
        PROVE  \/ normalizeCloudEventData(data) = data.content
               \/ normalizeCloudEventData(data) = "noise" /\ data.content = "scalar"
    <2>1. data.written = "text" /\ data.content = t.says /\ data.text = t
      BY <1>2
    <2>2. IsBase64(t) => t.says \in {"nothing", "null", "scalar", "noise"}
      BY DEF IsBase64, Text, AnyText, Content
    <2>3. t.says = "scalar" => t.bytes = "noise"
      BY DEF Text
    <2> QED BY <2>1, <2>2, <2>3, DecodersTogether DEF normalizeCloudEventData
  <1>3. ASSUME NEW t \in Text, NEW alphabet \in {"base64", "base64url"}, IsBase64(t),
               data = [written |-> alphabet, content |-> t.bytes, text |-> t]
        PROVE  normalizeCloudEventData(data) = data.content
    <2>1. data.written # "json" /\ data.content = t.bytes /\ data.text = t
      BY <1>3
    <2>2. t.says = "nothing" => t.bytes = "nothing"
      BY DEF Text
    <2> QED BY <1>3, <2>1, <2>2, DecodersTogether DEF normalizeCloudEventData
  <1> QED BY <1>1, <1>2, <1>3 DEF Data, Encoded

(* The acceptance of events, as the property puts it.                        *)
LEMMA AcceptedByContent ==
    ASSUME NEW e \in Event, e.data.content # "null",
           e.data.written = "text" /\ e.data.content = "noise" => ~IsBase64(e.data.text)
    PROVE  AcceptsEvent(e) <=>
             /\ e.wellFormed
             /\ e.data.content # "nothing"
             /\ \/ e.type = "known"
                \/ e.type = "published" /\ e.data.content = "ids"
  <1>1. /\ e.type \in {"published", "known", "unknown"} /\ e.wellFormed \in BOOLEAN
        /\ e.data \in Data
    BY DEF Event
  <1> QED BY <1>1, NormalizedContent DEF AcceptsEvent, ValidEventData, isKnownEventType

LEMMA EventIsNotNone == \A e \in Event : e # None
  BY DEF Event, None

(* Clerk's answers, mapped twice.                                            *)
LEMMA ClerkAnswersAreTemporary ==
    ASSUME NEW r \in ClerkReply, NEW code, code = IF r = "ok" THEN "ok" ELSE IssueCode(r)
    PROVE  /\ r \in {"throttled", "failing", "unreachable"} <=>
                 IssueAnswer(code).code = "temporarily_unavailable"
           /\ r = "refused" => IssueAnswer(code) = Error(400, "invalid_request")
           /\ code \in {"ok", "resource_exhausted", "unavailable", "permission_denied"}
  BY DEF ClerkReply, IssueCode, IssueAnswer, Error, Success

LEMMA GatewayInvServeEvent ==
    ASSUME GatewayInv, ServeEvent
    PROVE  GatewayInv'
  <1> USE GatewayAssumption, AnswersAreAnswers
      DEF GatewayInv, ServeEvent, Respond, input
  <1>1. TypeOK'
    BY DEF TypeOK
  <1>2. (LetThrough /\ OnTheWay /\ ExpChecked /\ ServiceSeesValidTokens)'
    BY DEF LetThrough, OnTheWay, ExpChecked, ServiceSeesValidTokens
  <1>3. (ExpiredIsSaidSo /\ PactRefusals /\ OutagesAreTemporary)'
    BY DEF ExpiredIsSaidSo, PactRefusals, OutagesAreTemporary, LetThrough
  <1>4. EventsAreJudgedByContent'
    <2> DEFINE data == event'.data
    <2> SUFFICES ASSUME data.content # "null",
                        data.written = "text" /\ data.content = "noise" => ~IsBase64(data.text)
                 PROVE  EventsAreJudgedByContent'
      BY DEF EventsAreJudgedByContent
    <2>1. answer' = Success <=> AcceptsEvent(event')
      BY DEF Success, Error
    <2> QED BY <2>1, AcceptedByContent DEF EventsAreJudgedByContent
  <1> QED BY <1>1, <1>2, <1>3, <1>4

LEMMA GatewayInvIssue ==
    ASSUME GatewayInv, pc \in {"issue", "touch"},
           NEW code \in {"ok", "unimplemented", "permission_denied", "resource_exhausted",
                         "unavailable", "unknown"},
           Issue(code),
           clerk' \in ClerkReply \cup {"none"},
           clerk' # "none" =>
              /\ clerk' \in {"throttled", "failing", "unreachable"} <=>
                    IssueAnswer(code).code = "temporarily_unavailable"
              /\ clerk' = "refused" => IssueAnswer(code) = Error(400, "invalid_request"),
           UNCHANGED <<input, arrived, now, sampled, forwarded, event>>
    PROVE  GatewayInv'
  BY AnswersAreAnswers
  DEF GatewayInv, Issue, Respond, input, TypeOK, LetThrough, OnTheWay, ExpChecked,
      ServiceSeesValidTokens, ExpiredIsSaidSo, PactRefusals, EventsAreJudgedByContent,
      OutagesAreTemporary

LEMMA GatewayInvClerkAnswers ==
    ASSUME GatewayInv, pc \in {"issue", "touch"}, ClerkAnswers,
           UNCHANGED <<input, arrived, now, sampled, forwarded, event>>
    PROVE  GatewayInv'
  <1> DEFINE code == IF clerk' = "ok" THEN "ok" ELSE IssueCode(clerk')
  <1>1. clerk' \in ClerkReply /\ Issue(code)
    BY DEF ClerkAnswers
  <1> HIDE DEF code
  <1>2. /\ clerk' \in {"throttled", "failing", "unreachable"} <=>
               IssueAnswer(code).code = "temporarily_unavailable"
        /\ clerk' = "refused" => IssueAnswer(code) = Error(400, "invalid_request")
        /\ code \in {"ok", "resource_exhausted", "unavailable", "permission_denied"}
    BY <1>1, ClerkAnswersAreTemporary DEF code
  <1> QED BY <1>1, <1>2, GatewayInvIssue

LEMMA GatewayInvNext == GatewayInv /\ [Next]_vars => GatewayInv'
  <1> SUFFICES ASSUME GatewayInv, [Next]_vars
               PROVE  GatewayInv'
    OBVIOUS
  <1> USE GatewayAssumption, AnswersAreAnswers
      DEF GatewayInv, TypeOK, LetThrough, OnTheWay, ExpChecked, ServiceSeesValidTokens,
          ExpiredIsSaidSo, PactRefusals, EventsAreJudgedByContent, OutagesAreTemporary,
          HasBearer, After, Before, Time, Claim,
          Goto, Respond, Judge, input, inner, None, Token
  <1>1. CASE Tick
    <2> USE <1>1 DEF Tick
    <2>1. (TypeOK /\ LetThrough /\ OnTheWay /\ ExpChecked /\ ServiceSeesValidTokens)'
      OBVIOUS
    <2>2. (ExpiredIsSaidSo /\ OutagesAreTemporary)'
      OBVIOUS
    <2>3. PactRefusals'
      BY DEF Expired
    <2>4. EventsAreJudgedByContent'
      OBVIOUS
    <2> QED BY <2>1, <2>2, <2>3, <2>4
  <1>2. CASE Arrive
    BY <1>2 DEF Arrive
  <1>3. CASE Precheck
    BY <1>3 DEF Precheck, isExpiredJWT
  <1>4. CASE NoneValidate
    BY <1>4, JudgeKeepsInv DEF NoneValidate, Validates, Justified
  <1>5. CASE ClerkCheckExp
    <2>1. CASE bearer.kind = "jwt" /\ bearer.exp # BadClaim /\ ~After(now, bearer.exp)
      BY <1>5, <2>1 DEF ClerkCheckExp, Validates
    <2>2. CASE ~(bearer.kind = "jwt" /\ bearer.exp # BadClaim /\ ~After(now, bearer.exp))
      BY <1>5, <2>2, JudgeKeepsInv DEF ClerkCheckExp, Validates, Justified
    <2> QED BY <2>1, <2>2
  <1>6. CASE ClerkFindKey
    <2>1. /\ ClerkVerdict \in {"valid", "unauthenticated", "unknown"}
          /\ Justified("unknown") /\ Justified(ClerkVerdict)
      BY <1>6 DEF ClerkFindKey, ClerkVerdict, Justified
    <2> QED BY <1>6, <2>1, JudgeKeepsInv DEF ClerkFindKey
  <1>7. CASE DemoValidate
    BY <1>7, JudgeKeepsInv DEF DemoValidate, Validates, Justified
  <1>8. CASE Serve
    BY <1>8 DEF Serve, ServiceCodes
  <1>9. CASE RefuseParameters
    BY <1>9 DEF RefuseParameters
  <1>10. CASE ServeEvent
    BY <1>10, GatewayInvServeEvent
  <1>11. CASE AskForToken
    BY <1>11 DEF AskForToken
  <1>12. CASE NoneIssue
    BY <1>12, GatewayInvIssue DEF NoneIssue, Issues
  <1>13. CASE DemoIssue
    BY <1>13, GatewayInvIssue DEF DemoIssue, Issues
  <1>14. CASE ClerkSignIn
    <2>1. CASE Issue("ok") /\ UNCHANGED clerk
      BY <1>14, <2>1, GatewayInvIssue DEF ClerkSignIn, Issues
    <2>2. CASE ClerkAnswers
      BY <1>14, <2>2, GatewayInvClerkAnswers DEF ClerkSignIn, Issues
    <2>3. CASE clerk' = "ok" /\ Goto("touch") /\ UNCHANGED reply
      BY <1>14, <2>3 DEF ClerkSignIn, Issues, ClerkReply
    <2> QED BY <1>14, <2>1, <2>2, <2>3 DEF ClerkSignIn
  <1>15. CASE ClerkTouchSession
    BY <1>15, GatewayInvClerkAnswers DEF ClerkTouchSession
  <1>16. CASE UNCHANGED vars
    <2> USE <1>16 DEF vars
    <2>1. (TypeOK /\ LetThrough /\ OnTheWay /\ ExpChecked /\ ServiceSeesValidTokens)'
      OBVIOUS
    <2>2. (ExpiredIsSaidSo /\ OutagesAreTemporary /\ PactRefusals)'
      BY DEF Expired
    <2>3. EventsAreJudgedByContent'
      OBVIOUS
    <2> QED BY <2>1, <2>2, <2>3
  <1> QED
    BY <1>1, <1>2, <1>3, <1>4, <1>5, <1>6, <1>7, <1>8, <1>9, <1>10, <1>11, <1>12, <1>13,
       <1>14, <1>15, <1>16 DEF Next, Progress

THEOREM GatewayInvariant == Spec => []GatewayInv
  BY GatewayInvInit, GatewayInvNext, PTL DEF Spec

-----------------------------------------------------------------------------
(* Every variable keeps its type, and every error has the code of its status. *)
THEOREM GatewayTypeCorrect == Spec => []TypeOK
  BY GatewayInvariant, PTL DEF GatewayInv

(* server.go:124-249: no service is called for a token that is not genuine   *)
(* or had expired when the request arrived, however long the request takes.  *)
THEOREM ServiceSeesValidTokensHolds == Spec => []ServiceSeesValidTokens
  BY GatewayInvariant, PTL DEF GatewayInv

(* server.go:202-253: an expired token is answered with 401 TokenExpired on  *)
(* the iLEAP route.                                                          *)
THEOREM ExpiredIsSaidSoHolds == Spec => []ExpiredIsSaidSo
  BY GatewayInvariant, PTL DEF GatewayInv

(* server.go:119-200: the refusals of the PACT routes, but for those of      *)
(* expired tokens on the footprint routes.                                   *)
THEOREM PactRefusalsHold == Spec => []PactRefusals
  BY GatewayInvariant, PTL DEF GatewayInv

(* server.go:523-619: an event is judged by what its data says, however that *)
(* is written, by trying the four decoders one after the other.              *)
THEOREM EventsAreJudgedByContentHolds == Spec => []EventsAreJudgedByContent
  BY GatewayInvariant, PTL DEF GatewayInv

(* auth_handler.go:115-136, server.go:344-380: an outage of Clerk is         *)
(* reported as temporary, and only that.                                     *)
THEOREM OutagesAreTemporaryHolds == Spec => []OutagesAreTemporary
  BY GatewayInvariant, PTL DEF GatewayInv
=============================================================================
