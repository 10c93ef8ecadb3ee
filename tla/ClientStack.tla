---------------------------- MODULE ClientStack ----------------------------
(***************************************************************************)
(* The transport stack that NewClient builds (client.go): the retrying     *)
(* transport above oauth2.Transport above the network, and a server whose  *)
(* tokens end.  The token comes from oauth2.ReuseTokenSource (WithOAuth2), *)
(* which keeps it until it takes it for expired and then fetches another   *)
(* one under its mutex, or it is always the same (WithReuseTokenAuth).     *)
(*                                                                         *)
(* What is left of a lifetime is counted in seconds.  The client does not  *)
(* look into tokens: it adds the expires_in of the token endpoint to its   *)
(* own clock when the answer arrives, and stops using the token Margin     *)
(* seconds before.  How much later than the server's sum that is, is lag.  *)
(*                                                                         *)
(* Other callers of the same client are seen through what they do to the   *)
(* token source.  An interceptor is the caller's code, and the debugging   *)
(* transport adds errors, which any reply may be.                          *)
(***************************************************************************)
EXTENDS RetryTransport, Integers

CONSTANTS
    MaxLife,        \* bound: the longest lifetime of a token
    Margin,         \* expiryDelta of package oauth2, 10 s
    Never,          \* no end of the lifetime: that there is none, or none is known
    NoToken, NoOne

(* left is what the server sees left of the token, promised its expires_in,  *)
(* lag the seconds that answers and requests spent on their way; more than   *)
(* Margin of them make no difference.                                        *)
Left == -1..MaxLife
Token == [left : Left \cup {Never}, promised : 1..MaxLife \cup {Never}, lag : 0..Margin]

ASSUME StackAssumption ==
    /\ MaxLife \in Nat /\ Margin \in Nat
    /\ Never \notin Int
    /\ NoToken \notin Token
    /\ NoOne \notin {"call", "other"}

VARIABLES
    source,     \* "oauth2" or "static"
    held,       \* the token that the source keeps, NoToken once it takes it for expired
    fresh,      \* what is left until then
    fetcher,    \* who holds the source's mutex and fetches: "call", "other" or NoOne
    coming,     \* the token on its way from the token endpoint
    stage,      \* where the attempt is below the retrying transport
    sent        \* the token on the wire, or the one that the last attempt was refused for

tokenVars == <<source, held, fresh, fetcher, coming>>
stackVars == <<vars, tokenVars, stage, sent>>

Accepted(t) == t.left # -1
Unauthorized == [kind |-> "response", status |-> "ok", retryAfter |-> FALSE]

(* Mutant: the seconds of a full lifetime, whatever is left of the token. *)
ExpiresIn_FullLife(left) == {MaxLife}

(* auth_handler.go:100-113, 143-161: whole seconds are promised of what is   *)
(* left, at most one less than there are of them; nothing is promised if     *)
(* that is none, or if the code cannot read the claim.  The demo handler     *)
(* promises up to one more, since it truncates the exp that it signs.        *)
ExpiresIn(left) ==
    IF left = Never THEN {Never}
    ELSE {Never} \cup ({left - 1, left, left + 1} \cap 1..MaxLife)

Issued ==
    UNION {[left : {left}, promised : ExpiresIn(left), lag : {0}] : left \in 0..MaxLife \cup {Never}}

(* Mutant: a token is used until the very end. *)
Freshness_NoMargin(t) == t.promised

(* The Expiry that package oauth2 gives a token, less its margin. *)
Freshness(t) == IF t.promised = Never THEN Never ELSE t.promised - Margin

Expired(f) == f # Never /\ f < 0

(* Mutant: the source does not look at the time again. *)
Keep_Forever(t, f) == held' = t /\ fresh' = IF t = NoToken \/ Expired(f) THEN Never ELSE f

(* What the source keeps of a token: nothing of an expired one. *)
Keep(t, f) ==
    /\ held' = IF Expired(f) THEN NoToken ELSE t
    /\ fresh' = IF Expired(f) \/ t = NoToken THEN Never ELSE f

-----------------------------------------------------------------------------
StackInit ==
    /\ Init
    /\ \/ source = "oauth2" /\ held = NoToken
       \/ source = "static" /\ held \in [left : Left \cup {Never}, promised : {Never}, lag : {0}]
    /\ fresh = Never
    /\ fetcher = NoOne
    /\ coming = NoToken
    /\ stage = "above"
    /\ sent = NoToken

(* Time passes for the tokens. *)
Down(n) == IF n = Never \/ n = -1 THEN n ELSE n - 1
Aged(t) == IF t = NoToken THEN t ELSE [t EXCEPT !.left = Down(@)]
Delayed(t) == IF t = NoToken \/ t.lag = Margin THEN Aged(t) ELSE [Aged(t) EXCEPT !.lag = @ + 1]

Tick ==
    /\ Keep(Aged(held), IF fresh = Never THEN Never ELSE fresh - 1)
    /\ coming' = Delayed(coming)
    /\ sent' = IF stage = "wire" THEN Delayed(sent) ELSE sent
    /\ UNCHANGED <<vars, source, fetcher, stage>>

(* Mutant: an attempt is counted only when it has a token. *)
SendThrough_Uncounted ==
    /\ pc = "send"
    /\ pc' = "flight"
    /\ reply' = Pending
    /\ rewound' = ~hasBody
    /\ stage' = "source"
    /\ sent' = NoToken
    /\ UNCHANGED <<idempotent, hasBody, attempts, open, result, ctx, executions, invited, tokenVars>>

(* The retrying transport hands its request to oauth2.Transport. *)
SendThrough ==
    /\ Send
    /\ stage' = "source"
    /\ sent' = NoToken
    /\ UNCHANGED tokenVars

(* Token() returns the token that the source keeps. *)
TakeToken ==
    /\ stage = "source"
    /\ fetcher = NoOne
    /\ held # NoToken
    /\ stage' = "wire"
    /\ sent' = held
    /\ UNCHANGED <<vars, tokenVars>>

(* Token() requests another one.  client_config.go:50: with the context of   *)
(* the client, not with that of the call.                                    *)
StartFetch ==
    /\ stage = "source"
    /\ fetcher = NoOne
    /\ held = NoToken
    /\ stage' = "fetch"
    /\ fetcher' = "call"
    /\ UNCHANGED <<vars, source, held, fresh, coming, sent>>

(* Another caller does. *)
OtherFetches ==
    /\ source = "oauth2"
    /\ fetcher = NoOne
    /\ held = NoToken
    /\ fetcher' = "other"
    /\ UNCHANGED <<vars, source, held, fresh, coming, stage, sent>>

(* The token endpoint computes expires_in; its answer is on its way. *)
Issue ==
    /\ fetcher # NoOne
    /\ coming = NoToken
    /\ coming' \in Issued
    /\ UNCHANGED <<vars, source, held, fresh, fetcher, stage, sent>>

(* The source keeps it.  Its own caller uses it without another look.        *)
ReceiveToken ==
    /\ coming # NoToken
    /\ Keep(coming, Freshness(coming))
    /\ fetcher' = NoOne
    /\ coming' = NoToken
    /\ IF fetcher = "call"
       THEN stage' = "wire" /\ sent' = coming
       ELSE UNCHANGED <<stage, sent>>
    /\ UNCHANGED <<vars, source>>

(* The attempt of the retrying transport ends with r. *)
ReturnUp(r) ==
    /\ Return(r)
    /\ stage' = "above"

(* The token endpoint refuses, or cannot be reached: whatever its status, it *)
(* is an error to the retrying transport, and nothing has been carried out.  *)
FetchFails ==
    /\ fetcher # NoOne
    /\ fetcher' = NoOne
    /\ coming' = NoToken
    /\ IF fetcher = "call"
       THEN /\ UNCHANGED <<executions, sent>>
            /\ \E r \in {DNSError, TimeoutError, OtherError} : ReturnUp(r)
       ELSE UNCHANGED <<vars, stage, sent>>
    /\ UNCHANGED <<source, held, fresh>>

(* The server refuses an expired token (Gateway). *)
Refuse ==
    /\ stage = "wire"
    /\ ~Accepted(sent)
    /\ UNCHANGED <<executions, tokenVars, sent>>
    /\ ReturnUp(Unauthorized)

(* Any other end of the attempt. *)
Answer ==
    /\ stage = "wire"
    /\ \E r \in Reply : (r \in Response => Accepted(sent)) /\ ReturnUp(r)
    /\ sent' = NoToken
    /\ UNCHANGED tokenVars

AbortOnWire ==
    /\ stage = "wire"
    /\ AttemptAborted
    /\ stage' = "above"
    /\ sent' = NoToken
    /\ UNCHANGED tokenVars

(* What the retrying transport and its caller do above. *)
Above(A) == A /\ UNCHANGED <<tokenVars, stage, sent>>

UseSource == TakeToken \/ StartFetch
StackCode ==
    \/ Above(EnterLoop \/ GiveUp \/ PrepareRetry \/ DrainAborted \/ SleepInterrupted)
    \/ SendThrough \/ UseSource \/ AbortOnWire

FetchEnds == ReceiveToken \/ FetchFails
AttemptEndsBelow == Refuse \/ Answer

StackNext ==
    \/ StackCode \/ AttemptEndsBelow
    \/ OtherFetches \/ Issue \/ FetchEnds
    \/ Above(BufferBody \/ DrainEnds \/ TimerFires \/ ContextEnds \/ NextCall)
    \/ Tick

StackSpec == StackInit /\ [][StackNext]_stackVars

(* The goroutine runs, and sync.Mutex does not starve one that waits for the *)
(* source.  Nobody need answer.                                              *)
StackFairSpec == StackSpec /\ WF_stackVars(StackCode) /\ SF_stackVars(UseSource)

-----------------------------------------------------------------------------
(* Every variable has its type. *)
StackTypeOK ==
    /\ TypeOK
    /\ source \in {"oauth2", "static"}
    /\ held \in Token \cup {NoToken}
    /\ fresh \in Nat \cup {Never}
    /\ fetcher \in {"call", "other", NoOne}
    /\ coming \in Token \cup {NoToken}
    /\ stage \in {"above", "source", "fetch", "wire"}
    /\ sent \in Token \cup {NoToken}

(* What the retrying transport sees of the layers below is a transport.      *)
StackRetries == Spec

(* auth_handler.go:159-167 and client_config.go:36-52: a client that fetches *)
(* its tokens is told that one has expired only if the server did not say    *)
(* how long it lasts, or if answer and request together were under way for   *)
(* the margin, or for the promise if that is shorter.  However many calls    *)
(* share the source, and whoever of them fetched the token.                  *)
Refused == sent # NoToken /\ stage # "wire"

RefusedOnlyIfLate ==
    Refused /\ sent.promised # Never =>
        sent.lag >= (IF sent.promised < Margin THEN sent.promised ELSE Margin)

(* retry.go:28, 57-63, client_config.go:50: a call whose context has ended   *)
(* returns, wherever it is, but in two places: reading the caller's body,    *)
(* which has to end by itself, and waiting for a token, its own or another   *)
(* caller's, whose fetch has to.                                             *)
ContextEndsCallBut ==
    WF_stackVars(Above(BufferBody)) /\ WF_stackVars(FetchEnds) => ContextEndsCall

(* retry.go:37-64: a loop whose every part ends does: every call returns if  *)
(* the reading of its body, the attempts, the fetches, the draining of the   *)
(* responses and the delays all end.  None of them has a time limit.         *)
CallsReturn ==
    /\ WF_stackVars(Above(BufferBody))
    /\ WF_stackVars(FetchEnds)
    /\ WF_stackVars(AttemptEndsBelow)
    /\ WF_stackVars(Above(DrainEnds))
    /\ WF_stackVars(Above(TimerFires))
    => []<>(pc = "done")

(* client_config.go:36-62, retry.go:70-88: a 401 is not repeated and does    *)
(* not make the client drop its token, so that a token which came too late   *)
(* is refused again and again.  That passes: when answers and requests are   *)
(* no longer a second under way, a client that was told how long its tokens  *)
(* last is some time later not refused any more.                             *)
Prompt == <>[][Tick => coming = NoToken /\ stage # "wire"]_stackVars

RefusalsPass ==
    WF_stackVars(Tick) /\ Prompt => <>[][Refuse => sent.promised = Never]_stackVars
=============================================================================
