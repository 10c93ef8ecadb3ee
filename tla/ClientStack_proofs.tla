------------------------- MODULE ClientStack_proofs -------------------------
(***************************************************************************)
(* Proofs about ClientStack: for every lifetime of tokens, every margin    *)
(* and any number of retries, the stack implements the retrying transport, *)
(* and a refusal of a token whose end is known is a late one.              *)
(***************************************************************************)
EXTENDS ClientStack, TLAPS

-----------------------------------------------------------------------------
(* The retrying transport on its own.                                        *)

(* Before an attempt starts there is one left. *)
AttemptLeft ==
    /\ pc \in {"start", "send", "drain", "sleep"} => attempts <= MaxRetries
    /\ pc \in {"flight", "decide", "drain"} => attempts >= 1
    /\ pc = "start" => attempts = 0

(* At most one response is open: the last one, until it has been drained. *)
OpenBody ==
    /\ pc \in {"start", "send", "flight", "sleep"} => open = {}
    /\ pc \in {"decide", "drain"} =>
          /\ reply \in Reply
          /\ open = IF reply.kind = "response" THEN {attempts} ELSE {}

(* A request that may not be repeated has not been carried out whenever the  *)
(* loop is about to send it.                                                 *)
ExecutionsCounted ==
    ~idempotent /\ ~invited =>
          /\ pc \in {"start", "send", "flight", "drain", "sleep"} => executions = 0
          /\ pc = "decide" /\ shouldRetry(reply) => executions = 0

Rewound == pc \in {"start", "send", "drain", "sleep"} => rewound

RetryInv ==
    /\ TypeOK
    /\ AttemptLeft
    /\ OpenBody
    /\ ExecutionsCounted
    /\ Rewound
    /\ AttemptsSendWholeBody
    /\ BodiesClosed
    /\ NotRepeatedUninvited
    /\ RetriesAreUsedUp

(* The kinds of replies and results, apart from each other. *)
LEMMA ErrorKinds ==
    /\ DNSError.kind = "dns" /\ TimeoutError.kind = "timeout" /\ OtherError.kind = "other"
    /\ Pending.kind = "pending" /\ ContextError.kind = "context" /\ BufferError.kind = "buffer"
  BY DEF DNSError, TimeoutError, OtherError, Pending, ContextError, BufferError

LEMMA ResponseKind == \A r \in Response : r.kind = "response"
  BY DEF Response

LEMMA ReplyKinds ==
    \A r \in Reply : /\ r.kind \in {"response", "dns", "timeout", "other"}
                     /\ r # Pending /\ r # ContextError /\ r # BufferError
                     /\ r.kind = "response" => r \in Response
  BY ErrorKinds, ResponseKind DEF Reply

LEMMA RetryInvInit == Init => RetryInv
  <1> SUFFICES ASSUME Init
               PROVE  RetryInv
    OBVIOUS
  <1>1. TypeOK
    <2>1. /\ attempts \in 0..(MaxRetries + 1) /\ executions \in 0..2
          /\ open \subseteq 1..(MaxRetries + 1)
      BY RetryAssumption DEF Init
    <2>2. /\ idempotent \in BOOLEAN /\ hasBody \in BOOLEAN
          /\ rewound \in BOOLEAN /\ invited \in BOOLEAN
      BY DEF Init
    <2>3. /\ pc \in Label /\ reply \in Reply \cup {Pending}
          /\ ctx \in {"live", "cancelled", "expired"}
          /\ result \in Reply \cup {Pending, ContextError, BufferError}
      BY Zenon DEF Init, Label
    <2> QED BY <2>1, <2>2, <2>3 DEF TypeOK
  <1>2. /\ AttemptLeft /\ OpenBody /\ Rewound
        /\ BodiesClosed /\ NotRepeatedUninvited /\ RetriesAreUsedUp
        /\ AttemptsSendWholeBody
    BY RetryAssumption DEF Init, AttemptLeft, OpenBody, Rewound, BodiesClosed,
       NotRepeatedUninvited, RetriesAreUsedUp, AttemptsSendWholeBody
  <1>3. ExecutionsCounted
    BY DEF Init, ExecutionsCounted
  <1> QED BY <1>1, <1>2, <1>3 DEF RetryInv

LEMMA RetryInvReturn ==
    ASSUME RetryInv, NEW r \in Reply, Return(r)
    PROVE  RetryInv'
  <1> USE RetryAssumption, ReplyKinds, ErrorKinds DEF RetryInv, TypeOK, Label, Return
  <1>1. TypeOK'
    BY DEF AttemptLeft, OpenBody, ExecutionsCounted
  <1>2. AttemptLeft' /\ Rewound' /\ BodiesClosed' /\ RetriesAreUsedUp'
        /\ AttemptsSendWholeBody'
    BY DEF AttemptLeft, Rewound, AttemptsSendWholeBody, BodiesClosed, RetriesAreUsedUp
  <1>3. OpenBody'
    BY DEF OpenBody
  <1>4. ExecutionsCounted' /\ NotRepeatedUninvited'
    <2>1. executions' \in 0..2 /\ executions' <= executions + 1
      OBVIOUS
    <2>2. ASSUME ~idempotent', ~invited'
          PROVE  executions' <= 1 /\ (shouldRetry(reply)' => executions' = 0)
      <3>1. ~idempotent /\ ~invited /\ executions = 0
        BY <2>2 DEF ExecutionsCounted
      <3>2. ~(r.kind = "response" /\ (r.retryAfter \/ r.status = "throttled"))
        BY <2>2
      <3>3. shouldRetry(r) => r = DNSError
        BY <3>1, <3>2 DEF shouldRetry
      <3>4. r = DNSError => executions' = executions
        BY DEF NotExecuted
      <3>5. shouldRetry(reply)' <=> shouldRetry(r)
        BY DEF shouldRetry
      <3> QED BY <2>1, <3>1, <3>3, <3>4, <3>5
    <2> QED BY <2>1, <2>2 DEF ExecutionsCounted, NotRepeatedUninvited
  <1> QED BY <1>1, <1>2, <1>3, <1>4

LEMMA RetryInvNext == RetryInv /\ [Next]_vars => RetryInv'
  <1> SUFFICES ASSUME RetryInv, [Next]_vars
               PROVE  RetryInv'
    OBVIOUS
  <1> USE RetryAssumption, ReplyKinds, ErrorKinds
      DEF RetryInv, TypeOK, Label, AttemptLeft, OpenBody, ExecutionsCounted, Rewound,
          AttemptsSendWholeBody, BodiesClosed, NotRepeatedUninvited, RetriesAreUsedUp
  <1>1. CASE BufferBody \/ EnterLoop
    BY <1>1 DEF BufferBody, EnterLoop, shouldRetry
  <1>2. CASE Send
    BY <1>2 DEF Send, shouldRetry
  <1>3. CASE AttemptEnds
    BY <1>3, RetryInvReturn DEF AttemptEnds
  <1>4. CASE AttemptAborted
    <2>1. TimeoutError \in Reply /\ OtherError \in Reply
      BY DEF Reply
    <2> QED BY <1>4, <2>1, RetryInvReturn DEF AttemptAborted
  <1>5. CASE GiveUp
    BY <1>5 DEF GiveUp, RetriesLeft, shouldRetry
  <1>6. CASE PrepareRetry
    BY <1>6 DEF PrepareRetry, RetriesLeft
  <1>7. CASE TimerFires
    BY <1>7 DEF TimerFires
  <1>8. CASE SleepInterrupted
    BY <1>8 DEF SleepInterrupted
  <1>9. CASE ContextEnds
    BY <1>9 DEF ContextEnds, codeVars, shouldRetry
  <1>10. CASE NextCall
    <2> USE <1>10 DEF NextCall
    <2>1. TypeOK'
      <3>1. /\ attempts' \in 0..(MaxRetries + 1) /\ executions' \in 0..2
            /\ open' \subseteq 1..(MaxRetries + 1)
        OBVIOUS
      <3>2. /\ pc' \in Label /\ reply' \in Reply \cup {Pending}
            /\ ctx' \in {"live", "cancelled", "expired"}
            /\ result' \in Reply \cup {Pending, ContextError, BufferError}
        BY Zenon DEF Label, NextCall
      <3> QED BY <3>1, <3>2
    <2>2. (AttemptLeft /\ OpenBody /\ Rewound /\ AttemptsSendWholeBody)'
      OBVIOUS
    <2>3. (ExecutionsCounted /\ BodiesClosed /\ NotRepeatedUninvited /\ RetriesAreUsedUp)'
      OBVIOUS
    <2> QED BY <2>1, <2>2, <2>3
  <1>11. CASE DrainEnds \/ DrainAborted
    BY <1>11 DEF DrainEnds, DrainAborted, Drained
  <1>12. CASE UNCHANGED vars
    BY <1>12 DEF vars, codeVars, shouldRetry
  <1> QED
    BY <1>1, <1>2, <1>3, <1>4, <1>5, <1>6, <1>7, <1>8, <1>9, <1>10, <1>11, <1>12
    DEF Next, CodeStep

THEOREM RetryInvariant == Spec => []RetryInv
  BY RetryInvInit, RetryInvNext, PTL DEF Spec

-----------------------------------------------------------------------------
(* Every variable keeps its type; attempts never exceed MaxRetries + 1.      *)
THEOREM RetryTypeCorrect == Spec => []TypeOK
  BY RetryInvariant, PTL DEF RetryInv

(* retry.go:57-60: no response body leaks, however many retries.             *)
THEOREM BodiesClosedHolds == Spec => []BodiesClosed
  BY RetryInvariant, PTL DEF RetryInv

(* retry.go:77-95: no uninvited repetition of a request that is not          *)
(* idempotent, whatever the replies and whenever the context ends.           *)
THEOREM NotRepeatedUninvitedHolds == Spec => []NotRepeatedUninvited
  BY RetryInvariant, PTL DEF RetryInv

(* retry.go:40-46: a failure worth a retry is returned only when the retries *)
(* are used up.                                                              *)
THEOREM RetriesAreUsedUpHolds == Spec => []RetriesAreUsedUp
  BY RetryInvariant, PTL DEF RetryInv

(* retry.go:48-56: every attempt of every call sends the body from its start.*)
THEOREM AttemptsSendWholeBodyHolds == Spec => []AttemptsSendWholeBody
  BY RetryInvariant, PTL DEF RetryInv

-----------------------------------------------------------------------------
(* The stack implements the retrying transport.                              *)

LEMMA FetchFailsImplements == FetchFails => [Next]_vars
  <1> SUFFICES ASSUME FetchFails
               PROVE  [Next]_vars
    OBVIOUS
  <1>1. CASE fetcher = "call"
    <2>1. PICK r \in {DNSError, TimeoutError, OtherError} : ReturnUp(r)
      BY <1>1 DEF FetchFails
    <2>2. r \in Reply
      BY DEF Reply
    <2> QED BY <2>1, <2>2 DEF ReturnUp, AttemptEnds, Next
  <1>2. CASE fetcher # "call"
    BY <1>2 DEF FetchFails
  <1> QED BY <1>1, <1>2

LEMMA AttemptImplements == Refuse \/ Answer => [Next]_vars
  <1>1. Unauthorized \in Reply
    BY DEF Unauthorized, Reply, Response
  <1>2. Refuse => AttemptEnds
    BY <1>1 DEF Refuse, ReturnUp, AttemptEnds
  <1>3. Answer => AttemptEnds
    BY DEF Answer, ReturnUp, AttemptEnds
  <1> QED BY <1>2, <1>3 DEF Next

LEMMA StepImplements == [StackNext]_stackVars => [Next]_vars
  <1> SUFFICES ASSUME [StackNext]_stackVars
               PROVE  [Next]_vars
    OBVIOUS
  <1>1. CASE Above(EnterLoop \/ GiveUp \/ PrepareRetry \/ DrainAborted \/ SleepInterrupted)
    BY <1>1 DEF Above, Next, CodeStep
  <1>2. CASE SendThrough
    BY <1>2 DEF SendThrough, Next, CodeStep
  <1>3. CASE UseSource
    BY <1>3 DEF UseSource, TakeToken, StartFetch
  <1>4. CASE AbortOnWire
    BY <1>4 DEF AbortOnWire, Next, CodeStep
  <1>5. CASE AttemptEndsBelow
    BY <1>5, AttemptImplements DEF AttemptEndsBelow
  <1>6. CASE OtherFetches \/ Issue \/ ReceiveToken \/ Tick
    BY <1>6 DEF OtherFetches, Issue, ReceiveToken, Tick
  <1>7. CASE FetchFails
    BY <1>7, FetchFailsImplements
  <1>8. CASE Above(BufferBody \/ DrainEnds \/ TimerFires \/ ContextEnds \/ NextCall)
    BY <1>8 DEF Above, Next
  <1>9. CASE UNCHANGED stackVars
    BY <1>9 DEF stackVars
  <1> QED
    BY <1>1, <1>2, <1>3, <1>4, <1>5, <1>6, <1>7, <1>8, <1>9 DEF StackNext, StackCode, FetchEnds

(* client.go:33-41: whatever the layers below do with tokens, and whoever    *)
(* else uses the source, the retrying transport sees a transport below it.   *)
THEOREM StackImplementsRetry == StackSpec => StackRetries
  <1>1. StackInit => Init
    BY DEF StackInit
  <1> QED BY <1>1, StepImplements, PTL DEF StackSpec, Spec, StackRetries

(* retry.go: what is proved of the retrying transport holds of the stack: no *)
(* body leaks, no uninvited repetition, no retry left out, no truncated body.*)
THEOREM StackKeepsRetryInvariants ==
    StackSpec => [](BodiesClosed /\ NotRepeatedUninvited /\ RetriesAreUsedUp /\ AttemptsSendWholeBody)
  <1>1. RetryInv => BodiesClosed /\ NotRepeatedUninvited /\ RetriesAreUsedUp /\ AttemptsSendWholeBody
    BY DEF RetryInv
  <1> QED BY <1>1, StackImplementsRetry, RetryInvariant, PTL DEF StackRetries

-----------------------------------------------------------------------------
(* What is known of a token, by how late it is.                              *)

SourceTypes ==
    /\ source \in {"oauth2", "static"}
    /\ held \in Token \cup {NoToken}
    /\ fresh \in Nat \cup {Never}
    /\ fetcher \in {"call", "other", NoOne}
    /\ coming \in Token \cup {NoToken}
    /\ stage \in {"above", "source", "fetch", "wire"}
    /\ sent \in Token \cup {NoToken}

(* A token whose end is promised has one, ... *)
Honest(t) == t.promised # Never => t.left \in Int

(* ... and bound seconds of it, but for those that it was late.  One of them *)
(* is the last one, in which nothing is left.                                *)
LeftOver(t, bound) == t.lag < Margin => t.left >= bound - 1 - t.lag

(* The promise of the token endpoint. *)
ComingInv ==
    coming # NoToken =>
        /\ Honest(coming)
        /\ coming.promised # Never => LeftOver(coming, coming.promised)

(* The source knows of more than the margin. *)
HeldInv ==
    held # NoToken =>
        /\ Honest(held)
        /\ held.promised # Never =>
              /\ fresh \in Nat
              /\ LeftOver(held, fresh + Margin)

SentInv ==
    stage = "wire" =>
        /\ sent # NoToken
        /\ Honest(sent)
        /\ sent.promised # Never =>
              LeftOver(sent, IF sent.promised < Margin THEN sent.promised ELSE Margin)

FetchInv ==
    /\ fetcher = "call" <=> stage = "fetch"
    /\ stage # "above" => pc = "flight"

LateInv ==
    /\ SourceTypes
    /\ ComingInv /\ HeldInv /\ SentInv /\ FetchInv
    /\ RefusedOnlyIfLate

LEMMA LateInvInit == StackInit => LateInv
  BY StackAssumption DEF StackInit, Init, LateInv, SourceTypes, ComingInv, HeldInv, SentInv, FetchInv,
     RefusedOnlyIfLate, Refused, Honest, LeftOver, Token, Left

(* What time does to a token. *)
LEMMA AgedToken ==
    ASSUME NEW t \in Token
    PROVE  /\ Aged(t) \in Token
           /\ Aged(t).promised = t.promised /\ Aged(t).lag = t.lag
           /\ Aged(t).left = Down(t.left)
           /\ Delayed(t) \in Token
           /\ Delayed(t).promised = t.promised
           /\ Delayed(t).left = Down(t.left)
           /\ Delayed(t).lag = IF t.lag = Margin THEN t.lag ELSE t.lag + 1
  BY StackAssumption DEF Aged, Delayed, Down, Token, Left

LEMMA DownLeft ==
    ASSUME NEW n \in Left
    PROVE  Down(n) \in Left /\ Down(n) >= n - 1
  BY StackAssumption DEF Down, Left

LEMMA NoTokenAged == Aged(NoToken) = NoToken /\ Delayed(NoToken) = NoToken
  BY DEF Aged, Delayed

LEMMA DelayedLeftOver ==
    ASSUME NEW t \in Token, Honest(t), NEW bound \in Nat, t.promised # Never, LeftOver(t, bound)
    PROVE  LeftOver(Delayed(t), bound)
  <1> DEFINE d == Delayed(t)
  <1>1. /\ t.left \in Left /\ t.lag \in 0..Margin /\ d.left = Down(t.left)
        /\ d.lag = IF t.lag = Margin THEN t.lag ELSE t.lag + 1
    BY StackAssumption, AgedToken DEF Token, Honest, Left
  <1>2. Down(t.left) \in Int /\ Down(t.left) >= t.left - 1
    BY <1>1, DownLeft DEF Left
  <1> QED BY <1>1, <1>2, StackAssumption DEF LeftOver, Left

LEMMA DelayedHonest ==
    ASSUME NEW t \in Token, Honest(t)
    PROVE  Honest(Delayed(t))
  <1> DEFINE d == Delayed(t)
  <1>1. d.promised = t.promised /\ d.left = Down(t.left)
    BY AgedToken
  <1>2. t.left \in Int => Down(t.left) \in Int
    BY DEF Down
  <1> QED BY <1>1, <1>2 DEF Honest

LEMMA LateInvTick ==
    ASSUME LateInv, Tick
    PROVE  LateInv'
  <1> USE StackAssumption, AgedToken, DownLeft, NoTokenAged DEF LateInv, Tick
  <1>1. SourceTypes'
    <2>1. Aged(held) \in Token \cup {NoToken}
      BY DEF SourceTypes
    <2>2. held' \in Token \cup {NoToken} /\ fresh' \in Nat \cup {Never}
      BY <2>1 DEF SourceTypes, Keep, Expired
    <2>3. coming' \in Token \cup {NoToken} /\ sent' \in Token \cup {NoToken}
      BY DEF SourceTypes
    <2> QED BY <2>2, <2>3 DEF SourceTypes
  <1>2. ComingInv'
    BY DelayedLeftOver, DelayedHonest DEF SourceTypes, ComingInv, Token
  <1>3. HeldInv'
    BY DEF SourceTypes, HeldInv, Honest, LeftOver, Token, Left, Keep, Expired, Aged
  <1>4. SentInv'
    <2> SUFFICES ASSUME stage = "wire"
                 PROVE  SentInv'
      BY DEF SentInv
    <2>1. sent \in Token /\ Honest(sent) /\ sent' = Delayed(sent)
      BY DEF SourceTypes, SentInv
    <2>2. ASSUME sent.promised # Never
          PROVE  LeftOver(sent', IF sent.promised < Margin THEN sent.promised ELSE Margin)
      <3> DEFINE bound == IF sent.promised < Margin THEN sent.promised ELSE Margin
      <3>1. bound \in Nat
        BY <2>1, <2>2 DEF Token
      <3>2. LeftOver(sent, bound)
        BY <2>2 DEF SentInv
      <3> QED BY <2>1, <2>2, <3>1, <3>2, DelayedLeftOver
    <2> QED BY <2>1, <2>2, DelayedHonest DEF SentInv
  <1>5. FetchInv' /\ RefusedOnlyIfLate'
    BY DEF vars, codeVars, FetchInv, RefusedOnlyIfLate, Refused
  <1> QED BY <1>1, <1>2, <1>3, <1>4, <1>5

LEMMA LateInvTakeToken ==
    ASSUME LateInv, TakeToken
    PROVE  LateInv'
  <1> USE StackAssumption DEF LateInv, TakeToken, tokenVars, vars, codeVars
  <1>1. SourceTypes' /\ ComingInv' /\ HeldInv' /\ FetchInv' /\ RefusedOnlyIfLate'
    BY DEF SourceTypes, ComingInv, HeldInv, FetchInv, RefusedOnlyIfLate, Refused
  <1>2. SentInv'
    BY DEF SourceTypes, HeldInv, SentInv, LeftOver, Honest, Token, Left
  <1> QED BY <1>1, <1>2

LEMMA LateInvReceive ==
    ASSUME LateInv, ReceiveToken
    PROVE  LateInv'
  <1> USE StackAssumption DEF LateInv, ReceiveToken, vars, codeVars
  <1>1. /\ coming \in Token /\ Honest(coming)
        /\ coming.promised # Never => coming.promised \in Nat /\ LeftOver(coming, coming.promised)
    BY DEF SourceTypes, ComingInv, Token
  <1>2. SourceTypes'
    BY <1>1 DEF SourceTypes, Keep, Expired, Freshness
  <1>3. HeldInv'
    BY <1>1 DEF HeldInv, Keep, Expired, Freshness, LeftOver, Honest
  <1>4. SentInv'
    <2>1. CASE fetcher = "call"
      <3>1. sent' = coming
        BY <2>1
      <3>2. ASSUME coming.promised # Never
            PROVE  LeftOver(coming, IF coming.promised < Margin THEN coming.promised ELSE Margin)
        BY <1>1, <3>2 DEF LeftOver, Honest, Token
      <3> QED BY <1>1, <3>1, <3>2 DEF SentInv
    <2>2. CASE fetcher # "call"
      BY <2>2 DEF SentInv
    <2> QED BY <2>1, <2>2
  <1>5. ComingInv' /\ FetchInv' /\ RefusedOnlyIfLate'
    BY DEF ComingInv, FetchInv, SourceTypes, RefusedOnlyIfLate, Refused
  <1> QED BY <1>2, <1>3, <1>4, <1>5

LEMMA IssuedTokens ==
    \A t \in Issued : /\ t \in Token /\ Honest(t)
                      /\ t.promised # Never => LeftOver(t, t.promised)
  <1> SUFFICES ASSUME NEW t \in Issued
               PROVE  /\ t \in Token /\ Honest(t)
                      /\ t.promised # Never => LeftOver(t, t.promised)
    OBVIOUS
  <1>1. PICK left \in 0..MaxLife \cup {Never} :
           t \in [left : {left}, promised : ExpiresIn(left), lag : {0}]
    BY Zenon DEF Issued
  <1>2. /\ t = [left |-> t.left, promised |-> t.promised, lag |-> t.lag]
        /\ t.left = left /\ t.promised \in ExpiresIn(left) /\ t.lag = 0
    BY <1>1
  <1>3. /\ t.promised \in 1..MaxLife \cup {Never}
        /\ t.promised # Never => left \in Int /\ t.promised <= left + 1
    BY <1>2, StackAssumption DEF ExpiresIn
  <1>4. 0 \in 0..Margin /\ left \in Left \cup {Never}
    BY StackAssumption DEF Left
  <1>5. t \in Token
    BY <1>2, <1>3, <1>4 DEF Token
  <1> QED BY <1>2, <1>3, <1>5 DEF Honest, LeftOver

LEMMA LateInvIssue ==
    ASSUME LateInv, Issue
    PROVE  LateInv'
  <1> USE StackAssumption, IssuedTokens DEF LateInv, Issue, vars, codeVars
  <1>1. SourceTypes' /\ ComingInv'
    BY DEF SourceTypes, ComingInv
  <1>2. HeldInv' /\ SentInv' /\ FetchInv' /\ RefusedOnlyIfLate'
    BY DEF HeldInv, SentInv, FetchInv, RefusedOnlyIfLate, Refused
  <1> QED BY <1>1, <1>2

LEMMA LateInvRefuse ==
    ASSUME LateInv, Refuse
    PROVE  LateInv'
  <1> USE StackAssumption DEF LateInv, Refuse, ReturnUp, tokenVars
  <1>1. SourceTypes' /\ ComingInv' /\ HeldInv' /\ SentInv' /\ FetchInv'
    BY DEF SourceTypes, ComingInv, HeldInv, SentInv, FetchInv
  <1>2. RefusedOnlyIfLate'
    BY DEF RefusedOnlyIfLate, Refused, SentInv, SourceTypes, Accepted, Honest, LeftOver, Token
  <1> QED BY <1>1, <1>2

LEMMA LateInvNext == LateInv /\ [StackNext]_stackVars => LateInv'
  <1> SUFFICES ASSUME LateInv, [StackNext]_stackVars
               PROVE  LateInv'
    OBVIOUS
  <1> USE StackAssumption DEF LateInv, SourceTypes, ComingInv, HeldInv, SentInv, FetchInv,
          RefusedOnlyIfLate, Refused
  <1>1. CASE Tick
    BY <1>1, LateInvTick
  <1>2. CASE TakeToken
    BY <1>2, LateInvTakeToken
  <1>3. CASE ReceiveToken
    BY <1>3, LateInvReceive
  <1>4. CASE Issue
    BY <1>4, LateInvIssue
  <1>5. CASE Refuse
    BY <1>5, LateInvRefuse
  <1>6. CASE SendThrough
    BY <1>6 DEF SendThrough, Send, tokenVars
  <1>7. CASE StartFetch \/ OtherFetches
    BY <1>7 DEF StartFetch, OtherFetches, vars, codeVars
  <1>8. CASE FetchFails
    <2>1. CASE fetcher = "call"
      <3>1. PICK r \in {DNSError, TimeoutError, OtherError} : ReturnUp(r)
        BY <1>8, <2>1 DEF FetchFails
      <3>2. stage' = "above" /\ stage = "fetch" /\ UNCHANGED <<source, held, fresh, sent>>
        BY <1>8, <2>1, <3>1 DEF FetchFails, ReturnUp
      <3> QED BY <1>8, <3>2 DEF FetchFails
    <2>2. CASE fetcher = "other"
      BY <1>8, <2>2 DEF FetchFails, vars, codeVars
    <2> QED BY <1>8, <2>1, <2>2 DEF FetchFails
  <1>9. CASE Answer \/ AbortOnWire
    BY <1>9 DEF Answer, AbortOnWire, ReturnUp, tokenVars
  <1>10. CASE \/ Above(EnterLoop \/ GiveUp \/ PrepareRetry \/ DrainAborted \/ SleepInterrupted)
              \/ Above(BufferBody \/ DrainEnds \/ TimerFires \/ ContextEnds \/ NextCall)
    BY <1>10 DEF Above, tokenVars, EnterLoop, BufferBody, GiveUp, PrepareRetry, DrainAborted,
       DrainEnds, Drained, SleepInterrupted, TimerFires, ContextEnds, NextCall, codeVars
  <1>11. CASE UNCHANGED stackVars
    BY <1>11 DEF stackVars, tokenVars, vars, codeVars
  <1> QED
    BY <1>1, <1>2, <1>3, <1>4, <1>5, <1>6, <1>7, <1>8, <1>9, <1>10, <1>11
    DEF StackNext, StackCode, UseSource, FetchEnds, AttemptEndsBelow

THEOREM LateInvariant == StackSpec => []LateInv
  BY LateInvInit, LateInvNext, PTL DEF StackSpec

(* auth_handler.go:159-167, client_config.go:36-52: a client that was told   *)
(* how long its token lasts is refused only if answer and request were       *)
(* under way for the margin, or for the promise if that is shorter; whatever *)
(* the lifetimes, and however many callers share a token.                    *)
THEOREM RefusedOnlyIfLateHolds == StackSpec => []RefusedOnlyIfLate
  BY LateInvariant, PTL DEF LateInv

(* Every variable of the stack and of the transport in it keeps its type.    *)
THEOREM StackTypeCorrect == StackSpec => []StackTypeOK
  <1>1. TypeOK /\ SourceTypes => StackTypeOK
    BY DEF SourceTypes, StackTypeOK
  <1>2. LateInv => SourceTypes
    BY DEF LateInv
  <1> QED BY <1>1, <1>2, LateInvariant, StackImplementsRetry, RetryTypeCorrect, PTL DEF StackRetries
=============================================================================
