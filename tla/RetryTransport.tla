--------------------------- MODULE RetryTransport ---------------------------
(***************************************************************************)
(* retryTransport.RoundTrip (retry.go), the outermost layer of the         *)
(* client's transport stack, called again and again, against a server and  *)
(* a network that fail in every way the code tells apart, by a caller      *)
(* whose context may be cancelled or run into its deadline at any moment.  *)
(*                                                                         *)
(* There is a label for each place in which RoundTrip can block: reading   *)
(* the caller's body ("start"), the attempt ("flight"), draining a         *)
(* response ("drain") and the delay ("sleep").  Delays are not quantified: *)
(* a timer may fire at any time, as soon as it is set too, and the select  *)
(* of sleepWithContext may take either case when both are ready.  A        *)
(* response whose server stops in the middle is drained for ever, as long  *)
(* as the context does not end: neither the client nor the transport sets  *)
(* a time limit.  The transport below returns an error for a        *)
(* request whose context is done, as the standard library's does; what     *)
(* lies between the two is added by ClientStack.                           *)
(***************************************************************************)
EXTENDS Naturals

CONSTANT MaxRetries     \* WithRetryCount; NewClient installs the transport if > 0

ASSUME RetryAssumption == MaxRetries \in Nat \ {0}

VARIABLES
    idempotent,     \* isIdempotent(req)
    hasBody,        \* does the request carry a body
    pc,             \* where RoundTrip is
    attempts,       \* attemptCount, counted when an attempt starts
    reply,          \* res, err of the last attempt
    open,           \* the attempts whose response body is not closed
    rewound,        \* is the buffered body at its start
    ctx,            \* req.Context(): live, cancelled or past its deadline
    result,         \* what RoundTrip returned
    executions,     \* how often the server has carried the request out, up to twice
    invited         \* has a response asked for the request to be sent again

codeVars == <<idempotent, hasBody, pc, attempts, reply, open, rewound, result>>
vars == <<codeVars, ctx, executions, invited>>

(* status: 429, one of 500, 502, 503 and 504, or any other. *)
Response == [kind : {"response"}, status : {"ok", "throttled", "server_error"},
             retryAfter : BOOLEAN]

(* Errors, by what isDNSErr and isTimeoutErr make of them. *)
DNSError == [kind |-> "dns"]
TimeoutError == [kind |-> "timeout"]
OtherError == [kind |-> "other"]

Reply == Response \cup {DNSError, TimeoutError, OtherError}

ContextError == [kind |-> "context"]    \* the ctx.Err() of sleepWithContext
BufferError == [kind |-> "buffer"]      \* the request body could not be read
Pending == [kind |-> "pending"]         \* RoundTrip has not returned

Label == {"start", "send", "flight", "decide", "drain", "sleep", "done"}

-----------------------------------------------------------------------------
Init ==
    /\ idempotent \in BOOLEAN
    /\ hasBody \in BOOLEAN
    /\ pc = "start"
    /\ attempts = 0
    /\ reply = Pending
    /\ open = {}
    /\ rewound = TRUE
    /\ ctx = "live"
    /\ result = Pending
    /\ executions = 0
    /\ invited = FALSE

(* Line 26: there is no body to be buffered. *)
EnterLoop ==
    /\ pc = "start"
    /\ ~hasBody
    /\ pc' = "send"
    /\ UNCHANGED <<idempotent, hasBody, attempts, reply, open, rewound, result,
                   ctx, executions, invited>>

(* Lines 25-35: the body is buffered, if it can be read.  How long that      *)
(* takes is up to the caller's reader, which the context does not stop.      *)
BufferBody ==
    /\ pc = "start"
    /\ hasBody
    /\ \/ pc' = "send" /\ UNCHANGED result
       \/ pc' = "done" /\ result' = BufferError
    /\ UNCHANGED <<idempotent, hasBody, attempts, reply, open, rewound,
                   ctx, executions, invited>>

(* Mutant: the count is declared inside the loop. *)
Send_CountsInsideLoop ==
    /\ pc = "send"
    /\ pc' = "flight"
    /\ attempts' = 1
    /\ reply' = Pending
    /\ rewound' = ~hasBody
    /\ UNCHANGED <<idempotent, hasBody, open, result, ctx, executions, invited>>

(* Lines 38-39.  Sending consumes the body; res and err are new ones. *)
Send ==
    /\ pc = "send"
    /\ pc' = "flight"
    /\ attempts' = attempts + 1
    /\ reply' = Pending
    /\ rewound' = ~hasBody
    /\ UNCHANGED <<idempotent, hasBody, open, result, ctx, executions, invited>>

(* No request was carried out that never got past the name lookup, or that   *)
(* the server throttled; of any other the client cannot tell.                *)
NotExecuted(r) == r = DNSError \/ (r.kind = "response" /\ r.status = "throttled")

(* next.RoundTrip returns. *)
Return(r) ==
    /\ pc = "flight"
    /\ pc' = "decide"
    /\ reply' = r
    /\ open' = IF r.kind = "response" THEN open \cup {attempts} ELSE open
    /\ \/ UNCHANGED executions
       \/ ~NotExecuted(r) /\ executions < 2 /\ executions' = executions + 1
    /\ invited' = (invited \/ (r.kind = "response" /\ (r.retryAfter \/ r.status = "throttled")))
    /\ UNCHANGED <<idempotent, hasBody, attempts, rewound, result, ctx>>

(* The server or the network ends the attempt ... *)
AttemptEnds == \E r \in Reply : Return(r)

(* ... or the context does: context.DeadlineExceeded is a timeout to         *)
(* isTimeoutErr, context.Canceled is not.                                    *)
AttemptAborted ==
    \/ ctx = "expired" /\ Return(TimeoutError)
    \/ ctx = "cancelled" /\ Return(OtherError)

(* Mutant: a timed out request is repeated whatever its method. *)
shouldRetry_AnyMethod(r) ==
    \/ r = DNSError \/ r = TimeoutError
    \/ /\ r.kind = "response"
       /\ \/ r.retryAfter
          \/ r.status = "throttled"
          \/ r.status = "server_error" /\ idempotent

shouldRetry(r) ==
    \/ r = DNSError
    \/ r = TimeoutError /\ idempotent
    \/ /\ r.kind = "response"
       /\ \/ r.retryAfter
          \/ r.status = "throttled"
          \/ r.status = "server_error" /\ idempotent

(* Mutants: attempts are counted where retries are meant, and one too many. *)
RetriesLeft_OneLess == attempts < MaxRetries
RetriesLeft_OneMore == attempts <= MaxRetries + 1

RetriesLeft == attempts - 1 < MaxRetries

(* Lines 40-46: the last attempt, or one that needs no repetition. *)
GiveUp ==
    /\ pc = "decide"
    /\ ~(RetriesLeft /\ shouldRetry(reply))
    /\ pc' = "done"
    /\ result' = reply
    /\ UNCHANGED <<idempotent, hasBody, attempts, reply, open, rewound,
                   ctx, executions, invited>>

(* Mutant: the body is not rewound. *)
PrepareRetry_WithoutSeek ==
    /\ pc = "decide"
    /\ RetriesLeft /\ shouldRetry(reply)
    /\ pc' = IF reply.kind = "response" THEN "drain" ELSE "sleep"
    /\ UNCHANGED <<idempotent, hasBody, attempts, reply, open, rewound, result,
                   ctx, executions, invited>>

(* Lines 47-57: the body is rewound; a response is drained before the delay. *)
PrepareRetry ==
    /\ pc = "decide"
    /\ RetriesLeft /\ shouldRetry(reply)
    /\ pc' = IF reply.kind = "response" THEN "drain" ELSE "sleep"
    /\ rewound' = TRUE
    /\ UNCHANGED <<idempotent, hasBody, attempts, reply, open, result,
                   ctx, executions, invited>>

(* Mutant: a drained response is not closed. *)
Drained_LeavesBodyOpen ==
    /\ pc = "drain"
    /\ pc' = "sleep"
    /\ UNCHANGED <<idempotent, hasBody, attempts, reply, open, rewound, result,
                   ctx, executions, invited>>

(* Lines 57-60: io.Copy has come to the end of the response, or to an error, *)
(* and the response is closed.                                               *)
Drained ==
    /\ pc = "drain"
    /\ pc' = "sleep"
    /\ open' = open \ {attempts}
    /\ UNCHANGED <<idempotent, hasBody, attempts, reply, rewound, result,
                   ctx, executions, invited>>

(* The server or the network ends the response ... *)
DrainEnds == Drained

(* ... or the context does: it ends the reading of a response as it ends the *)
(* waiting for one.                                                          *)
DrainAborted == ctx # "live" /\ Drained

(* Lines 61-63 and 150-159. *)
TimerFires ==
    /\ pc = "sleep"
    /\ pc' = "send"
    /\ UNCHANGED <<idempotent, hasBody, attempts, reply, open, rewound, result,
                   ctx, executions, invited>>

(* Mutant: time.Sleep instead of sleepWithContext. *)
SleepInterrupted_Never == FALSE

SleepInterrupted ==
    /\ pc = "sleep"
    /\ ctx # "live"
    /\ pc' = "done"
    /\ result' = ContextError
    /\ UNCHANGED <<idempotent, hasBody, attempts, reply, open, rewound,
                   ctx, executions, invited>>

(* The caller's context ends. *)
ContextEnds ==
    /\ pc # "done"
    /\ ctx = "live"
    /\ ctx' \in {"cancelled", "expired"}
    /\ UNCHANGED <<codeVars, executions, invited>>

(* The caller's next request.                                                *)
NextCall ==
    /\ pc = "done"
    /\ pc' = "start"
    /\ idempotent' \in BOOLEAN
    /\ hasBody' \in BOOLEAN
    /\ attempts' = 0
    /\ reply' = Pending
    /\ open' = {}
    /\ rewound' = TRUE
    /\ ctx' = "live"
    /\ result' = Pending
    /\ executions' = 0
    /\ invited' = FALSE

CodeStep ==
    \/ EnterLoop \/ Send \/ GiveUp \/ PrepareRetry
    \/ AttemptAborted \/ DrainAborted \/ SleepInterrupted

Next ==
    \/ CodeStep
    \/ BufferBody \/ AttemptEnds \/ DrainEnds \/ TimerFires
    \/ ContextEnds \/ NextCall

Spec == Init /\ [][Next]_vars

-----------------------------------------------------------------------------
(* Every variable has its type. *)
TypeOK ==
    /\ idempotent \in BOOLEAN /\ hasBody \in BOOLEAN /\ rewound \in BOOLEAN
    /\ invited \in BOOLEAN
    /\ pc \in Label
    /\ attempts \in 0..(MaxRetries + 1)
    /\ executions \in 0..2
    /\ open \subseteq 1..(MaxRetries + 1)
    /\ reply \in Reply \cup {Pending}
    /\ ctx \in {"live", "cancelled", "expired"}
    /\ result \in Reply \cup {Pending, ContextError, BufferError}

(* Lines 57-60: no response body leaks.  When RoundTrip has returned, the    *)
(* only open body is that of the response it returned.                       *)
BodiesClosed ==
    pc = "done" =>
        open = IF result.kind = "response" THEN {attempts} ELSE {}

(* Lines 77-95: a request that is not idempotent is not carried out twice,   *)
(* unless the server asked for it by a 429 or a Retry-After.                 *)
NotRepeatedUninvited == ~idempotent /\ ~invited => executions <= 1

(* Lines 40-46: the caller is given a failure that was worth another attempt *)
(* only when there have been MaxRetries + 1 of them.                         *)
RetriesAreUsedUp ==
    pc = "done" /\ result = reply /\ shouldRetry(result) => attempts = MaxRetries + 1

(* Lines 48-56: every attempt sends the body from its start. *)
AttemptsSendWholeBody == pc = "send" => rewound

(* Lines 57-63: a call whose context has ended returns, without waiting for  *)
(* the rest of a delay, however long, nor for a server that never answers or *)
(* stops in the middle of its answer.                                        *)
ContextEndsCall == ctx # "live" ~> pc = "done"
=============================================================================
