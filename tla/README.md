# Verification of ileap-go

TLA+ models of the iLEAP server and client SDK in `src/`, the TLC runs that
check them on small instances, and theorems about them that TLAPS proves for
every value of the constants. `PROJECT.json` relates every definition to the
source lines it stands for and every property to a mutation of the code that
breaks it.

To repeat the checks:

    tlc -workers 2 -config JwksCache.cfg MCJwksCache.tla
    tlapm JwksCache_proofs.tla

## 1. Inventory of the system

ileap-go is a Go library with a server half, a client half and a small command
line. The server translates the iLEAP/PACT HTTP protocol into calls of a
Connect service; the client calls such a server.

| Part | Source | State | Operations | Talks to |
|---|---|---|---|---|
| HTTP server | `server.go`, `server_*.go`, `error.go`, `event.go` | none after `NewServer`; each request has its own | auth middlewares, list, get, events, token, OIDC, JWKS | auth handler, service |
| Clerk auth handler | `handlers/ileapclerk/auth_handler.go` | key cache and token cache behind one `sync.RWMutex` | `IssueToken`, `ValidateToken`, `findKey`, `JWKS`, `OpenIDConfiguration` | Clerk client; called by every request goroutine |
| Clerk client | `handlers/ileapclerk/client.go` | none (HTTP timeout of 5 s) | `SignIn`, `TouchSession`, `CreateSessionToken`, `FetchJWKS` | Clerk |
| Demo handler | `handlers/ileapdemo` | embedded data, one key pair; constant | list with filter, offset and limit; get; issue and validate demo tokens | - |
| Connect backend handler | `handlers/ileapconnect`, `interceptor.go` | none | forwards each call with the token of the request | a remote backend |
| OData filter | `internal/odata/parse.go` | none | `ParseFilter` | - |
| Client transports | `client.go`, `client_config.go`, `interceptor.go`, `debug.go` | the OAuth token that `oauth2` keeps | retry, intercept, authenticate, dump | server |
| Retrying transport | `retry.go` | one `RoundTrip`: attempts, buffered body, open response | `RoundTrip` | the transport below |
| Client operations | `client_*.go` | none | get and list | the transports |
| Command line | `cmd/ileap` | `auth.json` | login, logout, calls, demo server | client, server |
| API contract | `proto/.../ileap_service.proto` | - | - | - |

How they interact: a request goroutine runs a middleware, which calls
`ValidateToken`, which calls `findKey` and maybe `JWKS()` (an HTTP request to
Clerk under the write lock); then it calls the service and maps the result or
the error to HTTP. `/auth/token` calls `IssueToken`, and `/jwks` calls
`JWKS()`. All of them share one auth handler. On the client side a request goes
through retry, interceptors, OAuth and debug, in this order, to the network.
The command line keeps the token of a login in a file, which any number of
shells read and write.

What is hard here, and what makes each part correct:

* *Key cache.* Any number of goroutines look, give up the lock, lock again, look
  again and fetch while Clerk rotates its keys. Correct is: one writer that is
  alone, no superfluous fetch, the cache never goes backwards, a lookup is
  atomic as far as its caller can tell, no call hangs, and a rotated key is
  accepted within the TTL.
* *Token cache.* Two goroutines may miss and both sign in. Correct is: nobody is
  given a token issued to other credentials, and a revocation takes hold.
* *Both.* They share a mutex that is held across an HTTP request: neither may
  lock the other out.
* *Middlewares and error mapping.* The same token is looked at up to three
  times while time passes, and five tables translate errors. Correct is: a
  service sees only tokens that were valid, and a client is told the right
  reason, also when it is Clerk that fails.
* *Events.* What an event carries may be written in four ways, which the server
  has to guess. Correct is: which of them is used makes no difference.
* *Pagination.* A walk over several requests relates the counting of the
  client, the server and the service, and a response may break off. Correct is:
  every item once, in order, to the end, over links that the server itself
  accepts, and no part of a page taken for a page.
* *Retries.* Failures in every order, against a context that may end at any
  moment. Correct is: no duplicate of a request that is not idempotent, no leaked
  body, all retries used and no more, and a call that ends when its context does.
* *Tokens of the client.* The client relies on a lifetime that it was told some
  time ago, and shares its token between calls. Correct is: it uses no token
  that it could know the server refuses, and gets over one that is refused.
* *Credentials file.* It is written in place by a command that may be killed,
  and read piece by piece. Correct is: a login that says it is done is, and a
  call goes on with one login's credentials or with none.
* *Filters.* A parser that skips what it does not know, and an evaluation that
  joins by "or" what the client joined by "and". Correct is: exactly the filters
  that were written are read, whatever stands among them, and nothing that
  satisfies all of them is lost.

## 2. Modules

The order is that of what a failure would cost: authentication first, then what
a client observes over several requests, then the pure algorithms.

| Module | Models | Uses |
|---|---|---|
| `RWMutex` | `sync.RWMutex`: announced writer, active readers, readers queued behind the writer | - |
| `KeyLookup` | abstract: a lookup is one step on a directory of keys | - |
| `JwksCache` | `JWKS()` and `findKey()`, the fetch, Clerk's rotations | `RWMutex`; refines `KeyLookup` |
| `TokenCache` | `IssueToken()`, sign-in, template, Clerk's revocations | `RWMutex` |
| `ClerkAuth` | both caches behind the one mutex, one clock | `JwksCache`, `TokenCache`; refines `KeyLookup` |
| `CloudEvents` | which events are accepted | - |
| `Gateway` | one request through middleware, auth handler, service and error mapping, or through the token endpoint | `CloudEvents` |
| `Paging` | `listFootprints`, `listTADs`, the demo handler's lists, the writing and reading of pages, a client that follows links | - |
| `RetryTransport` | `RoundTrip`, called again and again | - |
| `ClientStack` | the retrying transport above the OAuth transport above the network, and tokens that end | `RetryTransport`, which it also refines |
| `CliCredentials` | login, logout and calls in several shells | - |
| `ODataFilter` | `ParseFilter`, and a client that writes filters | - |
| `DemoFilter` | both lists of the demo handler, as far as they filter | `ODataFilter` |
| `MC*` | instances for TLC | |
| `*_proofs` | theorems: those about `TokenCache` are in `ClerkAuth_proofs`, those about `RetryTransport` in `ClientStack_proofs` | the module of that name, `TLAPS` |

**JwksCache.** `cachedJWKS` is `a.cachedJWKS` and `age` is
`time.Since(a.cachedAt)`, capped at the TTL because it is compared with nothing
else. A key set is the number of the epoch in which Clerk published it. `jpc[g]`
names the next call of goroutine `g` in `findKey` (`fk...`) or `JWKS()`
(`jw...`); every call of the mutex and every fetch is a step of its own, and
what follows on local variables belongs to the step before it. `findKey`
calling `JWKS()` is a jump; whether `JWKS()` returns to it or to the `/jwks`
handler is told by `kid[g]`.

**TokenCache.** As `JwksCache`; an expiry is represented by what is left of it.
`creds[g]` carries the credentials that Clerk issued the token to, which the
code does not, so that a token can be told from another.

**Gateway.** A token is what the code reads of it: `exp`, the later of `nbf`
and `iat`, and whether header, signature and subject are right. `Tick` may fall
between any two steps. `findKey` is the choice of outcomes that `KeyLookup`
allows: a key, no key, an outage; `KeyLookup` is what justifies the choice. On
the token route Clerk answers each call of a sign-in in one of six ways, the
classes that `IssueToken` tells apart and those that it does not.

**CloudEvents.** The data of an event has a content, and is written as JSON or as
a string: the JSON itself, or base64 in either alphabet, padded or not. Of a
string the model has what each of the four decoders of
`normalizeCloudEventData` can tell: which alphabets have its characters, how many
there are modulo four, its padding, and what the bytes say if it is base64. So a
string may be base64 by accident: words and numbers of JSON are (`true`, `1234`),
and of text that is no JSON anything may be. Where two decoders accept a string
they give the same bytes, so that the order of the four does not matter. An
accepted event is answered with 200 and dropped.

**Paging.** One action per request (`RejectRequest`, `AnswerList`) and per move
of the client (`FollowLink`, `ReadLastPage`, `ReadFails`), and `Publish`, with
which the list of a backend grows. Items are numbers in the order of the
service; what a filter selects is any subset. A body is a sequence of pieces:
`Written` is what the server may write, an error object after the first items
included, and `Arriving` what of it may arrive. A backend may answer with any
prefix of what is asked for, an empty one included (`starved`).

**RetryTransport.** A label for each place where `RoundTrip` can block: the
buffering of the caller's body, the attempt, the draining of a response that is
not returned, and the delay. `reply` is
what `shouldRetry` can tell of `res, err`; `open` are the attempts whose body is
not closed; `executions` counts, up to two, what the server really did. Delays
have no length: the timer may fire at once or never. `NextCall` starts another
call, with another context.

**ClientStack.** `EXTENDS RetryTransport`, whose `Send` becomes the handing over
to `oauth2.Transport` and whose `Return` the way back up; `stage` says where in
between an attempt is. A token has what is left of it as the server sees it
(`left`), what the client was told (`promised`) and how long it was under way
(`lag`); the token source knows `fresh`, what it takes to be left less the
margin of ten seconds that package oauth2 keeps. Other callers of the same
client are seen through the source they share (`OtherFetches`).

**CliCredentials.** A file is a sequence of pieces, each known by the login that
wrote it and its place, so that a document with a tail of another, a hole or a
missing end can be told from a whole one. A file that a login has open keeps
existing when a logout takes its name away. A call reads the file in any number
of reads (`Read`), each as far as the file goes by then, and parses what it has
got when there is no more. Each command may stop between any two steps (`Stop`):
killed, or because the disk is full.

**ODataFilter.** A text is a sequence of symbols, where a word is one symbol.
The scanner is a function of the position with the loop's variables as its
value, lexer and parser are recursive functions of what is left of the text and
of the tokens; the parser's `pos` is what each of them leaves (`rest`). The
client writes one clause per step: a filter, with its operator and keywords in
either case, in up to `MaxParens` pairs of parentheses and with `any` if it is
about a list, or a scribble. What it means is recorded next to the text, so that
"what is read is what was written" needs no second parser. `Closed` is stated by
counting, not by scanning.

**DemoFilter.** Adds footprints and transport activity data and the steps in
which the demo server lists them. A filter's evaluation is the pair
(`IsSupported`, `footprintMatchesSingleFilter`) that the code returns;
`Satisfies` is what the client asked for: names are those of fields as the
messages spell them (`FieldNames`), whereas the code folds their case. The query
of a TAD request is a set of parameters, since the code reads them from a Go
map, in any order.

## 3. Runs

| Run | Specification, bounds | Checks |
|---|---|---|
| `jwks` | two goroutines, keys k1; k1, k2; k2, TTL 2, fair | the writer is alone, a fetch is needed while in flight, the cache moves forward; every call returns; a rotated key is picked up; refinement of `KeyLookup`, with its fairness |
| `token` | two goroutines, one client, a right and a wrong secret, lifetimes 0..3 or none, template, fair | tokens stay with their owner; a revocation takes hold; every call returns |
| `auth` | both caches, two goroutines, one client, one rotation, lifetimes within the TTL, fair | refinement of `KeyLookup`; every request returns |
| `client` | one retry, lifetimes up to 3, a margin of 2, fair | bodies closed, nothing repeated uninvited, retries used up, whole bodies sent; a refused token came late; refinement of `RetryTransport`; a call ends with its context, or by itself; refusals pass |
| `cli` | two shells, three logins of two lengths | a login takes hold; a call uses one login |
| `paging` | lists of up to three items, limits and offsets in and out of range, fair | a walk delivers the list, whole pages, within limits, over accepted links, and ends |
| `paging_filter` | the same | finding 1 |
| `filter` | up to two clauses, each in up to two pairs of parentheses: 23 filters in all spellings, 51 scribbles, three footprints; every set of ten parameters, three transport activities | what is written is read; nothing asked for is missing |
| `filter_dates` | one clause on a date | finding 2 |
| `gateway` | clock 1..3, every kind of token and event, handler, service and route, every answer of Clerk | services see valid tokens; expiry is said so; refusals on the PACT routes; events are judged by content; outages are temporary |
| `gateway_expiry` | the same | finding 3 |
| `gateway_early` | the same | finding 4 |

Why the bounds are enough:

* *Goroutines.* The lock has three roles: a writer, readers it waits for, and
  readers that wait for it. Two goroutines take any two of them at a time, which
  suffices for one that waits for itself or for another; that no third makes a
  difference to safety is what the theorems say, for any number of goroutines.
  For liveness more is out of reach of the tableau.
* *Rotations.* With three key sets a key can be new, current and withdrawn, and
  there is a set between two others, which a store out of order would restore.
* *Ages.* With a TTL of two an age can be zero, between and expired. A lifetime
  of three is more than the TTL of one for more than one tick. In `auth` no
  token outlives the TTL, so every token request goes on to the write lock,
  which is what it and a key fetch contend for; hits are left to `token`.
* *Retries.* With one there are a first and a last attempt, and a second call
  after them; what a middle attempt would add is proved: the theorems hold for
  any number. A lifetime of three exceeds the margin of two, so that a token is
  kept, used within its margin, and may end before, on and after its way.
* *Lists.* Three items give first, middle and last pages of one item, a short
  last page, an empty one, and a page of all. `HalfInt32` = 4 and `HalfInt64` =
  16 scale the integers down: an int32 holds every length of list, and there are
  numbers that fit only an int. Limits are taken from beyond the int32 too.
  Offsets are not: `int32(offset)` keeps the low 32 bits of an offset of 2^31 and
  more, so that the page answered is one from elsewhere in the list and
  `WalkDelivers` does not hold. Nothing in the repository says what such an
  offset should give. The theorems hold for any lists and widths.
* *Texts.* A clause influences another one through the scanner's three
  variables, depth, string and start, and with two clauses each of them can be
  disturbed before and after a filter: scribbles include every text of up to two
  of the symbols that matter. Values contain quotes, parentheses and "and".
  The theorems hold for any number of clauses and of parentheses, any scribbles,
  paths and values.
* *Logins.* A credentials file is spoilt by what one login leaves for the next,
  which takes two, or by two that overlap, with a third to read or repair it;
  two lengths make one document longer than the other.
* *Time.* A token's dates and the clock have three values: before, at and after.

Deadlock is checked where the system never ends (`jwks`, `token`, `auth`,
`cli`), and not where the model is one walk or request that does, nor in
`client`, where a server need not answer.

### What the properties except, and why

* `ContextEndsCallBut`: a call that waits for a token outlives its context until
  the fetch ends, since tokens are fetched with the client's context
  (`client_config.go:50`), and so does one that is reading the caller's body
  (`retry.go:28`). Without these hypotheses TLC finds the call that never ends.
* `CallsReturn`: none of the things that `RoundTrip` waits for has a time limit,
  the draining of a response (`retry.go:58`) included. Each is a hypothesis:
  that the caller's body, the attempts, the fetches, the bodies of the responses
  and the delays end. Without that on the draining, say, TLC finds the call that
  drains for ever.
* `RefusedOnlyIfLate`, `RefusalsPass`: a token whose lifetime the client was not
  told (no `expires_in`, or `WithReuseTokenAuth`) is used, and refused, for ever.
  `RefusalsPass` assumes that from some time on answers take no second; the
  retrying transport does not repeat a 401 and nothing drops a refused token, so
  that with slow answers refusals may come back.
* `PactRefusals`: tokens that have expired. The footprint routes answer 401
  BadRequest to them too (`server.go:152`), where `ileap_service.proto:76` and
  `:99` list TokenExpired.
* `EventsAreJudgedByContent`: null is missing data in JSON, and data in base64;
  and a string that is no JSON but base64 cannot be told from base64.
* `NothingAskedForIsMissing`: requests of which the demo goes by nothing but names
  in another case than the fields'. `Mode=Road` is served as a filter on `mode`
  (`handler.go:147`, also `:212`) and leaves out what has another mode, although
  `ileap_service.proto:249-250` makes names case-sensitive, so that `Mode` names
  nothing: without the exception TLC finds it. Of a list, `ne` is taken for
  "none is equal" (`containsFold`); OData compares lists by `any` or `all` only, and nothing in
  the repository says which `ne` means, so what is said to be asked for is what
  both of them have.
* `LinksAreAccepted`, `WalkEnds`: a backend that answers with no items although
  it claims more makes the server link to the page just given, with a limit of 0
  if there was none, which it then refuses.
* `CallsUseOneLogin`, `LoginTakesHold`: files that two logins had open at a time.
* `CallsUseOneLogin`: a call of which a login has emptied the file when it had
  read a part (`torn`). It may go on with the beginning of one login's
  credentials and the end of another's: without the exception TLC finds it.

### Fairness

* Goroutines that can run do (`WF` of each `...Progress(g)`): the Go scheduler
  is preemptive. Within a fetch this says that every HTTP call to Clerk ends,
  which the 5 s timeout of `client.go:16` sees to. An embedder that passes an
  `http.Client` without a timeout (`WithHTTPClient`) loses the guarantee.
* A goroutine in `Lock` is not passed over for ever (`SF`): `sync.Mutex` hands
  over to a waiter that has waited for a millisecond. The same holds of the mutex
  of a token source (`SF` of `UseSource`).
* Time passes (`WF` of the ticks), and for `RotatedKeyIsPickedUp` only: Clerk
  is not down for ever, so that of infinitely many fetches some succeed (`SF`
  of `FetchOk`, a hypothesis of that property and not of the specification).
* The client moves on its own and notices the end of its context (`WF` of
  `StackCode`). That callers' bodies can be read, that servers and token
  endpoints answer and finish their answers, that timers fire and that time
  passes are hypotheses of the properties that need them.
* The client of `Paging` follows links and the server answers (`WF` of `Walk`);
  that the service gives items again and again is the hypothesis of `WalkEnds`;
  no fairness of `Publish`.

Nothing says that a goroutine makes another call, that Clerk rotates or
revokes, that a context ends or that a list grows.

### Findings

1. `paging_filter`: the Link of a filtered page has no filter, so a client that
   follows it reads items that do not match.
2. `filter_dates`: a footprint without an `updated` is compared as one of 1970,
   since the check for a missing timestamp compares an interface with nil. (If
   the check worked, the filter would count as unsupported for that footprint,
   which would be listed for that reason.)
3. `gateway_expiry`: a token that expires between the middleware and the
   backend is answered with 500 InternalError where the API promises
   TokenExpired. The client's transport takes it for a failure of the server and
   tries again.
4. `gateway_early`: a token that is not yet valid is refused with the code that
   the handler interface reserves for expired ones, and the client is told
   TokenExpired.

## 4. Proofs

All from the named assumptions on constants (`LockAssumption`, `JwksAssumption`,
`TokenAssumption`, `RetryAssumption`, `StackAssumption`, `PagingAssumption`,
`GatewayAssumption`, `CliAssumption`, `ODataAssumption`, `ClausesAssumption`,
`DemoAssumption`), which say that constants have their types, that markers such
as `NoSet` are not values, in `Paging` that lists fit an int32, and in
`ODataFilter` that a filter can be written (its path is of identifiers) and that
nothing is read of a closed scribble. No bound on goroutines, keys, credentials,
rotations, lifetimes, margins, retries, items, logins, clauses, parentheses, the
length of a text or the clock is used.

* `JwksCache_proofs`: `JwksTypeOK`, `WriterIsAlone`, `FetchIsNeeded`,
  `CacheMovesForward` and the refinement of `KeyLookup` (`LookupSafetyHolds`).
  None of them is inductive. The invariant `JwksInv` adds who owns the lock at
  which label (`OwnsLock`: without it an unlock could free another's lock), that
  `fk` labels seek a key (`SeeksKey`), that what was fetched has been published
  (`FetchedIsPublished`) and is not older than the cache (`FetchedIsNewer`). The
  last one holds because the cache cannot change during a fetch, which is why
  the lock is held across it. The refinement maps the cache to the directory and
  a call to its label not being "idle"; a step maps to `Call`, `Look`, `Refresh`,
  `Environment` or a stutter.
* `ClerkAuth_proofs`: of the token cache alone, `TokenTypeOK` and
  `TokensStayWithTheirOwner`. `TokenInv` adds that a goroutine holds only tokens
  issued to its own credentials and that every entry is filed under the key of
  its owner, together with the lemma that keys tell credentials apart (SHA-256
  is taken to be injective). Of the handler as a whole, the type of both caches
  (`AuthTypeCorrect`), `WriterIsAlone`, `TokensStayWithTheirOwner`,
  `FetchIsNeeded`, `CacheMovesForward` and the refinement of `KeyLookup` again.
  The invariant is the conjunction of the two and `OneRequest`; the work is in
  showing that a step in one cache keeps the invariant of the other although
  both move the lock.
* `Gateway_proofs`: all six invariants of the run. `GatewayInv` adds what is
  known at each label about the token, the time at which it was looked at, and
  Clerk's last answer. An event is decided in one step: the four decoders
  together accept exactly the texts that are base64 (`DecodersTogether`), so that
  each way of writing is read as its content (`NormalizedContent`) or, of words
  and numbers, as noise, which is judged like them.
* `Paging_proofs`: all invariants of the run and `PagesAreWhole`, for lists of
  any length. `LinkInv` says that offsets and limits of links are in range (or
  the page was empty), `PageInv` what can have arrived, and `WalkInv` that the
  request goes on where the items collected end; below them are lemmas on the
  conversions, on what is cut from a list, and on the bodies that parse.
* `ClientStack_proofs`: of the retrying transport alone, `RetryTypeCorrect` (at
  most `MaxRetries` + 1 attempts), `BodiesClosed`, `NotRepeatedUninvited`,
  `RetriesAreUsedUp`, `AttemptsSendWholeBody`. `RetryInv` counts, at each label,
  the executions that the attempts so far can have caused. Of the stack,
  `StackImplementsRetry`, that every step of the stack is one of
  `RetryTransport` or a stutter, and so its invariants hold of the stack
  (`StackKeepsRetryInvariants`); and `RefusedOnlyIfLate`. For the latter `LateInv`
  follows a token from the endpoint to the wire: what is left of it is what was
  promised of it, or `fresh` and the margin, or the margin, less the seconds
  it was late, and one, the last, in which there is nothing left but the token
  is accepted.
* `CliCredentials_proofs`: the types, `LoginTakesHold` and `CallsUseOneLogin`.
  `CliInv` says what is in the file that each login has open: the pieces it has
  written and no other's, as long as no two logins had one file open at a time,
  that what a call has read is the beginning of what there is (`ReadSoFar`), and
  that a file taken away by a logout is not given to a later login.
* `ODataFilter_proofs`: what `ParseFilter` reads, for texts, paths, values and
  alphabets of any size. The library's induction theorems need an operator as a
  parameter; here induction is over a set (`SetInduction`, `ShorterFirst`,
  `TailFirst`), and that a recursive definition has a solution is proved once
  (`RecursiveFunction`), so that each function of the model can be unfolded
  (`LexClauseDef`, `ReadStringLiteralDef`, `PathFromDef`, ...). Above that:
  `ParseFilter` returns filters for every text (`ParseFilterType`). The scan of a
  text goes on, behind an "and" outside of strings and parentheses, as if the
  text began there (`ScanPrefix`, `ScanShift`), so that of two texts joined by
  it the filters of the one and of the other are read (`ParseJoined`). A text
  that is closed, stated by counting quotes and parentheses, ends outside of
  them (`ClosedEnds`). A clause that a client writes is not cut (`Passes`), its
  tokens are those that were meant, quotes in values and keywords in capitals
  included (`ComparisonLexes`, `AnyLexes`), and they are read as the filter
  (`SimpleIsRead`, `AnyIsRead`, and `NoAnyWithoutParens`, that the other form
  does not take it): `ClauseIsRead`. The inductive invariant is `TextSays`: as
  long as every clause is closed, what is read is what is said *and the text
  ends outside of strings and parentheses*, without which the next clause could
  be swallowed; and after one that is not closed, that much holds of a beginning
  of the text that an "and" ends.
* `DemoFilter_proofs`: the types, `FiltersAreRead`, and
  `NothingAskedForIsMissing`, for any fields, names, footprints and filters. By
  cases on the kind of the field, what satisfies a supported filter that names a
  field is matched by it. If all filters are satisfied, then one that is
  supported and names a field matches, and if none is supported everything is
  listed. Transport activity data goes the same way.

Every safety invariant, action property and refinement that a passing run checks
is proved. Only model-checked: all liveness (`EveryCallReturns`,
`RotatedKeyIsPickedUp`, `EveryIssueReturns`, `RevocationTakesHold`,
`AuthRequestsReturn`, `ContextEndsCallBut`, `CallsReturn`, `RefusalsPass`,
`WalkEnds`) and the fairness of the refinement (`LookupFairness`), which are out
of the prover's reach: it has no rules for ENABLED, which fairness is defined
by.

## 5. What is left out

* The definitions cover a small share of the lines in `src/`. Of 14460 lines
  nearly two thirds are code generated from the protocol buffers, and of the
  about 5100 written by hand 814 are conformance tests for servers; the rest of
  what is not covered is decoding and encoding, options, command line flags,
  printing, data and declarations of types.
* OIDC discovery and base URLs, which are computed from one request and keep no
  state; `/jwks` answers with what `JWKS()` returns.
* The arithmetic of `retryDelay`: int64 and float computations on random
  numbers. A delay of any length, none and one without end included, is what the
  models take it for.
* Interceptors, which are the caller's code, and the debugging transport, which
  adds errors to those that a reply may be anyway. That it loses a response it
  cannot dump without closing it is below what `open` counts.
* Offsets beyond an int32 (section 3).
* How long a withdrawn key goes on validating tokens. `findKey` takes a key from
  the cached set whatever its age; only a miss or a `/jwks` request refreshes
  it. The models do so too, and no text of the repository states a bound.
* Entries of the token cache are never removed; as many as there are accepted
  credentials.
* Clerk's key sets that cannot be decoded: a key that `findKeyInSet` cannot use
  is one the set does not have.
* The demo server's data, keys and the making of its tokens, which are constant;
  generated code, `ileaptest` (whose link-following client is the client of
  `Paging`), `tools/magefile.go`.
* Data races: every access to a cache is under the mutex, which
  `WriterIsAlone` relies on and the labels record.
