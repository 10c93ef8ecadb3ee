----------------------------- MODULE TokenCache -----------------------------
(***************************************************************************)
(* The token cache of handlers/ileapclerk/auth_handler.go: IssueToken(),   *)
(* run by any number of request goroutines that share the handler, against *)
(* a Clerk instance that signs users in and may withdraw a credential.     *)
(*                                                                         *)
(* An expiry is represented by what is left of it: "left" is time.Until of *)
(* the exp claim in ticks (seconds), 0 once the token has expired, NoExp   *)
(* if extractJWTExpiry finds no number there.  The seconds it reports in   *)
(* ExpiresIn are a copy of that value and not modelled here.               *)
(***************************************************************************)
EXTENDS Naturals, RWMutex

CONSTANTS
    ClientID, Secret,
    Registered,     \* the credentials Clerk accepts at first
    MaxLife,        \* bound: the longest lifetime Clerk gives a token
    TokenTTL,       \* tokenCacheTTL, in ticks
    UseTemplate,    \* is jwtTemplateName set
    NoExp, NoToken

Cred == ClientID \X Secret

Life == 0..MaxLife \cup {NoExp}

(* cred is the credential pair Clerk issued the token to. *)
Token == [cred : Cred, left : Life]

ASSUME TokenAssumption ==
    /\ Registered \subseteq Cred
    /\ MaxLife \in Nat
    /\ TokenTTL \in Nat
    /\ UseTemplate \in BOOLEAN
    /\ NoExp \notin Nat
    /\ NoToken \notin Token

VARIABLES
    accepted,    \* the credentials Clerk accepts now
    tokenCache,  \* a.tokenCache, NoToken where it has no entry
    tpc,         \* where each goroutine is in IssueToken
    cred,        \* the credentials it was called with
    creds,       \* its local token (jwt, then creds)
    outcome      \* what its last call returned

tokenVars == <<accepted, tokenCache, tpc, cred, creds, outcome>>

TLabel == {"idle", "tkRLock", "tkRead", "tkSignIn", "tkTemplate", "tkIssue", "tkLock", "tkStore"}

(* Lines 116-135: the connect codes IssueToken's callers tell apart.  Of a   *)
(* token that was returned the outcome keeps whose it is.                    *)
ErrorCode == {"resource_exhausted", "unavailable", "permission_denied"}
NoOutcome == [code |-> "none", owner |-> NoToken]
Outcome == [code : ErrorCode \cup {"none"}, owner : {NoToken}]
           \cup [code : {"ok"}, owner : Cred]

(* Mutant: the key leaves the secret out. *)
tokenCacheKey_WithoutSecret(c) == <<c[1], c[1]>>

(* The identifier, and a SHA-256 over the identifier and the secret. *)
tokenCacheKey(c) == <<c[1], c>>
CacheKey == {tokenCacheKey(c) : c \in Cred}

-----------------------------------------------------------------------------
TokenInit ==
    /\ accepted = Registered
    /\ tokenCache = [k \in CacheKey |-> NoToken]
    /\ tpc = [g \in Goroutine |-> "idle"]
    /\ cred \in [Goroutine -> Cred]
    /\ creds = [g \in Goroutine |-> NoToken]
    /\ outcome = [g \in Goroutine |-> NoOutcome]

(* Clerk stops accepting a credential: a deleted user, a changed password. *)
Revoke ==
    /\ \E c \in accepted : accepted' = accepted \ {c}
    /\ UNCHANGED <<tokenCache, tpc, cred, creds, outcome>>

Aged(t) ==
    IF t = NoToken THEN t
    ELSE [t EXCEPT !.left = IF @ \in 1..MaxLife THEN @ - 1 ELSE @]

AgeTokens ==
    /\ tokenCache' = [k \in CacheKey |-> Aged(tokenCache[k])]
    /\ creds' = [g \in Goroutine |-> Aged(creds[g])]

(* Time passes for the tokens that are cached or under way. *)
TokenTick ==
    /\ AgeTokens
    /\ <<tokenCache, creds>>' # <<tokenCache, creds>>
    /\ UNCHANGED <<accepted, tpc, cred, outcome>>

TGoto(g, label) == tpc' = [tpc EXCEPT ![g] = label]

TReturn(g, code, owner) ==
    /\ TGoto(g, "idle")
    /\ outcome' = [outcome EXCEPT ![g] = [code |-> code, owner |-> owner]]
    /\ creds' = [creds EXCEPT ![g] = NoToken]

IssueToken(g) ==
    /\ tpc[g] = "idle"
    /\ TGoto(g, IF TokenTTL > 0 THEN "tkRLock" ELSE "tkSignIn")
    /\ \E c \in Cred : cred' = [cred EXCEPT ![g] = c]
    /\ outcome' = [outcome EXCEPT ![g] = NoOutcome]
    /\ UNCHANGED <<accepted, tokenCache, creds, lockVars>>

TMove(g, from, to) ==
    /\ tpc[g] = from
    /\ TGoto(g, to)
    /\ UNCHANGED <<accepted, tokenCache, cred, creds, outcome>>

TokenRLock(g) == RLock(g) /\ TMove(g, "tkRLock", "tkRead")
TokenLock(g) == Lock(g) /\ TMove(g, "tkLock", "tkStore")

(* Mutant: any cached entry is served. *)
ServableEntry_IgnoresTTL(c) == tokenCache[tokenCacheKey(c)] # NoToken

(* The fast path: an entry is served if it has more than the TTL left. *)
ServableEntry(c) ==
    LET entry == tokenCache[tokenCacheKey(c)]
    IN  entry # NoToken /\ entry.left > TokenTTL

(* Mutant: the lock is not released on a hit. *)
TokenRead_KeepsRLock(g) ==
    /\ tpc[g] = "tkRead"
    /\ g \in readers
    /\ \/ /\ ServableEntry(cred[g])
          /\ TReturn(g, "ok", tokenCache[tokenCacheKey(cred[g])].cred)
          /\ UNCHANGED lockVars
       \/ /\ ~ServableEntry(cred[g])
          /\ TGoto(g, "tkSignIn")
          /\ RUnlock(g)
          /\ UNCHANGED <<creds, outcome>>
    /\ UNCHANGED <<accepted, tokenCache, cred>>

TokenRead(g) ==
    /\ tpc[g] = "tkRead"
    /\ RUnlock(g)
    /\ \/ /\ ServableEntry(cred[g])
          /\ TReturn(g, "ok", tokenCache[tokenCacheKey(cred[g])].cred)
       \/ /\ ~ServableEntry(cred[g])
          /\ TGoto(g, "tkSignIn")
          /\ UNCHANGED <<creds, outcome>>
    /\ UNCHANGED <<accepted, tokenCache, cred>>

(* Clerk's SignIn succeeds with a token of any lifetime ... *)
HaveJWT(g, life, label) ==
    /\ creds' = [creds EXCEPT ![g] = [cred |-> cred[g], left |-> life]]
    /\ TGoto(g, label)
    /\ UNCHANGED outcome

SignInOk(g) ==
    /\ tpc[g] = "tkSignIn"
    /\ cred[g] \in accepted
    /\ \E life \in Life : HaveJWT(g, life, IF UseTemplate THEN "tkTemplate" ELSE "tkIssue")
    /\ UNCHANGED <<accepted, tokenCache, cred, lockVars>>

(* ... or fails: throttled, down or timed out, refused.  A reply that does   *)
(* not decode is a refusal too, whatever the credentials.                    *)
SignInFailed(g) ==
    /\ tpc[g] = "tkSignIn"
    /\ \E code \in ErrorCode : TReturn(g, code, NoToken)
    /\ UNCHANGED <<accepted, tokenCache, cred, lockVars>>

(* Mutant: when the template fails, its empty result is used. *)
TemplateReply_NoFallback(g) ==
    /\ tpc[g] = "tkTemplate"
    /\ \/ \E life \in Life : HaveJWT(g, life, "tkIssue")
       \/ /\ TGoto(g, "tkIssue")
          /\ creds' = [creds EXCEPT ![g].left = NoToken]
          /\ UNCHANGED outcome
    /\ UNCHANGED <<accepted, tokenCache, cred, lockVars>>

(* The token from the JWT template replaces the session token, unless the   *)
(* request for it fails.                                                    *)
TemplateReply(g) ==
    /\ tpc[g] = "tkTemplate"
    /\ \/ \E life \in Life : HaveJWT(g, life, "tkIssue")
       \/ TGoto(g, "tkIssue") /\ UNCHANGED <<creds, outcome>>
    /\ UNCHANGED <<accepted, tokenCache, cred, lockVars>>

(* A token without an expiry is returned and not cached. *)
TokenIssue(g) ==
    /\ tpc[g] = "tkIssue"
    /\ IF creds[g].left = NoExp \/ TokenTTL = 0
       THEN TReturn(g, "ok", creds[g].cred)
       ELSE TGoto(g, "tkLock") /\ UNCHANGED <<creds, outcome>>
    /\ UNCHANGED <<accepted, tokenCache, cred, lockVars>>

TokenStore(g) ==
    /\ tpc[g] = "tkStore"
    /\ Unlock(g)
    /\ tokenCache' = [tokenCache EXCEPT ![tokenCacheKey(cred[g])] = creds[g]]
    /\ TReturn(g, "ok", creds[g].cred)
    /\ UNCHANGED <<accepted, cred>>

TokenProgress(g) ==
    \/ TokenRLock(g) \/ TokenRead(g) \/ SignInOk(g) \/ SignInFailed(g)
    \/ TemplateReply(g) \/ TokenIssue(g) \/ TokenLock(g) \/ TokenStore(g)

TokenStep(g) == IssueToken(g) \/ TokenProgress(g)

TokenEnvironment == (Revoke \/ TokenTick) /\ UNCHANGED lockVars

TokenAllVars == <<tokenVars, lockVars>>

TokenNext == TokenEnvironment \/ \E g \in Goroutine : TokenStep(g)

TokenStart == TokenInit /\ LockInit

TokenSpec == TokenStart /\ [][TokenNext]_TokenAllVars

(* Goroutines run, HTTP calls to Clerk end within their timeout, Lock does   *)
(* not starve a waiter, and time passes.                                     *)
TokenFairness ==
    /\ WF_TokenAllVars(TokenTick /\ UNCHANGED lockVars)
    /\ \A g \in Goroutine :
          /\ WF_TokenAllVars(TokenProgress(g))
          /\ SF_TokenAllVars(TokenLock(g))

TokenFairSpec == TokenSpec /\ TokenFairness

-----------------------------------------------------------------------------
(* Every variable has its type. *)
TokenTypeOK ==
    /\ LockTypeOK
    /\ accepted \subseteq Registered
    /\ tokenCache \in [CacheKey -> Token \cup {NoToken}]
    /\ tpc \in [Goroutine -> TLabel]
    /\ cred \in [Goroutine -> Cred]
    /\ creds \in [Goroutine -> Token \cup {NoToken}]
    /\ outcome \in [Goroutine -> Outcome]

(* Lines 87-115 and 163-167: a caller gets a token only if Clerk issued it   *)
(* to the very credentials of that caller, and no other goroutine's, however *)
(* their cache entries interleave; so a pair Clerk never accepted gets none. *)
TokensStayWithTheirOwner ==
    \A g \in Goroutine :
        outcome[g].code = "ok" =>
            /\ outcome[g].owner = cred[g]
            /\ cred[g] \in Registered

(* Lines 100 and 157-167: the cache only delays the effect of a revocation.  *)
(* Once Clerk refuses a credential for good, some day no call gets a token   *)
(* for it any more: hits do not renew an entry, and a token without an       *)
(* expiry is never cached.                                                   *)
Serves(c) ==
    \E g \in Goroutine : cred[g] = c /\ outcome[g].code # "ok" /\ outcome'[g].code = "ok"

RevocationTakesHold ==
    \A c \in Cred : <>[](c \notin accepted) => <>[][~Serves(c)]_TokenAllVars

(* Every call of IssueToken returns. *)
EveryIssueReturns ==
    \A g \in Goroutine : []<>(tpc[g] = "idle")
=============================================================================
