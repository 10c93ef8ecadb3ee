-------------------------- MODULE ClerkAuth_proofs --------------------------
(***************************************************************************)
(* Proofs about the token cache, for any number of goroutines, clients,    *)
(* secrets and token lifetimes, whatever TTL is configured; and about the  *)
(* handler as a whole.  The invariants of the two caches survive their     *)
(* sharing one lock: the steps of one cache are, for the other, steps of a *)
(* goroutine that is idle there and uses the lock as its contract allows.  *)
(***************************************************************************)
EXTENDS ClerkAuth, JwksCache_proofs

-----------------------------------------------------------------------------
(* The token cache alone. *)

(* A goroutine past its sign-in has the token of its own credentials. *)
HoldsOwnToken == \A g \in Goroutine :
    tpc[g] \in {"tkTemplate", "tkIssue", "tkLock", "tkStore"} =>
        creds[g] \in Token /\ creds[g].cred = cred[g] /\ cred[g] \in Registered

(* What is cached under the key of a credential pair was issued to it. *)
EntriesFiledByOwner == \A c \in Cred :
    tokenCache[tokenCacheKey(c)] # NoToken =>
        tokenCache[tokenCacheKey(c)].cred = c /\ c \in Registered

TokenInv ==
    /\ TokenTypeOK
    /\ HoldsOwnToken
    /\ EntriesFiledByOwner
    /\ TokensStayWithTheirOwner

(* tokenCacheKey tells all credential pairs apart. *)
LEMMA KeyInjective ==
    ASSUME NEW c \in Cred, NEW d \in Cred, tokenCacheKey(c) = tokenCacheKey(d)
    PROVE  c = d
  BY DEF tokenCacheKey

LEMMA KeyInCacheKey == \A c \in Cred : tokenCacheKey(c) \in CacheKey
  BY DEF CacheKey

(* Ageing changes nothing but what is left of a lifetime. *)
LEMMA AgedToken ==
    ASSUME NEW t \in Token \cup {NoToken}
    PROVE  /\ Aged(t) \in Token \cup {NoToken}
           /\ t = NoToken <=> Aged(t) = NoToken
           /\ t # NoToken => Aged(t).cred = t.cred
  <1>1. CASE t = NoToken
    BY <1>1 DEF Aged
  <1>2. CASE t \in Token /\ t # NoToken
    BY <1>2, TokenAssumption DEF Aged, Token, Life
  <1> QED BY <1>1, <1>2

LEMMA TokenInvInit == TokenInit /\ LockInit => TokenInv
  BY TokenAssumption, KeyInCacheKey DEF TokenInit, LockInit, TokenInv, TokenTypeOK, LockTypeOK,
     TLabel, Outcome, NoOutcome, HoldsOwnToken, EntriesFiledByOwner, TokensStayWithTheirOwner

LEMMA TokenInvStep ==
    ASSUME TokenInv, NEW g \in Goroutine, TokenStep(g)
    PROVE  TokenInv'
  <1> USE TokenAssumption, LockAssumption DEF TokenInv, TokenTypeOK, LockTypeOK, TLabel, Outcome
  <1>1. CASE IssueToken(g)
    BY <1>1, KeyInjective, KeyInCacheKey DEF IssueToken, TGoto, NoOutcome, lockVars,
       HoldsOwnToken,
       EntriesFiledByOwner, TokensStayWithTheirOwner
  <1>2. CASE TokenRLock(g)
    BY <1>2, KeyInjective, KeyInCacheKey DEF TokenRLock, TMove, TGoto, RLock, HoldsOwnToken,
       EntriesFiledByOwner, TokensStayWithTheirOwner
  <1>3. CASE TokenRead(g)
    BY <1>3, KeyInjective, KeyInCacheKey DEF TokenRead, TReturn, TGoto, RUnlock,
       ServableEntry, HoldsOwnToken,
       EntriesFiledByOwner, TokensStayWithTheirOwner
  <1>4. CASE SignInOk(g)
    BY <1>4, KeyInjective, KeyInCacheKey DEF SignInOk, HaveJWT, TGoto, lockVars, Token,
       HoldsOwnToken,
       EntriesFiledByOwner, TokensStayWithTheirOwner
  <1>5. CASE SignInFailed(g)
    BY <1>5, KeyInjective, KeyInCacheKey DEF SignInFailed, TReturn, TGoto, ErrorCode,
       lockVars, HoldsOwnToken,
       EntriesFiledByOwner, TokensStayWithTheirOwner
  <1>6. CASE TemplateReply(g)
    BY <1>6, KeyInjective, KeyInCacheKey DEF TemplateReply, HaveJWT, TGoto, lockVars, Token,
       HoldsOwnToken,
       EntriesFiledByOwner, TokensStayWithTheirOwner
  <1>7. CASE TokenIssue(g)
    BY <1>7, KeyInjective, KeyInCacheKey DEF TokenIssue, TReturn, TGoto, lockVars, Token,
       HoldsOwnToken,
       EntriesFiledByOwner, TokensStayWithTheirOwner
  <1>8. CASE TokenLock(g)
    BY <1>8, KeyInjective, KeyInCacheKey DEF TokenLock, TMove, TGoto, Lock, HoldsOwnToken,
       EntriesFiledByOwner, TokensStayWithTheirOwner
  <1>9. CASE TokenStore(g)
    BY <1>9, KeyInjective, KeyInCacheKey DEF TokenStore, TReturn, TGoto, Unlock, Token,
       HoldsOwnToken,
       EntriesFiledByOwner, TokensStayWithTheirOwner
  <1> QED BY <1>1, <1>2, <1>3, <1>4, <1>5, <1>6, <1>7, <1>8, <1>9 DEF TokenStep, TokenProgress

LEMMA TokenInvEnvironment ==
    ASSUME TokenInv, TokenEnvironment
    PROVE  TokenInv'
  <1> USE DEF TokenInv, TokenTypeOK, LockTypeOK, lockVars
  <1>1. CASE Revoke /\ UNCHANGED lockVars
    BY <1>1 DEF Revoke, HoldsOwnToken, EntriesFiledByOwner, TokensStayWithTheirOwner
  <1>2. CASE TokenTick /\ UNCHANGED lockVars
    BY <1>2, AgedToken, KeyInCacheKey DEF TokenTick, AgeTokens, HoldsOwnToken,
       EntriesFiledByOwner, TokensStayWithTheirOwner
  <1> QED BY <1>1, <1>2 DEF TokenEnvironment

LEMMA TokenInvStutter ==
    ASSUME TokenInv, UNCHANGED TokenAllVars
    PROVE  TokenInv'
  BY DEF TokenAllVars, tokenVars, lockVars, TokenInv, TokenTypeOK, LockTypeOK, HoldsOwnToken,
     EntriesFiledByOwner, TokensStayWithTheirOwner

THEOREM TokenInvariant == TokenSpec => []TokenInv
  <1>1. TokenInv /\ [TokenNext]_TokenAllVars => TokenInv'
    BY TokenInvStep, TokenInvEnvironment, TokenInvStutter DEF TokenNext
  <1> QED BY <1>1, TokenInvInit, PTL DEF TokenSpec, TokenStart

-----------------------------------------------------------------------------
(* Every variable keeps its type. *)
THEOREM TokenTypeCorrect == TokenSpec => []TokenTypeOK
  BY TokenInvariant, PTL DEF TokenInv

(* auth_handler.go:87-170: for any clients, secrets and interleaving, a call *)
(* of IssueToken only ever returns a token Clerk issued to its credentials.  *)
THEOREM TokensStayWithTheirOwnerHolds == TokenSpec => []TokensStayWithTheirOwner
  BY TokenInvariant, PTL DEF TokenInv

-----------------------------------------------------------------------------
(* The two caches together. *)

(* A goroutine is in at most one of the two caches. *)
OneRequest == \A g \in Goroutine : jpc[g] = "idle" \/ tpc[g] = "idle"

AuthInv == JwksInv /\ TokenInv /\ OneRequest

(* What a goroutine may do to the lock in one step. *)
LockStep(g) == RLock(g) \/ RUnlock(g) \/ Lock(g) \/ Unlock(g) \/ UNCHANGED lockVars

LEMMA TokenLockStep ==
    ASSUME NEW g \in Goroutine, TokenStep(g)
    PROVE  LockStep(g)
  BY DEF TokenStep, TokenProgress, IssueToken, TokenRLock, TokenRead, SignInOk, SignInFailed,
     TemplateReply, TokenIssue, TokenLock, TokenStore, LockStep

(* A user of the lock that is idle in the key cache does not disturb it. *)
LEMMA OthersKeepJwksInv ==
    ASSUME JwksInv, NEW g \in Goroutine, jpc[g] = "idle", LockStep(g), UNCHANGED jwksVars
    PROVE  JwksInv'
  <1> USE LockAssumption DEF JwksInv, LockInv
  <1>1. LockTypeOK'
    BY DEF LockStep, RLock, RUnlock, Lock, Unlock, HoldsLock, lockVars, JwksTypeOK, LockTypeOK
  <1>2. OwnsLock' /\ WriterIsAlone'
    BY DEF LockStep, RLock, RUnlock, Lock, Unlock, HoldsLock, lockVars, jwksVars,
       JwksTypeOK, LockTypeOK, OwnsLock, WriterIsAlone
  <1> QED
    BY <1>1, <1>2 DEF jwksVars, JwksTypeOK, SeeksKey, FetchIsNeeded, CacheFresh, Keys,
       FetchedIsPublished, FetchedIsNewer

LEMMA JwksLockTypeOK == JwksInv => LockTypeOK
  BY DEF JwksInv, LockInv, JwksTypeOK

LEMMA OthersKeepTokenInv ==
    ASSUME TokenInv, LockTypeOK',
           UNCHANGED <<accepted, tokenCache, tpc, cred, creds>>,
           \A g \in Goroutine : outcome'[g] = outcome[g] \/ outcome'[g] = NoOutcome,
           outcome' \in [Goroutine -> Outcome]
    PROVE  TokenInv'
  BY DEF TokenInv, TokenTypeOK, HoldsOwnToken, EntriesFiledByOwner, TokensStayWithTheirOwner,
     NoOutcome

LEMMA JwksInvStep ==
    ASSUME JwksInv, NEW g \in Goroutine, JwksStep(g)
    PROVE  JwksInv'
  BY LockInvStep, SeeksKeyStep, FetchIsNeededStep, FetchedIsPublishedStep, FetchedIsNewerStep
  DEF JwksInv

(* Only the goroutine itself leaves "idle", and only with its own call. *)
LEMMA JwksMovesOwnPc ==
    ASSUME JwksInv, NEW g \in Goroutine, JwksStep(g), NEW h \in Goroutine, h # g
    PROVE  jpc'[h] = jpc[h]
  BY DEF JwksInv, LockInv, JwksTypeOK, JwksStep, JwksCall, JwksProgress, CallFindKey, CallJWKS,
     StartCall, FindKeyRLock, FindKeyRead, FindKeyLock, FindKeyCheck, FindKeyFetchReply,
     FindKeyStore, JwksRLock, JwksRead, JwksLock, JwksCheck, JwksFetchReply, JwksStore,
     FetchReply, JwksReturn, Return, Move, Goto

LEMMA JwksProgressNotIdle ==
    ASSUME NEW g \in Goroutine, JwksProgress(g)
    PROVE  jpc[g] # "idle"
  BY DEF JwksProgress, FindKeyRLock, FindKeyRead, FindKeyLock, FindKeyCheck, FindKeyFetchReply,
     FindKeyStore, JwksRLock, JwksRead, JwksLock, JwksCheck, JwksFetchReply, JwksStore,
     FetchReply, Move

LEMMA TokenMovesOwnPc ==
    ASSUME TokenInv, NEW g \in Goroutine, TokenStep(g), NEW h \in Goroutine, h # g
    PROVE  tpc'[h] = tpc[h]
  BY DEF TokenInv, TokenTypeOK, TokenStep, TokenProgress, IssueToken, TokenRLock, TokenRead,
     SignInOk, SignInFailed, TemplateReply, TokenIssue, TokenLock, TokenStore, HaveJWT,
     TReturn, TMove, TGoto

LEMMA TokenProgressNotIdle ==
    ASSUME NEW g \in Goroutine, TokenProgress(g)
    PROVE  tpc[g] # "idle"
  BY DEF TokenProgress, TokenRLock, TokenRead, SignInOk, SignInFailed, TemplateReply,
     TokenIssue, TokenLock, TokenStore, TMove

LEMMA AuthInvStep ==
    ASSUME AuthInv, NEW g \in Goroutine, AuthCall(g) \/ AuthProgress(g)
    PROVE  AuthInv'
  <1>1. ASSUME JwksStep(g), tpc[g] = "idle",
               UNCHANGED <<accepted, tokenCache, tpc, cred, creds>>,
               outcome' = outcome \/ outcome' = [outcome EXCEPT ![g] = NoOutcome]
        PROVE  AuthInv'
    <2>1. JwksInv' /\ LockTypeOK'
      BY <1>1, JwksInvStep DEF AuthInv, JwksInv, LockInv, JwksTypeOK
    <2>2. /\ outcome' \in [Goroutine -> Outcome]
          /\ \A h \in Goroutine : outcome'[h] = outcome[h] \/ outcome'[h] = NoOutcome
      BY <1>1 DEF AuthInv, TokenInv, TokenTypeOK, Outcome, NoOutcome
    <2>3. TokenInv'
      BY <1>1, <2>1, <2>2, OthersKeepTokenInv DEF AuthInv
    <2>4. OneRequest'
      BY <1>1, JwksMovesOwnPc DEF AuthInv, OneRequest
    <2> QED BY <2>1, <2>3, <2>4 DEF AuthInv
  <1>2. ASSUME TokenStep(g), jpc[g] = "idle", UNCHANGED jwksVars
        PROVE  AuthInv'
    <2>1. JwksInv'
      BY <1>2, TokenLockStep, OthersKeepJwksInv DEF AuthInv
    <2>2. TokenInv'
      BY <1>2, TokenInvStep DEF AuthInv
    <2>3. OneRequest'
      BY <1>2, TokenMovesOwnPc DEF AuthInv, OneRequest, jwksVars
    <2> QED BY <2>1, <2>2, <2>3 DEF AuthInv
  <1>3. CASE AuthCall(g)
    BY <1>1, <1>2, <1>3 DEF AuthCall, JwksStep, TokenStep
  <1>4. CASE JwksProgress(g) /\ UNCHANGED tokenVars
    <2>1. tpc[g] = "idle"
      BY <1>4, JwksProgressNotIdle DEF AuthInv, OneRequest
    <2> QED BY <1>1, <1>4, <2>1 DEF JwksStep, tokenVars
  <1>5. CASE TokenProgress(g) /\ UNCHANGED jwksVars
    <2>1. jpc[g] = "idle"
      BY <1>5, TokenProgressNotIdle DEF AuthInv, OneRequest
    <2> QED BY <1>2, <1>5, <2>1 DEF TokenStep
  <1> QED BY <1>3, <1>4, <1>5 DEF AuthProgress

LEMMA AuthInvEnvironment ==
    ASSUME AuthInv, AuthEnvironment
    PROVE  AuthInv'
  <1>1. CASE AuthTick
    <2>1. JwksInv'
      BY <1>1, JwksAssumption DEF AuthInv, AuthTick, AgeCache, JwksInv, LockInv, lockVars,
         JwksTypeOK, LockTypeOK, OwnsLock, WriterIsAlone, HoldsLock, SeeksKey, FetchIsNeeded,
         CacheFresh, Keys, FetchedIsPublished, FetchedIsNewer
    <2>2. TokenInv'
      BY <1>1, AgedToken, KeyInCacheKey DEF AuthInv, AuthTick, AgeTokens, TokenInv,
         TokenTypeOK,
         LockTypeOK, lockVars, HoldsOwnToken, EntriesFiledByOwner, TokensStayWithTheirOwner
    <2> QED BY <1>1, <2>1, <2>2 DEF AuthInv, AuthTick, OneRequest
  <1>2. CASE Rotate /\ UNCHANGED <<tokenVars, lockVars>>
    <2>1. JwksInv'
      BY <1>2, JwksInvEnvironment DEF AuthInv, JwksEnvironment, lockVars
    <2>2. TokenInv'
      BY <1>2, TokenInvStutter DEF AuthInv, TokenAllVars
    <2> QED BY <1>2, <2>1, <2>2 DEF AuthInv, OneRequest, Rotate, tokenVars
  <1>3. CASE Revoke /\ UNCHANGED <<jwksVars, lockVars>>
    <2>1. JwksInv'
      BY <1>3, JwksInvStutter DEF AuthInv, JwksAllVars
    <2>2. TokenInv'
      BY <1>3, TokenInvEnvironment DEF AuthInv, TokenEnvironment, lockVars
    <2> QED BY <1>3, <2>1, <2>2 DEF AuthInv, OneRequest, Revoke, jwksVars
  <1> QED BY <1>1, <1>2, <1>3 DEF AuthEnvironment

THEOREM AuthInvariant == AuthSpec => []AuthInv
  <1>1. AuthInit => AuthInv
    BY JwksInvInit, TokenInvInit DEF AuthInit, AuthInv, OneRequest, JwksInit
  <1>2. AuthInv /\ [AuthNext]_authVars => AuthInv'
    <2> SUFFICES ASSUME AuthInv, [AuthNext]_authVars
                 PROVE  AuthInv'
      OBVIOUS
    <2>1. CASE UNCHANGED authVars
      BY <2>1, JwksInvStutter, TokenInvStutter
      DEF authVars, AuthInv, JwksAllVars, TokenAllVars, OneRequest, jwksVars, tokenVars
    <2> QED BY <2>1, AuthInvStep, AuthInvEnvironment DEF AuthNext
  <1> QED BY <1>1, <1>2, PTL DEF AuthSpec

-----------------------------------------------------------------------------
(* Sharing one lock with token requests, the goroutine that fetches a key    *)
(* set is still alone with the caches (auth_handler.go:39, 291-305, 333-346).*)
THEOREM AuthWriterIsAlone == AuthSpec => []WriterIsAlone
  BY AuthInvariant, PTL DEF AuthInv, JwksInv, LockInv

(* Sharing one lock with key lookups, a token is still only ever returned to *)
(* the owner of its credentials (auth_handler.go:92-170).                    *)
THEOREM AuthTokensStayWithTheirOwner == AuthSpec => []TokensStayWithTheirOwner
  BY AuthInvariant, PTL DEF AuthInv, TokenInv

(* No variable of the handler loses its type. *)
THEOREM AuthTypeCorrect == AuthSpec => [](JwksTypeOK /\ TokenTypeOK)
  BY AuthInvariant, PTL DEF AuthInv, JwksInv, LockInv, TokenInv

(* While a goroutine waits for Clerk with the lock in its hands, no token    *)
(* request that queues behind it makes its fetch superfluous.                *)
THEOREM AuthFetchIsNeeded == AuthSpec => []FetchIsNeeded
  BY AuthInvariant, PTL DEF AuthInv, JwksInv

(* No token request, and no failed or slow fetch, moves the key cache back.  *)
THEOREM AuthCacheMovesForward == AuthSpec => CacheMovesForward
  <1>1. AuthInv /\ [AuthNext]_authVars =>
          [cachedJWKS' # cachedJWKS =>
             /\ cachedJWKS' \in Epoch
             /\ cachedJWKS # NoSet => cachedJWKS' > cachedJWKS]_JwksAllVars
    <2> SUFFICES ASSUME AuthInv, [AuthNext]_authVars, cachedJWKS' # cachedJWKS
                 PROVE  MovesForward
      BY DEF MovesForward
    <2>1. PICK g \in Goroutine : JwksStep(g)
      BY DEF AuthNext, AuthEnvironment, AuthTick, AgeCache, Rotate, Revoke, AuthCall,
         AuthProgress, JwksStep, authVars, jwksVars
    <2> QED BY <2>1, MovesForwardStep DEF AuthInv
  <1> QED BY <1>1, AuthInvariant, PTL DEF AuthSpec, CacheMovesForward

(* The whole handler still behaves as the atomic lookups of KeyLookup.       *)
THEOREM AuthKeyLookupsHold == AuthSpec => AuthKeyLookups
  <1>1. AuthInv /\ [AuthNext]_authVars => [Lookup!Next]_Lookup!vars
    <2> SUFFICES ASSUME AuthInv, [AuthNext]_authVars
                 PROVE  [Lookup!Next]_Lookup!vars
      OBVIOUS
    <2>1. ASSUME NEW g \in Goroutine, JwksStep(g)
          PROVE  [Lookup!Next]_Lookup!vars
      BY <2>1, LookupStep DEF AuthInv
    <2>2. CASE UNCHANGED jwksVars
      BY <2>2 DEF jwksVars, Lookup!vars
    <2>3. CASE AuthTick
      BY <2>3 DEF AuthTick, AgeCache, Lookup!Next, Lookup!Environment, Lookup!vars
    <2>4. CASE Rotate
      BY <2>4 DEF Rotate, Lookup!Next, Lookup!Environment, Lookup!vars
    <2> QED BY <2>1, <2>2, <2>3, <2>4
        DEF AuthNext, AuthEnvironment, AuthCall, AuthProgress, JwksStep, authVars
  <1> QED BY <1>1, LookupInit, AuthInvariant, PTL
      DEF AuthSpec, AuthInit, AuthKeyLookups, Lookup!Spec
=============================================================================
