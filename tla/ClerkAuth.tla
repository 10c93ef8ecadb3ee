----------------------------- MODULE ClerkAuth -----------------------------
(***************************************************************************)
(* The AuthHandler of handlers/ileapclerk as a whole: the key cache and    *)
(* the token cache live behind ONE sync.RWMutex, so a request for a token  *)
(* and the validation of another one contend for it, and a key fetch that  *)
(* holds it for up to the 5 s of the HTTP timeout stops both.  A goroutine *)
(* serves one request at a time.                                           *)
(***************************************************************************)
EXTENDS JwksCache, TokenCache

authVars == <<jwksVars, tokenVars, lockVars>>

AuthInit == JwksInit /\ TokenInit /\ LockInit

(* One clock for both caches. *)
AuthTick ==
    /\ AgeCache
    /\ AgeTokens
    /\ <<age, tokenCache, creds>>' # <<age, tokenCache, creds>>
    /\ UNCHANGED <<epoch, cachedJWKS, jpc, kid, fetched, ans,
                   accepted, tpc, cred, outcome, lockVars>>

AuthEnvironment ==
    \/ AuthTick
    \/ Rotate /\ UNCHANGED <<tokenVars, lockVars>>
    \/ Revoke /\ UNCHANGED <<jwksVars, lockVars>>

(* The next request of g; what IssueToken returned to the last one is gone.  *)
AuthCall(g) ==
    /\ jpc[g] = "idle" /\ tpc[g] = "idle"
    /\ \/ /\ JwksCall(g)
          /\ outcome' = [outcome EXCEPT ![g] = NoOutcome]
          /\ UNCHANGED <<accepted, tokenCache, tpc, cred, creds>>
       \/ IssueToken(g) /\ UNCHANGED jwksVars

AuthProgress(g) ==
    \/ JwksProgress(g) /\ UNCHANGED tokenVars
    \/ TokenProgress(g) /\ UNCHANGED jwksVars

AuthNext == AuthEnvironment \/ \E g \in Goroutine : AuthCall(g) \/ AuthProgress(g)

AuthSpec == AuthInit /\ [][AuthNext]_authVars

(* Whichever of the three Lock calls a goroutine is at. *)
AuthLock(g) ==
    \/ (JwksLock(g) \/ FindKeyLock(g)) /\ UNCHANGED tokenVars
    \/ TokenLock(g) /\ UNCHANGED jwksVars

(* As for each cache alone. *)
AuthFairness ==
    \A g \in Goroutine :
        /\ WF_authVars(AuthProgress(g))
        /\ SF_authVars(AuthLock(g))

AuthFairSpec == AuthSpec /\ AuthFairness

-----------------------------------------------------------------------------
(* Every request returns, although token requests queue behind key fetches   *)
(* and key lookups behind token stores: the two caches cannot lock each      *)
(* other out.                                                                *)
AuthRequestsReturn ==
    \A g \in Goroutine :
        []<>(jpc[g] = "idle" /\ tpc[g] = "idle")

(* auth_handler.go:280-351: the key cache keeps its promise (KeyLookup) also *)
(* when its lock is shared with token requests (lines 99-113 and 164-166).   *)
AuthKeyLookups == Lookup!Spec
=============================================================================
