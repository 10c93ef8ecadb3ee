----------------------------- MODULE JwksCache -----------------------------
(***************************************************************************)
(* The key-set cache of handlers/ileapclerk/auth_handler.go: JWKS() and    *)
(* findKey(), run by any number of request goroutines that share the       *)
(* handler, against a Clerk instance that rotates its signing keys.        *)
(*                                                                         *)
(* Clerk's key sets are numbered: epoch e publishes the keys Published[e]. *)
(* A fetched *ileap.JWKSet is represented by the number of its epoch, so   *)
(* an older set is a smaller number.  A key that findKeyInSet cannot       *)
(* decode is one the set does not have.                                    *)
(*                                                                         *)
(* A goroutine is at jpc[g]; each label names the call it is about to make *)
(* ("fk" in findKey, "jw" in JWKS).  What a goroutine computes on its own  *)
(* variables after it has unlocked is part of the unlocking step.          *)
(***************************************************************************)
EXTENDS Naturals, RWMutex

CONSTANTS
    Kid,        \* key ids
    MaxEpoch,   \* bound: the number of key rotations Clerk performs
    Published,  \* Published[e] is the set of keys Clerk serves in epoch e
    JwksTTL,    \* jwksCacheTTL, in ticks
    NoKid,      \* the "key id" of a call to JWKS(), which looks for no key
    NoSet,      \* a nil *ileap.JWKSet
    Failed      \* the outcome of a FetchJWKS that returned an error

Epoch == 0..MaxEpoch

ASSUME JwksAssumption ==
    /\ MaxEpoch \in Nat
    /\ Published \in [Epoch -> SUBSET Kid]
    /\ JwksTTL \in Nat
    /\ NoKid \notin Kid
    /\ NoSet \notin Nat
    /\ Failed \notin Nat
    /\ Failed # NoSet

VARIABLES
    epoch,       \* the epoch Clerk is in
    cachedJWKS,  \* a.cachedJWKS
    age,         \* time.Since(a.cachedAt), capped at JwksTTL
    jpc,         \* where each goroutine is in findKey or JWKS
    kid,         \* the key id it was called with
    fetched,     \* what its FetchJWKS returned
    ans          \* the outcome of its last call

cacheVars == <<cachedJWKS, age>>
jwksVars == <<epoch, cachedJWKS, age, jpc, kid, fetched, ans>>

JLabel == {"idle", "fkRLock", "fkRead", "fkLock", "fkCheck", "fkFetch", "fkStore",
           "jwRLock", "jwRead", "jwLock", "jwCheck", "jwFetch", "jwStore"}

(* served: JWKS() returned a key set.  missing: findKey's "not found"      *)
(* errors.  unavailable: its "fetch JWKS" error.                           *)
Answer == {"none", "found", "missing", "unavailable", "served"}

Keys(s) == IF s = NoSet THEN {} ELSE Published[s]

(* Mutant: a filled cache never goes stale. *)
CacheFresh_IgnoresTTL == cachedJWKS # NoSet

CacheFresh == cachedJWKS # NoSet /\ age < JwksTTL

-----------------------------------------------------------------------------
JwksInit ==
    /\ epoch = 0
    /\ cachedJWKS = NoSet
    /\ age = 0
    /\ jpc = [g \in Goroutine |-> "idle"]
    /\ kid = [g \in Goroutine |-> NoKid]
    /\ fetched = [g \in Goroutine |-> NoSet]
    /\ ans = [g \in Goroutine |-> "none"]

(* Clerk rotates its signing keys. *)
Rotate ==
    /\ epoch < MaxEpoch
    /\ epoch' = epoch + 1
    /\ UNCHANGED <<cachedJWKS, age, jpc, kid, fetched, ans>>

(* Time passes; past the TTL it makes no difference any more. *)
AgeCache == age' = IF age < JwksTTL THEN age + 1 ELSE age

JwksTick ==
    /\ age < JwksTTL
    /\ AgeCache
    /\ UNCHANGED <<epoch, cachedJWKS, jpc, kid, fetched, ans>>

Goto(g, label) == jpc' = [jpc EXCEPT ![g] = label]

(* The call of g ends with the answer a. *)
Return(g, a) ==
    /\ Goto(g, "idle")
    /\ ans' = [ans EXCEPT ![g] = a]
    /\ fetched' = [fetched EXCEPT ![g] = NoSet]

(* A request calls findKey(k), from ValidateToken, or JWKS(), for GET /jwks. *)
StartCall(g, k, label) ==
    /\ jpc[g] = "idle"
    /\ Goto(g, label)
    /\ kid' = [kid EXCEPT ![g] = k]
    /\ ans' = [ans EXCEPT ![g] = "none"]
    /\ UNCHANGED <<epoch, cacheVars, fetched, lockVars>>

CallFindKey(g) == \E k \in Kid : StartCall(g, k, "fkRLock")
CallJWKS(g) == StartCall(g, NoKid, "jwRLock")

(* A goroutine that only takes the lock moves on and changes nothing else.  *)
Move(g, from, to) ==
    /\ jpc[g] = from
    /\ Goto(g, to)
    /\ UNCHANGED <<epoch, cacheVars, kid, fetched, ans>>

FindKeyRLock(g) == RLock(g) /\ Move(g, "fkRLock", "fkRead")
FindKeyLock(g) == Lock(g) /\ Move(g, "fkLock", "fkCheck")
JwksRLock(g) == RLock(g) /\ Move(g, "jwRLock", "jwRead")
JwksLock(g) == Lock(g) /\ Move(g, "jwLock", "jwCheck")

(* Mutant: JWKS() is called before RUnlock. *)
FindKeyRead_KeepsRLock(g) ==
    /\ jpc[g] = "fkRead"
    /\ g \in readers
    /\ \/ kid[g] \in Keys(cachedJWKS) /\ Return(g, "found") /\ RUnlock(g)
       \/ kid[g] \notin Keys(cachedJWKS) /\ CacheFresh /\ Return(g, "missing") /\ RUnlock(g)
       \/ /\ kid[g] \notin Keys(cachedJWKS) /\ ~CacheFresh
          /\ Goto(g, "jwRLock")
          /\ UNCHANGED <<ans, fetched, lockVars>>
    /\ UNCHANGED <<epoch, cacheVars, kid>>

(* findKey's first, read-locked look: a key of the cached set is returned   *)
(* whatever the age of the set; an absent one is an error if it is fresh.   *)
FindKeyRead(g) ==
    /\ jpc[g] = "fkRead"
    /\ RUnlock(g)
    /\ \/ kid[g] \in Keys(cachedJWKS) /\ Return(g, "found")
       \/ kid[g] \notin Keys(cachedJWKS) /\ CacheFresh /\ Return(g, "missing")
       \/ /\ kid[g] \notin Keys(cachedJWKS) /\ ~CacheFresh
          /\ Goto(g, "jwRLock")
          /\ UNCHANGED <<ans, fetched>>
    /\ UNCHANGED <<epoch, cacheVars, kid>>

(* JWKS() returns the set s, to the /jwks handler or into findKey, which    *)
(* looks its key up and goes on to lock for a fetch of its own.             *)
JwksReturn(g, s) ==
    \/ kid[g] = NoKid /\ Return(g, "served")
    \/ kid[g] \in Keys(s) /\ Return(g, "found")
    \/ /\ kid[g] \in Kid \ Keys(s)
       /\ Goto(g, "fkLock")
       /\ fetched' = [fetched EXCEPT ![g] = NoSet]
       /\ UNCHANGED ans

JwksRead(g) ==
    /\ jpc[g] = "jwRead"
    /\ RUnlock(g)
    /\ \/ CacheFresh /\ JwksReturn(g, cachedJWKS)
       \/ ~CacheFresh /\ Goto(g, "jwLock") /\ UNCHANGED <<ans, fetched>>
    /\ UNCHANGED <<epoch, cacheVars, kid>>

(* Mutant: JWKS() fetches without looking at the cache again. *)
JwksCheck_NoRecheck(g) ==
    /\ jpc[g] = "jwCheck"
    /\ HoldsLock(g)
    /\ Goto(g, "jwFetch")
    /\ UNCHANGED <<epoch, cacheVars, kid, ans, fetched, lockVars>>

(* The second look, under the write lock: another goroutine may have        *)
(* refreshed the cache meanwhile.                                           *)
JwksCheck(g) ==
    /\ jpc[g] = "jwCheck"
    /\ HoldsLock(g)
    /\ \/ CacheFresh /\ JwksReturn(g, cachedJWKS) /\ Unlock(g)
       \/ ~CacheFresh /\ Goto(g, "jwFetch") /\ UNCHANGED <<ans, fetched, lockVars>>
    /\ UNCHANGED <<epoch, cacheVars, kid>>

(* Mutant: findKey fetches without looking at the cache again. *)
FindKeyCheck_NoRecheck(g) ==
    /\ jpc[g] = "fkCheck"
    /\ HoldsLock(g)
    /\ Goto(g, "fkFetch")
    /\ UNCHANGED <<epoch, cacheVars, kid, ans, fetched, lockVars>>

(* Mutant: findKey unlocks for the time of its fetch. *)
FindKeyCheck_UnlocksToFetch(g) ==
    /\ jpc[g] = "fkCheck"
    /\ Unlock(g)
    /\ \/ kid[g] \in Keys(cachedJWKS) /\ Return(g, "found")
       \/ kid[g] \notin Keys(cachedJWKS) /\ Goto(g, "fkFetch") /\ UNCHANGED <<ans, fetched>>
    /\ UNCHANGED <<epoch, cacheVars, kid>>

FindKeyCheck(g) ==
    /\ jpc[g] = "fkCheck"
    /\ HoldsLock(g)
    /\ \/ kid[g] \in Keys(cachedJWKS) /\ Return(g, "found") /\ Unlock(g)
       \/ /\ kid[g] \notin Keys(cachedJWKS)
          /\ Goto(g, "fkFetch")
          /\ UNCHANGED <<ans, fetched, lockVars>>
    /\ UNCHANGED <<epoch, cacheVars, kid>>

(* Clerk answers the GET, or it fails: by an error status, a broken body or *)
(* the 5 s timeout of the HTTP client.                                      *)
FetchReply(g, from, to, outcome) ==
    /\ jpc[g] = from
    /\ fetched' = [fetched EXCEPT ![g] = outcome]
    /\ Goto(g, to)
    /\ UNCHANGED <<epoch, cacheVars, kid, ans, lockVars>>

JwksFetchReply(g) == \E s \in {epoch, Failed} : FetchReply(g, "jwFetch", "jwStore", s)
FindKeyFetchReply(g) == \E s \in {epoch, Failed} : FetchReply(g, "fkFetch", "fkStore", s)

StoreSet(s) ==
    /\ cachedJWKS' = s
    /\ age' = 0

(* The end of JWKS(): the new set is stored, or the stale one is served.    *)
JwksStore(g) ==
    /\ jpc[g] = "jwStore"
    /\ \/ /\ fetched[g] = Failed
          /\ JwksReturn(g, cachedJWKS)
          /\ UNCHANGED cacheVars
       \/ /\ fetched[g] # Failed
          /\ JwksReturn(g, fetched[g])
          /\ StoreSet(fetched[g])
    /\ Unlock(g)
    /\ UNCHANGED <<epoch, kid>>

(* Mutant: what FetchJWKS returned is stored before the error is looked at. *)
FindKeyStore_IgnoresError(g) ==
    /\ jpc[g] = "fkStore"
    /\ \/ fetched[g] = Failed /\ Return(g, "unavailable")
       \/ /\ fetched[g] # Failed
          /\ Return(g, IF kid[g] \in Keys(fetched[g]) THEN "found" ELSE "missing")
    /\ StoreSet(fetched[g])
    /\ Unlock(g)
    /\ UNCHANGED <<epoch, kid>>

FindKeyStore(g) ==
    /\ jpc[g] = "fkStore"
    /\ \/ /\ fetched[g] = Failed
          /\ Return(g, "unavailable")
          /\ UNCHANGED cacheVars
       \/ /\ fetched[g] # Failed
          /\ Return(g, IF kid[g] \in Keys(fetched[g]) THEN "found" ELSE "missing")
          /\ StoreSet(fetched[g])
    /\ Unlock(g)
    /\ UNCHANGED <<epoch, kid>>

JwksCall(g) == CallFindKey(g) \/ CallJWKS(g)

JwksProgress(g) ==
    \/ FindKeyRLock(g) \/ FindKeyRead(g) \/ FindKeyLock(g) \/ FindKeyCheck(g)
    \/ FindKeyFetchReply(g) \/ FindKeyStore(g)
    \/ JwksRLock(g) \/ JwksRead(g) \/ JwksLock(g) \/ JwksCheck(g)
    \/ JwksFetchReply(g) \/ JwksStore(g)

JwksEnvironment == (Rotate \/ JwksTick) /\ UNCHANGED lockVars

JwksStep(g) == JwksCall(g) \/ JwksProgress(g)

JwksAllVars == <<jwksVars, lockVars>>

JwksNext == JwksEnvironment \/ \E g \in Goroutine : JwksStep(g)

JwksStart == JwksInit /\ LockInit

JwksSpec == JwksStart /\ [][JwksNext]_JwksAllVars

(* The Go scheduler runs every goroutine that can run, and the HTTP client's *)
(* timeout ends every fetch.  A goroutine waiting in Lock is not passed over *)
(* for ever: sync.Mutex hands the lock over to a waiter that starves.        *)
JwksFairness ==
    \A g \in Goroutine :
        /\ WF_JwksAllVars(JwksProgress(g))
        /\ SF_JwksAllVars(JwksLock(g) \/ FindKeyLock(g))

JwksFairSpec == JwksSpec /\ JwksFairness

(* Time passes, and Clerk is not down for ever: of the fetches a goroutine   *)
(* keeps making some succeed.                                                *)
FetchOk(g) ==
    \/ FetchReply(g, "jwFetch", "jwStore", epoch)
    \/ FetchReply(g, "fkFetch", "fkStore", epoch)

JwksRecovery ==
    /\ WF_JwksAllVars(JwksTick /\ UNCHANGED lockVars)
    /\ \A g \in Goroutine : SF_JwksAllVars(FetchOk(g))

-----------------------------------------------------------------------------
(* Every variable has its type. *)
JwksTypeOK ==
    /\ LockTypeOK
    /\ epoch \in Epoch
    /\ cachedJWKS \in Epoch \cup {NoSet}
    /\ age \in 0..JwksTTL
    /\ jpc \in [Goroutine -> JLabel]
    /\ kid \in [Goroutine -> Kid \cup {NoKid}]
    /\ fetched \in [Goroutine -> Epoch \cup {NoSet, Failed}]
    /\ ans \in [Goroutine -> Answer]

(* Lines 291-305 and 333-346: while a goroutine fetches a key set and stores *)
(* it, it holds the write lock and nobody reads the cache.                   *)
WriterIsAlone ==
    \A g \in Goroutine :
        jpc[g] \in {"jwFetch", "jwStore", "fkFetch", "fkStore"} => HoldsLock(g)

(* Lines 293 and 334: a fetch is needed for as long as it is in flight.  No  *)
(* other goroutine has made JWKS()'s fetch superfluous by filling the cache, *)
(* and none has brought in the key findKey fetches for.                      *)
FetchIsNeeded ==
    \A g \in Goroutine :
        /\ jpc[g] \in {"jwFetch", "jwStore"} => ~CacheFresh
        /\ jpc[g] \in {"fkFetch", "fkStore"} => kid[g] \notin Keys(cachedJWKS)

(* Lines 304 and 343: the cache only moves forward along Clerk's rotations.  *)
(* The answer of a slow fetch never overwrites the answer of a later one,    *)
(* and a key that a rotation withdrew never comes back.                      *)
CacheMovesForward ==
    [][cachedJWKS' # cachedJWKS =>
         /\ cachedJWKS' \in Epoch
         /\ cachedJWKS # NoSet => cachedJWKS' > cachedJWKS]_JwksAllVars

(* Every call of findKey and of JWKS() returns, whatever the others do:      *)
(* no goroutine waits for a lock that is not released.                       *)
EveryCallReturns ==
    \A g \in Goroutine : []<>(jpc[g] = "idle")

(* Lines 323-348: if Clerk recovers, a key that it has rotated in and keeps   *)
(* publishing is reported missing only for a while: the cache catches up.    *)
AnswersMissing(k) ==
    \E g \in Goroutine : kid[g] = k /\ ans[g] # "missing" /\ ans'[g] = "missing"

RotatedKeyIsPickedUp ==
    JwksRecovery =>
        \A k \in Kid :
            <>[](k \in Keys(epoch)) => <>[][~AnswersMissing(k)]_JwksAllVars

-----------------------------------------------------------------------------
(* What the locking and the three fetch paths amount to: one atomic lookup   *)
(* in a directory that only moves forward.                                   *)
Lookup == INSTANCE KeyLookup WITH
    Caller <- Goroutine,
    directory <- cachedJWKS,
    directoryAge <- age,
    busy <- {g \in Goroutine : jpc[g] # "idle"},
    sought <- kid,
    answer <- ans

LookupSafety == Lookup!Spec
LookupFairness == Lookup!FairSpec
=============================================================================
