-------------------------- MODULE JwksCache_proofs --------------------------
(***************************************************************************)
(* Proofs about JwksCache for any number of goroutines, keys, rotations    *)
(* and any TTL.                                                            *)
(***************************************************************************)
EXTENDS JwksCache, TLAPS

(* The lock's owner, from the moment it is announced. *)
OwnsLock == \A g \in Goroutine :
    jpc[g] \in {"jwCheck", "fkCheck", "jwFetch", "fkFetch", "jwStore", "fkStore"}
        => writer = g

(* Only JWKS() is ever called without a key. *)
SeeksKey == \A g \in Goroutine :
    jpc[g] \in {"fkRLock", "fkRead", "fkLock", "fkCheck", "fkFetch", "fkStore"}
        => kid[g] \in Kid

(* What has been fetched or cached has been published. *)
FetchedIsPublished ==
    /\ cachedJWKS # NoSet => cachedJWKS <= epoch
    /\ \A g \in Goroutine : jpc[g] \in {"jwStore", "fkStore"} =>
          /\ fetched[g] \in Epoch \cup {Failed}
          /\ fetched[g] # Failed => fetched[g] <= epoch

(* A set that waits to be stored is not older than the one it replaces. *)
FetchedIsNewer == \A g \in Goroutine :
    /\ jpc[g] \in {"jwStore", "fkStore"}
    /\ fetched[g] # Failed
    /\ cachedJWKS # NoSet
    => fetched[g] >= cachedJWKS

LockInv == JwksTypeOK /\ OwnsLock /\ WriterIsAlone

JwksInv ==
    /\ LockInv
    /\ SeeksKey
    /\ FetchIsNeeded
    /\ FetchedIsPublished
    /\ FetchedIsNewer

-----------------------------------------------------------------------------
LEMMA LockInvStep ==
    ASSUME LockInv, NEW g \in Goroutine, JwksStep(g)
    PROVE  LockInv'
  <1> USE JwksAssumption, LockAssumption
      DEF LockInv, JwksTypeOK, LockTypeOK, OwnsLock, WriterIsAlone, HoldsLock,
          JLabel, Answer, Goto, cacheVars, lockVars
  <1>1. CASE CallFindKey(g)
    BY <1>1 DEF CallFindKey, StartCall
  <1>2. CASE CallJWKS(g)
    BY <1>2 DEF CallJWKS, StartCall
  <1>3. CASE FindKeyRLock(g)
    BY <1>3 DEF FindKeyRLock, Move, RLock
  <1>4. CASE FindKeyRead(g)
    BY <1>4 DEF FindKeyRead, RUnlock, Return, Keys, CacheFresh
  <1>5. CASE FindKeyLock(g)
    BY <1>5 DEF FindKeyLock, Move, Lock
  <1>6. CASE FindKeyCheck(g)
    BY <1>6 DEF FindKeyCheck, Unlock, Return, Keys
  <1>7. CASE FindKeyFetchReply(g)
    BY <1>7 DEF FindKeyFetchReply, FetchReply
  <1>8. CASE FindKeyStore(g)
    BY <1>8 DEF FindKeyStore, Unlock, Return, StoreSet, Keys
  <1>9. CASE JwksRLock(g)
    BY <1>9 DEF JwksRLock, Move, RLock
  <1>10. CASE JwksRead(g)
    BY <1>10 DEF JwksRead, RUnlock, JwksReturn, Return, Keys, CacheFresh
  <1>11. CASE JwksLock(g)
    BY <1>11 DEF JwksLock, Move, Lock
  <1>12. CASE JwksCheck(g)
    BY <1>12 DEF JwksCheck, Unlock, JwksReturn, Return, Keys, CacheFresh
  <1>13. CASE JwksFetchReply(g)
    BY <1>13 DEF JwksFetchReply, FetchReply
  <1>14. CASE JwksStore(g)
    <2>1. CASE fetched[g] = Failed
      BY <1>14, <2>1 DEF JwksStore, Unlock, JwksReturn, Return
    <2>2. CASE fetched[g] # Failed
      <3>1. /\ cachedJWKS' \in Epoch \cup {NoSet}
            /\ age' \in 0..JwksTTL
        BY <1>14, <2>2 DEF JwksStore, StoreSet, Epoch
      <3>2. QED
        BY <1>14, <3>1, <2>2 DEF JwksStore, Unlock, JwksReturn, Return
    <2>3. QED BY <2>1, <2>2
  <1> QED BY <1>1, <1>2, <1>3, <1>4, <1>5, <1>6, <1>7, <1>8, <1>9, <1>10, <1>11, <1>12,
             <1>13, <1>14 DEF JwksStep, JwksCall, JwksProgress

LEMMA SeeksKeyStep ==
    ASSUME LockInv, SeeksKey, NEW g \in Goroutine, JwksStep(g)
    PROVE  SeeksKey'
  <1> USE JwksAssumption, LockAssumption DEF LockInv, JwksTypeOK, LockTypeOK, Goto, cacheVars
  <1>1. CASE CallFindKey(g)
    BY <1>1 DEF SeeksKey, CallFindKey, StartCall
  <1>2. CASE CallJWKS(g)
    BY <1>2 DEF SeeksKey, CallJWKS, StartCall
  <1>3. CASE FindKeyRLock(g)
    BY <1>3 DEF SeeksKey, FindKeyRLock, Move, RLock
  <1>4. CASE FindKeyRead(g)
    BY <1>4 DEF SeeksKey, FindKeyRead, RUnlock, Return, Keys, CacheFresh
  <1>5. CASE FindKeyLock(g)
    BY <1>5 DEF SeeksKey, FindKeyLock, Move, Lock
  <1>6. CASE FindKeyCheck(g)
    BY <1>6 DEF SeeksKey, FindKeyCheck, HoldsLock, Unlock, Return, Keys
  <1>7. CASE FindKeyFetchReply(g)
    BY <1>7 DEF SeeksKey, FindKeyFetchReply, FetchReply
  <1>8. CASE FindKeyStore(g)
    BY <1>8 DEF SeeksKey, FindKeyStore, HoldsLock, Unlock, Return, StoreSet, Keys
  <1>9. CASE JwksRLock(g)
    BY <1>9 DEF SeeksKey, JwksRLock, Move, RLock
  <1>10. CASE JwksRead(g)
    BY <1>10 DEF SeeksKey, JwksRead, RUnlock, JwksReturn, Return, Keys, CacheFresh
  <1>11. CASE JwksLock(g)
    BY <1>11 DEF SeeksKey, JwksLock, Move, Lock
  <1>12. CASE JwksCheck(g)
    BY <1>12 DEF SeeksKey, JwksCheck, HoldsLock, Unlock, JwksReturn, Return, Keys, CacheFresh
  <1>13. CASE JwksFetchReply(g)
    BY <1>13 DEF SeeksKey, JwksFetchReply, FetchReply
  <1>14. CASE JwksStore(g)
    BY <1>14 DEF SeeksKey, JwksStore, HoldsLock, Unlock, JwksReturn, Return, StoreSet, Keys
  <1> QED BY <1>1, <1>2, <1>3, <1>4, <1>5, <1>6, <1>7, <1>8, <1>9, <1>10, <1>11, <1>12,
             <1>13, <1>14 DEF JwksStep, JwksCall, JwksProgress

LEMMA FetchIsNeededStep ==
    ASSUME LockInv, FetchIsNeeded, NEW g \in Goroutine, JwksStep(g)
    PROVE  FetchIsNeeded'
  <1> USE JwksAssumption, LockAssumption DEF LockInv, JwksTypeOK, LockTypeOK, Goto, cacheVars
  <1>1. CASE CallFindKey(g)
    BY <1>1 DEF FetchIsNeeded, CacheFresh, Keys, WriterIsAlone, HoldsLock, CallFindKey,
       StartCall
  <1>2. CASE CallJWKS(g)
    BY <1>2 DEF FetchIsNeeded, CacheFresh, Keys, WriterIsAlone, HoldsLock, CallJWKS, StartCall
  <1>3. CASE FindKeyRLock(g)
    BY <1>3 DEF FetchIsNeeded, CacheFresh, Keys, WriterIsAlone, HoldsLock, FindKeyRLock,
       Move, RLock
  <1>4. CASE FindKeyRead(g)
    BY <1>4 DEF FetchIsNeeded, CacheFresh, Keys, WriterIsAlone, HoldsLock, FindKeyRead,
       RUnlock, Return
  <1>5. CASE FindKeyLock(g)
    BY <1>5 DEF FetchIsNeeded, CacheFresh, Keys, WriterIsAlone, HoldsLock, FindKeyLock,
       Move, Lock
  <1>6. CASE FindKeyCheck(g)
    BY <1>6 DEF FetchIsNeeded, CacheFresh, Keys, WriterIsAlone, HoldsLock, FindKeyCheck,
       Unlock, Return
  <1>7. CASE FindKeyFetchReply(g)
    BY <1>7 DEF FetchIsNeeded, CacheFresh, Keys, WriterIsAlone, HoldsLock,
       FindKeyFetchReply, FetchReply
  <1>8. CASE FindKeyStore(g)
    BY <1>8 DEF FetchIsNeeded, CacheFresh, Keys, WriterIsAlone, HoldsLock, FindKeyStore,
       Unlock, Return, StoreSet
  <1>9. CASE JwksRLock(g)
    BY <1>9 DEF FetchIsNeeded, CacheFresh, Keys, WriterIsAlone, HoldsLock, JwksRLock, Move,
       RLock
  <1>10. CASE JwksRead(g)
    BY <1>10 DEF FetchIsNeeded, CacheFresh, Keys, WriterIsAlone, HoldsLock, JwksRead,
       RUnlock, JwksReturn, Return
  <1>11. CASE JwksLock(g)
    BY <1>11 DEF FetchIsNeeded, CacheFresh, Keys, WriterIsAlone, HoldsLock, JwksLock, Move,
       Lock
  <1>12. CASE JwksCheck(g)
    BY <1>12 DEF FetchIsNeeded, CacheFresh, Keys, WriterIsAlone, HoldsLock, JwksCheck,
       Unlock, JwksReturn, Return
  <1>13. CASE JwksFetchReply(g)
    BY <1>13 DEF FetchIsNeeded, CacheFresh, Keys, WriterIsAlone, HoldsLock, JwksFetchReply,
       FetchReply
  <1>14. CASE JwksStore(g)
    BY <1>14 DEF FetchIsNeeded, CacheFresh, Keys, WriterIsAlone, HoldsLock, JwksStore,
       Unlock, JwksReturn, Return, StoreSet
  <1> QED BY <1>1, <1>2, <1>3, <1>4, <1>5, <1>6, <1>7, <1>8, <1>9, <1>10, <1>11, <1>12,
             <1>13, <1>14 DEF JwksStep, JwksCall, JwksProgress

LEMMA FetchedIsPublishedStep ==
    ASSUME LockInv, FetchedIsPublished, NEW g \in Goroutine, JwksStep(g)
    PROVE  FetchedIsPublished'
  <1> USE JwksAssumption, LockAssumption DEF LockInv, JwksTypeOK, LockTypeOK, Goto, cacheVars
  <1>1. CASE CallFindKey(g)
    BY <1>1 DEF FetchedIsPublished, Epoch, CallFindKey, StartCall
  <1>2. CASE CallJWKS(g)
    BY <1>2 DEF FetchedIsPublished, Epoch, CallJWKS, StartCall
  <1>3. CASE FindKeyRLock(g)
    BY <1>3 DEF FetchedIsPublished, Epoch, FindKeyRLock, Move, RLock
  <1>4. CASE FindKeyRead(g)
    BY <1>4 DEF FetchedIsPublished, Epoch, FindKeyRead, RUnlock, Return, Keys, CacheFresh
  <1>5. CASE FindKeyLock(g)
    BY <1>5 DEF FetchedIsPublished, Epoch, FindKeyLock, Move, Lock
  <1>6. CASE FindKeyCheck(g)
    BY <1>6 DEF FetchedIsPublished, Epoch, FindKeyCheck, HoldsLock, Unlock, Return, Keys
  <1>7. CASE FindKeyFetchReply(g)
    BY <1>7 DEF FetchedIsPublished, Epoch, FindKeyFetchReply, FetchReply
  <1>8. CASE FindKeyStore(g)
    BY <1>8 DEF FetchedIsPublished, Epoch, FindKeyStore, HoldsLock, Unlock, Return,
       StoreSet, Keys
  <1>9. CASE JwksRLock(g)
    BY <1>9 DEF FetchedIsPublished, Epoch, JwksRLock, Move, RLock
  <1>10. CASE JwksRead(g)
    BY <1>10 DEF FetchedIsPublished, Epoch, JwksRead, RUnlock, JwksReturn, Return, Keys,
       CacheFresh
  <1>11. CASE JwksLock(g)
    BY <1>11 DEF FetchedIsPublished, Epoch, JwksLock, Move, Lock
  <1>12. CASE JwksCheck(g)
    BY <1>12 DEF FetchedIsPublished, Epoch, JwksCheck, HoldsLock, Unlock, JwksReturn,
       Return, Keys, CacheFresh
  <1>13. CASE JwksFetchReply(g)
    BY <1>13 DEF FetchedIsPublished, Epoch, JwksFetchReply, FetchReply
  <1>14. CASE JwksStore(g)
    BY <1>14 DEF FetchedIsPublished, Epoch, JwksStore, HoldsLock, Unlock, JwksReturn,
       Return, StoreSet, Keys
  <1> QED BY <1>1, <1>2, <1>3, <1>4, <1>5, <1>6, <1>7, <1>8, <1>9, <1>10, <1>11, <1>12,
             <1>13, <1>14 DEF JwksStep, JwksCall, JwksProgress

LEMMA FetchedIsNewerStep ==
    ASSUME LockInv, FetchedIsNewer, FetchedIsPublished, NEW g \in Goroutine, JwksStep(g)
    PROVE  FetchedIsNewer'
  <1> USE JwksAssumption, LockAssumption DEF LockInv, JwksTypeOK, LockTypeOK, Goto, cacheVars
  <1>1. CASE CallFindKey(g)
    BY <1>1 DEF FetchedIsNewer, FetchedIsPublished, WriterIsAlone, HoldsLock, Epoch,
       CallFindKey, StartCall
  <1>2. CASE CallJWKS(g)
    BY <1>2 DEF FetchedIsNewer, FetchedIsPublished, WriterIsAlone, HoldsLock, Epoch,
       CallJWKS, StartCall
  <1>3. CASE FindKeyRLock(g)
    BY <1>3 DEF FetchedIsNewer, FetchedIsPublished, WriterIsAlone, HoldsLock, Epoch,
       FindKeyRLock, Move, RLock
  <1>4. CASE FindKeyRead(g)
    BY <1>4 DEF FetchedIsNewer, FetchedIsPublished, WriterIsAlone, HoldsLock, Epoch,
       FindKeyRead, RUnlock, Return, Keys, CacheFresh
  <1>5. CASE FindKeyLock(g)
    BY <1>5 DEF FetchedIsNewer, FetchedIsPublished, WriterIsAlone, HoldsLock, Epoch,
       FindKeyLock, Move, Lock
  <1>6. CASE FindKeyCheck(g)
    BY <1>6 DEF FetchedIsNewer, FetchedIsPublished, WriterIsAlone, HoldsLock, Epoch,
       FindKeyCheck, Unlock, Return, Keys
  <1>7. CASE FindKeyFetchReply(g)
    BY <1>7 DEF FetchedIsNewer, FetchedIsPublished, WriterIsAlone, HoldsLock, Epoch,
       FindKeyFetchReply, FetchReply
  <1>8. CASE FindKeyStore(g)
    BY <1>8 DEF FetchedIsNewer, FetchedIsPublished, WriterIsAlone, HoldsLock, Epoch,
       FindKeyStore, Unlock, Return, StoreSet, Keys
  <1>9. CASE JwksRLock(g)
    BY <1>9 DEF FetchedIsNewer, FetchedIsPublished, WriterIsAlone, HoldsLock, Epoch,
       JwksRLock, Move, RLock
  <1>10. CASE JwksRead(g)
    BY <1>10 DEF FetchedIsNewer, FetchedIsPublished, WriterIsAlone, HoldsLock, Epoch,
       JwksRead, RUnlock, JwksReturn, Return, Keys, CacheFresh
  <1>11. CASE JwksLock(g)
    BY <1>11 DEF FetchedIsNewer, FetchedIsPublished, WriterIsAlone, HoldsLock, Epoch,
       JwksLock, Move, Lock
  <1>12. CASE JwksCheck(g)
    BY <1>12 DEF FetchedIsNewer, FetchedIsPublished, WriterIsAlone, HoldsLock, Epoch,
       JwksCheck, Unlock, JwksReturn, Return, Keys, CacheFresh
  <1>13. CASE JwksFetchReply(g)
    BY <1>13 DEF FetchedIsNewer, FetchedIsPublished, WriterIsAlone, HoldsLock, Epoch,
       JwksFetchReply, FetchReply
  <1>14. CASE JwksStore(g)
    BY <1>14 DEF FetchedIsNewer, FetchedIsPublished, WriterIsAlone, HoldsLock, Epoch,
       JwksStore, Unlock, JwksReturn, Return, StoreSet, Keys
  <1> QED BY <1>1, <1>2, <1>3, <1>4, <1>5, <1>6, <1>7, <1>8, <1>9, <1>10, <1>11, <1>12,
             <1>13, <1>14 DEF JwksStep, JwksCall, JwksProgress

LEMMA JwksInvEnvironment ==
    ASSUME JwksInv, JwksEnvironment
    PROVE  JwksInv'
  <1> USE JwksAssumption, LockAssumption DEF JwksInv, LockInv
  <1>1. CASE Rotate /\ UNCHANGED lockVars
    BY <1>1 DEF Rotate, lockVars, JwksTypeOK, LockTypeOK, OwnsLock, WriterIsAlone, HoldsLock,
       SeeksKey, FetchIsNeeded, CacheFresh, Keys, FetchedIsPublished, FetchedIsNewer, Epoch
  <1>2. CASE JwksTick /\ UNCHANGED lockVars
    BY <1>2 DEF JwksTick, AgeCache, lockVars, JwksTypeOK, LockTypeOK, OwnsLock, WriterIsAlone,
       HoldsLock, SeeksKey, FetchIsNeeded, CacheFresh, Keys, FetchedIsPublished, FetchedIsNewer
  <1> QED BY <1>1, <1>2 DEF JwksEnvironment

LEMMA JwksInvInit == JwksInit /\ LockInit => JwksInv
  BY JwksAssumption, LockAssumption DEF JwksInit, LockInit, JwksInv, LockInv, JwksTypeOK,
     LockTypeOK, OwnsLock, WriterIsAlone, SeeksKey, FetchIsNeeded, FetchedIsPublished,
     FetchedIsNewer, Epoch, JLabel, Answer

LEMMA JwksInvStutter ==
    ASSUME JwksInv, UNCHANGED JwksAllVars
    PROVE  JwksInv'
  BY DEF JwksAllVars, jwksVars, lockVars, JwksInv, LockInv, JwksTypeOK, LockTypeOK, OwnsLock,
     WriterIsAlone, HoldsLock, SeeksKey, FetchIsNeeded, CacheFresh, Keys, FetchedIsPublished,
     FetchedIsNewer

LEMMA JwksInvNext == JwksInv /\ [JwksNext]_JwksAllVars => JwksInv'
  <1> SUFFICES ASSUME JwksInv, [JwksNext]_JwksAllVars
               PROVE  JwksInv'
    OBVIOUS
  <1>1. ASSUME NEW g \in Goroutine, JwksStep(g)
        PROVE  JwksInv'
    BY <1>1, LockInvStep, SeeksKeyStep, FetchIsNeededStep, FetchedIsPublishedStep,
       FetchedIsNewerStep DEF JwksInv
  <1>2. CASE JwksEnvironment
    BY <1>2, JwksInvEnvironment
  <1>3. CASE UNCHANGED JwksAllVars
    BY <1>3, JwksInvStutter
  <1> QED BY <1>1, <1>2, <1>3 DEF JwksNext

THEOREM JwksInvariant == JwksSpec => []JwksInv
  BY JwksInvInit, JwksInvNext, PTL DEF JwksSpec, JwksStart

-----------------------------------------------------------------------------
(* Every variable keeps its type. *)
THEOREM JwksTypeCorrect == JwksSpec => []JwksTypeOK
  BY JwksInvariant, PTL DEF JwksInv, LockInv

(* auth_handler.go:291-305, 333-346: for any number of goroutines, the one   *)
(* that fetches and stores a key set holds the write lock alone.             *)
THEOREM WriterIsAloneHolds == JwksSpec => []WriterIsAlone
  BY JwksInvariant, PTL DEF JwksInv, LockInv

(* auth_handler.go:293, 334: no fetch becomes superfluous while in flight.   *)
THEOREM FetchIsNeededHolds == JwksSpec => []FetchIsNeeded
  BY JwksInvariant, PTL DEF JwksInv

MovesForward ==
    cachedJWKS' # cachedJWKS =>
        /\ cachedJWKS' \in Epoch
        /\ cachedJWKS # NoSet => cachedJWKS' > cachedJWKS

LEMMA MovesForwardStep ==
    ASSUME JwksInv, NEW g \in Goroutine, JwksStep(g)
    PROVE  MovesForward
  <1> SUFFICES ASSUME cachedJWKS' # cachedJWKS
               PROVE  MovesForward
    BY DEF MovesForward
  <1>1. FindKeyStore(g) \/ JwksStore(g)
    BY DEF JwksStep, JwksCall, JwksProgress, CallFindKey, CallJWKS, StartCall, FindKeyRLock,
       FindKeyRead, FindKeyLock, FindKeyCheck, FindKeyFetchReply, JwksRLock, JwksRead, JwksLock,
       JwksCheck, JwksFetchReply, FetchReply, Move, cacheVars
  <1>2. /\ jpc[g] \in {"jwStore", "fkStore"}
        /\ fetched[g] # Failed
        /\ cachedJWKS' = fetched[g]
    BY <1>1 DEF FindKeyStore, JwksStore, StoreSet, cacheVars
  <1>3. fetched[g] \in Epoch /\ (cachedJWKS # NoSet => fetched[g] >= cachedJWKS)
    BY <1>2 DEF JwksInv, FetchedIsPublished, FetchedIsNewer
  <1> QED BY <1>2, <1>3, JwksAssumption DEF JwksInv, LockInv, JwksTypeOK, Epoch, MovesForward

(* auth_handler.go:304, 343: the cached set is only ever replaced by one     *)
(* that Clerk published later.                                               *)
THEOREM CacheMovesForwardHolds == JwksSpec => CacheMovesForward
  <1>1. JwksInv /\ [JwksNext]_JwksAllVars => [MovesForward]_JwksAllVars
    BY MovesForwardStep DEF JwksNext, JwksEnvironment, Rotate, JwksTick, MovesForward
  <1>2. [MovesForward]_JwksAllVars =>
          [cachedJWKS' # cachedJWKS =>
             /\ cachedJWKS' \in Epoch
             /\ cachedJWKS # NoSet => cachedJWKS' > cachedJWKS]_JwksAllVars
    BY DEF MovesForward
  <1> QED BY <1>1, <1>2, JwksInvariant, PTL DEF JwksSpec, CacheMovesForward

-----------------------------------------------------------------------------
(* The refinement of KeyLookup, one step of the code at a time. *)
LEMMA LookupInit == JwksInit => Lookup!Init
  BY DEF JwksInit, Lookup!Init

LEMMA LookupStep ==
    ASSUME JwksInv, NEW g \in Goroutine, JwksStep(g)
    PROVE  [Lookup!Next]_Lookup!vars
  <1> USE JwksAssumption DEF JwksInv, LockInv, JwksTypeOK, Lookup!vars
  <1> DEFINE Busy == {h \in Goroutine : jpc[h] # "idle"}
  <1>0. ASSUME NEW l \in JLabel, l # "idle", Goto(g, l), jpc[g] # "idle"
        PROVE  Busy' = Busy
    BY <1>0 DEF Goto
  <1>1. ASSUME NEW a, Return(g, a), jpc[g] # "idle"
        PROVE  Busy' = Busy \ {g} /\ ans' = [ans EXCEPT ![g] = a] /\ g \in Busy
    BY <1>1 DEF Goto, Return
  <1>2. CASE JwksCall(g)
    <2>1. PICK k \in Kid \cup {NoKid}, l \in {"fkRLock", "jwRLock"} : StartCall(g, k, l)
      BY <1>2 DEF JwksCall, CallFindKey, CallJWKS
    <2>2. g \notin Busy /\ Busy' = Busy \cup {g}
      BY <2>1 DEF StartCall, Goto
    <2>3. Lookup!Call(g)
      BY <2>1, <2>2 DEF StartCall, Lookup!Call, cacheVars
    <2> QED BY <2>3 DEF Lookup!Next
  <1>3. CASE FindKeyRLock(g)
    BY <1>3, <1>0 DEF FindKeyRLock, cacheVars, JLabel, Move
  <1>4. CASE FindKeyRead(g)
    BY <1>4, <1>0, <1>1 DEF FindKeyRead, cacheVars, JLabel, Keys, CacheFresh, Lookup!Next,
       Lookup!Look, Lookup!AnswerWith, Lookup!KeysOf, Lookup!Fresh, SeeksKey
  <1>5. CASE FindKeyLock(g)
    BY <1>5, <1>0 DEF FindKeyLock, cacheVars, JLabel, Move
  <1>6. CASE FindKeyCheck(g)
    BY <1>6, <1>0, <1>1 DEF FindKeyCheck, cacheVars, JLabel, Keys, Lookup!Next, Lookup!Look,
       Lookup!AnswerWith, Lookup!KeysOf, Lookup!Fresh, SeeksKey
  <1>7. CASE FindKeyFetchReply(g)
    BY <1>7, <1>0 DEF FindKeyFetchReply, cacheVars, JLabel, FetchReply
  <1>8. CASE FindKeyStore(g)
    <2>1. CASE fetched[g] = Failed
      BY <1>8, <2>1, <1>1 DEF FindKeyStore, cacheVars, Keys, SeeksKey, FetchIsNeeded,
         Lookup!Next, Lookup!Look, Lookup!AnswerWith, Lookup!KeysOf
    <2>2. CASE fetched[g] # Failed
      <3> DEFINE a == IF kid[g] \in Keys(fetched[g]) THEN "found" ELSE "missing"
      <3>1. /\ cachedJWKS' = fetched[g] /\ age' = 0
            /\ Return(g, a)
            /\ UNCHANGED <<epoch, kid>>
        BY <1>8, <2>2 DEF FindKeyStore, StoreSet
      <3>2. /\ cachedJWKS' \in 0..epoch
            /\ cachedJWKS # NoSet => cachedJWKS' >= cachedJWKS
            /\ kid[g] \in Kid
        BY <1>8, <2>2, <3>1 DEF FindKeyStore, FetchedIsPublished, FetchedIsNewer, SeeksKey,
           Epoch
      <3>3. cachedJWKS' # NoSet /\ Keys(fetched[g]) = Published[cachedJWKS']
        BY <3>1, <3>2 DEF Keys, Epoch
      <3>4. Busy' = Busy \ {g} /\ ans' = [ans EXCEPT ![g] = a] /\ g \in Busy
        BY <1>8, <3>1, <1>1 DEF FindKeyStore
      <3>5. Lookup!Refresh(g)
        BY <3>1, <3>2, <3>3, <3>4 DEF Lookup!Refresh, Lookup!AnswerWith, Lookup!KeysOf
      <3> QED BY <3>5 DEF Lookup!Next
    <2> QED BY <2>1, <2>2
  <1>9. CASE JwksRLock(g)
    BY <1>9, <1>0 DEF JwksRLock, cacheVars, JLabel, Move
  <1>10. CASE JwksRead(g)
    BY <1>10, <1>0, <1>1 DEF JwksRead, cacheVars, JLabel, JwksReturn, Keys, CacheFresh,
       Lookup!Next, Lookup!Look, Lookup!AnswerWith, Lookup!KeysOf, Lookup!Fresh, SeeksKey
  <1>11. CASE JwksLock(g)
    BY <1>11, <1>0 DEF JwksLock, cacheVars, JLabel, Move
  <1>12. CASE JwksCheck(g)
    BY <1>12, <1>0, <1>1 DEF JwksCheck, cacheVars, JLabel, JwksReturn, Keys, CacheFresh,
       Lookup!Next, Lookup!Look, Lookup!AnswerWith, Lookup!KeysOf, Lookup!Fresh, SeeksKey
  <1>13. CASE JwksFetchReply(g)
    BY <1>13, <1>0 DEF JwksFetchReply, cacheVars, JLabel, FetchReply
  <1>14. CASE JwksStore(g)
    BY <1>14, <1>0, <1>1 DEF JwksStore, cacheVars, JLabel, JwksReturn, StoreSet, Keys,
       Lookup!Next, Lookup!Look, Lookup!Refresh, Lookup!AnswerWith, Lookup!KeysOf, SeeksKey,
       FetchedIsPublished, FetchedIsNewer, Epoch
  <1> QED BY <1>2, <1>3, <1>4, <1>5, <1>6, <1>7, <1>8, <1>9, <1>10, <1>11, <1>12, <1>13,
             <1>14 DEF JwksStep, JwksProgress

(* The locking, double-checking code of JWKS() and findKey() behaves as the  *)
(* atomic lookups of KeyLookup, for every instance.                          *)
THEOREM LookupSafetyHolds == JwksSpec => LookupSafety
  <1>1. JwksInv /\ [JwksNext]_JwksAllVars => [Lookup!Next]_Lookup!vars
    <2> SUFFICES ASSUME JwksInv, [JwksNext]_JwksAllVars
                 PROVE  [Lookup!Next]_Lookup!vars
      OBVIOUS
    <2>1. CASE JwksEnvironment
      BY <2>1 DEF JwksEnvironment, Rotate, JwksTick, AgeCache, Lookup!Next, Lookup!Environment,
         JwksInv, LockInv, JwksTypeOK
    <2>2. CASE UNCHANGED JwksAllVars
      BY <2>2 DEF JwksAllVars, jwksVars, Lookup!vars
    <2> QED BY <2>1, <2>2, LookupStep DEF JwksNext
  <1> QED BY <1>1, LookupInit, JwksInvariant, PTL DEF JwksSpec, JwksStart, LookupSafety,
             Lookup!Spec
=============================================================================
