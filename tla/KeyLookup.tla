----------------------------- MODULE KeyLookup -----------------------------
(***************************************************************************)
(* What the users of the Clerk key cache may rely on, without its locks,   *)
(* its double checks and its fetches: ValidateToken's findKey and the      *)
(* /jwks endpoint's JWKS() are single atomic steps on a directory, the     *)
(* key set the handler currently believes in.                              *)
(*   - The directory follows Clerk's rotations and never goes backwards.   *)
(*   - A key is found exactly if the directory has it, of whatever age.    *)
(*   - A key is missing only from a directory that is fresh: younger than  *)
(*     the TTL, or fetched by this very call.                              *)
(*   - A call that cannot fetch says so, and only about an absent key.     *)
(***************************************************************************)
EXTENDS Naturals

CONSTANTS Caller, Kid, MaxEpoch, Published, JwksTTL, NoKid, NoSet

VARIABLES
    epoch,          \* the epoch Clerk is in
    directory,      \* the epoch whose key set the handler believes in
    directoryAge,   \* ticks since it was fetched, capped at the TTL
    busy,           \* the callers whose call has not returned
    sought,         \* the key each caller asked for, NoKid for the whole set
    answer          \* the answer each caller got last

vars == <<epoch, directory, directoryAge, busy, sought, answer>>

KeysOf(s) == IF s = NoSet THEN {} ELSE Published[s]
Fresh == directory # NoSet /\ directoryAge < JwksTTL

Init ==
    /\ epoch = 0
    /\ directory = NoSet
    /\ directoryAge = 0
    /\ busy = {}
    /\ sought = [c \in Caller |-> NoKid]
    /\ answer = [c \in Caller |-> "none"]

Environment ==
    /\ \/ epoch < MaxEpoch /\ epoch' = epoch + 1 /\ UNCHANGED directoryAge
       \/ directoryAge' = directoryAge + 1 /\ directoryAge < JwksTTL /\ UNCHANGED epoch
    /\ UNCHANGED <<directory, busy, sought, answer>>

Call(c) ==
    /\ c \notin busy
    /\ busy' = busy \cup {c}
    /\ \E k \in Kid \cup {NoKid} : sought' = [sought EXCEPT ![c] = k]
    /\ answer' = [answer EXCEPT ![c] = "none"]
    /\ UNCHANGED <<epoch, directory, directoryAge>>

AnswerWith(c, a) ==
    /\ c \in busy
    /\ busy' = busy \ {c}
    /\ answer' = [answer EXCEPT ![c] = a]
    /\ UNCHANGED <<epoch, sought>>

(* The call is answered from the directory as it is. *)
Look(c) ==
    /\ \/ sought[c] = NoKid /\ AnswerWith(c, "served")
       \/ sought[c] \in KeysOf(directory) /\ AnswerWith(c, "found")
       \/ sought[c] \in Kid \ KeysOf(directory) /\ Fresh /\ AnswerWith(c, "missing")
       \/ sought[c] \in Kid \ KeysOf(directory) /\ AnswerWith(c, "unavailable")
    /\ UNCHANGED <<directory, directoryAge>>

(* The call brings in a set that is at least as new, and may end with it. *)
Refresh(c) ==
    /\ c \in busy
    /\ directory' \in 0..epoch
    /\ directory # NoSet => directory' >= directory
    /\ directoryAge' = 0
    /\ \/ sought[c] = NoKid /\ AnswerWith(c, "served")
       \/ sought[c] \in KeysOf(directory') /\ AnswerWith(c, "found")
       \/ sought[c] \in Kid \ KeysOf(directory') /\ AnswerWith(c, "missing")
       \/ sought[c] \in Kid \ KeysOf(directory') /\ UNCHANGED <<epoch, busy, sought, answer>>

Next == Environment \/ \E c \in Caller : Call(c) \/ Look(c) \/ Refresh(c)

Spec == Init /\ [][Next]_vars

(* Every call is answered. *)
FairSpec == Spec /\ \A c \in Caller : WF_vars(Look(c) \/ Refresh(c))
=============================================================================
