--------------------------- MODULE CliCredentials ---------------------------
(***************************************************************************)
(* The credentials file of the command line (cmd/ileap/internal/auth).     *)
(* login writes it in place: os.WriteFile opens it, which empties it, and  *)
(* writes it from its start.  logout removes it, and the other commands    *)
(* read it: os.ReadFile opens it and reads what there is, again and again, *)
(* until there is no more.  Commands run in several shells at a time; each *)
(* may be killed between any two steps, and the disk may be full.          *)
(*                                                                         *)
(* What is written is a sequence of pieces, the last of which closes it.   *)
(***************************************************************************)
EXTENDS Integers, Sequences

CONSTANTS
    Shells,         \* where commands run, one at a time in each
    MaxLogins,      \* bound on the logins
    Sizes,          \* how many pieces the credentials of a login may have
    None            \* no file

ASSUME CliAssumption ==
    /\ MaxLogins \in Nat
    /\ Sizes \subseteq Nat \ {0}
    /\ None \notin Nat

VARIABLES
    logins,     \* the logins so far, each known by its number
    size,       \* the pieces of the credentials of each
    name,       \* the file that has the name auth.json, or None
    files,      \* the files, with a name or without, by the login that made them
    pc,         \* what the command in a shell is at
    login,      \* the last login in a shell
    handle,     \* the file that it has open
    at,         \* how many pieces it has written
    alone,      \* has nobody else written or removed the file since
    overlapped, \* have two logins had a file open at a time
    got,        \* what a call that is reading has read so far
    torn,       \* has a login emptied the file that a call had read a part of
    used        \* what the last call in a shell took for credentials

loginVars == <<logins, size, login>>
fileVars == <<name, files>>
readVars == <<got, torn, used>>
vars == <<loginVars, fileVars, pc, handle, at, alone, overlapped, readVars>>

Logins == 1..MaxLogins

(* json.MarshalIndent of the Credentials of a login. *)
Document(l) == [i \in 1..size[l] |-> [of |-> l, at |-> i]]

(* What is read where nothing was written. *)
Hole == [of |-> 0, at |-> 0]

(* json.Unmarshal takes it: every piece is where it was in its document, and *)
(* so the last one closes it.                                                *)
Parses(data) ==
    /\ data # <<>>
    /\ \A i \in DOMAIN data :
          data[i] # Hole /\ data[i].at = i /\ size[data[i].of] = Len(data)

(* The commands that have the named file open to write it. *)
Writers == {s \in Shells : pc[s] = "writing" /\ handle[s] = name}

-----------------------------------------------------------------------------
Init ==
    /\ logins = 0
    /\ size = [l \in Logins |-> 0]
    /\ name = None
    /\ files = [l \in Logins |-> <<>>]
    /\ pc = [s \in Shells |-> "idle"]
    /\ login = [s \in Shells |-> 0]
    /\ handle = [s \in Shells |-> None]
    /\ at = [s \in Shells |-> 0]
    /\ alone = [s \in Shells |-> FALSE]
    /\ overlapped = FALSE
    /\ got = [s \in Shells |-> <<>>]
    /\ torn = [s \in Shells |-> FALSE]
    /\ used = [s \in Shells |-> <<>>]

Goto(s, label) == pc' = [pc EXCEPT ![s] = label]

Idle(s) == pc[s] \in {"idle", "loggedIn"}

(* cfg.Token.  A login that is given no token ends here and changes nothing. *)
FetchToken(s) ==
    /\ Idle(s)
    /\ logins < MaxLogins
    /\ logins' = logins + 1
    /\ login' = [login EXCEPT ![s] = logins']
    /\ \E n \in Sizes : size' = [size EXCEPT ![logins'] = n]
    /\ Goto(s, "token")
    /\ UNCHANGED <<fileVars, handle, at, alone, overlapped, readVars>>

(* Mutant: a file that is there is opened as it is. *)
Opened_AsItIs(l) ==
    /\ name' = IF name = None THEN l ELSE name
    /\ UNCHANGED files

(* O_CREATE and O_TRUNC. *)
Opened(l) ==
    /\ name' = IF name = None THEN l ELSE name
    /\ files' = [files EXCEPT ![name'] = <<>>]

OpenFile(s) ==
    /\ pc[s] = "token"
    /\ Opened(login[s])
    /\ handle' = [handle EXCEPT ![s] = name']
    /\ at' = [at EXCEPT ![s] = 0]
    /\ alone' = [t \in Shells |-> t = s /\ Writers = {}]
    /\ overlapped' = (overlapped \/ Writers # {})
    /\ torn' = [t \in Shells |->
                   torn[t] \/ (pc[t] = "reading" /\ handle[t] = name' /\ got[t] # <<>>)]
    /\ Goto(s, "writing")
    /\ UNCHANGED <<loginVars, got, used>>

(* A write puts pieces where the last one ended, over what is there. *)
Overwritten(data, l, from, to) ==
    [i \in 1..(IF to > Len(data) THEN to ELSE Len(data)) |->
        IF i \in from + 1..to THEN Document(l)[i]
        ELSE IF i <= Len(data) THEN data[i] ELSE Hole]

Write(s) ==
    /\ pc[s] = "writing"
    /\ \E to \in at[s] + 1..size[login[s]] :
          /\ files' = [files EXCEPT ![handle[s]] = Overwritten(@, login[s], at[s], to)]
          /\ at' = [at EXCEPT ![s] = to]
    /\ UNCHANGED <<loginVars, name, pc, handle, alone, overlapped, readVars>>

(* All is written and the file closed: "Logged in to ...". *)
FinishLogin(s) ==
    /\ pc[s] = "writing"
    /\ at[s] = size[login[s]]
    /\ Goto(s, "loggedIn")
    /\ UNCHANGED <<loginVars, fileVars, handle, at, alone, overlapped, readVars>>

(* A write fails, which login reports, or the command is killed. *)
Stop(s) ==
    /\ ~Idle(s)
    /\ got' = [got EXCEPT ![s] = <<>>]
    /\ Goto(s, "idle")
    /\ UNCHANGED <<loginVars, fileVars, handle, at, alone, overlapped, torn, used>>

(* removeCredentials: no error if there is no file. *)
Logout(s) ==
    /\ Idle(s)
    /\ name' = None
    /\ alone' = [t \in Shells |-> FALSE]
    /\ Goto(s, "idle")
    /\ UNCHANGED <<loginVars, files, handle, at, overlapped, readVars>>

(* ReadCredentials: os.Stat, or os.ReadFile, finds no file. *)
FindNoFile(s) ==
    /\ Idle(s)
    /\ name = None
    /\ used' = [used EXCEPT ![s] = <<>>]
    /\ Goto(s, "idle")
    /\ UNCHANGED <<loginVars, fileVars, handle, at, alone, overlapped, got, torn>>

(* os.ReadFile finds one. *)
OpenToRead(s) ==
    /\ Idle(s)
    /\ name # None
    /\ handle' = [handle EXCEPT ![s] = name]
    /\ torn' = [torn EXCEPT ![s] = FALSE]
    /\ used' = [used EXCEPT ![s] = <<>>]
    /\ Goto(s, "reading")
    /\ UNCHANGED <<loginVars, fileVars, at, alone, overlapped, got>>

(* It reads on where the last read ended, as far as the file goes by now. *)
Read(s) ==
    LET data == files[handle[s]]
    IN  /\ pc[s] = "reading"
        /\ \E to \in Len(got[s]) + 1..Len(data) :
              got' = [got EXCEPT ![s] = @ \o SubSeq(data, Len(@) + 1, to)]
        /\ UNCHANGED <<loginVars, fileVars, pc, handle, at, alone, overlapped, torn, used>>

(* There is no more, and what was read is parsed: the call goes on with what *)
(* it found, or fails.                                                       *)
ReadCredentials(s) ==
    /\ pc[s] = "reading"
    /\ Len(got[s]) >= Len(files[handle[s]])
    /\ used' = [used EXCEPT ![s] = IF Parses(got[s]) THEN got[s] ELSE <<>>]
    /\ got' = [got EXCEPT ![s] = <<>>]
    /\ Goto(s, "idle")
    /\ UNCHANGED <<loginVars, fileVars, handle, at, alone, overlapped, torn>>

Next ==
    \E s \in Shells :
        \/ FetchToken(s) \/ OpenFile(s) \/ Write(s) \/ FinishLogin(s)
        \/ Logout(s)
        \/ FindNoFile(s) \/ OpenToRead(s) \/ Read(s) \/ ReadCredentials(s)
        \/ Stop(s)

Spec == Init /\ [][Next]_vars

-----------------------------------------------------------------------------
(* cmd.go:58-68, :116-119: once a login has said that it is done, the file   *)
(* has its credentials, whatever logins that were killed or failed have left *)
(* behind, as long as nobody else writes the file.                           *)
LoginTakesHold ==
    \A s \in Shells :
        pc[s] = "loggedIn" /\ alone[s] =>
            name # None /\ files[name] = Document(login[s])

(* cmd.go:27-56: what a call takes for its base URL and its token is of one  *)
(* login, and whole, whenever it looked at the file, and whatever was killed *)
(* or failed before: unless two logins had the file open at the same time,   *)
(* or one emptied it when the call had read a part of it.                    *)
CallsUseOneLogin ==
    ~overlapped =>
        \A s \in Shells :
            used[s] # <<>> /\ ~torn[s] => \E l \in 1..logins : used[s] = Document(l)
=============================================================================
