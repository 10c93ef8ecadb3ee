------------------------ MODULE CliCredentials_proofs -----------------------
(***************************************************************************)
(* Proofs about CliCredentials for any number of shells and logins and for *)
(* credentials of any sizes.                                               *)
(***************************************************************************)
EXTENDS CliCredentials, TLAPS

(* Logins are numbered, and so are the files that they make. *)
CliTypeOK ==
    /\ logins \in 0..MaxLogins
    /\ size \in [Logins -> Nat]
    /\ name \in 1..logins \cup {None}
    /\ DOMAIN files = Logins
    /\ pc \in [Shells -> {"idle", "token", "writing", "loggedIn", "reading"}]
    /\ login \in [Shells -> 0..logins]
    /\ handle \in [Shells -> 1..logins \cup {None}]
    /\ at \in [Shells -> Nat]
    /\ alone \in [Shells -> BOOLEAN]
    /\ overlapped \in BOOLEAN
    /\ DOMAIN got = Shells
    /\ torn \in [Shells -> BOOLEAN]
    /\ DOMAIN used = Shells

(* What a login has written after n pieces, if nobody else wrote. *)
UpTo(l, n) == [i \in 1..n |-> [of |-> l, at |-> i]]

(* A login that has its token writes no more than its credentials. *)
LoginsUnderWay ==
    \A s \in Shells :
        /\ pc[s] \in {"token", "writing", "loggedIn"} => login[s] \in 1..logins
        /\ pc[s] \in {"writing", "loggedIn"} => at[s] <= size[login[s]]
        /\ pc[s] = "loggedIn" => at[s] = size[login[s]]
        /\ pc[s] \in {"writing", "reading"} => handle[s] \in 1..logins

(* A file that a login may still make is not there yet. *)
NewFiles ==
    \A s \in Shells :
        pc[s] = "token" =>
            /\ name # login[s]
            /\ \A t \in Shells \ {s} :
                  /\ pc[t] = "token" => login[t] # login[s]
                  /\ pc[t] = "writing" => handle[t] # login[s]

(* Of LoginTakesHold: the named file is what the login has written of it. *)
WrittenAlone ==
    \A s \in Shells :
        alone[s] /\ pc[s] \in {"writing", "loggedIn"} =>
            /\ name # None
            /\ files[name] = UpTo(login[s], at[s])
            /\ pc[s] = "writing" => handle[s] = name
            /\ \A t \in Writers : t = s

(* No two logins write the same file, and each finds there what it wrote. *)
OneWriter ==
    ~overlapped =>
        \A s \in Shells :
            pc[s] = "writing" =>
                /\ files[handle[s]] = UpTo(login[s], at[s])
                /\ \A t \in Shells \ {s} : pc[t] = "writing" => handle[t] # handle[s]

(* What a killed login leaves is the beginning of its credentials. *)
PiecesOfOneLogin ==
    ~overlapped =>
        \A f \in Logins :
            files[f] # <<>> =>
                \E l \in 1..logins, n \in Nat : n \in 1..size[l] /\ files[f] = UpTo(l, n)

(* A call has read the beginning of what there is of a login. *)
Behind(read, data) ==
    \E l \in 1..logins, n, k \in Nat :
        n \in 1..size[l] /\ k \in 1..n /\ read = UpTo(l, k) /\ data = UpTo(l, n)

ReadSoFar ==
    \A s \in Shells :
        /\ pc[s] # "reading" => got[s] = <<>>
        /\ ~overlapped /\ pc[s] = "reading" /\ ~torn[s] /\ got[s] # <<>> =>
              Behind(got[s], files[handle[s]])

CliInv ==
    /\ CliTypeOK
    /\ LoginsUnderWay
    /\ NewFiles
    /\ WrittenAlone
    /\ OneWriter
    /\ PiecesOfOneLogin
    /\ ReadSoFar
    /\ CallsUseOneLogin

-----------------------------------------------------------------------------
(* Documents and their beginnings.                                           *)

LEMMA UpToNothing == \A l : UpTo(l, 0) = <<>>
  BY DEF UpTo

LEMMA UpToAll == \A l : Document(l) = UpTo(l, size[l])
  BY DEF Document, UpTo

(* A write goes on where the last one ended. *)
LEMMA WriteContinues ==
    ASSUME CliTypeOK, NEW l \in Logins,
           NEW from \in Nat, NEW to \in from + 1..size[l]
    PROVE  Overwritten(UpTo(l, from), l, from, to) = UpTo(l, to)
  <1> size[l] \in Nat /\ to \in Nat /\ to > from
    BY DEF CliTypeOK
  <1> DEFINE u == UpTo(l, from)
  <1>1. Len(u) = from /\ DOMAIN u = 1..from
    BY DEF UpTo
  <1>2. Overwritten(u, l, from, to)
            = [i \in 1..to |-> IF i \in from + 1..to THEN Document(l)[i]
                               ELSE IF i <= from THEN u[i] ELSE Hole]
    BY <1>1 DEF Overwritten
  <1>3. ASSUME NEW i \in 1..to, i \in from + 1..to
        PROVE  Document(l)[i] = [of |-> l, at |-> i]
    BY <1>3 DEF Document
  <1>4. ASSUME NEW i \in 1..to, i \notin from + 1..to
        PROVE  i <= from /\ u[i] = [of |-> l, at |-> i]
    BY <1>4 DEF UpTo
  <1> HIDE DEF u
  <1>5. Overwritten(u, l, from, to) = [i \in 1..to |-> [of |-> l, at |-> i]]
    BY <1>2, <1>3, <1>4
  <1> QED BY <1>5 DEF u, UpTo

(* A read goes on where the last one ended. *)
LEMMA ReadContinues ==
    ASSUME NEW l, NEW k \in Nat, NEW n \in Nat, NEW to \in k + 1..n
    PROVE  UpTo(l, k) \o SubSeq(UpTo(l, n), k + 1, to) = UpTo(l, to)
  <1> to \in Nat /\ k < to /\ to <= n
    OBVIOUS
  <1> DEFINE u == UpTo(l, k)  v == UpTo(l, n)  p == SubSeq(v, k + 1, to)
             w == [i \in 1..to |-> IF i <= k THEN u[i] ELSE p[i - k]]
  <1>1. Len(u) = k /\ Len(v) = n
    BY DEF UpTo
  <1>2. p = [i \in 1..(to - k) |-> v[k + i]]
    BY <1>1
  <1>3. Len(p) = to - k
    BY <1>2
  <1>4. u \o p = [i \in 1..(Len(u) + Len(p)) |-> IF i <= Len(u) THEN u[i] ELSE p[i - Len(u)]]
    OBVIOUS
  <1>5. u \o p = w
    <2> HIDE DEF u, p
    <2>1. Len(u) + Len(p) = to
      BY <1>1, <1>3
    <2> QED BY <1>1, <1>4, <2>1
  <1>6. ASSUME NEW i \in 1..to
        PROVE  w[i] = [of |-> l, at |-> i]
    <2>1. CASE i <= k
      BY <2>1 DEF UpTo
    <2>2. CASE i > k
      <3>1. i - k \in 1..(to - k) /\ k + (i - k) = i /\ i \in 1..n
        BY <2>2
      <3>2. p[i - k] = v[i]
        BY <1>2, <3>1
      <3>3. v[i] = [of |-> l, at |-> i]
        BY <3>1 DEF UpTo
      <3> HIDE DEF p, v
      <3> QED BY <2>2, <3>2, <3>3
    <2> QED BY <2>1, <2>2
  <1> HIDE DEF u, p
  <1>7. w = [i \in 1..to |-> [of |-> l, at |-> i]]
    BY <1>6
  <1> QED BY <1>5, <1>7 DEF u, p, UpTo

(* A call goes on with nothing but the whole credentials of a login. *)
LEMMA ParsesWhole ==
    ASSUME CliTypeOK, NEW l \in 1..logins, NEW n \in 1..size[l], Parses(UpTo(l, n))
    PROVE  UpTo(l, n) = Document(l)
  <1> l \in Logins /\ size[l] \in Nat /\ n \in Nat /\ n >= 1
    BY CliAssumption DEF CliTypeOK, Logins
  <1>1. 1 \in DOMAIN UpTo(l, n) /\ UpTo(l, n)[1].of = l /\ Len(UpTo(l, n)) = n
    BY DEF UpTo
  <1>2. size[l] = n
    BY <1>1 DEF Parses
  <1> QED BY <1>2, UpToAll

-----------------------------------------------------------------------------
(* The credentials of a login do not change. *)
LEMMA DocumentStays == size' = size => \A l : Document(l)' = Document(l)
  BY DEF Document

LEMMA BehindStays ==
    logins' = logins /\ size' = size =>
        \A read, data, read2, data2 :
            read2 = read /\ data2 = data /\ Behind(read, data) => Behind(read2, data2)'
  BY DEF Behind

LEMMA CliInvInit == Init => CliInv
  <1> SUFFICES ASSUME Init
               PROVE  CliInv
    OBVIOUS
  <1> USE CliAssumption DEF Init
  <1>1. CliTypeOK
    <2>1. /\ logins \in 0..MaxLogins /\ size \in [Logins -> Nat]
          /\ name \in 1..logins \cup {None} /\ DOMAIN files = Logins
          /\ login \in [Shells -> 0..logins] /\ handle \in [Shells -> 1..logins \cup {None}]
          /\ at \in [Shells -> Nat] /\ DOMAIN used = Shells /\ DOMAIN got = Shells
      OBVIOUS
    <2>2. /\ pc \in [Shells -> {"idle", "token", "writing", "loggedIn", "reading"}]
          /\ alone \in [Shells -> BOOLEAN] /\ overlapped \in BOOLEAN
          /\ torn \in [Shells -> BOOLEAN]
      BY Zenon
    <2> QED BY <2>1, <2>2 DEF CliTypeOK
  <1>2. LoginsUnderWay /\ NewFiles /\ WrittenAlone /\ OneWriter
    BY DEF LoginsUnderWay, NewFiles, WrittenAlone, OneWriter, Logins
  <1>3. PiecesOfOneLogin /\ ReadSoFar /\ CallsUseOneLogin
    BY DEF PiecesOfOneLogin, ReadSoFar, CallsUseOneLogin
  <1> QED BY <1>1, <1>2, <1>3 DEF CliInv

LEMMA FetchTokenKeeps ==
    ASSUME CliInv, NEW s \in Shells, FetchToken(s)
    PROVE  CliInv'
  <1> USE CliAssumption DEF CliInv, CliTypeOK, FetchToken, Goto, Idle, loginVars, fileVars, readVars
  <1> PICK n \in Sizes : size' = [size EXCEPT ![logins'] = n]
    OBVIOUS
  <1>1. /\ logins' = logins + 1 /\ logins' \in Logins
        /\ \A l \in 1..logins : l \in Logins /\ size'[l] = size[l] /\ Document(l)' = Document(l)
        /\ \A t \in Shells \ {s} : login'[t] = login[t] /\ pc'[t] = pc[t]
        /\ login'[s] = logins + 1 /\ pc'[s] = "token"
    BY DEF Logins, Document
  <1>2. CliTypeOK'
    <2>1. /\ alone' \in [Shells -> BOOLEAN] /\ overlapped' \in BOOLEAN
          /\ torn' \in [Shells -> BOOLEAN]
      BY Zenon
    <2> QED BY <1>1, <2>1 DEF Logins
  <1>3. LoginsUnderWay'
    BY <1>1, <1>2 DEF LoginsUnderWay
  <1>4. NewFiles'
    BY <1>1 DEF NewFiles, LoginsUnderWay
  <1>5. WrittenAlone'
    BY <1>1 DEF WrittenAlone, Writers
  <1>6. OneWriter'
    BY <1>1 DEF OneWriter
  <1>7. PiecesOfOneLogin'
    BY <1>1 DEF PiecesOfOneLogin
  <1>8. ReadSoFar'
    <2>1. ASSUME NEW t \in Shells, Behind(got[t], files[handle[t]])
          PROVE  Behind(got[t], files[handle[t]])'
      <3>1. PICK l \in 1..logins, m \in Nat, k \in Nat :
                   /\ m \in 1..size[l] /\ k \in 1..m
                   /\ got[t] = UpTo(l, k) /\ files[handle[t]] = UpTo(l, m)
        BY <2>1 DEF Behind
      <3>2. l \in 1..logins' /\ size'[l] = size[l]
        BY <1>1
      <3> QED BY <3>1, <3>2 DEF Behind
    <2>2. \A t \in Shells : pc'[t] = "reading" => pc[t] = "reading"
      BY <1>1
    <2>3. \A t \in Shells : pc'[t] # "reading" => got[t] = <<>>
      BY <1>1 DEF ReadSoFar
    <2> QED BY <2>1, <2>2, <2>3 DEF ReadSoFar
  <1>9. CallsUseOneLogin'
    <2> SUFFICES ASSUME ~overlapped, NEW t \in Shells, used[t] # <<>>, ~torn[t]
                 PROVE  \E l \in 1..logins' : used[t] = Document(l)'
      BY DEF CallsUseOneLogin
    <2>1. PICK l \in 1..logins : used[t] = Document(l)
      BY DEF CallsUseOneLogin
    <2>2. l \in 1..logins'
      BY <1>1
    <2> QED BY <1>1, <2>1, <2>2
  <1> QED BY <1>2, <1>3, <1>4, <1>5, <1>6, <1>7, <1>8, <1>9

LEMMA OpenFileKeeps ==
    ASSUME CliInv, NEW s \in Shells, OpenFile(s)
    PROVE  CliInv'
  <1> USE CliAssumption DEF CliInv, CliTypeOK, OpenFile, Opened, Goto, loginVars
  <1>1. /\ login[s] \in 1..logins /\ login[s] \in Logins
        /\ name' = (IF name = None THEN login[s] ELSE name)
        /\ name' \in 1..logins /\ name' \in Logins /\ name' # None
        /\ files' = [files EXCEPT ![name'] = <<>>]
        /\ handle'[s] = name' /\ at'[s] = 0 /\ pc'[s] = "writing"
        /\ \A t \in Shells \ {s} : handle'[t] = handle[t] /\ at'[t] = at[t] /\ pc'[t] = pc[t]
        /\ \A t \in Shells : alone'[t] = (t = s /\ Writers = {})
        /\ files'[name'] = UpTo(login[s], 0)
        /\ \A f \in Logins : f # name' => files'[f] = files[f]
    BY UpToNothing DEF LoginsUnderWay, Logins
  <1>2. CliTypeOK'
    <2>1. /\ alone' \in [Shells -> BOOLEAN] /\ overlapped' \in BOOLEAN
          /\ torn' \in [Shells -> BOOLEAN]
      BY Zenon
    <2> QED BY <1>1, <2>1
  <1>3. LoginsUnderWay'
    BY <1>1, <1>2 DEF LoginsUnderWay
  <1>4. NewFiles'
    BY <1>1 DEF NewFiles
  (* Who else has the file open to write it had the named file open. *)
  <1>5. ASSUME NEW t \in Shells \ {s}, pc[t] = "writing", handle[t] = name'
        PROVE  t \in Writers
    BY <1>1, <1>5 DEF NewFiles, Writers
  <1>6. WrittenAlone'
    <2> SUFFICES ASSUME NEW t \in Shells, alone'[t], pc'[t] \in {"writing", "loggedIn"}
                 PROVE  /\ name' # None
                        /\ files'[name'] = UpTo(login[t], at'[t])
                        /\ pc'[t] = "writing" => handle'[t] = name'
                        /\ \A v \in Writers' : v = t
      BY DEF WrittenAlone
    <2>1. t = s /\ Writers = {}
      BY <1>1
    <2>2. \A v \in Writers' : v = s
      BY <1>1, <1>5, <2>1 DEF Writers
    <2> QED BY <1>1, <2>1, <2>2
  <1>7. OneWriter'
    <2> SUFFICES ASSUME ~overlapped', NEW t \in Shells, pc'[t] = "writing"
                 PROVE  /\ files'[handle'[t]] = UpTo(login[t], at'[t])
                        /\ \A v \in Shells \ {t} : pc'[v] = "writing" => handle'[v] # handle'[t]
      BY DEF OneWriter
    <2>1. ~overlapped /\ Writers = {}
      OBVIOUS
    <2>2. CASE t = s
      BY <1>1, <1>5, <2>1, <2>2
    <2>3. CASE t # s
      <3>1. /\ pc[t] = "writing" /\ handle'[t] = handle[t] /\ handle[t] # name'
            /\ handle[t] \in Logins
        BY <1>1, <1>5, <2>1, <2>3 DEF LoginsUnderWay, Logins
      <3>2. files[handle[t]] = UpTo(login[t], at[t])
        BY <2>1, <3>1 DEF OneWriter
      <3> QED BY <1>1, <2>1, <2>3, <3>1, <3>2 DEF OneWriter
    <2> QED BY <2>2, <2>3
  <1>8. PiecesOfOneLogin'
    BY <1>1 DEF PiecesOfOneLogin
  <1>9. ReadSoFar'
    <2> SUFFICES ASSUME NEW t \in Shells
                 PROVE  /\ pc'[t] # "reading" => got'[t] = <<>>
                        /\ ~overlapped' /\ pc'[t] = "reading" /\ ~torn'[t] /\ got'[t] # <<>> =>
                              Behind(got[t], files[handle[t]])'
      BY DEF ReadSoFar
    <2>1. pc'[t] # "reading" => got[t] = <<>>
      BY <1>1 DEF ReadSoFar
    <2>2. ASSUME ~overlapped', pc'[t] = "reading", ~torn'[t], got[t] # <<>>
          PROVE  /\ ~overlapped /\ pc[t] = "reading" /\ ~torn[t]
                 /\ handle'[t] = handle[t] /\ files'[handle[t]] = files[handle[t]]
      <3>1. t # s /\ pc[t] = "reading" /\ handle'[t] = handle[t] /\ handle[t] \in Logins
        BY <1>1, <2>2 DEF LoginsUnderWay, Logins
      <3>2. ~overlapped
        BY <2>2
      <3>3. ~torn[t] /\ handle[t] # name'
        BY <2>2, <3>1
      <3> QED BY <1>1, <3>1, <3>2, <3>3
    <2> QED BY <2>1, <2>2, BehindStays DEF ReadSoFar
  <1>10. CallsUseOneLogin'
    <2> SUFFICES ASSUME ~overlapped', NEW t \in Shells, used[t] # <<>>, ~torn'[t]
                 PROVE  \E l \in 1..logins : used[t] = Document(l)
      BY DocumentStays DEF CallsUseOneLogin
    <2>1. ~overlapped /\ ~torn[t]
      OBVIOUS
    <2> QED BY <2>1 DEF CallsUseOneLogin
  <1> QED BY <1>2, <1>3, <1>4, <1>6, <1>7, <1>8, <1>9, <1>10

LEMMA WriteKeeps ==
    ASSUME CliInv, NEW s \in Shells, Write(s)
    PROVE  CliInv'
  <1> USE CliAssumption DEF CliInv, CliTypeOK, Write, loginVars, readVars
  <1>1. PICK to \in at[s] + 1..size[login[s]] :
               /\ files' = [files EXCEPT ![handle[s]] = Overwritten(@, login[s], at[s], to)]
               /\ at' = [at EXCEPT ![s] = to]
    OBVIOUS
  <1>2. /\ login[s] \in 1..logins /\ login[s] \in Logins /\ handle[s] \in Logins
        /\ pc[s] = "writing" /\ at[s] \in Nat /\ size[login[s]] \in Nat
        /\ to \in Nat /\ to \in 1..size[login[s]] /\ at'[s] = to
        /\ files'[handle[s]] = Overwritten(files[handle[s]], login[s], at[s], to)
        /\ \A t \in Shells \ {s} : at'[t] = at[t]
        /\ \A f \in Logins : f # handle[s] => files'[f] = files[f]
    BY <1>1 DEF LoginsUnderWay, Logins
  <1>3. files[handle[s]] = UpTo(login[s], at[s]) => files'[handle[s]] = UpTo(login[s], to)
    BY <1>1, <1>2, WriteContinues
  <1>4. CliTypeOK'
    <2>1. /\ alone' \in [Shells -> BOOLEAN] /\ overlapped' \in BOOLEAN
          /\ torn' \in [Shells -> BOOLEAN]
      BY Zenon
    <2> QED BY <1>1, <1>2, <2>1
  <1>5. LoginsUnderWay'
    BY <1>2 DEF LoginsUnderWay
  <1>6. NewFiles'
    BY DEF NewFiles
  <1>7. WrittenAlone'
    <2> SUFFICES ASSUME NEW t \in Shells, alone[t], pc[t] \in {"writing", "loggedIn"}
                 PROVE  /\ name # None
                        /\ files'[name] = UpTo(login[t], at'[t])
                        /\ pc[t] = "writing" => handle[t] = name
                        /\ \A v \in Writers : v = t
      BY DEF WrittenAlone, Writers
    <2>1. /\ name # None /\ files[name] = UpTo(login[t], at[t])
          /\ pc[t] = "writing" => handle[t] = name
          /\ \A v \in Writers : v = t
      BY DEF WrittenAlone
    <2>2. CASE t = s
      BY <1>2, <1>3, <2>1, <2>2
    <2>3. CASE t # s
      BY <1>2, <2>1, <2>3 DEF Writers, Logins
    <2> QED BY <2>1, <2>2, <2>3
  <1>8. OneWriter'
    <2> SUFFICES ASSUME ~overlapped, NEW t \in Shells, pc[t] = "writing"
                 PROVE  /\ files'[handle[t]] = UpTo(login[t], at'[t])
                        /\ \A v \in Shells \ {t} : pc[v] = "writing" => handle[v] # handle[t]
      BY DEF OneWriter
    <2>1. /\ files[handle[t]] = UpTo(login[t], at[t]) /\ handle[t] \in Logins
          /\ \A v \in Shells \ {t} : pc[v] = "writing" => handle[v] # handle[t]
      BY DEF OneWriter, LoginsUnderWay, Logins
    <2> QED BY <1>2, <1>3, <2>1
  <1>9. PiecesOfOneLogin'
    <2> SUFFICES ASSUME ~overlapped, NEW f \in Logins, files'[f] # <<>>
                 PROVE  \E l \in 1..logins, n \in Nat : n \in 1..size[l] /\ files'[f] = UpTo(l, n)
      BY DEF PiecesOfOneLogin
    <2>1. CASE f = handle[s]
      BY <1>2, <1>3, <2>1 DEF OneWriter
    <2>2. CASE f # handle[s]
      <3>1. files'[f] = files[f]
        BY <1>2, <2>2
      <3> QED BY <3>1 DEF PiecesOfOneLogin
    <2> QED BY <2>1, <2>2
  <1>10. ReadSoFar'
    <2> SUFFICES ASSUME NEW t \in Shells, ~overlapped, pc[t] = "reading", ~torn[t], got[t] # <<>>
                 PROVE  Behind(got[t], files[handle[t]])'
      BY DEF ReadSoFar
    <2> Behind(got[t], files[handle[t]])
      BY DEF ReadSoFar
    <2>1. PICK l \in 1..logins, n \in Nat, k \in Nat :
                 /\ n \in 1..size[l] /\ k \in 1..n
                 /\ got[t] = UpTo(l, k) /\ files[handle[t]] = UpTo(l, n)
      BY DEF Behind
    <2>2. CASE handle[t] = handle[s]
      <3>1. UpTo(login[s], at[s]) = UpTo(l, n) /\ files'[handle[t]] = UpTo(login[s], to)
        BY <1>2, <1>3, <2>1, <2>2 DEF OneWriter
      <3>2. /\ Len(UpTo(l, n)) = n /\ Len(UpTo(login[s], at[s])) = at[s]
            /\ UpTo(l, n)[n] = [of |-> l, at |-> n]
        BY <1>2, <2>1 DEF UpTo
      <3>3. at[s] = n
        BY <3>1, <3>2
      <3>4. UpTo(login[s], at[s])[n] = [of |-> login[s], at |-> n]
        BY <2>1, <3>3 DEF UpTo
      <3>5. l = login[s]
        BY <3>1, <3>2, <3>4
      <3>6. to \in Nat /\ to \in 1..size[l] /\ k \in 1..to
        BY <1>1, <1>2, <2>1, <3>3, <3>5
      <3>7. files'[handle[t]] = UpTo(l, to)
        BY <3>1, <3>5
      <3> QED BY <2>1, <3>6, <3>7 DEF Behind
    <2>3. CASE handle[t] # handle[s]
      <3>1. handle[t] \in Logins
        BY DEF LoginsUnderWay, Logins
      <3>2. files'[handle[t]] = files[handle[t]]
        BY <1>2, <2>3, <3>1
      <3> QED BY <2>1, <3>2 DEF Behind
    <2> QED BY <2>2, <2>3
  <1>11. CallsUseOneLogin'
    BY DocumentStays DEF CallsUseOneLogin
  <1> QED BY <1>4, <1>5, <1>6, <1>7, <1>8, <1>9, <1>10, <1>11

LEMMA FinishLoginKeeps ==
    ASSUME CliInv, NEW s \in Shells, FinishLogin(s)
    PROVE  CliInv'
  <1> USE DEF CliInv, CliTypeOK, FinishLogin, Goto, loginVars, fileVars, readVars
  <1>1. /\ pc'[s] = "loggedIn" /\ pc[s] = "writing" /\ at[s] = size[login[s]]
        /\ \A t \in Shells \ {s} : pc'[t] = pc[t]
    OBVIOUS
  <1>2. CliTypeOK'
    <2>1. /\ alone' \in [Shells -> BOOLEAN] /\ overlapped' \in BOOLEAN
          /\ torn' \in [Shells -> BOOLEAN]
      BY Zenon
    <2> QED BY <2>1
  <1>3. LoginsUnderWay' /\ NewFiles'
    BY <1>1 DEF LoginsUnderWay, NewFiles
  <1>4. WrittenAlone' /\ OneWriter' /\ PiecesOfOneLogin' /\ ReadSoFar'
    <2>1. WrittenAlone' /\ OneWriter' /\ PiecesOfOneLogin'
      BY <1>1 DEF WrittenAlone, OneWriter, PiecesOfOneLogin, Writers
    <2>2. ReadSoFar'
      BY <1>1, BehindStays DEF ReadSoFar
    <2> QED BY <2>1, <2>2
  <1>5. CallsUseOneLogin'
    BY DocumentStays DEF CallsUseOneLogin
  <1> QED BY <1>2, <1>3, <1>4, <1>5

(* A command that ends early leaves the file as it is. *)
LEMMA StopKeeps ==
    ASSUME CliInv, NEW s \in Shells, Stop(s)
    PROVE  CliInv'
  <1> USE DEF CliInv, CliTypeOK, Stop, Goto, loginVars, fileVars
  <1>1. /\ pc'[s] = "idle" /\ \A t \in Shells \ {s} : pc'[t] = pc[t]
        /\ got'[s] = <<>> /\ \A t \in Shells \ {s} : got'[t] = got[t]
    OBVIOUS
  <1>2. CliTypeOK'
    <2>1. /\ alone' \in [Shells -> BOOLEAN] /\ overlapped' \in BOOLEAN
          /\ torn' \in [Shells -> BOOLEAN]
      BY Zenon
    <2> QED BY <2>1
  <1>3. LoginsUnderWay' /\ NewFiles'
    BY <1>1 DEF LoginsUnderWay, NewFiles
  <1>4. WrittenAlone' /\ OneWriter' /\ PiecesOfOneLogin' /\ ReadSoFar'
    <2>1. WrittenAlone' /\ OneWriter' /\ PiecesOfOneLogin'
      BY <1>1 DEF WrittenAlone, OneWriter, PiecesOfOneLogin, Writers
    <2>2. ReadSoFar'
      BY <1>1, BehindStays DEF ReadSoFar
    <2> QED BY <2>1, <2>2
  <1>5. CallsUseOneLogin'
    BY DocumentStays DEF CallsUseOneLogin
  <1> QED BY <1>2, <1>3, <1>4, <1>5

(* A file that has lost its name is nobody's file any more. *)
LEMMA LogoutKeeps ==
    ASSUME CliInv, NEW s \in Shells, Logout(s)
    PROVE  CliInv'
  <1> USE CliAssumption DEF CliInv, CliTypeOK, Logout, Goto, loginVars, readVars
  <1>1. /\ pc'[s] = "idle" /\ \A t \in Shells \ {s} : pc'[t] = pc[t]
        /\ \A t \in Shells : ~alone'[t]
    OBVIOUS
  <1>2. CliTypeOK'
    <2>1. /\ alone' \in [Shells -> BOOLEAN] /\ overlapped' \in BOOLEAN
          /\ torn' \in [Shells -> BOOLEAN]
      BY Zenon
    <2> QED BY <2>1
  <1>3. LoginsUnderWay'
    BY <1>1 DEF LoginsUnderWay
  <1>4. NewFiles'
    BY <1>1 DEF NewFiles, LoginsUnderWay
  <1>5. WrittenAlone' /\ OneWriter' /\ PiecesOfOneLogin' /\ ReadSoFar'
    <2>1. WrittenAlone'
      BY <1>1 DEF WrittenAlone
    <2>2. OneWriter'
      BY <1>1 DEF OneWriter
    <2>3. PiecesOfOneLogin'
      BY DEF PiecesOfOneLogin
    <2>4. ReadSoFar'
      BY <1>1, BehindStays DEF ReadSoFar, Idle
    <2> QED BY <2>1, <2>2, <2>3, <2>4
  <1>6. CallsUseOneLogin'
    BY DocumentStays DEF CallsUseOneLogin
  <1> QED BY <1>2, <1>3, <1>4, <1>5, <1>6

LEMMA FindNoFileKeeps ==
    ASSUME CliInv, NEW s \in Shells, FindNoFile(s)
    PROVE  CliInv'
  <1> USE DEF CliInv, CliTypeOK, FindNoFile, Goto, loginVars, fileVars
  <1>1. /\ pc'[s] = "idle" /\ \A t \in Shells \ {s} : pc'[t] = pc[t]
        /\ used'[s] = <<>> /\ \A t \in Shells \ {s} : used'[t] = used[t]
    OBVIOUS
  <1>2. CliTypeOK'
    <2>1. /\ alone' \in [Shells -> BOOLEAN] /\ overlapped' \in BOOLEAN
          /\ torn' \in [Shells -> BOOLEAN]
      BY Zenon
    <2> QED BY <2>1
  <1>3. LoginsUnderWay' /\ NewFiles'
    BY <1>1 DEF LoginsUnderWay, NewFiles
  <1>4. WrittenAlone' /\ OneWriter' /\ PiecesOfOneLogin' /\ ReadSoFar'
    <2>1. WrittenAlone' /\ OneWriter' /\ PiecesOfOneLogin'
      BY <1>1 DEF WrittenAlone, OneWriter, PiecesOfOneLogin, Writers
    <2>2. ReadSoFar'
      BY <1>1, BehindStays DEF ReadSoFar, Idle
    <2> QED BY <2>1, <2>2
  <1>5. CallsUseOneLogin'
    BY <1>1, DocumentStays DEF CallsUseOneLogin
  <1> QED BY <1>2, <1>3, <1>4, <1>5

LEMMA OpenToReadKeeps ==
    ASSUME CliInv, NEW s \in Shells, OpenToRead(s)
    PROVE  CliInv'
  <1> USE DEF CliInv, CliTypeOK, OpenToRead, Goto, loginVars, fileVars
  <1>1. /\ pc'[s] = "reading" /\ \A t \in Shells \ {s} : pc'[t] = pc[t]
        /\ handle'[s] = name /\ name \in 1..logins
        /\ torn' = [torn EXCEPT ![s] = FALSE]
        /\ used'[s] = <<>> /\ got[s] = <<>>
        /\ \A t \in Shells \ {s} : handle'[t] = handle[t] /\ used'[t] = used[t]
    BY DEF ReadSoFar, Idle
  <1> \A t \in Shells \ {s} : torn'[t] = torn[t]
    BY <1>1, Zenon
  <1>2. CliTypeOK'
    <2>1. /\ alone' \in [Shells -> BOOLEAN] /\ overlapped' \in BOOLEAN
          /\ torn' \in [Shells -> BOOLEAN]
      BY Zenon
    <2> QED BY <1>1, <2>1
  <1>3. LoginsUnderWay' /\ NewFiles'
    BY <1>1 DEF LoginsUnderWay, NewFiles
  <1>4. WrittenAlone' /\ OneWriter' /\ PiecesOfOneLogin' /\ ReadSoFar'
    <2>1. WrittenAlone' /\ OneWriter' /\ PiecesOfOneLogin'
      BY <1>1 DEF WrittenAlone, OneWriter, PiecesOfOneLogin, Writers
    <2>2. ReadSoFar'
      BY <1>1, BehindStays DEF ReadSoFar
    <2> QED BY <2>1, <2>2
  <1>5. CallsUseOneLogin'
    BY <1>1, DocumentStays DEF CallsUseOneLogin
  <1> QED BY <1>2, <1>3, <1>4, <1>5

LEMMA ReadKeeps ==
    ASSUME CliInv, NEW s \in Shells, Read(s)
    PROVE  CliInv'
  <1> USE CliAssumption DEF CliInv, CliTypeOK, Read, loginVars, fileVars
  <1> DEFINE data == files[handle[s]]
  <1>1. PICK to \in Len(got[s]) + 1..Len(data) :
               got' = [got EXCEPT ![s] = @ \o SubSeq(data, Len(@) + 1, to)]
    OBVIOUS
  <1>2. /\ pc[s] = "reading" /\ handle[s] \in Logins
        /\ got'[s] = got[s] \o SubSeq(data, Len(got[s]) + 1, to)
        /\ \A t \in Shells \ {s} : got'[t] = got[t]
    <2>1. pc[s] = "reading"
      OBVIOUS
    <2>2. handle[s] \in Logins
      BY <2>1 DEF LoginsUnderWay, Logins
    <2> HIDE DEF data
    <2> QED BY <1>1, <2>1, <2>2
  <1>3. CliTypeOK'
    <2>1. /\ alone' \in [Shells -> BOOLEAN] /\ overlapped' \in BOOLEAN
          /\ torn' \in [Shells -> BOOLEAN]
      BY Zenon
    <2> QED BY <1>1, <2>1
  <1>4. LoginsUnderWay' /\ NewFiles'
    BY DEF LoginsUnderWay, NewFiles
  <1>5. WrittenAlone' /\ OneWriter' /\ PiecesOfOneLogin'
    BY DEF WrittenAlone, OneWriter, PiecesOfOneLogin, Writers
  <1>6. ASSUME ~overlapped, ~torn[s]
        PROVE  Behind(got'[s], data)
    <2>1. \E l \in 1..logins, n, k \in Nat :
              n \in 1..size[l] /\ k \in 0..n /\ got[s] = UpTo(l, k) /\ data = UpTo(l, n)
      <3>1. CASE got[s] = <<>>
        <4>1. data # <<>>
          BY <1>1, <3>1
        <4>2. PICK l \in 1..logins, n \in Nat : n \in 1..size[l] /\ data = UpTo(l, n)
          BY <1>2, <1>6, <4>1 DEF PiecesOfOneLogin
        <4>3. got[s] = UpTo(l, 0) /\ 0 \in 0..n
          BY <3>1, UpToNothing
        <4> QED BY <4>2, <4>3
      <3>2. CASE got[s] # <<>>
        <4>1. PICK l \in 1..logins, n \in Nat, k \in Nat :
                     n \in 1..size[l] /\ k \in 1..n /\ got[s] = UpTo(l, k) /\ data = UpTo(l, n)
          BY <1>2, <1>6, <3>2 DEF ReadSoFar, Behind
        <4>2. k \in 0..n
          BY <4>1
        <4> QED BY <4>1, <4>2
      <3> QED BY <3>1, <3>2
    <2>2. PICK l \in 1..logins, n \in Nat, k \in Nat :
                 n \in 1..size[l] /\ k \in 0..n /\ got[s] = UpTo(l, k) /\ data = UpTo(l, n)
      BY <2>1
    <2>3. Len(UpTo(l, k)) = k /\ Len(UpTo(l, n)) = n
      BY DEF UpTo
    <2> HIDE DEF data
    <2>4. to \in k + 1..n /\ got'[s] = UpTo(l, k) \o SubSeq(UpTo(l, n), k + 1, to)
      BY <1>1, <1>2, <2>2, <2>3
    <2>5. k \in Nat /\ n \in Nat
      OBVIOUS
    <2>6. UpTo(l, k) \o SubSeq(UpTo(l, n), k + 1, to) = UpTo(l, to)
      BY <2>4, <2>5, ReadContinues
    <2>7. to \in Nat /\ to \in 1..n
      BY <2>4, <2>5
    <2>8. got'[s] = UpTo(l, to)
      BY <2>4, <2>6
    <2> QED BY <2>2, <2>7, <2>8 DEF Behind
  <1>7. ReadSoFar'
    <2>1. CASE ~overlapped /\ ~torn[s]
      BY <1>2, <1>6, <2>1, BehindStays DEF ReadSoFar
    <2>2. CASE overlapped \/ torn[s]
      BY <1>2, <2>2, BehindStays DEF ReadSoFar
    <2> QED BY <2>1, <2>2
  <1>8. CallsUseOneLogin'
    BY DocumentStays DEF CallsUseOneLogin
  <1> QED BY <1>3, <1>4, <1>5, <1>7, <1>8

LEMMA ReadCredentialsKeeps ==
    ASSUME CliInv, NEW s \in Shells, ReadCredentials(s)
    PROVE  CliInv'
  <1> USE DEF CliInv, CliTypeOK, ReadCredentials, Goto, loginVars, fileVars
  <1>1. /\ pc[s] = "reading" /\ pc'[s] = "idle"
        /\ \A t \in Shells \ {s} : pc'[t] = pc[t]
        /\ used'[s] = (IF Parses(got[s]) THEN got[s] ELSE <<>>)
        /\ got'[s] = <<>>
        /\ \A t \in Shells \ {s} : used'[t] = used[t] /\ got'[t] = got[t]
    OBVIOUS
  <1>2. CliTypeOK'
    <2>1. /\ alone' \in [Shells -> BOOLEAN] /\ overlapped' \in BOOLEAN
          /\ torn' \in [Shells -> BOOLEAN]
      BY Zenon
    <2> QED BY <2>1
  <1>3. LoginsUnderWay' /\ NewFiles'
    BY <1>1 DEF LoginsUnderWay, NewFiles
  <1>4. WrittenAlone' /\ OneWriter' /\ PiecesOfOneLogin' /\ ReadSoFar'
    <2>1. WrittenAlone'
      BY <1>1 DEF WrittenAlone, Writers
    <2>2. OneWriter' /\ PiecesOfOneLogin'
      BY <1>1 DEF OneWriter, PiecesOfOneLogin
    <2>3. ReadSoFar'
      BY <1>1, BehindStays DEF ReadSoFar
    <2> QED BY <2>1, <2>2, <2>3
  <1>5. CallsUseOneLogin'
    <2> SUFFICES ASSUME ~overlapped, NEW t \in Shells, used'[t] # <<>>, ~torn[t]
                 PROVE  \E l \in 1..logins : used'[t] = Document(l)
      BY DocumentStays DEF CallsUseOneLogin
    <2>1. CASE t # s
      BY <1>1, <2>1 DEF CallsUseOneLogin
    <2>2. CASE t = s
      <3>1. Parses(got[s]) /\ used'[t] = got[s] /\ got[s] # <<>>
        BY <1>1, <2>2
      <3>2. PICK l \in 1..logins, n \in Nat, k \in Nat :
                   n \in 1..size[l] /\ k \in 1..n /\ got[s] = UpTo(l, k)
        BY <1>1, <2>2, <3>1 DEF ReadSoFar, Behind
      <3>3. k \in 1..size[l]
        BY <3>2, CliAssumption DEF Logins
      <3>4. got[s] = Document(l)
        BY <3>1, <3>2, <3>3, ParsesWhole
      <3> QED BY <3>1, <3>4
    <2> QED BY <2>1, <2>2
  <1> QED BY <1>2, <1>3, <1>4, <1>5

LEMMA CliInvNext == CliInv /\ [Next]_vars => CliInv'
  <1> SUFFICES ASSUME CliInv, [Next]_vars
               PROVE  CliInv'
    OBVIOUS
  <1>1. ASSUME NEW s \in Shells, OpenFile(s) \/ Write(s) \/ FinishLogin(s)
        PROVE  CliInv'
    BY <1>1, OpenFileKeeps, WriteKeeps, FinishLoginKeeps
  <1>2. ASSUME NEW s \in Shells, FetchToken(s) \/ Logout(s) \/ Stop(s)
        PROVE  CliInv'
    BY <1>2, FetchTokenKeeps, LogoutKeeps, StopKeeps
  <1>3. ASSUME NEW s \in Shells, FindNoFile(s) \/ OpenToRead(s) \/ Read(s) \/ ReadCredentials(s)
        PROVE  CliInv'
    BY <1>3, FindNoFileKeeps, OpenToReadKeeps, ReadKeeps, ReadCredentialsKeeps
  <1>4. CASE UNCHANGED vars
    BY <1>4 DEF vars, loginVars, fileVars, readVars, CliInv, CliTypeOK, LoginsUnderWay, NewFiles,
                WrittenAlone, OneWriter, PiecesOfOneLogin, ReadSoFar, Behind,
                CallsUseOneLogin, Writers, Document
  <1> QED BY <1>1, <1>2, <1>3, <1>4 DEF Next

LEMMA CliInvHolds == Spec => []CliInv
  BY CliInvInit, CliInvNext, PTL DEF Spec

(* cmd.go:101-121: type correctness of the credentials file and of the       *)
(* commands that use it, for any number of shells and logins.                *)
THEOREM CliTypeCorrect == Spec => []CliTypeOK
  BY CliInvHolds, PTL DEF CliInv

(* cmd.go:58-68, :116-119: for any number of shells, logins and any sizes of *)
(* credentials, a login that has said that it is done has its credentials in *)
(* the file, as long as nobody else writes or removes it.                    *)
THEOREM LoginTakesHoldHolds == Spec => []LoginTakesHold
  <1>1. CliInv => LoginTakesHold
    <2> SUFFICES ASSUME CliInv, NEW s \in Shells, pc[s] = "loggedIn", alone[s]
                 PROVE  name # None /\ files[name] = Document(login[s])
      BY DEF LoginTakesHold
    <2>1. name # None /\ files[name] = UpTo(login[s], at[s]) /\ at[s] = size[login[s]]
      BY DEF CliInv, WrittenAlone, LoginsUnderWay
    <2> QED BY <2>1, UpToAll
  <1> QED BY <1>1, CliInvHolds, PTL

(* cmd.go:27-56: for any number of shells and logins, a call goes on with    *)
(* the whole credentials of one login, in however many reads it gets them,   *)
(* unless two logins had the file open at a time or one emptied it when the  *)
(* call had read a part of it.                                               *)
THEOREM CallsUseOneLoginHolds == Spec => []CallsUseOneLogin
  BY CliInvHolds, PTL DEF CliInv
=============================================================================
