------------------------- MODULE ODataFilter_proofs -------------------------
(***************************************************************************)
(* Proofs about ParseFilter, for texts, paths and values of any length.    *)
(***************************************************************************)
EXTENDS ODataFilter, TLAPS, SequenceTheorems, FiniteSetTheorems, WellFoundedInduction

-----------------------------------------------------------------------------
(* Induction and recursion.  The theorems of the library take the predicate, *)
(* or the definition, as an operator; here it is a set, or a function.       *)

LEMMA SetInduction ==
    ASSUME NEW S, 0 \in S, \A n \in Nat : n \in S => n + 1 \in S
    PROVE  Nat \subseteq S
  <1> SUFFICES ASSUME Nat \ S # {} PROVE FALSE
    OBVIOUS
  <1> DEFINE R == OpToRel(<, Nat)
  <1>1. IsWellFoundedOn(R, Nat)
    BY NatLessThanWellFounded
  <1> HIDE DEF R
  <1>2. PICK x \in Nat \ S : \A y \in Nat \ S : ~(<<y, x>> \in R)
    BY <1>1, WFMin
  <1>3. x # 0 /\ x - 1 \in Nat /\ x - 1 \notin S
    <2>1. x # 0 
      OBVIOUS
    <2>2. x - 1 \in Nat
      BY <2>1
    <2> QED BY <2>2
  <1>4. <<x-1, x>> \in R
    BY <1>3 DEF R, OpToRel
  <1> QED BY <1>2, <1>3, <1>4

(* A function is well defined if its value at x only depends on its values   *)
(* at what is smaller than x.                                                *)
DescendsBy(size, D, T, step) ==
    /\ size \in [D -> Nat]
    /\ step \in [D -> [[D -> T] -> T]]
    /\ \A x \in D, f, g \in [D -> T] :
          (\A y \in D : size[y] < size[x] => f[y] = g[y]) => step[x][f] = step[x][g]

Solves(f, D, step) == \A x \in D : f[x] = step[x][f]

LEMMA RecursiveFunction ==
    ASSUME NEW D, NEW T, T # {}, NEW size, NEW step, DescendsBy(size, D, T, step)
    PROVE  \E f \in [D -> T] : Solves(f, D, step)
  <1> USE DEF DescendsBy, Solves
  <1> PICK t0 \in T : TRUE
    OBVIOUS
  <1> DEFINE Upto(f, n) == \A x \in D : size[x] < n => f[x] = step[x][f]
             N == {n \in Nat : \E f \in [D -> T] : Upto(f, n)}
             Agree(n) == \A f, g \in [D -> T] : Upto(f, n) /\ Upto(g, n) =>
                            \A x \in D : size[x] < n => f[x] = g[x]
             U == {n \in Nat : Agree(n)}
  <1>1. Nat \subseteq N
    <2>1. 0 \in N
      <3>1. [x \in D |-> t0] \in [D -> T] /\ Upto([x \in D |-> t0], 0)
        OBVIOUS
      <3> QED BY <3>1
    <2>2. ASSUME NEW n \in Nat, n \in N
          PROVE  n + 1 \in N
      <3>1. PICK f \in [D -> T] : Upto(f, n)
        BY <2>2
      <3> DEFINE g == [x \in D |-> step[x][f]]
      <3>2. g \in [D -> T]
        OBVIOUS
      <3>3. ASSUME NEW x \in D, size[x] < n + 1
            PROVE  g[x] = step[x][g]
        <4>1. \A y \in D : size[y] < size[x] => f[y] = g[y]
          BY <3>1, <3>3
        <4>2. step[x][f] = step[x][g]
          BY <3>2, <4>1
        <4> QED BY <4>2
      <3> HIDE DEF g
      <3> QED BY <3>2, <3>3
    <2> HIDE DEF N
    <2> QED BY <2>1, <2>2, SetInduction
  <1>2. Nat \subseteq U
    <2>1. 0 \in U
      OBVIOUS
    <2>2. ASSUME NEW n \in Nat, Agree(n)
          PROVE  Agree(n + 1)
      <3> SUFFICES ASSUME NEW f \in [D -> T], NEW g \in [D -> T], Upto(f, n + 1), Upto(g, n + 1),
                          NEW x \in D, size[x] < n + 1
                   PROVE  f[x] = g[x]
        OBVIOUS
      <3>1. \A y \in D : size[y] < n => y \in D /\ size[y] < n + 1
        OBVIOUS
      <3>2. Upto(f, n) /\ Upto(g, n)
        BY <3>1
      <3>3. \A y \in D : size[y] < n => f[y] = g[y]
        BY <2>2, <3>2
      <3>4. \A y \in D : size[y] < size[x] => f[y] = g[y]
        BY <3>3
      <3>5. step[x][f] = step[x][g]
        BY <3>4
      <3>6. f[x] = step[x][f] /\ g[x] = step[x][g]
        OBVIOUS
      <3> QED BY <3>5, <3>6
    <2> HIDE DEF Agree
    <2>3. \A n \in Nat : n \in U => n + 1 \in U
      BY <2>2
    <2> HIDE DEF U
    <2> QED BY <2>1, <2>3, SetInduction
  <1>3. \A n \in Nat : \E f \in [D -> T] : Upto(f, n)
    BY <1>1
  <1>4. \A n \in Nat : Agree(n)
    <2> HIDE DEF Agree
    <2> QED BY <1>2
  <1> DEFINE h == [n \in Nat |-> CHOOSE f \in [D -> T] : Upto(f, n)]
             F == [x \in D |-> h[size[x] + 1][x]]
  <1> HIDE DEF N, U
  <1>5. \A n \in Nat : h[n] \in [D -> T] /\ Upto(h[n], n)
    <2> SUFFICES ASSUME NEW n \in Nat
                 PROVE  h[n] \in [D -> T] /\ Upto(h[n], n)
      OBVIOUS
    <2>1. h[n] = CHOOSE f \in [D -> T] : Upto(f, n)
      OBVIOUS
    <2>2. \E f \in [D -> T] : Upto(f, n)
      BY <1>3
    <2> HIDE DEF h, Upto
    <2> QED BY <2>1, <2>2
  <1> HIDE DEF h
  <1>6. F \in [D -> T]
    BY <1>5
  <1>7. ASSUME NEW x \in D
        PROVE  F[x] = step[x][F]
    <2> DEFINE n == size[x] + 1
    <2>1. n \in Nat /\ h[n] \in [D -> T] /\ Upto(h[n], n)
      BY <1>5
    <2>2. h[n][x] = step[x][h[n]]
      BY <2>1
    <2>3. \A y \in D : size[y] < size[x] => h[n][y] = F[y]
      <3> SUFFICES ASSUME NEW y \in D, size[y] < size[x]
                   PROVE  h[n][y] = F[y]
        OBVIOUS
      <3>1. size[y] + 1 \in Nat /\ h[size[y] + 1] \in [D -> T] /\ Upto(h[size[y] + 1], size[y] + 1)
        BY <1>5
      <3>2. Upto(h[n], size[y] + 1)
        BY <2>1
      <3> HIDE DEF Upto
      <3>3. h[n][y] = h[size[y] + 1][y]
        <4>1. size[y] < size[y] + 1
          OBVIOUS
        <4> QED BY <3>1, <3>2, <2>1, <4>1, <1>4
      <3> QED BY <3>3
    <2>4. step[x][h[n]] = step[x][F]
      BY <2>1, <2>3, <1>6
    <2> QED BY <2>2, <2>4
  <1> QED BY <1>6, <1>7

(* The least of some natural numbers. *)
LEMMA MinOfNats ==
    ASSUME NEW S \in SUBSET Nat, S # {}
    PROVE  Min(S) \in S /\ \A n \in S : Min(S) <= n
  <1> DEFINE R == OpToRel(<, Nat)
  <1>1. IsWellFoundedOn(R, Nat)
    BY NatLessThanWellFounded
  <1> HIDE DEF R
  <1>2. PICK m \in S : \A n \in S : ~(<<n, m>> \in R)
    BY <1>1, WFMin
  <1>3. ASSUME NEW n \in S, ~(m <= n)
        PROVE  FALSE
    <2>1. <<n, m>> \in R
      BY <1>3 DEF R, OpToRel
    <2> QED BY <1>2, <2>1
  <1> QED BY <1>3 DEF Min

-----------------------------------------------------------------------------
(* Sequences.                                                                *)

LEMMA ConsProperties ==
    ASSUME NEW S, NEW x \in S, NEW s \in Seq(S)
    PROVE  /\ <<x>> \o s \in Seq(S) /\ <<x>> \o s # <<>>
           /\ Len(<<x>> \o s) = Len(s) + 1
           /\ (<<x>> \o s)[1] = x
           /\ Tail(<<x>> \o s) = s
           /\ \A i \in 1..Len(s) : (<<x>> \o s)[i + 1] = s[i]
  OBVIOUS

LEMMA HeadAndTail ==
    ASSUME NEW S, NEW s \in Seq(S), s # <<>>
    PROVE  /\ s[1] \in S /\ Tail(s) \in Seq(S)
           /\ Len(s) \in Nat /\ Len(Tail(s)) \in Nat /\ Len(Tail(s)) = Len(s) - 1
           /\ s = <<s[1]>> \o Tail(s)
  OBVIOUS

LEMMA AfterProperties ==
    ASSUME NEW S, NEW s \in Seq(S), NEW n \in 0..Len(s)
    PROVE  /\ After(s, n) \in Seq(S)
           /\ Len(After(s, n)) = Len(s) - n
           /\ \A i \in 1..Len(s) - n : After(s, n)[i] = s[n + i]
  BY DEF After

LEMMA AfterConcat ==
    ASSUME NEW S, NEW s \in Seq(S), NEW t \in Seq(S)
    PROVE  After(s \o t, Len(s)) = t /\ SubSeq(s \o t, 1, Len(s)) = s
  BY DEF After

LEMMA AfterWithinConcat ==
    ASSUME NEW S, NEW s \in Seq(S), NEW t \in Seq(S), NEW n \in 0..Len(s)
    PROVE  After(s \o t, n) = After(s, n) \o t /\ SubSeq(s \o t, 1, n) = SubSeq(s, 1, n)
  <1> DEFINE u == s \o t
             a == After(u, n)
             b == After(s, n)
             c == b \o t
  <1>1. /\ u \in Seq(S) /\ Len(u) = Len(s) + Len(t) /\ Len(s) \in Nat /\ Len(t) \in Nat
        /\ \A i \in 1..Len(s) + Len(t) : u[i] = IF i <= Len(s) THEN s[i] ELSE t[i - Len(s)]
    BY ConcatProperties
  <1>2. SubSeq(u, 1, n) = SubSeq(s, 1, n)
    OBVIOUS
  <1>3. n \in 0..Len(u)
    BY <1>1
  <1> HIDE DEF u
  <1>4. a \in Seq(S) /\ Len(a) = Len(u) - n /\ \A i \in 1..Len(u) - n : a[i] = u[n + i]
    BY <1>1, <1>3, AfterProperties
  <1>5. b \in Seq(S) /\ Len(b) = Len(s) - n /\ \A i \in 1..Len(s) - n : b[i] = s[n + i]
    BY AfterProperties
  <1> HIDE DEF a, b
  <1>6. /\ c \in Seq(S) /\ Len(c) = Len(b) + Len(t)
        /\ \A i \in 1..Len(b) + Len(t) : c[i] = IF i <= Len(b) THEN b[i] ELSE t[i - Len(b)]
    BY <1>5, ConcatProperties
  <1> HIDE DEF c
  <1>7. ASSUME NEW i \in 1..Len(a)
        PROVE  a[i] = c[i]
    <2>1. i \in Nat /\ i \in 1..Len(u) - n /\ i \in 1..Len(b) + Len(t) /\ n + i \in 1..Len(s) + Len(t)
      BY <1>1, <1>4, <1>5
    <2>2. a[i] = u[n + i] /\ u[n + i] = IF n + i <= Len(s) THEN s[n + i] ELSE t[n + i - Len(s)]
      BY <1>1, <1>4, <2>1
    <2>3. c[i] = IF i <= Len(b) THEN b[i] ELSE t[i - Len(b)]
      BY <1>6, <2>1
    <2>4. CASE n + i <= Len(s)
      <3>1. i <= Len(b) /\ i \in 1..Len(s) - n
        BY <1>1, <1>5, <2>1, <2>4
      <3>2. b[i] = s[n + i]
        BY <1>5, <3>1
      <3> QED BY <2>2, <2>3, <2>4, <3>1, <3>2
    <2>5. CASE ~(n + i <= Len(s))
      <3>1. ~(i <= Len(b)) /\ n + i - Len(s) = i - Len(b)
        BY <1>1, <1>5, <2>1, <2>5
      <3> QED BY <2>2, <2>3, <2>5, <3>1
    <2> QED BY <2>4, <2>5
  <1>8. Len(a) = Len(c)
    BY <1>1, <1>4, <1>5, <1>6
  <1>9. a = c
    BY <1>4, <1>6, <1>7, <1>8, SeqEqual
  <1> QED BY <1>2, <1>9 DEF u, a, b, c

LEMMA Concatenation ==
    ASSUME NEW S
    PROVE  /\ \A s, t, u \in Seq(S) : (s \o t) \o u = s \o (t \o u)
           /\ \A s, t \in Seq(S) : s \o t \in Seq(S) /\ Len(s \o t) = Len(s) + Len(t)
           /\ \A s \in Seq(S) : s \o <<>> = s /\ <<>> \o s = s
  OBVIOUS

LEMMA TextAssociative == \A s, t, u \in Seq(Symbols) : (s \o t) \o u = s \o (t \o u)
  BY Concatenation

LEMMA TextConcat ==
    /\ \A s, t \in Seq(Symbols) : s \o t \in Seq(Symbols) /\ Len(s \o t) = Len(s) + Len(t)
    /\ \A s \in Seq(Symbols) : s \o <<>> = s /\ <<>> \o s = s
  BY Concatenation

(* Induction over sequences: from the shorter ones, or from the tail.        *)
LEMMA ShorterFirst ==
    ASSUME NEW S, NEW P,
           \A s \in Seq(S) : (\A u \in Seq(S) : Len(u) < Len(s) => u \in P) => s \in P
    PROVE  Seq(S) \subseteq P
  <1> DEFINE N == {n \in Nat : \A s \in Seq(S) : Len(s) < n => s \in P}
  <1>1. 0 \in N
    OBVIOUS
  <1>2. ASSUME NEW n \in Nat, n \in N
        PROVE  n + 1 \in N
    <2> SUFFICES ASSUME NEW s \in Seq(S), Len(s) < n + 1
                 PROVE  s \in P
      OBVIOUS
    <2>1. \A u \in Seq(S) : Len(u) < Len(s) => u \in P
      BY <1>2
    <2> QED BY <2>1
  <1>3. Nat \subseteq N
    <2> HIDE DEF N
    <2> QED BY <1>1, <1>2, SetInduction
  <1>4. ASSUME NEW s \in Seq(S)
        PROVE  s \in P
    <2>1. Len(s) + 1 \in N
      BY <1>3
    <2> QED BY <2>1
  <1> QED BY <1>4

LEMMA TailFirst ==
    ASSUME NEW S, NEW P, <<>> \in P,
           \A x \in S, s \in Seq(S) : s \in P => <<x>> \o s \in P
    PROVE  Seq(S) \subseteq P
  <1>1. ASSUME NEW s \in Seq(S), \A u \in Seq(S) : Len(u) < Len(s) => u \in P
        PROVE  s \in P
    <2>1. CASE s = <<>>
      BY <2>1
    <2>2. CASE s # <<>>
      <3>1. Tail(s) \in Seq(S) /\ Len(Tail(s)) < Len(s) /\ s[1] \in S /\ s = <<s[1]>> \o Tail(s)
        BY <2>2, HeadAndTail
      <3> QED BY <1>1, <3>1
    <2> QED BY <2>1, <2>2
  <1> QED BY <1>1, ShorterFirst

(* Recursion over the tail of a sequence. *)
LEMMA TailRecursion ==
    ASSUME NEW S, NEW T, NEW base \in T, NEW put \in [S -> [T -> T]]
    PROVE  \E f \in [Seq(S) -> T] :
               f = [s \in Seq(S) |-> IF s = <<>> THEN base ELSE put[s[1]][f[Tail(s)]]]
  <1> DEFINE D == Seq(S)
             size == [s \in D |-> Len(s)]
             Body(f, s) == IF s = <<>> THEN base ELSE put[s[1]][f[Tail(s)]]
             step == [s \in D |-> [f \in [D -> T] |-> Body(f, s)]]
  <1>1. size \in [D -> Nat]
    OBVIOUS
  <1>2. ASSUME NEW s \in D, NEW f \in [D -> T]
        PROVE  Body(f, s) \in T
    <2>1. CASE s # <<>>
      <3>1. f[Tail(s)] \in T /\ s[1] \in S
        BY <2>1, HeadAndTail
      <3> QED BY <2>1, <3>1
    <2> QED BY <2>1
  <1>3. ASSUME NEW s \in D, NEW f, NEW g, \A u \in D : Len(u) < Len(s) => f[u] = g[u]
        PROVE  Body(f, s) = Body(g, s)
    <2>1. ASSUME s # <<>>
          PROVE  f[Tail(s)] = g[Tail(s)]
      <3>1. Tail(s) \in D /\ Len(Tail(s)) < Len(s)
        BY <2>1, HeadAndTail
      <3> QED BY <1>3, <3>1
    <2> QED BY <2>1
  <1> HIDE DEF Body
  <1>4. step \in [D -> [[D -> T] -> T]]
    BY <1>2
  <1>5. DescendsBy(size, D, T, step)
    BY <1>1, <1>3, <1>4 DEF DescendsBy
  <1>6. PICK f \in [D -> T] : \A s \in D : f[s] = step[s][f]
    <2> HIDE DEF D, size, step
    <2> QED BY <1>5, RecursiveFunction DEF Solves
  <1>7. f = [s \in D |-> Body(f, s)]
    BY <1>6
  <1> QED BY <1>7 DEF Body

-----------------------------------------------------------------------------
(* String literals. *)

Literals == [value : Seq(Symbols), rest : Seq(Symbols)]

LEMMA LiteralsAreRead == \A r \in Literals : r # Unread
  BY DEF Literals, Unread

LEMMA WithSymbolType ==
    ASSUME NEW x \in Symbols, NEW r \in Literals
    PROVE  /\ WithSymbol(x, r) \in Literals
           /\ WithSymbol(x, r).value = <<x>> \o r.value
           /\ WithSymbol(x, r).rest = r.rest
  <1>1. r # Unread
    BY LiteralsAreRead
  <1>2. r.value \in Seq(Symbols) /\ r.rest \in Seq(Symbols)
    BY DEF Literals
  <1>3. WithSymbol(x, r) = [value |-> <<x>> \o r.value, rest |-> r.rest]
    BY <1>1 DEF WithSymbol, Literals
  <1>4. <<x>> \o r.value \in Seq(Symbols)
    BY <1>2
  <1> QED BY <1>2, <1>3, <1>4 DEF Literals

LiteralBody(f, s) ==
    IF s = <<>> THEN Unread
    ELSE IF s[1] # "'" THEN WithSymbol(s[1], f[Tail(s)])
    ELSE IF Len(s) > 1 /\ s[2] = "'" THEN WithSymbol("'", f[After(s, 2)])
    ELSE [value |-> <<>>, rest |-> Tail(s)]

LEMMA QuoteIsSymbol == "'" \in Symbols /\ " " \in Symbols /\ Punctuation \subseteq Symbols /\ Words \subseteq Symbols
  BY DEF Symbols

LEMMA ReadStringLiteralDef ==
    \A s \in Seq(Symbols) : readStringLiteral[s] = LiteralBody(readStringLiteral, s)
  <1> DEFINE D == Seq(Symbols)
             T == Literals \cup {Unread}
             size == [s \in D |-> Len(s)]
             step == [s \in D |-> [f \in [D -> T] |-> LiteralBody(f, s)]]
  <1>1. size \in [D -> Nat]
    OBVIOUS
  <1>2. ASSUME NEW s \in D, NEW f \in [D -> T]
        PROVE  LiteralBody(f, s) \in T
    <2>1. CASE s = <<>>
      BY <2>1 DEF LiteralBody
    <2>2. CASE s # <<>> /\ s[1] # "'"
      <3>1. f[Tail(s)] \in T /\ s[1] \in Symbols
        BY <2>2, HeadAndTail
      <3>2. WithSymbol(s[1], f[Tail(s)]) \in T
        BY <3>1, WithSymbolType DEF WithSymbol
      <3> QED BY <2>2, <3>2 DEF LiteralBody
    <2>3. CASE s # <<>> /\ s[1] = "'" /\ Len(s) > 1 /\ s[2] = "'"
      <3>1. f[After(s, 2)] \in T
        BY <2>3, AfterProperties
      <3>2. WithSymbol("'", f[After(s, 2)]) \in T
        BY <3>1, WithSymbolType, QuoteIsSymbol DEF WithSymbol
      <3> QED BY <2>3, <3>2 DEF LiteralBody
    <2>4. CASE s # <<>> /\ s[1] = "'" /\ ~(Len(s) > 1 /\ s[2] = "'")
      BY <2>4, HeadAndTail DEF LiteralBody, Literals
    <2> QED BY <2>1, <2>2, <2>3, <2>4
  <1>3. ASSUME NEW s \in D, NEW f, NEW g, \A u \in D : Len(u) < Len(s) => f[u] = g[u]
        PROVE  LiteralBody(f, s) = LiteralBody(g, s)
    <2>1. ASSUME s # <<>>
          PROVE  f[Tail(s)] = g[Tail(s)]
      <3>1. Tail(s) \in D /\ Len(Tail(s)) < Len(s)
        BY <2>1, HeadAndTail
      <3> QED BY <1>3, <3>1
    <2>2. Len(s) > 1 => f[After(s, 2)] = g[After(s, 2)]
      BY <1>3, AfterProperties
    <2> QED BY <2>1, <2>2 DEF LiteralBody
  <1> HIDE DEF T
  <1>4. step \in [D -> [[D -> T] -> T]]
    BY <1>2
  <1>5. DescendsBy(size, D, T, step)
    BY <1>1, <1>3, <1>4 DEF DescendsBy
  <1>6. T # {}
    BY DEF T
  <1>7. PICK f \in [D -> T] : \A s \in D : f[s] = step[s][f]
    <2> HIDE DEF D, size, step
    <2> QED BY <1>5, <1>6, RecursiveFunction DEF Solves
  <1>8. f = [s \in D |-> LiteralBody(f, s)]
    BY <1>7
  <1>9. readStringLiteral = CHOOSE g : g = [s \in D |-> LiteralBody(g, s)]
    BY DEF readStringLiteral, LiteralBody
  <1>10. readStringLiteral = [s \in D |-> LiteralBody(readStringLiteral, s)]
    BY <1>8, <1>9
  <1> QED BY <1>10

LEMMA ReadStringLiteralType ==
    \A s \in Seq(Symbols) :
        \/ readStringLiteral[s] = Unread
        \/ readStringLiteral[s] \in Literals /\ Len(readStringLiteral[s].rest) < Len(s)
  <1> DEFINE Ok(s) == \/ readStringLiteral[s] = Unread
                      \/ readStringLiteral[s] \in Literals /\ Len(readStringLiteral[s].rest) < Len(s)
             P == {s \in Seq(Symbols) : Ok(s)}
  <1>1. ASSUME NEW s \in Seq(Symbols), \A u \in Seq(Symbols) : Len(u) < Len(s) => u \in P
        PROVE  Ok(s)
    <2>0. readStringLiteral[s] = LiteralBody(readStringLiteral, s)
      BY ReadStringLiteralDef
    <2>1. CASE s = <<>>
      BY <2>0, <2>1 DEF LiteralBody
    <2>2. ASSUME NEW u \in Seq(Symbols), NEW x \in Symbols, Len(u) < Len(s),
                 readStringLiteral[s] = WithSymbol(x, readStringLiteral[u])
          PROVE  Ok(s)
      <3> DEFINE r == readStringLiteral[u]
      <3>1. CASE r = Unread
        BY <2>2, <3>1 DEF WithSymbol
      <3>2. CASE r # Unread
        <4>1. r \in Literals /\ Len(r.rest) < Len(u)
          BY <1>1, <2>2, <3>2
        <4>2. WithSymbol(x, r) \in Literals /\ WithSymbol(x, r).rest = r.rest
          BY <4>1, WithSymbolType
        <4>3. r.rest \in Seq(Symbols)
          BY <4>1 DEF Literals
        <4>4. Len(r.rest) \in Nat /\ Len(u) \in Nat /\ Len(s) \in Nat
          BY <4>3
        <4> HIDE DEF r
        <4>5. Len(r.rest) < Len(s)
          BY <2>2, <4>1, <4>4
        <4> QED BY <2>2, <4>2, <4>5 DEF r
      <3> QED BY <3>1, <3>2
    <2>3. CASE s # <<>> /\ s[1] # "'"
      <3>1. s[1] \in Symbols /\ Tail(s) \in Seq(Symbols) /\ Len(Tail(s)) < Len(s)
        BY <2>3, HeadAndTail
      <3> QED BY <2>0, <2>2, <2>3, <3>1 DEF LiteralBody
    <2>4. CASE s # <<>> /\ s[1] = "'" /\ Len(s) > 1 /\ s[2] = "'"
      <3>1. After(s, 2) \in Seq(Symbols) /\ Len(After(s, 2)) < Len(s)
        BY <2>4, AfterProperties
      <3> QED BY <2>0, <2>2, <2>4, <3>1, QuoteIsSymbol DEF LiteralBody
    <2>5. CASE s # <<>> /\ s[1] = "'" /\ ~(Len(s) > 1 /\ s[2] = "'")
      <3>1. readStringLiteral[s] = [value |-> <<>>, rest |-> Tail(s)]
        BY <2>0, <2>5 DEF LiteralBody
      <3>2. Tail(s) \in Seq(Symbols) /\ Len(Tail(s)) < Len(s)
        BY <2>5, HeadAndTail
      <3> QED BY <3>1, <3>2 DEF Literals
    <2> QED BY <2>1, <2>3, <2>4, <2>5
  <1>2. Seq(Symbols) \subseteq P
    <2> HIDE DEF Ok
    <2>1. \A s \in Seq(Symbols) : (\A u \in Seq(Symbols) : Len(u) < Len(s) => u \in P) => s \in P
      BY <1>1
    <2> HIDE DEF P
    <2> QED BY <2>1, ShorterFirst
  <1> QED BY <1>2

-----------------------------------------------------------------------------
(* What a client means and how it writes it. *)

LEMMA EscapedDef ==
    \A v \in Seq(Symbols) :
        Escaped[v] = IF v = <<>> THEN <<>>
                     ELSE (IF v[1] = "'" THEN <<"'", "'">> ELSE <<v[1]>>) \o Escaped[Tail(v)]
  <1> DEFINE T == Seq(Symbols)
             put == [x \in Symbols |-> [u \in T |-> (IF x = "'" THEN <<"'", "'">> ELSE <<x>>) \o u]]
  <1>1. put \in [Symbols -> [T -> T]]
    <2>1. ASSUME NEW x \in Symbols, NEW u \in T
          PROVE  (IF x = "'" THEN <<"'", "'">> ELSE <<x>>) \o u \in T
      <3>1. "'" \in Symbols
        BY QuoteIsSymbol
      <3>2. <<"'", "'">> \in T
        BY <3>1
      <3>3. <<x>> \in T
        OBVIOUS
      <3> QED BY <3>2, <3>3
    <2> HIDE DEF T
    <2> QED BY <2>1
  <1>2. PICK f \in [Seq(Symbols) -> T] :
           f = [v \in Seq(Symbols) |-> IF v = <<>> THEN <<>> ELSE put[v[1]][f[Tail(v)]]]
    <2>1. <<>> \in T
      OBVIOUS
    <2> HIDE DEF T, put
    <2> QED BY <1>1, <2>1, TailRecursion
  <1> DEFINE Body(g, v) == IF v = <<>> THEN <<>>
                           ELSE (IF v[1] = "'" THEN <<"'", "'">> ELSE <<v[1]>>) \o g[Tail(v)]
  <1>3. ASSUME NEW v \in Seq(Symbols)
        PROVE  f[v] = Body(f, v)
    <2>1. CASE v = <<>>
      BY <1>2, <2>1
    <2>2. CASE v # <<>>
      <3>1. v[1] \in Symbols /\ f[Tail(v)] \in T
        BY <2>2, HeadAndTail
      <3>2. f[v] = put[v[1]][f[Tail(v)]]
        BY <1>2, <2>2
      <3> QED BY <2>2, <3>1, <3>2
    <2> QED BY <2>1, <2>2
  <1>4. f = [v \in Seq(Symbols) |-> Body(f, v)]
    BY <1>2, <1>3
  <1>5. Escaped = CHOOSE g : g = [v \in Seq(Symbols) |-> Body(g, v)]
    BY DEF Escaped
  <1>6. Escaped = [v \in Seq(Symbols) |-> Body(Escaped, v)]
    <2> HIDE DEF Body
    <2> QED BY <1>4, <1>5
  <1> QED BY <1>6

LEMMA EscapedParts ==
    /\ Escaped[<<>>] = <<>>
    /\ \A x \in Symbols, v \in Seq(Symbols) :
          Escaped[<<x>> \o v] = (IF x = "'" THEN <<"'", "'">> ELSE <<x>>) \o Escaped[v]
  <1>1. Escaped[<<>>] = <<>>
    <2>1. <<>> \in Seq(Symbols)
      OBVIOUS
    <2> QED BY <2>1, EscapedDef
  <1>2. ASSUME NEW x \in Symbols, NEW v \in Seq(Symbols)
        PROVE  Escaped[<<x>> \o v] = (IF x = "'" THEN <<"'", "'">> ELSE <<x>>) \o Escaped[v]
    <2>1. /\ <<x>> \o v \in Seq(Symbols) /\ <<x>> \o v # <<>>
          /\ (<<x>> \o v)[1] = x /\ Tail(<<x>> \o v) = v
      BY ConsProperties
    <2> QED BY <2>1, EscapedDef
  <1> QED BY <1>1, <1>2

LEMMA EscapedSymbol ==
    \A x \in Symbols : (IF x = "'" THEN <<"'", "'">> ELSE <<x>>) \in Seq(Symbols)
  <1>1. "'" \in Symbols
    BY QuoteIsSymbol
  <1>2. <<"'", "'">> \in Seq(Symbols)
    BY <1>1
  <1> QED BY <1>2

LEMMA EscapedType == \A v \in Seq(Symbols) : Escaped[v] \in Seq(Symbols)
  <1> DEFINE P == {v \in Seq(Symbols) : Escaped[v] \in Seq(Symbols)}
  <1>1. <<>> \in P
    <2>1. <<>> \in Seq(Symbols)
      OBVIOUS
    <2> QED BY <2>1, EscapedParts
  <1>2. ASSUME NEW x \in Symbols, NEW v \in Seq(Symbols), v \in P
        PROVE  <<x>> \o v \in P
    <2>1. <<x>> \o v \in Seq(Symbols)
      OBVIOUS
    <2> DEFINE esc == IF x = "'" THEN <<"'", "'">> ELSE <<x>>
    <2>2. esc \in Seq(Symbols) /\ Escaped[<<x>> \o v] = esc \o Escaped[v]
      BY EscapedParts, EscapedSymbol
    <2> HIDE DEF esc
    <2>3. Escaped[<<x>> \o v] \in Seq(Symbols)
      BY <1>2, <2>2
    <2> QED BY <2>1, <2>3
  <1>3. Seq(Symbols) \subseteq P
    <2> HIDE DEF P
    <2> QED BY <1>1, <1>2, TailFirst
  <1> QED BY <1>3

LEMMA SlashedDef ==
    \A path \in Seq(Seq(Symbols)) :
        Slashed[path] = IF path = <<>> THEN <<>> ELSE <<"/">> \o path[1] \o Slashed[Tail(path)]
  <1> DEFINE S == Seq(Symbols)
             T == Seq(Symbols)
             put == [x \in S |-> [u \in T |-> <<"/">> \o x \o u]]
  <1>1. put \in [S -> [T -> T]]
    <2>1. ASSUME NEW x \in S, NEW u \in T
          PROVE  <<"/">> \o x \o u \in T
      <3>1. "/" \in Symbols
        BY DEF Symbols, Punctuation
      <3>2. <<"/">> \in T
        BY <3>1
      <3> QED BY <3>2
    <2> HIDE DEF S, T
    <2> QED BY <2>1
  <1>2. PICK f \in [Seq(S) -> T] :
           f = [v \in Seq(S) |-> IF v = <<>> THEN <<>> ELSE put[v[1]][f[Tail(v)]]]
    <2>1. <<>> \in T
      OBVIOUS
    <2> HIDE DEF S, T, put
    <2> QED BY <1>1, <2>1, TailRecursion
  <1> DEFINE Body(g, v) == IF v = <<>> THEN <<>> ELSE <<"/">> \o v[1] \o g[Tail(v)]
  <1>3. ASSUME NEW v \in Seq(S)
        PROVE  f[v] = Body(f, v)
    <2>1. CASE v = <<>>
      BY <1>2, <2>1
    <2>2. CASE v # <<>>
      <3>1. v[1] \in S /\ f[Tail(v)] \in T
        <4> HIDE DEF S, T
        <4> QED BY <2>2, HeadAndTail
      <3>2. f[v] = put[v[1]][f[Tail(v)]]
        BY <1>2, <2>2
      <3> QED BY <2>2, <3>1, <3>2
    <2> QED BY <2>1, <2>2
  <1>4. f = [v \in Seq(S) |-> Body(f, v)]
    BY <1>2, <1>3
  <1>5. Slashed = CHOOSE g : g = [v \in Seq(S) |-> Body(g, v)]
    BY DEF Slashed
  <1>6. Slashed = [v \in Seq(S) |-> Body(Slashed, v)]
    <2> HIDE DEF Body
    <2> QED BY <1>4, <1>5
  <1> QED BY <1>6

-----------------------------------------------------------------------------
(* The tokens of a clause. *)

LEMMA SymbolsDiffer ==
    /\ " " \notin Words /\ " " \notin Punctuation
    /\ "'" \notin Words /\ "'" \notin Punctuation
    /\ "-" \notin Words /\ "-" \notin Punctuation
    /\ \A p \in Punctuation : p \notin Words
  BY ODataAssumption DEF Punctuation

LEMMA IdentLengthProperties ==
    ASSUME NEW s \in Seq(Symbols), s # <<>>
    PROVE  /\ IdentLength(s) \in 1..Len(s)
           /\ IdentLength(s) = Len(s) \/ s[IdentLength(s) + 1] \notin IdentPart
           /\ \A n \in 1..Len(s) : n < IdentLength(s) => s[n + 1] \in IdentPart
  <1> DEFINE S == {n \in 1..Len(s) : n = Len(s) \/ s[n + 1] \notin IdentPart}
  <1>1. Len(s) \in S
    OBVIOUS
  <1>2. S \in SUBSET Nat
    OBVIOUS
  <1>3. IdentLength(s) = Min(S)
    BY DEF IdentLength
  <1>4. Min(S) \in S /\ \A n \in S : Min(S) <= n
    <2> HIDE DEF S
    <2> QED BY <1>1, <1>2, MinOfNats
  <1>5. IdentLength(s) \in S /\ \A n \in S : IdentLength(s) <= n
    BY <1>3, <1>4
  <1> QED BY <1>5

LEMMA TokenTypes ==
    /\ \A p \in Punctuation : Token(p, <<p>>) \in Tokens
    /\ \A t \in Seq(Symbols) : Token("ident", t) \in Tokens /\ Token("string", t) \in Tokens
    /\ Invalid \in Seq(Tokens)
  <1>1. ASSUME NEW p \in Punctuation
        PROVE  Token(p, <<p>>) \in Tokens
    <2>1. <<p>> \in Seq(Symbols)
      <3>1. p \in Symbols
        BY QuoteIsSymbol
      <3> QED BY <3>1
    <2> QED BY <2>1 DEF Token, Tokens
  <1>2. ASSUME NEW t \in Seq(Symbols)
        PROVE  Token("ident", t) \in Tokens /\ Token("string", t) \in Tokens
    BY DEF Token, Tokens
  <1>3. Token("invalid", <<>>) \in Tokens
    BY DEF Token, Tokens
  <1>4. Invalid \in Seq(Tokens)
    BY <1>3 DEF Invalid
  <1> QED BY <1>1, <1>2, <1>4

LexBody(f, s) ==
    IF s = <<>> THEN <<>>
    ELSE CASE s[1] = " " -> f[Tail(s)]
           [] s[1] \in Punctuation -> <<Token(s[1], <<s[1]>>)>> \o f[Tail(s)]
           [] s[1] = "'" ->
                LET literal == readStringLiteral[Tail(s)]
                IN  IF literal = Unread THEN Invalid
                    ELSE <<Token("string", literal.value)>> \o f[literal.rest]
           [] s[1] \in Words ->
                LET n == IdentLength(s)
                IN  <<Token("ident", SubSeq(s, 1, n))>> \o f[After(s, n)]
           [] OTHER -> Invalid

(* The ways in which a clause is lexed: nothing, a space, one token, or not at all. *)
LexCases(f, s) ==
    \/ s = <<>> /\ LexBody(f, s) = <<>>
    \/ s # <<>> /\ s[1] = " " /\ LexBody(f, s) = f[Tail(s)]
    \/ /\ s # <<>> /\ s[1] \in Punctuation
       /\ LexBody(f, s) = <<Token(s[1], <<s[1]>>)>> \o f[Tail(s)]
    \/ /\ s # <<>> /\ s[1] = "'" /\ readStringLiteral[Tail(s)] # Unread
       /\ LexBody(f, s) = <<Token("string", readStringLiteral[Tail(s)].value)>>
                             \o f[readStringLiteral[Tail(s)].rest]
    \/ s # <<>> /\ s[1] = "'" /\ readStringLiteral[Tail(s)] = Unread /\ LexBody(f, s) = Invalid
    \/ /\ s # <<>> /\ s[1] \in Words
       /\ LexBody(f, s) = <<Token("ident", SubSeq(s, 1, IdentLength(s)))>>
                             \o f[After(s, IdentLength(s))]
    \/ /\ s # <<>> /\ s[1] \notin Words \cup Punctuation \cup {" ", "'"}
       /\ LexBody(f, s) = Invalid

LEMMA LexCasesHold ==
    ASSUME NEW f, NEW s
    PROVE  LexCases(f, s)
  <1>1. CASE s = <<>>
    BY <1>1 DEF LexBody, LexCases
  <1>2. CASE s # <<>> /\ s[1] = " "
    BY <1>2, SymbolsDiffer DEF LexBody, LexCases
  <1>3. CASE s # <<>> /\ s[1] \in Punctuation
    BY <1>3, SymbolsDiffer DEF LexBody, LexCases
  <1>4. CASE s # <<>> /\ s[1] = "'"
    BY <1>4, SymbolsDiffer DEF LexBody, LexCases
  <1>5. CASE s # <<>> /\ s[1] \in Words
    BY <1>5, SymbolsDiffer DEF LexBody, LexCases
  <1>6. CASE s # <<>> /\ s[1] \notin Words \cup Punctuation \cup {" ", "'"}
    BY <1>6, SymbolsDiffer DEF LexBody, LexCases
  <1> QED BY <1>1, <1>2, <1>3, <1>4, <1>5, <1>6

(* The rest of a clause after its first token is shorter. *)
LEMMA LexRests ==
    ASSUME NEW s \in Seq(Symbols), s # <<>>
    PROVE  /\ Tail(s) \in Seq(Symbols) /\ Len(Tail(s)) < Len(s)
           /\ s[1] = "'" /\ readStringLiteral[Tail(s)] # Unread =>
                /\ readStringLiteral[Tail(s)].value \in Seq(Symbols)
                /\ readStringLiteral[Tail(s)].rest \in Seq(Symbols)
                /\ Len(readStringLiteral[Tail(s)].rest) < Len(s)
           /\ SubSeq(s, 1, IdentLength(s)) \in Seq(Symbols)
           /\ After(s, IdentLength(s)) \in Seq(Symbols)
           /\ Len(After(s, IdentLength(s))) < Len(s)
  <1>1. Tail(s) \in Seq(Symbols) /\ Len(Tail(s)) \in Nat /\ Len(s) \in Nat /\ Len(Tail(s)) < Len(s)
    BY HeadAndTail
  <1>2. ASSUME readStringLiteral[Tail(s)] # Unread
        PROVE  /\ readStringLiteral[Tail(s)].value \in Seq(Symbols)
               /\ readStringLiteral[Tail(s)].rest \in Seq(Symbols)
               /\ Len(readStringLiteral[Tail(s)].rest) < Len(s)
    <2> DEFINE r == readStringLiteral[Tail(s)]
    <2>1. r \in Literals /\ Len(r.rest) < Len(Tail(s))
      BY <1>1, <1>2, ReadStringLiteralType
    <2>2. r.value \in Seq(Symbols) /\ r.rest \in Seq(Symbols)
      BY <2>1 DEF Literals
    <2> HIDE DEF r
    <2>3. Len(r.rest) \in Nat
      BY <2>2
    <2>4. Len(r.rest) < Len(s)
      BY <1>1, <2>1, <2>3
    <2> QED BY <2>2, <2>4 DEF r
  <1>3. IdentLength(s) \in 1..Len(s)
    BY IdentLengthProperties
  <1>4. SubSeq(s, 1, IdentLength(s)) \in Seq(Symbols)
    BY <1>3
  <1>5. After(s, IdentLength(s)) \in Seq(Symbols) /\ Len(After(s, IdentLength(s))) < Len(s)
    BY <1>3, AfterProperties
  <1> QED BY <1>1, <1>2, <1>4, <1>5

LEMMA LexClauseDef == \A s \in Seq(Symbols) : lexClause[s] = LexBody(lexClause, s)
  <1> DEFINE D == Seq(Symbols)
             T == Seq(Tokens)
             size == [s \in D |-> Len(s)]
             step == [s \in D |-> [f \in [D -> T] |-> LexBody(f, s)]]
  <1>1. size \in [D -> Nat]
    OBVIOUS
  <1>2. ASSUME NEW s \in D, NEW f \in [D -> T]
        PROVE  LexBody(f, s) \in T
    <2>1. LexCases(f, s)
      BY LexCasesHold
    <2>2. \A token \in Tokens, r \in D : <<token>> \o f[r] \in T
      OBVIOUS
    <2>3. <<>> \in T /\ Invalid \in T
      BY TokenTypes
    <2> HIDE DEF T
    <2>4. CASE s = <<>>
      BY <2>1, <2>3, <2>4 DEF LexCases
    <2>5. CASE s # <<>>
      <3>1. Tail(s) \in D
        BY <2>5, LexRests
      <3>2. f[Tail(s)] \in T
        BY <3>1
      <3>3. s[1] \in Punctuation => Token(s[1], <<s[1]>>) \in Tokens
        BY TokenTypes
      <3>4. s[1] = "'" /\ readStringLiteral[Tail(s)] # Unread =>
               /\ Token("string", readStringLiteral[Tail(s)].value) \in Tokens
               /\ readStringLiteral[Tail(s)].rest \in D
        BY <2>5, LexRests, TokenTypes
      <3>5. /\ Token("ident", SubSeq(s, 1, IdentLength(s))) \in Tokens
            /\ After(s, IdentLength(s)) \in D
        BY <2>5, LexRests, TokenTypes
      <3> HIDE DEF D
      <3> QED BY <2>1, <2>2, <2>3, <2>5, <3>1, <3>2, <3>3, <3>4, <3>5 DEF LexCases
    <2> QED BY <2>4, <2>5
  <1>3. ASSUME NEW s \in D, NEW f, NEW g, \A u \in D : Len(u) < Len(s) => f[u] = g[u]
        PROVE  LexBody(f, s) = LexBody(g, s)
    <2>1. CASE s = <<>>
      BY <2>1 DEF LexBody
    <2>2. CASE s # <<>>
      <3>1. f[Tail(s)] = g[Tail(s)]
        BY <1>3, <2>2, LexRests
      <3>2. s[1] = "'" /\ readStringLiteral[Tail(s)] # Unread =>
               f[readStringLiteral[Tail(s)].rest] = g[readStringLiteral[Tail(s)].rest]
        BY <1>3, <2>2, LexRests
      <3>3. f[After(s, IdentLength(s))] = g[After(s, IdentLength(s))]
        BY <1>3, <2>2, LexRests
      <3>5. CASE s[1] \in Words
        BY <3>3, <3>5, <2>2, SymbolsDiffer DEF LexBody
      <3>6. CASE s[1] = "'"
        BY <3>2, <3>6, <2>2, SymbolsDiffer DEF LexBody
      <3>7. CASE s[1] = " "
        BY <3>1, <3>7, <2>2, SymbolsDiffer DEF LexBody
      <3>8. CASE s[1] \in Punctuation
        BY <3>1, <3>8, <2>2, SymbolsDiffer DEF LexBody
      <3>9. CASE s[1] \notin Words \cup Punctuation \cup {" ", "'"}
        BY <3>9, <2>2, SymbolsDiffer DEF LexBody
      <3> QED BY <3>5, <3>6, <3>7, <3>8, <3>9
    <2> QED BY <2>1, <2>2
  <1> HIDE DEF T
  <1>4. step \in [D -> [[D -> T] -> T]]
    BY <1>2
  <1>5. DescendsBy(size, D, T, step)
    BY <1>1, <1>3, <1>4 DEF DescendsBy
  <1>6. T # {}
    <2>1. <<>> \in T
      BY DEF T
    <2> QED BY <2>1
  <1>7. PICK f \in [D -> T] : \A s \in D : f[s] = step[s][f]
    <2> HIDE DEF D, size, step
    <2> QED BY <1>5, <1>6, RecursiveFunction DEF Solves
  <1>8. f = [s \in D |-> LexBody(f, s)]
    BY <1>7
  <1>9. lexClause = CHOOSE g : g = [s \in D |-> LexBody(g, s)]
    BY DEF lexClause, LexBody
  <1>10. lexClause = [s \in D |-> LexBody(lexClause, s)]
    BY <1>8, <1>9
  <1> QED BY <1>10

LEMMA LexClauseCases == \A s \in Seq(Symbols) : LexCases(lexClause, s) /\ lexClause[s] = LexBody(lexClause, s)
  BY LexClauseDef, LexCasesHold

LEMMA LexClauseType == \A s \in Seq(Symbols) : lexClause[s] \in Seq(Tokens)
  <1> DEFINE P == {s \in Seq(Symbols) : lexClause[s] \in Seq(Tokens)}
  <1>1. ASSUME NEW s \in Seq(Symbols), \A u \in Seq(Symbols) : Len(u) < Len(s) => u \in P
        PROVE  s \in P
    <2>1. LexCases(lexClause, s) /\ lexClause[s] = LexBody(lexClause, s)
      BY LexClauseCases
    <2>2. \A token \in Tokens, r \in P : <<token>> \o lexClause[r] \in Seq(Tokens)
      OBVIOUS
    <2>3. Invalid \in Seq(Tokens) /\ <<>> \in Seq(Tokens)
      BY TokenTypes
    <2>4. CASE s = <<>>
      BY <2>1, <2>3, <2>4 DEF LexCases
    <2>5. CASE s # <<>>
      <3>1. Tail(s) \in P /\ lexClause[Tail(s)] \in Seq(Tokens)
        BY <1>1, <2>5, LexRests
      <3>2. s[1] \in Punctuation => Token(s[1], <<s[1]>>) \in Tokens
        BY TokenTypes
      <3>3. s[1] = "'" /\ readStringLiteral[Tail(s)] # Unread =>
               /\ Token("string", readStringLiteral[Tail(s)].value) \in Tokens
               /\ readStringLiteral[Tail(s)].rest \in P
        BY <1>1, <2>5, LexRests, TokenTypes
      <3>4. /\ Token("ident", SubSeq(s, 1, IdentLength(s))) \in Tokens
            /\ After(s, IdentLength(s)) \in P
        BY <1>1, <2>5, LexRests, TokenTypes
      <3>5. lexClause[s] \in Seq(Tokens)
        <4> HIDE DEF P
        <4> QED BY <2>1, <2>2, <2>3, <2>5, <3>1, <3>2, <3>3, <3>4 DEF LexCases
      <3> QED BY <3>5
    <2> QED BY <2>4, <2>5
  <1>2. Seq(Symbols) \subseteq P
    <2> HIDE DEF P
    <2> QED BY <1>1, ShorterFirst
  <1> QED BY <1>2

LEMMA LexSpace == \A r \in Seq(Symbols) : lexClause[<<" ">> \o r] = lexClause[r]
  <1> SUFFICES ASSUME NEW r \in Seq(Symbols)
               PROVE  lexClause[<<" ">> \o r] = lexClause[r]
    OBVIOUS
  <1> DEFINE s == <<" ">> \o r
  <1>0. " " \in Symbols
    BY QuoteIsSymbol
  <1>1. s \in Seq(Symbols) /\ s # <<>> /\ s[1] = " " /\ Tail(s) = r
    BY <1>0, ConsProperties, ZenonT(40)
  <1> HIDE DEF s
  <1>2. LexCases(lexClause, s) /\ lexClause[s] = LexBody(lexClause, s)
    BY <1>1, LexClauseCases
  <1>3. lexClause[s] = lexClause[r]
    BY <1>1, <1>2, SymbolsDiffer DEF LexCases
  <1> QED BY <1>3 DEF s

LEMMA LexPunctuation ==
    \A p \in Punctuation, r \in Seq(Symbols) :
        lexClause[<<p>> \o r] = <<Token(p, <<p>>)>> \o lexClause[r]
  <1> SUFFICES ASSUME NEW p \in Punctuation, NEW r \in Seq(Symbols)
               PROVE  lexClause[<<p>> \o r] = <<Token(p, <<p>>)>> \o lexClause[r]
    OBVIOUS
  <1> DEFINE s == <<p>> \o r
  <1>0. p \in Symbols
    BY QuoteIsSymbol
  <1>1. s \in Seq(Symbols) /\ s # <<>> /\ s[1] = p /\ Tail(s) = r
    BY <1>0, ConsProperties
  <1> HIDE DEF s
  <1>2. LexCases(lexClause, s) /\ lexClause[s] = LexBody(lexClause, s)
    BY <1>1, LexClauseCases
  <1>3. lexClause[s] = <<Token(p, <<p>>)>> \o lexClause[r]
    BY <1>1, <1>2, SymbolsDiffer DEF LexCases
  <1> QED BY <1>3 DEF s

(* What may follow an identifier, and a string literal, without being read into it. *)
AfterIdent(r) == r \in Seq(Symbols) /\ (r = <<>> \/ r[1] \notin IdentPart)
AfterString(r) == r \in Seq(Symbols) /\ (r = <<>> \/ r[1] # "'")

LEMMA IdentifierProperties ==
    ASSUME NEW s, IsIdentifier(s)
    PROVE  /\ s \in Seq(Symbols) /\ s # <<>> /\ s[1] \in Words
           /\ Len(s) \in Nat /\ Len(s) > 0
           /\ \A i \in 1..Len(s) : s[i] \in IdentPart
  <1>1. IdentPart \subseteq Symbols
    BY DEF IdentPart, Symbols
  <1>2. s \in Seq(IdentPart)
    BY DEF IsIdentifier
  <1>3. s \in Seq(Symbols)
    BY <1>1, <1>2, SeqMonotonic
  <1> QED BY <1>2, <1>3 DEF IsIdentifier

LEMMA LexIdentifier ==
    ASSUME NEW s, IsIdentifier(s), NEW r, AfterIdent(r)
    PROVE  lexClause[s \o r] = <<Token("ident", s)>> \o lexClause[r]
  <1> DEFINE u == s \o r
  <1>1. /\ s \in Seq(Symbols) /\ s # <<>> /\ s[1] \in Words
        /\ Len(s) \in Nat /\ Len(s) > 0
        /\ \A i \in 1..Len(s) : s[i] \in IdentPart
    BY IdentifierProperties
  <1>2. r \in Seq(Symbols) /\ Len(r) \in Nat /\ (r = <<>> \/ r[1] \notin IdentPart)
    BY DEF AfterIdent
  <1>3. /\ u \in Seq(Symbols) /\ Len(u) = Len(s) + Len(r)
        /\ \A i \in 1..Len(s) + Len(r) : u[i] = IF i <= Len(s) THEN s[i] ELSE r[i - Len(s)]
    BY <1>1, <1>2, ConcatProperties
  <1> HIDE DEF u
  <1>4. u # <<>> /\ u[1] \in Words
    BY <1>1, <1>2, <1>3
  <1>5. IdentLength(u) = Len(s)
    <2> DEFINE n == IdentLength(u)
    <2>1. /\ n \in 1..Len(u)
          /\ n = Len(u) \/ u[n + 1] \notin IdentPart
          /\ \A m \in 1..Len(u) : m < n => u[m + 1] \in IdentPart
      BY <1>3, <1>4, IdentLengthProperties
    <2> HIDE DEF n
    <2>2. ASSUME n < Len(s)
          PROVE  FALSE
      <3>1. n + 1 \in 1..Len(s) /\ n # Len(u)
        BY <1>1, <1>2, <1>3, <2>1, <2>2
      <3>2. u[n + 1] = s[n + 1] /\ s[n + 1] \in IdentPart
        BY <1>1, <1>2, <1>3, <3>1
      <3> QED BY <2>1, <3>1, <3>2
    <2>3. ASSUME Len(s) < n
          PROVE  FALSE
      <3>1. Len(s) \in 1..Len(u) /\ Len(s) + 1 \in 1..Len(u) /\ Len(r) > 0
        BY <1>1, <1>2, <1>3, <2>1, <2>3
      <3>2. u[Len(s) + 1] \in IdentPart
        BY <2>1, <2>3, <3>1
      <3>3. u[Len(s) + 1] = r[1] /\ r # <<>>
        BY <1>1, <1>2, <1>3, <3>1
      <3> QED BY <1>2, <3>2, <3>3
    <2>4. n = Len(s)
      BY <1>1, <1>2, <1>3, <2>1, <2>2, <2>3
    <2> QED BY <2>4 DEF n
  <1>6. SubSeq(u, 1, Len(s)) = s /\ After(u, Len(s)) = r
    BY <1>1, <1>2, AfterConcat DEF u
  <1>7. LexCases(lexClause, u) /\ lexClause[u] = LexBody(lexClause, u)
    BY <1>3, LexClauseCases
  <1>8. lexClause[u] = <<Token("ident", s)>> \o lexClause[r]
    BY <1>4, <1>5, <1>6, <1>7, SymbolsDiffer DEF LexCases
  <1> QED BY <1>8 DEF u

LEMMA ReadQuotedRest ==
    ASSUME NEW r, AfterString(r)
    PROVE  \A v \in Seq(Symbols) :
              /\ Escaped[v] \o (<<"'">> \o r) \in Seq(Symbols)
              /\ readStringLiteral[Escaped[v] \o (<<"'">> \o r)] = [value |-> v, rest |-> r]
  <1> DEFINE End == <<"'">> \o r
             Rest(v) == Escaped[v] \o End
             P == {v \in Seq(Symbols) : /\ Rest(v) \in Seq(Symbols)
                                        /\ readStringLiteral[Rest(v)] = [value |-> v, rest |-> r]}
  <1>0. r \in Seq(Symbols) /\ "'" \in Symbols
    BY QuoteIsSymbol DEF AfterString
  <1>1. /\ End \in Seq(Symbols) /\ End # <<>> /\ End[1] = "'" /\ Tail(End) = r
        /\ Len(End) = Len(r) + 1
        /\ \A i \in 1..Len(r) : End[i + 1] = r[i]
    BY <1>0, ConsProperties
  <1> HIDE DEF End
  <1>2. <<>> \in P
    <2>1. Rest(<<>>) = End
      BY <1>1, EscapedParts
    <2>2. ~(Len(End) > 1 /\ End[2] = "'")
      BY <1>0, <1>1 DEF AfterString
    <2>3. readStringLiteral[End] = [value |-> <<>>, rest |-> r]
      BY <1>1, <2>2, ReadStringLiteralDef DEF LiteralBody
    <2> HIDE DEF Rest
    <2>4. <<>> \in Seq(Symbols)
      OBVIOUS
    <2> QED BY <1>1, <2>1, <2>3, <2>4
  <1>3. ASSUME NEW x \in Symbols, NEW v \in Seq(Symbols), v \in P
        PROVE  <<x>> \o v \in P
    <2> DEFINE xv == <<x>> \o v
               esc == IF x = "'" THEN <<"'", "'">> ELSE <<x>>
    <2>1. xv \in Seq(Symbols)
      OBVIOUS
    <2>2. Escaped[xv] = esc \o Escaped[v]
      BY EscapedParts
    <2>3. esc \in Seq(Symbols) /\ Escaped[v] \in Seq(Symbols) /\ Rest(v) \in Seq(Symbols)
      BY <1>3, EscapedType, EscapedSymbol
    <2>4. readStringLiteral[Rest(v)] = [value |-> v, rest |-> r]
      BY <1>3
    <2>5. [value |-> v, rest |-> r] \in Literals
      BY <1>0 DEF Literals
    <2>6. Rest(xv) = esc \o Rest(v)
      <3> HIDE DEF esc, xv
      <3>1. (esc \o Escaped[v]) \o End = esc \o (Escaped[v] \o End)
        BY <1>1, <2>3, TextAssociative, ZenonT(40)
      <3> QED BY <2>2, <3>1
    <2>7. /\ WithSymbol(x, readStringLiteral[Rest(v)]) \in Literals
          /\ WithSymbol(x, readStringLiteral[Rest(v)]).value = xv
          /\ WithSymbol(x, readStringLiteral[Rest(v)]).rest = r
      BY <2>4, <2>5, WithSymbolType
    <2> HIDE DEF Rest
    <2>8. Rest(xv) \in Seq(Symbols)
      <3> HIDE DEF esc, xv
      <3> QED BY <2>3, <2>6
    <2>9. readStringLiteral[Rest(xv)] = WithSymbol(x, readStringLiteral[Rest(v)])
      <3>1. CASE x # "'"
        <4>1. Rest(xv) # <<>> /\ Rest(xv)[1] = x /\ Tail(Rest(xv)) = Rest(v)
          BY <2>3, <2>6, <3>1, ConsProperties, SMTT(30)
        <4> QED BY <2>8, <3>1, <4>1, ReadStringLiteralDef DEF LiteralBody
      <3>2. CASE x = "'"
        <4>1. Rest(xv) = <<"'", "'">> \o Rest(v)
          BY <2>6, <3>2
        <4> DEFINE pair == <<"'", "'">>
        <4>2. pair \in Seq(Symbols) /\ Len(pair) = 2 /\ pair[1] = "'" /\ pair[2] = "'"
          BY <1>0
        <4> HIDE DEF pair
        <4>3. /\ Rest(xv) # <<>> /\ Rest(xv)[1] = "'"
              /\ Len(Rest(xv)) > 1 /\ Rest(xv)[2] = "'"
          BY <2>3, <4>1, <4>2 DEF pair
        <4>4. After(Rest(xv), 2) = Rest(v)
          <5>1. After(pair \o Rest(v), Len(pair)) = Rest(v)
            BY <2>3, <4>2, AfterConcat
          <5> QED BY <4>1, <4>2, <5>1 DEF pair
        <4> QED BY <2>8, <3>2, <4>3, <4>4, ReadStringLiteralDef DEF LiteralBody
      <3> QED BY <3>1, <3>2
    <2> HIDE DEF xv
    <2>10. readStringLiteral[Rest(xv)] = [value |-> xv, rest |-> r]
      BY <2>7, <2>9 DEF Literals
    <2>11. xv \in P
      BY <2>1, <2>8, <2>10
    <2> QED BY <2>11 DEF xv
  <1>4. Seq(Symbols) \subseteq P
    <2> HIDE DEF P
    <2> QED BY <1>2, <1>3, TailFirst
  <1> QED BY <1>4 DEF End

LEMMA QuotedText ==
    ASSUME NEW v \in Seq(Symbols), NEW r \in Seq(Symbols)
    PROVE  /\ Quoted(v) \in Seq(Symbols)
           /\ Quoted(v) \o r = <<"'">> \o (Escaped[v] \o (<<"'">> \o r))
  <1> DEFINE q == <<"'">>
             e == Escaped[v]
  <1>1. q \in Seq(Symbols)
    <2>1. "'" \in Symbols
      BY QuoteIsSymbol
    <2> QED BY <2>1
  <1>2. e \in Seq(Symbols)
    BY EscapedType
  <1>3. Quoted(v) = (q \o e) \o q
    BY DEF Quoted
  <1> HIDE DEF q, e
  <1>4. q \o e \in Seq(Symbols)
    BY <1>1, <1>2
  <1>5. ((q \o e) \o q) \o r = (q \o e) \o (q \o r)
    BY <1>1, <1>4, TextAssociative
  <1>6. q \o r \in Seq(Symbols)
    BY <1>1
  <1>7. (q \o e) \o (q \o r) = q \o (e \o (q \o r))
    BY <1>1, <1>2, <1>6, TextAssociative
  <1>8. (q \o e) \o q \in Seq(Symbols)
    BY <1>1, <1>4
  <1> QED BY <1>3, <1>5, <1>7, <1>8 DEF q, e

LEMMA LexQuoted ==
    ASSUME NEW v \in Seq(Symbols), NEW r, AfterString(r)
    PROVE  lexClause[Quoted(v) \o r] = <<Token("string", v)>> \o lexClause[r]
  <1> DEFINE u == Escaped[v] \o (<<"'">> \o r)
             s == <<"'">> \o u
  <1>1. r \in Seq(Symbols) /\ "'" \in Symbols
    BY QuoteIsSymbol DEF AfterString
  <1>2. u \in Seq(Symbols) /\ readStringLiteral[u] = [value |-> v, rest |-> r]
    BY ReadQuotedRest
  <1>3. Quoted(v) \o r = s
    BY <1>1, QuotedText
  <1> HIDE DEF u
  <1>4. s \in Seq(Symbols) /\ s # <<>> /\ s[1] = "'" /\ Tail(s) = u
    BY <1>1, <1>2, ConsProperties
  <1> HIDE DEF s
  <1>5. LexCases(lexClause, s) /\ lexClause[s] = LexBody(lexClause, s)
    BY <1>4, LexClauseCases
  <1>6. readStringLiteral[Tail(s)] # Unread
    <2>1. [value |-> v, rest |-> r] \in Literals
      BY <1>1 DEF Literals
    <2> QED BY <1>2, <1>4, <2>1, LiteralsAreRead
  <1>7. lexClause[s] = <<Token("string", readStringLiteral[Tail(s)].value)>>
                         \o lexClause[readStringLiteral[Tail(s)].rest]
    BY <1>4, <1>5, <1>6, SymbolsDiffer DEF LexCases
  <1>8. lexClause[s] = <<Token("string", v)>> \o lexClause[r]
    <2>1. readStringLiteral[Tail(s)] = [value |-> v, rest |-> r]
      BY <1>2, <1>4
    <2>2. readStringLiteral[Tail(s)].value = v
      BY <2>1
    <2>3. readStringLiteral[Tail(s)].rest = r
      BY <2>1
    <2> QED BY <1>7, <2>2, <2>3
  <1> QED BY <1>3, <1>8

-----------------------------------------------------------------------------
(* Paths. *)

Fields == [path : Seq(Seq(Symbols)), rest : Seq(Tokens)]

LEMMA FieldsAreRead == \A r \in Fields : r # Unread
  BY DEF Fields, Unread

LEMMA TokenText ==
    ASSUME NEW tokens \in Seq(Tokens), NEW i \in Nat, i > 0, Kind(tokens, i) # "eof"
    PROVE  i \in 1..Len(tokens) /\ tokens[i] \in Tokens /\ tokens[i].text \in Seq(Symbols)
  <1>1. i \in 1..Len(tokens)
    BY DEF Kind
  <1>2. tokens[i] \in Tokens
    BY <1>1
  <1> QED BY <1>1, <1>2 DEF Tokens

LEMMA WithSegmentType ==
    ASSUME NEW x \in Seq(Symbols), NEW r \in Fields
    PROVE  /\ WithSegment(x, r) \in Fields
           /\ WithSegment(x, r).path = <<x>> \o r.path
           /\ WithSegment(x, r).rest = r.rest
  <1> DEFINE S == Seq(Symbols)
  <1>1. r # Unread
    BY FieldsAreRead
  <1>2. r.path \in Seq(S) /\ r.rest \in Seq(Tokens)
    BY DEF Fields
  <1>3. WithSegment(x, r) = [path |-> <<x>> \o r.path, rest |-> r.rest]
    BY <1>1 DEF WithSegment, Fields
  <1>4. <<x>> \o r.path \in Seq(S)
    <2> HIDE DEF S
    <2>1. x \in S
      BY DEF S
    <2> QED BY <1>2, <2>1
  <1> QED BY <1>2, <1>3, <1>4 DEF Fields

PathBody(f, s, keywords) ==
    IF Kind(s, 1) # "ident" THEN Unread
    ELSE IF EndsPath(s, keywords) THEN [path |-> <<s[1].text>>, rest |-> Tail(s)]
    ELSE WithSegment(s[1].text, f[After(s, 2)])

PathFrom(keywords) == CHOOSE f : f = [s \in Seq(Tokens) |-> PathBody(f, s, keywords)]

LEMMA ParsePathIsPathFrom ==
    \A tokens, keywords : parsePath(tokens, keywords) = PathFrom(keywords)[tokens]
  BY DEF parsePath, PathFrom, PathBody

LEMMA PathRests ==
    ASSUME NEW s \in Seq(Tokens), NEW keywords, Kind(s, 1) = "ident"
    PROVE  /\ s[1].text \in Seq(Symbols) /\ Tail(s) \in Seq(Tokens) /\ Len(Tail(s)) < Len(s)
           /\ ~EndsPath(s, keywords) =>
                After(s, 2) \in Seq(Tokens) /\ Len(After(s, 2)) < Len(s)
  <1>1. 1 \in 1..Len(s) /\ s[1].text \in Seq(Symbols)
    BY TokenText
  <1>2. Tail(s) \in Seq(Tokens) /\ Len(Tail(s)) < Len(s)
    BY <1>1, HeadAndTail
  <1>3. ASSUME ~EndsPath(s, keywords)
        PROVE  After(s, 2) \in Seq(Tokens) /\ Len(After(s, 2)) < Len(s)
    <2>1. Kind(s, 2) # "eof"
      BY <1>3 DEF EndsPath
    <2>2. 2 \in 1..Len(s)
      BY <2>1, TokenText
    <2> QED BY <2>2, AfterProperties
  <1> QED BY <1>1, <1>2, <1>3

LEMMA PathFromDef ==
    ASSUME NEW keywords
    PROVE  \A s \in Seq(Tokens) : PathFrom(keywords)[s] = PathBody(PathFrom(keywords), s, keywords)
  <1> DEFINE D == Seq(Tokens)
             T == Fields \cup {Unread}
             size == [s \in D |-> Len(s)]
             step == [s \in D |-> [f \in [D -> T] |-> PathBody(f, s, keywords)]]
  <1>1. size \in [D -> Nat]
    OBVIOUS
  <1>2. ASSUME NEW s \in D, NEW f \in [D -> T]
        PROVE  PathBody(f, s, keywords) \in T
    <2>1. CASE Kind(s, 1) # "ident"
      BY <2>1 DEF PathBody
    <2>2. CASE Kind(s, 1) = "ident" /\ EndsPath(s, keywords)
      <3>1. s[1].text \in Seq(Symbols) /\ Tail(s) \in Seq(Tokens)
        BY <2>2, PathRests
      <3>2. <<s[1].text>> \in Seq(Seq(Symbols))
        BY <3>1
      <3> QED BY <2>2, <3>1, <3>2 DEF PathBody, Fields
    <2>3. CASE Kind(s, 1) = "ident" /\ ~EndsPath(s, keywords)
      <3>1. s[1].text \in Seq(Symbols) /\ After(s, 2) \in D
        BY <2>3, PathRests
      <3>2. f[After(s, 2)] \in T
        BY <3>1
      <3>3. WithSegment(s[1].text, f[After(s, 2)]) \in T
        BY <3>1, <3>2, WithSegmentType DEF WithSegment
      <3> QED BY <2>3, <3>3 DEF PathBody
    <2> QED BY <2>1, <2>2, <2>3
  <1>3. ASSUME NEW s \in D, NEW f, NEW g, \A u \in D : Len(u) < Len(s) => f[u] = g[u]
        PROVE  PathBody(f, s, keywords) = PathBody(g, s, keywords)
    <2>1. Kind(s, 1) = "ident" /\ ~EndsPath(s, keywords) => f[After(s, 2)] = g[After(s, 2)]
      BY <1>3, PathRests
    <2> QED BY <2>1 DEF PathBody
  <1> HIDE DEF T
  <1>4. step \in [D -> [[D -> T] -> T]]
    BY <1>2
  <1>5. DescendsBy(size, D, T, step)
    BY <1>1, <1>3, <1>4 DEF DescendsBy
  <1>6. T # {}
    BY DEF T
  <1>7. PICK f \in [D -> T] : \A s \in D : f[s] = step[s][f]
    <2> HIDE DEF D, size, step
    <2> QED BY <1>5, <1>6, RecursiveFunction DEF Solves
  <1>8. f = [s \in D |-> PathBody(f, s, keywords)]
    BY <1>7
  <1>9. PathFrom(keywords) = [s \in D |-> PathBody(PathFrom(keywords), s, keywords)]
    BY <1>8 DEF PathFrom
  <1> QED BY <1>9

LEMMA PathFromType ==
    ASSUME NEW keywords
    PROVE  \A s \in Seq(Tokens) :
              \/ PathFrom(keywords)[s] = Unread
              \/ PathFrom(keywords)[s] \in Fields /\ PathFrom(keywords)[s].path # <<>>
  <1> DEFINE path == PathFrom(keywords)
             P == {s \in Seq(Tokens) : path[s] = Unread \/ (path[s] \in Fields /\ path[s].path # <<>>)}
  <1>1. ASSUME NEW s \in Seq(Tokens), \A u \in Seq(Tokens) : Len(u) < Len(s) => u \in P
        PROVE  s \in P
    <2>0. path[s] = PathBody(path, s, keywords)
      BY PathFromDef
    <2>1. CASE Kind(s, 1) # "ident"
      <3>1. path[s] = Unread
        BY <2>0, <2>1 DEF PathBody
      <3> HIDE DEF path
      <3> QED BY <3>1
    <2>2. CASE Kind(s, 1) = "ident" /\ EndsPath(s, keywords)
      <3>1. s[1].text \in Seq(Symbols) /\ Tail(s) \in Seq(Tokens)
        BY <2>2, PathRests
      <3>2. <<s[1].text>> \in Seq(Seq(Symbols)) /\ <<s[1].text>> # <<>>
        BY <3>1
      <3>3. path[s] = [path |-> <<s[1].text>>, rest |-> Tail(s)]
        BY <2>0, <2>2 DEF PathBody
      <3>4. path[s] \in Fields /\ path[s].path # <<>>
        BY <3>1, <3>2, <3>3 DEF Fields
      <3> QED BY <3>4
    <2>3. CASE Kind(s, 1) = "ident" /\ ~EndsPath(s, keywords)
      <3> DEFINE u == After(s, 2)
      <3>1. s[1].text \in Seq(Symbols) /\ u \in P
        BY <1>1, <2>3, PathRests
      <3>2. path[s] = WithSegment(s[1].text, path[u])
        BY <2>0, <2>3 DEF PathBody
      <3> HIDE DEF u, path
      <3>3. CASE path[u] = Unread
        <4>1. path[s] = Unread
          BY <3>2, <3>3 DEF WithSegment
        <4> QED BY <4>1
      <3>4. CASE path[u] \in Fields
        <4>1. WithSegment(s[1].text, path[u]) \in Fields
              /\ WithSegment(s[1].text, path[u]).path = <<s[1].text>> \o path[u].path
          BY <3>1, <3>4, WithSegmentType
        <4>2. path[u].path \in Seq(Seq(Symbols))
          BY <3>4 DEF Fields
        <4>3. <<s[1].text>> \o path[u].path # <<>>
          <5> DEFINE S == Seq(Symbols)
          <5>1. s[1].text \in S /\ path[u].path \in Seq(S)
            BY <3>1, <4>2
          <5> HIDE DEF S
          <5> QED BY <5>1, ConsProperties
        <4>4. path[s] \in Fields /\ path[s].path # <<>>
          BY <3>2, <4>1, <4>3
        <4> QED BY <4>4
      <3> QED BY <3>1, <3>3, <3>4
    <2> QED BY <2>1, <2>2, <2>3
  <1>2. Seq(Tokens) \subseteq P
    <2> HIDE DEF P
    <2> QED BY <1>1, ShorterFirst
  <1> QED BY <1>2

-----------------------------------------------------------------------------
(* What is read of a clause. *)

Readings == [filter : Filter, rest : Seq(Tokens)]

LEMMA ReadingsAreRead == \A r \in Readings : r # Unread
  BY DEF Readings, Unread

LEMMA ComparedType ==
    ASSUME NEW tokens \in Seq(Tokens), NEW path \in Seq(Seq(Symbols))
    PROVE  Compared(tokens, path) \in Readings \cup {Unread}
  <1> SUFFICES ASSUME matchOperator(tokens), Kind(tokens, 2) = "string"
               PROVE  Compared(tokens, path) \in Readings
    BY DEF Compared
  <1>1. PICK op \in Operators : Kind(tokens, 1) = "ident" /\ FoldCase(tokens[1].text) = <<op>>
    BY DEF matchOperator, matchKeyword
  <1>2. FoldCase(tokens[1].text)[1] = op
    BY <1>1
  <1>3. 2 \in 1..Len(tokens) /\ tokens[2].text \in Seq(Symbols)
    BY TokenText
  <1>4. After(tokens, 2) \in Seq(Tokens)
    BY <1>3, AfterProperties
  <1>5. [path |-> path, operator |-> op, value |-> tokens[2].text] \in Filter
    BY <1>3 DEF Filter
  <1>6. Compared(tokens, path) =
           [filter |-> [path |-> path, operator |-> op, value |-> tokens[2].text],
            rest |-> After(tokens, 2)]
    BY <1>2 DEF Compared
  <1> QED BY <1>4, <1>5, <1>6 DEF Readings

LEMMA ParseSimpleType ==
    ASSUME NEW tokens \in Seq(Tokens)
    PROVE  parseSimple(tokens) \in Readings \cup {Unread}
  <1> DEFINE field == PathFrom({})[tokens]
  <1>1. parsePath(tokens, {}) = field
    BY ParsePathIsPathFrom
  <1>2. field = Unread \/ field \in Fields
    BY PathFromType
  <1>3. parseSimple(tokens) = IF field = Unread THEN Unread ELSE Compared(field.rest, field.path)
    BY <1>1 DEF parseSimple
  <1> HIDE DEF field
  <1>4. CASE field \in Fields
    <2>1. field.rest \in Seq(Tokens) /\ field.path \in Seq(Seq(Symbols))
      BY <1>4 DEF Fields
    <2>2. Compared(field.rest, field.path) \in Readings \cup {Unread}
      BY <2>1, ComparedType
    <2> QED BY <1>3, <2>2
  <1> QED BY <1>2, <1>3, <1>4

(* The kinds of several tokens in a row are those of tokens that are there. *)
LEMMA KindsAreThere ==
    ASSUME NEW tokens \in Seq(Tokens), NEW kinds, NEW n \in Nat, DOMAIN kinds = 1..n,
           \A i \in 1..n : kinds[i] # "eof", IsKinds(tokens, kinds)
    PROVE  n \in 0..Len(tokens)
  <1>1. CASE n = 0
    BY <1>1
  <1>2. CASE n > 0
    <2>1. Kind(tokens, n) # "eof"
      BY <1>2 DEF IsKinds
    <2> QED BY <1>2, <2>1, TokenText
  <1> QED BY <1>1, <1>2

AnyKinds == <<"/", "ident", "(", "ident", ":", "(">>

AnyBody(collection, inner, comparison) ==
    IF /\ collection # Unread
       /\ IsKinds(collection.rest, AnyKinds)
       /\ matchKeyword(After(collection.rest, 1), "any")
       /\ inner # Unread
       /\ EqualFold(inner.path[1], collection.rest[4].text)
       /\ comparison # Unread
       /\ IsKinds(comparison.rest, <<")", ")">>)
    THEN [comparison EXCEPT !.rest = After(@, 2)]
    ELSE Unread

LEMMA ParseAnyEqType ==
    ASSUME NEW tokens \in Seq(Tokens)
    PROVE  parseAnyEq(tokens) \in Readings \cup {Unread}
  <1> DEFINE collection == PathFrom({"any"})[tokens]
             inner == PathFrom({})[After(collection.rest, 6)]
             comparison == Compared(inner.rest, collection.path \o Tail(inner.path))
  <1>1. parseAnyEq(tokens) = AnyBody(collection, inner, comparison)
    BY ParsePathIsPathFrom DEF parseAnyEq, AnyBody, AnyKinds
  <1> SUFFICES ASSUME /\ collection # Unread
                      /\ IsKinds(collection.rest, AnyKinds)
                      /\ inner # Unread
                      /\ comparison # Unread
                      /\ IsKinds(comparison.rest, <<")", ")">>)
               PROVE  [comparison EXCEPT !.rest = After(@, 2)] \in Readings
    BY <1>1 DEF AnyBody
  <1>2. collection \in Fields
    BY PathFromType
  <1>3. collection.rest \in Seq(Tokens) /\ collection.path \in Seq(Seq(Symbols))
    BY <1>2 DEF Fields
  <1>4. After(collection.rest, 6) \in Seq(Tokens)
    <2> DEFINE rest == collection.rest
    <2>1. 6 \in 0..Len(rest)
      <3> HIDE DEF rest
      <3>1. DOMAIN AnyKinds = 1..6 /\ \A i \in 1..6 : AnyKinds[i] # "eof"
        BY DEF AnyKinds
      <3> QED BY <1>3, <3>1, KindsAreThere DEF rest
    <2> HIDE DEF rest
    <2> QED BY <1>3, <2>1, AfterProperties DEF rest
  <1> HIDE DEF collection
  <1>5. inner \in Fields /\ inner.path # <<>>
    BY <1>4, PathFromType
  <1>6. inner.rest \in Seq(Tokens) /\ inner.path \in Seq(Seq(Symbols))
    BY <1>5 DEF Fields
  <1> HIDE DEF inner
  <1>7. collection.path \o Tail(inner.path) \in Seq(Seq(Symbols))
    <2> DEFINE S == Seq(Symbols)
    <2>1. Tail(inner.path) \in Seq(S)
      <3> HIDE DEF S
      <3> QED BY <1>5, <1>6, HeadAndTail DEF S
    <2> HIDE DEF S
    <2> QED BY <1>3, <2>1 DEF S
  <1>8. comparison \in Readings
    BY <1>6, <1>7, ComparedType
  <1>9. comparison.filter \in Filter /\ comparison.rest \in Seq(Tokens)
    BY <1>8 DEF Readings
  <1> HIDE DEF comparison
  <1>10. After(comparison.rest, 2) \in Seq(Tokens)
    <2> DEFINE kinds == <<")", ")">>
    <2>1. DOMAIN kinds = 1..2 /\ \A i \in 1..2 : kinds[i] # "eof"
      OBVIOUS
    <2>2. IsKinds(comparison.rest, kinds)
      OBVIOUS
    <2> HIDE DEF kinds
    <2>3. 2 \in 0..Len(comparison.rest)
      BY <1>9, <2>1, <2>2, KindsAreThere
    <2> QED BY <1>9, <2>3, AfterProperties
  <1>11. [comparison EXCEPT !.rest = After(@, 2)] =
            [filter |-> comparison.filter, rest |-> After(comparison.rest, 2)]
    BY <1>8 DEF Readings
  <1> QED BY <1>9, <1>10, <1>11 DEF Readings

(* The parentheses before a clause. *)
Opened(tokens) == Min({n \in 0..Len(tokens) : Kind(tokens, n + 1) # "("})

LEMMA OpenedProperties ==
    ASSUME NEW tokens \in Seq(Tokens)
    PROVE  /\ Opened(tokens) \in 0..Len(tokens)
           /\ Kind(tokens, Opened(tokens) + 1) # "("
           /\ \A n \in 0..Len(tokens) : n < Opened(tokens) => Kind(tokens, n + 1) = "("
  <1> DEFINE S == {n \in 0..Len(tokens) : Kind(tokens, n + 1) # "("}
  <1>1. Len(tokens) \in S
    BY DEF Kind
  <1>2. S \in SUBSET Nat
    OBVIOUS
  <1>3. Opened(tokens) = Min(S)
    BY DEF Opened
  <1>4. Min(S) \in S /\ \A n \in S : Min(S) <= n
    <2> HIDE DEF S
    <2> QED BY <1>1, <1>2, MinOfNats
  <1>5. Opened(tokens) \in S /\ \A n \in S : Opened(tokens) <= n
    BY <1>3, <1>4
  <1> QED BY <1>5

(* All of the clause is read, with as many parentheses closed as are opened. *)
IsWhole(read, open) == read # Unread /\ IsKinds(read.rest, Repeat(")", open) \o <<"eof">>)

ClauseOf(tokens) ==
    LET open == Opened(tokens)
        any == parseAnyEq(After(tokens, open))
        simple == parseSimple(After(tokens, open))
    IN  IF IsWhole(any, open) THEN <<any.filter>>
        ELSE IF IsWhole(simple, open) THEN <<simple.filter>> ELSE <<>>

LEMMA ParseClauseIsClauseOf == \A t : parseClause(t) = ClauseOf(lexClause[t])
  BY DEF parseClause, ClauseOf, Opened, IsWhole

LEMMA ParseClauseType == \A t \in Seq(Symbols) : parseClause(t) \in Seq(Filter)
  <1> SUFFICES ASSUME NEW t \in Seq(Symbols)
               PROVE  parseClause(t) \in Seq(Filter)
    OBVIOUS
  <1> DEFINE tokens == lexClause[t]
             open == Opened(tokens)
             any == parseAnyEq(After(tokens, open))
             simple == parseSimple(After(tokens, open))
  <1>1. tokens \in Seq(Tokens)
    BY LexClauseType
  <1>2. parseClause(t) = IF IsWhole(any, open) THEN <<any.filter>>
                         ELSE IF IsWhole(simple, open) THEN <<simple.filter>> ELSE <<>>
    BY ParseClauseIsClauseOf DEF ClauseOf
  <1> HIDE DEF tokens
  <1>3. open \in 0..Len(tokens)
    BY <1>1, OpenedProperties
  <1> HIDE DEF open
  <1>4. After(tokens, open) \in Seq(Tokens)
    BY <1>1, <1>3, AfterProperties
  <1>5. any \in Readings \cup {Unread} /\ simple \in Readings \cup {Unread}
    BY <1>4, ParseAnyEqType, ParseSimpleType
  <1> HIDE DEF any, simple
  <1>6. any # Unread => any.filter \in Filter
    BY <1>5 DEF Readings
  <1>7. simple # Unread => simple.filter \in Filter
    BY <1>5 DEF Readings
  <1>8. \A f \in Filter : <<f>> \in Seq(Filter)
    OBVIOUS
  <1>9. <<>> \in Seq(Filter)
    OBVIOUS
  <1> QED BY <1>2, <1>6, <1>7, <1>8, <1>9 DEF IsWhole

LEMMA ParseClausesDef ==
    \A cut \in Seq(Seq(Symbols)) :
        /\ parseClauses[cut] \in Seq(Filter)
        /\ parseClauses[cut] =
             IF cut = <<>> THEN <<>> ELSE parseClause(cut[1]) \o parseClauses[Tail(cut)]
  <1> DEFINE S == Seq(Symbols)
             T == Seq(Filter)
             put == [x \in S |-> [r \in T |-> parseClause(x) \o r]]
  <1>1. put \in [S -> [T -> T]]
    <2>1. ASSUME NEW x \in S, NEW r \in T
          PROVE  parseClause(x) \o r \in T
      <3>1. parseClause(x) \in Seq(Filter)
        BY ParseClauseType
      <3> QED BY <3>1
    <2> HIDE DEF S, T
    <2> QED BY <2>1
  <1>2. PICK f \in [Seq(S) -> T] :
           f = [v \in Seq(S) |-> IF v = <<>> THEN <<>> ELSE put[v[1]][f[Tail(v)]]]
    <2>1. <<>> \in T
      OBVIOUS
    <2> HIDE DEF S, T, put
    <2> QED BY <1>1, <2>1, TailRecursion
  <1> DEFINE Body(g, v) == IF v = <<>> THEN <<>> ELSE parseClause(v[1]) \o g[Tail(v)]
  <1>3. ASSUME NEW v \in Seq(S)
        PROVE  f[v] = Body(f, v)
    <2>1. CASE v = <<>>
      BY <1>2, <2>1
    <2>2. CASE v # <<>>
      <3>1. v[1] \in S /\ f[Tail(v)] \in T
        <4> HIDE DEF S, T
        <4> QED BY <2>2, HeadAndTail
      <3>2. f[v] = put[v[1]][f[Tail(v)]]
        BY <1>2, <2>2
      <3> QED BY <2>2, <3>1, <3>2
    <2> QED BY <2>1, <2>2
  <1>4. f = [v \in Seq(S) |-> Body(f, v)]
    BY <1>2, <1>3
  <1>5. parseClauses = CHOOSE g : g = [v \in Seq(S) |-> Body(g, v)]
    BY DEF parseClauses
  <1>6. \E g \in [Seq(S) -> T] : g = [v \in Seq(S) |-> Body(g, v)]
    BY <1>4
  <1>7. parseClauses = [v \in Seq(S) |-> Body(parseClauses, v)]
    <2> HIDE DEF Body
    <2> QED BY <1>4, <1>5
  <1> DEFINE P == {v \in Seq(S) : parseClauses[v] \in T}
  <1>8. <<>> \in P
    <2>1. <<>> \in Seq(S) /\ <<>> \in T
      OBVIOUS
    <2> QED BY <1>7, <2>1
  <1>9. ASSUME NEW x \in S, NEW v \in Seq(S), v \in P
        PROVE  <<x>> \o v \in P
    <2> DEFINE xv == <<x>> \o v
    <2>1. xv \in Seq(S) /\ xv # <<>> /\ xv[1] = x /\ Tail(xv) = v
      <3> HIDE DEF S
      <3> QED BY ConsProperties
    <2> HIDE DEF xv
    <2>2. parseClauses[xv] = parseClause(x) \o parseClauses[v]
      BY <1>7, <2>1
    <2>3. parseClause(x) \in Seq(Filter) /\ parseClauses[v] \in Seq(Filter)
      BY <1>9, ParseClauseType
    <2>4. parseClauses[xv] \in T
      BY <2>2, <2>3
    <2> HIDE DEF S, T
    <2> QED BY <2>1, <2>4 DEF xv
  <1>10. Seq(S) \subseteq P
    <2> HIDE DEF S, P
    <2> QED BY <1>8, <1>9, TailFirst
  <1> QED BY <1>7, <1>10

LEMMA ParseClausesParts ==
    /\ parseClauses[<<>>] = <<>>
    /\ \A c \in Seq(Symbols), cut \in Seq(Seq(Symbols)) :
          parseClauses[<<c>> \o cut] = parseClause(c) \o parseClauses[cut]
  <1> DEFINE S == Seq(Symbols)
  <1>1. parseClauses[<<>>] = <<>>
    <2>1. <<>> \in Seq(S)
      OBVIOUS
    <2> QED BY <2>1, ParseClausesDef
  <1>2. ASSUME NEW c \in S, NEW cut \in Seq(S)
        PROVE  parseClauses[<<c>> \o cut] = parseClause(c) \o parseClauses[cut]
    <2> DEFINE s == <<c>> \o cut
    <2>1. s \in Seq(S) /\ s # <<>> /\ s[1] = c /\ Tail(s) = cut
      <3> HIDE DEF S
      <3> QED BY ConsProperties
    <2> HIDE DEF s
    <2>2. parseClauses[s] = parseClause(c) \o parseClauses[cut]
      BY <2>1, ParseClausesDef
    <2> QED BY <2>2 DEF s
  <1> QED BY <1>1, <1>2

LEMMA FiltersAssociative == \A s, t, u \in Seq(Filter) : (s \o t) \o u = s \o (t \o u)
  BY Concatenation

LEMMA CutsAssociative == \A s, t, u \in Seq(Seq(Symbols)) : (s \o t) \o u = s \o (t \o u)
  <1> DEFINE S == Seq(Symbols)
  <1>1. \A s, t, u \in Seq(S) : (s \o t) \o u = s \o (t \o u)
    <2> HIDE DEF S
    <2> QED BY Concatenation
  <1> QED BY <1>1

(* The filters of some clauses and of some more. *)
LEMMA ParseClausesConcat ==
    ASSUME NEW b \in Seq(Seq(Symbols))
    PROVE  \A a \in Seq(Seq(Symbols)) : parseClauses[a \o b] = parseClauses[a] \o parseClauses[b]
  <1> DEFINE S == Seq(Symbols)
             P == {a \in Seq(S) : parseClauses[a \o b] = parseClauses[a] \o parseClauses[b]}
  <1>1. <<>> \in P
    <2>1. <<>> \in Seq(S) /\ <<>> \o b = b
      OBVIOUS
    <2>2. parseClauses[b] \in Seq(Filter)
      BY ParseClausesDef
    <2>3. <<>> \o parseClauses[b] = parseClauses[b]
      BY <2>2
    <2> QED BY <2>1, <2>3, ParseClausesParts
  <1>2. ASSUME NEW c \in S, NEW a \in Seq(S), a \in P
        PROVE  <<c>> \o a \in P
    <2>1. <<c>> \in Seq(S) /\ <<c>> \o a \in Seq(S) /\ a \o b \in Seq(S)
      <3>1. b \in Seq(S)
        OBVIOUS
      <3> HIDE DEF S
      <3> QED BY <3>1
    <2>2. (<<c>> \o a) \o b = <<c>> \o (a \o b)
      BY <2>1, CutsAssociative
    <2>3. /\ parseClauses[<<c>> \o a] = parseClause(c) \o parseClauses[a]
          /\ parseClauses[<<c>> \o (a \o b)] = parseClause(c) \o parseClauses[a \o b]
      BY <2>1, ParseClausesParts
    <2>4. /\ parseClause(c) \in Seq(Filter)
          /\ parseClauses[a] \in Seq(Filter) /\ parseClauses[b] \in Seq(Filter)
      BY ParseClauseType, ParseClausesDef
    <2>5. (parseClause(c) \o parseClauses[a]) \o parseClauses[b]
             = parseClause(c) \o (parseClauses[a] \o parseClauses[b])
      BY <2>4, FiltersAssociative
    <2>6. parseClauses[a \o b] = parseClauses[a] \o parseClauses[b]
      BY <1>2
    <2> QED BY <2>1, <2>2, <2>3, <2>5, <2>6
  <1>3. Seq(S) \subseteq P
    <2> HIDE DEF S, P
    <2> QED BY <1>1, <1>2, TailFirst
  <1> QED BY <1>3

-----------------------------------------------------------------------------
(* How a text is cut into clauses. *)

Modes == {"outside", "string", "escaped"}
States == [mode : Modes, depth : Nat, clause : Seq(Symbols), cut : Seq(Seq(Symbols))]

LEMMA StringModeCases ==
    ASSUME NEW t, NEW i, NEW mode \in Modes
    PROVE  /\ mode = "escaped" => StringMode(t, i, mode) = "string"
           /\ mode = "string" /\ t[i] = "'" =>
                StringMode(t, i, mode) =
                  IF i < Len(t) /\ t[i + 1] = "'" THEN "escaped" ELSE "outside"
           /\ mode = "string" /\ t[i] # "'" => StringMode(t, i, mode) = "string"
           /\ mode = "outside" /\ t[i] = "'" => StringMode(t, i, mode) = "string"
           /\ mode = "outside" /\ t[i] # "'" => StringMode(t, i, mode) = "outside"
           /\ StringMode(t, i, mode) \in Modes
  BY DEF StringMode, Modes

LEMMA DepthCases ==
    ASSUME NEW symbol, NEW mode \in Modes, NEW depth \in Nat
    PROVE  /\ mode = "outside" /\ symbol = "(" => Depth(symbol, mode, depth) = depth + 1
           /\ mode = "outside" /\ symbol = ")" =>
                Depth(symbol, mode, depth) = IF depth > 0 THEN depth - 1 ELSE 0
           /\ mode # "outside" \/ symbol \notin {"(", ")"} => Depth(symbol, mode, depth) = depth
           /\ Depth(symbol, mode, depth) \in Nat
  BY DEF Depth, Unnest

(* An "and" that clauses are cut at. *)
Ground(s) == s.mode = "outside" /\ s.depth = 0
CutAt(t, i, s) == Ground(s) /\ AndAt(t, i)

LEMMA ScanSymbolCases ==
    ASSUME NEW t \in Seq(Symbols), NEW i \in 1..Len(t), NEW s \in States
    PROVE  /\ CutAt(t, i, s) =>
                ScanSymbol(t, i, s) = [mode |-> s.mode, depth |-> s.depth, clause |-> <<>>,
                                       cut |-> Append(s.cut, s.clause)]
           /\ ~CutAt(t, i, s) =>
                ScanSymbol(t, i, s) = [mode |-> StringMode(t, i, s.mode),
                                       depth |-> Depth(t[i], s.mode, s.depth),
                                       clause |-> Append(s.clause, t[i]), cut |-> s.cut]
           /\ ScanSymbol(t, i, s) \in States
  <1>1. /\ s.mode \in Modes /\ s.depth \in Nat /\ s.clause \in Seq(Symbols)
        /\ s.cut \in Seq(Seq(Symbols))
    BY DEF States
  <1>2. CASE CutAt(t, i, s)
    <2>1. ScanSymbol(t, i, s) = [mode |-> s.mode, depth |-> s.depth, clause |-> <<>>,
                                 cut |-> Append(s.cut, s.clause)]
      BY <1>2 DEF ScanSymbol, CutAt, Ground, States
    <2>2. <<>> \in Seq(Symbols)
      OBVIOUS
    <2>3. Append(s.cut, s.clause) \in Seq(Seq(Symbols))
      <3> DEFINE S == Seq(Symbols)
      <3>1. s.cut \in Seq(S) /\ s.clause \in S
        BY <1>1
      <3> HIDE DEF S
      <3>2. Append(s.cut, s.clause) \in Seq(S)
        BY <3>1
      <3> QED BY <3>2 DEF S
    <2> QED BY <1>1, <1>2, <2>1, <2>2, <2>3 DEF States
  <1>3. CASE ~CutAt(t, i, s)
    <2>1. ScanSymbol(t, i, s) = [mode |-> StringMode(t, i, s.mode),
                                 depth |-> Depth(t[i], s.mode, s.depth),
                                 clause |-> Append(s.clause, t[i]), cut |-> s.cut]
      BY <1>3 DEF ScanSymbol, CutAt, Ground, States
    <2>2. StringMode(t, i, s.mode) \in Modes
      BY <1>1, StringModeCases
    <2>3. Depth(t[i], s.mode, s.depth) \in Nat
      BY <1>1, DepthCases
    <2>4. Append(s.clause, t[i]) \in Seq(Symbols)
      BY <1>1
    <2> QED BY <1>1, <1>3, <2>1, <2>2, <2>3, <2>4 DEF States
  <1> QED BY <1>2, <1>3

LEMMA ScanDef ==
    ASSUME NEW t \in Seq(Symbols)
    PROVE  /\ Scan(t) \in [0..Len(t) -> States]
           /\ Scan(t)[0] = Unscanned
           /\ \A i \in 1..Len(t) : Scan(t)[i] = ScanSymbol(t, i, Scan(t)[i - 1])
  <1> DEFINE D == 0..Len(t)
             Body(f, i) == IF i = 0 THEN Unscanned ELSE ScanSymbol(t, i, f[i - 1])
             size == [i \in D |-> i]
             step == [i \in D |-> [f \in [D -> States] |-> Body(f, i)]]
  <1>0. Unscanned \in States
    <2>1. <<>> \in Seq(Symbols)
      OBVIOUS
    <2>2. <<>> \in Seq(Seq(Symbols))
      OBVIOUS
    <2> QED BY <2>1, <2>2 DEF Unscanned, States, Modes
  <1>1. size \in [D -> Nat]
    OBVIOUS
  <1>2. ASSUME NEW i \in D, NEW f \in [D -> States]
        PROVE  Body(f, i) \in States
    <2>1. CASE i = 0
      BY <1>0, <2>1
    <2>2. CASE i # 0
      <3>1. i \in 1..Len(t) /\ i - 1 \in D
        BY <2>2
      <3>2. f[i - 1] \in States
        BY <3>1
      <3>3. ScanSymbol(t, i, f[i - 1]) \in States
        BY <3>1, <3>2, ScanSymbolCases
      <3> QED BY <2>2, <3>3
    <2> QED BY <2>1, <2>2
  <1>3. ASSUME NEW i \in D, NEW f, NEW g, \A j \in D : j < i => f[j] = g[j]
        PROVE  Body(f, i) = Body(g, i)
    <2>1. i # 0 => f[i - 1] = g[i - 1]
      BY <1>3
    <2> QED BY <2>1
  <1> HIDE DEF Body
  <1>4. step \in [D -> [[D -> States] -> States]]
    BY <1>2
  <1>5. DescendsBy(size, D, States, step)
    BY <1>1, <1>3, <1>4 DEF DescendsBy
  <1>6. PICK f \in [D -> States] : \A i \in D : f[i] = step[i][f]
    <2>1. States # {}
      BY <1>0
    <2> HIDE DEF D, size, step
    <2> QED BY <1>5, <2>1, RecursiveFunction, SMTT(30) DEF Solves
  <1>7. f = [i \in D |-> Body(f, i)]
    BY <1>6
  <1>8. Scan(t) = CHOOSE g : g = [i \in D |-> Body(g, i)]
    BY DEF Scan, Body
  <1>9. Scan(t) = [i \in D |-> Body(Scan(t), i)]
    BY <1>7, <1>8
  <1> DEFINE s == Scan(t)
             P == {i \in Nat : i \in D => s[i] \in States}
  <1>10. Nat \subseteq P
    <2>1. 0 \in P
      <3>1. 0 \in D
        OBVIOUS
      <3>2. s[0] = Unscanned
        BY <1>9, <3>1 DEF Body
      <3> HIDE DEF s
      <3> QED BY <1>0, <3>2
    <2>2. ASSUME NEW i \in Nat, i \in P
          PROVE  i + 1 \in P
      <3>1. CASE i + 1 \in D
        <4>1. i \in D /\ i + 1 \in 1..Len(t) /\ (i + 1) - 1 = i
          BY <3>1
        <4>2. s[i + 1] = ScanSymbol(t, i + 1, s[i])
          BY <1>9, <3>1, <4>1 DEF Body
        <4> HIDE DEF s
        <4>3. s[i] \in States
          BY <2>2, <4>1
        <4>4. s[i + 1] \in States
          BY <4>1, <4>2, <4>3, ScanSymbolCases
        <4> QED BY <4>4
      <3>2. CASE i + 1 \notin D
        BY <3>2
      <3> QED BY <3>1, <3>2
    <2> HIDE DEF P
    <2> QED BY <2>1, <2>2, SetInduction
  <1>11. \A i \in D : s[i] \in States
    <2> HIDE DEF s
    <2>1. D \subseteq Nat
      OBVIOUS
    <2> QED BY <1>10, <2>1
  <1>12. Scan(t) \in [D -> States]
    BY <1>9, <1>11
  <1>13. Scan(t)[0] = Unscanned
    <2>1. 0 \in D
      OBVIOUS
    <2> QED BY <1>9, <2>1 DEF Body
  <1>14. ASSUME NEW i \in 1..Len(t)
         PROVE  Scan(t)[i] = ScanSymbol(t, i, Scan(t)[i - 1])
    <2>1. i \in D /\ i # 0
      OBVIOUS
    <2> QED BY <1>9, <2>1 DEF Body
  <1> QED BY <1>12, <1>13, <1>14

LEMMA SplitType ==
    ASSUME NEW t \in Seq(Symbols)
    PROVE  /\ Scan(t)[Len(t)] \in States
           /\ splitTopLevelAndClauses(t) \in Seq(Seq(Symbols))
           /\ splitTopLevelAndClauses(t) # <<>>
  <1> DEFINE S == Seq(Symbols)
             end == Scan(t)[Len(t)]
  <1>1. end \in States
    BY ScanDef
  <1>2. splitTopLevelAndClauses(t) = Append(end.cut, end.clause)
    BY DEF splitTopLevelAndClauses
  <1> HIDE DEF end
  <1>3. end.cut \in Seq(S) /\ end.clause \in S
    BY <1>1 DEF States
  <1> HIDE DEF S
  <1>4. Append(end.cut, end.clause) \in Seq(S) /\ Append(end.cut, end.clause) # <<>>
    BY <1>3
  <1> QED BY <1>1, <1>2, <1>4 DEF S, end

LEMMA ParseFilterType == \A t \in Seq(Symbols) : ParseFilter(t) \in Seq(Filter)
  BY SplitType, ParseClausesDef DEF ParseFilter

(* What of a text the loop looks at in its turn at a position. *)
StartsWord(t, i) == i = 1 \/ t[i - 1] \in Separators
EndsWord(t, i) == i = Len(t) \/ t[i + 1] \in Separators
QuoteFollows(t, i) == i < Len(t) /\ t[i + 1] = "'"

Alike(t, i, u, k) ==
    /\ t[i] = u[k]
    /\ StartsWord(t, i) <=> StartsWord(u, k)
    /\ EndsWord(t, i) <=> EndsWord(u, k)
    /\ QuoteFollows(t, i) <=> QuoteFollows(u, k)

LEMMA AlikeTurns ==
    ASSUME NEW t, NEW i, NEW u, NEW k, Alike(t, i, u, k), NEW mode \in Modes
    PROVE  /\ AndAt(t, i) <=> AndAt(u, k)
           /\ StringMode(t, i, mode) = StringMode(u, k, mode)
  <1>1. AndAt(t, i) <=> AndAt(u, k)
    BY DEF Alike, AndAt, StartsWord, EndsWord
  <1>2. StringMode(t, i, mode) = StringMode(u, k, mode)
    BY StringModeCases DEF Alike, QuoteFollows, Modes
  <1> QED BY <1>1, <1>2

(* What is scanned before a space does not depend on what is after it. *)
Space == " "

ContinuedBySpace(t, u) ==
    /\ Len(u) > Len(t)
    /\ \A i \in 1..Len(t) : u[i] = t[i]
    /\ u[Len(t) + 1] = Space

LEMMA ContinuedTurns ==
    ASSUME NEW t \in Seq(Symbols), NEW u \in Seq(Symbols), ContinuedBySpace(t, u),
           NEW i \in 1..Len(t)
    PROVE  Alike(u, i, t, i) /\ i \in 1..Len(u)
  <1>1. i \in 1..Len(u) /\ u[i] = t[i]
    BY DEF ContinuedBySpace
  <1>2. i # 1 => u[i - 1] = t[i - 1]
    BY DEF ContinuedBySpace
  <1>3. i # Len(t) => u[i + 1] = t[i + 1] /\ i < Len(t)
    BY DEF ContinuedBySpace
  <1>4. i = Len(t) => u[i + 1] = Space
    BY DEF ContinuedBySpace
  <1>5. i # Len(u) /\ i < Len(u)
    BY DEF ContinuedBySpace
  <1>6. StartsWord(u, i) <=> StartsWord(t, i)
    BY <1>2 DEF StartsWord
  <1>7. EndsWord(u, i) <=> EndsWord(t, i)
    BY <1>3, <1>4, <1>5 DEF EndsWord, Separators, Space
  <1>8. QuoteFollows(u, i) <=> QuoteFollows(t, i)
    <2>1. CASE i = Len(t)
      <3>1. u[i + 1] # "'"
        BY <1>4, <2>1 DEF Space
      <3>2. ~(i < Len(t))
        BY <2>1
      <3> QED BY <3>1, <3>2 DEF QuoteFollows
    <2>2. CASE i # Len(t)
      BY <1>3, <1>5, <2>2 DEF QuoteFollows
    <2> QED BY <2>1, <2>2
  <1> QED BY <1>1, <1>6, <1>7, <1>8 DEF Alike

LEMMA ScanPrefix ==
    ASSUME NEW t \in Seq(Symbols), NEW u \in Seq(Symbols), ContinuedBySpace(t, u)
    PROVE  \A i \in 0..Len(t) : Scan(u)[i] = Scan(t)[i]
  <1> DEFINE P == {n \in Nat : n \in 0..Len(t) => Scan(u)[n] = Scan(t)[n]}
  <1>1. 0 \in P
    BY ScanDef
  <1>2. ASSUME NEW n \in Nat, n \in P, n + 1 \in 0..Len(t)
        PROVE  Scan(u)[n + 1] = Scan(t)[n + 1]
    <2> DEFINE s == Scan(t)[n]
               k == n + 1
    <2>1. k \in 1..Len(t) /\ n \in 0..Len(t) /\ k - 1 = n
      BY <1>2
    <2>2. k \in 1..Len(u) /\ Alike(u, k, t, k)
      BY <2>1, ContinuedTurns
    <2>3. s \in States /\ Scan(t)[k] = ScanSymbol(t, k, s)
      BY <2>1, ScanDef
    <2>4. Scan(u)[k] = ScanSymbol(u, k, s)
      <3>1. Scan(u)[n] = s
        BY <1>2, <2>1
      <3>2. Scan(u)[k] = ScanSymbol(u, k, Scan(u)[n])
        BY <2>1, <2>2, ScanDef
      <3> QED BY <3>1, <3>2
    <2> HIDE DEF s, k
    <2>5. ScanSymbol(u, k, s) = ScanSymbol(t, k, s)
      <3>0. s.mode \in Modes
        BY <2>3 DEF States
      <3>1. CutAt(u, k, s) <=> CutAt(t, k, s)
        BY <2>2, <3>0, AlikeTurns DEF CutAt
      <3>2. CASE CutAt(t, k, s)
        <4>1. CutAt(u, k, s)
          BY <3>1, <3>2
        <4>2. ScanSymbol(u, k, s) = [mode |-> s.mode, depth |-> s.depth, clause |-> <<>>,
                                     cut |-> Append(s.cut, s.clause)]
          BY <2>2, <2>3, <4>1, ScanSymbolCases
        <4>3. ScanSymbol(t, k, s) = [mode |-> s.mode, depth |-> s.depth, clause |-> <<>>,
                                     cut |-> Append(s.cut, s.clause)]
          BY <2>1, <2>3, <3>2, ScanSymbolCases
        <4> QED BY <4>2, <4>3
      <3>3. CASE ~CutAt(t, k, s)
        <4>1. u[k] = t[k]
          BY <2>2 DEF Alike
        <4>2. StringMode(u, k, s.mode) = StringMode(t, k, s.mode)
          BY <2>2, <3>0, AlikeTurns
        <4>3. ~CutAt(u, k, s)
          BY <3>1, <3>3
        <4>4. ScanSymbol(u, k, s) = [mode |-> StringMode(u, k, s.mode),
                                     depth |-> Depth(u[k], s.mode, s.depth),
                                     clause |-> Append(s.clause, u[k]), cut |-> s.cut]
          BY <2>2, <2>3, <4>3, ScanSymbolCases
        <4>5. ScanSymbol(t, k, s) = [mode |-> StringMode(t, k, s.mode),
                                     depth |-> Depth(t[k], s.mode, s.depth),
                                     clause |-> Append(s.clause, t[k]), cut |-> s.cut]
          BY <2>1, <2>3, <3>3, ScanSymbolCases
        <4> QED BY <4>1, <4>2, <4>4, <4>5
      <3> QED BY <3>2, <3>3
    <2> QED BY <2>3, <2>4, <2>5 DEF k
  <1>3. \A n \in Nat : n \in P => n + 1 \in P
    BY <1>2
  <1>4. Nat \subseteq P
    <2> HIDE DEF P
    <2> QED BY <1>1, <1>3, SetInduction
  <1>5. 0..Len(t) \subseteq Nat
    OBVIOUS
  <1> QED BY <1>4, <1>5

-----------------------------------------------------------------------------
(* After a text that ends outside of strings and parentheses, clauses are cut *)
(* as if the text began there.                                                *)

(* The clauses cut, and the clause begun, when those of s follow others. *)
CutAfter(cut, clause, s) ==
    IF s.cut = <<>> THEN cut ELSE cut \o (<<clause \o s.cut[1]>> \o Tail(s.cut))
ClauseAfter(clause, s) == IF s.cut = <<>> THEN clause \o s.clause ELSE s.clause

MoreCuts(cut, x, c, last) ==
    /\ Append(cut \o (<<x>> \o Tail(c)), last) = cut \o (<<x>> \o Tail(Append(c, last)))
    /\ Append(c, last)[1] = c[1]

LEMMA AppendToCuts ==
    ASSUME NEW S, NEW cut \in Seq(S), NEW x \in S, NEW c \in Seq(S), c # <<>>, NEW last \in S
    PROVE  MoreCuts(cut, x, c, last)
  <1>1. Tail(Append(c, last)) = Append(Tail(c), last)
    BY HeadTailAppend
  <1>2. Tail(c) \in Seq(S)
    BY HeadAndTail
  <1>3. Append(cut \o (<<x>> \o Tail(c)), last) = cut \o (<<x>> \o Append(Tail(c), last))
    <2> DEFINE r == Tail(c)
    <2>1. r \in Seq(S)
      BY <1>2
    <2> HIDE DEF r
    <2>2. Append(cut \o (<<x>> \o r), last) = (cut \o (<<x>> \o r)) \o <<last>>
      <3>1. cut \o (<<x>> \o r) \in Seq(S)
        BY <2>1
      <3> QED BY <3>1, AppendIsConcat
    <2>3. Append(r, last) = r \o <<last>>
      BY <2>1, AppendIsConcat
    <2>4. <<x>> \in Seq(S) /\ <<last>> \in Seq(S) /\ <<x>> \o r \in Seq(S)
      BY <2>1
    <2>5. (cut \o (<<x>> \o r)) \o <<last>> = cut \o ((<<x>> \o r) \o <<last>>)
      BY <2>4, ConcatAssociative
    <2>6. (<<x>> \o r) \o <<last>> = <<x>> \o (r \o <<last>>)
      BY <2>1, <2>4, ConcatAssociative
    <2> QED BY <2>2, <2>3, <2>5, <2>6 DEF r
  <1>4. Append(c, last)[1] = c[1]
    OBVIOUS
  <1> QED BY <1>1, <1>3, <1>4 DEF MoreCuts

Shifted(s0, s) ==
    [mode |-> s.mode, depth |-> s.depth, clause |-> ClauseAfter(s0.clause, s),
     cut |-> CutAfter(s0.cut, s0.clause, s)]

LEMMA ShiftedType ==
    ASSUME NEW s0 \in States, NEW s \in States
    PROVE  Shifted(s0, s) \in States
  <1> DEFINE S == Seq(Symbols)
  <1>1. /\ s0.clause \in S /\ s0.cut \in Seq(S) /\ s.clause \in S /\ s.cut \in Seq(S)
        /\ s.mode \in Modes /\ s.depth \in Nat
    BY DEF States
  <1>2. ClauseAfter(s0.clause, s) \in S
    BY <1>1 DEF ClauseAfter
  <1>3. CutAfter(s0.cut, s0.clause, s) \in Seq(S)
    <2>1. CASE s.cut = <<>>
      BY <1>1, <2>1 DEF CutAfter
    <2>2. CASE s.cut # <<>>
      <3> DEFINE x == s.cut[1]
                 r == Tail(s.cut)
      <3>0. x \in S /\ r \in Seq(S)
        <4>1. s.cut \in Seq(S)
          BY <1>1
        <4> HIDE DEF S
        <4> QED BY <2>2, <4>1, HeadAndTail
      <3>1. s0.clause \o x \in S
        BY <1>1, <3>0
      <3>2. CutAfter(s0.cut, s0.clause, s) = s0.cut \o (<<s0.clause \o x>> \o r)
        BY <2>2 DEF CutAfter
      <3> HIDE DEF S, x, r
      <3>3. <<s0.clause \o x>> \o r \in Seq(S)
        BY <3>0, <3>1
      <3> QED BY <1>1, <3>2, <3>3
    <2> QED BY <2>1, <2>2
  <1> QED BY <1>1, <1>2, <1>3 DEF Shifted, States

LEMMA ShiftedCut ==
    ASSUME NEW s0 \in States, NEW s \in States
    PROVE  Shifted(s0, [mode |-> s.mode, depth |-> s.depth, clause |-> <<>>,
                        cut |-> Append(s.cut, s.clause)])
             = [mode |-> s.mode, depth |-> s.depth, clause |-> <<>>,
                cut |-> Append(Shifted(s0, s).cut, Shifted(s0, s).clause)]
  <1> DEFINE S == Seq(Symbols)
             cut == Append(s.cut, s.clause)
             next == [mode |-> s.mode, depth |-> s.depth, clause |-> <<>>, cut |-> cut]
  <1>1. s0.clause \in S /\ s0.cut \in Seq(S) /\ s.clause \in S /\ s.cut \in Seq(S)
    BY DEF States
  <1>2. cut # <<>>
    <2> HIDE DEF S
    <2> QED BY <1>1
  <1>3. ClauseAfter(s0.clause, next) = <<>>
    BY <1>2 DEF ClauseAfter
  <1>4. CutAfter(s0.cut, s0.clause, next) = s0.cut \o (<<s0.clause \o cut[1]>> \o Tail(cut))
    BY <1>2 DEF CutAfter
  <1> HIDE DEF next
  <1>5. s0.cut \o (<<s0.clause \o cut[1]>> \o Tail(cut))
          = Append(CutAfter(s0.cut, s0.clause, s), ClauseAfter(s0.clause, s))
    <2>1. CASE s.cut = <<>>
      <3>1. CutAfter(s0.cut, s0.clause, s) = s0.cut /\ ClauseAfter(s0.clause, s) = s0.clause \o s.clause
        BY <2>1 DEF CutAfter, ClauseAfter
      <3>2. cut[1] = s.clause /\ Tail(cut) = <<>>
        BY <2>1
      <3>3. s0.clause \o s.clause \in S
        BY <1>1
      <3> DEFINE x == s0.clause \o s.clause
      <3> HIDE DEF x, S, cut
      <3>4. x \in S
        BY <3>3 DEF x
      <3>5. <<x>> \o <<>> = <<x>> /\ <<x>> \in Seq(S)
        BY <3>4
      <3>6. Append(s0.cut, x) = s0.cut \o <<x>>
        BY <1>1, <3>4, AppendIsConcat
      <3> QED BY <3>1, <3>2, <3>5, <3>6 DEF x
    <2>2. CASE s.cut # <<>>
      <3> DEFINE x == s0.clause \o s.cut[1]
      <3>1. CutAfter(s0.cut, s0.clause, s) = s0.cut \o (<<x>> \o Tail(s.cut))
            /\ ClauseAfter(s0.clause, s) = s.clause
        BY <2>2 DEF CutAfter, ClauseAfter
      <3>2. s.cut[1] \in S
        <4>1. s.cut \in Seq(S)
          BY <1>1
        <4> HIDE DEF S
        <4> QED BY <2>2, <4>1, HeadAndTail
      <3>3. x \in S
        BY <1>1, <3>2
      <3> HIDE DEF x, S, cut
      <3> DEFINE a == s0.cut
                 b == s.cut
                 c == s.clause
      <3>4. a \in Seq(S) /\ b \in Seq(S) /\ b # <<>> /\ c \in S
        BY <1>1, <2>2
      <3>5. cut = Append(b, c)
        BY DEF cut
      <3> HIDE DEF a, b, c
      <3>6. MoreCuts(a, x, b, c)
        BY <3>3, <3>4, AppendToCuts
      <3>7. /\ Append(s0.cut \o (<<x>> \o Tail(s.cut)), s.clause) = s0.cut \o (<<x>> \o Tail(cut))
            /\ cut[1] = s.cut[1]
        BY <3>5, <3>6 DEF a, b, c, MoreCuts
      <3> QED BY <3>1, <3>7 DEF x
    <2> QED BY <2>1, <2>2
  <1>6. next.mode = s.mode /\ next.depth = s.depth
    BY DEF next
  <1>7. Shifted(s0, s).cut = CutAfter(s0.cut, s0.clause, s)
        /\ Shifted(s0, s).clause = ClauseAfter(s0.clause, s)
    BY DEF Shifted
  <1>8. Shifted(s0, next) = [mode |-> s.mode, depth |-> s.depth, clause |-> <<>>,
                             cut |-> Append(Shifted(s0, s).cut, Shifted(s0, s).clause)]
    BY <1>3, <1>4, <1>5, <1>6, <1>7 DEF Shifted
  <1> QED BY <1>8 DEF next

LEMMA AppendToText ==
    ASSUME NEW a \in Seq(Symbols), NEW b \in Seq(Symbols), NEW x \in Symbols
    PROVE  a \o Append(b, x) = Append(a \o b, x)
  <1>1. <<x>> \in Seq(Symbols) /\ a \o b \in Seq(Symbols)
    OBVIOUS
  <1>2. Append(b, x) = b \o <<x>>
    BY AppendIsConcat
  <1>3. Append(a \o b, x) = (a \o b) \o <<x>>
    BY <1>1, AppendIsConcat
  <1> QED BY <1>1, <1>2, <1>3, TextAssociative

(* The state after a symbol that nothing is cut at. *)
WithNext(s, mode, depth, x) ==
    [mode |-> mode, depth |-> depth, clause |-> Append(s.clause, x), cut |-> s.cut]

LEMMA ShiftedSymbol ==
    ASSUME NEW s0 \in States, NEW s \in States, NEW mode, NEW depth, NEW x \in Symbols
    PROVE  Shifted(s0, WithNext(s, mode, depth, x)) = WithNext(Shifted(s0, s), mode, depth, x)
  <1> DEFINE next == WithNext(s, mode, depth, x)
  <1>1. s0.clause \in Seq(Symbols) /\ s.clause \in Seq(Symbols)
    BY DEF States
  <1>2. s0.clause \o Append(s.clause, x) = Append(s0.clause \o s.clause, x)
    <2> DEFINE a == s0.clause
               b == s.clause
    <2>1. a \in Seq(Symbols) /\ b \in Seq(Symbols)
      BY <1>1
    <2> HIDE DEF a, b
    <2>2. a \o Append(b, x) = Append(a \o b, x)
      BY <2>1, AppendToText
    <2> QED BY <2>2 DEF a, b
  <1>3. next.mode = mode /\ next.depth = depth /\ next.clause = Append(s.clause, x) /\ next.cut = s.cut
    BY DEF WithNext
  <1> HIDE DEF next
  <1>4. ClauseAfter(s0.clause, next) = Append(ClauseAfter(s0.clause, s), x)
    BY <1>2, <1>3 DEF ClauseAfter
  <1>5. CutAfter(s0.cut, s0.clause, next) = CutAfter(s0.cut, s0.clause, s)
    BY <1>3 DEF CutAfter
  <1>6. Shifted(s0, next) = [mode |-> mode, depth |-> depth,
                             clause |-> Append(Shifted(s0, s).clause, x),
                             cut |-> Shifted(s0, s).cut]
    BY <1>3, <1>4, <1>5 DEF Shifted
  <1> QED BY <1>6 DEF next, WithNext

LEMMA ShiftedUnscanned ==
    ASSUME NEW s0 \in States, Ground(s0)
    PROVE  Shifted(s0, Unscanned) = s0
  <1>1. s0.clause \o <<>> = s0.clause
    <2>1. s0.clause \in Seq(Symbols)
      BY DEF States
    <2> QED BY <2>1, TextConcat
  <1>2. Shifted(s0, Unscanned) = [mode |-> "outside", depth |-> 0, clause |-> s0.clause, cut |-> s0.cut]
    BY <1>1 DEF Shifted, Unscanned, ClauseAfter, CutAfter
  <1>3. s0 = [mode |-> s0.mode, depth |-> s0.depth, clause |-> s0.clause, cut |-> s0.cut]
    BY DEF States
  <1> QED BY <1>2, <1>3 DEF Ground

(* A text t goes on with u after m symbols, the last of which is a space. *)
GoesOnWith(t, m, u) ==
    /\ m > 0
    /\ Len(t) = m + Len(u)
    /\ \A i \in 1..Len(u) : t[m + i] = u[i]
    /\ t[m] = Space

LEMMA GoingOnTurns ==
    ASSUME NEW t \in Seq(Symbols), NEW u \in Seq(Symbols), NEW m \in Nat, GoesOnWith(t, m, u),
           NEW i \in 1..Len(u)
    PROVE  Alike(t, m + i, u, i) /\ m + i \in 1..Len(t)
  <1>1. m + i \in 1..Len(t) /\ t[m + i] = u[i]
    BY DEF GoesOnWith
  <1>2. i # 1 => t[m + i - 1] = u[i - 1] /\ m + i # 1
    <2> SUFFICES ASSUME i # 1
                 PROVE  t[m + i - 1] = u[i - 1] /\ m + i # 1
      OBVIOUS
    <2>1. i - 1 \in 1..Len(u) /\ m + (i - 1) = m + i - 1
      OBVIOUS
    <2>2. t[m + (i - 1)] = u[i - 1]
      BY <2>1 DEF GoesOnWith
    <2> QED BY <2>1, <2>2
  <1>3. i = 1 => m + i # 1 /\ t[m + i - 1] = Space
    BY DEF GoesOnWith
  <1>4. i # Len(u) => t[m + i + 1] = u[i + 1] /\ m + i # Len(t) /\ i < Len(u) /\ m + i < Len(t)
    <2> SUFFICES ASSUME i # Len(u)
                 PROVE  t[m + i + 1] = u[i + 1] /\ m + i # Len(t) /\ i < Len(u) /\ m + i < Len(t)
      OBVIOUS
    <2>1. i + 1 \in 1..Len(u) /\ m + (i + 1) = m + i + 1
      OBVIOUS
    <2>2. t[m + (i + 1)] = u[i + 1]
      BY <2>1 DEF GoesOnWith
    <2> QED BY <2>1, <2>2 DEF GoesOnWith
  <1>5. i = Len(u) => m + i = Len(t)
    BY DEF GoesOnWith
  <1>6. i = Len(u) => ~(i < Len(u)) /\ ~(m + i < Len(t))
    BY <1>1, <1>5
  <1>7. StartsWord(t, m + i) <=> StartsWord(u, i)
    <2>1. Space \in Separators
      BY DEF Space, Separators
    <2>2. CASE i = 1
      BY <1>3, <2>1, <2>2 DEF StartsWord
    <2>3. CASE i # 1
      BY <1>2, <2>3 DEF StartsWord
    <2> QED BY <2>2, <2>3
  <1>8. EndsWord(t, m + i) <=> EndsWord(u, i)
    BY <1>4, <1>5 DEF EndsWord
  <1>9. QuoteFollows(t, m + i) <=> QuoteFollows(u, i)
    BY <1>4, <1>6 DEF QuoteFollows
  <1> QED BY <1>1, <1>7, <1>8, <1>9 DEF Alike

LEMMA ScanShift ==
    ASSUME NEW t \in Seq(Symbols), NEW u \in Seq(Symbols), NEW m \in 0..Len(t), GoesOnWith(t, m, u),
           Ground(Scan(t)[m])
    PROVE  \A i \in 0..Len(u) : Scan(t)[m + i] = Shifted(Scan(t)[m], Scan(u)[i])
  <1> DEFINE s0 == Scan(t)[m]
             P == {n \in Nat : n \in 0..Len(u) => Scan(t)[m + n] = Shifted(s0, Scan(u)[n])}
  <1>1. 0 \in P
    <2>1. s0 \in States /\ Scan(u)[0] = Unscanned /\ m + 0 = m
      BY ScanDef
    <2>2. Shifted(s0, Unscanned) = s0
      BY <2>1, ShiftedUnscanned
    <2> QED BY <2>1, <2>2
  <1>2. ASSUME NEW n \in Nat, n \in P, n + 1 \in 0..Len(u)
        PROVE  Scan(t)[m + (n + 1)] = Shifted(s0, Scan(u)[n + 1])
    <2> DEFINE s == Scan(u)[n]
               k == n + 1
               z == Shifted(s0, s)
    <2>1. k \in 1..Len(u) /\ n \in 0..Len(u) /\ k - 1 = n /\ m + k - 1 = m + n
      BY <1>2
    <2>2. m + k \in 1..Len(t) /\ Alike(t, m + k, u, k)
      <3>1. m \in Nat
        OBVIOUS
      <3> HIDE DEF k
      <3> QED BY <2>1, <3>1, GoingOnTurns
    <2>3. s \in States /\ Scan(u)[k] = ScanSymbol(u, k, s)
      BY <2>1, ScanDef
    <2>4. s0 \in States
      BY ScanDef
    <2>5. z \in States /\ z.mode = s.mode /\ z.depth = s.depth
      BY <2>3, <2>4, ShiftedType DEF Shifted
    <2>6. Scan(t)[m + k] = ScanSymbol(t, m + k, z)
      <3>1. Scan(t)[m + n] = z
        BY <1>2, <2>1
      <3>2. Scan(t)[m + k] = ScanSymbol(t, m + k, Scan(t)[m + k - 1])
        BY <2>2, ScanDef
      <3> QED BY <2>1, <3>1, <3>2
    <2> HIDE DEF s0, s, k, z
    <2>7. ScanSymbol(t, m + k, z) = Shifted(s0, ScanSymbol(u, k, s))
      <3>0. s.mode \in Modes
        BY <2>3 DEF States
      <3>1. CutAt(t, m + k, z) <=> CutAt(u, k, s)
        BY <2>2, <2>5, <3>0, AlikeTurns DEF CutAt, Ground
      <3>2. CASE CutAt(u, k, s)
        <4>1. CutAt(t, m + k, z)
          BY <3>1, <3>2
        <4>2. ScanSymbol(t, m + k, z) = [mode |-> z.mode, depth |-> z.depth, clause |-> <<>>,
                                         cut |-> Append(z.cut, z.clause)]
          BY <2>2, <2>5, <4>1, ScanSymbolCases
        <4>3. ScanSymbol(u, k, s) = [mode |-> s.mode, depth |-> s.depth, clause |-> <<>>,
                                     cut |-> Append(s.cut, s.clause)]
          BY <2>1, <2>3, <3>2, ScanSymbolCases
        <4>4. Shifted(s0, ScanSymbol(u, k, s)) = [mode |-> s.mode, depth |-> s.depth, clause |-> <<>>,
                                                  cut |-> Append(z.cut, z.clause)]
          BY <2>3, <2>4, <4>3, ShiftedCut DEF z
        <4> QED BY <2>5, <4>2, <4>4
      <3>3. CASE ~CutAt(u, k, s)
        <4> DEFINE mode == StringMode(u, k, s.mode)
                   depth == Depth(u[k], s.mode, s.depth)
                   x == u[k]
        <4>1. t[m + k] = x /\ x \in Symbols
          BY <2>1, <2>2 DEF Alike
        <4>2. StringMode(t, m + k, s.mode) = mode
          BY <2>2, <3>0, AlikeTurns
        <4>3. ~CutAt(t, m + k, z)
          BY <3>1, <3>3
        <4>4. ScanSymbol(t, m + k, z) = [mode |-> StringMode(t, m + k, z.mode),
                                         depth |-> Depth(t[m + k], z.mode, z.depth),
                                         clause |-> Append(z.clause, t[m + k]), cut |-> z.cut]
          BY <2>2, <2>5, <4>3, ScanSymbolCases
        <4>5. ScanSymbol(u, k, s) = [mode |-> mode, depth |-> depth,
                                     clause |-> Append(s.clause, x), cut |-> s.cut]
          BY <2>1, <2>3, <3>3, ScanSymbolCases
        <4>6. ScanSymbol(t, m + k, z) = [mode |-> mode, depth |-> depth,
                                         clause |-> Append(z.clause, x), cut |-> z.cut]
          BY <2>5, <4>1, <4>2, <4>4
        <4> HIDE DEF mode, depth, x
        <4>7. Shifted(s0, WithNext(s, mode, depth, x)) = WithNext(z, mode, depth, x)
          BY <2>3, <2>4, <4>1, ShiftedSymbol DEF z
        <4> QED BY <4>5, <4>6, <4>7 DEF WithNext
      <3> QED BY <3>2, <3>3
    <2> QED BY <2>3, <2>6, <2>7 DEF k
  <1>3. \A n \in Nat : n \in P => n + 1 \in P
    BY <1>2
  <1>4. Nat \subseteq P
    <2> HIDE DEF P
    <2> QED BY <1>1, <1>3, SetInduction
  <1>5. 0..Len(u) \subseteq Nat
    OBVIOUS
  <1> QED BY <1>4, <1>5

-----------------------------------------------------------------------------
(* A space at the end of a clause changes nothing about what is read of it. *)

Spaced(s) == s \o <<Space>>

LEMMA SpaceIsText == Space \in Symbols /\ <<Space>> \in Seq(Symbols) /\ <<>> \in Seq(Symbols)
  <1>1. Space \in Symbols
    BY QuoteIsSymbol DEF Space
  <1> QED BY <1>1

LEMMA SpacedParts ==
    ASSUME NEW s \in Seq(Symbols)
    PROVE  /\ Spaced(s) \in Seq(Symbols) /\ Spaced(s) # <<>>
           /\ Len(Spaced(s)) = Len(s) + 1
           /\ Spaced(s)[Len(s) + 1] = Space
           /\ \A i \in 1..Len(s) : Spaced(s)[i] = s[i]
           /\ \A n \in 0..Len(s) : /\ After(Spaced(s), n) = Spaced(After(s, n))
                                   /\ SubSeq(Spaced(s), 1, n) = SubSeq(s, 1, n)
           /\ s # <<>> => Tail(Spaced(s)) = Spaced(Tail(s))
  <1> DEFINE x == Space
             u == s \o <<x>>
  <1>0. x \in Symbols
    BY QuoteIsSymbol DEF Space
  <1>1. Spaced(s) = u
    BY DEF Spaced
  <1> HIDE DEF x
  <1>2. u \in Seq(Symbols) /\ Len(u) = Len(s) + 1 /\ u # <<>>
    BY <1>0
  <1>3. u[Len(s) + 1] = x /\ \A i \in 1..Len(s) : u[i] = s[i]
    BY <1>0
  <1>4. ASSUME NEW n \in 0..Len(s)
        PROVE  After(u, n) = After(s, n) \o <<x>> /\ SubSeq(u, 1, n) = SubSeq(s, 1, n)
    <2>1. <<x>> \in Seq(Symbols)
      BY <1>0
    <2> QED BY <2>1, AfterWithinConcat
  <1>5. s # <<>> => Tail(u) = Tail(s) \o <<x>>
    BY <1>0
  <1> QED BY <1>1, <1>2, <1>3, <1>4, <1>5 DEF Spaced, x

LEMMA ReadSpacedLiteral ==
    \A s \in Seq(Symbols) :
        readStringLiteral[Spaced(s)] =
          IF readStringLiteral[s] = Unread THEN Unread
          ELSE [value |-> readStringLiteral[s].value, rest |-> Spaced(readStringLiteral[s].rest)]
  <1> DEFINE More(r) == IF r = Unread THEN Unread ELSE [value |-> r.value, rest |-> Spaced(r.rest)]
             P == {s \in Seq(Symbols) : readStringLiteral[Spaced(s)] = More(readStringLiteral[s])}
  <1>0. ASSUME NEW x \in Symbols, NEW r, r \in Literals \/ r = Unread
        PROVE  More(WithSymbol(x, r)) = WithSymbol(x, More(r))
    <2>1. CASE r = Unread
      BY <2>1 DEF WithSymbol
    <2>2. CASE r \in Literals
      <3>1. r # Unread /\ r = [value |-> r.value, rest |-> r.rest]
        BY <2>2, LiteralsAreRead DEF Literals
      <3>2. WithSymbol(x, r) # Unread
        BY <2>2, LiteralsAreRead, WithSymbolType
      <3>3. More(WithSymbol(x, r)) = [value |-> <<x>> \o r.value, rest |-> Spaced(r.rest)]
        BY <2>2, <3>2, WithSymbolType
      <3>4. More(r) = [value |-> r.value, rest |-> Spaced(r.rest)] /\ More(r) # Unread
        BY <3>1 DEF Unread
      <3> HIDE DEF More
      <3>5. WithSymbol(x, More(r)) = [value |-> <<x>> \o r.value, rest |-> Spaced(r.rest)]
        <4> DEFINE m == More(r)
        <4>1. m = [value |-> r.value, rest |-> Spaced(r.rest)] /\ m # Unread
          BY <3>4
        <4> HIDE DEF m
        <4>2. WithSymbol(x, m) = [m EXCEPT !.value = <<x>> \o @]
          BY <4>1 DEF WithSymbol
        <4>3. WithSymbol(x, m) = [value |-> <<x>> \o r.value, rest |-> Spaced(r.rest)]
          BY <4>1, <4>2
        <4> QED BY <4>3 DEF m
      <3> QED BY <3>3, <3>5
    <2> QED BY <1>0, <2>1, <2>2
  <1>1. ASSUME NEW s \in Seq(Symbols), \A v \in Seq(Symbols) : Len(v) < Len(s) => v \in P
        PROVE  readStringLiteral[Spaced(s)] = More(readStringLiteral[s])
    <2> DEFINE u == Spaced(s)
    <2>1. /\ u \in Seq(Symbols) /\ u # <<>> /\ Len(u) = Len(s) + 1 /\ u[Len(s) + 1] = Space
          /\ \A i \in 1..Len(s) : u[i] = s[i]
          /\ \A n \in 0..Len(s) : After(u, n) = Spaced(After(s, n))
          /\ s # <<>> => Tail(u) = Spaced(Tail(s))
      BY SpacedParts
    <2>2. readStringLiteral[u] = LiteralBody(readStringLiteral, u)
      BY <2>1, ReadStringLiteralDef
    <2>3. readStringLiteral[s] = LiteralBody(readStringLiteral, s)
      BY ReadStringLiteralDef
    <2> HIDE DEF u
    <2>4. CASE s = <<>>
      <3>1. readStringLiteral[s] = Unread
        BY <2>3, <2>4 DEF LiteralBody
      <3>2. Tail(u) = s /\ u[1] = Space
        <4>1. s \in Seq(Symbols) /\ Len(s) = 0
          BY <2>4
        <4>2. u[1] = Space
          BY <2>1, <4>1
        <4>3. u \in Seq(Symbols) /\ u # <<>> /\ Len(u) = 1
          BY <2>1, <4>1
        <4>4. Tail(u) \in Seq(Symbols) /\ Len(Tail(u)) = 0
          BY <4>3, HeadAndTail
        <4>5. Tail(u) = <<>>
          BY <4>4, EmptySeq
        <4> QED BY <2>4, <4>2, <4>5
      <3>3. readStringLiteral[u] = WithSymbol(Space, Unread)
        BY <2>1, <2>2, <3>1, <3>2 DEF LiteralBody, Space
      <3> QED BY <3>1, <3>3 DEF WithSymbol, u
    <2>5. CASE s # <<>> /\ s[1] # "'"
      <3>1. Tail(s) \in P /\ s[1] \in Symbols
        <4>1. Tail(s) \in Seq(Symbols) /\ Len(Tail(s)) < Len(s) /\ s[1] \in Symbols
          BY <2>5, HeadAndTail
        <4> QED BY <1>1, <4>1
      <3>2. u[1] = s[1]
        <4>1. 1 \in 1..Len(s)
          BY <2>5
        <4> QED BY <2>1, <4>1
      <3>3. readStringLiteral[u] = WithSymbol(s[1], readStringLiteral[Spaced(Tail(s))])
        BY <2>1, <2>2, <2>5, <3>2 DEF LiteralBody
      <3>4. readStringLiteral[s] = WithSymbol(s[1], readStringLiteral[Tail(s)])
        BY <2>3, <2>5 DEF LiteralBody
      <3>5. readStringLiteral[Tail(s)] \in Literals \/ readStringLiteral[Tail(s)] = Unread
        BY <3>1, ReadStringLiteralType
      <3>6. readStringLiteral[Spaced(Tail(s))] = More(readStringLiteral[Tail(s)])
        BY <3>1
      <3> HIDE DEF More, P
      <3> QED BY <1>0, <3>1, <3>3, <3>4, <3>5, <3>6 DEF u
    <2>6. CASE s # <<>> /\ s[1] = "'" /\ Len(s) > 1 /\ s[2] = "'"
      <3> DEFINE v == After(s, 2)
      <3>0. 2 \in 1..Len(s) /\ 2 \in 0..Len(s) /\ 1 \in 1..Len(s)
        BY <2>6
      <3>1. v \in P
        <4>1. v \in Seq(Symbols) /\ Len(v) < Len(s)
          BY <3>0, AfterProperties
        <4> HIDE DEF v
        <4> QED BY <1>1, <4>1
      <3>2. u[1] = s[1] /\ u[2] = s[2] /\ Len(u) > 1 /\ After(u, 2) = Spaced(v)
        BY <2>1, <3>0
      <3>3. readStringLiteral[u] = WithSymbol("'", readStringLiteral[Spaced(v)])
        BY <2>1, <2>2, <2>6, <3>2 DEF LiteralBody
      <3>4. readStringLiteral[s] = WithSymbol("'", readStringLiteral[v])
        BY <2>3, <2>6 DEF LiteralBody
      <3> HIDE DEF v
      <3>5. readStringLiteral[v] \in Literals \/ readStringLiteral[v] = Unread
        BY <3>1, ReadStringLiteralType
      <3>6. readStringLiteral[Spaced(v)] = More(readStringLiteral[v])
        BY <3>1
      <3>7. "'" \in Symbols
        BY QuoteIsSymbol
      <3> HIDE DEF More, P
      <3> QED BY <1>0, <3>3, <3>4, <3>5, <3>6, <3>7 DEF u
    <2>7. CASE s # <<>> /\ s[1] = "'" /\ ~(Len(s) > 1 /\ s[2] = "'")
      <3>1. u[1] = s[1] /\ Tail(u) = Spaced(Tail(s))
        <4>1. 1 \in 1..Len(s)
          BY <2>7
        <4> QED BY <2>1, <2>7, <4>1
      <3>2. u[2] # "'"
        <4>1. CASE Len(s) > 1
          <5>1. 2 \in 1..Len(s)
            BY <4>1
          <5> QED BY <2>1, <2>7, <4>1, <5>1
        <4>2. CASE ~(Len(s) > 1)
          <5>1. Len(s) + 1 = 2
            <6>1. s # <<>>
              BY <2>7
            <6> QED BY <4>2, <6>1
          <5>2. u[2] = Space
            BY <2>1, <5>1
          <5> QED BY <5>2 DEF Space
        <4> QED BY <4>1, <4>2
      <3>3. readStringLiteral[u] = [value |-> <<>>, rest |-> Spaced(Tail(s))]
        BY <2>1, <2>2, <2>7, <3>1, <3>2 DEF LiteralBody
      <3>4. readStringLiteral[s] = [value |-> <<>>, rest |-> Tail(s)]
        BY <2>3, <2>7 DEF LiteralBody
      <3>5. readStringLiteral[s] # Unread
        BY <3>4 DEF Unread
      <3> QED BY <3>3, <3>4, <3>5 DEF u
    <2> QED BY <2>4, <2>5, <2>6, <2>7
  <1>2. Seq(Symbols) \subseteq P
    <2>1. \A s \in Seq(Symbols) : (\A v \in Seq(Symbols) : Len(v) < Len(s) => v \in P) => s \in P
      BY <1>1
    <2> HIDE DEF P
    <2> QED BY <2>1, ShorterFirst
  <1> QED BY <1>2

LEMMA SpacedIdentLength ==
    ASSUME NEW s \in Seq(Symbols), s # <<>>
    PROVE  IdentLength(Spaced(s)) = IdentLength(s)
  <1> DEFINE u == Spaced(s)
             n == IdentLength(s)
             m == IdentLength(u)
  <1>1. /\ u \in Seq(Symbols) /\ u # <<>> /\ Len(u) = Len(s) + 1 /\ Len(s) \in Nat
        /\ u[Len(s) + 1] = Space /\ \A i \in 1..Len(s) : u[i] = s[i]
    BY SpacedParts
  <1>2. Space \notin IdentPart
    BY SymbolsDiffer DEF Space, IdentPart
  <1> HIDE DEF u
  <1>3. /\ n \in 1..Len(s) /\ (n = Len(s) \/ s[n + 1] \notin IdentPart)
        /\ \A k \in 1..Len(s) : k < n => s[k + 1] \in IdentPart
    BY IdentLengthProperties
  <1>4. /\ m \in 1..Len(u) /\ (m = Len(u) \/ u[m + 1] \notin IdentPart)
        /\ \A k \in 1..Len(u) : k < m => u[k + 1] \in IdentPart
    BY <1>1, IdentLengthProperties
  <1> HIDE DEF n, m
  <1>5. ASSUME m < n
        PROVE  FALSE
    <2>1. m \in 1..Len(s) /\ m + 1 \in 1..Len(s) /\ m # Len(u)
      BY <1>1, <1>3, <1>4, <1>5
    <2> QED BY <1>1, <1>3, <1>4, <1>5, <2>1
  <1>6. ASSUME n < m
        PROVE  FALSE
    <2>1. n \in 1..Len(u)
      BY <1>1, <1>3
    <2>2. u[n + 1] \in IdentPart
      BY <1>4, <1>6, <2>1
    <2>3. CASE n = Len(s)
      BY <1>1, <1>2, <2>2, <2>3
    <2>4. CASE n # Len(s)
      <3>1. n + 1 \in 1..Len(s)
        BY <1>1, <1>3, <2>4
      <3> QED BY <1>1, <1>3, <2>2, <2>4, <3>1
    <2> QED BY <2>3, <2>4
  <1>7. m = n
    BY <1>1, <1>3, <1>4, <1>5, <1>6
  <1> QED BY <1>7 DEF m, n, u

LEMMA LexSpaced == \A s \in Seq(Symbols) : lexClause[Spaced(s)] = lexClause[s]
  <1> DEFINE P == {s \in Seq(Symbols) : lexClause[Spaced(s)] = lexClause[s]}
  <1>1. ASSUME NEW s \in Seq(Symbols), \A v \in Seq(Symbols) : Len(v) < Len(s) => v \in P
        PROVE  lexClause[Spaced(s)] = lexClause[s]
    <2> DEFINE u == Spaced(s)
    <2>1. /\ u \in Seq(Symbols) /\ u # <<>> /\ Len(u) = Len(s) + 1
          /\ \A i \in 1..Len(s) : u[i] = s[i]
          /\ \A n \in 0..Len(s) : /\ After(u, n) = Spaced(After(s, n))
                                  /\ SubSeq(u, 1, n) = SubSeq(s, 1, n)
          /\ s # <<>> => Tail(u) = Spaced(Tail(s))
      BY SpacedParts
    <2>2. LexCases(lexClause, u) /\ lexClause[u] = LexBody(lexClause, u)
      BY <2>1, LexClauseCases
    <2>3. LexCases(lexClause, s) /\ lexClause[s] = LexBody(lexClause, s)
      BY LexClauseCases
    <2>4. CASE s = <<>>
      <3>1. <<" ">> \in Seq(Symbols)
        BY SpaceIsText DEF Space
      <3>2. <<" ">> \o <<>> = <<>> \o <<" ">>
        BY <3>1, TextConcat
      <3>3. <<>> \o <<" ">> = Spaced(s)
        BY <2>4 DEF Spaced, Space
      <3> QED BY <2>4, <3>2, <3>3, LexSpace
    <2>5. CASE s # <<>>
      <3> HIDE DEF u
      <3>1. u[1] = s[1] /\ Tail(u) = Spaced(Tail(s))
        <4>1. 1 \in 1..Len(s)
          BY <2>5
        <4> QED BY <2>1, <2>5, <4>1
      <3>2. lexClause[Spaced(Tail(s))] = lexClause[Tail(s)] /\ Tail(s) \in Seq(Symbols)
        <4>1. Tail(s) \in Seq(Symbols) /\ Len(Tail(s)) < Len(s)
          BY <2>5, LexRests
        <4> QED BY <1>1, <4>1
      <3>3. CASE s[1] = " "
        BY <2>1, <2>2, <2>3, <2>5, <3>1, <3>2, <3>3, SymbolsDiffer DEF LexCases, u
      <3>4. CASE s[1] \in Punctuation
        BY <2>1, <2>2, <2>3, <2>5, <3>1, <3>2, <3>4, SymbolsDiffer DEF LexCases, u
      <3>5. CASE s[1] = "'"
        <4> DEFINE r == readStringLiteral[Tail(s)]
                   z == readStringLiteral[Tail(u)]
        <4>1. z = IF r = Unread THEN Unread ELSE [value |-> r.value, rest |-> Spaced(r.rest)]
          BY <3>1, <3>2, ReadSpacedLiteral
        <4>2. CASE r = Unread
          BY <2>1, <2>2, <2>3, <2>5, <3>1, <3>5, <4>1, <4>2, SymbolsDiffer DEF LexCases, u
        <4>3. CASE r # Unread
          <5>1. r.rest \in Seq(Symbols) /\ Len(r.rest) < Len(s)
            BY <2>5, <3>5, <4>3, LexRests
          <5>2. lexClause[Spaced(r.rest)] = lexClause[r.rest]
            BY <1>1, <5>1
          <5>3. z.value = r.value /\ z.rest = Spaced(r.rest) /\ z # Unread
            BY <4>1, <4>3 DEF Unread
          <5>4. lexClause[s] = <<Token("string", r.value)>> \o lexClause[r.rest]
            BY <2>3, <2>5, <3>5, <4>3, SymbolsDiffer DEF LexCases
          <5>5. lexClause[u] = <<Token("string", z.value)>> \o lexClause[z.rest]
            BY <2>1, <2>2, <3>1, <3>5, <5>3, SymbolsDiffer DEF LexCases
          <5> QED BY <5>2, <5>3, <5>4, <5>5 DEF u
        <4> QED BY <4>2, <4>3
      <3>6. CASE s[1] \in Words
        <4> DEFINE n == IdentLength(s)
        <4>1. IdentLength(u) = n /\ n \in 0..Len(s)
          BY <2>5, SpacedIdentLength, IdentLengthProperties DEF u
        <4> HIDE DEF n
        <4>2. After(u, n) = Spaced(After(s, n)) /\ SubSeq(u, 1, n) = SubSeq(s, 1, n)
          BY <2>1, <4>1
        <4>3. After(s, n) \in Seq(Symbols) /\ Len(After(s, n)) < Len(s)
          BY <2>5, LexRests DEF n
        <4>4. lexClause[Spaced(After(s, n))] = lexClause[After(s, n)]
          BY <1>1, <4>3
        <4>5. lexClause[s] = <<Token("ident", SubSeq(s, 1, n))>> \o lexClause[After(s, n)]
          BY <2>3, <2>5, <3>6, SymbolsDiffer DEF LexCases, n
        <4>6. lexClause[u] = <<Token("ident", SubSeq(u, 1, n))>> \o lexClause[After(u, n)]
          BY <2>1, <2>2, <3>1, <3>6, <4>1, SymbolsDiffer DEF LexCases
        <4> QED BY <4>2, <4>4, <4>5, <4>6 DEF u
      <3>7. CASE s[1] \notin Words \cup Punctuation \cup {" ", "'"}
        BY <2>1, <2>2, <2>3, <2>5, <3>1, <3>7 DEF LexCases, u
      <3> QED BY <3>3, <3>4, <3>5, <3>6, <3>7
    <2> QED BY <2>4, <2>5
  <1>2. Seq(Symbols) \subseteq P
    <2>1. \A s \in Seq(Symbols) : (\A v \in Seq(Symbols) : Len(v) < Len(s) => v \in P) => s \in P
      BY <1>1
    <2> HIDE DEF P
    <2> QED BY <2>1, ShorterFirst
  <1> QED BY <1>2

LEMMA ParseSpaced ==
    \A c \in Seq(Symbols) :
        parseClause(Spaced(c)) = parseClause(c) /\ parseClause(<<Space>> \o c) = parseClause(c)
  BY LexSpaced, LexSpace, ParseClauseIsClauseOf DEF Space

-----------------------------------------------------------------------------
(* Two texts joined by an "and". *)

LEMMA LowerAnd ==
    /\ \A x : Lower(x) = "and" => x \in Words
    /\ \A and \in Spellings("and") : Lower(and) = "and" /\ and \in Words
  <1>1. "and" \in Words /\ "and" \notin DOMAIN LowerCase /\ DOMAIN LowerCase \subseteq Words
    BY ODataAssumption
  <1>2. ASSUME NEW x, Lower(x) = "and"
        PROVE  x \in Words
    BY <1>1, <1>2 DEF Lower
  <1>3. ASSUME NEW and \in Spellings("and")
        PROVE  Lower(and) = "and" /\ and \in Words
    BY <1>1 DEF Spellings, Lower
  <1> QED BY <1>2, <1>3

And(and) == <<Space, and, Space>>
JoinedBy(t, and, u) == t \o And(and) \o u

LEMMA JoinedParts ==
    ASSUME NEW t \in Seq(Symbols), NEW u \in Seq(Symbols), NEW and \in Spellings("and")
    PROVE  LET w == JoinedBy(t, and, u)
               m == Len(t)
           IN  /\ w \in Seq(Symbols) /\ Len(w) = m + 3 + Len(u)
               /\ w[m + 1] = Space /\ w[m + 2] = and /\ w[m + 3] = Space
               /\ ContinuedBySpace(t, w)
               /\ GoesOnWith(w, m + 3, u)
  <1> DEFINE x == Space
             j == <<x, and, x>>
             tj == t \o j
             w == tj \o u
             m == Len(t)
  <1>0. x \in Symbols /\ and \in Symbols
    BY SpaceIsText, LowerAnd, QuoteIsSymbol
  <1>1. JoinedBy(t, and, u) = w
    BY DEF JoinedBy, And
  <1> HIDE DEF x
  <1>2. /\ j \in Seq(Symbols) /\ Len(j) = 3 /\ j[1] = x /\ j[2] = and /\ j[3] = x
        /\ Len(t) \in Nat /\ Len(u) \in Nat
    BY <1>0
  <1> HIDE DEF j
  <1>3. /\ tj \in Seq(Symbols) /\ Len(tj) = Len(t) + 3
        /\ \A i \in 1..Len(t) + 3 : tj[i] = IF i <= Len(t) THEN t[i] ELSE j[i - Len(t)]
    <2>0. j \in Seq(Symbols)
      BY <1>2
    <2>1. /\ tj \in Seq(Symbols) /\ Len(tj) = Len(t) + Len(j)
          /\ \A i \in 1..Len(t) + Len(j) : tj[i] = IF i <= Len(t) THEN t[i] ELSE j[i - Len(t)]
      BY <2>0, ConcatProperties
    <2> HIDE DEF tj
    <2> QED BY <1>2, <2>1
  <1> HIDE DEF tj
  <1>4. /\ w \in Seq(Symbols) /\ Len(w) = Len(tj) + Len(u)
        /\ \A i \in 1..Len(tj) + Len(u) : w[i] = IF i <= Len(tj) THEN tj[i] ELSE u[i - Len(tj)]
    <2>0. tj \in Seq(Symbols)
      BY <1>3
    <2> QED BY <2>0, ConcatProperties
  <1> HIDE DEF w
  <1>5. \A i \in 1..Len(t) + 3 : w[i] = IF i <= Len(t) THEN t[i] ELSE j[i - Len(t)]
    BY <1>2, <1>3, <1>4
  <1>6. m + 1 \in 1..m + 3 /\ m + 2 \in 1..m + 3 /\ m + 3 \in 1..m + 3 /\ m \in Nat
    BY <1>2
  <1>7. (m + 1) - m = 1 /\ (m + 2) - m = 2 /\ (m + 3) - m = 3
        /\ ~(m + 1 <= m) /\ ~(m + 2 <= m) /\ ~(m + 3 <= m)
    BY <1>6
  <1>8. w[m + 1] = x /\ w[m + 2] = and /\ w[m + 3] = x
    BY <1>2, <1>5, <1>6, <1>7
  <1>9. \A i \in 1..Len(t) : w[i] = t[i]
    BY <1>2, <1>5
  <1>10. Len(w) = m + 3 + Len(u) /\ Len(w) > Len(t)
    BY <1>2, <1>3, <1>4
  <1>11. ContinuedBySpace(t, w)
    BY <1>8, <1>9, <1>10 DEF ContinuedBySpace, x
  <1>12. \A i \in 1..Len(u) : w[m + 3 + i] = u[i]
    <2> TAKE i \in 1..Len(u)
    <2>1. m + 3 + i \in 1..Len(tj) + Len(u) /\ ~(m + 3 + i <= Len(tj)) /\ m + 3 + i - Len(tj) = i
      BY <1>2, <1>3
    <2> QED BY <1>4, <2>1
  <1>13. GoesOnWith(w, m + 3, u)
    BY <1>2, <1>8, <1>10, <1>12 DEF GoesOnWith, x
  <1> QED BY <1>1, <1>4, <1>8, <1>10, <1>11, <1>13 DEF x

(* One turn outside of strings, where nothing is cut. *)
LEMMA OutsideTurn ==
    ASSUME NEW t \in Seq(Symbols), NEW i \in 1..Len(t), NEW s \in States,
           s.mode = "outside", ~CutAt(t, i, s)
    PROVE  /\ t[i] \notin {"'", "(", ")"} => ScanSymbol(t, i, s) = WithNext(s, "outside", s.depth, t[i])
           /\ t[i] = "(" => ScanSymbol(t, i, s) = WithNext(s, "outside", s.depth + 1, t[i])
           /\ t[i] = ")" => ScanSymbol(t, i, s) = WithNext(s, "outside", Unnest(s.depth), t[i])
           /\ t[i] = "'" => ScanSymbol(t, i, s) = WithNext(s, "string", s.depth, t[i])
  <1> DEFINE mode == StringMode(t, i, s.mode)
             depth == Depth(t[i], s.mode, s.depth)
  <1>1. s.mode \in Modes /\ s.depth \in Nat
    BY DEF States
  <1>2. ScanSymbol(t, i, s) = WithNext(s, mode, depth, t[i])
    BY ScanSymbolCases DEF WithNext
  <1>3. mode = IF t[i] = "'" THEN "string" ELSE "outside"
    BY <1>1, StringModeCases
  <1>4. /\ t[i] = "(" => depth = s.depth + 1
        /\ t[i] = ")" => depth = Unnest(s.depth)
        /\ t[i] \notin {"(", ")"} => depth = s.depth
    BY <1>1, DepthCases DEF Unnest
  <1> HIDE DEF mode, depth
  <1>5. t[i] \notin {"'", "(", ")"} => mode = "outside" /\ depth = s.depth
    BY <1>3, <1>4
  <1>6. t[i] = "(" => mode = "outside" /\ depth = s.depth + 1
    BY <1>3, <1>4
  <1>7. t[i] = ")" => mode = "outside" /\ depth = Unnest(s.depth)
    BY <1>3, <1>4
  <1>8. t[i] = "'" => mode = "string" /\ depth = s.depth
    BY <1>3, <1>4
  <1> QED BY <1>2, <1>5, <1>6, <1>7, <1>8

LEMMA NoAndNoCut ==
    ASSUME NEW t, NEW i, t[i] \notin Words, NEW s
    PROVE  ~CutAt(t, i, s)
  BY LowerAnd DEF CutAt, AndAt

LEMMA SpaceTurn ==
    ASSUME NEW t \in Seq(Symbols), NEW i \in 1..Len(t), NEW s \in States,
           s.mode = "outside", t[i] = Space
    PROVE  ScanSymbol(t, i, s) = WithNext(s, "outside", s.depth, Space)
  <1>1. Space \notin Words /\ Space \notin {"'", "(", ")"}
    BY SymbolsDiffer DEF Space
  <1>2. ~CutAt(t, i, s)
    BY <1>1, NoAndNoCut
  <1> QED BY <1>1, <1>2, OutsideTurn

Ends(t) == Scan(t)[Len(t)]
EndsOpen(t) == ~Ground(Ends(t))

LEMMA EndsType == \A t \in Seq(Symbols) : Ends(t) \in States
  <1> SUFFICES ASSUME NEW t \in Seq(Symbols)
               PROVE  Ends(t) \in States
    OBVIOUS
  <1>1. Len(t) \in 0..Len(t)
    OBVIOUS
  <1> QED BY <1>1, ScanDef DEF Ends

(* What is scanned up to the end of an "and" that clauses are cut at. *)
Joint(e) == [mode |-> "outside", depth |-> 0, clause |-> <<Space>>, cut |-> Append(e.cut, Spaced(e.clause))]

LEMMA ScanJoint ==
    ASSUME NEW t \in Seq(Symbols), NEW u \in Seq(Symbols), NEW and \in Spellings("and"),
           ~EndsOpen(t)
    PROVE  LET w == JoinedBy(t, and, u)
           IN  Scan(w)[Len(t) + 3] = Joint(Ends(t)) /\ Joint(Ends(t)) \in States
  <1> DEFINE w == JoinedBy(t, and, u)
             m == Len(t)
             e == Ends(t)
             s1 == WithNext(e, "outside", 0, Space)
             s2 == [mode |-> "outside", depth |-> 0, clause |-> <<>>, cut |-> Append(s1.cut, s1.clause)]
             s3 == WithNext(s2, "outside", 0, Space)
  <1>1. /\ w \in Seq(Symbols) /\ Len(w) = m + 3 + Len(u) /\ m \in Nat /\ Len(u) \in Nat
        /\ w[m + 1] = Space /\ w[m + 2] = and /\ w[m + 3] = Space
        /\ ContinuedBySpace(t, w)
    <2>1. m \in Nat /\ Len(u) \in Nat
      OBVIOUS
    <2> HIDE DEF w
    <2> QED BY <2>1, JoinedParts DEF w
  <1>2. e \in States /\ Ground(e)
    BY EndsType DEF EndsOpen
  <1> HIDE DEF w
  <1>3. Scan(w)[m] = e
    BY <1>1, ScanPrefix DEF Ends
  <1>4. m + 1 \in 1..Len(w) /\ m + 2 \in 1..Len(w) /\ m + 3 \in 1..Len(w)
        /\ m + 1 \in 0..Len(w) /\ m + 2 \in 0..Len(w) /\ m + 3 \in 0..Len(w)
        /\ (m + 1) - 1 = m /\ (m + 2) - 1 = m + 1 /\ (m + 3) - 1 = m + 2
    BY <1>1
  <1> HIDE DEF e, m
  <1>5. Scan(w)[m + 1] = s1 /\ s1 \in States
    <2>1. Scan(w)[m + 1] = ScanSymbol(w, m + 1, e)
      BY <1>1, <1>3, <1>4, ScanDef
    <2>2. ScanSymbol(w, m + 1, e) = s1
      BY <1>1, <1>2, <1>4, SpaceTurn DEF Ground
    <2>3. Scan(w)[m + 1] \in States
      BY <1>1, <1>4, ScanDef
    <2> HIDE DEF s1
    <2> QED BY <2>1, <2>2, <2>3
  <1>6. Ground(s1)
    BY DEF Ground, WithNext
  <1> HIDE DEF s1
  <1>7. Scan(w)[m + 2] = s2 /\ s2 \in States
    <2>1. Scan(w)[m + 2] = ScanSymbol(w, m + 2, s1)
      BY <1>1, <1>4, <1>5, ScanDef
    <2>2. AndAt(w, m + 2)
      <3>1. Space \in Separators
        BY DEF Space, Separators
      <3>2. Lower(w[m + 2]) = "and"
        BY <1>1, LowerAnd
      <3>3. m + 2 - 1 = m + 1 /\ m + 2 + 1 = m + 3
        BY <1>1
      <3>4. StartsWord(w, m + 2) /\ EndsWord(w, m + 2)
        BY <1>1, <3>1, <3>3 DEF StartsWord, EndsWord
      <3> QED BY <3>2, <3>4 DEF AndAt, StartsWord, EndsWord
    <2>3. ScanSymbol(w, m + 2, s1) = s2
      <3>1. CutAt(w, m + 2, s1)
        BY <1>6, <2>2 DEF CutAt
      <3>2. ScanSymbol(w, m + 2, s1) = [mode |-> s1.mode, depth |-> s1.depth, clause |-> <<>>,
                                        cut |-> Append(s1.cut, s1.clause)]
        BY <1>1, <1>4, <1>5, <3>1, ScanSymbolCases
      <3> QED BY <1>6, <3>2 DEF Ground
    <2>4. Scan(w)[m + 2] \in States
      BY <1>1, <1>4, ScanDef
    <2> HIDE DEF s2
    <2> QED BY <2>1, <2>3, <2>4
  <1>8. s2.mode = "outside" /\ s2.depth = 0 /\ s2.clause = <<>> /\ s2.cut = Append(s1.cut, s1.clause)
    OBVIOUS
  <1> HIDE DEF s2
  <1>9. Scan(w)[m + 3] = s3 /\ s3 \in States
    <2>1. Scan(w)[m + 3] = ScanSymbol(w, m + 3, s2)
      BY <1>1, <1>4, <1>7, ScanDef
    <2>2. ScanSymbol(w, m + 3, s2) = s3
      BY <1>1, <1>4, <1>7, <1>8, SpaceTurn
    <2>3. Scan(w)[m + 3] \in States
      BY <1>1, <1>4, ScanDef
    <2> HIDE DEF s3
    <2> QED BY <2>1, <2>2, <2>3
  <1>10. s3 = Joint(e)
    <2>1. s1.cut = e.cut /\ s1.clause = Append(e.clause, Space)
      BY DEF s1, WithNext
    <2>2. e.clause \in Seq(Symbols)
      BY <1>2 DEF States
    <2>3. Append(e.clause, Space) = Spaced(e.clause)
      BY <2>2, SpaceIsText, AppendIsConcat DEF Spaced
    <2>4. Append(<<>>, Space) = <<Space>>
      OBVIOUS
    <2> QED BY <1>8, <2>1, <2>3, <2>4 DEF WithNext, Joint
  <1> QED BY <1>9, <1>10 DEF w, m, e

LEMMA ParseClausesAppend ==
    ASSUME NEW a \in Seq(Seq(Symbols)), NEW c \in Seq(Symbols)
    PROVE  /\ parseClauses[Append(a, c)] = parseClauses[a] \o parseClause(c)
           /\ Append(a, c) \in Seq(Seq(Symbols))
  <1> DEFINE S == Seq(Symbols)
  <1>1. Append(a, c) = a \o <<c>> /\ <<c>> \in Seq(S) /\ Append(a, c) \in Seq(S) /\ <<>> \in Seq(S)
        /\ <<c>> \o <<>> = <<c>>
    <2>1. a \in Seq(S) /\ c \in S
      OBVIOUS
    <2> HIDE DEF S
    <2> QED BY <2>1, AppendIsConcat
  <1>2. parseClauses[a \o <<c>>] = parseClauses[a] \o parseClauses[<<c>>]
    BY <1>1, ParseClausesConcat
  <1>3. parseClauses[<<c>> \o <<>>] = parseClause(c) \o parseClauses[<<>>]
    BY <1>1, ParseClausesParts
  <1>4. parseClauses[<<>>] = <<>> /\ parseClause(c) \in Seq(Filter)
    BY ParseClausesParts, ParseClauseType
  <1>5. parseClause(c) \o <<>> = parseClause(c)
    BY <1>4, ConcatEmptySeq
  <1> QED BY <1>1, <1>2, <1>3, <1>4, <1>5

(* The clauses of a shifted text: the first one has what was before it. *)
LEMMA ShiftedClauses ==
    ASSUME NEW s0 \in States, NEW s \in States
    PROVE  \E first \in Seq(Symbols), rest \in Seq(Seq(Symbols)) :
              /\ Append(s.cut, s.clause) = <<first>> \o rest
              /\ Append(Shifted(s0, s).cut, Shifted(s0, s).clause)
                   = s0.cut \o (<<s0.clause \o first>> \o rest)
  <1> DEFINE S == Seq(Symbols)
             a == s0.cut
             x == s0.clause
             b == s.cut
             c == s.clause
  <1>1. a \in Seq(S) /\ x \in S /\ b \in Seq(S) /\ c \in S
    BY DEF States
  <1>2. Shifted(s0, s).cut = CutAfter(a, x, s) /\ Shifted(s0, s).clause = ClauseAfter(x, s)
    BY DEF Shifted
  <1>3. CASE b = <<>>
    <2>1. CutAfter(a, x, s) = a /\ ClauseAfter(x, s) = x \o c
      BY <1>3 DEF CutAfter, ClauseAfter
    <2>2. x \o c \in S
      BY <1>1
    <2> DEFINE xc == x \o c
    <2> HIDE DEF S, a, x, b, c, xc
    <2>3. Append(b, c) = <<c>> \o <<>> /\ <<>> \in Seq(S)
      BY <1>1, <1>3
    <2>4. Append(a, xc) = a \o (<<xc>> \o <<>>)
      <3>1. xc \in S
        BY <2>2 DEF xc
      <3>2. Append(a, xc) = a \o <<xc>> /\ <<xc>> \o <<>> = <<xc>>
        BY <1>1, <3>1, AppendIsConcat
      <3> QED BY <3>2
    <2>5. Append(Shifted(s0, s).cut, Shifted(s0, s).clause) = a \o (<<x \o c>> \o <<>>)
      BY <1>2, <2>1, <2>4 DEF xc
    <2> QED BY <1>1, <2>3, <2>5 DEF S, a, x, b, c
  <1>4. CASE b # <<>>
    <2> DEFINE first == b[1]
               rest == Tail(Append(b, c))
               xf == x \o first
    <2>1. CutAfter(a, x, s) = a \o (<<xf>> \o Tail(b)) /\ ClauseAfter(x, s) = c
      BY <1>4 DEF CutAfter, ClauseAfter
    <2>2. first \in S
      <3> HIDE DEF S, b
      <3> QED BY <1>1, <1>4, HeadAndTail
    <2>3. xf \in S
      BY <1>1, <2>2
    <2> HIDE DEF S, a, x, b, c, xf
    <2>4. MoreCuts(a, xf, b, c)
      BY <1>1, <1>4, <2>3, AppendToCuts
    <2>5. Append(b, c) \in Seq(S) /\ Append(b, c) # <<>>
      BY <1>1
    <2>6. Append(b, c) = <<first>> \o rest /\ rest \in Seq(S)
      <3>1. Append(b, c)[1] = first
        BY <2>4 DEF MoreCuts
      <3> QED BY <2>5, <3>1, HeadAndTail
    <2>7. Append(a \o (<<xf>> \o Tail(b)), c) = a \o (<<xf>> \o rest)
      BY <2>4 DEF MoreCuts
    <2> HIDE DEF first, rest
    <2>8. Append(Shifted(s0, s).cut, Shifted(s0, s).clause) = a \o (<<x \o first>> \o rest)
      BY <1>2, <2>1, <2>7 DEF xf
    <2> QED BY <2>2, <2>6, <2>8 DEF S, a, x, b, c
  <1> QED BY <1>3, <1>4

(* parse.go:31-88: the filters of two texts joined by an "and" are those of  *)
(* the one and those of the other, if the "and" is outside of strings and    *)
(* parentheses.                                                              *)
THEOREM ParseJoined ==
    ASSUME NEW t \in Seq(Symbols), NEW u \in Seq(Symbols), NEW and \in Spellings("and"),
           ~EndsOpen(t)
    PROVE  /\ ParseFilter(JoinedBy(t, and, u)) = ParseFilter(t) \o ParseFilter(u)
           /\ EndsOpen(JoinedBy(t, and, u)) <=> EndsOpen(u)
  <1> DEFINE w == JoinedBy(t, and, u)
             m == Len(t) + 3
             e == Ends(t)
             s0 == Joint(e)
             y == Ends(u)
             S == Seq(Symbols)
  <1>1. /\ w \in Seq(Symbols) /\ Len(w) = m + Len(u) /\ GoesOnWith(w, m, u)
    <2> HIDE DEF w, m
    <2> QED BY JoinedParts DEF w, m
  <1>2. Scan(w)[m] = s0 /\ s0 \in States
    <2> HIDE DEF w, m, s0
    <2> QED BY ScanJoint DEF w, m, s0
  <1>3. e \in States /\ y \in States
    BY EndsType
  <1>4. s0.cut = Append(e.cut, Spaced(e.clause)) /\ s0.clause = <<Space>> /\ Ground(s0)
    BY DEF Joint, Ground
  <1>5. m \in 0..Len(w) /\ Len(u) \in 0..Len(u)
    <2>1. Len(t) \in Nat /\ Len(u) \in Nat
      OBVIOUS
    <2> HIDE DEF w
    <2> QED BY <1>1, <2>1
  <1> HIDE DEF w, m, s0
  <1>6. Ends(w) = Shifted(s0, y)
    <2>1. \A i \in 0..Len(u) : Scan(w)[m + i] = Shifted(Scan(w)[m], Scan(u)[i])
      BY <1>1, <1>2, <1>4, <1>5, ScanShift
    <2> QED BY <1>1, <1>2, <1>5, <2>1 DEF Ends
  <1>7. EndsOpen(w) <=> EndsOpen(u)
    BY <1>6 DEF EndsOpen, Ground, Shifted
  <1>8. PICK first \in S, rest \in Seq(S) :
            /\ Append(y.cut, y.clause) = <<first>> \o rest
            /\ Append(Shifted(s0, y).cut, Shifted(s0, y).clause)
                 = s0.cut \o (<<s0.clause \o first>> \o rest)
    BY <1>2, <1>3, ShiftedClauses
  <1>9. splitTopLevelAndClauses(u) = <<first>> \o rest
    BY <1>8 DEF splitTopLevelAndClauses, Ends
  <1>10. splitTopLevelAndClauses(w) = s0.cut \o (<<s0.clause \o first>> \o rest)
    BY <1>6, <1>8 DEF splitTopLevelAndClauses, Ends
  <1>11. splitTopLevelAndClauses(t) = Append(e.cut, e.clause)
    BY DEF splitTopLevelAndClauses, Ends
  <1>12. e.cut \in Seq(S) /\ e.clause \in S /\ Spaced(e.clause) \in S
    <2>1. e.cut \in Seq(S) /\ e.clause \in S
      BY <1>3 DEF States
    <2> QED BY <2>1, SpacedParts
  <1>13. parseClauses[s0.cut] = ParseFilter(t) /\ s0.cut \in Seq(S)
    <2>1. parseClauses[s0.cut] = parseClauses[e.cut] \o parseClause(Spaced(e.clause))
          /\ s0.cut \in Seq(S)
      BY <1>4, <1>12, ParseClausesAppend
    <2>2. parseClauses[Append(e.cut, e.clause)] = parseClauses[e.cut] \o parseClause(e.clause)
      BY <1>12, ParseClausesAppend
    <2>3. parseClause(Spaced(e.clause)) = parseClause(e.clause)
      BY <1>12, ParseSpaced
    <2> QED BY <1>11, <2>1, <2>2, <2>3 DEF ParseFilter
  <1>14. ParseFilter(u) = parseClause(first) \o parseClauses[rest]
    BY <1>9, ParseClausesParts DEF ParseFilter
  <1>15. <<Space>> \o first \in S /\ <<<<Space>> \o first>> \o rest \in Seq(S)
    <2>1. <<Space>> \o first \in S
      BY SpaceIsText, TextConcat
    <2> DEFINE x == <<Space>> \o first
    <2> HIDE DEF x, S
    <2>2. x \in S
      BY <2>1 DEF x
    <2>3. <<x>> \o rest \in Seq(S)
      BY <2>2
    <2> QED BY <2>1, <2>3 DEF x
  <1>16. parseClauses[<<<<Space>> \o first>> \o rest] = ParseFilter(u)
    <2>1. parseClauses[<<<<Space>> \o first>> \o rest]
            = parseClause(<<Space>> \o first) \o parseClauses[rest]
      BY <1>15, ParseClausesParts
    <2>2. parseClause(<<Space>> \o first) = parseClause(first)
      BY ParseSpaced
    <2> QED BY <1>14, <2>1, <2>2
  <1>17. ParseFilter(w) = parseClauses[s0.cut] \o parseClauses[<<<<Space>> \o first>> \o rest]
    <2>1. ParseFilter(w) = parseClauses[s0.cut \o (<<<<Space>> \o first>> \o rest)]
      BY <1>4, <1>10 DEF ParseFilter
    <2> QED BY <1>13, <1>15, <2>1, ParseClausesConcat
  <1> QED BY <1>7, <1>13, <1>16, <1>17 DEF w

-----------------------------------------------------------------------------
(* A text that is closed, by what its quotes and parentheses mean, ends      *)
(* outside of strings and parentheses.                                       *)

LEMMA CountOneMore ==
    ASSUME NEW S, NEW T, IsFiniteSet(S), NEW x, x \notin S, NEW p \in BOOLEAN,
           T = IF p THEN S \cup {x} ELSE S
    PROVE  /\ IsFiniteSet(T) /\ Cardinality(S) \in Nat
           /\ Cardinality(T) = IF p THEN Cardinality(S) + 1 ELSE Cardinality(S)
  BY FS_AddElement, FS_CardinalityType

Quotes(t, k) == {j \in 1..k : t[j] = "'"}

LEMMA QuotesCount ==
    ASSUME NEW t, NEW k \in Nat
    PROVE  /\ Cardinality(Quotes(t, k)) \in Nat /\ Cardinality(Quotes(t, 0)) = 0
           /\ Cardinality(Quotes(t, k + 1)) =
                IF t[k + 1] = "'" THEN Cardinality(Quotes(t, k)) + 1 ELSE Cardinality(Quotes(t, k))
  <1>1. IsFiniteSet(Quotes(t, k))
    <2>1. IsFiniteSet(1..k)
      BY FS_Interval
    <2>2. Quotes(t, k) \subseteq 1..k
      BY DEF Quotes
    <2> QED BY <2>1, <2>2, FS_Subset
  <1>2. k + 1 \notin Quotes(t, k)
    BY DEF Quotes
  <1>3. Quotes(t, k + 1) = IF t[k + 1] = "'" THEN Quotes(t, k) \cup {k + 1} ELSE Quotes(t, k)
    <2>1. 1..k + 1 = 1..k \cup {k + 1}
      OBVIOUS
    <2> QED BY <2>1 DEF Quotes
  <1>4. Quotes(t, 0) = {}
    BY DEF Quotes
  <1> DEFINE p == t[k + 1] = "'"
             S == Quotes(t, k)
             T == Quotes(t, k + 1)
             x == k + 1
  <1>5. p \in BOOLEAN /\ IsFiniteSet(S) /\ x \notin S /\ T = IF p THEN S \cup {x} ELSE S
    BY <1>1, <1>2, <1>3
  <1> HIDE DEF p, S, T, x
  <1>6. Cardinality(S) \in Nat /\ Cardinality(T) = IF p THEN Cardinality(S) + 1 ELSE Cardinality(S)
    BY <1>5, CountOneMore
  <1> QED BY <1>4, <1>6, FS_EmptySet DEF p, S, T, x

LEMMA InStringSteps ==
    ASSUME NEW t
    PROVE  /\ ~InString(t, 1)
           /\ \A k \in Nat :
                 InString(t, (k + 1) + 1) <=> (IF t[k + 1] = "'" THEN ~InString(t, k + 1) ELSE InString(t, k + 1))
  <1>1. ASSUME NEW k \in Nat
        PROVE  InString(t, k + 1) <=> Cardinality(Quotes(t, k)) % 2 = 1
    <2>1. (k + 1) - 1 = k
      OBVIOUS
    <2> QED BY <2>1 DEF InString, Quotes
  <1>2. ~InString(t, 1)
    <2>1. InString(t, 0 + 1) <=> Cardinality(Quotes(t, 0)) % 2 = 1
      BY <1>1
    <2>2. Cardinality(Quotes(t, 0)) = 0
      BY QuotesCount
    <2> QED BY <2>1, <2>2
  <1>3. ASSUME NEW k \in Nat
        PROVE  InString(t, (k + 1) + 1) <=> (IF t[k + 1] = "'" THEN ~InString(t, k + 1) ELSE InString(t, k + 1))
    <2> DEFINE n == Cardinality(Quotes(t, k))
               n1 == Cardinality(Quotes(t, k + 1))
    <2>1. n \in Nat /\ n1 = IF t[k + 1] = "'" THEN n + 1 ELSE n
      BY QuotesCount
    <2>2. InString(t, k + 1) <=> n % 2 = 1
      BY <1>1
    <2>3. InString(t, (k + 1) + 1) <=> n1 % 2 = 1
      BY <1>1
    <2> HIDE DEF n, n1
    <2>4. (n + 1) % 2 = 1 <=> ~(n % 2 = 1)
      BY <2>1
    <2> QED BY <2>1, <2>2, <2>3, <2>4
  <1> QED BY <1>2, <1>3

(* An "and" that clauses are cut at is no quote and no parenthesis. *)
LEMMA NextModeAndDepth ==
    ASSUME NEW t \in Seq(Symbols), NEW k \in 1..Len(t)
    PROVE  LET s == Scan(t)[k - 1]
           IN  /\ s \in States
               /\ Scan(t)[k].mode = StringMode(t, k, s.mode)
               /\ Scan(t)[k].depth = Depth(t[k], s.mode, s.depth)
  <1> DEFINE s == Scan(t)[k - 1]
  <1>1. s \in States /\ Scan(t)[k] = ScanSymbol(t, k, s)
    <2>1. k - 1 \in 0..Len(t)
      OBVIOUS
    <2> QED BY <2>1, ScanDef
  <1> HIDE DEF s
  <1>2. CASE CutAt(t, k, s)
    <2>1. s.mode = "outside" /\ t[k] \in Words /\ s.depth \in Nat
      BY <1>1, <1>2, LowerAnd DEF CutAt, AndAt, Ground, States
    <2>2. t[k] \notin {"'", "(", ")"}
      BY <2>1, SymbolsDiffer DEF Punctuation
    <2>3. ScanSymbol(t, k, s).mode = s.mode /\ ScanSymbol(t, k, s).depth = s.depth
      BY <1>1, <1>2, ScanSymbolCases
    <2>4. StringMode(t, k, s.mode) = s.mode
      BY <2>1, <2>2, StringModeCases DEF Modes
    <2>5. Depth(t[k], s.mode, s.depth) = s.depth
      <3>1. s.mode \in Modes /\ t[k] \notin {"(", ")"}
        BY <2>1, <2>2 DEF Modes
      <3> QED BY <2>1, <3>1, DepthCases
    <2> QED BY <1>1, <2>3, <2>4, <2>5 DEF s
  <1>3. CASE ~CutAt(t, k, s)
    BY <1>1, <1>3, ScanSymbolCases DEF s
  <1> QED BY <1>2, <1>3

QuotesTracked(t, n, mode) ==
    /\ mode \in Modes
    /\ mode = "string" <=> InString(t, n + 1)
    /\ mode = "escaped" => QuoteFollows(t, n)

LEMMA ModeTracksQuotes ==
    ASSUME NEW t \in Seq(Symbols)
    PROVE  \A n \in 0..Len(t) : QuotesTracked(t, n, Scan(t)[n].mode)
  <1> DEFINE P == {n \in Nat : n \in 0..Len(t) => QuotesTracked(t, n, Scan(t)[n].mode)}
  <1>1. 0 \in P
    <2>1. Scan(t)[0].mode = "outside"
      BY ScanDef DEF Unscanned
    <2>2. ~InString(t, 0 + 1)
      BY InStringSteps
    <2> QED BY <2>1, <2>2 DEF QuotesTracked, Modes
  <1>2. ASSUME NEW n \in Nat, n \in P, n + 1 \in 0..Len(t)
        PROVE  QuotesTracked(t, n + 1, Scan(t)[n + 1].mode)
    <2> DEFINE k == n + 1
               mode == Scan(t)[n].mode
               next == Scan(t)[n + 1].mode
    <2>1. k \in 1..Len(t) /\ n \in 0..Len(t) /\ k - 1 = n
      BY <1>2
    <2>2. QuotesTracked(t, n, mode)
      BY <1>2, <2>1
    <2>3. next = StringMode(t, k, mode)
      BY <2>1, NextModeAndDepth
    <2>4. InString(t, k + 1) <=> (IF t[k] = "'" THEN ~InString(t, k) ELSE InString(t, k))
      BY InStringSteps
    <2> HIDE DEF mode, next
    <2>5. mode = "escaped" => t[k] = "'"
      BY <2>2 DEF QuotesTracked, QuoteFollows
    <2>6. mode \in Modes /\ (mode = "string" <=> InString(t, k))
      BY <2>2 DEF QuotesTracked
    <2> HIDE DEF k
    <2>7. /\ next \in Modes
          /\ mode = "escaped" => next = "string"
          /\ mode = "string" /\ t[k] = "'" =>
                next = IF QuoteFollows(t, k) THEN "escaped" ELSE "outside"
          /\ mode = "string" /\ t[k] # "'" => next = "string"
          /\ mode = "outside" /\ t[k] = "'" => next = "string"
          /\ mode = "outside" /\ t[k] # "'" => next = "outside"
      BY <2>3, <2>6, StringModeCases DEF QuoteFollows
    <2>8. mode = "escaped" => QuotesTracked(t, k, next)
      BY <2>4, <2>5, <2>6, <2>7 DEF QuotesTracked
    <2>9. mode = "string" => QuotesTracked(t, k, next)
      BY <2>4, <2>6, <2>7 DEF QuotesTracked
    <2>10. mode = "outside" => QuotesTracked(t, k, next)
      BY <2>4, <2>6, <2>7 DEF QuotesTracked
    <2>11. QuotesTracked(t, k, next)
      BY <2>6, <2>8, <2>9, <2>10 DEF Modes
    <2> QED BY <2>11 DEF k, next
  <1>3. \A n \in Nat : n \in P => n + 1 \in P
    BY <1>2
  <1>4. Nat \subseteq P
    <2> HIDE DEF P
    <2> QED BY <1>1, <1>3, SetInduction
  <1>5. 0..Len(t) \subseteq Nat
    OBVIOUS
  <1> QED BY <1>4, <1>5

LEMMA ParensSteps ==
    ASSUME NEW t \in Seq(Symbols), NEW p
    PROVE  /\ Parens(t, p, Len(t) + 1) = 0
           /\ \A k \in 1..Len(t) :
                 /\ Parens(t, p, k + 1) \in Nat
                 /\ Parens(t, p, k) =
                      IF t[k] = p /\ ~InString(t, k) THEN Parens(t, p, k + 1) + 1 ELSE Parens(t, p, k + 1)
  <1> DEFINE Set(k) == {j \in k..Len(t) : t[j] = p /\ ~InString(t, j)}
  <1>1. Parens(t, p, Len(t) + 1) = 0
    <2>1. Set(Len(t) + 1) = {}
      OBVIOUS
    <2> QED BY <2>1, FS_EmptySet DEF Parens
  <1>2. ASSUME NEW k \in 1..Len(t)
        PROVE  /\ Parens(t, p, k + 1) \in Nat
               /\ Parens(t, p, k) =
                      IF t[k] = p /\ ~InString(t, k) THEN Parens(t, p, k + 1) + 1 ELSE Parens(t, p, k + 1)
    <2> DEFINE S == Set(k + 1)
               T == Set(k)
               q == t[k] = p /\ ~InString(t, k)
    <2>1. IsFiniteSet(S)
      <3>1. IsFiniteSet(k + 1..Len(t))
        BY FS_Interval
      <3>2. S \subseteq k + 1..Len(t)
        OBVIOUS
      <3> QED BY <3>1, <3>2, FS_Subset
    <2>2. k \notin S
      OBVIOUS
    <2>3. T = IF q THEN S \cup {k} ELSE S
      <3>1. k..Len(t) = (k + 1..Len(t)) \cup {k}
        OBVIOUS
      <3> QED BY <3>1
    <2>4. q \in BOOLEAN
      OBVIOUS
    <2>5. Parens(t, p, k + 1) = Cardinality(S) /\ Parens(t, p, k) = Cardinality(T)
      BY DEF Parens
    <2> HIDE DEF S, T, q
    <2>6. Cardinality(S) \in Nat /\ Cardinality(T) = IF q THEN Cardinality(S) + 1 ELSE Cardinality(S)
      BY <2>1, <2>2, <2>3, <2>4, CountOneMore
    <2> QED BY <2>5, <2>6 DEF q
  <1> QED BY <1>1, <1>2

LEMMA ClosedEnds ==
    ASSUME NEW t \in Seq(Symbols), Closed(t)
    PROVE  ~EndsOpen(t)
  <1> DEFINE Held(n) == Scan(t)[n].depth + Parens(t, "(", n + 1) <= Parens(t, ")", n + 1)
             P == {n \in Nat : n \in 0..Len(t) => Held(n)}
  <1>0. Len(t) \in Nat
    OBVIOUS
  <1>1. \A n \in 0..Len(t) : /\ Parens(t, "(", n + 1) \in Nat /\ Parens(t, ")", n + 1) \in Nat
                             /\ Parens(t, "(", n + 1) <= Parens(t, ")", n + 1)
    <2> SUFFICES ASSUME NEW n \in 0..Len(t)
                 PROVE  /\ Parens(t, "(", n + 1) \in Nat /\ Parens(t, ")", n + 1) \in Nat
                        /\ Parens(t, "(", n + 1) <= Parens(t, ")", n + 1)
      OBVIOUS
    <2>1. CASE n = Len(t)
      BY <2>1, ParensSteps
    <2>2. CASE n # Len(t)
      <3>1. n + 1 \in 1..Len(t)
        BY <2>2
      <3>2. Parens(t, "(", n + 1) <= Parens(t, ")", n + 1)
        BY <3>1 DEF Closed
      <3>3. ASSUME NEW p
            PROVE  Parens(t, p, n + 1) \in Nat
        <4>1. Parens(t, p, n + 1 + 1) \in Nat
          BY <3>1, ParensSteps
        <4>2. Parens(t, p, n + 1) = IF t[n + 1] = p /\ ~InString(t, n + 1)
                                    THEN Parens(t, p, n + 1 + 1) + 1 ELSE Parens(t, p, n + 1 + 1)
          BY <3>1, ParensSteps
        <4> QED BY <4>1, <4>2
      <3> QED BY <3>2, <3>3
    <2> QED BY <2>1, <2>2
  <1>2. 0 \in P
    <2>1. Scan(t)[0].depth = 0 /\ 0 \in 0..Len(t)
      BY ScanDef DEF Unscanned
    <2>2. Parens(t, "(", 0 + 1) \in Nat /\ Parens(t, "(", 0 + 1) <= Parens(t, ")", 0 + 1)
      BY <1>1, <2>1
    <2> QED BY <2>1, <2>2
  <1>3. ASSUME NEW n \in Nat, n \in P, n + 1 \in 0..Len(t)
        PROVE  Held(n + 1)
    <2> DEFINE k == n + 1
               d == Scan(t)[n].depth
               d1 == Scan(t)[k].depth
               mode == Scan(t)[n].mode
               o == Parens(t, "(", k)
               o1 == Parens(t, "(", k + 1)
               c == Parens(t, ")", k)
               c1 == Parens(t, ")", k + 1)
    <2>1. k \in 1..Len(t) /\ k \in 0..Len(t) /\ n \in 0..Len(t) /\ k - 1 = n
      BY <1>3
    <2>2. d + o <= c
      BY <1>3, <2>1
    <2>3. o1 \in Nat /\ c1 \in Nat /\ o1 <= c1
      BY <1>1, <2>1
    <2>4. d1 = Depth(t[k], mode, d) /\ d \in Nat /\ mode \in Modes
      <3>1. Scan(t)[n] \in States
        BY <2>1, NextModeAndDepth
      <3>2. d1 = Depth(t[k], mode, d)
        BY <2>1, NextModeAndDepth
      <3> QED BY <3>1, <3>2 DEF States
    <2>5. QuotesTracked(t, n, mode)
      BY <2>1, ModeTracksQuotes
    <2>6. /\ o = IF t[k] = "(" /\ ~InString(t, k) THEN o1 + 1 ELSE o1
          /\ c = IF t[k] = ")" /\ ~InString(t, k) THEN c1 + 1 ELSE c1
      BY <2>1, ParensSteps
    <2>7. mode = "string" <=> InString(t, k)
      BY <2>5 DEF QuotesTracked
    <2>8. mode = "escaped" => t[k] = "'"
      BY <2>5 DEF QuotesTracked, QuoteFollows
    <2> HIDE DEF k, d, d1, mode, o, o1, c, c1
    <2>9. CASE t[k] = "(" /\ mode = "outside"
      <3>1. d1 = d + 1 /\ ~InString(t, k) /\ o = o1 + 1 /\ c = c1
        BY <2>4, <2>6, <2>7, <2>9, DepthCases
      <3> QED BY <2>2, <2>3, <2>4, <3>1 DEF d1, o1, c1, k
    <2>10. CASE t[k] = ")" /\ mode = "outside"
      <3>1. d1 = (IF d > 0 THEN d - 1 ELSE 0) /\ ~InString(t, k) /\ o = o1 /\ c = c1 + 1
        BY <2>4, <2>6, <2>7, <2>10, DepthCases
      <3>2. d1 + o1 <= c1
        BY <2>2, <2>3, <2>4, <3>1
      <3> QED BY <3>2 DEF d1, o1, c1, k
    <2>11. CASE mode # "outside" \/ t[k] \notin {"(", ")"}
      <3>1. d1 = d
        BY <2>4, <2>11, DepthCases
      <3>2. o = o1 /\ c = c1
        <4>1. CASE t[k] \notin {"(", ")"}
          BY <2>6, <4>1
        <4>2. CASE mode = "string"
          BY <2>6, <2>7, <4>2
        <4>3. CASE mode = "escaped"
          BY <2>6, <2>8, <4>3
        <4> QED BY <2>4, <2>11, <4>1, <4>2, <4>3 DEF Modes
      <3> QED BY <2>2, <3>1, <3>2 DEF d1, o1, c1, k
    <2> QED BY <2>9, <2>10, <2>11
  <1>4. \A n \in Nat : n \in P => n + 1 \in P
    BY <1>3
  <1>5. Nat \subseteq P
    <2> HIDE DEF P
    <2> QED BY <1>2, <1>4, SetInduction
  <1>6. Held(Len(t))
    BY <1>0, <1>5
  <1>7. Ends(t) \in States
    BY EndsType
  <1>8. Ends(t).depth = 0
    <2>1. Ends(t).depth \in Nat
      BY <1>7 DEF States
    <2>2. Parens(t, "(", Len(t) + 1) = 0 /\ Parens(t, ")", Len(t) + 1) = 0
      BY ParensSteps
    <2>3. Ends(t).depth + 0 <= 0
      BY <1>6, <2>2 DEF Ends
    <2> QED BY <2>1, <2>3
  <1>9. Ends(t).mode = "outside"
    <2>1. QuotesTracked(t, Len(t), Ends(t).mode)
      BY <1>0, ModeTracksQuotes DEF Ends
    <2>2. ~InString(t, Len(t) + 1)
      BY DEF Closed
    <2>3. ~QuoteFollows(t, Len(t))
      BY <1>0 DEF QuoteFollows
    <2> QED BY <2>1, <2>2, <2>3 DEF QuotesTracked, Modes
  <1> QED BY <1>8, <1>9 DEF EndsOpen, Ground

-----------------------------------------------------------------------------
(* A text in which no "and" is cut at is one clause.  The modes and depths    *)
(* of a text, and where it may be cut, are followed piece by piece.           *)

NoCut(t, m, n) == \A i \in m + 1..n : ~CutAt(t, i, Scan(t)[i - 1])

LEMMA UncutText ==
    ASSUME NEW t \in Seq(Symbols), NoCut(t, 0, Len(t))
    PROVE  splitTopLevelAndClauses(t) = <<t>>
  <1> DEFINE Read(n) == Scan(t)[n].cut = <<>> /\ Scan(t)[n].clause = SubSeq(t, 1, n)
             P == {n \in Nat : n \in 0..Len(t) => Read(n)}
  <1>1. 0 \in P
    <2>1. SubSeq(t, 1, 0) = <<>>
      OBVIOUS
    <2>2. Scan(t)[0] = Unscanned
      BY ScanDef
    <2>3. Scan(t)[0].cut = <<>> /\ Scan(t)[0].clause = <<>>
      BY <2>2 DEF Unscanned
    <2> QED BY <2>1, <2>3
  <1>2. ASSUME NEW n \in Nat, n \in P, n + 1 \in 0..Len(t)
        PROVE  Read(n + 1)
    <2> DEFINE k == n + 1
               s == Scan(t)[n]
    <2>1. k \in 1..Len(t) /\ n \in 0..Len(t) /\ k - 1 = n /\ k \in 0 + 1..Len(t)
      BY <1>2
    <2>2. s.cut = <<>> /\ s.clause = SubSeq(t, 1, n)
      BY <1>2, <2>1
    <2>3. s \in States /\ Scan(t)[k] = ScanSymbol(t, k, s)
      BY <2>1, ScanDef
    <2>4. ~CutAt(t, k, s)
      BY <2>1 DEF NoCut
    <2> HIDE DEF s
    <2>5. Scan(t)[k].cut = s.cut /\ Scan(t)[k].clause = Append(s.clause, t[k])
      BY <2>1, <2>3, <2>4, ScanSymbolCases
    <2>6. Append(SubSeq(t, 1, n), t[k]) = SubSeq(t, 1, k)
      <3>1. SubSeq(t, 1, k) = SubSeq(t, 1, k - 1) \o <<t[k]>>
        BY <2>1, SubSeqRecursiveSecond
      <3>2. SubSeq(t, 1, n) \in Seq(Symbols) /\ t[k] \in Symbols
        BY <2>1
      <3>3. Append(SubSeq(t, 1, n), t[k]) = SubSeq(t, 1, n) \o <<t[k]>>
        BY <3>2, AppendIsConcat
      <3> QED BY <2>1, <3>1, <3>3
    <2> QED BY <2>2, <2>5, <2>6
  <1>3. \A n \in Nat : n \in P => n + 1 \in P
    BY <1>2
  <1>4. Nat \subseteq P
    <2> HIDE DEF P
    <2> QED BY <1>1, <1>3, SetInduction
  <1>5. Read(Len(t))
    <2>1. Len(t) \in Nat /\ Len(t) \in 0..Len(t)
      OBVIOUS
    <2> QED BY <1>4, <2>1
  <1>6. SubSeq(t, 1, Len(t)) = t
    OBVIOUS
  <1>7. splitTopLevelAndClauses(t) = Append(<<>>, t)
    BY <1>5, <1>6 DEF splitTopLevelAndClauses
  <1> QED BY <1>7

(* The text w is in t, after m symbols. *)
Here(t, m, w) ==
    /\ m + Len(w) <= Len(t)
    /\ \A i \in 1..Len(w) : t[m + i] = w[i]

LEMMA HereAll == \A t \in Seq(Symbols) : Here(t, 0, t)
  BY DEF Here

LEMMA HereParts ==
    ASSUME NEW t \in Seq(Symbols), NEW m \in Nat, NEW a \in Seq(Symbols), NEW b \in Seq(Symbols),
           Here(t, m, a \o b)
    PROVE  /\ Here(t, m, a)
           /\ Here(t, m + Len(a), b)
           /\ m + Len(a) \in Nat /\ Len(a \o b) = Len(a) + Len(b)
  <1> DEFINE w == a \o b
  <1>1. /\ Len(w) = Len(a) + Len(b) /\ Len(a) \in Nat /\ Len(b) \in Nat /\ Len(t) \in Nat
        /\ \A i \in 1..Len(a) + Len(b) : w[i] = IF i <= Len(a) THEN a[i] ELSE b[i - Len(a)]
    BY ConcatProperties
  <1>2. m + Len(w) <= Len(t) /\ \A i \in 1..Len(w) : t[m + i] = w[i]
    BY DEF Here
  <1> HIDE DEF w
  <1>3. \A i \in 1..Len(a) : t[m + i] = a[i]
    <2> TAKE i \in 1..Len(a)
    <2>1. i \in 1..Len(a) + Len(b) /\ i \in 1..Len(w) /\ i <= Len(a)
      BY <1>1
    <2> QED BY <1>1, <1>2, <2>1
  <1>4. \A i \in 1..Len(b) : t[m + Len(a) + i] = b[i]
    <2> TAKE i \in 1..Len(b)
    <2> DEFINE j == Len(a) + i
    <2>1. j \in 1..Len(a) + Len(b) /\ j \in 1..Len(w) /\ ~(j <= Len(a)) /\ j - Len(a) = i
          /\ m + j = m + Len(a) + i
      BY <1>1
    <2> HIDE DEF j
    <2>2. t[m + j] = w[j] /\ w[j] = b[j - Len(a)]
      BY <1>1, <1>2, <2>1
    <2> QED BY <2>1, <2>2
  <1>5. m + Len(a) <= Len(t) /\ m + Len(a) + Len(b) <= Len(t)
    BY <1>1, <1>2
  <1> QED BY <1>1, <1>3, <1>4, <1>5 DEF Here, w

(* The loop is in a mode, and in so many parentheses, after m symbols.       *)
At(t, m, mode, depth) == Scan(t)[m].mode = mode /\ Scan(t)[m].depth = depth

(* From m to n, nothing is cut. *)
Passes(t, m, n, mode, depth) == NoCut(t, m, n) /\ At(t, n, mode, depth)

LEMMA NoCutJoins ==
    ASSUME NEW t, NEW m \in Nat, NEW k \in Nat, NEW n \in Nat, NoCut(t, m, k), NoCut(t, k, n)
    PROVE  NoCut(t, m, n)
  <1> SUFFICES ASSUME NEW i \in m + 1..n
               PROVE  ~CutAt(t, i, Scan(t)[i - 1])
    BY DEF NoCut
  <1>1. i \in m + 1..k \/ i \in k + 1..n
    OBVIOUS
  <1> QED BY <1>1 DEF NoCut

(* One symbol. *)
LEMMA Turns ==
    ASSUME NEW t \in Seq(Symbols), NEW m \in Nat, m + 1 <= Len(t),
           NEW mode \in Modes, NEW d \in Nat, At(t, m, mode, d)
    PROVE  /\ At(t, m + 1, StringMode(t, m + 1, mode), Depth(t[m + 1], mode, d))
           /\ mode # "outside" \/ d > 0 \/ ~AndAt(t, m + 1) => NoCut(t, m, m + 1)
  <1>1. m + 1 \in 1..Len(t) /\ m + 1 - 1 = m
    OBVIOUS
  <1>2. At(t, m + 1, StringMode(t, m + 1, mode), Depth(t[m + 1], mode, d))
    BY <1>1, NextModeAndDepth DEF At
  <1>3. ASSUME mode # "outside" \/ d > 0 \/ ~AndAt(t, m + 1), NEW i \in m + 1..m + 1
        PROVE  ~CutAt(t, i, Scan(t)[i - 1])
    <2>1. i = m + 1 /\ i - 1 = m
      OBVIOUS
    <2>2. ~Ground(Scan(t)[m]) \/ ~AndAt(t, m + 1)
      BY <1>3 DEF Ground, At
    <2> QED BY <2>1, <2>2 DEF CutAt
  <1> QED BY <1>2, <1>3 DEF NoCut

(* Symbols that are no quotes and no parentheses. *)
LEMMA PlainPasses ==
    ASSUME NEW t \in Seq(Symbols), NEW m \in Nat, NEW w \in Seq(Symbols), Here(t, m, w),
           \A i \in 1..Len(w) : w[i] \notin {"'", "(", ")"},
           NEW d \in Nat, At(t, m, "outside", d),
           d > 0 \/ \A i \in 1..Len(w) : ~AndAt(t, m + i)
    PROVE  Passes(t, m, m + Len(w), "outside", d)
  <1> DEFINE P == {n \in Nat : n \in 0..Len(w) => Passes(t, m, m + n, "outside", d)}
  <1>1. 0 \in P
    BY DEF Passes, NoCut
  <1>2. ASSUME NEW n \in Nat, n \in P, n + 1 \in 0..Len(w)
        PROVE  Passes(t, m, m + (n + 1), "outside", d)
    <2> DEFINE k == m + n
    <2>1. k \in Nat /\ k + 1 <= Len(t) /\ k + 1 = m + (n + 1) /\ n + 1 \in 1..Len(w) /\ n \in 0..Len(w)
      BY <1>2 DEF Here
    <2>2. Passes(t, m, k, "outside", d)
      BY <1>2, <2>1
    <2>3. t[k + 1] = w[n + 1] /\ w[n + 1] \notin {"'", "(", ")"}
      BY <2>1 DEF Here
    <2>4. d > 0 \/ ~AndAt(t, k + 1)
      BY <2>1
    <2> HIDE DEF k
    <2>5. At(t, k, "outside", d) /\ "outside" \in Modes
      BY <2>2 DEF Passes, Modes
    <2>6. StringMode(t, k + 1, "outside") = "outside"
      BY <2>3, <2>5, StringModeCases
    <2>7. Depth(t[k + 1], "outside", d) = d
      BY <2>3, <2>5, DepthCases
    <2>8. At(t, k + 1, "outside", d)
      BY <2>1, <2>5, <2>6, <2>7, Turns
    <2>9. NoCut(t, k, k + 1)
      BY <2>1, <2>4, <2>5, Turns
    <2>10. NoCut(t, m, k + 1)
      BY <2>1, <2>2, <2>9, NoCutJoins DEF Passes
    <2> QED BY <2>1, <2>8, <2>10 DEF Passes
  <1>3. ASSUME NEW n \in Nat, n \in P
        PROVE  n + 1 \in P
    <2> DEFINE k == n + 1
    <2>1. k \in Nat /\ (k \in 0..Len(w) => Passes(t, m, m + k, "outside", d))
      <3>1. ASSUME k \in 0..Len(w)
            PROVE  Passes(t, m, m + k, "outside", d)
        <4>1. n \in Nat /\ n \in P /\ n + 1 \in 0..Len(w)
          BY <1>3, <3>1
        <4> HIDE DEF P
        <4>2. Passes(t, m, m + (n + 1), "outside", d)
          BY <1>2, <4>1
        <4> QED BY <4>2
      <3> QED BY <3>1
    <2> HIDE DEF k
    <2>2. k \in P
      BY <2>1
    <2> QED BY <2>2 DEF k
  <1>4. Nat \subseteq P
    <2> HIDE DEF P
    <2> QED BY <1>1, <1>3, SetInduction
  <1>5. Len(w) \in Nat /\ Len(w) \in 0..Len(w)
    OBVIOUS
  <1> QED BY <1>4, <1>5

LEMMA ParensPass ==
    ASSUME NEW t \in Seq(Symbols), NEW m \in Nat, NEW d \in Nat, At(t, m, "outside", d)
    PROVE  /\ Here(t, m, <<"(">>) => Passes(t, m, m + 1, "outside", d + 1)
           /\ Here(t, m, <<")">>) => Passes(t, m, m + 1, "outside", Unnest(d))
  <1>1. "outside" \in Modes
    BY DEF Modes
  <1>2. ASSUME NEW p \in {"(", ")"}, Here(t, m, <<p>>)
        PROVE  Passes(t, m, m + 1, "outside", IF p = "(" THEN d + 1 ELSE Unnest(d))
    <2> DEFINE e == IF p = "(" THEN d + 1 ELSE Unnest(d)
    <2>1. m + 1 <= Len(t) /\ t[m + 1] = p
      BY <1>2 DEF Here
    <2>2. ~AndAt(t, m + 1)
      <3>1. t[m + 1] \notin Words
        BY <2>1, SymbolsDiffer DEF Punctuation
      <3> QED BY <3>1, LowerAnd DEF AndAt
    <2>3. StringMode(t, m + 1, "outside") = "outside"
      <3>1. t[m + 1] # "'"
        BY <2>1
      <3> QED BY <1>1, <3>1, StringModeCases
    <2>4. Depth(t[m + 1], "outside", d) = e
      BY <2>1, <1>1, DepthCases DEF Unnest
    <2> HIDE DEF e
    <2>5. At(t, m + 1, "outside", e)
      BY <1>1, <2>1, <2>3, <2>4, Turns
    <2>6. NoCut(t, m, m + 1)
      BY <1>1, <2>1, <2>2, Turns
    <2> QED BY <2>5, <2>6 DEF Passes, e
  <1>3. Here(t, m, <<"(">>) => Passes(t, m, m + 1, "outside", d + 1)
    BY <1>2
  <1>4. Here(t, m, <<")">>) => Passes(t, m, m + 1, "outside", Unnest(d))
    BY <1>2
  <1> QED BY <1>3, <1>4

LEMMA EscapedPasses ==
    ASSUME NEW t \in Seq(Symbols), NEW d \in Nat
    PROVE  \A v \in Seq(Symbols) : \A m \in Nat :
              Here(t, m, Escaped[v]) /\ At(t, m, "string", d)
                => Passes(t, m, m + Len(Escaped[v]), "string", d)
  <1> DEFINE Ok(v, m) == Here(t, m, Escaped[v]) /\ At(t, m, "string", d)
                            => Passes(t, m, m + Len(Escaped[v]), "string", d)
             P == {v \in Seq(Symbols) : \A m \in Nat : Ok(v, m)}
  <1>0. "string" \in Modes /\ "escaped" \in Modes /\ Len(t) \in Nat
    BY DEF Modes
  <1>1. <<>> \in P
    <2>1. Escaped[<<>>] = <<>> /\ Len(<<>>) = 0 /\ <<>> \in Seq(Symbols)
      BY EscapedParts
    <2> QED BY <2>1 DEF Passes, NoCut
  <1>2. ASSUME NEW x \in Symbols, NEW v \in Seq(Symbols), v \in P,
               NEW m \in Nat, Here(t, m, Escaped[<<x>> \o v]), At(t, m, "string", d)
        PROVE  Passes(t, m, m + Len(Escaped[<<x>> \o v]), "string", d)
    <2> DEFINE esc == IF x = "'" THEN <<"'", "'">> ELSE <<x>>
               ev == Escaped[v]
    <2>1. Escaped[<<x>> \o v] = esc \o ev /\ esc \in Seq(Symbols) /\ ev \in Seq(Symbols)
      BY EscapedParts, EscapedSymbol, EscapedType
    <2> HIDE DEF ev
    <2>2. /\ Here(t, m, esc) /\ Here(t, m + Len(esc), ev)
          /\ m + Len(esc) \in Nat /\ Len(esc \o ev) = Len(esc) + Len(ev)
      <3> HIDE DEF esc
      <3> QED BY <1>2, <2>1, HereParts
    <2>3. Passes(t, m, m + Len(esc), "string", d)
      <3>1. CASE x = "'"
        <4>1. Len(esc) = 2 /\ esc[1] = "'" /\ esc[2] = "'"
          BY <3>1
        <4> HIDE DEF esc
        <4>2. m + 2 <= Len(t) /\ t[m + 1] = "'" /\ t[m + 2] = "'"
          BY <2>2, <4>1 DEF Here
        <4>3. m + 1 < Len(t) /\ m + 1 + 1 = m + 2 /\ m + 1 <= Len(t) /\ m + 1 \in Nat
          BY <1>0, <4>2
        <4>4. StringMode(t, m + 1, "string") = "escaped"
          BY <1>0, <4>2, <4>3, StringModeCases
        <4>5. Depth(t[m + 1], "string", d) = d
          BY <1>0, DepthCases
        <4>6. At(t, m + 1, "escaped", d) /\ NoCut(t, m, m + 1)
          BY <1>0, <1>2, <4>3, <4>4, <4>5, Turns
        <4>7. StringMode(t, m + 1 + 1, "escaped") = "string"
          BY <1>0, StringModeCases
        <4>8. Depth(t[m + 1 + 1], "escaped", d) = d
          BY <1>0, DepthCases
        <4>9. At(t, m + 1 + 1, "string", d) /\ NoCut(t, m + 1, m + 1 + 1)
          <5>1. m + 1 + 1 <= Len(t)
            BY <4>2, <4>3
          <5> QED BY <1>0, <4>3, <4>6, <4>7, <4>8, <5>1, Turns
        <4>10. NoCut(t, m, m + 1 + 1)
          BY <4>3, <4>6, <4>9, NoCutJoins
        <4> QED BY <4>1, <4>3, <4>9, <4>10 DEF Passes
      <3>2. CASE x # "'"
        <4>1. Len(esc) = 1 /\ esc[1] = x
          BY <3>2
        <4> HIDE DEF esc
        <4>2. m + 1 <= Len(t) /\ t[m + 1] = x
          BY <2>2, <4>1 DEF Here
        <4>3. StringMode(t, m + 1, "string") = "string"
          BY <1>0, <3>2, <4>2, StringModeCases
        <4>4. Depth(t[m + 1], "string", d) = d
          BY <1>0, DepthCases
        <4>5. At(t, m + 1, "string", d) /\ NoCut(t, m, m + 1)
          BY <1>0, <1>2, <4>2, <4>3, <4>4, Turns
        <4> QED BY <4>1, <4>5 DEF Passes
      <3> QED BY <3>1, <3>2
    <2> DEFINE k == m + Len(esc)
    <2> HIDE DEF esc
    <2>4. Passes(t, k, k + Len(ev), "string", d)
      BY <1>2, <2>2, <2>3 DEF Passes, ev
    <2>5. k \in Nat /\ k + Len(ev) \in Nat /\ m + Len(esc \o ev) = k + Len(ev)
      <3>1. Len(ev) \in Nat /\ Len(esc) \in Nat
        BY <2>1
      <3> QED BY <2>2, <3>1
    <2> HIDE DEF k
    <2>6. NoCut(t, m, k + Len(ev))
      <3>1. NoCut(t, m, k) /\ NoCut(t, k, k + Len(ev))
        BY <2>3, <2>4 DEF Passes, k
      <3> QED BY <2>5, <3>1, NoCutJoins
    <2> QED BY <2>1, <2>4, <2>5, <2>6 DEF Passes
  <1>3. Seq(Symbols) \subseteq P
    <2>1. ASSUME NEW x \in Symbols, NEW v \in Seq(Symbols), v \in P
          PROVE  <<x>> \o v \in P
      <3>1. <<x>> \o v \in Seq(Symbols)
        BY ConsProperties
      <3> QED BY <1>2, <2>1, <3>1
    <2> HIDE DEF P
    <2> QED BY <1>1, <2>1, TailFirst
  <1> QED BY <1>3

LEMMA PassesJoins ==
    ASSUME NEW t, NEW m \in Nat, NEW k \in Nat, NEW n \in Nat, NEW mode, NEW d, NEW mode1, NEW d1,
           Passes(t, m, k, mode, d), Passes(t, k, n, mode1, d1)
    PROVE  Passes(t, m, n, mode1, d1)
  BY NoCutJoins DEF Passes

(* A string literal that no quote follows. *)
LEMMA QuotedPasses ==
    ASSUME NEW t \in Seq(Symbols), NEW m \in Nat, NEW v \in Seq(Symbols), Here(t, m, Quoted(v)),
           NEW d \in Nat, At(t, m, "outside", d), ~QuoteFollows(t, m + Len(Quoted(v)))
    PROVE  Passes(t, m, m + Len(Quoted(v)), "outside", d)
  <1> DEFINE q == <<"'">>
             e == Escaped[v]
             k == m + 1 + Len(e)
  <1>0. "outside" \in Modes /\ "string" \in Modes
    BY DEF Modes
  <1>1. q \in Seq(Symbols) /\ Len(q) = 1 /\ q[1] = "'"
    <2>1. "'" \in Symbols
      BY QuoteIsSymbol
    <2> QED BY <2>1
  <1>2. e \in Seq(Symbols)
    BY EscapedType
  <1>3. Quoted(v) = (q \o e) \o q /\ q \o e \in Seq(Symbols)
    <2>1. Quoted(v) = (q \o e) \o q
      BY DEF Quoted
    <2> HIDE DEF q, e
    <2> QED BY <1>1, <1>2, <2>1
  <1> HIDE DEF q, e
  <1>4. Here(t, m, q \o e) /\ Here(t, m + Len(q \o e), q) /\ Len(Quoted(v)) = Len(q \o e) + Len(q)
    <2>1. q \in Seq(Symbols) /\ q \o e \in Seq(Symbols) /\ Here(t, m, (q \o e) \o q)
      BY <1>1, <1>3
    <2> DEFINE a == q \o e
    <2>2. a \in Seq(Symbols) /\ Here(t, m, a \o q)
      BY <2>1
    <2> HIDE DEF a
    <2>3. Here(t, m, a) /\ Here(t, m + Len(a), q) /\ Len(a \o q) = Len(a) + Len(q)
      BY <2>1, <2>2, HereParts
    <2> QED BY <1>3, <2>3 DEF a
  <1>5. Here(t, m, q) /\ Here(t, m + Len(q), e) /\ Len(q \o e) = Len(q) + Len(e)
    <2>1. q \in Seq(Symbols)
      BY <1>1
    <2> QED BY <1>2, <1>4, <2>1, HereParts
  <1>6. k \in Nat /\ m + 1 \in Nat /\ m + Len(q \o e) = k /\ m + Len(Quoted(v)) = k + 1 /\ m + Len(q) = m + 1
    <2>1. Len(e) \in Nat
      BY <1>2
    <2> QED BY <1>1, <1>4, <1>5, <2>1
  <1>7. Passes(t, m, m + 1, "string", d)
    <2>1. m + 1 <= Len(t) /\ t[m + 1] = "'"
      BY <1>1, <1>5 DEF Here
    <2>2. StringMode(t, m + 1, "outside") = "string"
      BY <1>0, <2>1, StringModeCases
    <2>3. Depth(t[m + 1], "outside", d) = d
      <3>1. t[m + 1] \notin {"(", ")"}
        BY <2>1
      <3> QED BY <1>0, <3>1, DepthCases
    <2>4. ~AndAt(t, m + 1)
      <3>1. t[m + 1] \notin Words
        BY <2>1, SymbolsDiffer
      <3> QED BY <3>1, LowerAnd DEF AndAt
    <2>5. At(t, m + 1, "string", d) /\ NoCut(t, m, m + 1)
      BY <1>0, <2>1, <2>2, <2>3, <2>4, Turns
    <2> QED BY <2>5 DEF Passes
  <1>8. Passes(t, m + 1, k, "string", d)
    <2>1. At(t, m + 1, "string", d) /\ Here(t, m + 1, e)
      BY <1>5, <1>6, <1>7 DEF Passes
    <2> HIDE DEF k
    <2> QED BY <1>6, <2>1, EscapedPasses DEF k, e
  <1> HIDE DEF k
  <1>9. Passes(t, k, k + 1, "outside", d)
    <2>1. k + 1 <= Len(t) /\ t[k + 1] = "'"
      BY <1>1, <1>4, <1>6 DEF Here
    <2>2. ~QuoteFollows(t, k + 1)
      BY <1>6
    <2>3. StringMode(t, k + 1, "string") = "outside"
      BY <1>0, <2>1, <2>2, StringModeCases DEF QuoteFollows
    <2>4. Depth(t[k + 1], "string", d) = d
      BY <1>0, DepthCases
    <2>5. At(t, k, "string", d)
      BY <1>8 DEF Passes
    <2>6. At(t, k + 1, "outside", d) /\ NoCut(t, k, k + 1)
      BY <1>0, <1>6, <2>1, <2>3, <2>4, <2>5, Turns
    <2> QED BY <2>6 DEF Passes
  <1>10. Passes(t, m, k, "string", d)
    BY <1>6, <1>7, <1>8, PassesJoins
  <1>11. k + 1 \in Nat
    BY <1>6
  <1>12. Passes(t, m, k + 1, "outside", d)
    BY <1>6, <1>9, <1>10, <1>11, PassesJoins
  <1> QED BY <1>6, <1>12

(* Field paths as they are written. *)
Idents == {s \in Seq(Symbols) : IsIdentifier(s)}
PathPart == IdentPart \cup {"/"}

LEMMA PathParts ==
    /\ PathPart \subseteq Symbols
    /\ \A x \in PathPart : x \notin {"'", "(", ")"} /\ x \notin Separators
  <1>1. PathPart \subseteq Symbols
    BY DEF PathPart, IdentPart, Symbols, Punctuation
  <1>2. ASSUME NEW x \in PathPart
        PROVE  x \notin {"'", "(", ")"} /\ x \notin Separators
    <2>1. CASE x \in Words
      BY <2>1, SymbolsDiffer DEF Separators, Punctuation
    <2>2. CASE x \in {"-", "/"}
      BY <2>2 DEF Separators
    <2> QED BY <2>1, <2>2 DEF PathPart, IdentPart
  <1> QED BY <1>1, <1>2

LEMMA SlashedParts ==
    /\ Slashed[<<>>] = <<>>
    /\ \A x \in Seq(Symbols), p \in Seq(Seq(Symbols)) :
          Slashed[<<x>> \o p] = (<<"/">> \o x) \o Slashed[p]
  <1> DEFINE S == Seq(Symbols)
  <1>1. Slashed[<<>>] = <<>>
    <2>1. <<>> \in Seq(S)
      OBVIOUS
    <2> QED BY <2>1, SlashedDef
  <1>2. ASSUME NEW x \in S, NEW p \in Seq(S)
        PROVE  Slashed[<<x>> \o p] = (<<"/">> \o x) \o Slashed[p]
    <2> DEFINE s == <<x>> \o p
    <2>1. s \in Seq(S) /\ s # <<>> /\ s[1] = x /\ Tail(s) = p
      <3> HIDE DEF S
      <3> QED BY <1>2, ConsProperties
    <2> HIDE DEF s
    <2>2. Slashed[s] = (<<"/">> \o x) \o Slashed[p]
      BY <2>1, SlashedDef
    <2> QED BY <2>2 DEF s
  <1> QED BY <1>1, <1>2

LEMMA SlashedType ==
    \A p \in Seq(Idents) : Slashed[p] \in Seq(PathPart) /\ (p # <<>> => Len(Slashed[p]) > 0)
  <1> DEFINE P == {p \in Seq(Idents) : /\ Slashed[p] \in Seq(PathPart)
                                       /\ p # <<>> => Len(Slashed[p]) > 0}
  <1>0. Seq(Idents) \subseteq Seq(Seq(Symbols))
    <2>1. Idents \subseteq Seq(Symbols)
      BY DEF Idents
    <2> QED BY <2>1, SeqMonotonic
  <1>1. <<>> \in P
    <2>1. <<>> \in Seq(PathPart) /\ <<>> \in Seq(Idents)
      OBVIOUS
    <2> QED BY <2>1, SlashedParts
  <1>2. ASSUME NEW x \in Idents, NEW p \in Seq(Idents), p \in P
        PROVE  <<x>> \o p \in P
    <2>1. <<x>> \o p \in Seq(Idents)
      OBVIOUS
    <2>2. Slashed[<<x>> \o p] = (<<"/">> \o x) \o Slashed[p]
      BY <1>0, SlashedParts DEF Idents
    <2>3. x \in Seq(PathPart)
      <3>1. x \in Seq(IdentPart) /\ IdentPart \subseteq PathPart
        BY DEF Idents, IsIdentifier, PathPart
      <3> QED BY <3>1, SeqMonotonic
    <2> DEFINE c == "/"
    <2>4. c \in PathPart
      BY DEF PathPart
    <2> HIDE DEF c
    <2>5. Slashed[p] \in Seq(PathPart)
      BY <1>2
    <2> DEFINE b == Slashed[p]
    <2> HIDE DEF b
    <2>6. (<<c>> \o x) \o b \in Seq(PathPart) /\ Len((<<c>> \o x) \o b) = 1 + Len(x) + Len(b)
          /\ Len(x) \in Nat /\ Len(b) \in Nat
      BY <2>3, <2>4, <2>5 DEF b
    <2> DEFINE w == (<<c>> \o x) \o b
    <2>7. Slashed[<<x>> \o p] = w
      BY <2>2 DEF c, b
    <2>8. w \in Seq(PathPart) /\ Len(w) > 0
      BY <2>6
    <2> HIDE DEF w
    <2> QED BY <2>1, <2>7, <2>8
  <1>3. Seq(Idents) \subseteq P
    <2> HIDE DEF P
    <2> QED BY <1>1, <1>2, TailFirst
  <1> QED BY <1>3

Spelled(p) == p[1] \o Slashed[Tail(p)]

LEMMA SpelledType ==
    ASSUME NEW p \in Seq(Idents), p # <<>>
    PROVE  /\ Spelled(p) \in Seq(PathPart) /\ Spelled(p) \in Seq(Symbols) /\ Len(Spelled(p)) > 0
           /\ Len(Spelled(p)) \in Nat
           /\ Len(Spelled(p)) = 1 => Len(p) = 1 /\ Spelled(p) = p[1]
           /\ p[1] \in Idents /\ Tail(p) \in Seq(Idents)
           /\ p[1] \in Seq(PathPart) /\ Slashed[Tail(p)] \in Seq(PathPart)
  <1> DEFINE a == p[1]
             r == Tail(p)
             b == Slashed[r]
  <1>1. a \in Idents /\ r \in Seq(Idents) /\ Len(r) = Len(p) - 1 /\ Len(p) \in Nat
    BY HeadAndTail
  <1> HIDE DEF a, r
  <1>2. a \in Seq(PathPart) /\ Len(a) > 0
    <2>1. a \in Seq(IdentPart) /\ IdentPart \subseteq PathPart
      BY <1>1 DEF Idents, IsIdentifier, PathPart
    <2>2. a \in Seq(PathPart)
      BY <2>1, SeqMonotonic
    <2>3. IsIdentifier(a)
      BY <1>1 DEF Idents
    <2> QED BY <2>2, <2>3, IdentifierProperties
  <1>3. b \in Seq(PathPart) /\ (r # <<>> => Len(b) > 0) /\ (r = <<>> => b = <<>>)
    BY <1>1, SlashedType, SlashedParts
  <1> HIDE DEF b
  <1>4. /\ a \o b \in Seq(PathPart) /\ Len(a \o b) = Len(a) + Len(b)
        /\ Len(a) \in Nat /\ Len(b) \in Nat
    BY <1>2, <1>3
  <1>5. a \o b \in Seq(Symbols)
    BY <1>4, PathParts, SeqMonotonic
  <1>6. ASSUME Len(a \o b) = 1
        PROVE  Len(p) = 1 /\ a \o b = a
    <2>1. Len(b) = 0
      BY <1>2, <1>4, <1>6
    <2>2. b = <<>>
      BY <1>3, <2>1, EmptySeq
    <2>3. r = <<>>
      BY <1>3, <2>1
    <2>4. Len(r) = 0
      BY <2>3
    <2> QED BY <1>1, <1>2, <2>2, <2>4, ConcatEmptySeq
  <1>7. Spelled(p) = a \o b
    BY DEF Spelled, a, b, r
  <1>8. Len(a \o b) > 0
    BY <1>2, <1>4
  <1>9. /\ Spelled(p) \in Seq(PathPart) /\ Spelled(p) \in Seq(Symbols) /\ Len(Spelled(p)) > 0
        /\ Len(Spelled(p)) \in Nat
        /\ Len(Spelled(p)) = 1 => Len(p) = 1 /\ Spelled(p) = a
    <2>1. Len(a \o b) \in Nat
      BY <1>4
    <2> QED BY <1>4, <1>5, <1>6, <1>7, <1>8, <2>1
  <1>10. p[1] = a /\ Tail(p) = r /\ Slashed[Tail(p)] = b
    BY DEF a, r, b
  <1>11. a \in Idents /\ r \in Seq(Idents) /\ a \in Seq(PathPart) /\ b \in Seq(PathPart)
    BY <1>1, <1>2, <1>3
  <1> QED BY <1>9, <1>10, <1>11

LoneAnd(w) == Len(w) = 1 /\ Lower(w[1]) = "and"

LEMMA FilterParts ==
    ASSUME NEW f \in Filters
    PROVE  /\ f.path \in Seq(Idents) /\ f.path # <<>>
           /\ f.operator \in Operators /\ f.value \in Seq(Symbols)
           /\ ~LoneAnd(Spelled(f.path))
           /\ f = [path |-> f.path, operator |-> f.operator, value |-> f.value]
           /\ f \in Filter
  <1>1. f \in Filter
    BY ODataAssumption
  <1>2. f.path \in Seq(Seq(Symbols)) /\ f.operator \in Operators /\ f.value \in Seq(Symbols)
    BY <1>1 DEF Filter
  <1>3. /\ f.path # <<>> /\ \A i \in DOMAIN f.path : IsIdentifier(f.path[i])
        /\ Len(f.path) = 1 => ~EqualFold(f.path[1], <<"and">>)
    BY ClausesAssumption
  <1>4. f.path \in Seq(Idents)
    <2> DEFINE p == f.path
               S == Seq(Symbols)
    <2>1. p \in Seq(S) /\ \A i \in DOMAIN p : IsIdentifier(p[i])
      BY <1>2, <1>3
    <2> HIDE DEF p, S
    <2>2. \A i \in 1..Len(p) : p[i] \in S /\ DOMAIN p = 1..Len(p)
      BY <2>1
    <2>3. \A i \in 1..Len(p) : p[i] \in Idents
      BY <2>1, <2>2 DEF Idents, S
    <2>4. p \in Seq(Idents)
      BY <2>1, <2>3
    <2> QED BY <2>4 DEF p
  <1>5. ~LoneAnd(Spelled(f.path))
    <2> SUFFICES ASSUME LoneAnd(Spelled(f.path))
                 PROVE  FALSE
      OBVIOUS
    <2> DEFINE w == Spelled(f.path)
    <2>1. w \in Seq(Symbols) /\ Len(w) = 1 /\ Len(f.path) = 1 /\ w = f.path[1]
      BY <1>3, <1>4, SpelledType DEF LoneAnd
    <2>2. Lower(w[1]) = "and"
      BY DEF LoneAnd
    <2>3. FoldCase(w) = [i \in 1..1 |-> "and"]
      <3> HIDE DEF w
      <3>1. DOMAIN w = 1..1
        BY <2>1
      <3>2. \A i \in 1..1 : Lower(w[i]) = "and"
        BY <2>2
      <3> QED BY <3>1, <3>2 DEF FoldCase
    <2>4. FoldCase(<<"and">>) = [i \in 1..1 |-> "and"]
      <3>1. Lower("and") = "and"
        BY LowerAnd DEF Spellings
      <3> QED BY <3>1 DEF FoldCase
    <2>5. EqualFold(f.path[1], <<"and">>)
      BY <2>1, <2>3, <2>4 DEF EqualFold
    <2> QED BY <1>3, <2>1, <2>5
  <1>6. f = [path |-> f.path, operator |-> f.operator, value |-> f.value]
    BY <1>1 DEF Filter
  <1> QED BY <1>1, <1>2, <1>3, <1>4, <1>5, <1>6

LEMMA SpellingsLower ==
    \A w \in Operators \cup {"any"} : \A u \in Spellings(w) :
        Lower(u) = w /\ u \in Words /\ Lower(u) # "and"
  <1> SUFFICES ASSUME NEW w \in Operators \cup {"any"}, NEW u \in Spellings(w)
               PROVE  Lower(u) = w /\ u \in Words /\ Lower(u) # "and"
    OBVIOUS
  <1>1. w \in Words /\ w \notin DOMAIN LowerCase /\ DOMAIN LowerCase \subseteq Words
    BY ODataAssumption
  <1>2. Lower(u) = w /\ u \in Words
    BY <1>1 DEF Spellings, Lower
  <1>3. w # "and"
    BY DEF Operators
  <1> QED BY <1>2, <1>3

LEMMA PathPasses ==
    ASSUME NEW t \in Seq(Symbols), NEW m \in Nat, NEW w \in Seq(PathPart), Len(w) > 0,
           Here(t, m, w), NEW d \in Nat, At(t, m, "outside", d),
           \/ d > 0
           \/ m = 0 /\ Len(w) < Len(t) /\ ~(LoneAnd(w) /\ t[Len(w) + 1] \in Separators)
    PROVE  Passes(t, m, m + Len(w), "outside", d)
  <1>0. w \in Seq(Symbols) /\ Len(w) \in Nat
    BY PathParts, SeqMonotonic
  <1>1. \A i \in 1..Len(w) : w[i] \notin {"'", "(", ")"} /\ w[i] \notin Separators
    <2> TAKE i \in 1..Len(w)
    <2>1. w[i] \in PathPart
      OBVIOUS
    <2> QED BY <2>1, PathParts
  <1>2. ASSUME ~(d > 0), NEW i \in 1..Len(w), AndAt(t, m + i)
        PROVE  FALSE
    <2>1. m = 0 /\ m + i = i /\ Len(w) < Len(t) /\ \A j \in 1..Len(w) : t[j] = w[j]
      BY <1>2 DEF Here
    <2>2. StartsWord(t, i) /\ EndsWord(t, i) /\ Lower(t[i]) = "and"
      BY <1>2, <2>1 DEF AndAt, StartsWord, EndsWord
    <2>3. i = 1
      <3>1. ASSUME i # 1
            PROVE  FALSE
        <4>1. i - 1 \in 1..Len(w)
          BY <3>1
        <4>2. t[i - 1] \in Separators
          BY <2>2, <3>1 DEF StartsWord
        <4> QED BY <1>1, <2>1, <4>1, <4>2
      <3> QED BY <3>1
    <2>4. t[i + 1] \in Separators
      <3>1. i # Len(t)
        BY <1>0, <2>1
      <3> QED BY <2>2, <3>1 DEF EndsWord
    <2>5. i = Len(w)
      <3>1. ASSUME i # Len(w)
            PROVE  FALSE
        <4>1. i + 1 \in 1..Len(w)
          BY <1>0, <3>1
        <4> QED BY <1>1, <2>1, <2>4, <4>1
      <3> QED BY <3>1
    <2>6. LoneAnd(w)
      <3>1. Lower(w[1]) = "and"
        <4>1. t[1] = w[1]
          BY <2>1, <2>3
        <4> QED BY <2>2, <2>3, <4>1
      <3> QED BY <2>3, <2>5, <3>1 DEF LoneAnd
    <2>7. t[Len(w) + 1] \in Separators
      BY <2>4, <2>5
    <2> QED BY <1>2, <2>6, <2>7
  <1>3. d > 0 \/ \A i \in 1..Len(w) : ~AndAt(t, m + i)
    BY <1>2
  <1> QED BY <1>0, <1>1, <1>3, PlainPasses

-----------------------------------------------------------------------------
(* <path> <operator> '<value>', as it is written. *)
Written(p, op, v) == Spelled(p) \o <<" ", op, " ">> \o Quoted(v)

LEMMA WrittenParts ==
    ASSUME NEW p \in Seq(Idents), p # <<>>, NEW op \in Words, NEW v \in Seq(Symbols)
    PROVE  /\ Spelled(p) \in Seq(Symbols) /\ Quoted(v) \in Seq(Symbols)
           /\ <<Space, op, Space>> \in Seq(Symbols)
           /\ Written(p, op, v) = (Spelled(p) \o <<Space, op, Space>>) \o Quoted(v)
           /\ Written(p, op, v) \in Seq(Symbols)
  <1> DEFINE a == Spelled(p)
             b == <<Space, op, Space>>
             q == Quoted(v)
  <1>1. a \in Seq(Symbols)
    BY SpelledType
  <1>2. b \in Seq(Symbols)
    <2>1. op \in Symbols /\ Space \in Symbols
      BY SpaceIsText DEF Symbols
    <2> QED BY <2>1
  <1>3. q \in Seq(Symbols)
    <2>1. <<>> \in Seq(Symbols)
      OBVIOUS
    <2> QED BY <2>1, QuotedText
  <1>4. Written(p, op, v) = (a \o b) \o q
    BY DEF Written, Space
  <1> HIDE DEF a, b, q
  <1>5. (a \o b) \o q \in Seq(Symbols)
    BY <1>1, <1>2, <1>3, TextConcat
  <1>6. a = Spelled(p) /\ b = <<Space, op, Space>> /\ q = Quoted(v)
    BY DEF a, b, q
  <1> QED BY <1>1, <1>2, <1>3, <1>4, <1>5, <1>6

LEMMA ComparisonPasses ==
    ASSUME NEW t \in Seq(Symbols), NEW m \in Nat,
           NEW p \in Seq(Idents), p # <<>>, NEW op \in Words, Lower(op) # "and",
           NEW v \in Seq(Symbols), Here(t, m, Written(p, op, v)),
           NEW d \in Nat, At(t, m, "outside", d), ~QuoteFollows(t, m + Len(Written(p, op, v))),
           d > 0 \/ (m = 0 /\ ~LoneAnd(Spelled(p)))
    PROVE  Passes(t, m, m + Len(Written(p, op, v)), "outside", d)
  <1> DEFINE a == Spelled(p)
             b == <<Space, op, Space>>
             q == Quoted(v)
             c == Written(p, op, v)
             k == m + Len(a)
             n == k + Len(b)
  <1>1. a \in Seq(Symbols) /\ b \in Seq(Symbols) /\ q \in Seq(Symbols) /\ c = (a \o b) \o q
    BY WrittenParts
  <1>2. a \in Seq(PathPart) /\ Len(a) > 0
    BY SpelledType
  <1>3. Len(b) = 3 /\ b[1] = Space /\ b[2] = op /\ b[3] = Space
    OBVIOUS
  <1>4. Here(t, m, c) /\ ~QuoteFollows(t, m + Len(c)) /\ (d > 0 \/ (m = 0 /\ ~LoneAnd(a)))
    OBVIOUS
  <1> HIDE DEF a, b, q, c
  <1>5. Here(t, m, a \o b) /\ Here(t, m + Len(a \o b), q) /\ Len(c) = Len(a \o b) + Len(q)
    <2>1. a \o b \in Seq(Symbols)
      BY <1>1
    <2> DEFINE x == a \o b
    <2>2. x \in Seq(Symbols) /\ Here(t, m, x \o q) /\ q \in Seq(Symbols)
      BY <1>1, <1>4, <2>1
    <2> HIDE DEF x
    <2>3. Here(t, m, x) /\ Here(t, m + Len(x), q) /\ Len(x \o q) = Len(x) + Len(q)
      BY <2>2, HereParts
    <2> QED BY <1>1, <2>3 DEF x
  <1>6. Here(t, m, a) /\ Here(t, m + Len(a), b) /\ Len(a \o b) = Len(a) + Len(b)
    BY <1>1, <1>5, HereParts
  <1>7. /\ Len(a) \in Nat /\ Len(b) \in Nat /\ Len(q) \in Nat /\ k \in Nat /\ n \in Nat
        /\ m + Len(a \o b) = n /\ n + Len(q) \in Nat /\ m + Len(c) = n + Len(q)
    BY <1>1, <1>5, <1>6
  <1>8. k + 3 <= Len(t) /\ t[k + 1] = Space /\ t[k + 2] = op /\ t[k + 3] = Space
    BY <1>3, <1>6 DEF Here
  <1>9. Passes(t, m, k, "outside", d)
    <2>1. d > 0 \/ (m = 0 /\ Len(a) < Len(t) /\ ~(LoneAnd(a) /\ t[Len(a) + 1] \in Separators))
      <3>1. m = 0 => Len(a) < Len(t)
        BY <1>7, <1>8
      <3> QED BY <1>4, <3>1
    <2> QED BY <1>2, <1>6, <2>1, PathPasses
  <1>10. Passes(t, k, n, "outside", d)
    <2>1. \A i \in 1..Len(b) : i = 1 \/ i = 2 \/ i = 3
      BY <1>3
    <2>2. Space \notin {"'", "(", ")"} /\ Lower(Space) # "and"
      <3>1. Space \notin Words
        BY SymbolsDiffer DEF Space
      <3> QED BY <3>1, LowerAnd DEF Space
    <2>3. op \notin {"'", "(", ")"}
      BY SymbolsDiffer DEF Punctuation
    <2>4. \A i \in 1..Len(b) : b[i] \notin {"'", "(", ")"}
      BY <1>3, <2>1, <2>2, <2>3
    <2>5. \A i \in 1..Len(b) : ~AndAt(t, k + i)
      <3> SUFFICES ASSUME NEW i \in 1..Len(b)
                   PROVE  Lower(t[k + i]) # "and"
        BY DEF AndAt
      <3> QED BY <1>8, <2>1, <2>2
    <2>6. At(t, k, "outside", d)
      BY <1>9 DEF Passes
    <2> HIDE DEF k
    <2>7. k \in Nat /\ Here(t, k, b)
      BY <1>6, <1>7 DEF k
    <2> QED BY <1>1, <2>4, <2>5, <2>6, <2>7, PlainPasses
  <1>11. Passes(t, n, n + Len(q), "outside", d)
    <2>1. At(t, n, "outside", d)
      BY <1>10 DEF Passes
    <2>2. Here(t, n, q) /\ ~QuoteFollows(t, n + Len(q))
      BY <1>4, <1>5, <1>7
    <2> HIDE DEF n
    <2> QED BY <1>7, <2>1, <2>2, QuotedPasses DEF q
  <1> HIDE DEF k, n
  <1>12. Passes(t, m, n, "outside", d)
    BY <1>7, <1>9, <1>10, PassesJoins
  <1>13. Passes(t, m, n + Len(q), "outside", d)
    BY <1>7, <1>11, <1>12, PassesJoins
  <1> QED BY <1>7, <1>13 DEF c

(* <collection>/any(<alias>:(<comparison>)), as it is written. *)
AnyOpens(any) == <<"/", any, "(", Alias, ":", "(">>
WrittenAny(x, any, c) == x \o AnyOpens(any) \o c \o <<")", ")">>

LEMMA AnyParts ==
    ASSUME NEW x \in Seq(Symbols), NEW any \in Words, NEW c \in Seq(Symbols)
    PROVE  /\ <<"/", any>> \in Seq(Symbols) /\ <<Alias, ":">> \in Seq(Symbols)
           /\ <<"(">> \in Seq(Symbols) /\ <<")">> \in Seq(Symbols)
           /\ <<")", ")">> = <<")">> \o <<")">> /\ <<")", ")">> \in Seq(Symbols)
           /\ AnyOpens(any) = ((<<"/", any>> \o <<"(">>) \o <<Alias, ":">>) \o <<"(">>
           /\ AnyOpens(any) \in Seq(Symbols)
           /\ WrittenAny(x, any, c) = ((x \o AnyOpens(any)) \o c) \o <<")", ")">>
           /\ WrittenAny(x, any, c) \in Seq(Symbols)
  <1>1. /\ "/" \in Symbols /\ ":" \in Symbols /\ "(" \in Symbols /\ ")" \in Symbols
        /\ any \in Symbols /\ Alias \in Symbols
    BY ODataAssumption DEF Symbols, Punctuation
  <1>2. /\ <<"/", any>> \in Seq(Symbols) /\ <<Alias, ":">> \in Seq(Symbols)
        /\ <<"(">> \in Seq(Symbols) /\ <<")">> \in Seq(Symbols)
        /\ <<")", ")">> = <<")">> \o <<")">> /\ <<")", ")">> \in Seq(Symbols)
    BY <1>1
  <1>3. AnyOpens(any) = ((<<"/", any>> \o <<"(">>) \o <<Alias, ":">>) \o <<"(">>
    BY DEF AnyOpens
  <1>4. AnyOpens(any) \in Seq(Symbols)
    BY <1>1 DEF AnyOpens
  <1>5. WrittenAny(x, any, c) = ((x \o AnyOpens(any)) \o c) \o <<")", ")">>
    BY DEF WrittenAny
  <1>6. WrittenAny(x, any, c) \in Seq(Symbols)
    <2> DEFINE a == AnyOpens(any)
               b == <<")", ")">>
    <2>1. a \in Seq(Symbols) /\ b \in Seq(Symbols)
      BY <1>2, <1>4
    <2> HIDE DEF a, b
    <2>2. ((x \o a) \o c) \o b \in Seq(Symbols)
      BY <2>1, TextConcat
    <2> QED BY <1>5, <2>2 DEF a, b
  <1> QED BY <1>2, <1>3, <1>4, <1>5, <1>6

(* The text w passes from a depth to another, wherever it is. *)
LeadsFrom(t, d, w, e) ==
    \A m \in Nat : Here(t, m, w) /\ At(t, m, "outside", d)
        => Passes(t, m, m + Len(w), "outside", e)

LEMMA LeadsOn ==
    ASSUME NEW t \in Seq(Symbols), NEW a \in Seq(Symbols), NEW b \in Seq(Symbols),
           NEW d \in Nat, NEW e \in Nat, NEW f \in Nat, LeadsFrom(t, d, a, e), LeadsFrom(t, e, b, f)
    PROVE  LeadsFrom(t, d, a \o b, f) /\ a \o b \in Seq(Symbols)
  <1>1. ASSUME NEW m \in Nat, Here(t, m, a \o b), At(t, m, "outside", d)
        PROVE  Passes(t, m, m + Len(a \o b), "outside", f)
    <2> DEFINE k == m + Len(a)
    <2>1. Here(t, m, a) /\ Here(t, k, b) /\ k \in Nat /\ Len(a \o b) = Len(a) + Len(b)
      BY <1>1, HereParts
    <2>2. k + Len(b) \in Nat /\ m + Len(a \o b) = k + Len(b)
      BY <2>1
    <2>3. Passes(t, m, k, "outside", e)
      BY <1>1, <2>1 DEF LeadsFrom
    <2> HIDE DEF k
    <2>4. Passes(t, k, k + Len(b), "outside", f)
      BY <2>1, <2>3 DEF LeadsFrom, Passes
    <2>5. Passes(t, m, k + Len(b), "outside", f)
      BY <2>1, <2>2, <2>3, <2>4, PassesJoins
    <2> QED BY <2>2, <2>5
  <1> QED BY <1>1, TextConcat DEF LeadsFrom

LEMMA ParensLead ==
    ASSUME NEW t \in Seq(Symbols), NEW d \in Nat
    PROVE  LeadsFrom(t, d, <<"(">>, d + 1) /\ LeadsFrom(t, d, <<")">>, Unnest(d))
  <1>1. Len(<<"(">>) = 1 /\ Len(<<")">>) = 1
    OBVIOUS
  <1> QED BY <1>1, ParensPass DEF LeadsFrom

LEMMA PlainLeads ==
    ASSUME NEW t \in Seq(Symbols), NEW d \in Nat, NEW w \in Seq(Symbols),
           \A i \in 1..Len(w) : w[i] \notin {"'", "(", ")"} /\ Lower(w[i]) # "and"
    PROVE  LeadsFrom(t, d, w, d)
  <1>1. ASSUME NEW m \in Nat, Here(t, m, w), At(t, m, "outside", d)
        PROVE  Passes(t, m, m + Len(w), "outside", d)
    <2>1. \A i \in 1..Len(w) : ~AndAt(t, m + i)
      BY <1>1 DEF Here, AndAt
    <2> QED BY <1>1, <2>1, PlainPasses
  <1> QED BY <1>1 DEF LeadsFrom

LEMMA InnerLeads ==
    ASSUME NEW t \in Seq(Symbols), NEW d \in Nat, d > 0, NEW w \in Seq(Symbols),
           \A i \in 1..Len(w) : w[i] \notin {"'", "(", ")"}
    PROVE  LeadsFrom(t, d, w, d)
  BY PlainPasses DEF LeadsFrom

LEMMA AnyOpensLeads ==
    ASSUME NEW t \in Seq(Symbols), NEW d \in Nat, NEW any \in Words, Lower(any) # "and"
    PROVE  LeadsFrom(t, d, AnyOpens(any), (d + 1) + 1) /\ AnyOpens(any) \in Seq(Symbols)
  <1> DEFINE a == <<"/", any>>
             b == <<"(">>
             c == <<Alias, ":">>
  <1>1. /\ a \in Seq(Symbols) /\ b \in Seq(Symbols) /\ c \in Seq(Symbols)
        /\ AnyOpens(any) = ((a \o b) \o c) \o b
    <2>1. <<>> \in Seq(Symbols)
      OBVIOUS
    <2> QED BY <2>1, AnyParts
  <1>2. LeadsFrom(t, d, a, d)
    <2>1. Len(a) = 2 /\ a[1] = "/" /\ a[2] = any
      OBVIOUS
    <2>2. "/" \notin {"'", "(", ")"} /\ Lower("/") # "and"
      <3>1. "/" \notin Words
        BY SymbolsDiffer DEF Punctuation
      <3> QED BY <3>1, LowerAnd
    <2>3. any \notin {"'", "(", ")"}
      BY SymbolsDiffer DEF Punctuation
    <2>4. \A i \in 1..Len(a) : a[i] \notin {"'", "(", ")"} /\ Lower(a[i]) # "and"
      <3>1. \A i \in 1..Len(a) : i = 1 \/ i = 2
        BY <2>1
      <3> QED BY <2>1, <2>2, <2>3, <3>1
    <2> HIDE DEF a
    <2> QED BY <1>1, <2>4, PlainLeads
  <1>3. LeadsFrom(t, d + 1, c, d + 1)
    <2>1. Len(c) = 2 /\ c[1] = Alias /\ c[2] = ":"
      OBVIOUS
    <2>2. Alias \notin {"'", "(", ")"}
      <3>1. Alias \in Words
        BY ODataAssumption
      <3> QED BY <3>1, SymbolsDiffer DEF Punctuation
    <2>3. \A i \in 1..Len(c) : c[i] \notin {"'", "(", ")"}
      <3>1. \A i \in 1..Len(c) : i = 1 \/ i = 2
        BY <2>1
      <3> QED BY <2>1, <2>2, <3>1
    <2> HIDE DEF c
    <2>4. d + 1 \in Nat /\ d + 1 > 0
      OBVIOUS
    <2> QED BY <1>1, <2>3, <2>4, InnerLeads
  <1>4. LeadsFrom(t, d, b, d + 1) /\ LeadsFrom(t, d + 1, b, (d + 1) + 1)
    <2>1. d + 1 \in Nat
      OBVIOUS
    <2> QED BY <2>1, ParensLead
  <1> HIDE DEF a, b, c
  <1>5. d + 1 \in Nat /\ (d + 1) + 1 \in Nat
    OBVIOUS
  <1>6. LeadsFrom(t, d, a \o b, d + 1) /\ a \o b \in Seq(Symbols)
    BY <1>1, <1>2, <1>4, <1>5, LeadsOn
  <1>7. LeadsFrom(t, d, (a \o b) \o c, d + 1) /\ (a \o b) \o c \in Seq(Symbols)
    BY <1>1, <1>3, <1>5, <1>6, LeadsOn
  <1>8. LeadsFrom(t, d, ((a \o b) \o c) \o b, (d + 1) + 1) /\ ((a \o b) \o c) \o b \in Seq(Symbols)
    <2> DEFINE w == (a \o b) \o c
    <2>1. LeadsFrom(t, d, w, d + 1) /\ w \in Seq(Symbols)
      BY <1>7
    <2> HIDE DEF w
    <2>2. LeadsFrom(t, d, w \o b, (d + 1) + 1) /\ w \o b \in Seq(Symbols)
      BY <1>1, <1>4, <1>5, <2>1, LeadsOn
    <2> QED BY <2>2 DEF w
  <1> QED BY <1>1, <1>8

LEMMA InsideLeads ==
    ASSUME NEW t \in Seq(Symbols), NEW d \in Nat, d > 0,
           NEW p \in Seq(Idents), p # <<>>, NEW op \in Words, Lower(op) # "and",
           NEW v \in Seq(Symbols)
    PROVE  /\ LeadsFrom(t, d, Written(p, op, v) \o <<")">>, Unnest(d))
           /\ Written(p, op, v) \o <<")">> \in Seq(Symbols)
  <1> DEFINE c == Written(p, op, v)
             b == <<")">>
  <1>1. c \in Seq(Symbols) /\ b \in Seq(Symbols)
    <2>1. ")" \in Symbols
      BY DEF Symbols, Punctuation
    <2>2. b \in Seq(Symbols)
      BY <2>1
    <2>3. c \in Seq(Symbols)
      BY WrittenParts
    <2> QED BY <2>2, <2>3
  <1>2. Len(b) = 1 /\ b[1] = ")"
    OBVIOUS
  <1>3. \A m \in Nat : Here(t, m, c) /\ At(t, m, "outside", d) /\ ~QuoteFollows(t, m + Len(c))
            => Passes(t, m, m + Len(c), "outside", d)
    BY ComparisonPasses
  <1>4. LeadsFrom(t, d, b, Unnest(d))
    BY ParensLead
  <1> HIDE DEF b, c
  <1>5. ASSUME NEW m \in Nat, Here(t, m, c \o b), At(t, m, "outside", d)
        PROVE  Passes(t, m, m + Len(c \o b), "outside", Unnest(d))
    <2> DEFINE k == m + Len(c)
    <2>1. Here(t, m, c) /\ Here(t, k, b) /\ k \in Nat /\ Len(c \o b) = Len(c) + Len(b)
      BY <1>1, <1>5, HereParts
    <2>2. k + Len(b) \in Nat /\ m + Len(c \o b) = k + Len(b)
      BY <1>1, <1>2, <2>1
    <2>3. ~QuoteFollows(t, k)
      <3>1. t[k + 1] = ")"
        BY <1>2, <2>1 DEF Here
      <3> QED BY <3>1 DEF QuoteFollows
    <2>4. Passes(t, m, k, "outside", d)
      BY <1>3, <1>5, <2>1, <2>3
    <2> HIDE DEF k
    <2>5. Passes(t, k, k + Len(b), "outside", Unnest(d))
      BY <1>4, <2>1, <2>4 DEF LeadsFrom, Passes
    <2>6. Passes(t, m, k + Len(b), "outside", Unnest(d))
      BY <2>1, <2>2, <2>4, <2>5, PassesJoins
    <2> QED BY <2>2, <2>6
  <1>6. c \o b \in Seq(Symbols)
    BY <1>1, TextConcat
  <1> QED BY <1>5, <1>6 DEF LeadsFrom, c, b

RightGrouped(x, o, c, b) == ((x \o o) \o c) \o b = x \o (o \o (c \o b))

LEMMA RightGroups ==
    ASSUME NEW x, NEW o, NEW c, NEW b
    PROVE  x \in Seq(Symbols) /\ o \in Seq(Symbols) /\ c \in Seq(Symbols) /\ b \in Seq(Symbols)
             => RightGrouped(x, o, c, b)
  <1>1. ASSUME x \in Seq(Symbols), o \in Seq(Symbols), c \in Seq(Symbols), b \in Seq(Symbols)
        PROVE  ((x \o o) \o c) \o b = x \o (o \o (c \o b))
    <2> DEFINE y == x \o o
               z == c \o b
    <2>1. x \in Seq(Symbols)
      BY <1>1
    <2>2. o \in Seq(Symbols)
      BY <1>1
    <2>3. c \in Seq(Symbols)
      BY <1>1
    <2>4. b \in Seq(Symbols)
      BY <1>1
    <2>5. y \in Seq(Symbols)
      BY <2>1, <2>2, TextConcat
    <2>6. z \in Seq(Symbols)
      BY <2>3, <2>4, TextConcat
    <2>7. (y \o c) \o b = y \o z
      <3> HIDE DEF y
      <3> QED BY <2>3, <2>4, <2>5, TextAssociative
    <2>8. y \o z = x \o (o \o z)
      <3> HIDE DEF z
      <3> QED BY <2>1, <2>2, <2>6, TextAssociative
    <2> QED BY <2>7, <2>8
  <1> QED BY <1>1 DEF RightGrouped

Regroups(x, o, c, b) == ((x \o o) \o c) \o (b \o b) = x \o (o \o ((c \o b) \o b))

LEMMA Regrouped ==
    ASSUME NEW x, NEW o, NEW c, NEW b
    PROVE  x \in Seq(Symbols) /\ o \in Seq(Symbols) /\ c \in Seq(Symbols) /\ b \in Seq(Symbols)
             => Regroups(x, o, c, b)
  <1>1. ASSUME x \in Seq(Symbols), o \in Seq(Symbols), c \in Seq(Symbols), b \in Seq(Symbols)
        PROVE  ((x \o o) \o c) \o (b \o b) = x \o (o \o ((c \o b) \o b))
    <2> DEFINE e == b \o b
               y == x \o o
               z == c \o e
    <2>1. x \in Seq(Symbols)
      BY <1>1
    <2>2. o \in Seq(Symbols)
      BY <1>1
    <2>3. c \in Seq(Symbols)
      BY <1>1
    <2>4. b \in Seq(Symbols)
      BY <1>1
    <2>5. e \in Seq(Symbols)
      BY <2>4, TextConcat
    <2>6. y \in Seq(Symbols)
      BY <2>1, <2>2, TextConcat
    <2>7. (c \o b) \o b = c \o (b \o b)
      BY <2>3, <2>4, TextAssociative
    <2>8. (c \o b) \o b = z
      BY <2>7
    <2>9. ((x \o o) \o c) \o (b \o b) = (y \o c) \o e
      OBVIOUS
    <2> HIDE DEF e
    <2>10. z \in Seq(Symbols)
      BY <2>3, <2>5, TextConcat
    <2>11. (y \o c) \o e = y \o z
      <3> HIDE DEF y
      <3> QED BY <2>3, <2>5, <2>6, TextAssociative
    <2> HIDE DEF z
    <2>12. y \o z = x \o (o \o z)
      BY <2>1, <2>2, <2>10, TextAssociative
    <2> HIDE DEF y
    <2>13. ((x \o o) \o c) \o (b \o b) = x \o (o \o z)
      BY <2>9, <2>11, <2>12
    <2> QED BY <2>8, <2>13
  <1> QED BY <1>1 DEF Regroups

LEMMA AnyPasses ==
    ASSUME NEW t \in Seq(Symbols), NEW m \in Nat, NEW x \in Idents,
           NEW any \in Words, Lower(any) # "and",
           NEW p \in Seq(Idents), p # <<>>, NEW op \in Words, Lower(op) # "and",
           NEW v \in Seq(Symbols), Here(t, m, WrittenAny(x, any, Written(p, op, v))),
           NEW d \in Nat, At(t, m, "outside", d), d > 0 \/ m = 0
    PROVE  Passes(t, m, m + Len(WrittenAny(x, any, Written(p, op, v))), "outside", d)
  <1> DEFINE o == AnyOpens(any)
             c == Written(p, op, v)
             b == <<")">>
             w == WrittenAny(x, any, c)
             r == o \o ((c \o b) \o b)
  <1>1. /\ x \in Seq(Symbols) /\ o \in Seq(Symbols) /\ c \in Seq(Symbols) /\ b \in Seq(Symbols)
        /\ w = ((x \o o) \o c) \o (b \o b)
    <2>1. x \in Seq(Symbols) /\ c \in Seq(Symbols)
      BY WrittenParts DEF Idents
    <2> HIDE DEF c
    <2>2. o \in Seq(Symbols) /\ b \in Seq(Symbols)
      BY <2>1, AnyParts
    <2>3. w = ((x \o o) \o c) \o <<")", ")">>
      BY DEF WrittenAny
    <2>4. <<")", ")">> = b \o b
      OBVIOUS
    <2> QED BY <2>1, <2>2, <2>3, <2>4
  <1>2. o[1] = "/" /\ Len(o) > 0
    BY DEF AnyOpens
  <1>3. LeadsFrom(t, d, o, (d + 1) + 1)
    BY AnyOpensLeads
  <1>4. /\ LeadsFrom(t, (d + 1) + 1, c \o b, d + 1) /\ c \o b \in Seq(Symbols)
        /\ LeadsFrom(t, d + 1, b, d)
    <2>1. (d + 1) + 1 \in Nat /\ (d + 1) + 1 > 0 /\ d + 1 \in Nat
          /\ Unnest((d + 1) + 1) = d + 1 /\ Unnest(d + 1) = d
      BY DEF Unnest
    <2>2. LeadsFrom(t, (d + 1) + 1, c \o b, Unnest((d + 1) + 1)) /\ c \o b \in Seq(Symbols)
      BY <2>1, InsideLeads
    <2>3. LeadsFrom(t, d + 1, b, Unnest(d + 1))
      BY <2>1, ParensLead
    <2> QED BY <2>1, <2>2, <2>3
  <1>5. Here(t, m, w)
    OBVIOUS
  <1> HIDE DEF o, c, b, w
  <1>6. d + 1 \in Nat /\ (d + 1) + 1 \in Nat
    OBVIOUS
  <1>7. LeadsFrom(t, (d + 1) + 1, (c \o b) \o b, d) /\ (c \o b) \o b \in Seq(Symbols)
    BY <1>1, <1>4, <1>6, LeadsOn, ZenonT(40)
  <1>8. LeadsFrom(t, d, r, d) /\ r \in Seq(Symbols)
    BY <1>1, <1>3, <1>6, <1>7, LeadsOn
  <1>9. w = x \o r
    <2>1. Regroups(x, o, c, b)
      BY <1>1, Regrouped
    <2> QED BY <1>1, <2>1 DEF r, Regroups
  <1>10. r[1] = "/" /\ Len(r) > 0
    <2> DEFINE z == (c \o b) \o b
    <2>1. z \in Seq(Symbols)
      BY <1>7
    <2> HIDE DEF z
    <2>2. (o \o z)[1] = o[1] /\ Len(o \o z) > 0
      BY <1>1, <1>2, <2>1
    <2> QED BY <1>2, <2>2 DEF z
  <1> HIDE DEF r
  <1>11. Here(t, m, x) /\ Here(t, m + Len(x), r) /\ Len(w) = Len(x) + Len(r)
    BY <1>1, <1>5, <1>8, <1>9, HereParts
  <1>12. Len(x) \in Nat /\ Len(r) \in Nat /\ m + Len(x) \in Nat /\ (m + Len(x)) + Len(r) \in Nat
    BY <1>1, <1>8
  <1>13. Passes(t, m, m + Len(x), "outside", d)
    <2>1. x \in Seq(PathPart) /\ Len(x) > 0
      <3>1. IsIdentifier(x) /\ x \in Seq(IdentPart) /\ IdentPart \subseteq PathPart
        BY DEF Idents, IsIdentifier, PathPart
      <3>2. x \in Seq(PathPart)
        BY <3>1, SeqMonotonic
      <3> QED BY <3>1, <3>2, IdentifierProperties
    <2>5. m + Len(x) + 1 <= Len(t) /\ t[m + Len(x) + 1] = r[1]
      <3>1. Len(r) > 0
        BY <1>10
      <3> QED BY <1>11, <1>12, <3>1 DEF Here
    <2>2. m + Len(x) + 1 <= Len(t) /\ t[m + Len(x) + 1] = "/"
      BY <1>10, <2>5
    <2>3. "/" \notin Separators
      BY DEF Separators
    <2>4. d > 0 \/ (m = 0 /\ Len(x) < Len(t) /\ ~(LoneAnd(x) /\ t[Len(x) + 1] \in Separators))
      <3>1. m = 0 => Len(x) < Len(t) /\ t[Len(x) + 1] = "/"
        BY <1>12, <2>2
      <3> QED BY <2>3, <3>1
    <2> QED BY <1>11, <2>1, <2>4, PathPasses
  <1>14. Passes(t, m + Len(x), (m + Len(x)) + Len(r), "outside", d)
    BY <1>8, <1>11, <1>12, <1>13 DEF LeadsFrom, Passes
  <1>15. Passes(t, m, (m + Len(x)) + Len(r), "outside", d)
    BY <1>12, <1>13, <1>14, PassesJoins
  <1>16. (m + Len(x)) + Len(r) = m + Len(w)
    BY <1>11, <1>12
  <1> QED BY <1>15, <1>16 DEF w, c

-----------------------------------------------------------------------------
(* A clause in parentheses is not cut. *)

RepeatGrows(s, n) ==
    Repeat(s, n + 1) = <<s>> \o Repeat(s, n) /\ Repeat(s, n + 1) = Repeat(s, n) \o <<s>>

LEMMA RepeatType ==
    ASSUME NEW s \in Symbols, NEW n \in Nat
    PROVE  Repeat(s, n) \in Seq(Symbols) /\ Len(Repeat(s, n)) = n
  <1>1. Repeat(s, n) \in [1..n -> Symbols]
    BY DEF Repeat
  <1> QED BY <1>1

LEMMA RepeatSteps ==
    ASSUME NEW s \in Symbols
    PROVE  Repeat(s, 0) = <<>> /\ \A n \in Nat : RepeatGrows(s, n)
  <1>1. Repeat(s, 0) = <<>>
    BY DEF Repeat
  <1>2. ASSUME NEW n \in Nat
        PROVE  RepeatGrows(s, n)
    <2> DEFINE r == Repeat(s, n)
               w == Repeat(s, n + 1)
    <2>1. r \in Seq(Symbols) /\ Len(r) = n /\ \A i \in 1..n : r[i] = s
      BY RepeatType DEF Repeat
    <2>2. w \in Seq(Symbols) /\ Len(w) = n + 1 /\ \A i \in 1..n + 1 : w[i] = s
      BY RepeatType DEF Repeat
    <2> HIDE DEF r, w
    <2>3. w = <<s>> \o r
      BY <2>1, <2>2
    <2>4. w = r \o <<s>>
      BY <2>1, <2>2
    <2> QED BY <2>3, <2>4 DEF RepeatGrows, r, w
  <1> QED BY <1>1, <1>2

LEMMA EmptyLeads ==
    ASSUME NEW t \in Seq(Symbols), NEW d \in Nat
    PROVE  LeadsFrom(t, d, <<>>, d)
  <1>1. Len(<<>>) = 0
    OBVIOUS
  <1> QED BY <1>1 DEF LeadsFrom, Passes, NoCut

LEMMA RepeatLeads ==
    ASSUME NEW t \in Seq(Symbols)
    PROVE  \A n \in Nat : /\ LeadsFrom(t, 0, Repeat("(", n), n)
                          /\ LeadsFrom(t, n, Repeat(")", n), 0)
  <1> DEFINE S == {n \in Nat : /\ LeadsFrom(t, 0, Repeat("(", n), n)
                               /\ LeadsFrom(t, n, Repeat(")", n), 0)}
             a == <<"(">>
             b == <<")">>
  <1>1. "(" \in Symbols /\ ")" \in Symbols
    BY DEF Symbols, Punctuation
  <1>2. a \in Seq(Symbols) /\ b \in Seq(Symbols)
    BY <1>1
  <1>3. 0 \in S
    <2>1. Repeat("(", 0) = <<>> /\ Repeat(")", 0) = <<>>
      BY <1>1, RepeatSteps
    <2> QED BY <2>1, EmptyLeads
  <1>4. ASSUME NEW n \in Nat, n \in S
        PROVE  n + 1 \in S
    <2> DEFINE x == Repeat("(", n)
               y == Repeat(")", n)
    <2>1. x \in Seq(Symbols) /\ y \in Seq(Symbols)
      BY <1>1, RepeatType
    <2>2. RepeatGrows("(", n) /\ RepeatGrows(")", n)
      BY <1>1, RepeatSteps
    <2>3. Repeat("(", n + 1) = x \o a /\ Repeat(")", n + 1) = b \o y
      BY <2>2 DEF RepeatGrows
    <2>4. LeadsFrom(t, 0, x, n) /\ LeadsFrom(t, n, y, 0)
      BY <1>4
    <2>5. LeadsFrom(t, n, a, n + 1) /\ LeadsFrom(t, n + 1, b, n)
      <3>1. \A d \in Nat : LeadsFrom(t, d, a, d + 1) /\ LeadsFrom(t, d, b, Unnest(d))
        BY ParensLead
      <3> HIDE DEF a, b
      <3>2. n + 1 \in Nat /\ Unnest(n + 1) = n
        BY DEF Unnest
      <3> QED BY <3>1, <3>2
    <2> HIDE DEF a, b, x, y
    <2>6. LeadsFrom(t, 0, x \o a, n + 1)
      BY <1>2, <2>1, <2>4, <2>5, LeadsOn
    <2>7. LeadsFrom(t, n + 1, b \o y, 0)
      BY <1>2, <2>1, <2>4, <2>5, LeadsOn
    <2>8. LeadsFrom(t, 0, Repeat("(", n + 1), n + 1) /\ LeadsFrom(t, n + 1, Repeat(")", n + 1), 0)
      BY <2>3, <2>6, <2>7
    <2> QED BY <2>8
  <1> HIDE DEF S
  <1>5. Nat \subseteq S
    BY <1>3, <1>4, SetInduction
  <1> QED BY <1>5 DEF S

PassesAnywhere(c) ==
    \A t \in Seq(Symbols), m \in Nat, d \in Nat :
        /\ Here(t, m, c) /\ At(t, m, "outside", d) /\ ~QuoteFollows(t, m + Len(c))
        /\ d > 0 \/ m = 0
        => Passes(t, m, m + Len(c), "outside", d)

Wrapped(c, n) == Repeat("(", n) \o c \o Repeat(")", n)

LEMMA WrappedIsOneClause ==
    ASSUME NEW c \in Seq(Symbols), PassesAnywhere(c), NEW n \in Nat
    PROVE  /\ Wrapped(c, n) \in Seq(Symbols)
           /\ ParseFilter(Wrapped(c, n)) = parseClause(Wrapped(c, n))
           /\ ~EndsOpen(Wrapped(c, n))
  <1> DEFINE a == Repeat("(", n)
             b == Repeat(")", n)
             t == Wrapped(c, n)
             k == n + Len(c)
  <1>1. a \in Seq(Symbols) /\ b \in Seq(Symbols) /\ Len(a) = n /\ Len(b) = n
    <2>1. "(" \in Symbols /\ ")" \in Symbols
      BY DEF Symbols, Punctuation
    <2> QED BY <2>1, RepeatType
  <1>2. n > 0 => b[1] = ")"
    BY DEF Repeat
  <1>3. t = (a \o c) \o b
    BY DEF Wrapped
  <1> HIDE DEF a, b, t
  <1>4. t \in Seq(Symbols) /\ a \o c \in Seq(Symbols)
    BY <1>1, <1>3, TextConcat
  <1>5. LeadsFrom(t, 0, a, n) /\ LeadsFrom(t, n, b, 0)
    BY <1>4, RepeatLeads DEF a, b
  <1>6. Here(t, 0, a) /\ Here(t, n, c) /\ Here(t, k, b) /\ Len(t) = k + n
    <2>0. a \in Seq(Symbols) /\ b \in Seq(Symbols) /\ t \in Seq(Symbols) /\ 0 \in Nat
      BY <1>1, <1>4
    <2>1. Here(t, 0, t)
      BY <1>4, HereAll
    <2> DEFINE x == a \o c
    <2>2. x \in Seq(Symbols) /\ Here(t, 0, x \o b)
      BY <1>3, <1>4, <2>1
    <2> HIDE DEF x
    <2>3. Here(t, 0, x) /\ Here(t, 0 + Len(x), b) /\ Len(x \o b) = Len(x) + Len(b)
      BY <2>0, <2>2, HereParts
    <2>4. Here(t, 0, a) /\ Here(t, 0 + Len(a), c) /\ Len(a \o c) = Len(a) + Len(c)
      <3>1. Here(t, 0, a \o c)
        BY <2>3 DEF x
      <3> QED BY <2>0, <3>1, HereParts
    <2>5. Len(x) = k /\ Len(t) = k + n /\ 0 + Len(x) = k /\ 0 + Len(a) = n
      <3>1. Len(c) \in Nat
        OBVIOUS
      <3>2. Len(x) = n + Len(c)
        BY <1>1, <2>4 DEF x
      <3>3. Len(t) = Len(x) + n
        BY <1>1, <1>3, <2>3 DEF x
      <3> QED BY <1>1, <3>1, <3>2, <3>3
    <2> QED BY <2>3, <2>4, <2>5
  <1>7. Len(c) \in Nat /\ k \in Nat /\ k + n \in Nat /\ n \in Nat
    OBVIOUS
  <1>8. At(t, 0, "outside", 0)
    BY <1>4, ScanDef DEF At, Unscanned
  <1>9. Passes(t, 0, n, "outside", n)
    <2>1. 0 + Len(a) = n
      BY <1>1
    <2>2. Passes(t, 0, 0 + Len(a), "outside", n)
      BY <1>5, <1>6, <1>8 DEF LeadsFrom
    <2> QED BY <2>1, <2>2
  <1>10. Passes(t, n, k, "outside", n)
    <2>1. At(t, n, "outside", n)
      BY <1>9 DEF Passes
    <2>2. ~QuoteFollows(t, k)
      <3>1. CASE n = 0
        BY <1>6, <1>7, <3>1 DEF QuoteFollows
      <3>2. CASE n > 0
        <4>1. Len(b) > 0
          BY <1>1, <3>2
        <4>2. t[k + 1] = b[1]
          BY <1>6, <4>1 DEF Here
        <4>3. t[k + 1] = ")"
          BY <1>2, <3>2, <4>2
        <4> QED BY <4>3 DEF QuoteFollows
      <3> QED BY <3>1, <3>2
    <2>3. n > 0 \/ n = 0
      OBVIOUS
    <2> QED BY <1>4, <1>6, <1>7, <2>1, <2>2, <2>3 DEF PassesAnywhere
  <1>11. Passes(t, k, k + n, "outside", 0)
    <2>1. At(t, k, "outside", n)
      BY <1>10 DEF Passes
    <2>2. Passes(t, k, k + Len(b), "outside", 0)
      BY <1>5, <1>6, <1>7, <2>1 DEF LeadsFrom
    <2> QED BY <1>1, <2>2
  <1> HIDE DEF k
  <1>12. Passes(t, 0, k, "outside", n)
    BY <1>7, <1>9, <1>10, PassesJoins
  <1>13. Passes(t, 0, Len(t), "outside", 0)
    <2>1. Passes(t, 0, k + n, "outside", 0)
      BY <1>7, <1>11, <1>12, PassesJoins
    <2> QED BY <1>6, <2>1
  <1>14. splitTopLevelAndClauses(t) = <<t>>
    BY <1>4, <1>13, UncutText DEF Passes
  <1>15. ~EndsOpen(t)
    BY <1>13 DEF Passes, At, EndsOpen, Ends, Ground
  <1>16. ParseFilter(t) = parseClause(t)
    <2>1. <<t>> = Append(<<>>, t) /\ <<>> \in Seq(Seq(Symbols))
      OBVIOUS
    <2>2. parseClauses[Append(<<>>, t)] = parseClauses[<<>>] \o parseClause(t)
      BY <1>4, <2>1, ParseClausesAppend
    <2>3. parseClause(t) \in Seq(Filter)
      BY <1>4, ParseClauseType
    <2>4. parseClauses[<<t>>] = <<>> \o parseClause(t)
      BY <2>1, <2>2, ParseClausesParts
    <2> QED BY <1>14, <2>3, <2>4 DEF ParseFilter
  <1> QED BY <1>4, <1>15, <1>16 DEF t

-----------------------------------------------------------------------------
(* The tokens of a clause.  Clear is what may follow anything.               *)
Clear == {r \in Seq(Symbols) : r = <<>> \/ r[1] \in Punctuation \cup {Space}}

IdentToken(s) == Token("ident", s)
StringToken(v) == Token("string", v)
PunctToken(p) == Token(p, <<p>>)

LEMMA ClearFollows ==
    \A r \in Clear : AfterIdent(r) /\ AfterString(r) /\ r \in Seq(Symbols)
  <1> SUFFICES ASSUME NEW r \in Clear
               PROVE  r = <<>> \/ (r[1] \notin IdentPart /\ r[1] # "'")
    BY DEF AfterIdent, AfterString, Clear
  <1>1. CASE r[1] \in Punctuation
    <2>1. r[1] \notin Words /\ r[1] # "-" /\ r[1] # "'"
      BY <1>1, SymbolsDiffer DEF Punctuation
    <2> QED BY <2>1 DEF IdentPart
  <1>2. CASE r[1] = Space
    <2>1. Space \notin Words /\ Space # "-" /\ Space # "'"
      BY SymbolsDiffer DEF Space
    <2> QED BY <1>2, <2>1 DEF IdentPart
  <1> QED BY <1>1, <1>2 DEF Clear

LEMMA ClearCons ==
    ASSUME NEW p \in Punctuation \cup {Space}, NEW r \in Seq(Symbols)
    PROVE  <<p>> \o r \in Clear /\ <<p>> \o r \in Seq(Symbols) /\ <<p>> \in Seq(Symbols)
  <1>1. p \in Symbols
    BY QuoteIsSymbol DEF Space
  <1>2. <<p>> \o r \in Seq(Symbols) /\ (<<p>> \o r)[1] = p
    BY <1>1, ConsProperties
  <1> DEFINE w == <<p>> \o r
  <1>3. w \in Seq(Symbols) /\ w[1] = p
    BY <1>2
  <1>4. <<p>> \in Seq(Symbols)
    BY <1>1
  <1> HIDE DEF w
  <1>5. w \in Clear
    BY <1>3 DEF Clear
  <1> QED BY <1>3, <1>4, <1>5 DEF w

LEMMA ConsTokens ==
    ASSUME NEW x \in Tokens, NEW s \in Seq(Tokens)
    PROVE  /\ Cons(x, s) \in Seq(Tokens) /\ Len(Cons(x, s)) = Len(s) + 1
           /\ Cons(x, s)[1] = x /\ Kind(Cons(x, s), 1) = x.kind
           /\ Tail(Cons(x, s)) = s
           /\ \A n \in Nat \ {0} : Kind(Cons(x, s), n + 1) = Kind(s, n)
           /\ \A n \in Nat : n \in 0..Len(s) => After(Cons(x, s), n + 1) = After(s, n)
           /\ \A n \in 1..Len(s) : Cons(x, s)[n + 1] = s[n]
           /\ \A t \in Seq(Tokens) : Cons(x, s) \o t = Cons(x, s \o t)
  <1> DEFINE c == Cons(x, s)
  <1>1. /\ c \in Seq(Tokens) /\ Len(c) = Len(s) + 1 /\ c[1] = x /\ Tail(c) = s
        /\ \A n \in 1..Len(s) : c[n + 1] = s[n]
    BY ConsProperties DEF Cons
  <1>2. \A t \in Seq(Tokens) : Cons(x, s) \o t = Cons(x, s \o t)
    <2>1. <<x>> \in Seq(Tokens)
      OBVIOUS
    <2> QED BY <2>1, Concatenation DEF Cons
  <1> HIDE DEF c
  <1>3. Kind(c, 1) = x.kind
    <2>1. 1 <= Len(c)
      BY <1>1
    <2> QED BY <1>1, <2>1 DEF Kind
  <1>4. \A n \in Nat \ {0} : Kind(c, n + 1) = Kind(s, n)
    <2> TAKE n \in Nat \ {0}
    <2>1. n + 1 <= Len(c) <=> n <= Len(s)
      BY <1>1
    <2>2. n <= Len(s) => c[n + 1] = s[n]
      BY <1>1
    <2> QED BY <2>1, <2>2 DEF Kind
  <1>5. \A n \in Nat : n \in 0..Len(s) => After(c, n + 1) = After(s, n)
    <2> SUFFICES ASSUME NEW n \in 0..Len(s)
                 PROVE  After(c, n + 1) = After(s, n)
      OBVIOUS
    <2> DEFINE k == n + 1
    <2>1. k \in 0..Len(c) /\ Len(c) - k = Len(s) - n
      BY <1>1
    <2>2. /\ After(c, k) \in Seq(Tokens) /\ Len(After(c, k)) = Len(c) - k
          /\ \A i \in 1..Len(c) - k : After(c, k)[i] = c[k + i]
      BY <1>1, <2>1, AfterProperties
    <2>3. /\ After(s, n) \in Seq(Tokens) /\ Len(After(s, n)) = Len(s) - n
          /\ \A i \in 1..Len(s) - n : After(s, n)[i] = s[n + i]
      BY AfterProperties
    <2>4. \A i \in 1..Len(s) - n : c[k + i] = s[n + i]
      <3> TAKE i \in 1..Len(s) - n
      <3>1. n + i \in 1..Len(s) /\ k + i = (n + i) + 1
        OBVIOUS
      <3> QED BY <1>1, <3>1
    <2> HIDE DEF k
    <2> DEFINE u == After(c, k)
               v == After(s, n)
    <2>5. u \in Seq(Tokens) /\ v \in Seq(Tokens) /\ Len(u) = Len(v)
          /\ \A i \in 1..Len(u) : u[i] = v[i]
      BY <2>1, <2>2, <2>3, <2>4
    <2> HIDE DEF u, v
    <2>6. u = v
      BY <2>5, SeqEqual
    <2> QED BY <2>6 DEF u, v, k
  <1> QED BY <1>1, <1>2, <1>3, <1>4, <1>5 DEF c

ConsJoins(x, s, t) == Cons(x, s) \o t = Cons(x, s \o t)
ConsRests(x, s, n) == After(Cons(x, s), n + 1) = After(s, n)

LEMMA ConsMoves ==
    ASSUME NEW x \in Tokens, NEW s \in Seq(Tokens)
    PROVE  /\ \A t \in Seq(Tokens) : ConsJoins(x, s, t)
           /\ \A n \in 0..Len(s) : ConsRests(x, s, n)
  <1>1. \A t \in Seq(Tokens) : Cons(x, s) \o t = Cons(x, s \o t)
    BY ConsTokens
  <1>2. \A n \in Nat : n \in 0..Len(s) => After(Cons(x, s), n + 1) = After(s, n)
    BY ConsTokens
  <1>3. \A n \in 0..Len(s) : n \in Nat
    OBVIOUS
  <1>4. \A t \in Seq(Tokens) : ConsJoins(x, s, t)
    BY <1>1 DEF ConsJoins
  <1>5. \A n \in 0..Len(s) : ConsRests(x, s, n)
    BY <1>2, <1>3 DEF ConsRests
  <1> QED BY <1>4, <1>5

LEMMA LexParts ==
    /\ \A r \in Seq(Symbols) : lexClause[<<Space>> \o r] = lexClause[r]
    /\ \A p \in Punctuation, r \in Seq(Symbols) :
          PunctToken(p) \in Tokens /\ lexClause[<<p>> \o r] = Cons(PunctToken(p), lexClause[r])
    /\ \A s \in Idents, r \in Clear :
          IdentToken(s) \in Tokens /\ lexClause[s \o r] = Cons(IdentToken(s), lexClause[r])
    /\ \A v \in Seq(Symbols), r \in Clear :
          StringToken(v) \in Tokens /\ lexClause[Quoted(v) \o r] = Cons(StringToken(v), lexClause[r])
  <1>1. \A r \in Seq(Symbols) : lexClause[<<Space>> \o r] = lexClause[r]
    BY LexSpace DEF Space
  <1>2. \A p \in Punctuation, r \in Seq(Symbols) :
          PunctToken(p) \in Tokens /\ lexClause[<<p>> \o r] = Cons(PunctToken(p), lexClause[r])
    BY LexPunctuation, TokenTypes DEF PunctToken, Cons
  <1>3. \A s \in Idents, r \in Clear :
          IdentToken(s) \in Tokens /\ lexClause[s \o r] = Cons(IdentToken(s), lexClause[r])
    BY LexIdentifier, TokenTypes, ClearFollows DEF IdentToken, Cons, Idents
  <1>4. \A v \in Seq(Symbols), r \in Clear :
          StringToken(v) \in Tokens /\ lexClause[Quoted(v) \o r] = Cons(StringToken(v), lexClause[r])
    BY LexQuoted, TokenTypes, ClearFollows DEF StringToken, Cons
  <1> QED BY <1>1, <1>2, <1>3, <1>4

LEMMA LexEmpty == lexClause[<<>>] = <<>> /\ <<>> \in Clear
  <1>1. <<>> \in Seq(Symbols)
    OBVIOUS
  <1>2. lexClause[<<>>] = LexBody(lexClause, <<>>)
    BY <1>1, LexClauseDef
  <1> QED BY <1>1, <1>2 DEF LexBody, Clear

(* The further segments of a path, before what may follow anything. *)
LexesSlashed(p, r) ==
    /\ Slashed[p] \o r \in Clear
    /\ lexClause[Slashed[p] \o r] = lexClause[Slashed[p]] \o lexClause[r]

SlashedToken(x, p) ==
    lexClause[Slashed[<<x>> \o p]] = Cons(PunctToken("/"), Cons(IdentToken(x), lexClause[Slashed[p]]))

LEMMA SlashedTokens ==
    ASSUME NEW x \in Idents, NEW p \in Seq(Idents), NEW r \in Seq(Symbols), Slashed[p] \o r \in Clear
    PROVE  /\ Slashed[<<x>> \o p] \o r \in Clear
           /\ lexClause[Slashed[<<x>> \o p] \o r]
                = Cons(PunctToken("/"), Cons(IdentToken(x), lexClause[Slashed[p] \o r]))
  <1> DEFINE c == <<"/">>
             b == Slashed[p]
             z == b \o r
             y == x \o z
             w == Slashed[<<x>> \o p] \o r
  <1>1. /\ x \in Seq(Symbols) /\ b \in Seq(Symbols) /\ c \in Seq(Symbols) /\ z \in Clear
        /\ "/" \in Punctuation
    <2>1. x \in Seq(Symbols)
      BY DEF Idents
    <2>2. b \in Seq(Symbols)
      BY SlashedType, PathParts, SeqMonotonic
    <2>3. "/" \in Punctuation
      BY DEF Punctuation
    <2>4. c \in Seq(Symbols)
      <3>1. "/" \in Symbols
        BY <2>3, QuoteIsSymbol
      <3> QED BY <3>1
    <2> QED BY <2>1, <2>2, <2>3, <2>4
  <1>2. w = ((c \o x) \o b) \o r
    <2>1. p \in Seq(Seq(Symbols))
      <3>1. Idents \subseteq Seq(Symbols)
        BY DEF Idents
      <3> QED BY <3>1, SeqMonotonic
    <2>2. Slashed[<<x>> \o p] = (c \o x) \o b
      BY <1>1, <2>1, SlashedParts
    <2> QED BY <2>2
  <1> HIDE DEF b, c, w
  <1>3. z \in Seq(Symbols) /\ y \in Seq(Symbols)
    <2>1. z \in Seq(Symbols)
      BY <1>1 DEF Clear
    <2> HIDE DEF z
    <2> QED BY <1>1, <2>1, TextConcat
  <1>4. w = c \o y
    <2>1. RightGrouped(c, x, b, r)
      BY <1>1, RightGroups
    <2>2. ((c \o x) \o b) \o r = c \o (x \o (b \o r))
      BY <2>1 DEF RightGrouped
    <2> QED BY <1>2, <2>2
  <1> HIDE DEF z, y
  <1>5. w \in Clear
    <2>1. c \o y \in Clear
      BY <1>1, <1>3, ClearCons DEF c
    <2> QED BY <1>4, <2>1
  <1>6. lexClause[w] = Cons(PunctToken("/"), lexClause[y])
    <2>1. lexClause[<<"/">> \o y] = Cons(PunctToken("/"), lexClause[y])
      BY <1>1, <1>3, LexParts
    <2> QED BY <1>4, <2>1 DEF c
  <1>7. lexClause[y] = Cons(IdentToken(x), lexClause[z])
    BY <1>1, LexParts DEF y
  <1>8. lexClause[w] = Cons(PunctToken("/"), Cons(IdentToken(x), lexClause[z]))
    BY <1>6, <1>7
  <1> QED BY <1>5, <1>8 DEF w, z, b

LEMMA SlashedIsClear == \A p \in Seq(Idents) : Slashed[p] \in Clear
  <1> DEFINE P == {p \in Seq(Idents) : Slashed[p] \in Clear}
  <1>1. <<>> \in P
    <2>1. <<>> \in Seq(Idents)
      OBVIOUS
    <2> QED BY <2>1, SlashedParts, LexEmpty
  <1>2. ASSUME NEW x \in Idents, NEW p \in Seq(Idents), p \in P
        PROVE  <<x>> \o p \in P
    <2>1. <<x>> \o p \in Seq(Idents) /\ <<>> \in Seq(Symbols)
      OBVIOUS
    <2>2. Slashed[p] \o <<>> \in Clear
      <3>1. Slashed[p] \in Clear /\ Slashed[p] \in Seq(Symbols)
        BY <1>2 DEF Clear
      <3>2. Slashed[p] \o <<>> = Slashed[p]
        BY <3>1
      <3> QED BY <3>1, <3>2
    <2> DEFINE w == Slashed[<<x>> \o p]
    <2>3. w \o <<>> \in Clear
      BY <2>1, <2>2, SlashedTokens
    <2>4. w \in Seq(Symbols)
      BY <2>1, SlashedType, PathParts, SeqMonotonic
    <2> HIDE DEF w
    <2>5. w \in Clear
      <3>1. w \o <<>> = w
        BY <2>4
      <3> QED BY <2>3, <3>1
    <2> QED BY <2>1, <2>5 DEF w
  <1>3. Seq(Idents) \subseteq P
    <2> HIDE DEF P
    <2> QED BY <1>1, <1>2, TailFirst
  <1> QED BY <1>3

LEMMA SlashedTokensAlone ==
    ASSUME NEW x \in Idents, NEW p \in Seq(Idents)
    PROVE  /\ SlashedToken(x, p)
           /\ lexClause[Slashed[p]] \in Seq(Tokens)
  <1> DEFINE w == Slashed[<<x>> \o p]
             b == Slashed[p]
  <1>1. b \in Clear /\ b \in Seq(Symbols)
    BY SlashedIsClear DEF Clear
  <1>2. w \in Seq(Symbols)
    <2>1. <<x>> \o p \in Seq(Idents)
      OBVIOUS
    <2> QED BY <2>1, SlashedType, PathParts, SeqMonotonic
  <1>3. b \o <<>> = b
    <2> HIDE DEF b
    <2> QED BY <1>1
  <1>4. w \o <<>> = w
    <2> HIDE DEF w
    <2> QED BY <1>2
  <1>5. <<>> \in Seq(Symbols)
    OBVIOUS
  <1>6. lexClause[w \o <<>>] = Cons(PunctToken("/"), Cons(IdentToken(x), lexClause[b \o <<>>]))
    BY <1>1, <1>3, <1>5, SlashedTokens
  <1>7. lexClause[b] \in Seq(Tokens)
    BY <1>1, LexClauseType
  <1> QED BY <1>3, <1>4, <1>6, <1>7 DEF SlashedToken

LEMMA SlashIsPunctuation == {"/", "(", ")", ":"} \subseteq Punctuation
  BY DEF Punctuation

LEMMA SlashedLexes ==
    ASSUME NEW r \in Clear
    PROVE  \A p \in Seq(Idents) : LexesSlashed(p, r)
  <1> DEFINE P == {p \in Seq(Idents) : LexesSlashed(p, r)}
  <1>0. r \in Seq(Symbols) /\ lexClause[r] \in Seq(Tokens) /\ <<>> \in Seq(Symbols)
    BY LexClauseType DEF Clear
  <1>1. <<>> \in P
    <2>1. <<>> \in Seq(Idents)
      OBVIOUS
    <2>2. Slashed[<<>>] \o r = r /\ Slashed[<<>>] = <<>>
      BY <1>0, SlashedParts
    <2>3. <<>> \o lexClause[r] = lexClause[r]
      BY <1>0
    <2> QED BY <2>1, <2>2, <2>3, LexEmpty DEF LexesSlashed
  <1>2. ASSUME NEW x \in Idents, NEW p \in Seq(Idents), p \in P
        PROVE  LexesSlashed(<<x>> \o p, r)
    <2> DEFINE s == lexClause[Slashed[p]]
               a == PunctToken("/")
               b == IdentToken(x)
               w == Slashed[<<x>> \o p]
    <2>1. LexesSlashed(p, r)
      BY <1>2
    <2>2. LexesSlashed(p, <<>>)
      <3>1. Slashed[p] \in Seq(Symbols)
        BY SlashedType, PathParts, SeqMonotonic
      <3>2. Slashed[p] \o <<>> = Slashed[p]
        BY <3>1
      <3>3. Slashed[p] \in Clear
        BY <3>1, SlashedIsClear
      <3>4. s \in Seq(Tokens)
        BY <3>1, LexClauseType
      <3>5. s \o <<>> = s
        BY <3>4
      <3> QED BY <3>2, <3>3, <3>5, LexEmpty DEF LexesSlashed
    <2>3. /\ w \o r \in Clear
          /\ lexClause[w \o r] = Cons(a, Cons(b, lexClause[Slashed[p] \o r]))
      BY <1>0, <2>1, SlashedTokens DEF LexesSlashed
    <2>4. lexClause[w] = Cons(a, Cons(b, s)) /\ s \in Seq(Tokens)
      BY SlashedTokensAlone DEF SlashedToken
    <2>5. a \in Tokens /\ b \in Tokens
      BY <1>0, LexParts, LexEmpty, SlashIsPunctuation
    <2>6. lexClause[w \o r] = Cons(a, Cons(b, s \o lexClause[r]))
      BY <2>1, <2>3 DEF LexesSlashed
    <2> HIDE DEF a, b, s, w
    <2>7. Cons(a, Cons(b, s)) \o lexClause[r] = Cons(a, Cons(b, s \o lexClause[r]))
      <3> DEFINE c == Cons(b, s)
                 t == lexClause[r]
      <3>1. t \in Seq(Tokens)
        BY <1>0
      <3>2. c \in Seq(Tokens)
        BY <2>4, <2>5, ConsTokens
      <3> HIDE DEF t
      <3>3. ConsJoins(b, s, t)
        BY <2>4, <2>5, <3>1, ConsMoves
      <3>4. c \o t = Cons(b, s \o t)
        BY <3>3 DEF ConsJoins
      <3> HIDE DEF c
      <3>5. ConsJoins(a, c, t)
        BY <2>5, <3>1, <3>2, ConsMoves
      <3>6. Cons(a, c) \o t = Cons(a, c \o t)
        BY <3>5 DEF ConsJoins
      <3> QED BY <3>4, <3>6 DEF c, t
    <2>8. lexClause[w \o r] = lexClause[w] \o lexClause[r]
      BY <2>4, <2>6, <2>7
    <2> QED BY <2>3, <2>8 DEF LexesSlashed, w
  <1>3. Seq(Idents) \subseteq P
    <2>1. ASSUME NEW x \in Idents, NEW p \in Seq(Idents), p \in P
          PROVE  <<x>> \o p \in P
      <3>1. <<x>> \o p \in Seq(Idents)
        OBVIOUS
      <3> QED BY <1>2, <2>1, <3>1
    <2> HIDE DEF P
    <2> QED BY <1>1, <2>1, TailFirst
  <1> QED BY <1>3

-----------------------------------------------------------------------------
(* A path is read as it was written. *)

PathIsRead(x, p, rest) ==
    PathFrom({})[Cons(IdentToken(x), lexClause[Slashed[p]] \o rest)] = [path |-> <<x>> \o p, rest |-> rest]

(* The kinds of the tokens that are made above. *)
LEMMA TokenKinds ==
    /\ \A s : IdentToken(s).kind = "ident" /\ IdentToken(s).text = s
    /\ \A v : StringToken(v).kind = "string" /\ StringToken(v).text = v
    /\ \A p : PunctToken(p).kind = p
    /\ \A s \in Seq(Symbols) : IdentToken(s) \in Tokens /\ StringToken(s) \in Tokens
    /\ \A p \in Punctuation : PunctToken(p) \in Tokens
  BY TokenTypes DEF IdentToken, StringToken, PunctToken, Token

LEMMA LastSegment ==
    ASSUME NEW x \in Seq(Symbols), NEW rest \in Seq(Tokens), NEW keywords,
           EndsPath(Cons(IdentToken(x), rest), keywords)
    PROVE  PathFrom(keywords)[Cons(IdentToken(x), rest)] = [path |-> <<x>>, rest |-> rest]
  <1> DEFINE a == IdentToken(x)
             s == Cons(a, rest)
  <1>1. a \in Tokens /\ a.kind = "ident" /\ a.text = x
    BY TokenKinds
  <1>2. EndsPath(s, keywords)
    OBVIOUS
  <1> HIDE DEF a
  <1>3. s \in Seq(Tokens) /\ s[1] = a /\ Kind(s, 1) = a.kind /\ Tail(s) = rest
    BY <1>1, ConsTokens
  <1> HIDE DEF s
  <1>4. PathFrom(keywords)[s] = PathBody(PathFrom(keywords), s, keywords)
    BY <1>3, PathFromDef
  <1>5. Kind(s, 1) = "ident"
    BY <1>1, <1>3
  <1>6. PathBody(PathFrom(keywords), s, keywords) = [path |-> <<s[1].text>>, rest |-> Tail(s)]
    BY <1>2, <1>5 DEF PathBody
  <1>7. s[1].text = x
    BY <1>1, <1>3
  <1> QED BY <1>3, <1>4, <1>6, <1>7 DEF s, a

LEMMA PathsAreRead ==
    ASSUME NEW rest \in Seq(Tokens), Kind(rest, 1) \notin {"/", "."}
    PROVE  \A p \in Seq(Idents) : \A x \in Seq(Symbols) : PathIsRead(x, p, rest)
  <1> DEFINE P == {p \in Seq(Idents) : \A x \in Seq(Symbols) : PathIsRead(x, p, rest)}
  <1>1. <<>> \in P
    <2>1. <<>> \in Seq(Idents) /\ <<>> \o rest = rest
      OBVIOUS
    <2>2. lexClause[Slashed[<<>>]] = <<>>
      BY SlashedParts, LexEmpty
    <2>3. ASSUME NEW x \in Seq(Symbols)
          PROVE  PathIsRead(x, <<>>, rest)
      <3> DEFINE s == Cons(IdentToken(x), rest)
      <3>1. Kind(s, 1 + 1) = Kind(rest, 1)
        BY TokenKinds, ConsTokens
      <3> HIDE DEF s
      <3>2. EndsPath(s, {})
        <4>1. Kind(s, 2) \notin {"/", "."}
          BY <3>1
        <4> QED BY <4>1 DEF EndsPath
      <3>3. PathFrom({})[s] = [path |-> <<x>>, rest |-> rest]
        BY <3>2, LastSegment DEF s
      <3>4. <<x>> \o <<>> = <<x>>
        OBVIOUS
      <3> QED BY <2>1, <2>2, <3>3, <3>4 DEF PathIsRead, s
    <2> QED BY <2>1, <2>3
  <1>2. ASSUME NEW y \in Idents, NEW p \in Seq(Idents), p \in P, NEW x \in Seq(Symbols)
        PROVE  PathIsRead(x, <<y>> \o p, rest)
    <2> DEFINE a == IdentToken(x)
               b == PunctToken("/")
               c == IdentToken(y)
               ts == lexClause[Slashed[p]]
               z == Cons(c, ts \o rest)
               w == Cons(b, z)
               s == Cons(a, w)
    <2>1. y \in Seq(Symbols)
      BY DEF Idents
    <2>2. a \in Tokens /\ b \in Tokens /\ c \in Tokens /\ a.kind = "ident" /\ b.kind = "/" /\ a.text = x
      BY <2>1, TokenKinds, SlashIsPunctuation
    <2>3. lexClause[Slashed[<<y>> \o p]] = Cons(b, Cons(c, ts)) /\ ts \in Seq(Tokens)
      BY SlashedTokensAlone DEF SlashedToken
    <2>4. PathFrom({})[z] = [path |-> <<y>> \o p, rest |-> rest]
      BY <1>2, <2>1 DEF PathIsRead
    <2>5. p \in Seq(Seq(Symbols))
      <3>1. Idents \subseteq Seq(Symbols)
        BY DEF Idents
      <3> QED BY <3>1, SeqMonotonic
    <2> HIDE DEF a, b, c, ts
    <2>6. Cons(b, Cons(c, ts)) \o rest = w
      <3> DEFINE e == Cons(c, ts)
      <3>1. e \in Seq(Tokens) /\ ConsJoins(c, ts, rest)
        BY <2>2, <2>3, ConsTokens, ConsMoves
      <3>2. e \o rest = z
        BY <3>1 DEF ConsJoins
      <3> HIDE DEF e, z
      <3>3. ConsJoins(b, e, rest)
        BY <2>2, <3>1, ConsMoves
      <3>4. Cons(b, e) \o rest = Cons(b, e \o rest)
        BY <3>3 DEF ConsJoins
      <3> QED BY <3>2, <3>4 DEF e
    <2>7. ts \o rest \in Seq(Tokens)
      BY <2>3
    <2>8. z \in Seq(Tokens)
      <3> DEFINE e == ts \o rest
      <3> HIDE DEF e
      <3>1. Cons(c, e) \in Seq(Tokens)
        BY <2>2, <2>7, ConsTokens DEF e
      <3> QED BY <3>1 DEF e
    <2> HIDE DEF z
    <2>9. w \in Seq(Tokens) /\ Kind(w, 1) = "/" /\ Len(w) = Len(z) + 1
          /\ After(w, 0 + 1) = After(z, 0)
      <3>1. 0 \in 0..Len(z)
        BY <2>8
      <3>2. ConsRests(b, z, 0)
        BY <2>2, <2>8, <3>1, ConsMoves
      <3>3. After(w, 0 + 1) = After(z, 0)
        BY <3>2 DEF ConsRests
      <3>4. w \in Seq(Tokens) /\ Kind(w, 1) = b.kind /\ Len(w) = Len(z) + 1
        BY <2>2, <2>8, ConsTokens
      <3> QED BY <2>2, <3>3, <3>4
    <2> HIDE DEF w
    <2>10. s \in Seq(Tokens) /\ s[1] = a /\ Kind(s, 1) = a.kind /\ Kind(s, 1 + 1) = Kind(w, 1)
           /\ After(s, 1 + 1) = After(w, 1)
      <3>1. 1 \in 0..Len(w) /\ 1 \in Nat \ {0}
        <4>1. Len(w) \in Nat /\ Len(w) = Len(z) + 1 /\ Len(z) \in Nat
          BY <2>8, <2>9
        <4> QED BY <4>1
      <3>2. ConsRests(a, w, 1)
        BY <2>2, <2>9, <3>1, ConsMoves
      <3>3. After(s, 1 + 1) = After(w, 1)
        BY <3>2 DEF ConsRests
      <3>4. s \in Seq(Tokens) /\ s[1] = a /\ Kind(s, 1) = a.kind
        BY <2>2, <2>9, ConsTokens
      <3>5. Kind(s, 1 + 1) = Kind(w, 1)
        BY <2>2, <2>9, <3>1, ConsTokens
      <3> QED BY <3>3, <3>4, <3>5
    <2> HIDE DEF s
    <2>11. After(z, 0) = z
      BY <2>8 DEF After
    <2>12. After(s, 2) = z
      BY <2>9, <2>10, <2>11
    <2>13. PathFrom({})[s] = PathBody(PathFrom({}), s, {})
      BY <2>10, PathFromDef
    <2>14. Kind(s, 1) = "ident" /\ Kind(s, 2) = "/"
      BY <2>2, <2>9, <2>10
    <2>15. ~EndsPath(s, {})
      BY <2>14 DEF EndsPath
    <2>16. PathBody(PathFrom({}), s, {}) = WithSegment(s[1].text, PathFrom({})[After(s, 2)])
      BY <2>14, <2>15 DEF PathBody
    <2>17. PathFrom({})[s] = WithSegment(x, [path |-> <<y>> \o p, rest |-> rest])
      BY <2>2, <2>4, <2>10, <2>12, <2>13, <2>16
    <2>18. [path |-> <<y>> \o p, rest |-> rest] \in Fields
      <3>1. <<y>> \o p \in Seq(Seq(Symbols))
        BY <2>1, <2>5, ConsProperties
      <3> QED BY <3>1 DEF Fields
    <2>19. PathFrom({})[s] = [path |-> <<x>> \o (<<y>> \o p), rest |-> rest]
      BY <2>17, <2>18, FieldsAreRead DEF WithSegment
    <2> QED BY <2>3, <2>6, <2>19 DEF PathIsRead, s, a
  <1>3. Seq(Idents) \subseteq P
    <2>1. ASSUME NEW y \in Idents, NEW p \in Seq(Idents), p \in P
          PROVE  <<y>> \o p \in P
      <3>1. <<y>> \o p \in Seq(Idents)
        OBVIOUS
      <3>2. \A x \in Seq(Symbols) : PathIsRead(x, <<y>> \o p, rest)
        BY <1>2, <2>1
      <3> QED BY <3>1, <3>2
    <2> HIDE DEF P
    <2> QED BY <1>1, <2>1, TailFirst
  <1> QED BY <1>3

-----------------------------------------------------------------------------
(* "<operator> '<value>'" is read as it was written. *)
OperatorTokens(op, v, rest) == Cons(IdentToken(<<op>>), Cons(StringToken(v), rest))

LEMMA OperatorTokensParts ==
    ASSUME NEW op \in Words, NEW v \in Seq(Symbols), NEW rest \in Seq(Tokens)
    PROVE  LET s == OperatorTokens(op, v, rest)
           IN  /\ s \in Seq(Tokens)
               /\ Kind(s, 1) = "ident" /\ s[1].text = <<op>>
               /\ Kind(s, 2) = "string" /\ s[2].text = v
               /\ After(s, 2) = rest
               /\ Len(s) = Len(rest) + 2
               /\ \A i \in 1..Len(rest) : s[i + 2] = rest[i]
  <1> DEFINE a == IdentToken(<<op>>)
             b == StringToken(v)
             z == Cons(b, rest)
             s == Cons(a, z)
  <1>1. /\ a \in Tokens /\ a.kind = "ident" /\ a.text = <<op>>
        /\ b \in Tokens /\ b.kind = "string" /\ b.text = v
    <2>2. op \in Symbols
      BY QuoteIsSymbol
    <2>1. <<op>> \in Seq(Symbols)
      BY <2>2
    <2> QED BY <2>1, TokenKinds
  <1> HIDE DEF a, b
  <1>2. /\ z \in Seq(Tokens) /\ Len(z) = Len(rest) + 1 /\ z[1] = b /\ Kind(z, 1) = b.kind
        /\ \A i \in 1..Len(rest) : z[i + 1] = rest[i]
    BY <1>1, ConsTokens
  <1>3. Len(rest) \in Nat /\ 0 \in 0..Len(rest)
    OBVIOUS
  <1>4. ConsRests(b, rest, 0)
    BY <1>1, <1>3, ConsMoves
  <1>5. After(z, 0 + 1) = After(rest, 0)
    BY <1>4 DEF ConsRests
  <1> HIDE DEF z
  <1>6. 1 \in 0..Len(z) /\ 1 \in 1..Len(z) /\ 1 \in Nat \ {0}
    BY <1>2, <1>3
  <1>7. /\ s \in Seq(Tokens) /\ Len(s) = Len(z) + 1 /\ s[1] = a /\ Kind(s, 1) = a.kind
        /\ Kind(s, 1 + 1) = Kind(z, 1) /\ s[1 + 1] = z[1]
        /\ \A i \in 1..Len(z) : s[i + 1] = z[i]
    <2>1. /\ s \in Seq(Tokens) /\ Len(s) = Len(z) + 1 /\ s[1] = a /\ Kind(s, 1) = a.kind
          /\ \A i \in 1..Len(z) : s[i + 1] = z[i]
      BY <1>1, <1>2, ConsTokens
    <2>2. Kind(s, 1 + 1) = Kind(z, 1)
      BY <1>1, <1>2, <1>6, ConsTokens
    <2> HIDE DEF s
    <2>3. s[1 + 1] = z[1]
      BY <1>6, <2>1
    <2> QED BY <2>1, <2>2, <2>3
  <1>8. ConsRests(a, z, 1)
    BY <1>1, <1>2, <1>6, ConsMoves
  <1>9. After(s, 1 + 1) = After(z, 1)
    BY <1>8 DEF ConsRests
  <1> HIDE DEF s
  <1>10. After(rest, 0) = rest
    BY DEF After
  <1>11. After(s, 2) = rest
    BY <1>5, <1>9, <1>10
  <1>12. \A i \in 1..Len(rest) : s[i + 2] = rest[i]
    <2> TAKE i \in 1..Len(rest)
    <2>1. i + 1 \in 1..Len(z) /\ (i + 1) + 1 = i + 2
      BY <1>2, <1>3
    <2>2. s[(i + 1) + 1] = z[i + 1]
      BY <1>7, <2>1
    <2> QED BY <1>2, <2>1, <2>2
  <1>13. Len(s) = Len(rest) + 2
    BY <1>2, <1>3, <1>7
  <1>14. /\ Kind(s, 1) = "ident" /\ s[1].text = <<op>>
         /\ Kind(s, 2) = "string" /\ s[2].text = v
    BY <1>1, <1>2, <1>7
  <1>15. s = OperatorTokens(op, v, rest)
    BY DEF OperatorTokens, s, z, a, b
  <1> QED BY <1>7, <1>11, <1>12, <1>13, <1>14, <1>15

LEMMA FoldWord == \A w : FoldCase(<<w>>) = <<Lower(w)>>
  BY DEF FoldCase

Saying(path, operator, value, rest) ==
    [filter |-> [path |-> path, operator |-> operator, value |-> value], rest |-> rest]

LEMMA ComparisonIsRead ==
    ASSUME NEW op \in Words, Lower(op) \in Operators, NEW v \in Seq(Symbols),
           NEW rest \in Seq(Tokens), NEW path
    PROVE  Compared(OperatorTokens(op, v, rest), path) = Saying(path, Lower(op), v, rest)
  <1> DEFINE s == OperatorTokens(op, v, rest)
  <1>1. /\ Kind(s, 1) = "ident" /\ s[1].text = <<op>>
        /\ Kind(s, 2) = "string" /\ s[2].text = v
        /\ After(s, 2) = rest
    BY OperatorTokensParts
  <1> HIDE DEF s
  <1>2. FoldCase(s[1].text) = <<Lower(op)>>
    BY <1>1, FoldWord
  <1>3. matchOperator(s)
    BY <1>1, <1>2 DEF matchOperator, matchKeyword
  <1>4. FoldCase(s[1].text)[1] = Lower(op)
    BY <1>2
  <1>5. Compared(s, path) = Saying(path, Lower(op), v, rest)
    BY <1>1, <1>3, <1>4 DEF Compared, Saying
  <1> QED BY <1>5 DEF s

(* The tokens of a comparison. *)
ComparisonTokens(p, op, v, rest) ==
    Cons(IdentToken(p[1]), lexClause[Slashed[Tail(p)]] \o OperatorTokens(op, v, rest))

LEMMA ComparisonPathIsRead ==
    ASSUME NEW p \in Seq(Idents), p # <<>>, NEW op \in Words, NEW v \in Seq(Symbols),
           NEW rest \in Seq(Tokens)
    PROVE  parsePath(ComparisonTokens(p, op, v, rest), {})
             = [path |-> p, rest |-> OperatorTokens(op, v, rest)]
  <1> DEFINE s == OperatorTokens(op, v, rest)
             x == p[1]
             r == Tail(p)
  <1>1. s \in Seq(Tokens) /\ Kind(s, 1) \notin {"/", "."}
    BY OperatorTokensParts
  <1>2. x \in Seq(Symbols) /\ r \in Seq(Idents) /\ p = <<x>> \o r
    <2>1. x \in Idents /\ r \in Seq(Idents) /\ p = <<x>> \o r
      BY HeadAndTail
    <2> QED BY <2>1 DEF Idents
  <1> HIDE DEF s, x, r
  <1>3. PathIsRead(x, r, s)
    BY <1>1, <1>2, PathsAreRead
  <1>4. PathFrom({})[Cons(IdentToken(x), lexClause[Slashed[r]] \o s)] = [path |-> p, rest |-> s]
    BY <1>2, <1>3 DEF PathIsRead
  <1> QED BY <1>4, ParsePathIsPathFrom DEF ComparisonTokens, s, x, r

LEMMA SimpleIsRead ==
    ASSUME NEW p \in Seq(Idents), p # <<>>, NEW op \in Words, Lower(op) \in Operators,
           NEW v \in Seq(Symbols), NEW rest \in Seq(Tokens)
    PROVE  parseSimple(ComparisonTokens(p, op, v, rest)) = Saying(p, Lower(op), v, rest)
  <1> DEFINE s == OperatorTokens(op, v, rest)
             t == ComparisonTokens(p, op, v, rest)
  <1>1. parsePath(t, {}) = [path |-> p, rest |-> s]
    BY ComparisonPathIsRead
  <1>2. Compared(s, p) = Saying(p, Lower(op), v, rest)
    BY ComparisonIsRead
  <1>3. [path |-> p, rest |-> s] \in Fields
    <2>1. s \in Seq(Tokens)
      BY OperatorTokensParts
    <2>2. p \in Seq(Seq(Symbols))
      <3>1. Idents \subseteq Seq(Symbols)
        BY DEF Idents
      <3> QED BY <3>1, SeqMonotonic
    <2> HIDE DEF s
    <2> QED BY <2>1, <2>2 DEF Fields
  <1> HIDE DEF s, t
  <1>4. parseSimple(t) = Compared(s, p)
    BY <1>1, <1>3, FieldsAreRead DEF parseSimple
  <1> QED BY <1>2, <1>4 DEF t

LEMMA ComparisonLexes ==
    ASSUME NEW p \in Seq(Idents), p # <<>>, NEW op \in Words, NEW v \in Seq(Symbols),
           NEW r \in Clear
    PROVE  lexClause[Written(p, op, v) \o r] = ComparisonTokens(p, op, v, lexClause[r])
  <1> DEFINE x == p[1]
             b == Slashed[Tail(p)]
             o == <<Space, op, Space>>
             q == Quoted(v)
             a == <<Space>>
             w == <<op>>
             z == q \o r
  <1>1. /\ x \in Idents /\ x \in Seq(Symbols) /\ Tail(p) \in Seq(Idents) /\ r \in Seq(Symbols)
        /\ b \in Seq(Symbols)
    <2>1. x \in Idents /\ Tail(p) \in Seq(Idents)
      BY SpelledType
    <2>2. b \in Seq(Symbols)
      BY <2>1, SlashedType, PathParts, SeqMonotonic
    <2> QED BY <2>1, <2>2 DEF Idents, Clear
  <1>2. /\ Written(p, op, v) = ((x \o b) \o o) \o q
        /\ o \in Seq(Symbols) /\ q \in Seq(Symbols)
    BY WrittenParts DEF Spelled
  <1>3. a \in Seq(Symbols) /\ w \in Seq(Symbols) /\ o = (a \o w) \o a
    <2>1. Space \in Symbols /\ op \in Symbols
      BY SpaceIsText, QuoteIsSymbol
    <2> QED BY <2>1
  <1>4. w \in Idents
    <2>1. w \in Seq(IdentPart) /\ w # <<>> /\ w[1] = op
      BY DEF IdentPart
    <2> QED BY <1>3, <2>1 DEF Idents, IsIdentifier
  <1>5. \A s \in Seq(Symbols) : a \o s \in Clear /\ lexClause[a \o s] = lexClause[s]
    BY ClearCons, LexParts
  <1> HIDE DEF b, o, q, a, w, x
  <1>6. z \in Seq(Symbols)
    BY <1>1, <1>2, TextConcat
  <1>7. Written(p, op, v) \o r = x \o (b \o (o \o z))
    <2> DEFINE y == (x \o b) \o o
    <2>1. y \in Seq(Symbols)
      BY <1>1, <1>2, TextConcat
    <2>2. Written(p, op, v) \o r = (y \o q) \o r
      BY <1>2
    <2>3. (y \o q) \o r = y \o z
      <3> HIDE DEF y
      <3> QED BY <1>1, <1>2, <2>1, TextAssociative, SMTT(30)
    <2> HIDE DEF z
    <2>4. RightGrouped(x, b, o, z)
      BY <1>1, <1>2, <1>6, RightGroups
    <2>5. y \o z = x \o (b \o (o \o z))
      BY <2>4 DEF RightGrouped
    <2> QED BY <2>2, <2>3, <2>5
  <1>8. lexClause[z] = Cons(StringToken(v), lexClause[r])
    BY LexParts DEF q
  <1> HIDE DEF z
  <1>9. o \o z = a \o (w \o (a \o z))
    <2>1. RightGrouped(a, w, a, z)
      BY <1>3, <1>6, RightGroups
    <2> QED BY <1>3, <2>1 DEF RightGrouped
  <1> DEFINE az == a \o z
             y == w \o az
  <1>10. az \in Clear /\ lexClause[az] = lexClause[z] /\ az \in Seq(Symbols)
    BY <1>5, <1>6 DEF Clear
  <1>11. lexClause[y] = Cons(IdentToken(w), lexClause[az]) /\ y \in Seq(Symbols)
    <2> HIDE DEF az
    <2> QED BY <1>3, <1>4, <1>10, LexParts, TextConcat
  <1>12. o \o z = a \o y
    BY <1>9
  <1>13. lexClause[y] = OperatorTokens(op, v, lexClause[r])
    BY <1>8, <1>10, <1>11 DEF OperatorTokens, w
  <1> HIDE DEF az, y
  <1>14. o \o z \in Clear /\ lexClause[o \o z] = lexClause[y]
    BY <1>5, <1>11, <1>12
  <1> DEFINE oz == o \o z
  <1>15. oz \in Clear /\ lexClause[oz] = OperatorTokens(op, v, lexClause[r])
    BY <1>13, <1>14
  <1> HIDE DEF oz
  <1>16. b \o oz \in Clear /\ lexClause[b \o oz] = lexClause[b] \o lexClause[oz]
    BY <1>1, <1>15, SlashedLexes DEF LexesSlashed, b
  <1>17. lexClause[x \o (b \o oz)] = Cons(IdentToken(x), lexClause[b \o oz])
    BY <1>1, <1>16, LexParts
  <1>18. lexClause[x \o (b \o oz)] = Cons(IdentToken(x), lexClause[b] \o OperatorTokens(op, v, lexClause[r]))
    BY <1>15, <1>16, <1>17
  <1>19. Written(p, op, v) \o r = x \o (b \o oz)
    BY <1>7 DEF oz
  <1> QED BY <1>18, <1>19 DEF ComparisonTokens, x, b

-----------------------------------------------------------------------------
(* "<collection>/any(<alias>:(<comparison>))" is read as it was written. *)
AnyTokens(any) ==
    <<PunctToken("/"), IdentToken(<<any>>), PunctToken("("), IdentToken(<<Alias>>),
      PunctToken(":"), PunctToken("(")>>

LEMMA AnyTokensParts ==
    ASSUME NEW any \in Words, NEW s \in Seq(Tokens)
    PROVE  /\ AnyTokens(any) \in Seq(Tokens) /\ Len(AnyTokens(any)) = 6
           /\ AnyTokens(any) \o s \in Seq(Tokens)
           /\ Len(AnyTokens(any) \o s) = Len(s) + 6
           /\ IsKinds(AnyTokens(any) \o s, AnyKinds)
           /\ (AnyTokens(any) \o s)[2].text = <<any>>
           /\ (AnyTokens(any) \o s)[4].text = <<Alias>>
           /\ After(AnyTokens(any) \o s, 6) = s
  <1> DEFINE a == AnyTokens(any)
             b == a \o s
  <1>1. any \in Symbols /\ Alias \in Symbols
    BY ODataAssumption, QuoteIsSymbol
  <1>2. <<any>> \in Seq(Symbols) /\ <<Alias>> \in Seq(Symbols)
    BY <1>1
  <1>3. /\ PunctToken("/") \in Tokens /\ PunctToken("(") \in Tokens /\ PunctToken(":") \in Tokens
        /\ IdentToken(<<any>>) \in Tokens /\ IdentToken(<<Alias>>) \in Tokens
    BY <1>2, TokenKinds, SlashIsPunctuation
  <1>4. a \in Seq(Tokens) /\ Len(a) = 6
    BY <1>3 DEF AnyTokens
  <1>5. /\ a[1] = PunctToken("/") /\ a[2] = IdentToken(<<any>>) /\ a[3] = PunctToken("(")
        /\ a[4] = IdentToken(<<Alias>>) /\ a[5] = PunctToken(":") /\ a[6] = PunctToken("(")
    BY DEF AnyTokens
  <1> HIDE DEF a
  <1>6. /\ b \in Seq(Tokens) /\ Len(b) = Len(s) + 6
        /\ \A i \in 1..6 : i <= Len(b) /\ b[i] = a[i]
    <2>1. /\ b \in Seq(Tokens) /\ Len(b) = Len(a) + Len(s) /\ Len(s) \in Nat
          /\ \A i \in 1..Len(a) + Len(s) : b[i] = IF i <= Len(a) THEN a[i] ELSE s[i - Len(a)]
      <3>1. a \in Seq(Tokens)
        BY <1>4
      <3> QED BY <3>1, ConcatProperties
    <2> HIDE DEF b
    <2>2. \A i \in 1..6 : i \in 1..Len(a) + Len(s) /\ i <= Len(a)
      BY <1>4, <2>1
    <2> QED BY <1>4, <2>1, <2>2
  <1>7. After(b, 6) = s
    BY <1>4, AfterConcat
  <1> HIDE DEF b
  <1>8. /\ 1 \in 1..6 /\ 2 \in 1..6 /\ 3 \in 1..6 /\ 4 \in 1..6 /\ 5 \in 1..6 /\ 6 \in 1..6
    OBVIOUS
  <1>9. \A i \in 1..6 : Kind(b, i) = a[i].kind
    BY <1>6 DEF Kind
  <1>10. /\ Kind(b, 1) = "/" /\ Kind(b, 2) = "ident" /\ Kind(b, 3) = "("
         /\ Kind(b, 4) = "ident" /\ Kind(b, 5) = ":" /\ Kind(b, 6) = "("
    BY <1>5, <1>8, <1>9, TokenKinds
  <1>11. IsKinds(b, AnyKinds)
    <2>1. DOMAIN AnyKinds = 1..6
      BY DEF AnyKinds
    <2>2. /\ AnyKinds[1] = "/" /\ AnyKinds[2] = "ident" /\ AnyKinds[3] = "("
          /\ AnyKinds[4] = "ident" /\ AnyKinds[5] = ":" /\ AnyKinds[6] = "("
      BY DEF AnyKinds
    <2>3. \A i \in 1..6 : i = 1 \/ i = 2 \/ i = 3 \/ i = 4 \/ i = 5 \/ i = 6
      OBVIOUS
    <2>4. \A i \in 1..6 : Kind(b, i) = AnyKinds[i]
      BY <1>10, <2>2, <2>3
    <2> QED BY <2>1, <2>4 DEF IsKinds
  <1>12. b[2].text = <<any>> /\ b[4].text = <<Alias>>
    BY <1>5, <1>6, <1>8, TokenKinds
  <1> QED BY <1>4, <1>6, <1>7, <1>11, <1>12 DEF a, b

LEMMA AfterFirst ==
    ASSUME NEW s \in Seq(Tokens), Len(s) > 1
    PROVE  Kind(After(s, 1), 1) = Kind(s, 2) /\ After(s, 1)[1] = s[2] /\ After(s, 1) \in Seq(Tokens)
  <1>1. 1 \in 0..Len(s)
    OBVIOUS
  <1>2. /\ After(s, 1) \in Seq(Tokens) /\ Len(After(s, 1)) = Len(s) - 1
        /\ \A i \in 1..Len(s) - 1 : After(s, 1)[i] = s[1 + i]
    BY <1>1, AfterProperties
  <1>3. 1 \in 1..Len(s) - 1 /\ 2 <= Len(s) /\ 1 <= Len(s) - 1
    OBVIOUS
  <1>4. After(s, 1)[1] = s[1 + 1]
    BY <1>2, <1>3
  <1> QED BY <1>2, <1>3, <1>4 DEF Kind

ClosesTwice(rest) == Cons(PunctToken(")"), Cons(PunctToken(")"), rest))

LEMMA ClosesTwiceParts ==
    ASSUME NEW rest \in Seq(Tokens)
    PROVE  /\ ClosesTwice(rest) \in Seq(Tokens)
           /\ IsKinds(ClosesTwice(rest), <<")", ")">>)
           /\ After(ClosesTwice(rest), 2) = rest
  <1> DEFINE a == PunctToken(")")
             z == Cons(a, rest)
             s == Cons(a, z)
             kinds == <<")", ")">>
  <1>1. a \in Tokens /\ a.kind = ")"
    BY TokenKinds, SlashIsPunctuation
  <1> HIDE DEF a
  <1>2. z \in Seq(Tokens) /\ Len(z) = Len(rest) + 1 /\ Kind(z, 1) = a.kind
    BY <1>1, ConsTokens
  <1>3. Len(rest) \in Nat /\ 0 \in 0..Len(rest)
    OBVIOUS
  <1>4. ConsRests(a, rest, 0)
    BY <1>1, <1>3, ConsMoves
  <1>5. After(z, 0 + 1) = After(rest, 0)
    BY <1>4 DEF ConsRests
  <1> HIDE DEF z
  <1>6. 1 \in 0..Len(z) /\ 1 \in Nat \ {0}
    BY <1>2, <1>3
  <1>7. s \in Seq(Tokens) /\ Kind(s, 1) = a.kind
    BY <1>1, <1>2, ConsTokens
  <1>8. Kind(s, 1 + 1) = Kind(z, 1)
    BY <1>1, <1>2, <1>6, ConsTokens
  <1>9. ConsRests(a, z, 1)
    BY <1>1, <1>2, <1>6, ConsMoves
  <1>10. After(s, 1 + 1) = After(z, 1)
    BY <1>9 DEF ConsRests
  <1> HIDE DEF s
  <1>11. After(rest, 0) = rest
    BY DEF After
  <1>12. After(s, 2) = rest
    BY <1>5, <1>10, <1>11
  <1>13. IsKinds(s, kinds)
    <2>1. DOMAIN kinds = 1..2 /\ kinds[1] = ")" /\ kinds[2] = ")"
      OBVIOUS
    <2>2. Kind(s, 1) = ")" /\ Kind(s, 2) = ")"
      BY <1>1, <1>2, <1>7, <1>8
    <2>3. \A i \in 1..2 : i = 1 \/ i = 2
      OBVIOUS
    <2> HIDE DEF kinds
    <2> QED BY <2>1, <2>2, <2>3 DEF IsKinds
  <1> QED BY <1>7, <1>12, <1>13 DEF ClosesTwice, s, z, a

LEMMA AnyIsRead ==
    ASSUME NEW x \in Idents, NEW q \in Seq(Idents), NEW any \in Words, Lower(any) = "any",
           NEW op \in Words, Lower(op) \in Operators, NEW v \in Seq(Symbols), NEW rest \in Seq(Tokens),
           NEW inner, inner = ComparisonTokens(<<<<Alias>>>> \o q, op, v, ClosesTwice(rest)),
           inner \in Seq(Tokens)
    PROVE  parseAnyEq(Cons(IdentToken(x), AnyTokens(any) \o inner))
             = Saying(<<x>> \o q, Lower(op), v, rest)
  <1> DEFINE s == AnyTokens(any) \o inner
             t == Cons(IdentToken(x), s)
             close == ClosesTwice(rest)
             o == OperatorTokens(op, v, close)
             p == <<<<Alias>>>> \o q
             collection == [path |-> <<x>>, rest |-> s]
             field == [path |-> p, rest |-> o]
             said == Saying(<<x>> \o q, Lower(op), v, close)
  <1>1. /\ s \in Seq(Tokens) /\ Len(s) = Len(inner) + 6 /\ IsKinds(s, AnyKinds)
        /\ s[2].text = <<any>> /\ s[4].text = <<Alias>> /\ After(s, 6) = inner
    BY AnyTokensParts
  <1>2. /\ close \in Seq(Tokens) /\ IsKinds(close, <<")", ")">>) /\ After(close, 2) = rest
    BY ClosesTwiceParts
  <1>3. p \in Seq(Idents) /\ p # <<>> /\ p[1] = <<Alias>> /\ Tail(p) = q
    <2> DEFINE a == <<Alias>>
    <2>1. a \in Idents
      <3>1. Alias \in Words /\ Alias \in Symbols
        BY ODataAssumption, QuoteIsSymbol
      <3>2. a \in Seq(Symbols) /\ a \in Seq(IdentPart) /\ a # <<>> /\ a[1] = Alias
        BY <3>1 DEF IdentPart
      <3> QED BY <3>1, <3>2 DEF Idents, IsIdentifier
    <2> HIDE DEF a
    <2>2. <<a>> \o q \in Seq(Idents) /\ <<a>> \o q # <<>> /\ (<<a>> \o q)[1] = a /\ Tail(<<a>> \o q) = q
      BY <2>1, ConsProperties
    <2> QED BY <2>2 DEF a
  <1> HIDE DEF p, close, s
  <1>4. parsePath(inner, {}) = field
    BY <1>2, <1>3, ComparisonPathIsRead DEF p, close
  <1>5. Compared(o, <<x>> \o q) = said
    BY <1>2, ComparisonIsRead
  <1>6. x \in Seq(Symbols) /\ IdentToken(x) \in Tokens
    BY TokenKinds DEF Idents
  <1>7. Len(inner) \in Nat /\ Len(s) > 1 /\ 2 \in DOMAIN AnyKinds /\ 1 \in DOMAIN AnyKinds
    <2>1. DOMAIN AnyKinds = 1..6
      BY DEF AnyKinds
    <2>2. Len(inner) \in Nat
      OBVIOUS
    <2> QED BY <1>1, <2>1, <2>2
  <1>8. Kind(s, 1) = "/" /\ Kind(s, 2) = "ident"
    <2>1. AnyKinds[1] = "/" /\ AnyKinds[2] = "ident"
      BY DEF AnyKinds
    <2> QED BY <1>1, <1>7, <2>1 DEF IsKinds
  <1>9. matchKeyword(After(s, 1), "any")
    <2>1. Kind(After(s, 1), 1) = "ident" /\ After(s, 1)[1].text = <<any>>
      BY <1>1, <1>7, <1>8, AfterFirst
    <2>2. FoldCase(<<any>>) = <<"any">>
      BY FoldWord
    <2> QED BY <2>1, <2>2 DEF matchKeyword
  <1>10. Kind(t, 2) = "/" /\ After(t, 2) = After(s, 1)
    <2>1. 1 \in Nat \ {0} /\ 1 \in 0..Len(s)
      BY <1>1, <1>7
    <2>2. Kind(t, 1 + 1) = Kind(s, 1)
      BY <1>1, <1>6, <2>1, ConsTokens
    <2>3. ConsRests(IdentToken(x), s, 1)
      BY <1>1, <1>6, <2>1, ConsMoves
    <2>4. After(t, 1 + 1) = After(s, 1)
      BY <2>3 DEF ConsRests
    <2> HIDE DEF t
    <2> QED BY <1>8, <2>2, <2>4
  <1>11. EndsPath(t, {"any"})
    BY <1>9, <1>10 DEF EndsPath
  <1>12. PathFrom({"any"})[t] = collection
    BY <1>1, <1>6, <1>11, LastSegment
  <1> HIDE DEF t
  <1>13. parsePath(t, {"any"}) = collection
    BY <1>12, ParsePathIsPathFrom
  <1>14. collection # Unread
    <2>1. collection \in Fields
      <3>1. <<x>> \in Seq(Seq(Symbols))
        BY <1>6
      <3> QED BY <1>1, <3>1 DEF Fields
    <2> QED BY <2>1, FieldsAreRead
  <1>15. field # Unread
    <2>1. o \in Seq(Tokens)
      BY <1>2, OperatorTokensParts
    <2>2. p \in Seq(Seq(Symbols))
      <3>1. Idents \subseteq Seq(Symbols)
        BY DEF Idents
      <3> QED BY <1>3, <3>1, SeqMonotonic
    <2> HIDE DEF o
    <2>3. field \in Fields
      BY <2>1, <2>2 DEF Fields
    <2> QED BY <2>3, FieldsAreRead
  <1>16. said # Unread /\ said.rest = close
         /\ [said EXCEPT !.rest = After(@, 2)] = Saying(<<x>> \o q, Lower(op), v, rest)
    <2>1. DOMAIN said = {"filter", "rest"} /\ DOMAIN Unread = {"read"}
      BY DEF Saying, Unread
    <2>2. said # Unread
      <3>1. "rest" \in DOMAIN said /\ "rest" \notin DOMAIN Unread
        BY <2>1
      <3> HIDE DEF said
      <3> QED BY <3>1
    <2>3. said.rest = close
      BY DEF Saying
    <2>4. [said EXCEPT !.rest = After(@, 2)] = Saying(<<x>> \o q, Lower(op), v, rest)
      <3>1. \A f, r : [[filter |-> f, rest |-> r] EXCEPT !.rest = After(@, 2)]
                        = [filter |-> f, rest |-> After(r, 2)]
        OBVIOUS
      <3> DEFINE f == [path |-> <<x>> \o q, operator |-> Lower(op), value |-> v]
      <3>2. said = [filter |-> f, rest |-> close]
            /\ Saying(<<x>> \o q, Lower(op), v, rest) = [filter |-> f, rest |-> rest]
        BY DEF Saying
      <3> HIDE DEF f, said
      <3> QED BY <1>2, <3>1, <3>2
    <2> QED BY <2>2, <2>3, <2>4
  <1> HIDE DEF o
  <1>17. /\ collection.rest = s /\ collection.path = <<x>>
         /\ field.rest = o /\ field.path = p
    OBVIOUS
  <1> HIDE DEF collection, field, said
  <1>18. parseAnyEq(t) = AnyBody(collection, field, said)
    <2>1. collection.path \o Tail(field.path) = <<x>> \o q
      BY <1>3, <1>17
    <2>2. Compared(field.rest, collection.path \o Tail(field.path)) = said
      BY <1>5, <1>17, <2>1
    <2>3. parsePath(After(collection.rest, 6), {}) = field
      BY <1>1, <1>4, <1>17
    <2> QED BY <1>13, <2>2, <2>3 DEF parseAnyEq, AnyBody, AnyKinds
  <1>19. AnyBody(collection, field, said) = [said EXCEPT !.rest = After(@, 2)]
    <2>1. EqualFold(field.path[1], collection.rest[4].text)
      BY <1>1, <1>3, <1>17 DEF EqualFold
    <2> QED BY <1>1, <1>2, <1>9, <1>14, <1>15, <1>16, <1>17, <2>1 DEF AnyBody
  <1>20. t = Cons(IdentToken(x), AnyTokens(any) \o inner)
    BY DEF t, s
  <1> QED BY <1>16, <1>18, <1>19, <1>20

SixFirst(a, b, c, d, e, f, s) ==
    <<a, b, c, d, e, f>> \o s = Cons(a, Cons(b, Cons(c, Cons(d, Cons(e, Cons(f, s))))))

LEMMA SixTokens ==
    ASSUME NEW a \in Tokens, NEW b \in Tokens, NEW c \in Tokens, NEW d \in Tokens, NEW e \in Tokens,
           NEW f \in Tokens, NEW s \in Seq(Tokens)
    PROVE  SixFirst(a, b, c, d, e, f, s)
  <1> DEFINE t1 == <<f>>
             t2 == <<e, f>>
             t3 == <<d, e, f>>
             t4 == <<c, d, e, f>>
             t5 == <<b, c, d, e, f>>
             t6 == <<a, b, c, d, e, f>>
  <1>1. t1 \in Seq(Tokens)
    OBVIOUS
  <1>2. t2 \in Seq(Tokens) /\ t2 = Cons(e, t1)
    <2>1. t2 \in Seq(Tokens) /\ t2 # <<>> /\ t2[1] = e
      OBVIOUS
    <2>2. Tail(t2) = t1
      OBVIOUS
    <2> HIDE DEF t2, t1
    <2>3. t2 = <<t2[1]>> \o Tail(t2)
      BY <2>1, HeadAndTail
    <2> QED BY <2>1, <2>2, <2>3 DEF Cons
  <1>3. t3 \in Seq(Tokens) /\ t3 = Cons(d, t2)
    <2>1. t3 \in Seq(Tokens) /\ t3 # <<>> /\ t3[1] = d
      OBVIOUS
    <2>2. Tail(t3) = t2
      OBVIOUS
    <2> HIDE DEF t3, t2
    <2>3. t3 = <<t3[1]>> \o Tail(t3)
      BY <2>1, HeadAndTail
    <2> QED BY <2>1, <2>2, <2>3 DEF Cons
  <1>4. t4 \in Seq(Tokens) /\ t4 = Cons(c, t3)
    <2>1. t4 \in Seq(Tokens) /\ t4 # <<>> /\ t4[1] = c
      OBVIOUS
    <2>2. Tail(t4) = t3
      OBVIOUS
    <2> HIDE DEF t4, t3
    <2>3. t4 = <<t4[1]>> \o Tail(t4)
      BY <2>1, HeadAndTail
    <2> QED BY <2>1, <2>2, <2>3 DEF Cons
  <1>5. t5 \in Seq(Tokens) /\ t5 = Cons(b, t4)
    <2>1. t5 \in Seq(Tokens) /\ t5 # <<>> /\ t5[1] = b
      OBVIOUS
    <2>2. Tail(t5) = t4
      OBVIOUS
    <2> HIDE DEF t5, t4
    <2>3. t5 = <<t5[1]>> \o Tail(t5)
      BY <2>1, HeadAndTail
    <2> QED BY <2>1, <2>2, <2>3 DEF Cons
  <1>6. t6 \in Seq(Tokens) /\ t6 = Cons(a, t5)
    <2>1. t6 \in Seq(Tokens) /\ t6 # <<>> /\ t6[1] = a
      OBVIOUS
    <2>2. Tail(t6) = t5
      OBVIOUS
    <2> HIDE DEF t6, t5
    <2>3. t6 = <<t6[1]>> \o Tail(t6)
      BY <2>1, HeadAndTail
    <2> QED BY <2>1, <2>2, <2>3 DEF Cons
  <1>7. t1 \o s = Cons(f, s)
    BY DEF Cons
  <1>8. SixFirst(a, b, c, d, e, f, s) <=> t6 \o s = Cons(a, Cons(b, Cons(c, Cons(d, Cons(e, Cons(f, s))))))
    BY DEF SixFirst
  <1> HIDE DEF t1, t2, t3, t4, t5, t6
  <1>9. t2 \o s = Cons(e, Cons(f, s))
    <2>1. ConsJoins(e, t1, s)
      BY <1>1, ConsMoves
    <2> QED BY <1>2, <1>7, <2>1 DEF ConsJoins
  <1>10. t3 \o s = Cons(d, Cons(e, Cons(f, s)))
    <2>1. ConsJoins(d, t2, s)
      BY <1>2, ConsMoves
    <2> QED BY <1>3, <1>9, <2>1 DEF ConsJoins
  <1>11. t4 \o s = Cons(c, Cons(d, Cons(e, Cons(f, s))))
    <2>1. ConsJoins(c, t3, s)
      BY <1>3, ConsMoves
    <2> QED BY <1>4, <1>10, <2>1 DEF ConsJoins
  <1>12. t5 \o s = Cons(b, Cons(c, Cons(d, Cons(e, Cons(f, s)))))
    <2>1. ConsJoins(b, t4, s)
      BY <1>4, ConsMoves
    <2> QED BY <1>5, <1>11, <2>1 DEF ConsJoins
  <1>13. t6 \o s = Cons(a, Cons(b, Cons(c, Cons(d, Cons(e, Cons(f, s))))))
    <2>1. ConsJoins(a, t5, s)
      BY <1>5, ConsMoves
    <2> QED BY <1>6, <1>12, <2>1 DEF ConsJoins
  <1> QED BY <1>8, <1>13

LEMMA WordIsIdent == \A w \in Words : <<w>> \in Idents /\ <<w>> \in Seq(Symbols)
  <1> SUFFICES ASSUME NEW w \in Words
               PROVE  <<w>> \in Idents /\ <<w>> \in Seq(Symbols)
    OBVIOUS
  <1>1. w \in Symbols /\ w \in IdentPart
    BY QuoteIsSymbol DEF IdentPart
  <1> DEFINE s == <<w>>
  <1>2. s \in Seq(Symbols) /\ s \in Seq(IdentPart) /\ s # <<>> /\ s[1] = w
    BY <1>1
  <1> HIDE DEF s
  <1>3. s \in Idents
    BY <1>2 DEF Idents, IsIdentifier
  <1> QED BY <1>2, <1>3 DEF s

OpensGrouped(a1, a2, b, c1, c2, z) ==
    (((((a1 \o a2) \o b) \o (c1 \o c2)) \o b) \o z) = a1 \o (a2 \o (b \o (c1 \o (c2 \o (b \o z)))))

LEMMA OpensGroups ==
    ASSUME NEW a1, NEW a2, NEW b, NEW c1, NEW c2, NEW z
    PROVE  /\ a1 \in Seq(Symbols) /\ a2 \in Seq(Symbols) /\ b \in Seq(Symbols)
           /\ c1 \in Seq(Symbols) /\ c2 \in Seq(Symbols) /\ z \in Seq(Symbols)
           => OpensGrouped(a1, a2, b, c1, c2, z)
  <1>0. ASSUME /\ a1 \in Seq(Symbols) /\ a2 \in Seq(Symbols) /\ b \in Seq(Symbols)
               /\ c1 \in Seq(Symbols) /\ c2 \in Seq(Symbols) /\ z \in Seq(Symbols)
        PROVE  OpensGrouped(a1, a2, b, c1, c2, z)
    <2> DEFINE a == a1 \o a2
               c == c1 \o c2
               bz == b \o z
               y == (a \o b) \o c
               cbz == c \o bz
               w == b \o cbz
    <2>1. a1 \in Seq(Symbols)
      BY <1>0
    <2>2. a2 \in Seq(Symbols)
      BY <1>0
    <2>3. b \in Seq(Symbols)
      BY <1>0
    <2>4. c1 \in Seq(Symbols)
      BY <1>0
    <2>5. c2 \in Seq(Symbols)
      BY <1>0
    <2>6. z \in Seq(Symbols)
      BY <1>0
    <2>7. a \in Seq(Symbols)
      BY <2>1, <2>2, TextConcat
    <2>8. c \in Seq(Symbols)
      BY <2>4, <2>5, TextConcat
    <2>9. bz \in Seq(Symbols)
      BY <2>3, <2>6, TextConcat
    <2>10. c \o bz = c1 \o (c2 \o bz)
      <3> HIDE DEF bz
      <3> QED BY <2>4, <2>5, <2>9, TextAssociative
    <2>11. ((a \o b) \o c) \in Seq(Symbols)
      <3> HIDE DEF a, c
      <3> QED BY <2>3, <2>7, <2>8, TextConcat
    <2>12. (y \o b) \o z = y \o bz
      <3> HIDE DEF y
      <3>1. y \in Seq(Symbols)
        BY <2>11 DEF y
      <3> QED BY <2>3, <2>6, <3>1, TextAssociative
    <2>13. RightGrouped(a, b, c, bz)
      <3> HIDE DEF a, c, bz
      <3> QED BY <2>3, <2>7, <2>8, <2>9, RightGroups
    <2>14. y \o bz = a \o (b \o (c \o bz))
      BY <2>13 DEF RightGrouped
    <2>15. cbz \in Seq(Symbols)
      <3> HIDE DEF c, bz
      <3> QED BY <2>8, <2>9, TextConcat
    <2>16. w \in Seq(Symbols)
      <3> HIDE DEF cbz
      <3> QED BY <2>3, <2>15, TextConcat
    <2>17. a \o w = a1 \o (a2 \o w)
      <3> HIDE DEF w
      <3> QED BY <2>1, <2>2, <2>16, TextAssociative
    <2>18. (y \o b) \o z = a \o w
      BY <2>12, <2>14
    <2>19. w = b \o (c1 \o (c2 \o bz))
      BY <2>10
    <2>20. (y \o b) \o z = a1 \o (a2 \o (b \o (c1 \o (c2 \o bz))))
      <3> HIDE DEF y, w, bz, a
      <3> QED BY <2>17, <2>18, <2>19
    <2> QED BY <2>20 DEF OpensGrouped
  <1> QED BY <1>0

LEMMA AnyOpensLexes ==
    ASSUME NEW any \in Words, NEW z \in Seq(Symbols)
    PROVE  /\ AnyOpens(any) \o z \in Clear
           /\ lexClause[AnyOpens(any) \o z] = AnyTokens(any) \o lexClause[z]
  <1> DEFINE a == <<"/", any>>
             a1 == <<"/">>
             a2 == <<any>>
             b == <<"(">>
             c == <<Alias, ":">>
             c1 == <<Alias>>
             c2 == <<":">>
             o == AnyOpens(any)
             ts == lexClause[z]
  <1>1. /\ a \in Seq(Symbols) /\ b \in Seq(Symbols) /\ c \in Seq(Symbols)
        /\ o = ((a \o b) \o c) \o b
    <2>1. <<>> \in Seq(Symbols)
      OBVIOUS
    <2> QED BY <2>1, AnyParts
  <1>2. a = a1 \o a2 /\ c = c1 \o c2
    OBVIOUS
  <1>3. a2 \in Idents /\ c1 \in Idents /\ a2 \in Seq(Symbols) /\ c1 \in Seq(Symbols)
    <2>1. Alias \in Words
      BY ODataAssumption
    <2> QED BY <2>1, WordIsIdent
  <1>4. \A s \in Seq(Symbols) :
          /\ a1 \o s \in Clear /\ lexClause[a1 \o s] = Cons(PunctToken("/"), lexClause[s])
          /\ b \o s \in Clear /\ lexClause[b \o s] = Cons(PunctToken("("), lexClause[s])
          /\ c2 \o s \in Clear /\ lexClause[c2 \o s] = Cons(PunctToken(":"), lexClause[s])
    BY ClearCons, LexParts, SlashIsPunctuation
  <1>5. a1 \in Seq(Symbols) /\ c2 \in Seq(Symbols)
    <2>1. "/" \in Symbols /\ ":" \in Symbols
      BY SlashIsPunctuation, QuoteIsSymbol
    <2> QED BY <2>1
  <1>6. ts \in Seq(Tokens)
    BY LexClauseType
  <1>7. \A s \in Clear : lexClause[a2 \o s] = Cons(IdentToken(a2), lexClause[s])
                         /\ lexClause[c1 \o s] = Cons(IdentToken(c1), lexClause[s])
    BY <1>3, LexParts
  <1> HIDE DEF a, a1, a2, b, c, c1, c2, o, ts
  <1>8. PICK z1 \in Seq(Symbols) : z1 = b \o z
    BY <1>1, TextConcat
  <1>9. PICK z2 \in Seq(Symbols) : z2 = c2 \o z1
    BY <1>5, TextConcat
  <1>10. PICK z3 \in Seq(Symbols) : z3 = c1 \o z2
    BY <1>3, TextConcat
  <1>11. PICK z4 \in Seq(Symbols) : z4 = b \o z3
    BY <1>1, TextConcat
  <1>12. PICK z5 \in Seq(Symbols) : z5 = a2 \o z4
    BY <1>3, TextConcat
  <1>13. z1 \in Clear /\ lexClause[z1] = Cons(PunctToken("("), ts)
    BY <1>4, <1>8 DEF ts
  <1>14. z2 \in Clear /\ lexClause[z2] = Cons(PunctToken(":"), lexClause[z1])
    BY <1>4, <1>9
  <1>15. lexClause[z3] = Cons(IdentToken(c1), lexClause[z2])
    BY <1>7, <1>10, <1>14
  <1>16. z4 \in Clear /\ lexClause[z4] = Cons(PunctToken("("), lexClause[z3])
    BY <1>4, <1>11
  <1>17. lexClause[z5] = Cons(IdentToken(a2), lexClause[z4])
    BY <1>7, <1>12, <1>16
  <1>18. a1 \o z5 \in Clear /\ lexClause[a1 \o z5] = Cons(PunctToken("/"), lexClause[z5])
    BY <1>4
  <1>19. o \o z = a1 \o z5
    <2>1. OpensGrouped(a1, a2, b, c1, c2, z)
      BY <1>1, <1>3, <1>5, OpensGroups
    <2>2. z5 = a2 \o (b \o (c1 \o (c2 \o (b \o z))))
      BY <1>8, <1>9, <1>10, <1>11, <1>12
    <2>3. o \o z = ((((a1 \o a2) \o b) \o (c1 \o c2)) \o b) \o z
      BY <1>1, <1>2
    <2> QED BY <2>1, <2>2, <2>3 DEF OpensGrouped
  <1>20. lexClause[o \o z] = Cons(PunctToken("/"), Cons(IdentToken(a2), Cons(PunctToken("("),
                               Cons(IdentToken(c1), Cons(PunctToken(":"), Cons(PunctToken("("), ts))))))
    BY <1>13, <1>14, <1>15, <1>16, <1>17, <1>18, <1>19
  <1>21. SixFirst(PunctToken("/"), IdentToken(a2), PunctToken("("), IdentToken(c1), PunctToken(":"),
                  PunctToken("("), ts)
    BY <1>3, <1>6, SixTokens, TokenKinds, SlashIsPunctuation
  <1>22. lexClause[o \o z] = AnyTokens(any) \o ts
    BY <1>20, <1>21 DEF SixFirst, AnyTokens, a2, c1
  <1> QED BY <1>18, <1>19, <1>22 DEF o, ts

AnyGrouped(x, o, c, b, r) == (((x \o o) \o c) \o (b \o b)) \o r = x \o (o \o (c \o (b \o (b \o r))))

LEMMA AnyGroups ==
    ASSUME NEW x, NEW o, NEW c, NEW b, NEW r
    PROVE  /\ x \in Seq(Symbols) /\ o \in Seq(Symbols) /\ c \in Seq(Symbols)
           /\ b \in Seq(Symbols) /\ r \in Seq(Symbols)
           => AnyGrouped(x, o, c, b, r)
  <1>0. ASSUME /\ x \in Seq(Symbols) /\ o \in Seq(Symbols) /\ c \in Seq(Symbols)
               /\ b \in Seq(Symbols) /\ r \in Seq(Symbols)
        PROVE  AnyGrouped(x, o, c, b, r)
    <2> DEFINE y == (x \o o) \o c
               bb == b \o b
               br == b \o r
               bbr == b \o br
    <2>1. b \in Seq(Symbols)
      BY <1>0
    <2>2. r \in Seq(Symbols)
      BY <1>0
    <2>3. br \in Seq(Symbols)
      BY <2>1, <2>2, TextConcat
    <2>4. bb \in Seq(Symbols)
      BY <2>1, TextConcat
    <2>5. bb \o r = bbr
      BY <2>1, <2>2, TextAssociative
    <2>6. bbr \in Seq(Symbols)
      <3> HIDE DEF br
      <3> QED BY <2>1, <2>3, TextConcat
    <2>7. x \o o \in Seq(Symbols)
      BY <1>0, TextConcat
    <2>8. y \in Seq(Symbols)
      <3> DEFINE xo == x \o o
      <3>1. xo \in Seq(Symbols) /\ c \in Seq(Symbols)
        BY <1>0, <2>7
      <3> HIDE DEF xo
      <3>2. xo \o c \in Seq(Symbols)
        BY <3>1, TextConcat
      <3> QED BY <3>2 DEF xo
    <2>9. (y \o bb) \o r = y \o (bb \o r)
      <3> HIDE DEF y, bb
      <3> QED BY <2>2, <2>4, <2>8, TextAssociative
    <2>10. RightGrouped(x, o, c, bbr)
      <3> HIDE DEF bbr
      <3> QED BY <1>0, <2>6, RightGroups
    <2>11. y \o bbr = x \o (o \o (c \o bbr))
      <3> HIDE DEF bbr
      <3> QED BY <2>10 DEF RightGrouped
    <2>12. (y \o bb) \o r = x \o (o \o (c \o bbr))
      <3> HIDE DEF y, bb, bbr
      <3> QED BY <2>5, <2>9, <2>11
    <2> QED BY <2>12 DEF AnyGrouped
  <1> QED BY <1>0

ClosedTwice(r) == <<")">> \o (<<")">> \o r)

LEMMA ClosedTwiceLexes ==
    ASSUME NEW r \in Clear
    PROVE  /\ ClosedTwice(r) \in Clear /\ ClosedTwice(r) \in Seq(Symbols)
           /\ lexClause[ClosedTwice(r)] = ClosesTwice(lexClause[r])
  <1> DEFINE b == <<")">>
             z == b \o r
  <1>1. r \in Seq(Symbols)
    BY DEF Clear
  <1>2. \A s \in Seq(Symbols) : /\ b \o s \in Clear /\ b \o s \in Seq(Symbols)
                                /\ lexClause[b \o s] = Cons(PunctToken(")"), lexClause[s])
    BY ClearCons, LexParts, SlashIsPunctuation
  <1>3. z \in Seq(Symbols) /\ lexClause[z] = Cons(PunctToken(")"), lexClause[r])
    BY <1>1, <1>2
  <1> HIDE DEF z, b
  <1>4. /\ b \o z \in Clear /\ b \o z \in Seq(Symbols)
        /\ lexClause[b \o z] = Cons(PunctToken(")"), lexClause[z])
    BY <1>2, <1>3
  <1>5. ClosedTwice(r) = b \o z
    BY DEF ClosedTwice, b, z
  <1> QED BY <1>3, <1>4, <1>5 DEF ClosesTwice

LEMMA AnyLexes ==
    ASSUME NEW x \in Idents, NEW any \in Words, NEW c \in Seq(Symbols), NEW r \in Clear
    PROVE  lexClause[WrittenAny(x, any, c) \o r]
             = Cons(IdentToken(x), AnyTokens(any) \o lexClause[c \o ClosedTwice(r)])
  <1> DEFINE o == AnyOpens(any)
             b == <<")">>
             z == ClosedTwice(r)
             w == WrittenAny(x, any, c)
  <1>1. /\ x \in Seq(Symbols) /\ r \in Seq(Symbols) /\ o \in Seq(Symbols) /\ b \in Seq(Symbols)
        /\ z \in Seq(Symbols)
    <2>1. x \in Seq(Symbols) /\ r \in Seq(Symbols)
      BY DEF Idents, Clear
    <2>2. o \in Seq(Symbols) /\ b \in Seq(Symbols)
      BY <2>1, AnyParts
    <2> QED BY <2>1, <2>2, ClosedTwiceLexes
  <1>2. w = ((x \o o) \o c) \o (b \o b)
    <2>1. w = ((x \o o) \o c) \o <<")", ")">>
      BY DEF WrittenAny
    <2>2. <<")", ")">> = b \o b
      OBVIOUS
    <2> QED BY <2>1, <2>2
  <1>3. z = b \o (b \o r)
    BY DEF ClosedTwice
  <1> HIDE DEF o, b, z, w
  <1>4. w \o r = x \o (o \o (c \o z))
    <2>1. AnyGrouped(x, o, c, b, r)
      BY <1>1, AnyGroups
    <2> QED BY <1>2, <1>3, <2>1 DEF AnyGrouped
  <1>5. PICK cz \in Seq(Symbols) : cz = c \o z
    BY <1>1, TextConcat
  <1>6. o \o cz \in Clear /\ lexClause[o \o cz] = AnyTokens(any) \o lexClause[cz]
    BY AnyOpensLexes DEF o
  <1>7. PICK y \in Clear : y = o \o cz
    BY <1>6
  <1>8. lexClause[x \o y] = Cons(IdentToken(x), lexClause[y])
    BY LexParts
  <1>9. w \o r = x \o y
    BY <1>4, <1>5, <1>7
  <1>10. lexClause[w \o r] = Cons(IdentToken(x), AnyTokens(any) \o lexClause[c \o z])
    BY <1>5, <1>6, <1>7, <1>8, <1>9
  <1> QED BY <1>10 DEF w, z

-----------------------------------------------------------------------------
(* A comparison is not taken for the other form: it has no parenthesis.      *)
NoneOpens(s) == \A i \in 1..Len(s) : s[i].kind # "("

LEMMA NoneOpensParts ==
    ASSUME NEW s \in Seq(Tokens), NoneOpens(s)
    PROVE  /\ \A n \in 0..Len(s) : NoneOpens(After(s, n))
           /\ s # <<>> => NoneOpens(Tail(s))
           /\ \A x \in Tokens : x.kind # "(" => NoneOpens(Cons(x, s))
           /\ \A t \in Seq(Tokens) : NoneOpens(t) => NoneOpens(t \o s)
  <1>1. ASSUME NEW n \in 0..Len(s)
        PROVE  NoneOpens(After(s, n))
    <2>1. /\ After(s, n) \in Seq(Tokens) /\ Len(After(s, n)) = Len(s) - n
          /\ \A i \in 1..Len(s) - n : After(s, n)[i] = s[n + i]
      BY AfterProperties
    <2>2. \A i \in 1..Len(s) - n : n + i \in 1..Len(s)
      OBVIOUS
    <2> QED BY <2>1, <2>2 DEF NoneOpens
  <1>2. ASSUME s # <<>>
        PROVE  NoneOpens(Tail(s))
    <2>1. \A i \in 1..Len(Tail(s)) : i + 1 \in 1..Len(s) /\ Tail(s)[i] = s[i + 1]
      BY <1>2
    <2> QED BY <2>1 DEF NoneOpens
  <1>3. ASSUME NEW x \in Tokens, x.kind # "("
        PROVE  NoneOpens(Cons(x, s))
    <2> DEFINE c == Cons(x, s)
    <2>1. /\ c \in Seq(Tokens) /\ Len(c) = Len(s) + 1 /\ c[1] = x
          /\ \A n \in 1..Len(s) : c[n + 1] = s[n]
      BY ConsTokens
    <2> HIDE DEF c
    <2>2. ASSUME NEW i \in 1..Len(c)
          PROVE  c[i].kind # "("
      <3>1. CASE i = 1
        BY <1>3, <2>1, <3>1
      <3>2. CASE i # 1
        <4>1. i - 1 \in 1..Len(s) /\ (i - 1) + 1 = i
          BY <2>1, <3>2
        <4>2. c[i] = s[i - 1]
          BY <2>1, <4>1
        <4> QED BY <4>1, <4>2 DEF NoneOpens
      <3> QED BY <3>1, <3>2
    <2> QED BY <2>2 DEF NoneOpens, c
  <1>4. ASSUME NEW t \in Seq(Tokens), NoneOpens(t)
        PROVE  NoneOpens(t \o s)
    <2> DEFINE c == t \o s
    <2>1. /\ Len(c) = Len(t) + Len(s) /\ Len(t) \in Nat /\ Len(s) \in Nat
          /\ \A i \in 1..Len(t) + Len(s) : c[i] = IF i <= Len(t) THEN t[i] ELSE s[i - Len(t)]
      BY ConcatProperties
    <2> HIDE DEF c
    <2>2. ASSUME NEW i \in 1..Len(c)
          PROVE  c[i].kind # "("
      <3>1. CASE i <= Len(t)
        <4>1. i \in 1..Len(t) /\ c[i] = t[i]
          BY <2>1, <3>1
        <4> QED BY <1>4, <4>1 DEF NoneOpens
      <3>2. CASE ~(i <= Len(t))
        <4>1. i - Len(t) \in 1..Len(s) /\ c[i] = s[i - Len(t)]
          BY <2>1, <3>2
        <4> QED BY <4>1 DEF NoneOpens
      <3> QED BY <3>1, <3>2
    <2> QED BY <2>2 DEF NoneOpens, c
  <1> QED BY <1>1, <1>2, <1>3, <1>4

LEMMA RestNoneOpens ==
    ASSUME NEW keywords
    PROVE  \A s \in Seq(Tokens) : NoneOpens(s) =>
              PathFrom(keywords)[s] = Unread \/ NoneOpens(PathFrom(keywords)[s].rest)
  <1> DEFINE F == PathFrom(keywords)
             Ok(s) == NoneOpens(s) => F[s] = Unread \/ NoneOpens(F[s].rest)
             P == {s \in Seq(Tokens) : Ok(s)}
  <1>1. ASSUME NEW s \in Seq(Tokens), \A u \in Seq(Tokens) : Len(u) < Len(s) => u \in P, NoneOpens(s)
        PROVE  F[s] = Unread \/ NoneOpens(F[s].rest)
    <2>1. F[s] = PathBody(F, s, keywords)
      BY PathFromDef
    <2> HIDE DEF F
    <2>2. CASE Kind(s, 1) # "ident"
      BY <2>1, <2>2 DEF PathBody
    <2>3. CASE Kind(s, 1) = "ident" /\ EndsPath(s, keywords)
      <3>1. s # <<>>
        BY <2>3 DEF Kind
      <3>2. F[s] = [path |-> <<s[1].text>>, rest |-> Tail(s)]
        BY <2>1, <2>3 DEF PathBody
      <3>3. F[s].rest = Tail(s)
        BY <3>2
      <3> QED BY <1>1, <3>1, <3>3, NoneOpensParts
    <2>4. CASE Kind(s, 1) = "ident" /\ ~EndsPath(s, keywords)
      <3> DEFINE u == After(s, 2)
                 x == s[1].text
      <3>1. u \in Seq(Tokens) /\ Len(u) < Len(s) /\ x \in Seq(Symbols)
        BY <2>4, PathRests
      <3>2. NoneOpens(u)
        <4>1. 2 \in 0..Len(s)
          <5>1. Kind(s, 2) # "eof"
            BY <2>4 DEF EndsPath
          <5> QED BY <5>1, TokenText
        <4> QED BY <1>1, <4>1, NoneOpensParts
      <3>3. F[s] = WithSegment(x, F[u])
        BY <2>1, <2>4 DEF PathBody
      <3> HIDE DEF u, x
      <3>4. Ok(u)
        BY <1>1, <3>1
      <3>5. CASE F[u] = Unread
        BY <3>3, <3>5 DEF WithSegment
      <3>6. CASE F[u] # Unread
        <4>1. F[u] \in Fields
          BY <3>1, <3>6, PathFromType DEF F
        <4>2. WithSegment(x, F[u]).rest = F[u].rest
          BY <3>1, <4>1, WithSegmentType
        <4>3. NoneOpens(F[u].rest)
          BY <3>2, <3>4, <3>6
        <4> QED BY <3>3, <4>2, <4>3
      <3> QED BY <3>5, <3>6
    <2> QED BY <2>2, <2>3, <2>4
  <1>2. Seq(Tokens) \subseteq P
    <2>1. \A s \in Seq(Tokens) : (\A u \in Seq(Tokens) : Len(u) < Len(s) => u \in P) => s \in P
      BY <1>1
    <2> HIDE DEF P
    <2> QED BY <2>1, ShorterFirst
  <1> QED BY <1>2

LEMMA NoAnyWithoutParens ==
    ASSUME NEW t \in Seq(Tokens), NoneOpens(t)
    PROVE  parseAnyEq(t) = Unread
  <1> DEFINE collection == parsePath(t, {"any"})
             inner == parsePath(After(collection.rest, 6), {})
             comparison == Compared(inner.rest, collection.path \o Tail(inner.path))
  <1>1. parseAnyEq(t) = AnyBody(collection, inner, comparison)
    BY DEF parseAnyEq, AnyBody, AnyKinds
  <1>2. collection = Unread \/ (collection \in Fields /\ NoneOpens(collection.rest))
    BY ParsePathIsPathFrom, PathFromType, RestNoneOpens
  <1> HIDE DEF collection, inner, comparison
  <1>3. ASSUME collection # Unread, IsKinds(collection.rest, AnyKinds)
        PROVE  FALSE
    <2>1. collection.rest \in Seq(Tokens) /\ NoneOpens(collection.rest)
      BY <1>2, <1>3 DEF Fields
    <2> DEFINE s == collection.rest
    <2>2. 3 \in DOMAIN AnyKinds /\ AnyKinds[3] = "("
      BY DEF AnyKinds
    <2>3. Kind(s, 3) = "("
      BY <1>3, <2>2 DEF IsKinds
    <2> HIDE DEF s
    <2>4. 3 \in 1..Len(s)
      <3>1. s \in Seq(Tokens) /\ Kind(s, 3) # "eof" /\ 3 \in Nat /\ 3 > 0
        BY <2>1, <2>3 DEF s
      <3> QED BY <3>1, TokenText
    <2>5. s[3].kind = "("
      <3>1. 3 <= Len(s)
        BY <2>4
      <3> QED BY <2>3, <3>1 DEF Kind
    <2> QED BY <2>1, <2>4, <2>5 DEF NoneOpens, s
  <1> QED BY <1>1, <1>3 DEF AnyBody

LEMMA SlashedNoneOpens ==
    \A p \in Seq(Idents) : lexClause[Slashed[p]] \in Seq(Tokens) /\ NoneOpens(lexClause[Slashed[p]])
  <1> DEFINE P == {p \in Seq(Idents) : /\ lexClause[Slashed[p]] \in Seq(Tokens)
                                       /\ NoneOpens(lexClause[Slashed[p]])}
  <1>1. <<>> \in P
    <2>1. <<>> \in Seq(Idents) /\ <<>> \in Seq(Tokens) /\ NoneOpens(<<>>)
      BY DEF NoneOpens
    <2>2. lexClause[Slashed[<<>>]] = <<>>
      BY SlashedParts, LexEmpty
    <2> QED BY <2>1, <2>2
  <1>2. ASSUME NEW x \in Idents, NEW p \in Seq(Idents), p \in P
        PROVE  <<x>> \o p \in P
    <2> DEFINE s == lexClause[Slashed[p]]
               a == PunctToken("/")
               b == IdentToken(x)
               u == Cons(b, s)
    <2>1. x \in Seq(Symbols) /\ <<x>> \o p \in Seq(Idents)
      BY DEF Idents
    <2>2. a \in Tokens /\ b \in Tokens /\ a.kind # "(" /\ b.kind # "("
      BY <2>1, TokenKinds, SlashIsPunctuation
    <2>3. s \in Seq(Tokens) /\ NoneOpens(s)
      BY <1>2
    <2>4. lexClause[Slashed[<<x>> \o p]] = Cons(a, u)
      BY SlashedTokensAlone DEF SlashedToken
    <2> HIDE DEF a, b, s
    <2>5. u \in Seq(Tokens) /\ NoneOpens(u)
      BY <2>2, <2>3, ConsTokens, NoneOpensParts
    <2> HIDE DEF u
    <2>6. Cons(a, u) \in Seq(Tokens) /\ NoneOpens(Cons(a, u))
      BY <2>2, <2>5, ConsTokens, NoneOpensParts
    <2> QED BY <2>1, <2>4, <2>6
  <1>3. Seq(Idents) \subseteq P
    <2> HIDE DEF P
    <2> QED BY <1>1, <1>2, TailFirst
  <1> QED BY <1>3

LEMMA ComparisonTokensParts ==
    ASSUME NEW p \in Seq(Idents), p # <<>>, NEW op \in Words, NEW v \in Seq(Symbols),
           NEW rest \in Seq(Tokens)
    PROVE  /\ ComparisonTokens(p, op, v, rest) \in Seq(Tokens)
           /\ Kind(ComparisonTokens(p, op, v, rest), 1) = "ident"
           /\ NoneOpens(rest) => NoneOpens(ComparisonTokens(p, op, v, rest))
  <1> DEFINE a == IdentToken(p[1])
             s == lexClause[Slashed[Tail(p)]]
             b == IdentToken(<<op>>)
             c == StringToken(v)
             z == Cons(c, rest)
             o == Cons(b, z)
             u == s \o o
             t == ComparisonTokens(p, op, v, rest)
  <1>1. p[1] \in Seq(Symbols) /\ Tail(p) \in Seq(Idents) /\ <<op>> \in Seq(Symbols)
    <2>1. p[1] \in Idents /\ Tail(p) \in Seq(Idents)
      BY SpelledType
    <2> QED BY <2>1, WordIsIdent DEF Idents
  <1>2. /\ a \in Tokens /\ a.kind = "ident" /\ b \in Tokens /\ b.kind = "ident"
        /\ c \in Tokens /\ c.kind = "string"
    BY <1>1, TokenKinds
  <1>3. s \in Seq(Tokens) /\ NoneOpens(s)
    BY <1>1, SlashedNoneOpens
  <1>4. t = Cons(a, u)
    BY DEF ComparisonTokens, OperatorTokens
  <1> HIDE DEF a, b, c, s, t
  <1>5. z \in Seq(Tokens) /\ (NoneOpens(rest) => NoneOpens(z))
    BY <1>2, ConsTokens, NoneOpensParts
  <1> HIDE DEF z
  <1>6. o \in Seq(Tokens) /\ (NoneOpens(rest) => NoneOpens(o))
    BY <1>2, <1>5, ConsTokens, NoneOpensParts
  <1> HIDE DEF o
  <1>7. u \in Seq(Tokens)
    BY <1>3, <1>6
  <1>8. NoneOpens(rest) => NoneOpens(u)
    BY <1>3, <1>6, NoneOpensParts
  <1> HIDE DEF u
  <1>9. Cons(a, u) \in Seq(Tokens) /\ Kind(Cons(a, u), 1) = "ident"
    BY <1>2, <1>7, ConsTokens
  <1>10. NoneOpens(rest) => NoneOpens(Cons(a, u))
    BY <1>2, <1>7, <1>8, NoneOpensParts
  <1> QED BY <1>4, <1>9, <1>10 DEF t

(* Tokens that say a filter, with others after them: what the forms make of  *)
(* them.                                                                     *)
Reads(tokens, f, rest) ==
    /\ tokens \in Seq(Tokens) /\ Kind(tokens, 1) = "ident"
    /\ \/ parseAnyEq(tokens) = [filter |-> f, rest |-> rest]
       \/ parseAnyEq(tokens) = Unread /\ parseSimple(tokens) = [filter |-> f, rest |-> rest]

(* A text that says a filter, whatever parentheses are closed after it.      *)
IsReadAs(c, f) ==
    \A r \in Clear : NoneOpens(lexClause[r]) => Reads(lexClause[c \o r], f, lexClause[r])

LEMMA ComparisonReads ==
    ASSUME NEW p \in Seq(Idents), p # <<>>, NEW op \in Words, Lower(op) \in Operators,
           NEW v \in Seq(Symbols)
    PROVE  IsReadAs(Written(p, op, v), [path |-> p, operator |-> Lower(op), value |-> v])
  <1>1. SUFFICES ASSUME NEW r \in Clear, NoneOpens(lexClause[r])
                 PROVE  Reads(lexClause[Written(p, op, v) \o r],
                              [path |-> p, operator |-> Lower(op), value |-> v], lexClause[r])
    BY DEF IsReadAs
  <1>2. lexClause[r] \in Seq(Tokens)
    BY ClearFollows, LexClauseType
  <1>3. PICK rest \in Seq(Tokens) : rest = lexClause[r]
    BY <1>2
  <1>4. NoneOpens(rest)
    BY <1>1, <1>3
  <1>5. lexClause[Written(p, op, v) \o r] = ComparisonTokens(p, op, v, rest)
    BY ComparisonLexes, <1>3
  <1>6. PICK t : t = ComparisonTokens(p, op, v, rest)
    OBVIOUS
  <1>7. t \in Seq(Tokens) /\ Kind(t, 1) = "ident" /\ NoneOpens(t)
    BY <1>4, <1>6, ComparisonTokensParts
  <1>8. parseAnyEq(t) = Unread
    BY <1>7, NoAnyWithoutParens
  <1>9. parseSimple(t) = Saying(p, Lower(op), v, rest)
    BY <1>6, SimpleIsRead
  <1>10. Reads(t, [path |-> p, operator |-> Lower(op), value |-> v], rest)
    BY <1>7, <1>8, <1>9 DEF Reads, Saying
  <1> QED
    BY <1>3, <1>5, <1>6, <1>10

LEMMA AnyReads ==
    ASSUME NEW x \in Idents, NEW q \in Seq(Idents), NEW any \in Words, Lower(any) = "any",
           NEW op \in Words, Lower(op) \in Operators, NEW v \in Seq(Symbols)
    PROVE  IsReadAs(WrittenAny(x, any, Written(<<<<Alias>>>> \o q, op, v)),
                    [path |-> <<x>> \o q, operator |-> Lower(op), value |-> v])
  <1>1. SUFFICES ASSUME NEW r \in Clear, NoneOpens(lexClause[r])
                 PROVE  Reads(lexClause[WrittenAny(x, any, Written(<<<<Alias>>>> \o q, op, v)) \o r],
                              [path |-> <<x>> \o q, operator |-> Lower(op), value |-> v], lexClause[r])
    BY DEF IsReadAs
  <1>2. Alias \in Words
    BY ODataAssumption
  <1>3. <<Alias>> \in Idents
    BY <1>2, WordIsIdent
  <1>4. PICK p \in Seq(Idents) : p = <<<<Alias>>>> \o q /\ p # <<>>
    BY <1>3, ConsProperties
  <1>5. PICK c \in Seq(Symbols) : c = Written(p, op, v)
    BY <1>4, WrittenParts
  <1>6. lexClause[r] \in Seq(Tokens)
    BY ClearFollows, LexClauseType
  <1>7. PICK rest \in Seq(Tokens) : rest = lexClause[r]
    BY <1>6
  <1>8. PICK closed \in Clear : closed = ClosedTwice(r) /\ lexClause[closed] = ClosesTwice(rest)
    BY <1>7, ClosedTwiceLexes
  <1>9. lexClause[c \o closed] = ComparisonTokens(p, op, v, ClosesTwice(rest))
    <2>1. p # <<>>
      BY <1>4
    <2>2. lexClause[Written(p, op, v) \o closed] = ComparisonTokens(p, op, v, lexClause[closed])
      BY <2>1, ComparisonLexes
    <2> QED
      BY <1>5, <1>8, <2>2
  <1>10. ClosesTwice(rest) \in Seq(Tokens)
    BY ClosesTwiceParts
  <1>11. PICK inner \in Seq(Tokens) : inner = ComparisonTokens(p, op, v, ClosesTwice(rest))
    BY <1>4, <1>10, ComparisonTokensParts
  <1>12. lexClause[WrittenAny(x, any, c) \o r] = Cons(IdentToken(x), AnyTokens(any) \o inner)
    BY <1>8, <1>9, <1>11, AnyLexes
  <1>13. PICK t : t = Cons(IdentToken(x), AnyTokens(any) \o inner)
    OBVIOUS
  <1>14. parseAnyEq(t) = Saying(<<x>> \o q, Lower(op), v, rest)
    <2>1. inner = ComparisonTokens(<<<<Alias>>>> \o q, op, v, ClosesTwice(rest))
      BY <1>4, <1>11
    <2> QED
      BY <1>13, <2>1, AnyIsRead
  <1>15. t \in Seq(Tokens) /\ Kind(t, 1) = "ident"
    <2>1. AnyTokens(any) \o inner \in Seq(Tokens)
      BY AnyTokensParts
    <2>2. x \in Seq(Symbols)
      BY DEF Idents
    <2>3. IdentToken(x) \in Tokens /\ IdentToken(x).kind = "ident"
      BY <2>2, TokenKinds
    <2> QED
      BY <1>13, <2>1, <2>3, ConsTokens
  <1>16. Reads(t, [path |-> <<x>> \o q, operator |-> Lower(op), value |-> v], rest)
    BY <1>14, <1>15 DEF Reads, Saying
  <1> QED
    BY <1>4, <1>5, <1>7, <1>12, <1>13, <1>16

-----------------------------------------------------------------------------
(* The tokens of the parentheses around a clause.                            *)
LEMMA AfterNone == \A s \in Seq(Tokens) : After(s, 0) = s
  BY DEF After

LEMMA OpenedIs ==
    ASSUME NEW tokens \in Seq(Tokens), NEW n \in Nat, Kind(tokens, n + 1) = "ident",
           \A i \in Nat : i < n => Kind(tokens, i + 1) = "("
    PROVE  Opened(tokens) = n
  <1> DEFINE open == Opened(tokens)
  <1>1. /\ open \in 0..Len(tokens) /\ Kind(tokens, open + 1) # "("
        /\ \A i \in 0..Len(tokens) : i < open => Kind(tokens, i + 1) = "("
    BY OpenedProperties
  <1>2. n < Len(tokens)
    <2>1. Len(tokens) \in Nat
      OBVIOUS
    <2>2. n + 1 <= Len(tokens)
      BY DEF Kind
    <2> QED
      BY <2>1, <2>2
  <1> HIDE DEF open
  <1>3. ~(open < n)
    BY <1>1
  <1>4. ~(n < open)
    <2>1. n \in 0..Len(tokens)
      BY <1>2
    <2>2. Kind(tokens, n + 1) # "("
      OBVIOUS
    <2> QED
      BY <1>1, <2>1, <2>2
  <1>5. open = n
    BY <1>1, <1>3, <1>4
  <1> QED
    BY <1>5 DEF open

Opening == PunctToken("(")
Closing == PunctToken(")")

LEMMA ParenTokens ==
    /\ Opening \in Tokens /\ Closing \in Tokens /\ Opening.kind = "(" /\ Closing.kind = ")"
    /\ \A z \in Seq(Symbols) : /\ lexClause[<<"(">> \o z] = Cons(Opening, lexClause[z])
                               /\ lexClause[<<")">> \o z] = Cons(Closing, lexClause[z])
                               /\ <<"(">> \o z \in Seq(Symbols)
  <1>1. "(" \in Punctuation /\ ")" \in Punctuation
    BY SlashIsPunctuation
  <1>2. Opening \in Tokens /\ Closing \in Tokens /\ Opening.kind = "(" /\ Closing.kind = ")"
    BY <1>1, TokenKinds DEF Opening, Closing
  <1>3. ASSUME NEW z \in Seq(Symbols)
        PROVE  /\ lexClause[<<"(">> \o z] = Cons(Opening, lexClause[z])
               /\ lexClause[<<")">> \o z] = Cons(Closing, lexClause[z])
               /\ <<"(">> \o z \in Seq(Symbols)
    <2>1. lexClause[<<"(">> \o z] = Cons(PunctToken("("), lexClause[z])
      BY <1>1, LexParts
    <2>2. lexClause[<<")">> \o z] = Cons(PunctToken(")"), lexClause[z])
      BY <1>1, LexParts
    <2>3. <<"(">> \o z \in Seq(Symbols)
      BY <1>1, ClearCons
    <2> QED
      BY <2>1, <2>2, <2>3 DEF Opening, Closing
  <1> QED
    BY <1>2, <1>3

OpensBefore(n, tokens, z) ==
    tokens \in Seq(Tokens) /\ Opened(tokens) = n /\ After(tokens, n) = z

LEMMA OneMoreOpens ==
    ASSUME NEW n \in Nat, NEW tokens, NEW z \in Seq(Tokens), OpensBefore(n, tokens, z),
           Kind(z, 1) = "ident"
    PROVE  OpensBefore(n + 1, Cons(Opening, tokens), z)
  <1>1. Opening \in Tokens /\ Opening.kind = "("
    BY ParenTokens
  <1>2. tokens \in Seq(Tokens) /\ Opened(tokens) = n /\ After(tokens, n) = z
    BY DEF OpensBefore
  <1>3. /\ n \in 0..Len(tokens) /\ Kind(tokens, n + 1) # "("
        /\ \A i \in 0..Len(tokens) : i < n => Kind(tokens, i + 1) = "("
    BY <1>2, OpenedProperties
  <1>4. Kind(tokens, n + 1) = "ident"
    <2>1. Len(z) > 0 /\ z[1].kind = "ident"
      BY DEF Kind
    <2>2. Len(z) = Len(tokens) - n /\ \A i \in 1..Len(tokens) - n : z[i] = tokens[n + i]
      BY <1>2, <1>3, AfterProperties
    <2>3. n + 1 <= Len(tokens) /\ z[1] = tokens[n + 1]
      BY <1>2, <1>3, <2>1, <2>2
    <2> QED
      BY <2>1, <2>3 DEF Kind
  <1>5. PICK more \in Seq(Tokens) : more = Cons(Opening, tokens)
    BY <1>1, <1>2, ConsTokens
  <1>6. Kind(more, 1) = "(" /\ \A i \in Nat \ {0} : Kind(more, i + 1) = Kind(tokens, i)
    <2>1. tokens \in Seq(Tokens)
      BY <1>2
    <2>2. Kind(Cons(Opening, tokens), 1) = Opening.kind
      BY <1>1, <2>1, ConsTokens
    <2>3. \A i \in Nat \ {0} : Kind(Cons(Opening, tokens), i + 1) = Kind(tokens, i)
      BY <1>1, <2>1, ConsTokens
    <2> QED
      BY <1>1, <1>5, <2>2, <2>3
  <1>7. Kind(more, (n + 1) + 1) = "ident"
    BY <1>4, <1>6
  <1>8. ASSUME NEW i \in Nat, i < n + 1
        PROVE  Kind(more, i + 1) = "("
    <2>1. ASSUME i = 0 PROVE Kind(more, i + 1) = "("
      BY <1>6, <2>1
    <2>2. ASSUME i # 0 PROVE Kind(more, i + 1) = "("
      <3>1. i - 1 \in 0..Len(tokens) /\ i - 1 < n /\ (i - 1) + 1 = i
        BY <1>3, <1>8, <2>2
      <3>2. Kind(tokens, i) = "("
        BY <1>3, <3>1
      <3> QED
        BY <1>6, <2>2, <3>2
    <2> QED
      BY <2>1, <2>2
  <1>9. Opened(more) = n + 1
    <2>1. n + 1 \in Nat
      OBVIOUS
    <2> QED
      BY <1>7, <1>8, <2>1, OpenedIs
  <1>10. After(more, n + 1) = z
    <2>1. ConsRests(Opening, tokens, n)
      BY <1>1, <1>2, <1>3, ConsMoves
    <2> QED
      BY <1>2, <1>5, <2>1 DEF ConsRests
  <1> QED
    BY <1>5, <1>9, <1>10 DEF OpensBefore

LEMMA RepeatedThen ==
    ASSUME NEW a, NEW b, NEW n \in Nat
    PROVE  /\ DOMAIN (Repeat(a, n) \o <<b>>) = 1..n + 1
           /\ (Repeat(a, n) \o <<b>>)[n + 1] = b
           /\ \A i \in 1..n : (Repeat(a, n) \o <<b>>)[i] = a
  <1>1. PICK s \in Seq({a, b}) : s = Repeat(a, n) /\ Len(s) = n
    <2>1. PICK f \in [1..n -> {a, b}] : f = Repeat(a, n)
      BY DEF Repeat
    <2>2. f \in Seq({a, b}) /\ Len(f) = n
      OBVIOUS
    <2> QED
      BY <2>1, <2>2
  <1>2. PICK t \in Seq({a, b}) : t = <<b>> /\ Len(t) = 1 /\ t[1] = b
    <2>1. <<b>> \in Seq({a, b})
      OBVIOUS
    <2>2. Len(<<b>>) = 1 /\ <<b>>[1] = b
      OBVIOUS
    <2> QED
      BY <2>1, <2>2
  <1>3. /\ s \o t \in Seq({a, b}) /\ Len(s \o t) = n + 1
        /\ \A i \in 1..n : (s \o t)[i] = s[i]
        /\ (s \o t)[n + 1] = t[1]
    BY <1>1, <1>2
  <1>4. \A i \in 1..n : s[i] = a
    BY <1>1 DEF Repeat
  <1> QED
    BY <1>1, <1>2, <1>3, <1>4

LEMMA KindsOfCloses ==
    ASSUME NEW tokens, NEW n \in Nat, Kind(tokens, n + 1) = "eof",
           \A i \in 1..n : Kind(tokens, i) = ")"
    PROVE  IsKinds(tokens, Repeat(")", n) \o <<"eof">>)
  <1> DEFINE kinds == Repeat(")", n) \o <<"eof">>
  <1>1. /\ DOMAIN kinds = 1..n + 1 /\ kinds[n + 1] = "eof"
        /\ \A i \in 1..n : kinds[i] = ")"
    BY RepeatedThen
  <1> HIDE DEF kinds
  <1>2. ASSUME NEW i \in 1..n + 1 PROVE Kind(tokens, i) = kinds[i]
    <2>1. i \in 1..n \/ i = n + 1
      OBVIOUS
    <2> QED
      BY <1>1, <2>1
  <1>3. IsKinds(tokens, kinds)
    BY <1>1, <1>2 DEF IsKinds
  <1> QED
    BY <1>3 DEF kinds

(* Nothing but the parentheses that close is left.                           *)
ClosesOnly(n, rest) ==
    rest \in Seq(Tokens) /\ NoneOpens(rest) /\ IsKinds(rest, Repeat(")", n) \o <<"eof">>)

LEMMA OneMoreCloses ==
    ASSUME NEW n \in Nat, NEW rest, ClosesOnly(n, rest),
           \A i \in 1..n : Kind(rest, i) = ")", Kind(rest, n + 1) = "eof"
    PROVE  /\ ClosesOnly(n + 1, Cons(Closing, rest))
           /\ \A i \in 1..n + 1 : Kind(Cons(Closing, rest), i) = ")"
           /\ Kind(Cons(Closing, rest), (n + 1) + 1) = "eof"
  <1>1. Closing \in Tokens /\ Closing.kind = ")" /\ Closing.kind # "("
    BY ParenTokens
  <1>2. rest \in Seq(Tokens) /\ NoneOpens(rest)
    BY DEF ClosesOnly
  <1>3. PICK more \in Seq(Tokens) : more = Cons(Closing, rest)
    BY <1>1, <1>2, ConsTokens
  <1>4. NoneOpens(more)
    BY <1>1, <1>2, <1>3, NoneOpensParts
  <1>5. Kind(more, 1) = ")" /\ \A i \in Nat \ {0} : Kind(more, i + 1) = Kind(rest, i)
    <2>1. rest \in Seq(Tokens)
      BY <1>2
    <2>2. Kind(Cons(Closing, rest), 1) = Closing.kind
      BY <1>1, <2>1, ConsTokens
    <2>3. \A i \in Nat \ {0} : Kind(Cons(Closing, rest), i + 1) = Kind(rest, i)
      BY <1>1, <2>1, ConsTokens
    <2> QED
      BY <1>1, <1>3, <2>2, <2>3
  <1>6. Kind(more, (n + 1) + 1) = "eof"
    BY <1>5
  <1>7. ASSUME NEW i \in 1..n + 1
        PROVE  Kind(more, i) = ")"
    <2>1. ASSUME i = 1 PROVE Kind(more, i) = ")"
      BY <1>5, <2>1
    <2>2. ASSUME i # 1 PROVE Kind(more, i) = ")"
      <3>1. i - 1 \in 1..n /\ i - 1 \in Nat \ {0} /\ (i - 1) + 1 = i
        BY <2>2
      <3>2. Kind(rest, i - 1) = ")"
        BY <3>1
      <3>3. Kind(more, (i - 1) + 1) = Kind(rest, i - 1)
        BY <1>5, <3>1
      <3> QED
        BY <3>1, <3>2, <3>3
    <2> QED
      BY <2>1, <2>2
  <1>8. IsKinds(more, Repeat(")", n + 1) \o <<"eof">>)
    <2>1. n + 1 \in Nat
      OBVIOUS
    <2> QED
      BY <1>6, <1>7, <2>1, KindsOfCloses
  <1> QED
    BY <1>3, <1>4, <1>6, <1>7, <1>8 DEF ClosesOnly

ClosesClearly(n) ==
    /\ Repeat(")", n) \in Clear
    /\ ClosesOnly(n, lexClause[Repeat(")", n)])
    /\ \A i \in 1..n : Kind(lexClause[Repeat(")", n)], i) = ")"
    /\ Kind(lexClause[Repeat(")", n)], n + 1) = "eof"

LEMMA ClosesLex == \A n \in Nat : ClosesClearly(n)
  <1> DEFINE S == {n \in Nat : ClosesClearly(n)}
  <1>1. ")" \in Punctuation \cup {Space} /\ ")" \in Symbols
    BY SlashIsPunctuation, QuoteIsSymbol
  <1>2. 0 \in S
    <2>1. PICK none \in Clear : none = Repeat(")", 0) /\ lexClause[none] = <<>>
      BY <1>1, RepeatSteps, LexEmpty
    <2>2. PICK tokens \in Seq(Tokens) : tokens = <<>>
      <3>1. <<>> \in Seq(Tokens)
        OBVIOUS
      <3> QED
        BY <3>1
    <2>3. NoneOpens(tokens) /\ Kind(tokens, 0 + 1) = "eof"
      BY <2>2 DEF NoneOpens, Kind
    <2>4. IsKinds(tokens, Repeat(")", 0) \o <<"eof">>)
      BY <2>3, KindsOfCloses
    <2>5. ClosesOnly(0, tokens)
      BY <2>3, <2>4 DEF ClosesOnly
    <2>6. \A i \in 1..0 : Kind(tokens, i) = ")"
      OBVIOUS
    <2>7. lexClause[Repeat(")", 0)] = tokens /\ Repeat(")", 0) \in Clear
      BY <2>1, <2>2
    <2>8. ClosesClearly(0)
      BY <2>3, <2>5, <2>6, <2>7 DEF ClosesClearly
    <2> QED
      BY <2>8
  <1>3. ASSUME NEW n \in Nat, n \in S
        PROVE  n + 1 \in S
    <2>1. PICK r \in Clear : r = Repeat(")", n) /\ r \in Seq(Symbols)
      BY <1>3, ClearFollows DEF ClosesClearly
    <2>2. PICK rest : rest = lexClause[r]
      OBVIOUS
    <2>3. /\ ClosesOnly(n, rest) /\ Kind(rest, n + 1) = "eof"
          /\ \A i \in 1..n : Kind(rest, i) = ")"
      BY <1>3, <2>1, <2>2 DEF ClosesClearly
    <2>4. PICK x \in Clear : x = <<")">> \o r
      BY <1>1, <2>1, ClearCons
    <2>5. x = Repeat(")", n + 1)
      <3>1. RepeatGrows(")", n)
        BY <1>1, RepeatSteps
      <3> QED
        BY <2>1, <2>4, <3>1 DEF RepeatGrows
    <2>6. lexClause[x] = Cons(Closing, rest)
      BY <2>1, <2>2, <2>4, ParenTokens
    <2>7. /\ ClosesOnly(n + 1, lexClause[x]) /\ Kind(lexClause[x], (n + 1) + 1) = "eof"
          /\ \A i \in 1..n + 1 : Kind(lexClause[x], i) = ")"
      BY <2>3, <2>6, OneMoreCloses
    <2>8. ClosesClearly(n + 1)
      BY <2>5, <2>7 DEF ClosesClearly
    <2> QED
      BY <2>8
  <1> HIDE DEF S
  <1>4. Nat \subseteq S
    BY <1>2, <1>3, SetInduction
  <1> QED
    BY <1>4 DEF S

WrapGroups(b, a, c, r) ==
    /\ (<<>> \o c) \o r = c \o r
    /\ ((b \o a) \o c) \o r = b \o ((a \o c) \o r)

LEMMA WrapGrouped ==
    ASSUME NEW b, NEW a, NEW c, NEW r
    PROVE  b \in Seq(Symbols) /\ a \in Seq(Symbols) /\ c \in Seq(Symbols) /\ r \in Seq(Symbols)
             => WrapGroups(b, a, c, r)
  <1> SUFFICES ASSUME b \in Seq(Symbols), a \in Seq(Symbols), c \in Seq(Symbols), r \in Seq(Symbols)
               PROVE  WrapGroups(b, a, c, r)
    OBVIOUS
  <1>1. (<<>> \o c) \o r = c \o r
    BY TextConcat
  <1>2. (b \o a) \o c = b \o (a \o c)
    BY TextAssociative, SMTT(30)
  <1>3. a \o c \in Seq(Symbols)
    BY TextConcat
  <1>4. (b \o (a \o c)) \o r = b \o ((a \o c) \o r)
    BY <1>3, TextAssociative, SMTT(30)
  <1> QED
    BY <1>1, <1>2, <1>4 DEF WrapGroups

LEMMA OpensLex ==
    ASSUME NEW c \in Seq(Symbols), NEW r \in Seq(Symbols), Kind(lexClause[c \o r], 1) = "ident"
    PROVE  \A n \in Nat : OpensBefore(n, lexClause[(Repeat("(", n) \o c) \o r], lexClause[c \o r])
  <1>1. PICK s \in Seq(Symbols) : s = c \o r
    BY TextConcat
  <1>2. PICK z \in Seq(Tokens) : z = lexClause[s]
    BY LexClauseType
  <1>3. Kind(z, 1) = "ident"
    BY <1>1, <1>2
  <1>4. "(" \in Punctuation /\ "(" \in Symbols
    BY SlashIsPunctuation, QuoteIsSymbol
  <1>5. PICK b \in Seq(Symbols) : b = <<"(">>
    BY <1>1, <1>4, ClearCons
  <1> DEFINE S == {n \in Nat : OpensBefore(n, lexClause[(Repeat("(", n) \o c) \o r], z)}
  <1>6. 0 \in S
    <2>1. WrapGroups(b, b, c, r)
      BY WrapGrouped
    <2>2. (Repeat("(", 0) \o c) \o r = s
      BY <1>1, <1>4, <2>1, RepeatSteps DEF WrapGroups
    <2>3. Opened(z) = 0
      BY <1>3, OpenedIs
    <2>4. After(z, 0) = z
      BY AfterNone
    <2>5. OpensBefore(0, z, z)
      BY <2>3, <2>4 DEF OpensBefore
    <2> QED
      BY <1>2, <2>2, <2>5
  <1>7. ASSUME NEW n \in Nat, n \in S
        PROVE  n + 1 \in S
    <2>1. PICK a \in Seq(Symbols) : a = Repeat("(", n)
      BY <1>4, RepeatType
    <2>2. PICK w \in Seq(Symbols) : w = (a \o c) \o r
      BY TextConcat
    <2>3. OpensBefore(n, lexClause[w], z)
      BY <1>7, <2>1, <2>2
    <2>4. (Repeat("(", n + 1) \o c) \o r = b \o w
      <3>1. RepeatGrows("(", n)
        BY <1>4, RepeatSteps
      <3>2. Repeat("(", n + 1) = b \o a
        BY <1>5, <2>1, <3>1 DEF RepeatGrows
      <3>3. WrapGroups(b, a, c, r)
        BY WrapGrouped
      <3> QED
        BY <2>2, <3>2, <3>3 DEF WrapGroups
    <2>5. lexClause[b \o w] = Cons(Opening, lexClause[w])
      BY <1>5, ParenTokens
    <2>6. OpensBefore(n + 1, Cons(Opening, lexClause[w]), z)
      BY <1>3, <2>3, OneMoreOpens
    <2>7. OpensBefore(n + 1, lexClause[(Repeat("(", n + 1) \o c) \o r], z)
      BY <2>4, <2>5, <2>6
    <2> QED
      BY <2>7
  <1> HIDE DEF S
  <1>8. Nat \subseteq S
    BY <1>6, <1>7, SetInduction
  <1> QED
    BY <1>1, <1>2, <1>8 DEF S

LEMMA WrappedReads ==
    ASSUME NEW c \in Seq(Symbols), NEW f \in Filter, IsReadAs(c, f), NEW n \in Nat
    PROVE  parseClause(Wrapped(c, n)) = <<f>>
  <1>1. PICK r \in Clear : r = Repeat(")", n) /\ r \in Seq(Symbols)
    BY ClosesLex, ClearFollows DEF ClosesClearly
  <1>2. PICK rest \in Seq(Tokens) : rest = lexClause[r]
    BY <1>1, LexClauseType
  <1>3. ClosesOnly(n, rest)
    BY <1>1, <1>2, ClosesLex DEF ClosesClearly
  <1>4. PICK z : z = lexClause[c \o r]
    OBVIOUS
  <1>5. Reads(z, f, rest)
    BY <1>1, <1>2, <1>3, <1>4 DEF ClosesOnly, IsReadAs
  <1>6. z \in Seq(Tokens) /\ Kind(z, 1) = "ident"
    BY <1>5 DEF Reads
  <1>7. PICK tokens : tokens = lexClause[Wrapped(c, n)]
    OBVIOUS
  <1>8. OpensBefore(n, tokens, z)
    BY <1>1, <1>4, <1>6, <1>7, OpensLex DEF Wrapped
  <1>9. PICK read \in Readings : read = [filter |-> f, rest |-> rest] /\ read.filter = f /\ read.rest = rest
    <2>1. [filter |-> f, rest |-> rest] \in Readings
      BY DEF Readings
    <2> QED
      BY <2>1
  <1>10. IsWhole(read, n)
    BY <1>3, <1>9, ReadingsAreRead DEF IsWhole, ClosesOnly
  <1>11. ~IsWhole(Unread, n)
    BY DEF IsWhole
  <1>12. ClauseOf(tokens) = <<f>>
    <2>1. Opened(tokens) = n /\ After(tokens, n) = z
      BY <1>8 DEF OpensBefore
    <2>2. \/ parseAnyEq(z) = read
          \/ parseAnyEq(z) = Unread /\ parseSimple(z) = read
      BY <1>5, <1>9 DEF Reads
    <2>3. ClauseOf(tokens) =
            IF IsWhole(parseAnyEq(z), n) THEN <<parseAnyEq(z).filter>>
            ELSE IF IsWhole(parseSimple(z), n) THEN <<parseSimple(z).filter>> ELSE <<>>
      BY <2>1 DEF ClauseOf
    <2> QED
      BY <1>9, <1>10, <1>11, <2>2, <2>3
  <1> QED
    BY <1>7, <1>12, ParseClauseIsClauseOf

(* What is asked of a way to write a filter.                                 *)
Says(c, f) == c \in Seq(Symbols) /\ PassesAnywhere(c) /\ IsReadAs(c, f)

LEMMA ComparisonSays ==
    ASSUME NEW f \in Filters, NEW op \in Spellings(f.operator)
    PROVE  Says(Written(f.path, op, f.value), f)
  <1>1. /\ f.path \in Seq(Idents) /\ f.path # <<>>
        /\ f.operator \in Operators /\ f.value \in Seq(Symbols)
        /\ ~LoneAnd(Spelled(f.path))
        /\ f = [path |-> f.path, operator |-> f.operator, value |-> f.value]
    BY FilterParts
  <1>2. Lower(op) = f.operator /\ op \in Words /\ Lower(op) # "and"
    BY <1>1, SpellingsLower
  <1>3. Written(f.path, op, f.value) \in Seq(Symbols)
    BY <1>1, <1>2, WrittenParts
  <1>4. PassesAnywhere(Written(f.path, op, f.value))
    BY <1>1, <1>2, ComparisonPasses DEF PassesAnywhere
  <1>5. IsReadAs(Written(f.path, op, f.value), [path |-> f.path, operator |-> Lower(op), value |-> f.value])
    BY <1>1, <1>2, ComparisonReads
  <1> QED
    BY <1>1, <1>2, <1>3, <1>4, <1>5 DEF Says

LEMMA AnySays ==
    ASSUME NEW f \in Filters, NEW any \in Spellings("any"), NEW op \in Spellings(f.operator)
    PROVE  Says(WrittenAny(f.path[1], any, Written(<<<<Alias>>>> \o Tail(f.path), op, f.value)), f)
  <1>1. /\ f.path \in Seq(Idents) /\ f.path # <<>>
        /\ f.operator \in Operators /\ f.value \in Seq(Symbols)
        /\ f = [path |-> f.path, operator |-> f.operator, value |-> f.value]
    BY FilterParts
  <1>2. PICK x \in Idents, q \in Seq(Idents) : x = f.path[1] /\ q = Tail(f.path) /\ f.path = <<x>> \o q
    BY <1>1, HeadAndTail
  <1>3. Lower(op) = f.operator /\ op \in Words /\ Lower(op) # "and"
    BY <1>1, SpellingsLower
  <1>4. Lower(any) = "any" /\ any \in Words /\ Lower(any) # "and"
    BY SpellingsLower
  <1>5. Alias \in Words
    BY ODataAssumption
  <1>6. <<Alias>> \in Idents
    BY <1>5, WordIsIdent
  <1>7. PICK p \in Seq(Idents) : p = <<<<Alias>>>> \o q /\ p # <<>>
    BY <1>6, ConsProperties
  <1>8. PICK c \in Seq(Symbols) : c = Written(p, op, f.value)
    BY <1>1, <1>3, <1>7, WrittenParts
  <1>9. WrittenAny(x, any, c) \in Seq(Symbols)
    BY <1>4, AnyParts DEF Idents
  <1>10. PassesAnywhere(WrittenAny(x, any, Written(p, op, f.value)))
    BY <1>1, <1>3, <1>4, <1>7, AnyPasses DEF PassesAnywhere
  <1>11. IsReadAs(WrittenAny(x, any, Written(<<<<Alias>>>> \o q, op, f.value)),
                  [path |-> <<x>> \o q, operator |-> Lower(op), value |-> f.value])
    BY <1>1, <1>3, <1>4, AnyReads
  <1>12. [path |-> <<x>> \o q, operator |-> Lower(op), value |-> f.value] = f
    BY <1>1, <1>2, <1>3
  <1>13. Says(WrittenAny(x, any, c), f)
    BY <1>7, <1>8, <1>9, <1>10, <1>11, <1>12 DEF Says
  <1> QED
    BY <1>2, <1>7, <1>8, <1>13

LEMMA ClausesSay ==
    ASSUME NEW f \in Filters, NEW c \in Clauses(f)
    PROVE  Says(c, f)
  <1>1. ASSUME f.path[1] \in Collections PROVE Says(c, f)
    <2>1. Clauses(f) = {WrittenAny(f.path[1], any, inner) :
                   any \in Spellings("any"), inner \in Comparisons(<<<<Alias>>>> \o Tail(f.path), f)}
      BY <1>1, SMT DEF Clauses, WrittenAny, AnyOpens
    <2>2. PICK any \in Spellings("any"), inner \in Comparisons(<<<<Alias>>>> \o Tail(f.path), f) :
               c = WrittenAny(f.path[1], any, inner)
      BY <2>1
    <2>3. PICK op \in Spellings(f.operator) : inner = Written(<<<<Alias>>>> \o Tail(f.path), op, f.value)
      BY <2>2 DEF Comparisons, Written, Spelled
    <2> QED
      BY <2>2, <2>3, AnySays
  <1>2. ASSUME f.path[1] \notin Collections PROVE Says(c, f)
    <2>1. c \in Comparisons(f.path, f)
      BY <1>2 DEF Clauses
    <2>2. PICK op \in Spellings(f.operator) : c = Written(f.path, op, f.value)
      BY <2>1 DEF Comparisons, Written, Spelled
    <2> QED
      BY <2>2, ComparisonSays
  <1> QED
    BY <1>1, <1>2

(* A filter that is written, in any of the spellings and forms a client has  *)
(* for it and in any number of parentheses, is one clause, and exactly that  *)
(* filter is read of it (parseClause); after it the text is outside of       *)
(* strings and parentheses.                                                  *)
THEOREM ClauseIsRead ==
    ASSUME NEW f \in Filters, NEW c \in Parenthesised(Clauses(f))
    PROVE  c \in Seq(Symbols) /\ ParseFilter(c) = <<f>> /\ ~EndsOpen(c)
  <1>1. PICK n \in Nat, d \in Clauses(f) : c = Wrapped(d, n)
    <2>1. Parenthesised(Clauses(f)) = {Wrapped(d, n) : n \in 0..MaxParens, d \in Clauses(f)}
      BY SMT DEF Parenthesised, Wrapped
    <2>2. \A n \in 0..MaxParens : n \in Nat
      OBVIOUS
    <2> QED
      BY <2>1, <2>2
  <1>2. Says(d, f)
    BY ClausesSay
  <1>3. f \in Filter
    BY FilterParts
  <1>4. parseClause(Wrapped(d, n)) = <<f>>
    BY <1>2, <1>3, WrappedReads DEF Says
  <1>5. /\ Wrapped(d, n) \in Seq(Symbols)
        /\ ParseFilter(Wrapped(d, n)) = parseClause(Wrapped(d, n))
        /\ ~EndsOpen(Wrapped(d, n))
    BY <1>2, WrappedIsOneClause DEF Says
  <1> QED
    BY <1>1, <1>4, <1>5

-----------------------------------------------------------------------------
(* The inductive invariant.  As long as every clause is closed, the text     *)
(* ends outside of strings and parentheses, so that the next "and" cuts it,  *)
(* and what is read of it is what it says.  After a clause that is not       *)
(* closed, that much is true of a beginning of the text that an "and" ends.  *)

Parsed(t, filters) == t \in Seq(Symbols) /\ ~EndsOpen(t) /\ ParseFilter(t) = filters

Begins(t, filters) ==
    \E p \in Seq(Symbols), u \in Seq(Symbols), and \in Spellings("and") :
        Parsed(p, filters) /\ t = JoinedBy(p, and, u)

TextTypeOK ==
    /\ text \in Seq(Symbols)
    /\ written \in Seq(Filters)
    /\ clauses \in 0..MaxClauses
    /\ broken \in BOOLEAN

TextSays ==
    /\ TextTypeOK
    /\ ~broken => Parsed(text, written)
    /\ broken => written = <<>> \/ Begins(text, written)

LEMMA EmptyParsed == Parsed(<<>>, <<>>)
  <1>1. <<>> \in Seq(Symbols) /\ Len(<<>>) = 0
    OBVIOUS
  <1>2. Scan(<<>>)[0] = Unscanned
    BY <1>1, ScanDef
  <1>3. ~EndsOpen(<<>>)
    BY <1>1, <1>2 DEF EndsOpen, Ends, Ground, Unscanned
  <1>4. NoCut(<<>>, 0, Len(<<>>))
    BY <1>1 DEF NoCut
  <1>5. splitTopLevelAndClauses(<<>>) = <<<<>>>>
    BY <1>1, <1>4, UncutText
  <1>6. PICK none \in Seq(Symbols) : none = <<>>
    BY <1>1
  <1>7. parseClauses[<<none>>] = parseClause(none)
    <2>1. <<>> \in Seq(Seq(Symbols))
      OBVIOUS
    <2>2. parseClauses[Append(<<>>, none)] = parseClauses[<<>>] \o parseClause(none)
      BY <2>1, ParseClausesAppend
    <2>3. parseClause(none) \in Seq(Filter)
      BY ParseClauseType
    <2>4. Append(<<>>, none) = <<none>>
      OBVIOUS
    <2> QED
      BY <2>2, <2>3, <2>4, ParseClausesParts
  <1>8. parseClause(none) = <<>>
    <2>1. PICK tokens \in Seq(Tokens) : tokens = lexClause[none] /\ tokens = <<>>
      BY <1>6, LexEmpty, LexClauseType
    <2>2. Opened(tokens) \in 0..Len(tokens)
      BY OpenedProperties
    <2>3. Opened(tokens) = 0
      BY <2>1, <2>2
    <2>4. After(tokens, 0) = tokens
      BY AfterNone
    <2>5. Kind(tokens, 1) = "eof"
      BY <2>1 DEF Kind
    <2>6. parsePath(tokens, {}) = Unread /\ parsePath(tokens, {"any"}) = Unread
      BY <2>5, ParsePathIsPathFrom, PathFromDef DEF PathBody
    <2>7. parseSimple(tokens) = Unread /\ parseAnyEq(tokens) = Unread
      BY <2>6 DEF parseSimple, parseAnyEq
    <2>8. ~IsWhole(Unread, 0)
      BY DEF IsWhole
    <2>9. ClauseOf(tokens) = <<>>
      BY <2>3, <2>4, <2>7, <2>8 DEF ClauseOf
    <2> QED
      BY <2>1, <2>9, ParseClauseIsClauseOf
  <1> QED
    BY <1>1, <1>3, <1>5, <1>6, <1>7, <1>8 DEF Parsed, ParseFilter

LEMMA JoinedForms ==
    ASSUME NEW t, NEW c, NEW w \in Joined(t, c)
    PROVE  IF t = <<>> THEN w = c ELSE \E and \in Spellings("and") : w = JoinedBy(t, and, c)
  <1>1. ASSUME t = <<>> PROVE w = c
    BY <1>1 DEF Joined
  <1>2. ASSUME t # <<>> PROVE \E and \in Spellings("and") : w = JoinedBy(t, and, c)
    <2>1. w \in Joined(t, c)
      OBVIOUS
    <2> QED
      BY <1>2, <2>1, Zenon DEF Joined, JoinedBy, And, Space
  <1> QED
    BY <1>1, <1>2

LEMMA JoinedParsed ==
    ASSUME NEW t, NEW filters \in Seq(Filter), Parsed(t, filters),
           NEW c, NEW more \in Seq(Filter), Parsed(c, more),
           NEW w \in Joined(t, c)
    PROVE  Parsed(w, filters \o more)
  <1>1. /\ t \in Seq(Symbols) /\ ~EndsOpen(t) /\ ParseFilter(t) = filters
        /\ c \in Seq(Symbols) /\ ~EndsOpen(c) /\ ParseFilter(c) = more
    BY DEF Parsed
  <1>2. ASSUME t = <<>> PROVE Parsed(w, filters \o more)
    <2>1. filters = <<>>
      BY <1>1, <1>2, EmptyParsed DEF Parsed
    <2>2. filters \o more = more
      BY <2>1
    <2>3. w = c
      BY <1>2, JoinedForms
    <2> QED
      BY <2>2, <2>3
  <1>3. ASSUME t # <<>> PROVE Parsed(w, filters \o more)
    <2>1. PICK and \in Spellings("and") : w = JoinedBy(t, and, c)
      BY <1>3, JoinedForms
    <2>2. w \in Seq(Symbols)
      BY <1>1, <2>1, JoinedParts
    <2>3. ParseFilter(w) = filters \o more /\ ~EndsOpen(w)
      BY <1>1, <2>1, ParseJoined
    <2> QED
      BY <2>2, <2>3 DEF Parsed
  <1> QED
    BY <1>2, <1>3

LEMMA UnclosedBegins ==
    ASSUME NEW t, NEW filters, Parsed(t, filters), NEW c \in Seq(Symbols), NEW w \in Joined(t, c)
    PROVE  w \in Seq(Symbols) /\ (filters = <<>> \/ Begins(w, filters))
  <1>1. t \in Seq(Symbols) /\ ParseFilter(t) = filters
    BY DEF Parsed
  <1>2. ASSUME t = <<>> PROVE w \in Seq(Symbols) /\ filters = <<>>
    BY <1>1, <1>2, EmptyParsed, JoinedForms DEF Parsed
  <1>3. ASSUME t # <<>> PROVE w \in Seq(Symbols) /\ Begins(w, filters)
    <2>1. PICK and \in Spellings("and") : w = JoinedBy(t, and, c)
      BY <1>3, JoinedForms
    <2>2. w \in Seq(Symbols)
      BY <1>1, <2>1, JoinedParts
    <2> QED
      BY <1>1, <2>1, <2>2 DEF Begins
  <1> QED
    BY <1>2, <1>3

JoinedOn(p, and, u, more, c) == JoinedBy(JoinedBy(p, and, u), more, c) = JoinedBy(p, and, JoinedBy(u, more, c))

LEMMA JoinsOn ==
    ASSUME NEW p, NEW and \in Spellings("and"), NEW u, NEW more \in Spellings("and"), NEW c
    PROVE  p \in Seq(Symbols) /\ u \in Seq(Symbols) /\ c \in Seq(Symbols) => JoinedOn(p, and, u, more, c)
  <1> SUFFICES ASSUME p \in Seq(Symbols), u \in Seq(Symbols), c \in Seq(Symbols)
               PROVE  JoinedOn(p, and, u, more, c)
    OBVIOUS
  <1>1. ASSUME NEW a \in Spellings("and") PROVE And(a) \in Seq(Symbols)
    <2>1. Space \in Symbols /\ a \in Symbols
      BY LowerAnd, QuoteIsSymbol DEF Space
    <2> QED
      BY <2>1 DEF And
  <1>2. PICK a \in Seq(Symbols) : a = p \o And(and)
    BY <1>1, TextConcat
  <1>3. PICK b \in Seq(Symbols) : b = And(more)
    BY <1>1
  <1>4. JoinedBy(p, and, u) = a \o u
    BY <1>2 DEF JoinedBy
  <1>5. JoinedBy(JoinedBy(p, and, u), more, c) = ((a \o u) \o b) \o c
    BY <1>3, <1>4 DEF JoinedBy
  <1>6. JoinedBy(p, and, JoinedBy(u, more, c)) = a \o ((u \o b) \o c)
    BY <1>2, <1>3 DEF JoinedBy
  <1>7. ((a \o u) \o b) \o c = a \o ((u \o b) \o c)
    <2>1. (a \o u) \o b = a \o (u \o b)
      BY TextAssociative
    <2>2. u \o b \in Seq(Symbols)
      BY TextConcat
    <2>3. (a \o (u \o b)) \o c = a \o ((u \o b) \o c)
      BY <2>2, TextAssociative, SMTT(30)
    <2> QED
      BY <2>1, <2>3
  <1> QED
    BY <1>5, <1>6, <1>7 DEF JoinedOn

LEMMA BegunBegins ==
    ASSUME NEW t, NEW filters, Begins(t, filters), NEW c \in Seq(Symbols), NEW w \in Joined(t, c)
    PROVE  w \in Seq(Symbols) /\ Begins(w, filters)
  <1>1. PICK p \in Seq(Symbols), u \in Seq(Symbols), and \in Spellings("and") :
            Parsed(p, filters) /\ t = JoinedBy(p, and, u)
    BY DEF Begins
  <1>2. t \in Seq(Symbols) /\ Len(t) = Len(p) + 3 + Len(u)
    <2>1. p \in Seq(Symbols)
      OBVIOUS
    <2> QED
      BY <1>1, <2>1, JoinedParts
  <1>3. t # <<>>
    <2>1. Len(p) \in Nat /\ Len(u) \in Nat /\ Len(<<>>) = 0
      OBVIOUS
    <2> QED
      BY <1>2, <2>1
  <1>4. PICK more \in Spellings("and") : w = JoinedBy(t, more, c)
    BY <1>3, JoinedForms
  <1>5. w \in Seq(Symbols)
    BY <1>2, <1>4, JoinedParts
  <1>6. PICK v \in Seq(Symbols) : v = JoinedBy(u, more, c)
    BY <1>1, JoinedParts
  <1>7. w = JoinedBy(p, and, v)
    BY <1>1, <1>4, <1>6, JoinsOn DEF JoinedOn
  <1> QED
    BY <1>1, <1>5, <1>6, <1>7 DEF Begins

LEMMA BegunIsPrefix ==
    ASSUME NEW t, NEW filters \in Seq(Filter), Begins(t, filters)
    PROVE  IsPrefix(filters, ParseFilter(t))
  <1>1. PICK p \in Seq(Symbols), u \in Seq(Symbols), and \in Spellings("and") :
            Parsed(p, filters) /\ t = JoinedBy(p, and, u)
    BY DEF Begins
  <1>2. ParseFilter(t) = filters \o ParseFilter(u)
    BY <1>1, ParseJoined DEF Parsed
  <1>3. PICK more \in Seq(Filter) : more = ParseFilter(u)
    BY <1>1, ParseFilterType
  <1>4. PICK all \in Seq(Filter) : all = filters \o more /\ Len(all) = Len(filters) + Len(more)
    BY Concatenation, ZenonT(40)
  <1>5. Len(filters) <= Len(all)
    BY <1>4
  <1>6. SubSeq(all, 1, Len(filters)) = filters /\ SubSeq(filters, 1, Len(filters)) = filters
    <2>1. SubSeq(filters \o more, 1, Len(filters)) = filters
      BY AfterConcat
    <2> QED
      BY <1>4, <2>1
  <1> QED
    BY <1>2, <1>3, <1>4, <1>5, <1>6 DEF IsPrefix

LEMMA TextStarts == TextInit => TextSays
  <1> SUFFICES ASSUME TextInit PROVE TextSays
    OBVIOUS
  <1>1. text = <<>> /\ written = <<>> /\ clauses = 0 /\ broken = FALSE
    BY DEF TextInit
  <1>2. TextTypeOK
    <2>1. MaxClauses \in Nat
      BY ODataAssumption
    <2>2. <<>> \in Seq(Symbols) /\ <<>> \in Seq(Filters) /\ FALSE \in BOOLEAN
      OBVIOUS
    <2>3. 0 \in 0..MaxClauses
      BY <2>1
    <2> QED
      BY <1>1, <2>2, <2>3 DEF TextTypeOK
  <1>3. Parsed(text, written)
    BY <1>1, EmptyParsed
  <1> QED
    BY <1>1, <1>2, <1>3 DEF TextSays

LEMMA CountedClause ==
    ASSUME TextTypeOK, NEW c, WriteClause(c)
    PROVE  clauses' \in 0..MaxClauses /\ text' \in Joined(text, c)
  <1>1. MaxClauses \in Nat
    BY ODataAssumption
  <1> QED
    BY <1>1 DEF TextTypeOK, WriteClause

LEMMA WrittenFilters == \A w \in Seq(Filters) : w \in Seq(Filter)
  <1>1. Filters \subseteq Filter
    BY ODataAssumption
  <1> QED
    BY <1>1

LEMMA FilterIsWritten ==
    ASSUME TextSays, WriteFilter
    PROVE  TextSays'
  <1>0. PICK f \in Filters : \E c \in Parenthesised(Clauses(f)) :
            /\ WriteClause(c)
            /\ written' = IF broken THEN written ELSE Append(written, f)
            /\ UNCHANGED broken
    BY DEF WriteFilter
  <1>1. PICK c \in Parenthesised(Clauses(f)) :
            /\ WriteClause(c)
            /\ written' = IF broken THEN written ELSE Append(written, f)
            /\ broken' = broken
    BY <1>0
  <1>2. TextTypeOK
    BY DEF TextSays
  <1>3. c \in Seq(Symbols) /\ ParseFilter(c) = <<f>> /\ ~EndsOpen(c)
    BY ClauseIsRead
  <1>4. clauses' \in 0..MaxClauses /\ text' \in Joined(text, c)
    BY <1>1, <1>2, CountedClause
  <1>5. written \in Seq(Filters) /\ broken \in BOOLEAN
    BY <1>2 DEF TextTypeOK
  <1>6. ASSUME broken PROVE TextSays'
    <2>1. written' = written /\ broken'
      BY <1>1, <1>6
    <2>2. text \in Seq(Symbols)
      BY <1>2 DEF TextTypeOK
    <2>3. ASSUME written = <<>> PROVE text' \in Seq(Symbols)
      <3>1. ASSUME text = <<>> PROVE text' \in Seq(Symbols)
        BY <1>3, <1>4, <3>1, JoinedForms
      <3>2. ASSUME text # <<>> PROVE text' \in Seq(Symbols)
        <4>1. PICK and \in Spellings("and") : text' = JoinedBy(text, and, c)
          BY <1>4, <3>2, JoinedForms
        <4> QED
          BY <1>3, <2>2, <4>1, JoinedParts
      <3> QED
        BY <3>1, <3>2
    <2>4. ASSUME Begins(text, written) PROVE text' \in Seq(Symbols) /\ Begins(text', written)
      BY <1>3, <1>4, <2>4, BegunBegins
    <2>5. written = <<>> \/ Begins(text, written)
      BY <1>6 DEF TextSays
    <2>6. TextTypeOK'
      BY <1>1, <1>4, <1>5, <2>1, <2>3, <2>4, <2>5 DEF TextTypeOK
    <2>7. written' = <<>> \/ Begins(text', written')
      BY <2>1, <2>4, <2>5
    <2> QED
      BY <2>1, <2>6, <2>7 DEF TextSays
  <1>7. ASSUME ~broken PROVE TextSays'
    <2>1. written' = Append(written, f) /\ ~broken' /\ broken' \in BOOLEAN
      BY <1>1, <1>5, <1>7
    <2>2. Parsed(text, written)
      BY <1>7 DEF TextSays
    <2>3. written \in Seq(Filter) /\ f \in Filter
      BY <1>5, WrittenFilters, FilterParts
    <2>4. PICK said \in Seq(Filter) : said = <<f>>
      <3>1. <<f>> \in Seq(Filter)
        BY <2>3
      <3> QED
        BY <3>1
    <2>5. Parsed(c, said)
      BY <1>3, <2>4 DEF Parsed
    <2>6. Parsed(text', written \o said)
      BY <1>4, <2>2, <2>3, <2>5, JoinedParsed
    <2>7. written' = written \o said /\ written' \in Seq(Filters)
      <3>1. Append(written, f) = written \o <<f>>
        BY <1>5
      <3>2. Append(written, f) \in Seq(Filters)
        BY <1>5
      <3> QED
        BY <2>1, <2>4, <3>1, <3>2
    <2>8. text' \in Seq(Symbols)
      BY <2>6 DEF Parsed
    <2>9. TextTypeOK'
      BY <1>4, <2>1, <2>7, <2>8 DEF TextTypeOK
    <2>10. Parsed(text', written')
      BY <2>6, <2>7
    <2> QED
      BY <2>1, <2>9, <2>10 DEF TextSays, Parsed, EndsOpen, Ends
  <1> QED
    BY <1>6, <1>7

LEMMA ScribbleIsWritten ==
    ASSUME TextSays, Scribble
    PROVE  TextSays'
  <1>1. PICK c \in Scribbles :
            WriteClause(c) /\ broken' = (broken \/ ~Closed(c)) /\ written' = written
    BY DEF Scribble
  <1>2. TextTypeOK
    BY DEF TextSays
  <1>3. c \in Seq(Symbols) /\ (Closed(c) => ParseFilter(c) = <<>>)
    BY ODataAssumption, ClausesAssumption
  <1>4. clauses' \in 0..MaxClauses /\ text' \in Joined(text, c)
    BY <1>1, <1>2, CountedClause
  <1>5. written \in Seq(Filters) /\ broken \in BOOLEAN /\ text \in Seq(Symbols)
    BY <1>2 DEF TextTypeOK
  <1>6. broken' \in BOOLEAN
    BY <1>1
  <1>7. text' \in Seq(Symbols)
    <2>1. ASSUME text = <<>> PROVE text' \in Seq(Symbols)
      BY <1>3, <1>4, <2>1, JoinedForms
    <2>2. ASSUME text # <<>> PROVE text' \in Seq(Symbols)
      <3>1. PICK and \in Spellings("and") : text' = JoinedBy(text, and, c)
        BY <1>4, <2>2, JoinedForms
      <3> QED
        BY <1>3, <1>5, <3>1, JoinedParts
    <2> QED
      BY <2>1, <2>2
  <1>8. TextTypeOK'
    BY <1>1, <1>4, <1>5, <1>6, <1>7 DEF TextTypeOK
  <1>9. ASSUME ~broken' PROVE Parsed(text', written')
    <2>1. ~broken /\ Closed(c)
      BY <1>1, <1>9
    <2>2. Parsed(text, written)
      BY <2>1 DEF TextSays
    <2>3. PICK none \in Seq(Filter) : none = <<>>
      <3>1. <<>> \in Seq(Filter)
        OBVIOUS
      <3> QED
        BY <3>1
    <2>4. Parsed(c, none)
      BY <1>3, <2>1, <2>3, ClosedEnds DEF Parsed
    <2>5. written \in Seq(Filter)
      BY <1>5, WrittenFilters
    <2>6. Parsed(text', written \o none)
      BY <1>4, <2>2, <2>4, <2>5, JoinedParsed
    <2>7. written \o none = written
      BY <2>3, <2>5, Concatenation
    <2> QED
      BY <1>1, <2>6, <2>7
  <1>10. ASSUME broken' PROVE written' = <<>> \/ Begins(text', written')
    <2>1. ASSUME broken PROVE written = <<>> \/ Begins(text', written)
      <3>1. written = <<>> \/ Begins(text, written)
        BY <2>1 DEF TextSays
      <3> QED
        BY <1>3, <1>4, <3>1, BegunBegins
    <2>2. ASSUME ~broken PROVE written = <<>> \/ Begins(text', written)
      <3>1. Parsed(text, written)
        BY <2>2 DEF TextSays
      <3> QED
        BY <1>3, <1>4, <3>1, UnclosedBegins
    <2> QED
      BY <1>1, <2>1, <2>2
  <1> QED
    BY <1>8, <1>9, <1>10 DEF TextSays, Parsed, EndsOpen, Ends, Begins

LEMMA TextStutters ==
    ASSUME TextSays, UNCHANGED textVars
    PROVE  TextSays'
  BY DEF TextSays, TextTypeOK, textVars, Parsed, Begins

LEMMA TextSaysWhatIsRead ==
    ASSUME TextSays
    PROVE  FiltersAreRead /\ ParseFilter(text) \in Seq(Filter)
  <1>1. text \in Seq(Symbols) /\ written \in Seq(Filters) /\ broken \in BOOLEAN
    BY DEF TextSays, TextTypeOK
  <1>2. PICK read \in Seq(Filter) : read = ParseFilter(text)
    BY <1>1, ParseFilterType
  <1>3. ASSUME ~broken PROVE ParseFilter(text) = written
    BY <1>3 DEF TextSays, Parsed
  <1>4. ASSUME broken PROVE IsPrefix(written, ParseFilter(text))
    <2>1. ASSUME written = <<>> PROVE IsPrefix(written, read)
      <3>1. Len(<<>>) = 0 /\ Len(read) \in Nat
        OBVIOUS
      <3>2. SubSeq(<<>>, 1, 0) = <<>> /\ SubSeq(read, 1, 0) = <<>>
        OBVIOUS
      <3> QED
        BY <2>1, <3>1, <3>2 DEF IsPrefix
    <2>2. ASSUME Begins(text, written) PROVE IsPrefix(written, ParseFilter(text))
      BY <1>1, <2>2, WrittenFilters, BegunIsPrefix
    <2> QED
      BY <1>2, <1>4, <2>1, <2>2 DEF TextSays
  <1> QED
    BY <1>2, <1>3, <1>4 DEF FiltersAreRead
=============================================================================
