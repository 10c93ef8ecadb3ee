---------------------------- MODULE ODataFilter ----------------------------
(***************************************************************************)
(* ParseFilter (internal/odata/parse.go): the $filter of a request is cut  *)
(* at every "and" outside of strings and parentheses, and each clause is   *)
(* either read as one filter or ignored.                                   *)
(*                                                                         *)
(* A text is a sequence of symbols: punctuation, and words that stand for  *)
(* runs of letters, digits and underscores.  Two words in a row make one   *)
(* identifier, so "and" next to a word is no "and".                        *)
(*                                                                         *)
(* The model is of a client that writes a text clause by clause.  Some of  *)
(* its clauses say a filter, in one of the ways OData provides for; others *)
(* are scribbles, which the parser does not know or which are cut off in   *)
(* the middle of a string or a parenthesis.                                *)
(***************************************************************************)
EXTENDS Integers, SequencesExt

CONSTANTS
    Words,          \* the words
    Foreign,        \* a symbol that no token has
    LowerCase,      \* from words with capitals to the same in lower case
    Filters,        \* what the client may ask for
    Collections,    \* segments of field paths that it writes with any(...)
    Alias,          \* the word it uses there
    Scribbles,      \* its other clauses
    MaxParens,      \* bound on the parentheses around a clause
    MaxClauses      \* bound on the clauses of a text

Punctuation == {"/", ".", "(", ")", ":"}
Symbols == Words \cup Punctuation \cup {"'", " ", "-", Foreign}

Operators == {"eq", "ne", "lt", "le", "gt", "ge"}

(* A field path is a sequence of segments: strings.Join can be undone.       *)
Filter == [path : Seq(Seq(Symbols)), operator : Operators, value : Seq(Symbols)]

ASSUME ODataAssumption ==
    /\ Words \cap (Punctuation \cup {"'", " ", "-", Foreign}) = {}
    /\ Foreign \notin Punctuation \cup {"'", " ", "-"}
    /\ Operators \cup {"and", "any", Alias} \cup DOMAIN LowerCase \subseteq Words
    /\ DOMAIN LowerCase \cap (Operators \cup {"and", "any"}) = {}
    /\ \A w \in DOMAIN LowerCase : LowerCase[w] \in Words \ DOMAIN LowerCase
    /\ Filters \subseteq Filter
    /\ Scribbles \subseteq Seq(Symbols)
    /\ MaxParens \in Nat
    /\ MaxClauses \in Nat

VARIABLES
    text,       \* the text written so far
    written,    \* the filters that it says
    clauses,    \* the number of its clauses
    broken      \* one of them is not closed

textVars == <<text, written, clauses, broken>>

-----------------------------------------------------------------------------
(* strings.EqualFold and strings.ToLower. *)
Lower(w) == IF w \in DOMAIN LowerCase THEN LowerCase[w] ELSE w
FoldCase(s) == [i \in DOMAIN s |-> Lower(s[i])]
EqualFold(s, t) == FoldCase(s) = FoldCase(t)

(* matchesTopLevelAndAt: "and" is an identifier of its own.                  *)
Separators == {" ", "(", ")"}
AndAt(t, i) ==
    /\ Lower(t[i]) = "and"
    /\ i = 1 \/ t[i - 1] \in Separators
    /\ i = Len(t) \/ t[i + 1] \in Separators

(* Mutant: parentheses are closed that were never opened. *)
Unnest_Below(depth) == depth - 1

Unnest(depth) == IF depth > 0 THEN depth - 1 ELSE 0

(* What the loop of splitTopLevelAndClauses is in after t[i]: of two quotes   *)
(* in a string, the second is "escaped" by the first.                        *)
StringMode(t, i, mode) ==
    CASE mode = "escaped" -> "string"
      [] mode = "string" /\ t[i] = "'" -> IF i < Len(t) /\ t[i + 1] = "'" THEN "escaped" ELSE "outside"
      [] mode = "outside" /\ t[i] = "'" -> "string"
      [] OTHER -> mode

Depth(symbol, mode, depth) ==
    CASE mode = "outside" /\ symbol = "(" -> depth + 1
      [] mode = "outside" /\ symbol = ")" -> Unnest(depth)
      [] OTHER -> depth

(* One turn of that loop, at t[i]. *)
ScanSymbol(t, i, s) ==
    IF s.mode = "outside" /\ s.depth = 0 /\ AndAt(t, i)
    THEN [s EXCEPT !.cut = Append(@, s.clause), !.clause = <<>>]
    ELSE [s EXCEPT !.mode = StringMode(t, i, @), !.depth = Depth(t[i], s.mode, @),
                   !.clause = Append(@, t[i])]

Unscanned == [mode |-> "outside", depth |-> 0, clause |-> <<>>, cut |-> <<>>]

Scan(t) ==
    LET scan[i \in 0..Len(t)] == IF i = 0 THEN Unscanned ELSE ScanSymbol(t, i, scan[i - 1])
    IN  scan

splitTopLevelAndClauses(t) ==
    LET end == Scan(t)[Len(t)]
    IN  Append(end.cut, end.clause)

-----------------------------------------------------------------------------
(* What is left of a text, or of its tokens, after n of them. *)
After(s, n) == SubSeq(s, n + 1, Len(s))

(* What a function that finds nothing returns. *)
Unread == [read |-> "nothing"]

(* A symbol before the rest of a string literal. *)
WithSymbol(symbol, literal) ==
    IF literal = Unread THEN Unread ELSE [literal EXCEPT !.value = <<symbol>> \o @]

(* The string literal whose opening quote is before s. *)
readStringLiteral[s \in Seq(Symbols)] ==
    IF s = <<>> THEN Unread
    ELSE IF s[1] # "'" THEN WithSymbol(s[1], readStringLiteral[Tail(s)])
    ELSE IF Len(s) > 1 /\ s[2] = "'" THEN WithSymbol("'", readStringLiteral[After(s, 2)])
    ELSE [value |-> <<>>, rest |-> Tail(s)]

IdentPart == Words \cup {"-"}

(* How long the identifier is that s starts with. *)
IdentLength(s) == Min({n \in 1..Len(s) : n = Len(s) \/ s[n + 1] \notin IdentPart})

Token(kind, value) == [kind |-> kind, text |-> value]
Tokens == [kind : Punctuation \cup {"string", "ident", "invalid"}, text : Seq(Symbols)]
Invalid == <<Token("invalid", <<>>)>>

(* The tokens of a clause; an invalid one is the last, and the clause is not read. *)
lexClause[s \in Seq(Symbols)] ==
    IF s = <<>> THEN <<>>
    ELSE CASE s[1] = " " -> lexClause[Tail(s)]
           [] s[1] \in Punctuation -> <<Token(s[1], <<s[1]>>)>> \o lexClause[Tail(s)]
           [] s[1] = "'" ->
                LET literal == readStringLiteral[Tail(s)]
                IN  IF literal = Unread THEN Invalid
                    ELSE <<Token("string", literal.value)>> \o lexClause[literal.rest]
           [] s[1] \in Words ->
                LET n == IdentLength(s)
                IN  <<Token("ident", SubSeq(s, 1, n))>> \o lexClause[After(s, n)]
           [] OTHER -> Invalid

Kind(tokens, i) == IF i <= Len(tokens) THEN tokens[i].kind ELSE "eof"
IsKinds(tokens, kinds) == \A i \in DOMAIN kinds : Kind(tokens, i) = kinds[i]

matchKeyword(tokens, keyword) ==
    Kind(tokens, 1) = "ident" /\ FoldCase(tokens[1].text) = <<keyword>>

matchOperator(tokens) == \E op \in Operators : matchKeyword(tokens, op)

(* After the first segment of a path there is no other, or a keyword to stop before. *)
EndsPath(tokens, keywords) ==
    \/ Kind(tokens, 2) \notin {"/", "."}
    \/ Kind(tokens, 2) = "/" /\ \E keyword \in keywords : matchKeyword(After(tokens, 2), keyword)

WithSegment(segment, field) ==
    IF field = Unread THEN Unread ELSE [field EXCEPT !.path = <<segment>> \o @]

(* stopBeforeAny is a keyword to stop before. *)
parsePath(tokens, keywords) ==
    LET path[s \in Seq(Tokens)] ==
            IF Kind(s, 1) # "ident" THEN Unread
            ELSE IF EndsPath(s, keywords) THEN [path |-> <<s[1].text>>, rest |-> Tail(s)]
            ELSE WithSegment(s[1].text, path[After(s, 2)])
    IN  path[tokens]

(* Mutant: an operator is taken as it is spelled. *)
Compared_AsSpelled(tokens, path) ==
    IF matchOperator(tokens) /\ Kind(tokens, 2) = "string"
    THEN [filter |-> [path |-> path, operator |-> tokens[1].text[1], value |-> tokens[2].text],
          rest |-> After(tokens, 2)]
    ELSE Unread

(* "<operator> <string>", and the field that they are about. *)
Compared(tokens, path) ==
    IF matchOperator(tokens) /\ Kind(tokens, 2) = "string"
    THEN [filter |-> [path |-> path, operator |-> FoldCase(tokens[1].text)[1],
                      value |-> tokens[2].text],
          rest |-> After(tokens, 2)]
    ELSE Unread

parseSimple(tokens) ==
    LET field == parsePath(tokens, {})
    IN  IF field = Unread THEN Unread ELSE Compared(field.rest, field.path)

(* collection/any(alias:(alias/field operator 'value')) *)
parseAnyEq(tokens) ==
    LET collection == parsePath(tokens, {"any"})
        inner == parsePath(After(collection.rest, 6), {})
        comparison == Compared(inner.rest, collection.path \o Tail(inner.path))
    IN  IF /\ collection # Unread
           /\ IsKinds(collection.rest, <<"/", "ident", "(", "ident", ":", "(">>)
           /\ matchKeyword(After(collection.rest, 1), "any")
           /\ inner # Unread
           /\ EqualFold(inner.path[1], collection.rest[4].text)
           /\ comparison # Unread
           /\ IsKinds(comparison.rest, <<")", ")">>)
        THEN [comparison EXCEPT !.rest = After(@, 2)]
        ELSE Unread

Repeat(s, n) == [i \in 1..n |-> s]

(* The parentheses around the clause, and one of the two forms in them. *)
parseClause(t) ==
    LET tokens == lexClause[t]
        open == Min({n \in 0..Len(tokens) : Kind(tokens, n + 1) # "("})
        any == parseAnyEq(After(tokens, open))
        simple == parseSimple(After(tokens, open))
        Whole(read) == read # Unread /\ IsKinds(read.rest, Repeat(")", open) \o <<"eof">>)
    IN  IF Whole(any) THEN <<any.filter>> ELSE IF Whole(simple) THEN <<simple.filter>> ELSE <<>>

(* The filters of clauses; one that is not read adds none. *)
parseClauses[cut \in Seq(Seq(Symbols))] ==
    IF cut = <<>> THEN <<>>
    ELSE parseClause(cut[1]) \o parseClauses[Tail(cut)]

ParseFilter(t) == parseClauses[splitTopLevelAndClauses(t)]

-----------------------------------------------------------------------------
(* How a client writes a filter. *)
Spellings(w) == {w} \cup {u \in DOMAIN LowerCase : LowerCase[u] = w}

Escaped[value \in Seq(Symbols)] ==
    IF value = <<>> THEN <<>>
    ELSE (IF value[1] = "'" THEN <<"'", "'">> ELSE <<value[1]>>) \o Escaped[Tail(value)]

Quoted(value) == <<"'">> \o Escaped[value] \o <<"'">>

Slashed[path \in Seq(Seq(Symbols))] ==
    IF path = <<>> THEN <<>> ELSE <<"/">> \o path[1] \o Slashed[Tail(path)]

Comparisons(path, f) ==
    {path[1] \o Slashed[Tail(path)] \o <<" ", op, " ">> \o Quoted(f.value) :
        op \in Spellings(f.operator)}

Clauses(f) ==
    IF f.path[1] \in Collections
    THEN {f.path[1] \o <<"/", any, "(", Alias, ":", "(">> \o inner \o <<")", ")">> :
            any \in Spellings("any"), inner \in Comparisons(<<<<Alias>>>> \o Tail(f.path), f)}
    ELSE Comparisons(f.path, f)

Parenthesised(S) == {Repeat("(", n) \o c \o Repeat(")", n) : n \in 0..MaxParens, c \in S}

(* Strings and parentheses by what they mean: a position is in a string if   *)
(* an odd number of quotes is before it, and a text is closed if it ends     *)
(* outside of strings, and no end of it opens more than it closes.           *)
InString(t, i) == Cardinality({j \in 1..i - 1 : t[j] = "'"}) % 2 = 1
Parens(t, s, i) == Cardinality({j \in i..Len(t) : t[j] = s /\ ~InString(t, j)})
Closed(t) ==
    /\ ~InString(t, Len(t) + 1)
    /\ \A i \in 1..Len(t) : Parens(t, "(", i) <= Parens(t, ")", i)

IsIdentifier(s) == s \in Seq(IdentPart) /\ s # <<>> /\ s[1] \in Words

(* A filter can be written: its path is of identifiers, and no lone "and".   *)
(* Nothing is read of a scribble that is closed.                             *)
ASSUME ClausesAssumption ==
    /\ \A f \in Filters :
          /\ f.path # <<>>
          /\ \A i \in DOMAIN f.path : IsIdentifier(f.path[i])
          /\ Len(f.path) = 1 => ~EqualFold(f.path[1], <<"and">>)
    /\ \A c \in Scribbles : Closed(c) => ParseFilter(c) = <<>>

Joined(t, c) ==
    IF t = <<>> THEN {c} ELSE {t \o <<" ", and, " ">> \o c : and \in Spellings("and")}

TextInit ==
    /\ text = <<>>
    /\ written = <<>>
    /\ clauses = 0
    /\ broken = FALSE

WriteClause(c) ==
    /\ clauses < MaxClauses
    /\ clauses' = clauses + 1
    /\ text' \in Joined(text, c)

(* What is said after a clause that is not closed is not counted as said.    *)
WriteFilter ==
    \E f \in Filters : \E c \in Parenthesised(Clauses(f)) :
        /\ WriteClause(c)
        /\ written' = IF broken THEN written ELSE Append(written, f)
        /\ UNCHANGED broken

Scribble ==
    \E c \in Scribbles :
        /\ WriteClause(c)
        /\ broken' = (broken \/ ~Closed(c))
        /\ UNCHANGED written

WriteText == WriteFilter \/ Scribble

-----------------------------------------------------------------------------
(* parse.go:9-10 "Unsupported or invalid clauses are ignored": whatever else *)
(* a text has in it, exactly the filters it says are read, in order, with    *)
(* the values that were meant, quotes and "and"s included.  A clause that is *)
(* not closed costs no filter that was written before it.                    *)
FiltersAreRead ==
    IF broken THEN IsPrefix(written, ParseFilter(text)) ELSE ParseFilter(text) = written
=============================================================================
