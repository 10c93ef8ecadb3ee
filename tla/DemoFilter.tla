---------------------------- MODULE DemoFilter -----------------------------
(***************************************************************************)
(* A client asks the demo server for footprints with a $filter: the text   *)
(* it wrote is read by ParseFilter and the demo handler evaluates what was *)
(* read (ileapdemo/handler.go).  Filters are joined by "or" there, whereas *)
(* the client joined them by "and", and what is not supported is ignored.  *)
(*                                                                         *)
(* A footprint has, for each field that can be filtered by, the strings    *)
(* that are compared (one, or those of a list; an absent string is empty), *)
(* or a date.  All footprints of the demo have a PCF.                      *)
(*                                                                         *)
(* Or it asks for transport activity data: each parameter of that request  *)
(* is a filter of its own.                                                 *)
(***************************************************************************)
EXTENDS ODataFilter

CONSTANTS
    StringFields,   \* paths of productCategoryCpc, pcf.geographyCountry, companyIds
    DateFields,     \* paths of created and updated
    FieldNames,     \* paths of fields as the messages spell them
    Footprints,     \* the footprints of the demo
    DateOf,         \* the values that are dates, as numbers
    TadFields,      \* paths of activityId, mode, packagingOrTrEqType and feedstock
    Tads,           \* the transport activity data of the demo
    Parameters,     \* the parameters a client may give, of a path and a value
    Missing,        \* the date of a footprint that has none
    NoAnswer        \* no answer yet

Strings == Seq(Symbols)

(* Dates are counted from 1970; a filter on that very moment is left out.    *)
Date == Nat \ {0}

ASSUME DemoAssumption ==
    /\ \A fp \in Footprints :
          /\ DOMAIN fp.strings = StringFields
          /\ \A path \in StringFields : fp.strings[path] \subseteq Strings
          /\ fp.date \in [DateFields -> Date \cup {Missing}]
    /\ \A value \in DOMAIN DateOf : DateOf[value] \in Date
    /\ StringFields \cap DateFields = {}
    /\ Missing \notin Nat
    /\ \A tad \in Tads :
          /\ DOMAIN tad = TadFields
          /\ \A path \in TadFields : tad[path] \subseteq Strings
    /\ Parameters \subseteq [path : Seq(Strings), value : Strings]
    /\ \A S \in SUBSET Footprints \cup SUBSET Tads : NoAnswer # S

VARIABLES
    answer,     \* the footprints listed
    query,      \* the parameters given
    tads        \* the transport activity data listed

tadVars == <<query, tads>>
vars == <<textVars, answer, tadVars>>

-----------------------------------------------------------------------------
(* The zero of time.Unix, which AsTime makes of a missing timestamp.         *)
Epoch == 0
AsTime(date) == IF date = Missing THEN Epoch ELSE date

Compare(op, x, y) ==
    \/ op = "eq" /\ x = y
    \/ op = "ne" /\ x # y
    \/ op \in {"lt", "le"} /\ x < y
    \/ op \in {"gt", "ge"} /\ x > y
    \/ op \in {"le", "ge"} /\ x = y

(* The field and the operator that a filter names are ones the demo knows.   *)
LowerPath(f) == [i \in DOMAIN f.path |-> FoldCase(f.path[i])]
IsSupported(f) ==
    \/ LowerPath(f) \in StringFields /\ f.operator \in {"eq", "ne"}
    \/ LowerPath(f) \in DateFields /\ f.value \in DOMAIN DateOf

(* matchesStringFilter and containsFold. *)
containsFold(values, f) ==
    LET contains == \E v \in values : EqualFold(v, f.value)
    IN  IF f.operator = "ne" THEN ~contains ELSE contains

matchesTimestampFilter(date, f) ==
    Compare(f.operator, AsTime(date), DateOf[f.value])

footprintMatchesSingleFilter(fp, f) ==
    IF LowerPath(f) \in StringFields
    THEN containsFold(fp.strings[LowerPath(f)], f)
    ELSE matchesTimestampFilter(fp.date[LowerPath(f)], f)

(* Mutant: where no filter is supported, none matches. *)
footprintMatchesFilters_NoneSupported(fp, filters) ==
    \E i \in DOMAIN filters :
        IsSupported(filters[i]) /\ footprintMatchesSingleFilter(fp, filters[i])

footprintMatchesFilters(fp, filters) ==
    LET supported == {i \in DOMAIN filters : IsSupported(filters[i])}
    IN  \/ \E i \in supported : footprintMatchesSingleFilter(fp, filters[i])
        \/ supported = {}

(* queryToTADFilters: in any order, as Go walks through a map. *)
Skipped == {<<<<"limit">>>>, <<<<"offset">>>>}
IsBlank(value) == \A i \in DOMAIN value : value[i] = " "
queryToTADFilters(q) ==
    {[path |-> p.path, operator |-> "eq", value |-> p.value] :
        p \in {p \in q : p.path \notin Skipped /\ ~IsBlank(p.value)}}

tadMatchesFilter(tad, filters) ==
    LET supported == {f \in filters : LowerPath(f) \in TadFields}
    IN  \/ \E f \in supported : containsFold(tad[LowerPath(f)], f)
        \/ supported = {}

-----------------------------------------------------------------------------
Listed(filters) == {fp \in Footprints : footprintMatchesFilters(fp, filters)}

ListedTADs(filters) == {tad \in Tads : tadMatchesFilter(tad, filters)}

Init == TextInit /\ answer = NoAnswer /\ query = {} /\ tads = NoAnswer

Asking == answer = NoAnswer /\ tads = NoAnswer

ListFootprints ==
    /\ Asking
    /\ answer' = Listed(ParseFilter(text))
    /\ UNCHANGED <<textVars, tadVars>>

WriteMore == Asking /\ WriteText /\ UNCHANGED <<answer, tadVars>>

ListTransportActivityData ==
    /\ Asking /\ text = <<>>
    /\ query' \in SUBSET Parameters
    /\ tads' = ListedTADs(queryToTADFilters(query'))
    /\ UNCHANGED <<textVars, answer>>

Next == WriteMore \/ ListFootprints \/ ListTransportActivityData

Spec == Init /\ [][Next]_vars

-----------------------------------------------------------------------------
(* Every variable has its type, and so has what ParseFilter returns.         *)
TypeOK ==
    /\ text \in Seq(Symbols)
    /\ written \in Seq(Filters)
    /\ clauses \in 0..MaxClauses
    /\ broken \in BOOLEAN
    /\ answer = NoAnswer \/ answer \subseteq Footprints
    /\ query \subseteq Parameters
    /\ tads = NoAnswer \/ tads \subseteq Tads
    /\ ParseFilter(text) \in Seq(Filter)

(* What is asked for.  A filter on a name that is no field's, or that the    *)
(* demo does not support, leaves open which footprints.  Nothing is before,  *)
(* at or after a date that is missing (OData).  That a list is not equal to  *)
(* a value may mean that some of it is not or that all of it is not: what    *)
(* satisfies it does so either way.                                          *)
Satisfies(fp, f) ==
    LET path == LowerPath(f)
    IN  \/ f.path \notin FieldNames \/ ~IsSupported(f)
        \/ /\ path \in DateFields
           /\ IF fp.date[path] = Missing
              THEN f.operator = "ne"
              ELSE Compare(f.operator, fp.date[path], DateOf[f.value])
        \/ /\ path \in StringFields
           /\ \E v \in fp.strings[path] : EqualFold(v, f.value) = (f.operator = "eq")
           /\ f.operator = "ne" => \A v \in fp.strings[path] : ~EqualFold(v, f.value)

Answered == answer # NoAnswer /\ ~broken

Has(tad, p) ==
    p.path \in FieldNames /\ LowerPath(p) \in TadFields =>
        \E v \in tad[LowerPath(p)] : EqualFold(v, p.value)

NoFootprintIsMissing ==
    Answered =>
        \A fp \in Footprints :
            (\A i \in DOMAIN written : Satisfies(fp, written[i])) => fp \in answer

NoTadIsMissing ==
    tads # NoAnswer => \A tad \in Tads : (\A p \in query : Has(tad, p)) => tad \in tads

(* Of the filters that the demo goes by, if any, one names a field.          *)
OneIsNamed(supported) == supported # {} => \E f \in supported : f.path \in FieldNames

(* handler.go:130-131, :192-193 and ileap_service.proto:153-158: a filter    *)
(* may be ignored or joined to the others by "or", but that only ever adds   *)
(* to the list: a client that filters what it gets once more misses nothing  *)
(* that satisfies all it has asked for.  Except where the demo goes by       *)
(* nothing but names in another case than the fields', which it folds        *)
(* (:147, :212) although names are case-sensitive (proto:149-150, :249-250): *)
(* there it does leave out what the client did not ask it to.                *)
NothingAskedForIsMissing ==
    /\ OneIsNamed({written[i] : i \in {i \in DOMAIN written : IsSupported(written[i])}})
          => NoFootprintIsMissing
    /\ OneIsNamed({f \in queryToTADFilters(query) : LowerPath(f) \in TadFields})
          => NoTadIsMissing

(* ileap_service.proto:195-198: where the demo supports all that is asked    *)
(* for, every footprint listed satisfies one of the filters.                 *)
OnlyMatchesAreListed ==
    /\ Answered
    /\ written # <<>>
    /\ \A i \in DOMAIN written : IsSupported(written[i])
    => \A fp \in answer : \E i \in DOMAIN written : Satisfies(fp, written[i])
=============================================================================
