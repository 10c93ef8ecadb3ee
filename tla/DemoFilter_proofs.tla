------------------------- MODULE DemoFilter_proofs -------------------------
(***************************************************************************)
(* That the demo handler loses no footprint a client asked for, for all    *)
(* fields, footprints and filters, and texts of any length: the parser     *)
(* reads what is written (ODataFilter_proofs), and what the handler lists  *)
(* for it has all that satisfies it.                                       *)
(***************************************************************************)
EXTENDS DemoFilter, ODataFilter_proofs

(* handler.go:208-302: what satisfies a supported filter is matched by it.   *)
LEMMA SatisfiedIsMatched ==
    ASSUME NEW fp \in Footprints, NEW f \in Filters,
           IsSupported(f), f.path \in FieldNames, Satisfies(fp, f)
    PROVE  footprintMatchesSingleFilter(fp, f)
  <1> DEFINE path == LowerPath(f)
             values == fp.strings[path]
  <1>1. CASE path \in StringFields
    <2>1. path \notin DateFields
      BY <1>1, DemoAssumption
    <2>2. f.operator \in {"eq", "ne"}
      BY <2>1 DEF IsSupported
    <2>3. PICK v \in values : EqualFold(v, f.value) = (f.operator = "eq")
      BY <2>1 DEF Satisfies
    <2>4. CASE f.operator = "eq"
      BY <1>1, <2>3, <2>4 DEF footprintMatchesSingleFilter, containsFold
    <2>5. CASE f.operator = "ne"
      <3>1. \A u \in values : ~EqualFold(u, f.value)
        BY <2>1, <2>5 DEF Satisfies
      <3> QED BY <1>1, <2>5, <3>1 DEF footprintMatchesSingleFilter, containsFold
    <2> QED BY <2>2, <2>4, <2>5
  <1>2. CASE path \notin StringFields
    <2>1. path \in DateFields /\ f.value \in DOMAIN DateOf
      BY <1>2 DEF IsSupported
    <2>2. CASE fp.date[path] = Missing
      <3>1. f.operator = "ne"
        BY <1>2, <2>1, <2>2 DEF Satisfies
      <3>2. DateOf[f.value] # Epoch
        BY <2>1, DemoAssumption DEF Date, Epoch
      <3>3. Compare(f.operator, Epoch, DateOf[f.value])
        BY <3>1, <3>2 DEF Compare
      <3> QED BY <1>2, <2>2, <3>3
              DEF footprintMatchesSingleFilter, matchesTimestampFilter, AsTime
    <2>3. CASE fp.date[path] # Missing
      <3>1. Compare(f.operator, fp.date[path], DateOf[f.value])
        BY <1>2, <2>1, <2>3 DEF Satisfies
      <3> QED BY <1>2, <2>3, <3>1
              DEF footprintMatchesSingleFilter, matchesTimestampFilter, AsTime
    <2> QED BY <2>2, <2>3
  <1> QED BY <1>1, <1>2

(* The answer is what the handler lists for the text as it is; of the text,  *)
(* all that it says is read (TextSays).                                      *)
AnswersTheText ==
    /\ TextSays
    /\ answer # NoAnswer => answer = Listed(ParseFilter(text))
    /\ query \subseteq Parameters
    /\ tads # NoAnswer => tads = ListedTADs(queryToTADFilters(query))

LEMMA AnswersTheTextHolds == Spec => []AnswersTheText
  <1>1. Init => AnswersTheText
    BY TextStarts DEF Init, AnswersTheText
  <1>2. AnswersTheText /\ [Next]_vars => AnswersTheText'
    <2> SUFFICES ASSUME AnswersTheText, [Next]_vars PROVE AnswersTheText'
      OBVIOUS
    <2>0. TextSays
      BY DEF AnswersTheText
    <2>1. CASE ListFootprints
      <3>1. TextSays' /\ text' = text
        BY <2>0, <2>1, TextStutters DEF ListFootprints, textVars
      <3> QED BY <2>1, <3>1 DEF ListFootprints, Asking, AnswersTheText, tadVars
    <2>2. CASE WriteMore
      <3>1. answer' = NoAnswer /\ tads' = NoAnswer /\ query' = query
        BY <2>2 DEF WriteMore, Asking, tadVars
      <3>2. TextSays'
        BY <2>0, <2>2, FilterIsWritten, ScribbleIsWritten DEF WriteMore, WriteText
      <3> QED BY <3>1, <3>2 DEF AnswersTheText
    <2>3. CASE ListTransportActivityData
      <3>1. TextSays' /\ answer' = NoAnswer /\ query' \subseteq Parameters
        BY <2>0, <2>3, TextStutters DEF ListTransportActivityData, Asking
      <3> QED BY <2>3, <3>1 DEF ListTransportActivityData, AnswersTheText
    <2>4. CASE UNCHANGED vars
      <3>1. TextSays' /\ text' = text
        BY <2>0, <2>4, TextStutters DEF vars, textVars
      <3> QED BY <2>4, <3>1 DEF vars, tadVars, AnswersTheText
    <2> QED BY <2>1, <2>2, <2>3, <2>4 DEF Next
  <1> QED BY <1>1, <1>2, PTL DEF Spec

(* TypeOK: what is read of a text is a sequence of filters (ParseFilter).    *)
THEOREM FilterTypeCorrect == Spec => []TypeOK
  <1>1. AnswersTheText => TypeOK
    <2> SUFFICES ASSUME AnswersTheText PROVE TypeOK
      OBVIOUS
    <2>1. TextTypeOK /\ ParseFilter(text) \in Seq(Filter)
      BY TextSaysWhatIsRead DEF AnswersTheText, TextSays
    <2>2. answer = NoAnswer \/ answer \subseteq Footprints
      BY DEF AnswersTheText, Listed
    <2>3. tads = NoAnswer \/ tads \subseteq Tads
      BY DEF AnswersTheText, ListedTADs
    <2>4. query \subseteq Parameters
      BY DEF AnswersTheText
    <2> QED BY <2>1, <2>2, <2>3, <2>4 DEF TypeOK, TextTypeOK
  <1> QED BY <1>1, AnswersTheTextHolds, PTL

(* FiltersAreRead, parse.go:9-10: whatever else a text has in it, exactly    *)
(* the filters it says are read, for every set of filters, fields, values    *)
(* and scribbles, and for texts of any length.                               *)
THEOREM FiltersAreReadHolds == Spec => []FiltersAreRead
  <1>1. AnswersTheText => FiltersAreRead
    BY TextSaysWhatIsRead DEF AnswersTheText
  <1> QED BY <1>1, AnswersTheTextHolds, PTL

(* handler.go:126-144: parameters joined by "or", in whatever order they are *)
(* read, never take from the list what has them all, if one that the demo    *)
(* goes by, if any, names a field.                                           *)
LEMMA TadsHaveTheConjunction ==
    ASSUME NEW tad \in Tads, NEW q, \A p \in q : Has(tad, p),
           OneIsNamed({f \in queryToTADFilters(q) : LowerPath(f) \in TadFields})
    PROVE  tadMatchesFilter(tad, queryToTADFilters(q))
  <1> DEFINE supported == {f \in queryToTADFilters(q) : LowerPath(f) \in TadFields}
  <1>1. CASE supported = {}
    BY <1>1 DEF tadMatchesFilter
  <1>2. CASE supported # {}
    <2>1. PICK f \in supported : f.path \in FieldNames
      BY <1>2 DEF OneIsNamed
    <2>2. PICK p \in q : f = [path |-> p.path, operator |-> "eq", value |-> p.value]
      BY DEF queryToTADFilters
    <2>3. LowerPath(f) = LowerPath(p) /\ p.path \in FieldNames
      BY <2>1, <2>2 DEF LowerPath
    <2>4. PICK v \in tad[LowerPath(p)] : EqualFold(v, p.value)
      BY <2>3 DEF Has
    <2>5. f.operator = "eq" /\ f.value = p.value
      BY <2>2
    <2>6. containsFold(tad[LowerPath(f)], f)
      BY <2>3, <2>4, <2>5 DEF containsFold
    <2> QED BY <2>6 DEF tadMatchesFilter
  <1> QED BY <1>1, <1>2

(* handler.go:186-204: filters joined by "or", and ignored when they are not *)
(* supported, never take a footprint from the list that satisfies them all,  *)
(* if one that the demo goes by, if any, names a field.                      *)
LEMMA FootprintsHaveTheConjunction ==
    ASSUME NEW fp \in Footprints, NEW filters \in Seq(Filters),
           \A i \in DOMAIN filters : Satisfies(fp, filters[i]),
           OneIsNamed({filters[i] : i \in {i \in DOMAIN filters : IsSupported(filters[i])}})
    PROVE  footprintMatchesFilters(fp, filters)
  <1> DEFINE supported == {i \in DOMAIN filters : IsSupported(filters[i])}
  <1>1. CASE supported = {}
    BY <1>1 DEF footprintMatchesFilters
  <1>2. CASE supported # {}
    <2>1. {filters[i] : i \in supported} # {}
      BY <1>2
    <2>2. PICK f \in {filters[i] : i \in supported} : f.path \in FieldNames
      BY <2>1 DEF OneIsNamed
    <2>3. PICK i \in supported : filters[i].path \in FieldNames
      BY <2>2
    <2>4. filters[i] \in Filters /\ IsSupported(filters[i])
      OBVIOUS
    <2>5. footprintMatchesSingleFilter(fp, filters[i])
      BY <2>3, <2>4, SatisfiedIsMatched
    <2> QED BY <2>5 DEF footprintMatchesFilters
  <1> QED BY <1>1, <1>2

LEMMA UnionHasTheConjunction ==
    ASSUME AnswersTheText
    PROVE  NothingAskedForIsMissing
  <1>1. ASSUME OneIsNamed({f \in queryToTADFilters(query) : LowerPath(f) \in TadFields}),
               tads # NoAnswer, NEW tad \in Tads, \A p \in query : Has(tad, p)
        PROVE  tad \in tads
    BY <1>1, TadsHaveTheConjunction DEF AnswersTheText, ListedTADs
  <1>2. ASSUME OneIsNamed({written[i] : i \in {i \in DOMAIN written : IsSupported(written[i])}}),
               Answered, NEW fp \in Footprints,
               \A i \in DOMAIN written : Satisfies(fp, written[i])
        PROVE  fp \in answer
    <2>1. ParseFilter(text) = written
      BY <1>2, TextSaysWhatIsRead DEF Answered, AnswersTheText, FiltersAreRead
    <2>2. written \in Seq(Filters)
      BY DEF AnswersTheText, TextSays, TextTypeOK
    <2>3. footprintMatchesFilters(fp, written)
      BY <1>2, <2>2, FootprintsHaveTheConjunction
    <2> QED BY <1>2, <2>1, <2>3 DEF AnswersTheText, Answered, Listed
  <1> QED BY <1>1, <1>2 DEF NothingAskedForIsMissing, NoFootprintIsMissing, NoTadIsMissing

(* handler.go:53-80, 126-144, 186-236: no footprint that satisfies all the   *)
(* filters of a client is missing from the list, and no transport activity   *)
(* data that has all its parameters, for any fields, footprints, dates,      *)
(* filters and texts, unless the demo goes by names alone that are fields'   *)
(* in another case only.                                                     *)
THEOREM NothingAskedForIsMissingHolds == Spec => []NothingAskedForIsMissing
  BY AnswersTheTextHolds, UnionHasTheConjunction, PTL
=============================================================================
