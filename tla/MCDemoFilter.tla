--------------------------- MODULE MCDemoFilter ----------------------------
(* Values for DemoFilter: fields and footprints as those of the demo.        *)
EXTENDS DemoFilter

MCWords ==
    {"and", "AND", "any", "Any", "eq", "EQ", "ne", "lt", "le", "gt", "ge", "weird",
     "productCategoryCpc", "productcategorycpc", "companyIds", "companyids", "pcf",
     "geographyCountry", "geographycountry", "created", "updated", "tces", "city",
     "mode", "Mode", "feedstock", "energyCarriers", "energycarriers", "feedstocks",
     "limit", "id", "v", "V", "d1", "d2"}

MCLowerCase ==
    "AND" :> "and" @@ "Any" :> "any" @@ "EQ" :> "eq" @@ "V" :> "v"
    @@ "productCategoryCpc" :> "productcategorycpc" @@ "companyIds" :> "companyids"
    @@ "Mode" :> "mode" @@ "energyCarriers" :> "energycarriers"
    @@ "geographyCountry" :> "geographycountry"

Category == <<<<"productCategoryCpc">>>>
Country == <<<<"pcf">>, <<"geographyCountry">>>>
Companies == <<<<"companyIds">>>>
City == <<<<"tces">>, <<"city">>>>
Created == <<<<"created">>>>
Updated == <<<<"updated">>>>

(* The mode of transport activity data, and the feedstocks under both of     *)
(* their names.                                                              *)
Mode == <<<<"mode">>>>
Feedstock == <<<<"feedstock">>>>
Feedstocks == <<<<"energyCarriers">>, <<"feedstocks">>, <<"feedstock">>>>

(* Names that differ from those of fields in upper and lower case.           *)
OtherCategory == <<<<"productcategorycpc">>>>
OtherMode == <<<<"Mode">>>>

MCCollections == {<<"companyIds">>, <<"tces">>}
MCStringFields == {LowerPath([path |-> p]) : p \in {Category, Country, Companies}}
MCDateFields == {Created, Updated}

(* Of a footprint, and of transport activity data. *)
MCFieldNames ==
    {Category, Country, Companies, City, Created, Updated, Mode, Feedstock, Feedstocks}

(* A value may look like text of the filter language. *)
MCValues == {<<"V">>, <<"v", " ", "and", " ", "v">>, <<"'">>, <<"(">>}
MCDateOf == <<"d1">> :> 1 @@ <<"d2">> :> 2

FiltersOn(paths, operators, values) ==
    [path : paths, operator : operators, value : values]

MCFilters ==
    FiltersOn({Category}, {"eq", "ne"}, MCValues)
    \cup FiltersOn({Category}, {"lt"}, {<<"V">>})
    \cup FiltersOn({Country}, {"ne"}, {<<"v">>})
    \cup FiltersOn({Companies}, {"eq", "ne"}, {<<"v">>})
    \cup FiltersOn({City, OtherCategory}, {"eq"}, {<<"v">>})
    \cup FiltersOn({Created}, Operators, {<<"d1">>})
    \cup FiltersOn({Updated}, {"lt", "ne"}, {<<"d2">>})
    \cup FiltersOn({Created}, {"eq"}, {<<"v">>})

MCDateFilters == FiltersOn({Created, Updated}, Operators, {<<"d1">>, <<"d2">>})

(* All texts of up to two symbols, and clauses that OData has and this       *)
(* parser has not.                                                           *)
MCScribbles ==
    BoundedSeq({"v", "and", "(", ")", "'", "/"}, 2)
    \cup {<<"v", " ", "weird", " ", "'", "v", "'">>,
          <<"v", " ", "eq", " ", "=">>,
          <<"v", "-", "v", " ", "eq", " ", "d1">>,
          <<"v", "(", "created", " ", "and", " ", "v", ")">>,
          <<"(", "created", " ", "eq", " ", "'", "d1", "'">>,
          <<"created", " ", "eq", " ", "'", "d1">>,
          <<"tces", "/", "any", "(", "id", ":", "(", "v", " ", "eq", " ", "'", "v", "'", ")", ")">>,
          <<"tces", "/", "any", " ", "eq", " ", "(", "'", "v", "'", ")">>}

Footprint(category, country, companies, created, updated) ==
    [strings |-> [p \in MCStringFields |->
                    CASE p = LowerPath([path |-> Category]) -> {category}
                      [] p = LowerPath([path |-> Country]) -> {country}
                      [] OTHER -> companies],
     date |-> [p \in MCDateFields |-> IF p = Created THEN created ELSE updated]]

MCFootprints ==
    {Footprint(<<"v">>, <<"v">>, {<<"v">>, <<"'">>}, 1, Missing),
     Footprint(<<"'">>, <<>>, {<<"V">>}, 2, 2),
     Footprint(<<"v", " ", "and", " ", "v">>, <<"city">>, {<<"d1">>}, 2, Missing)}

MCTadFields == {LowerPath([path |-> p]) : p \in {Mode, Feedstock, Feedstocks}}

Tad(mode, feedstocks) ==
    [p \in MCTadFields |-> IF p = LowerPath([path |-> Mode]) THEN {mode} ELSE feedstocks]

MCTads == {Tad(<<"v">>, {}), Tad(<<"v">>, {<<"V">>, <<"d1">>}), Tad(<<>>, {<<"d1">>})}

MCParameters ==
    [path : {Mode}, value : {<<"V">>, <<"d2">>, <<" ">>}]
    \cup [path : {OtherMode}, value : {<<"d2">>}]
    \cup [path : {Feedstock, Feedstocks}, value : {<<"v">>, <<"d1">>}]
    \cup [path : {<<<<"limit">>>>, City}, value : {<<"v">>}]
=============================================================================
