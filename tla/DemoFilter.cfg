SPECIFICATION Spec
CONSTANTS
    Words <- MCWords
    Foreign = "="
    LowerCase <- MCLowerCase
    Filters <- MCFilters
    Collections <- MCCollections
    Alias = "id"
    Scribbles <- MCScribbles
    MaxClauses = 2
    MaxParens = 2
    StringFields <- MCStringFields
    DateFields <- MCDateFields
    FieldNames <- MCFieldNames
    Footprints <- MCFootprints
    DateOf <- MCDateOf
    TadFields <- MCTadFields
    Tads <- MCTads
    Parameters <- MCParameters
    Missing = Missing
    NoAnswer = NoAnswer
CHECK_DEADLOCK FALSE
INVARIANTS TypeOK FiltersAreRead NothingAskedForIsMissing
