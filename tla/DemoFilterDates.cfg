SPECIFICATION Spec
CONSTANTS
    Words <- MCWords
    Foreign = "="
    LowerCase <- MCLowerCase
    Filters <- MCDateFilters
    Collections <- MCCollections
    Alias = "id"
    Scribbles = {}
    MaxClauses = 1
    MaxParens = 2
    StringFields <- MCStringFields
    DateFields <- MCDateFields
    FieldNames <- MCFieldNames
    Footprints <- MCFootprints
    DateOf <- MCDateOf
    TadFields <- MCTadFields
    Tads <- MCTads
    Parameters = {}
    Missing = Missing
    NoAnswer = NoAnswer
CHECK_DEADLOCK FALSE
INVARIANTS OnlyMatchesAreListed
