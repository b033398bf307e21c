CONSTANTS
    Responses <- Searches
    Answers <- Details
    Includes <- Groups
    MaxActs = 4

SPECIFICATION ResultsSpec
INVARIANT NothingLost
INVARIANT ShownOnce
 
