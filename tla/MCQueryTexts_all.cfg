\* Every command, with up to four more tokens.
SPECIFICATION TextSpec
CONSTANTS
    Beginnings <- SomeBeginnings
    Tokens <- SomeTokens
    MaxTokens = 4
    Indexes <- SomeIndexes
INVARIANTS OnlyShortDeletesPanic FiltersReadInOrder  PlanKeepsFilters BestIndexTakesMost
CHECK_DEADLOCK FALSE
