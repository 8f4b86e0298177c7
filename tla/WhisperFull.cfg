SPECIFICATION Spec
CONSTANTS
    Beam = 2
    TextCtx = 10
    Slack = 2
    PromptInit = 1
    Prompts = {0, 6}
    Size = 13
    Chunk = 6
    Margin = 1
    NearEnd = 2
    FirstStamp = 0
    Stamps = {0, 2, 4}
    Audio = {0, 5, 8}
    DullLength = 1
INVARIANTS TypeOK OwnHistory SearchIsFirstFit CacheSuffices PositionsInContext RankedHasResult SplitKeepsText
PROPERTIES Ends
CHECK_DEADLOCK FALSE
