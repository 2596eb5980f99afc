SPECIFICATION MCSpec
CHECK_DEADLOCK FALSE
CONSTANTS
    Unset = Unset
    Args <- MCArgs
    Tried <- MCTried
    Values <- MCValues
    CandleSets <- MCCandleSets
    Instruments <- MCInstruments
    Frames <- MCFrames
    Searches = {1, 2}
    Asks <- MCAsks
INVARIANT StepsKeepTheirPromise
INVARIANT FiguresAgree
INVARIANT TheCheckIsRight
INVARIANT PagesAreRight
PROPERTY NoLookAhead
