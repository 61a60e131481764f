CONSTANTS
    MaxId = 4  Top = 2
    Whole = 3  Slice = 2
    MaxTrouble = 0
SPECIFICATION StopSpec
CHECK_DEADLOCK FALSE
PROPERTIES EveryReplacementEnds
