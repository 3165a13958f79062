\* One key, one proof; a circuit of three rows on domains of 6 and 8 points.
CONSTANTS
    P = 577
    Gen = 5
    MinBlockedLog = 2
    FrBits = 10
    ClassBits <- MCClassBits
    SmallBits = 8
    Batch = 2
    Tile = 3
    WindowHint = 2
    SpillBlock = 3
    Circuits <- MCCircuits
    Values <- MCValues
    Waste <- MCWaste
    Transcripts <- MCTranscripts
    Configs <- MCConfigs
    DomainKinds = {"Radix2", "Smooth"}
SPECIFICATION MCSpec
INVARIANTS OutcomeExact KeyCopiesAgree
PROPERTIES KernelsAgree
\* a proof that was returned is the end
CHECK_DEADLOCK FALSE
