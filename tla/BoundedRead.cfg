CONSTANTS
    Thread = {t1, t2}
    GridSize = 2
    MaxEnvelopes = 5
    Reader = "OsmApiReader"
SPECIFICATION FairSpec
INVARIANT EnvelopesAdd
INVARIANT SomeoneStays
INVARIANT MissesOnlySplits
PROPERTY Terminates
