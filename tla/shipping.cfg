\* Two writers, on a job and on a record of the first: three writes, a broken stream, a cut and a
\* checkpoint. Two calls that change a job, and two clients that watch it, with a channel of one
\* event and IDs that may coincide. A log file of two entries, whose last one may be torn.
CONSTANTS
    Absent = Absent  k1 = k1  k2 = k2  w1 = w1  w2 = w2
    Keys = {k1, k2}
    Values = {"v"}
    JobKeys = {k2}
    Writers = {w1, w2}
    Owner <- MixedKeys
    Standbys = {"p"}
    Capacity = 2
    MaxFailures = 2
    Budget <- BrokenStreams
    Publishers = {"submit", "settle"}
    Watchers = {"c1", "c2"}
    Times = {1, 2}
    Verdicts = {"Completed"}
    Cap = 1
    KeyLens = {0, 7, 8, 14}
    DataLens = {0, 1, 30}
    MaxEntries = 2
SPECIFICATION ShippingSpec
INVARIANTS TypeOK NothingSkipped SyncedMeansEqual SyncedHasLog ReadsWholeEntries OnlyOpenChannels
PROPERTIES ShipsLog Hears NobodyWaits
CHECK_DEADLOCK FALSE
