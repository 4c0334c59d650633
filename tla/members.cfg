\* Three machines that register at the same time, with a restart, an expiry and a failing disk
\* at any moment, and one after the other; every trust graph of four nodes; declarations of
\* trust; lists that are read in pages. All calls end.
CONSTANTS
    c1 = c1
    c2 = c2
    c3 = c3
    k1 = k1
    k2 = k2
    Calls = {c1, c2, c3}
    Machine <- OwnMachines
    Fingerprint <- OwnFingerprint
    NoFingerprint = NoFingerprint
    Presented <- CodeEach
    Codes = {k1, k2}
    AdminKey = AdminKey
    Blank = Blank
    MaxUses = 1
    IDs = {1, 2, 3}
    Addresses = {2, 3}
    HasIPAM = TRUE
    AtOnce = 3
    Budget <- Faults
    Node = {a, b, c, d}
    From = a
    To = d
    MaxDepth = 2
    Edges <- TrustEdges
    Declarations <- Declared
    Revocations <- Revoked
    Edge <- EdgeOf
    Limited = {"d1", "d2"}
    Signature <- SignatureOf
    Keyed = {"n", "m"}
    Members = {"n", "m"}
    Faulty = {"d2", "r1"}
    Restarts = 2
    None = None
    Bare = Bare
    Items = {1, 2, 3, 4, 5}
    Sizes = {0, 4}
    DefaultSize = 2
    LargestSize = 3
    MaxChanges = 2
SPECIFICATION MembersSpec
INVARIANTS TypesOK OneNodePerMachine Sound Complete OnlyDeclared NothingMissed
PROPERTIES WordIsKept AdmittedInTurn KeepsAddressBook ExpiredEdgesGo
CHECK_DEADLOCK FALSE
