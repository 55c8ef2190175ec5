\* The control server over the store: two enclave IPs in different buckets,
\* two hashes, one host IP, memory for every record the run can need; and
\* seng_mt on every store built, for packets between the two enclave IPs
\* and an unknown one (9).
CONSTANTS
    Ip = {1, 2}
    Hash = {h1, h2}
    Host = {7}
    Names <- MCShortNames
    MaxCatNameLength = 3
    EncSlot = {e1, e2}
    AppSlot = {a1, a2}
    MaxCats = 2
    MayFail = FALSE
    NULL = NULL
    Rule <- MCRules
    PacketAddr = {1, 2, 9}
SPECIFICATION Spec
SYMMETRY MCSymmetry
INVARIANTS
    TypeOK
    NoMemoryFault
    RefcountExact
    OneAppPerHash
    NoDanglingApp
    NoLeak
    CatsUnique
    MatchAgreesWithSpec
PROPERTIES
    FlushLeavesStoreEmpty
    FailedRequestLeavesStoreUnchanged
    RefinesIdentityStore
