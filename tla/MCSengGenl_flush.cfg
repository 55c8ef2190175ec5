\* Two enclave IPs with the same low byte share a bucket; then FLUSH.
CONSTANTS
    Ip = {1, 257}
    Hash = {h1, h2}
    Host = {7}
    Names <- MCShortNames
    MaxCatNameLength = 3
    EncSlot = {e1, e2}
    AppSlot = {a1, a2}
    MaxCats = 4
    MayFail = FALSE
    NULL = NULL
    Rule <- MCRules
    PacketAddr = {1, 2, 9}
SPECIFICATION Spec
SYMMETRY MCSymmetry
PROPERTY FlushLeavesStoreEmpty
