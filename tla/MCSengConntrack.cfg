\* remove_enclave_ack and the conntrack purge racing a flow between two
\* enclaves of the same app; privilege changes and nfct_open do not fail.
CONSTANTS
    Ip = {1, 2}
    Hash = {h1}
    Host = {7}
    Names <- MCNames
    MaxCatNameLength = 3
    EncSlot = {e1, e2}
    AppSlot = {a1}
    MaxCats = 1
    MayFail = FALSE
    NULL = NULL
    Calls <- MCRemovalCalls
    Rule <- MCRule
    PacketAddr = {1, 2}
    PrivMayFail = FALSE
    NfctMayFail = FALSE
SPECIFICATION CtSpec
INVARIANT NoStaleFlowAfterRemoval
