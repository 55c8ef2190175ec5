\* The *_ack wrappers over a channel that may fail locally, deliver, or
\* deliver and lose the ack; two IPs in different buckets, two hashes. No
\* symmetry: CallReturns is temporal.
CONSTANTS
    Ip = {1, 2}
    Hash = {h1, h2}
    Host = {7}
    Names <- MCShortNames
    MaxCatNameLength = 3
    EncSlot = {e1, e2}
    AppSlot = {a1, a2}
    MaxCats = 2
    MayFail = FALSE
    NULL = NULL
    Calls <- MCDemoCalls
SPECIFICATION ClientFairSpec
INVARIANTS
    AtMostOnceEffect
PROPERTY
    CallReturns
