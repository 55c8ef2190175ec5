\* insmod and rmmod around control messages, with the registration of the
\* genl family allowed to fail; two enclave IPs that share bucket 1.
CONSTANTS
    Ip = {1, 257}
    Hash = {h1}
    Host = {7}
    Names <- MCShortNames
    MaxCatNameLength = 3
    EncSlot = {e1, e2}
    AppSlot = {a1}
    MaxCats = 1
    MayFail = FALSE
    NULL = NULL
    GenlMayFail = TRUE
SPECIFICATION ModSpec
INVARIANT NothingOutlivesModule
