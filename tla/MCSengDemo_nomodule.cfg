\* seng_app run while xt_seng is not loaded: resolving the family in
\* prep_nl_sock fails, and nothing else fails.  The process ends, so
\* deadlock is not checked.  Addresses are represented by their low byte,
\* as in MCSengDemo.cfg.
CONSTANTS
    Ip = {8, 44, 1}
    Ip8888 = 8
    Ip19216814 = 44
    Ip127001 = 1
    Hash = {app_hash_a, app_hash_b}
    Host = {8}
    AppHashA = app_hash_a
    AppHashB = app_hash_b
    CategoryA <- MCCategoryA
    CategoryB <- MCCategoryB
    Names <- MCNames
    MaxCatNameLength = 3
    EncSlot = {e1, e2, e3}
    AppSlot = {a1, a2}
    MaxCats = 3
    MayFail = FALSE
    NULL = NULL
    Calls <- MCCalls
    Argv <- MCArgv
    ModuleLoaded = FALSE
    PrepMayFail = FALSE
SPECIFICATION DemoSpec
CHECK_DEADLOCK FALSE
INVARIANT SocketUsedOnlyWhileOpen
