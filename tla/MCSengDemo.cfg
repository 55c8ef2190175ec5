\* seng_app with every option set, xt_seng loaded, socket setup that may
\* fail, and a channel that may fail locally or lose acks.  The process
\* ends (exits or is killed), so deadlock is not checked.  TLC's integers
\* are 32-bit signed: each u32 address is represented by its low byte,
\* which is its hash_func bucket (8.8.8.8, 192.168.1.44, 127.0.0.1).
CONSTANTS
    Ip = {8, 44, 1}
    Ip8888 = 8
    Ip19216814 = 44
    Ip127001 = 1
    Hash = {app_hash_a, app_hash_b}
    Host = {8}
    AppHashA = app_hash_a
    AppHashB = app_hash_b
    CategoryA <- MCCategoryA
    CategoryB <- MCCategoryB
    Names <- MCNames
    MaxCatNameLength = 3
    EncSlot = {e1, e2, e3}
    AppSlot = {a1, a2}
    MaxCats = 3
    MayFail = FALSE
    NULL = NULL
    Calls <- MCCalls
    Argv <- MCArgv
    ModuleLoaded = TRUE
    PrepMayFail = TRUE
SPECIFICATION DemoSpec
CHECK_DEADLOCK FALSE
INVARIANT TestOutcome
PROPERTY DemoEnds
