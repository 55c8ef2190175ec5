\* seng_mt reads the records of a packet's enclaves and apps without a lock
\* or RCU read section while the control server frees them.
CONSTANTS
    Ip = {1, 2}
    Hash = {h1, h2}
    Host = {1}
    Names <- MCOneName
    MaxCatNameLength = 3
    EncSlot = {e1, e2}
    AppSlot = {a1, a2}
    MaxCats = 4
    MayFail = FALSE
    NULL = NULL
    Rule <- MCPacketRules
    PacketAddr = {1}
    ControlMsg <- MCControlMsg
SPECIFICATION PathSpec
SYMMETRY MCSlotSymmetry
CHECK_DEADLOCK FALSE
INVARIANT NoMemoryFault
