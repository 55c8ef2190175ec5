\* The control server of MCSengGenl.cfg, each answer against the request
\* spec.md 4.3 reads in the message.
CONSTANTS
    Ip = {1, 2}
    Hash = {h1, h2}
    Host = {7}
    Names <- MCShortNames
    MaxCatNameLength = 3
    EncSlot = {e1, e2}
    AppSlot = {a1, a2}
    MaxCats = 2
    MayFail = FALSE
    NULL = NULL
SPECIFICATION ProtoSpec
SYMMETRY MCSymmetry
PROPERTY RefinesControlProtocol
