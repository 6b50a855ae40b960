CONSTANTS
    Transfers = {t1, t2}
    Writers = {w1, w2}
    Readers = {r1, r2}
    NoCodec = NoCodec
    Parts <- Byte
    MaxDepth = 3
    NestedEncoded <- MCEncoded
    NestedSizeVT <- MCSizeVT
    NestedFill <- MCFill
    Messages <- MCMessages
    Alone <- MCAlone
    Crowd <- MCCrowd
SPECIFICATION Spec
SYMMETRY Symmetry
INVARIANTS
    Delivered
    PrefixRefused
    UnknownKept
    OneUser
    Intact
CHECK_DEADLOCK FALSE
