CONSTANTS
    Letters <- MCLetters
    Symbols = {}
    Named = {}
    Extended <- MCExtended
    CapsLocks = {}
    Shifts <- MCShifts
    Ctrls <- MCCtrls
    Alts = {}
    ExtendedModifiers <- MCExtendedModifiers
    BufferSize = 3
    MaxWire = 2
SPECIFICATION Spec
INVARIANTS
    KeysInOrder
    NoStuckModifier
