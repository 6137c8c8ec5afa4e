CONSTANTS
    Item = {a, b}
    None = None
    Capacity = 4
    MaxItems = 6
SPECIFICATION Spec
INVARIANTS
    NoSlotRace
    PrefixAlwaysPops
PROPERTIES
    ImplementsChannel
