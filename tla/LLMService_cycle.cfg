\* Two calls on a longer registry with retries; an override may name an entry it lacks.
CONSTANTS
    Calls = {c1, c2}
    Total = 3
    Name <- MCThree
    Names <- MCThreeNames
    NoName = NoName
    Retries = 2
SPECIFICATION Spec
INVARIANTS
    InvokedIsNamed
    OneFullCycle
PROPERTIES
    DefaultMovesByDefault
    CallsEnd
