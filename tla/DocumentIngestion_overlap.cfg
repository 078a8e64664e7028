\* Two rebuilds overlap and the older one finishes last.
CONSTANTS
    Docs = {d1, d2}
    MaxRestarts = 0
SPECIFICATION Spec
INVARIANT
    IndexIsWhole
