\* Two users, an ordinary field and a governed one, two requests at a time.
CONSTANTS
    c1 = c1
    c2 = c2
    layers = layers
    ruleSets = ruleSets
    Clients = {c1, c2}
    Fields = {layers, ruleSets}
    Governed = {ruleSets}
    Edits = 2
    MaxStored = 4
    MaxUndo = 1
    MaxNet = 2
    None = None
SPECIFICATION Spec
SYMMETRY Symmetry
CONSTRAINT InOrderSoFar
INVARIANTS
    BaseIsItsRevision
PROPERTIES
    NothingOverwrittenInOrder
CHECK_DEADLOCK FALSE
