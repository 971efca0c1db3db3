CONSTANTS
    Clients = {c1, c2, c3}
    Batches = {b1, b2}
    Roots = {r1, r2}
    NoAnchor = NoAnchor
    NoClient = NoClient
SYMMETRY Symmetry
SPECIFICATION Spec
INVARIANTS TypeOK AnswersAreTrue
PROPERTIES WriteOnce Implements
