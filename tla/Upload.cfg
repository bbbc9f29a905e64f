\* Two workers; retries, overlapping pieces and DELETE.
SPECIFICATION Spec
CONSTANTS
    h1 = h1
    h2 = h2
    Handlers <- MCHandlers
    FullSize = 2
SYMMETRY MCSymmetry
INVARIANTS
    NoHoles
    ReplyBacked
PROPERTIES
    PieceStored
    ImplementsSharedFile
