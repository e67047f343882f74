SPECIFICATION Spec
CONSTANTS
    Nodes = {n1, n2, n3, n4}
    Heads = {h1, h2, h3}
    Null = Null
SYMMETRY Symmetry
INVARIANTS
    Chain
    ErasedInert
