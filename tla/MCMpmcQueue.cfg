SPECIFICATION Spec
CONSTANTS
    Producers = {p1, p2}
    Consumers = {c1, c2}
    Items = {a, b}
    NoItem = NoItem
    Size = 2
    MaxTries = 2
    MaxPos = 3
SYMMETRY Symmetry
INVARIANTS IndInv ExclusiveCell RefusedRightly EmptyIsTruthful
PROPERTY ImplementsFifo
