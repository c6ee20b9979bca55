CONSTANTS
    Accounts = {a1, a2}
    Numbers = {n1}
    None = None
    MaxDepth = 1000
    MaxCards = 2
    MaxWrites = 2
SPECIFICATION Spec
SYMMETRY Symmetry
VIEW Visible
INVARIANTS
    TypeOK
    TopListIsCurrent
PROPERTIES
    FormReturnsToItsList
    CardsKept
