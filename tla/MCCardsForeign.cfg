CONSTANTS
    Accounts = {a1, a2}
    Numbers = {n1}
    None = None
    MaxDepth = 8
    MaxCards = 2
    MaxWrites = 2
SPECIFICATION Spec
SYMMETRY Symmetry
VIEW Visible
INVARIANT OwnCardsOnly
