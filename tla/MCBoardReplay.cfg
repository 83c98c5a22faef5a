SPECIFICATION BoardSpec
CONSTANTS
    Screens = {s1, s2}
    Heats = {h1, h2}
    NoHeat = NoHeat
    MaxPubs = 3
    MaxJoins = 3
SYMMETRY Symmetry
INVARIANT
    LanesConverge
