CONSTANTS
    Sections = {"Pricing"}
    Offsets = {1, 2}
    MaxMoves = 3
    MaxMounts = 1

SPECIFICATION Spec

INVARIANTS
    AnnualDiscountMatchesLabel
