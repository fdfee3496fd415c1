CONSTANTS
    Sections = {"Hero", "SignalStrip", "Features", "ProductStory", "EdgeMap", "FinalCTA", "Pricing", "Template"}
    Offsets = {1, 2}
    MaxMoves = 3
    MaxMounts = 2

SPECIFICATION Spec

INVARIANTS
    Revealed
    OnlyStepInViewShown
    
    NoEndlessTweenAfterUnmount

PROPERTIES
    RevealCompletes
