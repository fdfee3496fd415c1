SPECIFICATION Spec
CONSTANTS
    TypedNames = {"web"}
    TypedPorts = {"8080:80"}
    Draws = {255, 4530}
    MaxLaunches = 2
INVARIANTS
    UniqueInstanceIds
