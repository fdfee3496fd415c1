SPECIFICATION Spec
CONSTANTS
    TypedNames = {"web", "db"}
    TypedPorts = {"8080:80"}
    Draws = {16, 4095}
    MaxLaunches = 3
INVARIANTS
    TypeOK
