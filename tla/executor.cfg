CONSTANTS
    Request = {r1, r2}
    Channel = {1, 2, 3}
    Weight <- Uneven
    Priority <- WithReserve
    MaxTries = 3
SPECIFICATION Spec
INVARIANTS
    PicksAreFair
PROPERTIES
    NeverGivesUpEarly
    NothingAfterHeaders
SYMMETRY Symmetry
