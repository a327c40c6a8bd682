SPECIFICATION Spec
CONSTANTS
    MaxOffers = 1
INVARIANTS
    DocumentedCommandsAllowed
