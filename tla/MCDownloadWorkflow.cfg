SPECIFICATION Spec
CONSTANTS
    MaxOffers = 2
INVARIANTS
    TypeOK
    StagedIsEntitled
    OnlyRemuxSucceeds
    DeniedOnlyWithoutMp4
PROPERTIES
    UnknownOnlyForLackOfToken
