SPECIFICATION Spec
CONSTANTS
    MaxLines = 5
INVARIANTS
    TypeOK
    PlannedIsClear
    PlanFaithful
    EncryptionReported
PROPERTIES
    VariantBest
    AnalysisEnds
