SPECIFICATION Spec
CONSTANTS
    MaxExecutions = 2
    MaxRows = 3
    Pipelines <- Five
INVARIANTS
    EvidenceBacked
    AttemptsOnRecord
    DecisionsAgree
PROPERTIES
    OutcomeIsFinal
CHECK_DEADLOCK FALSE
