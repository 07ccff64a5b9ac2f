CONSTANTS
    Messages <- MCMessages
    MaxErrors = 2
SPECIFICATION Spec
INVARIANTS
    TypeOK
    SingleErrorsCorrected
    TextsAgree
    ResultsFit
CHECK_DEADLOCK FALSE
