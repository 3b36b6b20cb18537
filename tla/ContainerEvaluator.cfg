SPECIFICATION EvaluatorSpec
CONSTANTS
    Evaluations = {"e1"}
    Others <- MCOthers
    Sessions <- MCSessions
    Names <- MCNames
    NamesOf <- MCNamesOf
    NoName = NoName
    Policy = "reference"
    Codes = {0, 1}
    CandidateOutputs <- MCAnswers
    Outputs <- MCOutputs
    Flood <- MCFlood
    CaseCount = 1
CHECK_DEADLOCK FALSE
INVARIANTS
    RemovedByOwner
    VerdictIsEarned
    PhasesNeverOverlap
PROPERTY
    EvaluationEnds
