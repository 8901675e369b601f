SPECIFICATION Spec
CONSTANTS
    Runs = {r1, r2}
    Tasks = {t1, t2, t3}
    NoRun = NoRun
    PackLimit = 2
    MaxParseRetries = 1
    MaxLlmRetries = 1
    MaxRenderRetries = 1
    MaxCrashes = 1
    MaxKills = 1
    MaxBrokerErrors = 1
    MaxBillingErrors = 1
ACTION_CONSTRAINT OneRunOrNoFault
SYMMETRY MCSymmetry
INVARIANTS
    DownloadReady
    LlmHasParsedCv
PROPERTY PipelineDelivers
CHECK_DEADLOCK FALSE
