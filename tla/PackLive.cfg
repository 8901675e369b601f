SPECIFICATION PolledSpec
CONSTANTS
    Runs = {r1}
    Tasks = {t1, t2, t3}
    NoRun = NoRun
    PackLimit = 1
    MaxParseRetries = 0
    MaxLlmRetries = 0
    MaxRenderRetries = 0
    MaxCrashes = 1
    MaxKills = 0
    MaxBrokerErrors = 0
    MaxBillingErrors = 0
PROPERTIES
    ParsingEnds
    AcceptedRunEnds
    DeliveredIsCharged
    BegunRunsEnd
CHECK_DEADLOCK FALSE
