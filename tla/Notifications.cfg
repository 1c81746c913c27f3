CONSTANTS
    AlertNos <- TwoAlerts
    Rules = {u1}
    Channels = {c1}
    Workers = {w1, w2}
    BatchLimit = 1
    RetryLimit = 2
    MaxCrashes = 1
SPECIFICATION FairWorkers
INVARIANTS TypeOK SentMeansArrived FailedMeansTried TriesAreBounded
PROPERTIES OutcomesAreFinal DeliveriesSettle
