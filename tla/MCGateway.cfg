\* The gateway and the goroutine that reports our endpoint over it, contexts
\* cancelled at any time.
SPECIFICATION FairPunchSpec
CONSTANTS
    punch = punch
    Senders = {punch}
    ChanCap = 1
    MaxDelay = 3
    MayCancel = TRUE
    EmptyAnswers = TRUE
    MaxMoves = 1
INVARIANTS SendersSeeLatest WaitEnds ReportIsFresh
PROPERTIES IsFeed BackoffRespected SendReturns ReportsSettle
CHECK_DEADLOCK FALSE
