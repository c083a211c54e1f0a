SPECIFICATION FairSpec
CONSTANTS
    MaxConnects = 2
    MaxStops = 3
    MaxRequests = 2
    Outcomes = {"now", "progress", "retry", "fatal"}
    AsyncFailure = TRUE
    Setups <- Clients
INVARIANTS SingleAttempt AnswerIsOwn
PROPERTIES Connects 
