SPECIFICATION FairSpec
CONSTANTS
    d1 = d1  k1 = k1
    Deployment <- OneDeployment
    Waker <- OneWaker
    Configs <- EachAlone
    Channels = 2
    AttemptLimit = 2
    MaxRetries = 1
    MaxRestarts = 1
INVARIANTS OutboxTypeOK OneSender PostsArePaid
PROPERTIES ImplementsPromise EntriesSettle
CHECK_DEADLOCK FALSE
