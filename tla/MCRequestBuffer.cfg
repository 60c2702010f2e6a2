SPECIFICATION FairSpec
CONSTANTS
    Workers = {w1, w2, w3}
    MaxRequests = 2
    Connections = 5
INVARIANTS
    TypeOK
    RingHoldsPending
    SomebodyAwake
    MainNotForgotten
PROPERTIES
    EveryConnectionTaken
    ImplementsChannel
