CONSTANTS
    NumChats = 2
    MaxAttempts = 3
SPECIFICATION NotifyFairSpec
INVARIANTS
    ResultsAreTrue
    RetriesAreBounded
PROPERTIES
    DeliveryEnds
