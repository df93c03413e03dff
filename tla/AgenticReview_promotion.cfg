SPECIFICATION Spec
CONSTANTS
    Surfaces <- MCSurfaces
    Batches  <- MCBatches
    MaxCalls = 5
    Nothing = Nothing
    Torn = Torn
INVARIANTS
    TypeOK
    PromotionIsEarned
    
    ChargesWithinOneRetry
CHECK_DEADLOCK FALSE
