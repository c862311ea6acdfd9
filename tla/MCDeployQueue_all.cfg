SPECIFICATION FairSpec
CONSTANTS
    Runs = {r1, r2, r3}
    Other = Other
    Nobody = Nobody
    MaxPushes = 2
    MaxFaults = 2
    Clicks = TRUE
 
PROPERTIES EveryPushFetched
