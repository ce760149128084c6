SPECIFICATION FairSpec
CONSTANTS
    Stream = {s1, s2, s3}
    Uploads = {s2, s3}
    Together = {{s1}, {s2, s3}}
    Tries = 2
    Size = 2
    Capacity = 1
    MaxVersion = 2
    Headers = {{}, {"etag", "accept-ranges"}}
    Stops = {"interrupt", "destroy", "curl"}
    MaxStops = 1
    Faults = {}
INVARIANTS InOrder FinishedOnce
PROPERTY StreamsEnd
CHECK_DEADLOCK FALSE
