CONSTANTS
    MaxSeq = 4
    Slots = 3
    Faults = {"decode", "replay", "submit"}
    ChannelCap = 1
    PayloadCap = 1
    Requests = {"flush", "reset"}
    MaxRequests = 1
    Captures = FALSE
SPECIFICATION FairSpec
PROPERTIES
    CallsReturn
    
