\* The daemon's goroutines, with a channel of one message.
SPECIFICATION FairSpec
CONSTANT QueueCap = 1
INVARIANTS PeerCallsSerialized NoCircularWait
PROPERTIES NobodyWaitsForEver LookupsReturn
CHECK_DEADLOCK FALSE
