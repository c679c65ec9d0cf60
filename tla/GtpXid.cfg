CONSTANTS
    NShards = 2
    Span1 = 3
    Span2 = 5
    Sharded = TRUE
    Word = 32
    MaxLive = 2
SPECIFICATION XidSpec
INVARIANTS ShardsDisjoint ReplyReachesRequest
