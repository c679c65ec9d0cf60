\* The main thread and one UE thread.  Two messages of either kind from main are
\* a job with a synchronous message before or behind it, and the UE thread's one
\* is the job that fills main's queue or the message that is parked behind it.  A
\* job queue of one is full for the second job, the queues to the main thread, of
\* one each, overflow and fill up, and a hold list of two is forced out.
CONSTANTS
    Shards = {s1}
    MainSends = 2
    ShardSends = 1
    JobMax = 1
    ReadyMax = 1
    AppMax = 1
    MaxParked = 2
SPECIFICATION Spec
INVARIANTS Backed HoldIsTimed MainInOrder
PROPERTY Leaves
