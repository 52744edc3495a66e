SPECIFICATION FairSpec
CONSTANTS
    good = good   badSlot = badSlot   garbage = garbage   reorg = reorg
    Topics = {"head", "chain_reorg"}
    TimedTopics = {"head"}
    StrictTopics = {"head"}
    Events = {badSlot, garbage, reorg}
    TopicOf <- MCTopicOf
    KindOf <- MCKindOf
    MaxFaults = 1
INVARIANTS
    TypeOK
    EveryEventIsSomewhere
PROPERTIES
    EventsComeThrough
    HeadIsResubscribed
\* With the events used up and the subscription in place all may wait.
CHECK_DEADLOCK FALSE
