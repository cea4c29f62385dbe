SPECIFICATION FairSpec
CONSTANT Messages = {m1, m2}
INVARIANTS TypeOK HostReplySettles
PROPERTIES ContractKept EverySenderAnswered
CHECK_DEADLOCK FALSE
