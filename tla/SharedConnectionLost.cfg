CONSTANTS
    e1 = e1  e2 = e2  t1 = t1  t2 = t2
    Calls <- FourCalls
    Explicit <- Transactions
    Length <- OneOrTwo
SPECIFICATION ConnectionSpec
CHECK_DEADLOCK FALSE
INVARIANT ReturnedIsDurable
