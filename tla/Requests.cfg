\* Every kind of request, every ACL, shared and cloned devices.
SPECIFICATION FairSpec
CONSTANTS
  Requests = {r1, r2}
  Workers = {w1, w2}
  Traffic = {"short", "unknown", "init", "destroy", "forget", "oneway", "lookup", "read", "badRead", "badLookup"}
  Allowed = {"All", "RootAndOwner", "Owner"}
  None = None
CONSTRAINT Distinct
INVARIANTS TypeOK ReplyDeliverable NoAnswerWasted
PROPERTIES RefinesContract CallersAnswered QueueServed
