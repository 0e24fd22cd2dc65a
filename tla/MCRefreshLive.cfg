CONSTANTS
  Token = {1, 2}
  Worker = {w1, w2}
  Handler = {}
  QueueDepth = 2
  Listings = {{1, 2}}
  Prunable = {}
  Replies = {"timeout"}
SPECIFICATION FairSpec
PROPERTIES StopTerminates MarkIsLifted EveryKeyIsPolled
CHECK_DEADLOCK FALSE
