\* Three requests, ids 1, 2 and 0, one repetition, three places in a radio, and each
\* board may be restarted once.
SPECIFICATION Spec
CONSTANTS
  c = c
  s = s
  Client = c
  Server = s
  IdMod = 3
  Retries = 1
  FifoSize = 3
  MaxMessages = 3
  MaxRestarts = 1
INVARIANTS
  AckedWasDelivered
  DeliveredInOrder
  ReplyAnswersRequest
PROPERTIES
  SendReturns
\* The radio may be silent with every request made.
CHECK_DEADLOCK FALSE
