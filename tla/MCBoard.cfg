CONSTANTS
  anna = anna
  ben = ben
  None = None
  Mail = Mail
  Log = Log
  Clients = {anna, ben}
  Conns = 2
  Entries = 3
  Histories <- MCHistories
SPECIFICATION Spec
INVARIANTS StreamsOwnConns OwnReply OneStatus WaitsWithNothing StopsOnlyIdle
PROPERTIES WaitingKept AcceptedReleased WaitingServed
CHECK_DEADLOCK FALSE
