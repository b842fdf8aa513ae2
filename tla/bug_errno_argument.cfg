SPECIFICATION Spec
CONSTANTS
  Errnos = {"EINVAL", "EAGAIN"}
  FileCalls = {"read"}
  SocketCalls = {}
  EpollCalls = {}
  PthreadCalls = {"pthread_create"}
  HandlerTypes = {"EAGAIN"}
  MaxHandlers = 1
  MaxItems = 0
  MaxDepth = 1
INVARIANTS
  ErrnoIsConverted
CHECK_DEADLOCK FALSE
