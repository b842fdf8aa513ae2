SPECIFICATION Spec
CONSTANTS
  Errnos = {"EIO", "EAGAIN"}
  FileCalls = {"read"}
  SocketCalls = {"connect"}
  EpollCalls = {"epoll_wait"}
  PthreadCalls = {"pthread_create"}
  HandlerTypes = {"EIO", "SIGNAL_READ_ERROR", "SIGNAL_ALL"}
  MaxHandlers = 2
  MaxItems = 2
  MaxDepth = 2
INVARIANTS
  SignalFitsFailure
  SilentReads
CHECK_DEADLOCK FALSE
