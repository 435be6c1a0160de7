CONSTANTS
  Backoff = 2
  WtTimeout = 2
  Unset = Unset
SPECIFICATION ClientSpec
INVARIANT HelloWhileUnauthenticated
CHECK_DEADLOCK FALSE
