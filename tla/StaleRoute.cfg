CONSTANTS
  Thread = {t1}
  Fd = {19}
  LocalFd = {19}
  Hash <- OneHash
  Node = {n1, n2}
  NULL = NULL
  Garbage = Garbage
SPECIFICATION Spec
INVARIANT LocalFdStaysLocal
CHECK_DEADLOCK FALSE
