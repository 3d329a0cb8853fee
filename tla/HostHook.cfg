CONSTANTS
  Thread = {t1, t2}
  Fd = {19, 45}
  LocalFd = {19}
  Hash <- MurmurHash3
  Node = {n1, n2, n3}
  NULL = NULL
  Garbage = Garbage
SPECIFICATION Spec
CONSTRAINT UntilRaced
SYMMETRY Symmetry
INVARIANT TypeOK
INVARIANT ChainsAreSound
INVARIANT HeldFdIsRouted
INVARIANT RoutedFdIsOpen
INVARIANT TableInv
PROPERTY ImplementsFdTable
CHECK_DEADLOCK FALSE
