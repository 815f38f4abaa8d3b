\* Three goroutines, every environment value, with and without IFMA.
CONSTANTS
  p1 = p1 p2 = p2 p3 = p3
  Procs = {p1, p2, p3}
  NoProc = NoProc
  Registered = {"generic", "stdlib", "r51"}
  Unknown = "unknown"
  Native = {"r51"}
  Activating = {"r51"}
  NoName = "none"
SPECIFICATION FairSpec
INVARIANTS OneBackend NoSilentDegrade
PROPERTIES SelectionFinal CallsReturn
