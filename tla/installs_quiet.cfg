\* One command at a time, killed only while it prepares; the middle version has no [entry],
\* and each version resolves to one of two libraries.
CONSTANTS
  a1 = a1 a2 = a2 l1 = l1 l2 = l2 p1 = p1 p2 = p2
  None = None
  App = {a1}
  Version = {1, 2, 3}
  Lib = {l1, l2}
  Resolutions <- TwoLibs
  Headless <- OneHeadless
  Proc = {p1}
  PerApp = FALSE
  OneBuilder = FALSE
  Collecting = TRUE
  InterruptAt <- Early
SPECIFICATION Spec
INVARIANT Settled
PROPERTY ImplementsGenerations
