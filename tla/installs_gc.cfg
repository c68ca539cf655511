\* One command at a time, killed anywhere; three versions of one app, gc.
CONSTANTS
  a1 = a1 a2 = a2 l1 = l1 l2 = l2 p1 = p1 p2 = p2
  None = None
  App = {a1}
  Version = {1, 2, 3}
  Lib = {l1}
  Resolutions <- OneLib
  Headless <- OneHeadless
  Proc = {p1}
  PerApp = FALSE
  OneBuilder = FALSE
  Collecting = TRUE
  InterruptAt <- AnyPoint
SPECIFICATION Spec
INVARIANTS TypeOK RecordsRunnable PinsHold
PROPERTY ExportsStayStartable
