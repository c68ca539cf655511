\* Two commands at a time, on different apps, both free to build or to list runtimes.
CONSTANTS
  a1 = a1 a2 = a2 l1 = l1 l2 = l2 p1 = p1 p2 = p2
  None = None
  App = {a1, a2}
  Version = {1}
  Lib = {l1}
  Resolutions <- OneLib
  Headless = {}
  Proc = {p1, p2}
  PerApp = TRUE
  OneBuilder = FALSE
  Collecting = FALSE
  InterruptAt <- Nowhere
SPECIFICATION Spec
PROPERTY BuildsVerified
