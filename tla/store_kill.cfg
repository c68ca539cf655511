\* One command at a time, killed anywhere; packages that pin each other.
CONSTANTS
  x = x a = a b = b c1 = c1 c2 = c2 p1 = p1 p2 = p2
  None = None
  Package = {x, a, b}
  Content = {c1, c2}
  Requires <- Diamond
  PinSets <- AnyPins
  Proc = {p1}
  Alone = TRUE
  InterruptAt <- AnyPoint
SPECIFICATION FairSpec
INVARIANTS TypeOK WholeOrGone DependentsFirst
PROPERTIES PinnedKept CommandsEnd
