\* Two commands at a time without any discipline, killed anywhere.
CONSTANTS
  x = x a = a b = b c1 = c1 c2 = c2 p1 = p1 p2 = p2
  None = None
  Package = {x}
  Content = {c1, c2}
  Requires <- Lone
  PinSets <- NoPins
  Proc = {p1, p2}
  Alone = FALSE
  InterruptAt <- AnyPoint
SPECIFICATION Spec
PROPERTY Immutable
