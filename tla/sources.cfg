\* One command at a time on up to three sources and a key, killed anywhere.
CONSTANTS
  s1 = s1 s2 = s2 s3 = s3 u1 = u1 k1 = k1 p1 = p1 p2 = p2
  None = None
  Torn = Torn
  Name <- Names
  Uri <- Uris
  Key <- Keys
  Proc = {p1}
  MaxSources = 3
  Alone = TRUE
SPECIFICATION Spec
INVARIANTS TypeOK SavedWhole
PROPERTIES TrustedBeforeListed MovesArrive ImplementsSourceOrder
