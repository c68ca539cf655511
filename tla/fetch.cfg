\* Two sources and one client; publishers killed anywhere but in the middle of
\* writing advisories.toml.
CONSTANTS
  A = A B = B v1 = v1 v2 = v2 e1 = e1 e2 = e2 k1 = k1 k2 = k2
  None = None
  Part = Part
  Torn = Torn
  Source = {A, B}
  Pin = {v1}
  Edition = {e1, e2}
  Key = {k1, k2}
  Advisory <- Advisories
  Offers <- OffersAB
  Strays <- StraysA
  Notices <- NoticesA
  MaxActs = 3
  BreakAt <- BreakPoints
  Sources <- Order
  Trusted = {k1}
SPECIFICATION Spec
INVARIANTS TypeOK ValidAtRest DiscoveredIsFound
PROPERTIES Withdrawn FetchedIsSigned YanksStand
