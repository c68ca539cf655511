\* Three libraries that disagree, c in two editions, with publishers and other
\* commands who change one of the pins, and the network, twice.
CONSTANTS
  R = R a = a b = b c = c e1 = e1 e2 = e2
  Absent = Absent
  None = None
  Unlisted = Unlisted
  Id = {R, a, b, c}
  Root = R
  Releases <- Three
  RootVersion <- v10
  Edition = {e1, e2}
  RootEdition = e1
  Needs <- NeedsOf
  Offers <- OffersAll
  Stock <- StockSome
  Volatile <- VolatilePins
  MaxChanges = 2
SPECIFICATION Spec
INVARIANTS TypeOK LockSolved RefusalsHold ComposedClosed
PROPERTIES LockStored HighestLocked
