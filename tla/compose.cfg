\* Two packages in two editions, of which one makes a conflict, in all modes.
CONSTANTS
  e1 = e1 e2 = e2 t1 = t1 t2 = t2 t3 = t3
  None = None
  Foreign = Foreign
  Package = {1, 2}
  Path = {"bin", "lib", "lib/x"}
  Inside <- LibInside
  Edition = {e1, e2}
  Files <- FilesOf
  Locks <- LocksAll
  Id <- IdsAll
  Mode = {"symlink", "hardlink", "copy"}
  Stocks <- StocksAll
  MaxChanges = 2
SPECIFICATION Spec
INVARIANTS TypeOK WholeAsLocked Delivered FailsForReason SweptRuns
