\* A command that is invoked by its name.
CONSTANTS
  a = a b = b c = c d = d a1 = a1 a2 = a2 a3 = a3 b1 = b1
  None = None
  Torn = Torn
  Lar = Lar
  Link = Link
  Foreign = Foreign
  App <- Apps
  Cmd <- Cmds
  Gen <- Gens
  AppOf <- Owner
  Binaries <- Entries
  Own <- Owns
SPECIFICATION Spec
INVARIANT NameRuns
