\* Two apps that share a command name, commands killed anywhere, a user with
\* files of their own.
CONSTANTS
  a = a b = b c = c d = d a1 = a1 a2 = a2 a3 = a3 b1 = b1
  None = None
  Torn = Torn
  Lar = Lar
  Link = Link
  Foreign = Foreign
  App <- Apps
  Cmd <- Cmds
  Gen <- Gens
  AppOf <- Owner
  Binaries <- Entries
  Own <- Owns
SPECIFICATION Spec
INVARIANTS TypeOK Matched AllOrNothing PublishedRuns
PROPERTY OthersStay
