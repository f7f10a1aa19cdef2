SPECIFICATION PartsSpec
CONSTANTS
  Runs = {t1, t2, t3}
  Dirs = {d1}
  DirOf <- MCDirOf
  MayHang = {t1}
  NoRun = NoRun
  Guarded = g
  Background = {b}
  MaxTrouble = 3
INVARIANTS
  LockHasKeeper
  HolderIsOwner
PROPERTIES
  OneRunPerPath
  WaitEnds
  ShownComesTrue
  DeferredRestartHappens
