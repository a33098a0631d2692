SPECIFICATION FairSpec
CONSTANTS
  Appliers = {a1, a2}
  Configs = {k1, k2}
  Off = Off
  Loops = {l1, l2}
  NoLoop = NoLoop
  Reports = {r1}
INVARIANTS NoWriteAfterClose ReceiptsDealtWith LoopsMatchConfig RoundsAfterRestore
PROPERTIES ShutdownEnds
