SPECIFICATION FairSpec
CONSTANTS
  RxDepth = 2
  TxDepth = 2
  TxTrigger = 1
  MaxArrivals = 0
  MaxEvents = 0
  MaxBusy = 0
  Settings = {}
  Ghosts = FALSE
  HighBytes <- NoHighBytes
  FifoLeft = 1
  RxBurst = 1
  Flags <- ByInterrupt
  MaxSetups = 1
  MaxWrites = 2
  MaxPushes = 0
PROPERTY TxServed
CHECK_DEADLOCK FALSE
