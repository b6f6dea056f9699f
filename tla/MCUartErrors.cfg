SPECIFICATION FairSpec
CONSTANTS
  RxDepth = 2
  TxDepth = 2
  TxTrigger = 1
  MaxArrivals = 4
  MaxEvents = 1
  MaxBusy = 0
  Settings = {}
  Ghosts = FALSE
  HighBytes <- NoHighBytes
  FifoLeft = 1
  RxBurst = 1
  Flags <- ByInterrupt
  MaxSetups = 1
  MaxWrites = 1
  MaxPushes = 4
INVARIANT UartTypeOK
PROPERTIES RxStream RxServed
CHECK_DEADLOCK FALSE
