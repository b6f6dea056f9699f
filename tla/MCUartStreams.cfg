SPECIFICATION Spec
CONSTANTS
  RxDepth = 2
  TxDepth = 3
  TxTrigger = 1
  MaxArrivals = 3
  MaxEvents = 0
  MaxBusy = 0
  Settings = {}
  Ghosts = FALSE
  HighBytes <- NoHighBytes
  FifoLeft = 2
  RxBurst = 1
  Flags <- BothModes
  MaxSetups = 1
  MaxWrites = 5
  MaxPushes = 3
PROPERTIES TxStream RxStream
CHECK_DEADLOCK FALSE
