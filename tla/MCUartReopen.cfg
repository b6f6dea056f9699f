SPECIFICATION Spec
CONSTANTS
  RxDepth = 2
  TxDepth = 2
  TxTrigger = 0
  MaxArrivals = 2
  MaxEvents = 0
  MaxBusy = 2
  Settings = {"FRAME", "BAUD"}
  Ghosts = TRUE
  HighBytes <- HighBytesOfRates
  FifoLeft = 1
  RxBurst = 1
  Flags <- OneWay
  MaxSetups = 2
  MaxWrites = 2
  MaxPushes = 3
INVARIANTS TxRises RxRises
CHECK_DEADLOCK FALSE
