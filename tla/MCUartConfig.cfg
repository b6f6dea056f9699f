SPECIFICATION Spec
CONSTANTS
  Word = 4
  LenMod = 65536
  Lengths = {0, 1, 4, 65532, 65540}
  Rooms = {0, 4, 65537}
  Listed = {1}
  Unlisted = {2}
  Clock = 1500000
  Bauds = {1, 115200}
  Codes = {0, 1, 2, 3}
  Queued = {0, 3, 10}
INVARIANTS ConfigTypeOK WriteIsWhole ReadIsWhole RegistersFollowRuntime QueriesTell
