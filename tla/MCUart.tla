------------------------------- MODULE MCUart -------------------------------
(* Small instances of UartClass.tla. *)
EXTENDS UartProps

NoHighBytes == {{}}
HighBytesOfRates == {{}, {"RDI"}}
OneWay == {{"R"}, {"W"}}
ByInterrupt == {{"R", "W"}}
BothModes == ByInterrupt \cup {{"R", "W", "P"}}
=============================================================================
