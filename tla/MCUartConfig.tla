---------------------------- MODULE MCUartConfig ----------------------------
(* A small instance of UartConfig.tla, with the sizes of the code. *)
EXTENDS UartConfigProps
=============================================================================
