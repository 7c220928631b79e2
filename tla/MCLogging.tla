------------------------------ MODULE MCLogging ------------------------------
(* Instances of Logging for TLC.  The integers are those of a 32-bit int.  *)
EXTENDS Logging

MinInt == -2147483647 - 1
MCIntValues == {MinInt, MinInt + 1, -10, -9, 0, 9, 10, 42, 2147483647}
==============================================================================
