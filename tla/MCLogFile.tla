------------------------------ MODULE MCLogFile ------------------------------
(* Instances of LogFile for TLC: a day of 32 seconds, in minutes of 4.     *)
EXTENDS LogFile

FirstMinutes == 0..4
==============================================================================
