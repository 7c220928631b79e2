---------------------------- MODULE MCAsyncLogging ----------------------------
(* Instances of AsyncLogging for TLC; the values are in the .cfg files.    *)
EXTENDS AsyncLogging
==============================================================================
