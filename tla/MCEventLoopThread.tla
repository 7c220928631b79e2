-------------------------- MODULE MCEventLoopThread --------------------------
(* Instances of EventLoopThread for TLC; the values are in the .cfg files. *)
EXTENDS EventLoopThread
==============================================================================
