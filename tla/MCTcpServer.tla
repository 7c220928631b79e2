----------------------------- MODULE MCTcpServer -----------------------------
(* Instances of TcpServer for TLC; the values are in the .cfg files.       *)
EXTENDS TcpServer, TLC

(* Clients are interchangeable in the safety runs, and so are the objects  *)
(* of failed accepts.                                                      *)
Symmetry == Permutations(Clients) \cup Permutations(Failed)
==============================================================================
