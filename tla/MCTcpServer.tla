----------------------------- MODULE MCTcpServer -----------------------------
(* Small instances of TcpServer for TLC. *)
EXTENDS TcpServer, TLC

\* Workers are interchangeable, and so are connections with the same faults.
PoolSymmetry ==
  Permutations(Workers) \cup Permutations(Connections \ (Faulty \cup Hanging))
=============================================================================
