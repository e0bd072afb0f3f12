---------------------------- MODULE MCDhcpServer ----------------------------
(***************************************************************************)
(* DhcpServer on a small instance: a table smaller than the number of      *)
(* clients, so that entries are taken over.                                *)
(***************************************************************************)
EXTENDS DhcpServer, TLC

\* The clients are interchangeable: the server only compares their MACs.
MacSymmetry == Permutations(Macs)
=============================================================================
