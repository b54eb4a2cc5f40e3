----------------------------- MODULE MCTcpClient -----------------------------
(***************************************************************************)
(* TcpClient with two clients on one thread, one after or beside the       *)
(* other, and a third on another thread.                                   *)
(***************************************************************************)
EXTENDS TcpClient

CONSTANTS a, b, c, l1, l2

MCClient == {a, b, c}
MCLoop   == {l1, l2}
MCLoopOf(client) == IF client = c THEN l2 ELSE l1
=============================================================================
