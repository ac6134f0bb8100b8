----------------------------- MODULE MCTcpClient -----------------------------
(***************************************************************************)
(* Instances of TcpClient for TLC.                                         *)
(***************************************************************************)
EXTENDS TcpClient

Forever == [auto |-> TRUE, budget |-> 0]
Twice == [auto |-> TRUE, budget |-> 1]
Once == [auto |-> FALSE, budget |-> 1]

MCConfigs == {Forever, Twice, Once}
MCForever == {Forever}
=============================================================================
