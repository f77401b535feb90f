---------------------------- MODULE MCRpcChannel -----------------------------
(* Instances of RpcChannel for TLC. *)
EXTENDS RpcChannel, TLC

CONSTANTS r1, r2, w1

TwoReadsOneWrite == {r1, r2, w1}
TwoReads == {r1, r2}
=============================================================================
