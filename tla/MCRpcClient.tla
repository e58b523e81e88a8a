----------------------------- MODULE MCRpcClient -----------------------------
\* RpcClient for TLC: the calls are interchangeable.
EXTENDS RpcClient, TLC

Symmetry == Permutations(Calls)
=============================================================================
