------------------------------ MODULE MCNodeExec ------------------------------
(* One execution of the tool and one call of another client for the same      *)
(* approval, over two connections of the node, so that the second may open    *)
(* before the gateway sees the first one closed.                              *)
EXTENDS NodeExecProperties

CONSTANTS x1, k1, c1, c2
=============================================================================
