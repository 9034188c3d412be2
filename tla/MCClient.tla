------------------------------ MODULE MCClient ------------------------------
(***************************************************************************)
(* Two goroutines and three searches for Client.                            *)
(***************************************************************************)
EXTENDS ClientProps

CONSTANTS c1, c2, k1, k2

\* The same search with and without the cache, and a search that shares only the
\* gate and the circuit with it.
MCAsks == {<<k1, TRUE>>, <<k1, FALSE>>, <<k2, TRUE>>}
=============================================================================
