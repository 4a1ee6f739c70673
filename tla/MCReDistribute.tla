--------------------------- MODULE MCReDistribute ---------------------------
(* Two workers: worker 0's child returns three rows, worker 1's two.  Each  *)
(* key's hash is 1, 2 or NULL, so every routing of the five rows occurs.    *)
EXTENDS ReDistribute

CONSTANTS a, b, c, d, e

MCRows == {a, b, c, d, e}
MCInput == (0 :> <<a, b, c>>) @@ (1 :> <<d, e>>)

=============================================================================
