--------------------------- MODULE MCNodeLifecycle ---------------------------
(***************************************************************************)
(* Two workers; the first may be issued two tokens, so that one is left    *)
(* when it has been enrolled and removed.                                  *)
(***************************************************************************)
EXTENDS NodeLifecycle, TLC

CONSTANTS w1, w2, t1, t2, t3

MCWorkers == {w1, w2}
MCTokens == {t1, t2, t3}
MCTokenNode == [t \in MCTokens |-> IF t = t3 THEN w2 ELSE w1]

\* The two tokens of w1 are alike.
Alike == Permutations({t1, t2})
==============================================================================
