----------------------------- MODULE MC_AlgoFiles -----------------------------
(* Two sessions editing one visible and one hidden file with a long and a  *)
(* short text.                                                            *)
EXTENDS AlgoFiles

CONSTANTS s1, s2, twap, _tmp, x, y

MCTexts == {<<x, x>>, <<y>>}
=============================================================================
