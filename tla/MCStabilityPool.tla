-------------------------- MODULE MCStabilityPool --------------------------
(* TLC instance of the stability pool: narrow words and small scales.      *)
EXTENDS StabilityPool

MCFAmounts == {1, 3, 7}
MCRAmounts == {0, 1, 4}

=============================================================================
