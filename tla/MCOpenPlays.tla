----------------------------- MODULE MCOpenPlays -----------------------------
(* The symmetries of OpenPlays' runs.                                        *)
EXTENDS OpenPlays
PlaySymmetry == Permutations(Plays) \cup Permutations(Devices)
=============================================================================
