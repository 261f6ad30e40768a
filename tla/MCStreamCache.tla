---------------------------- MODULE MCStreamCache ----------------------------
(* The lengths and symmetries of StreamCache's runs.                       *)
EXTENDS StreamCache, TLC

(* The last chunk of a track is shorter than the one before it.            *)
LengthByChunk == [f \in Formats |-> [n \in Chunks |-> 2 - n]]

LengthOne == [f \in Formats |-> [n \in Chunks |-> 1]]

CacheSymmetry == Permutations(Tracks) \cup Permutations(Clients) \cup Permutations(Writers)
=============================================================================
