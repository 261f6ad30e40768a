--------------------------- MODULE MCRequestPeople ---------------------------
(* The symmetries of RequestPeople's runs.                                 *)
EXTENDS RequestPeople, TLC

PeopleSymmetry == Permutations(People) \cup Permutations(Catalogue) \cup Permutations(Ids)
=============================================================================
