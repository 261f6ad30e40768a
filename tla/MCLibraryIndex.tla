---------------------------- MODULE MCLibraryIndex ----------------------------
(* LibraryIndex's shelves: a show and a book on one, an album on each of    *)
(* two others.                                                              *)
EXTENDS LibraryIndex, TLC
CONSTANTS show, book, album, single, shelves, music, other

OneEach == show :> shelves @@ book :> shelves @@ album :> music @@ single :> other
=============================================================================
