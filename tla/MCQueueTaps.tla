----------------------------- MODULE MCQueueTaps -----------------------------
(* An album of two tracks, an episode and a digest, which lists that episode *)
(* and another until its rule leaves the other alone.                        *)
EXTENDS QueueTaps
CONSTANTS t1, t2, e1, e2, d1
AlbumAndEpisode == {[kind |-> "album", entries |-> <<t1, t2>>, from |-> TRUE],
                    [kind |-> "episode", entries |-> <<e1>>, from |-> TRUE]}
OneDigest == d1 :> {<<e1, e2>>, <<e2>>}
=============================================================================
