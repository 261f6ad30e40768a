----------------------------- MODULE MCQueuePlays -----------------------------
(* A book of two chapters and an episode, which autoplay may pick after it.  *)
EXTENDS QueuePlays
CONSTANTS c1, c2, e1
BookAndEpisode == {[kind |-> "book", entries |-> <<c1, c2>>, from |-> TRUE],
                   [kind |-> "episode", entries |-> <<e1>>, from |-> FALSE]}
EpisodePicked == [music |-> {}, spoken |-> {e1}]
=============================================================================
