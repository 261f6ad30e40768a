---------------------------- MODULE DownloadTurns ----------------------------
(***************************************************************************)
(* The turn a medium's starts and cancels take (server/src/requests/job.ts,*)
(* inTurn and limited), and what a start and a cancel do to the download   *)
(* client (server/src/requests/books/download.ts over qBittorrent, which   *)
(* is external).                                                           *)
(*                                                                         *)
(* The head of `turn` is the call that was sent; the others wait for its   *)
(* answer or its time limit.  A call first reads the client, then writes.  *)
(* One past its limit is not stopped: it goes on in `late`, out of turn,   *)
(* and may yet land.  A release names its torrent, so releases stand for   *)
(* info hashes.                                                            *)
(***************************************************************************)
EXTENDS RequestMachine, FiniteSets

CONSTANTS
    Ids,             \* request ids
    Releases,        \* what a search can find, each with its own info hash
    Keys,            \* idempotency keys, numbers standing for UUIDs
    ByHand,          \* the tag of a torrent that is not Auralis's own
    Handled,         \* the hashes people add and remove in the client themselves
    MaxTurn,         \* bound: calls in turn when a person asks for one more
    MaxLate,         \* bound: calls that passed their limit and may yet land
    CancelsRefused   \* whether the client may refuse a cancel, which is logged

ASSUME TurnConstants ==
    /\ Handled \subseteq Releases
    /\ MaxTurn \in Nat /\ MaxLate \in Nat /\ CancelsRefused \in BOOLEAN
    /\ Keys \subseteq Nat /\ None \notin Keys /\ ByHand \notin Keys /\ ByHand # None
    /\ None \notin Releases /\ None \notin Ids

VARIABLES
    torrents,   \* the tag each hash's torrent carries, None for no torrent
    turn,       \* the calls asked for, in order; the head is out
    late        \* the calls that passed their limit and still run

turnVars == <<torrents, turn, late>>

Calls ==
    [kind  : {"start", "cancel"},
     by    : {"job", "person"},
     id    : Ids,
     key   : Keys,
     hash  : Releases \cup {None},
     found : SUBSET Releases,
     stage : {"reading", "writing", "done"},
     pick  : Releases \cup {None}]

TurnTypeOK ==
    /\ torrents \in [Releases -> Keys \cup {None, ByHand}]
    /\ turn \in Seq(Calls)
    /\ late \in SUBSET Calls

StartCall(id, hash, key) ==
    [kind |-> "start", by |-> "job", id |-> id, key |-> key, hash |-> hash,
     found |-> {}, stage |-> "reading", pick |-> None]

(* A cancel names a key alone, or a handle: the hash and the key.  `pick`  *)
(* is the release its asker goes on to once it has answered.               *)
CancelCall(id, target, by, pick) ==
    [kind |-> "cancel", by |-> by, id |-> id, key |-> target.key, hash |-> target.hash,
     found |-> {}, stage |-> "reading", pick |-> pick]

(* What the rule lets a cancel delete: Auralis's own torrents that carry   *)
(* exactly its key.                                                        *)
Deletable(call) ==
    {h \in Releases : torrents[h] = call.key /\ call.hash \in {None, h}}

(* The call after its read of the client.  A start that finds the hash     *)
(* there follows it; a cancel that finds nothing deletes nothing.          *)
AfterRead(call) ==
    IF call.kind = "start"
    THEN [call EXCEPT !.stage = IF torrents[call.hash] = None THEN "writing" ELSE "done"]
    ELSE [call EXCEPT !.found = Deletable(call),
                      !.stage = IF Deletable(call) = {} THEN "done" ELSE "writing"]

(* The client after the call's write.  An add of a hash already there is   *)
(* answered 409 and changes nothing.                                       *)
AfterWrite(call) ==
    [h \in Releases |->
        IF call.kind = "start" /\ h = call.hash /\ torrents[h] = None THEN call.key
        ELSE IF call.kind = "cancel" /\ h \in call.found THEN None
        ELSE torrents[h]]

SentCall == Head(turn)

Sent(stage) == turn # <<>> /\ SentCall.stage = stage

(* The turn once the sent call has answered or passed its limit.           *)
NextInTurn == Tail(turn)

(* The call out reads the client.                                          *)
TurnReads ==
    /\ Sent("reading")
    /\ turn' = [turn EXCEPT ![1] = AfterRead(SentCall)]
    /\ UNCHANGED <<torrents, late>>

(* The call out writes to the client.                                      *)
TurnWrites ==
    /\ Sent("writing")
    /\ torrents' = AfterWrite(SentCall)
    /\ turn' = [turn EXCEPT ![1].stage = "done"]
    /\ UNCHANGED late

(* Mutant: a cancel that hangs is waited for.                              *)
Unanswered_StartsOnly ==
    /\ turn # <<>>
    /\ SentCall.kind = "start"
    /\ UNCHANGED late

(* The sent call gives no answer: its limit passes or it throws.  One that *)
(* is not done may go on outside the turn.                                 *)
Unanswered ==
    /\ turn # <<>>
    /\ \/ /\ SentCall.kind = "start" \/ SentCall.stage = "done" \/ CancelsRefused
          /\ UNCHANGED late
       \/ /\ SentCall.stage # "done"
          /\ Cardinality(late) < MaxLate
          /\ late' = late \cup {SentCall}

LateReads(call) ==
    /\ call \in late /\ call.stage = "reading"
    /\ late' = (late \ {call})
                 \cup (IF AfterRead(call).stage = "done" THEN {} ELSE {AfterRead(call)})
    /\ UNCHANGED <<torrents, turn>>

LateWrites(call) ==
    /\ call \in late /\ call.stage = "writing"
    /\ torrents' = AfterWrite(call)
    /\ late' = late \ {call}
    /\ UNCHANGED turn

LateLost(call) ==
    /\ call \in late
    /\ late' = late \ {call}
    /\ UNCHANGED <<torrents, turn>>

(* A person removes a torrent in the client itself.                        *)
RemovedByHand(h) ==
    /\ h \in Handled /\ torrents[h] # None
    /\ torrents' = [torrents EXCEPT ![h] = None]
    /\ UNCHANGED <<turn, late>>

(* A person adds one there.  Left out: an add that falls between a delete  *)
(* and the read that allowed it.                                           *)
AddedByHand(h) ==
    /\ h \in Handled /\ torrents[h] = None
    /\ \A call \in late \cup {turn[i] : i \in DOMAIN turn} : h \notin call.found
    /\ torrents' = [torrents EXCEPT ![h] = ByHand]
    /\ UNCHANGED <<turn, late>>

ClientStep ==
    \/ TurnReads
    \/ TurnWrites
    \/ \E call \in late : LateReads(call) \/ LateWrites(call) \/ LateLost(call)
    \/ \E h \in Releases : RemovedByHand(h) \/ AddedByHand(h)
=============================================================================
