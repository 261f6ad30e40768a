------------------------------ MODULE QueueEngine ------------------------------
(***************************************************************************)
(* What each button does to one device's listening session                 *)
(* (server/src/queues/engine.ts), as operators from a session to the next. *)
(*                                                                         *)
(* A session has a music and a spoken queue; `active` is the one the       *)
(* controls drive.  History only grows.  Back makes an earlier play        *)
(* current again as a replay and parks what it left in a walk at the front *)
(* of its queue; Next plays the walk first.  A digest plays in a queue of  *)
(* its own, the spoken queue it stands in for saved whole.                 *)
(*                                                                         *)
(* An entry is a ref (a chapter is one of its own); entry ids, when things *)
(* were played and what a queue plays from (which only autoplay reads) are *)
(* left out.  A position is the ref it was taken in.                       *)
(***************************************************************************)
EXTENDS Integers, SequencesExt, FiniteSetsExt

CONSTANTS
    None,
    Kept         \* HISTORY_KEPT: the plays a stored history keeps

QueueTypes == {"music", "spoken"}

(* What one action records is kept: at most two plays.                     *)
ASSUME EngineConstants == Kept \in Nat /\ Kept >= 2 /\ None \notin QueueTypes

QueueFor(kind) == IF kind \in {"track", "album"} THEN "music" ELSE "spoken"

Item(ref) == [ref |-> ref, walk |-> None, replayOf |-> None,
              after |-> None, pos |-> None, list |-> None]
EmptyQueue == [cur |-> None, pos |-> None, user |-> <<>>, ctx |-> <<>>]
EmptySession ==
    [active |-> "music", switch |-> None, style |-> "youtube",
     q |-> [t \in QueueTypes |-> EmptyQueue], history |-> <<>>,
     pick |-> [t \in QueueTypes |-> None], digest |-> None, saved |-> <<>>]

(* The elements of a line that are kept, in their order.                   *)
Only(line, kept) ==
    LET at == {n \in DOMAIN line : line[n] \in kept}
        Nth(n) == CHOOSE m \in at : Cardinality(at \cap (1..m)) = n
    IN  [n \in 1..Cardinality(at) |-> line[Nth(n)]]

Seqs(s) == {s.history[i].seq : i \in DOMAIN s.history}
Newest(s) == IF s.history = <<>> THEN None ELSE Last(s.history).seq
NextSeq(s) == IF s.history = <<>> THEN 0 ELSE Last(s.history).seq + 1
Current(s) == s.q[s.active].cur

(* Every play's seq in the order things played: each right after the one   *)
(* it followed, first when it followed none that is still kept.            *)
PlayedOrder(s) ==
    LET Place(order, h) ==
            LET at == {i \in DOMAIN order : order[i] = h.after}
            IN  InsertAt(order, IF at = {} THEN 1 ELSE Min(at) + 1, h.seq)
    IN  FoldLeft(Place, <<>>, s.history)

Before(s, seq) ==
    LET order == PlayedOrder(s)
        at == CHOOSE i \in DOMAIN order : order[i] = seq
    IN  IF seq \notin Range(order) \/ at = 1 THEN None ELSE order[at - 1]

(* The play that comes next after item stops being current without ending. *)
Followed(s, item) ==
    IF item = None THEN Newest(s)
    ELSE IF item.replayOf # None THEN item.replayOf ELSE item.after

Recorded(s, type, item, after) ==
    [s EXCEPT !.history = Append(@, [seq |-> NextSeq(s), queue |-> type, ref |-> item.ref,
                                     after |-> after, list |-> item.list])]

(* A bug: an ended item's position stays.                                  *)
Cleared_KeepsPosition(queue) == [queue EXCEPT !.cur = None]

Cleared(queue) == [queue EXCEPT !.cur = None, !.pos = None]

(* A bug: a replay that ends is recorded again.                            *)
Retired_Replay(s, type) ==
    LET item == s.q[type].cur
        t == [s EXCEPT !.q[type] = Cleared(@)]
    IN  IF item = None THEN t ELSE Recorded(t, type, item, item.after)

(* Ends type's current item: recorded, unless it is a replay.              *)
Retired(s, type) ==
    LET item == s.q[type].cur
        t == [s EXCEPT !.q[type] = Cleared(@)]
    IN  IF item = None THEN t
        ELSE IF item.replayOf # None THEN t ELSE Recorded(t, type, item, item.after)

RetiredPlay(s, type) ==
    LET item == s.q[type].cur
    IN  IF item = None THEN Newest(s)
        ELSE IF item.replayOf # None THEN item.replayOf ELSE NextSeq(s)

Follow(item, after) == [item EXCEPT !.after = IF item.replayOf = None THEN after ELSE None]

Start(queue, item, after) ==
    [queue EXCEPT !.cur = Follow([item EXCEPT !.walk = None, !.pos = None], after),
                  !.pos = item.pos]

(* A bug: where it was is lost with what Back leaves.                      *)
Parked_Restarts(queue) == [queue.cur EXCEPT !.after = None]

Parked(queue) == [queue.cur EXCEPT !.pos = queue.pos, !.after = None]

(* Where the walk's entries at the front of a queue end.                   *)
WalkEnd(user) ==
    LET others == {i \in DOMAIN user : user[i].walk = None}
    IN  IF others = {} THEN Len(user) + 1 ELSE Min(others)

(* Makes item current in type; what that queue held while paused waits     *)
(* right after the walk's entries there.                                   *)
Land(s, type, item, after) ==
    LET queue == s.q[type]
        waiting == IF queue.cur = None THEN queue.user
                   ELSE InsertAt(queue.user, WalkEnd(queue.user), Parked(queue))
    IN  [s EXCEPT !.active = type,
                  !.q[type] = Start([queue EXCEPT !.user = waiting], item, after)]

InDigest(s, type) == type = "spoken" /\ s.digest # None

(* The newest play of your own on a queue: never one of a digest.          *)
NewestOwn(s, type) ==
    LET own == SelectSeq(s.history, LAMBDA h : h.queue = type /\ h.list = None)
    IN  IF own = <<>> THEN None ELSE Last(own).ref

AutoplayKept(s, type) ==
    \/ InDigest(s, type)
    \/ s.pick[type] # None /\ NewestOwn(s, type) # None /\ s.pick[type].after = NewestOwn(s, type)

StoredAutoplay(s, type) ==
    IF ~InDigest(s, type) /\ AutoplayKept(s, type) THEN s.pick[type].next ELSE None

(* Makes type active and plays it: its paused current item resumes, else   *)
(* its next item, else autoplay's pick.                                    *)
Play(s, type, after) ==
    LET queue == s.q[type]
        picked == StoredAutoplay(s, type)
        played ==
            IF queue.cur # None THEN [queue EXCEPT !.cur = Follow(@, after)]
            ELSE IF queue.user # <<>>
                 THEN Start([queue EXCEPT !.user = Tail(@)], Head(queue.user), after)
            ELSE IF queue.ctx # <<>>
                 THEN Start([queue EXCEPT !.ctx = Tail(@)], Head(queue.ctx), after)
            ELSE IF picked # None THEN Start(queue, Item(picked), after) ELSE queue
    IN  [s EXCEPT !.active = type, !.q[type] = played]

LowestWalk(s) ==
    LET marks == UNION {{s.q[t].user[i].walk : i \in DOMAIN s.q[t].user} : t \in QueueTypes}
        places == marks \ {None}
    IN  IF places = {} THEN None ELSE Min(places)

(* The queues whose first entry is the walk's, and the one that goes next. *)
WalkHeads(s) == {t \in QueueTypes : s.q[t].user # <<>> /\ Head(s.q[t].user).walk # None}
WalkNext(s) == CHOOSE t \in WalkHeads(s) : \A u \in WalkHeads(s) :
                   Head(s.q[t].user).walk <= Head(s.q[u].user).walk

StepNext(s) ==
    LET after == RetiredPlay(s, s.active)
        t == Retired(s, s.active)
        walked == WalkNext(t)
        target == IF s.switch = None THEN s.active ELSE s.switch
    IN  IF WalkHeads(t) # {}
        THEN Land([t EXCEPT !.q[walked].user = Tail(@)], walked, Head(t.q[walked].user), after)
        ELSE Play([t EXCEPT !.switch = None], target, after)

(* The play Back makes current again, None when there is none.             *)
BackTo(s) ==
    LET cur == Current(s)
        back == IF cur = None THEN Newest(s)
                ELSE IF cur.replayOf = None THEN cur.after ELSE Before(s, cur.replayOf)
    IN  IF back \in Seqs(s) THEN back ELSE None

StepBack(s) ==
    LET earlier == CHOOSE h \in Range(s.history) : h.seq = BackTo(s)
        left == s.q[s.active]
        place == IF LowestWalk(s) = None THEN 0 ELSE LowestWalk(s) - 1
        stepped == IF left.cur = None THEN s
                   ELSE [s EXCEPT !.q[s.active] =
                            [Cleared(left) EXCEPT !.user =
                                <<[Parked(left) EXCEPT !.walk = place]>> \o @]]
    IN  IF BackTo(s) = None THEN s
        ELSE Land(stepped, earlier.queue,
                  [Item(earlier.ref) EXCEPT !.replayOf = earlier.seq], None)

(* A bug: ending a walk clears it in every queue.                          *)
EndedWalk_Everywhere(user, isInto) == Only(user, {i \in Range(user) : i.walk = None})

(* What endWalk leaves of a queue's entries: in the queue a new play plays *)
(* in, its replays and the item Back first left go; elsewhere all stay.    *)
EndedWalk(user, isInto) ==
    LET Stays(i) == i.walk = None \/ ~isInto \/ (i.replayOf = None /\ i.walk # 0)
        stays == Only(user, {i \in Range(user) : Stays(i)})
        Unmarked(i) == IF i.walk = None THEN i
                       ELSE [i EXCEPT !.walk = None,
                                      !.replayOf = IF isInto THEN @ ELSE None]
    IN  [n \in DOMAIN stays |-> Unmarked(stays[n])]

(* The item Back first left, when the walk ends by a new play in its queue.*)
FirstLeft(s, into) ==
    IF into = None THEN {}
    ELSE {i \in Range(s.q[into].user) : i.walk = 0 /\ i.replayOf = None}

LastPlayed(s) == IF s.history = <<>> THEN None ELSE Last(PlayedOrder(s))

EndWalk(s, into) ==
    LET t == [s EXCEPT !.q = [type \in QueueTypes |->
                  [s.q[type] EXCEPT !.user = EndedWalk(@, type = into)]]]
    IN  IF FirstLeft(s, into) = {} THEN t
        ELSE Recorded(t, into, CHOOSE i \in FirstLeft(s, into) : TRUE, LastPlayed(s))

(* The play endWalk recorded.                                              *)
EndWalkPlay(s, into) == IF FirstLeft(s, into) = {} THEN None ELSE NextSeq(s)

SwitchTo(s, type) ==
    IF type = s.active THEN s
    ELSE Play([EndWalk(s, None) EXCEPT !.switch = None], type, Followed(s, Current(s)))

SetQueueStyle(s, style) ==
    IF style = "youtube"
    THEN [s EXCEPT !.style = style, !.q["music"].user = @ \o s.q["music"].ctx,
                   !.q["music"].ctx = <<>>]
    ELSE [s EXCEPT !.style = style]

(* ---------------------------- Digests' queues --------------------------- *)
(* A bug: a queue put aside again leaves its older copy.                   *)
Others_All(saved, owner) == saved

Others(saved, owner) == Only(saved, {q \in Range(saved) : q.owner # owner})
SavedOf(s, owner) == {q \in Range(s.saved) : q.owner = owner}

PutAside(s) ==
    LET queue == [s.q["spoken"] EXCEPT !.cur = IF @ = None THEN @ ELSE [@ EXCEPT !.after = None]]
    IN  [s EXCEPT !.saved = Append(Others(@, s.digest),
             [owner |-> s.digest, queue |-> queue, pick |-> s.pick["spoken"]])]

SwapSpoken(s, owner, after) ==
    LET back == SavedOf(s, owner)
        t == PutAside(s)
        held == CHOOSE q \in back : TRUE
        queue == IF back = {} THEN EmptyQueue ELSE held.queue
    IN  [t EXCEPT !.saved = Others(@, owner), !.digest = owner,
                  !.pick["spoken"] = IF back = {} THEN None ELSE held.pick,
                  !.q["spoken"] = IF queue.cur = None THEN queue
                                  ELSE [queue EXCEPT !.cur = Follow(@, after)]]

OnSpoken(s) == [s EXCEPT !.active = "spoken", !.switch = IF @ = "spoken" THEN None ELSE @]

(* Plays a digest in its own queue, from start, else from where it was     *)
(* left, else from its first episode.                                      *)
EnterDigest(s, digest, episodes, start) ==
    LET left == IF s.digest = digest THEN {s.q["spoken"]}
                ELSE {q.queue : q \in SavedOf(s, digest)}
        was == IF left = {} THEN None ELSE (CHOOSE q \in left : TRUE).cur
        first == IF start # None THEN start
                 ELSE IF was = None THEN episodes[1]
                 ELSE IF was.ref \in Range(episodes) THEN was.ref ELSE episodes[1]
        same == IF was = None THEN FALSE ELSE was.ref = first
        Listed(ref) == [Item(ref) EXCEPT !.list = digest]
        rest == Only(episodes, Range(episodes) \ {first})
        t == EndWalk(s, None)
        aside == IF s.digest = digest THEN t ELSE PutAside(t)
    IN  OnSpoken([aside EXCEPT
            !.saved = Others(@, digest), !.digest = digest, !.pick["spoken"] = None,
            !.q["spoken"] = [cur |-> Follow(Listed(first), Followed(s, Current(s))),
                             pos |-> IF same THEN (CHOOSE q \in left : TRUE).pos ELSE None,
                             user |-> [n \in DOMAIN rest |-> Listed(rest[n])],
                             ctx |-> <<>>]])

ResumeSaved(s, owner) ==
    IF SavedOf(s, owner) = {} THEN s
    ELSE OnSpoken(SwapSpoken(EndWalk(s, None), owner, Followed(s, Current(s))))

(* ------------------------------- Adding ---------------------------------- *)
Entries(queue) ==
    (IF queue.cur = None THEN <<>> ELSE <<queue.cur>>) \o queue.user \o queue.ctx

Holds(queue, refs) == \E i \in Range(Entries(queue)) : i.ref \in refs

(* Whether queue holds ref as one its digest's rule put there.             *)
DigestHolds(queue, ref) ==
    \E i \in Range(Entries([queue EXCEPT !.ctx = <<>>])) : i.list # None /\ i.ref = ref

DefaultAction(s, kind) ==
    LET playing == IF Current(s) = None THEN None ELSE s.active
    IN  IF playing = None THEN "now"
        ELSE IF QueueFor(kind) = "spoken" THEN "next"
        ELSE IF playing = "spoken" THEN "now"
        ELSE IF kind = "track" THEN "next" ELSE "end"

(* A bug: what is put next in a walk takes the place of its first entry.   *)
AddNext_SamePlace(s, type, items) ==
    LET lowest == LowestWalk(s)
        n == Len(items)
        queue == s.q[type]
        paused == IF queue.cur = None THEN <<>> ELSE <<Parked(queue)>>
    IN  IF lowest # None
        THEN [s EXCEPT !.q[type].user =
                 [i \in 1..n |-> [items[i] EXCEPT !.walk = lowest - n + i]] \o @]
        ELSE IF type # s.active
        THEN [s EXCEPT !.q[type] = [Cleared(queue) EXCEPT !.user = items \o paused \o @],
                       !.switch = type]
        ELSE [s EXCEPT !.q[type].user = items \o @]

AddNext(s, type, items) ==
    LET lowest == LowestWalk(s)
        n == Len(items)
        queue == s.q[type]
        paused == IF queue.cur = None THEN <<>> ELSE <<Parked(queue)>>
    IN  IF lowest # None
        THEN [s EXCEPT !.q[type].user =
                 [i \in 1..n |-> [items[i] EXCEPT !.walk = lowest - n + i - 1]] \o @]
        ELSE IF type # s.active
        THEN [s EXCEPT !.q[type] = [Cleared(queue) EXCEPT !.user = items \o paused \o @],
                       !.switch = type]
        ELSE [s EXCEPT !.q[type].user = items \o @]

(* Play now: outside a digest's queue it first goes back to your own.      *)
AddNow(s0, type, items, from) ==
    LET leaves == type = "spoken" /\ s0.digest # None
                  /\ ~Holds(s0.q[type], {items[i].ref : i \in DOMAIN items})
        s == IF leaves THEN SwapSpoken(EndWalk(s0, None), None, Followed(s0, Current(s0))) ELSE s0
        ended == Retired(s, type)
        after == IF type = s.active THEN RetiredPlay(s, type) ELSE Followed(ended, Current(s))
        recorded == EndWalkPlay(ended, type)
        walked == EndWalk(ended, type)
        into == Start(walked.q[type], items[1], IF recorded = None THEN after ELSE recorded)
        rest == Tail(items)
        onto == IF type = "music" /\ s.style = "spotify" /\ from
                THEN [into EXCEPT !.ctx = rest \o @]
                ELSE [into EXCEPT !.user = rest \o @, !.ctx = IF from THEN <<>> ELSE @]
    IN  [walked EXCEPT !.q[type] = onto, !.active = type,
                       !.switch = IF @ = type THEN None ELSE @]

(* thing: what the index expands an item to, or a list's entries as one.   *)
Add(s, thing, how) ==
    LET type == QueueFor(thing.kind)
        digest == IF type = "spoken" THEN s.digest ELSE None
        items == [i \in DOMAIN thing.entries |->
                     [Item(thing.entries[i]) EXCEPT !.list =
                         IF DigestHolds(s.q[type], thing.entries[i]) THEN digest ELSE None]]
        action == IF how = "default" THEN DefaultAction(s, thing.kind) ELSE how
    IN  CASE action = "end"  -> [s EXCEPT !.q[type].user = @ \o items]
          [] action = "next" -> AddNext(s, type, items)
          [] action = "now"  -> AddNow(s, type, items, thing.from)

(* -------------- As the sessions call it and store what it makes ---------- *)
(* What saveSession stores of a value: a history keeps its newest plays.   *)
Stored(t) ==
    [t EXCEPT !.history = IF Len(@) > Kept THEN SubSeq(@, Len(@) - Kept + 1, Len(@)) ELSE @]

AllQueues(t) == {t.q[u] : u \in QueueTypes} \cup {q.queue : q \in Range(t.saved)}
AllEntries(t) ==
    Entries(t.q["music"]) \o Entries(t.q["spoken"]) \o
    FoldLeft(LAMBDA all, q : all \o Entries(q.queue), <<>>, t.saved)

(* A saved queue whose current item finished, and what then follows it.    *)
SavedNext(q) ==
    IF q.queue.cur # None /\ q.queue.pos = None THEN None
    ELSE IF q.queue.user # <<>> THEN Head(q.queue.user).ref
    ELSE IF q.queue.ctx # <<>> THEN Head(q.queue.ctx).ref
    ELSE IF q.queue.cur = None \/ q.pick = None THEN None
    ELSE IF q.pick.after = q.queue.cur.ref THEN q.pick.next ELSE None

Resumable(t, refs) ==
    Only(t.saved, {q \in Range(t.saved) : q.queue.cur # None /\ q.queue.cur.ref \in refs})
ResumableNext(t, refs) == Only(t.saved, {q \in Range(t.saved) : SavedNext(q) \in refs})

(* Play now of a thing: a saved queue it is in comes back whole, else it   *)
(* plays now; finished is whether a position is at its item's end.         *)
PlayedNow(t, thing, finished) ==
    LET refs == Range(thing.entries)
    IN  IF Resumable(t, refs) # <<>> THEN ResumeSaved(t, Resumable(t, refs)[1].owner)
        ELSE IF finished /\ ResumableNext(t, refs) # <<>>
        THEN StepNext(ResumeSaved(t, ResumableNext(t, refs)[1].owner))
        ELSE Add(t, thing, "now")
=============================================================================
