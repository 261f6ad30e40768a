------------------------------ MODULE QueuePlays ------------------------------
(***************************************************************************)
(* Plays on one device and what they do to its listening session           *)
(* (server/src/queues/sessions.ts): a plan, which is opened and then waits *)
(* for its book's chapters with taps, reports and other plans going on;    *)
(* the progress reports of the plays, late ones too; and the autoplay runs *)
(* every change starts, each waiting on upstreams before its picks are     *)
(* kept.                                                                   *)
(*                                                                         *)
(* A device's plans are opened one at a time (OpenPlays.planOn), but each  *)
(* then changes the session on its own.  Digests, the queue style and      *)
(* saved queues are in QueueTaps.                                          *)
(***************************************************************************)
EXTENDS QueueEngine

CONSTANTS
    Things,       \* what plans play: [kind, entries, from]
    Picks,        \* what autoplay may find for each queue
    Ids,          \* bound: plans loading at once
    Runs,         \* bound: autoplay runs under way at once
    MaxEntries,   \* bound: entries queued and current at once
    MaxPlays      \* bound: plays recorded

(* What plans play has entries, and only a book its chapters.              *)
ASSUME PlayConstants ==
    /\ Runs \subseteq Nat /\ None \notin Ids /\ None \notin Int /\ MaxEntries \in Nat
    /\ \A thing \in Things : thing.entries \in Seq(Range(thing.entries)) \ {<<>>}
    /\ \A thing, book \in Things :
          /\ thing.kind # "album" /\ book.kind = "book"
          /\ Range(thing.entries) \cap Range(book.entries) # {}
          => thing = book

VARIABLES
    s,         \* the stored session
    loading,   \* the plans opened whose chapters are being read
    play,      \* the device's current play, with the plays its reports recorded
    runs       \* the autoplay runs under way

vars == <<s, loading, play, runs>>

Refs == (UNION {Range(t.entries) : t \in Things}) \cup (UNION {Picks[q] : q \in QueueTypes})

(* The chapters of one book have one ref in the index, the book's.         *)
Key(ref) ==
    LET books == {t \in Things : t.kind = "book" /\ ref \in Range(t.entries)}
    IN  IF books = {} THEN ref ELSE Head((CHOOSE t \in books : TRUE).entries)
Keys(thing) == IF thing.kind = "album" THEN {} ELSE {Key(r) : r \in Range(thing.entries)}

(* What autoplay on a queue follows: nothing while entries wait there.     *)
FollowedBy(t, type) ==
    IF t.q[type].user \o t.q[type].ctx # <<>> \/ InDigest(t, type) THEN None
    ELSE IF t.q[type].cur # None THEN t.q[type].cur.ref ELSE NewestOwn(t, type)

NoRun == [tries |-> 0, fresh |-> FALSE, after |-> [type \in QueueTypes |-> None]]
RunOn(t, tries) == [tries |-> tries, fresh |-> TRUE,
                    after |-> [type \in QueueTypes |-> FollowedBy(t, type)]]

(* A bug: picks are kept without looking at the session's revision.        *)
Outdated_Unchecked(r) == r

(* A run whose revision is past: whatever it finds is refused, and the     *)
(* second time it leaves the picks to the run that change began.           *)
Outdated(r) == IF r.tries # 1 THEN NoRun
               ELSE [r EXCEPT !.fresh = FALSE, !.after = [type \in QueueTypes |-> None]]
Free(rs) == {n \in Runs : rs[n].tries = 0}
Refreshed(rs, t) == [rs EXCEPT ![Min(Free(rs))] = RunOn(t, 1)]

(* Stores a session at its next revision and works autoplay out again.     *)
Save(t) ==
    /\ Free(runs) # {}
    /\ Len(AllEntries(t)) <= MaxEntries
    /\ NextSeq(t) <= MaxPlays
    /\ LowestWalk(t) # None => LowestWalk(t) >= 0 - MaxEntries
    /\ s' = Stored(t)
    /\ runs' = Refreshed([n \in Runs |-> Outdated(runs[n])], s')

(* A bug: a tap leaves the play it moved on from current.                  *)
Change_KeepsPlay(t, moves) == Save(t) /\ UNCHANGED <<play, loading>>

(* A tap: a play whose entry the controls leave is no longer current.      *)
Change(t, moves) ==
    /\ Save(t)
    /\ play' = IF moves THEN None ELSE play
    /\ UNCHANGED loading

StepOn ==
    LET t == StepNext(s)
    IN  Change(t, Current(s) # None \/ Current(t) # None \/ t.active # s.active)
StepBackwards == Change(StepBack(s), BackTo(s) # None)
SetActive(type) == type # s.active /\ Change(SwitchTo(s, type), TRUE)
PutNext(thing) == Change(Add(s, thing, "next"), FALSE)
PlayNow(thing) == Change(PlayedNow(s, thing, FALSE), TRUE)

(* ------------------------------ Opening a plan --------------------------- *)
(* The session n steps on.                                                 *)
SteppedOn(t, n) == FoldLeft(LAMBDA u, i : StepNext(u), t, [i \in 1..n |-> i])

(* How many steps reach thing past only what the last plan played.         *)
StepsTo(t, thing, before) ==
    LET At(n) == Current(SteppedOn(t, n))
    IN  {n \in 1..MaxEntries :
            /\ At(n) # None /\ Key(At(n).ref) \in Keys(thing)
            /\ \A m \in 1..(n - 1) : At(m) # None /\ Key(At(m).ref) \in before \ Keys(thing)}

HeldBy(t, thing) == {q \in QueueTypes : t.q[q].cur # None /\ t.q[q].cur.ref \in Range(thing.entries)}

(* The session once thing plays; heldBefore is what the last plan played.  *)
PlayedOn(t, thing, heldBefore) ==
    LET before == {Key(r) : r \in heldBefore} \cup
                  (IF Current(t) = None THEN {} ELSE {Key(Current(t).ref)})
        steps == IF Current(t) = None THEN {} ELSE StepsTo(t, thing, before)
    IN  IF HeldBy(t, thing) # {} THEN SwitchTo(t, CHOOSE q \in HeldBy(t, thing) : TRUE)
        ELSE IF steps # {} THEN SteppedOn(t, Min(steps))
        ELSE PlayedNow(t, thing, TRUE)

(* A play is opened, in its device's turn, and becomes the current one.    *)
(* before: what the device held when it was asked for, an upstream answer  *)
(* ago, whatever was opened meanwhile.                                     *)
OpenPlay(id, thing, before) ==
    /\ loading[id] = None
    /\ loading' = [loading EXCEPT ![id] = [thing |-> thing, before |-> before]]
    /\ play' = [id |-> id, thing |-> thing, since |-> None,
                recorded |-> [r \in Range(thing.entries) |-> None]]
    /\ UNCHANGED <<s, runs>>

(* Its chapters were read: the session plays it, if it does not already,   *)
(* and its plan is answered, so that its reports may come.                 *)
Loaded(id) ==
    /\ loading[id] # None
    /\ IF s.active \in HeldBy(s, loading[id].thing)
       THEN Free(runs) # {} /\ runs' = Refreshed(runs, s) /\ UNCHANGED s
       ELSE Save(PlayedOn(s, loading[id].thing, loading[id].before))
    /\ loading' = [loading EXCEPT ![id] = None]
    /\ play' = IF play = None THEN None
               ELSE IF play.id = id THEN [play EXCEPT !.since = NextSeq(s')] ELSE play

(* -------------------------------- Reports -------------------------------- *)
(* A bug: what a play recorded is not noted.                                *)
Noted_Not(recorded, passed) == recorded

Noted(recorded, passed) == [recorded EXCEPT ![passed.ref] = passed.seq]

(* A bug: with the play dropped again goes the one it repeats.              *)
Dropped_WithEarlier(t, passed, earlier) ==
    [t EXCEPT !.history = SelectSeq(@, LAMBDA h : h.seq \notin {passed.seq, earlier})]

(* t without the play it just recorded; what follows it follows earlier.   *)
Dropped(t, passed, earlier) ==
    [t EXCEPT !.history = Front(@),
              !.q[t.active].cur = IF @.after = passed.seq THEN [@ EXCEPT !.after = earlier] ELSE @]

(* One step through the plan, onto ref: an entry this play recorded        *)
(* already is not recorded again.                                          *)
PassEntry(step, ref) ==
    LET t == StepNext(step.t)
        plays == Len(t.history) > Len(step.t.history)
        passed == Last(t.history)
        earlier == step.recorded[passed.ref]
        lands == Current(t) # None /\ Current(t).ref = ref
    IN  IF ~step.ok \/ ~lands THEN [step EXCEPT !.ok = FALSE]
        ELSE IF ~plays THEN [step EXCEPT !.t = t]
        ELSE IF earlier = None THEN [step EXCEPT !.t = t, !.recorded = Noted(@, passed)]
        ELSE [step EXCEPT !.t = Dropped(t, passed, earlier)]

(* The session stepped through exactly path, when every step lands on it.  *)
SteppedThrough(t, path, recorded) ==
    FoldLeft(PassEntry, [t |-> t, recorded |-> recorded, ok |-> TRUE], path)

(* A bug: the entry a seek back leaves is lost.                             *)
PutBack_LosesLeft(entries, to, from) == [n \in 1..(from - to - 1) |-> Item(entries[to + n])]

PutBack(entries, to, from) == [n \in 1..(from - to) |-> Item(entries[to + n])]

(* Moved back from the plan's entry from to its entry to: those between,   *)
(* and the one left, wait again ahead of what followed them.               *)
MovedBack(t, type, entries, to, from) ==
    LET q == t.q[type]
        target == entries[to]
        inCtx == {n \in DOMAIN q.ctx : from < Len(entries) /\ q.ctx[n].ref = entries[from + 1]}
        last == SelectSeq(t.history, LAMBDA h : h.queue = type /\ h.ref = target)
        after == IF last # <<>> THEN Last(last).after
                 ELSE IF q.cur.replayOf # None THEN q.cur.replayOf ELSE q.cur.after
        place == IF inCtx = {} THEN WalkEnd(q.user) ELSE Min(inCtx)
        Put(line) == SubSeq(line, 1, place - 1) \o PutBack(entries, to, from)
                         \o SubSeq(line, place, Len(line))
    IN  [t EXCEPT !.q[type].cur = [Item(target) EXCEPT !.after = after],
                  !.q[type].user = IF inCtx = {} THEN Put(@) ELSE @,
                  !.q[type].ctx = IF inCtx = {} THEN @ ELSE Put(@)]

At(type, t, ref) == [t EXCEPT !.q[type].pos = ref]

(* A position kept without moving the revision; picks over two minutes old *)
(* may be worked out again.                                                *)
KeepPosition(t) ==
    /\ s' = t
    /\ \/ UNCHANGED runs
       \/ /\ Free(runs) = Runs
          /\ runs' = Refreshed(runs, t)

(* A report in the current play's entry at.  Of any other play, one a tap  *)
(* or a plan left behind or one closed, a late report changes nothing.     *)
Report(at) ==
    /\ play # None
    /\ play.since # None
    /\ at \in DOMAIN play.thing.entries
    /\ \E type \in HeldBy(s, play.thing) :
         LET entries == play.thing.entries
             placed == Min({n \in DOMAIN entries : entries[n] = s.q[type].cur.ref})
             onward == SteppedThrough(s, SubSeq(entries, placed + 1, at), play.recorded)
         IN  \/ /\ placed = at \/ type # s.active \/ (placed < at /\ ~onward.ok)
                /\ KeepPosition(IF placed = at THEN At(type, s, entries[at]) ELSE s)
                /\ UNCHANGED play
             \/ /\ placed < at /\ type = s.active /\ onward.ok
                /\ Save(At(type, onward.t, entries[at]))
                /\ play' = [play EXCEPT !.recorded = onward.recorded]
             \/ /\ placed > at /\ type = s.active
                /\ Save(At(type, MovedBack(s, type, entries, at, placed), entries[at]))
                /\ UNCHANGED play
    /\ UNCHANGED loading

(* -------------------------------- Autoplay ------------------------------- *)
(* What a run found for what each queue was on when it read the session;   *)
(* None when nothing follows there yet, or its upstream failed.            *)
Found(r, type) ==
    IF r.after[type] = None THEN {None}
    ELSE {None} \cup {[after |-> r.after[type], next |-> next] : next \in Picks[type] \cup {None}}

(* A run has its picks: they are kept on the revision it read; past it, it *)
(* works them out once more.                                               *)
RunEnds(n) ==
    /\ runs[n].tries # 0
    /\ IF runs[n].fresh
       THEN /\ \E music \in Found(runs[n], "music") : \E spoken \in Found(runs[n], "spoken") :
                  s' = [s EXCEPT !.pick = [type \in QueueTypes |->
                            IF type = "music" THEN music ELSE spoken]]
            /\ runs' = [runs EXCEPT ![n] = NoRun]
       ELSE /\ runs' = [runs EXCEPT ![n] = RunOn(s, 2)]
            /\ UNCHANGED s
    /\ UNCHANGED <<loading, play>>

Init ==
    /\ s = EmptySession
    /\ loading = [id \in Ids |-> None]
    /\ play = None
    /\ runs = [n \in Runs |-> NoRun]

Heard == {{}} \cup {Range(thing.entries) : thing \in Things}
Next ==
    \/ StepOn \/ StepBackwards
    \/ \E type \in QueueTypes : SetActive(type)
    \/ \E thing \in Things : \/ PutNext(thing) \/ PlayNow(thing)
                             \/ \E id \in Ids : \E before \in Heard : OpenPlay(id, thing, before)
    \/ \E id \in Ids : Loaded(id)
    \/ \E at \in 1..MaxEntries : Report(at)
    \/ \E n \in Runs : RunEnds(n)

Spec == Init /\ [][Next]_vars

(* ------------------------------ Properties ------------------------------- *)
(* Picks are those of what each queue is on, once no run is under way, as  *)
(* the play or Next that waits for the run expects.                        *)
PicksCurrent ==
    Free(runs) = Runs =>
        \A type \in QueueTypes : s.pick[type] # None => s.pick[type].after = FollowedBy(s, type)

(* History only grows: a play kept stays as it was (HistoryRewritten is    *)
(* never thrown), whatever reports drop and record again.                  *)
HistoryOnlyGrows == [][
    \A i \in DOMAIN s.history :
        \/ \E j \in DOMAIN s'.history : s'.history[j] = s.history[i]
        \/ s'.history # <<>> /\ s.history[i].seq < s'.history[1].seq
    ]_s

ByReport == play # None /\ UNCHANGED loading /\ \E at \in DOMAIN play.thing.entries : Report(at)

(* A play's reports record each entry of its plan once, however it seeks.  *)
RecordedOnce == [][
    s'.history # s.history /\ ByReport =>
        \A h \in Range(s'.history) \ Range(s.history) : \A earlier \in Range(s'.history) :
            earlier.ref = h.ref /\ earlier.seq >= play.since => earlier = h
    ]_s

(* A plan plays on from where the session is, entry after entry, to its    *)
(* end: the player may go through them without asking.                     *)
PlaysOn(t, entries) ==
    /\ Current(t) # None /\ Current(t).ref \in Range(entries)
    /\ LET placed == Min({n \in DOMAIN entries : entries[n] = Current(t).ref})
       IN  \A n \in 1..(Len(entries) - placed) :
              LET cur == Current(SteppedOn(t, n))
              IN  cur # None /\ cur.ref = entries[placed + n]

(* No report takes that away: a seek back puts what it passed back before  *)
(* what follows, a seek on skips nothing; a walk or a switch goes first.   *)
SeekKeepsPlan == [][
    ByReport /\ s.switch = None /\ LowestWalk(s) = None /\ PlaysOn(s, play.thing.entries) =>
        PlaysOn(s', play.thing.entries)
    ]_s

(* Once every plan asked for has its answer, the device's current play is  *)
(* of the item its session plays.                                          *)
PlayIsCurrent ==
    play # None /\ (\A id \in Ids : loading[id] = None) =>
        Current(s) # None /\ Current(s).ref \in Range(play.thing.entries)
=============================================================================
