------------------------------- MODULE QueueTaps -------------------------------
(***************************************************************************)
(* One device's listening session under every tap that changes its queues  *)
(* (server/src/routes/sessions.ts and lists.ts, saved by                   *)
(* store/listening.ts): each reads the stored session, changes it with the *)
(* queue engine and writes it whole, with nothing awaited in between.      *)
(* Autoplay and progress reports are in QueuePlays.                        *)
(***************************************************************************)
EXTENDS QueueEngine

CONSTANTS
    Things,       \* what items expand to: [kind, entries, from], from a BOOLEAN
    Digests,      \* each digest's possible rows: digest -> a set of sequences of refs
    Heard,        \* the refs a person listens into, so that their position is kept
    MaxEntries,   \* bound: entries queued, current and saved at once
    MaxPlays      \* bound: plays recorded

VARIABLES
    s,            \* the stored session
    lists         \* the digests not deleted

vars == <<s, lists>>

Refs == (UNION {Range(t.entries) : t \in Things}) \cup
        (UNION {UNION {Range(rows) : rows \in Digests[d]} : d \in DOMAIN Digests})

Marks == Nat \cup {None}
ItemShape == [ref : Refs, walk : Int \cup {None}, replayOf : Marks, after : Marks,
              pos : Refs \cup {None}, list : DOMAIN Digests \cup {None}]

(* What is played has entries, and nothing played is the absence of it.    *)
ASSUME TapConstants ==
    /\ \A thing \in Things : thing.entries \in Seq(Refs) \ {<<>>} /\ thing.from \in BOOLEAN
    /\ \A d \in DOMAIN Digests : \A rows \in Digests[d] : rows \in Seq(Refs) \ {<<>>}
    /\ None \notin ItemShape /\ None \notin Int

Save(t) ==
    /\ Len(AllEntries(t)) <= MaxEntries
    /\ NextSeq(t) <= MaxPlays
    /\ s' = Stored(t)
    /\ UNCHANGED lists

Init ==
    /\ s = EmptySession
    /\ lists = DOMAIN Digests

AddToQueue(thing, how) == Save(Add(s, thing, how))
PlayNow(thing, finished) == Save(PlayedNow(s, thing, finished))
Next_ == Save(StepNext(s))
Back == Save(StepBack(s))
SetActive(type) == type # s.active /\ Save(SwitchTo(s, type))
Restyle(style) == style # s.style /\ Save(SetQueueStyle(s, style))

(* A list's play: its entries as one item, from nothing; started over, it  *)
(* plays from its beginning.                                               *)
PlayList(thing) ==
    /\ QueueFor(thing.kind) = "spoken"
    /\ LET t == Add(s, thing, "now")
       IN  \/ Save([t EXCEPT !.q["spoken"].ctx = <<>>])
           \/ Save([t EXCEPT !.q["spoken"].ctx = <<>>, !.q["spoken"].pos = t.q["spoken"].cur.ref])

PlayDigest(digest, rows, start) ==
    /\ digest \in lists
    /\ start \in Range(rows) \cup {None}
    /\ Save(EnterDigest(s, digest, rows, start))

(* A report of where the device is in a queue's current item.              *)
Listen(type) ==
    /\ s.q[type].cur # None
    /\ s.q[type].cur.ref \in Heard
    /\ s' = [s EXCEPT !.q[type].pos = s.q[type].cur.ref]
    /\ s' # s
    /\ UNCHANGED lists

(* A deleted digest's playing queue becomes your own, its saved one goes.  *)
DeleteList(digest) ==
    /\ digest \in lists
    /\ lists' = lists \ {digest}
    /\ LET Own(queue) ==
               [queue EXCEPT !.cur = IF @ = None THEN @ ELSE IF @.list = digest
                                     THEN [@ EXCEPT !.list = None] ELSE @,
                             !.user = [n \in DOMAIN @ |-> IF @[n].list = digest
                                       THEN [@[n] EXCEPT !.list = None] ELSE @[n]]]
           kept == Only(s.saved, {q \in Range(s.saved) : q.owner # digest /\
                                                 (s.digest = digest => q.owner # None)})
       IN  s' = [s EXCEPT !.saved = kept, !.q = [u \in QueueTypes |-> Own(s.q[u])],
                          !.digest = IF @ = digest THEN None ELSE @]

Next ==
    \/ \E thing \in Things : \/ \E how \in {"next", "end"} : AddToQueue(thing, how)
                             \/ \E finished \in BOOLEAN : PlayNow(thing, finished)
                             \/ PlayList(thing)
    \/ Next_ \/ Back
    \/ \E type \in QueueTypes : SetActive(type) \/ Listen(type)
    \/ \E style \in {"spotify", "youtube"} : Restyle(style)
    \/ \E d \in DOMAIN Digests : \E rows \in Digests[d] : \E start \in Refs \cup {None} :
          PlayDigest(d, rows, start)
    \/ \E d \in DOMAIN Digests : DeleteList(d)

Spec == Init /\ [][Next]_vars

(* ------------------------------ Properties ------------------------------- *)
(* A position is always one in the item it is kept with, and a queue with  *)
(* no current item has none (PositionWithoutItem is never thrown).         *)
PositionIsItsItems ==
    \A q \in AllQueues(s) :
        /\ q.pos # None => q.cur # None /\ q.cur.ref = q.pos
        /\ \A i \in Range(q.user) : i.pos \in {None, i.ref}

(* Every owner of a queue is a list that still exists; no two queues have  *)
(* one owner, nor has a saved one the digest now playing; and what a       *)
(* digest's rule put in a queue is in that digest's alone: leaving it      *)
(* there marks an episode played on Audiobookshelf.                        *)
DigestsAtHome ==
    LET Of(queue, owner) == \A i \in Range(Entries(queue)) : i.list \in {None, owner}
    IN  /\ {s.digest} \cup {kept.owner : kept \in Range(s.saved)} \subseteq lists \cup {None}
        /\ Of(s.q["music"], None) /\ Of(s.q["spoken"], s.digest)
        /\ \A i \in DOMAIN s.saved :
              /\ Of(s.saved[i].queue, s.saved[i].owner)
              /\ s.saved[i].owner # s.digest
              /\ \A j \in DOMAIN s.saved : s.saved[i].owner = s.saved[j].owner => i = j

(* A replay names a play of that very ref, unless that play was pushed out;*)
(* what a current item follows was played, or pushed out; and a queue's    *)
(* walk entries are at its front, the lowest place first, so that Next     *)
(* takes both queues' in the order Back left them.                         *)
WalkIsPlays ==
    /\ \A queue \in AllQueues(s) : \A i \in Range(Entries(queue)) :
        /\ i.replayOf # None =>
              \/ \E h \in Range(s.history) : h.seq = i.replayOf /\ h.ref = i.ref
              \/ s.history # <<>> /\ i.replayOf < s.history[1].seq
        /\ i.after # None => i.after \in Seqs(s) \/ i.after < s.history[1].seq
    /\ \A type \in QueueTypes : LET user == s.q[type].user IN
        \A i, j \in DOMAIN user : i < j /\ user[j].walk # None =>
            user[i].walk # None /\ user[i].walk < user[j].walk

(* Forward undoes Back: the same item is current, where it was and after   *)
(* the play it was after, before the same entries, and nothing is recorded.*)
ForwardUndoesBack ==
    LET t == StepNext(StepBack(s))
        RefsOf(q) == [n \in DOMAIN q.user |-> q.user[n].ref]
    IN  Current(s) # None /\ BackTo(s) # None =>
            /\ t.active = s.active /\ t.history = s.history
            /\ Current(t) = Current(s)
            /\ t.q[s.active].pos = s.q[s.active].pos
            /\ RefsOf(t.q[s.active]) = RefsOf(s.q[s.active])

(* Where a ref waits in a queue to be played: a replay is a play already.  *)
Waits(queue, ref) ==
    {n \in DOMAIN Entries(queue) :
        Entries(queue)[n].ref = ref /\ Entries(queue)[n].replayOf = None}
Plays(history, ref) == {n \in DOMAIN history : history[n].ref = ref}

(* How often a ref waits or was played.                                    *)
Counted(t, ref) ==
    Cardinality(Plays(t.history, ref)) +
    Cardinality(Waits(t.q["music"], ref)) + Cardinality(Waits(t.q["spoken"], ref)) +
    SumFunction([n \in DOMAIN t.saved |-> Cardinality(Waits(t.saved[n].queue, ref))])

(* Next records the item it leaves exactly once and loses none.            *)
NextRecordsOnce ==
    \A ref \in Refs : Counted(StepNext(s), ref) = Counted(s, ref)

(* Nothing leaves a queue unrecoverably: what waits to be played waits on  *)
(* or was played, save what a digest's own queue held when it is played    *)
(* again, and the own queue saved for a digest that is deleted.            *)
Waiting(t, ref) == \E queue \in AllQueues(t) : Waits(queue, ref) # {}
Rebuilt(digest) == IF s.digest = digest THEN {s.q["spoken"]}
                   ELSE {q.queue : q \in SavedOf(s, digest)}
GoesWith(digest) == {q.queue : q \in SavedOf(s, digest) \cup
                               (IF s.digest = digest THEN SavedOf(s, None) ELSE {})}
NothingLost == [][\A ref \in Refs :
    \/ Waiting(s, ref) => Waiting(s, ref)' \/ Plays(s.history, ref)' # {}
    \/ \E digest \in lists : \E rows \in Digests[digest] : \E start \in Refs \cup {None} :
          /\ PlayDigest(digest, rows, start)
          /\ \E queue \in Rebuilt(digest) : Waits(queue, ref) # {}
    \/ \E digest \in lists \ lists' : \E queue \in GoesWith(digest) : Waits(queue, ref) # {}
    ]_vars
=============================================================================
