---------------------------- MODULE QueueTapsProofs ----------------------------
(***************************************************************************)
(* Proofs about the taps: for any things played, digests, rows and number  *)
(* of plays kept, and any order of taps, a position is one in the item it  *)
(* is kept with (PositionIsItsItems); every queue put aside is a living    *)
(* list's only one, and what a digest put in a queue stays in its own      *)
(* (DigestsAtHome); a replay names a play of its ref, what is current      *)
(* follows a play, and a walk is at the front of its queue in its order    *)
(* (WalkIsPlays); Forward undoes Back (ForwardUndoesBack); and Next        *)
(* records the item it leaves once, losing none (NextRecordsOnce); and no  *)
(* tap loses what waits to be played, save what a digest played again held *)
(* and what goes with a digest that is deleted (NothingLost).              *)
(*                                                                         *)
(* The invariant is what a session is (Session): each queue is of its      *)
(* owner's items, each item at its own position, of plays its history had. *)
(* Every operator of the engine makes a session of a session, as long as   *)
(* the history only goes on (GoesOn), as it does when a play is recorded   *)
(* and when the oldest is pushed out. A queue is put aside, and a new play *)
(* starts, only once the walk has ended (Unwalking); what Back leaves is   *)
(* placed below all others, so that Next finds it first.                   *)
(*                                                                         *)
(* That Next loses nothing is counted: a ref's plays and its places in the *)
(* queues it waits in add up to as many after a step as before, operator   *)
(* by operator (RecordedCounts, RetiredCounts, LandCounts, PlayCounts).    *)
(*                                                                         *)
(* That no tap loses anything is carried (Carries): what waited before an  *)
(* operator waits after it or is among the plays it records, two at the    *)
(* most, so that none is pushed out as it is stored. It takes one thing    *)
(* more of a session: an album's context is only where Spotify's style     *)
(* keeps one (Contexts), so that a play that drops a context drops none.   *)
(***************************************************************************)
EXTENDS QueueTaps, SequenceTheorems, FiniteSetTheorems, WellFoundedInduction, TLAPS

----------------------------------------------------------------------------
(* What a session is made of                                               *)

(* A play's seq a session may name: it was played, kept or pushed out.     *)
Past(h, seq) == h # <<>> /\ seq <= Last(h).seq
PlayOf(h, seq, ref) == Past(h, seq) /\ \A n \in DOMAIN h : h[n].seq = seq => h[n].ref = ref

(* The items a queue of owner's may hold: at their own positions, replays  *)
(* of plays of theirs, following what was played.                          *)
ItemOf(h, owner) ==
    {i \in ItemShape :
        /\ i.list \in {None, owner}
        /\ i.pos \in {None, i.ref}
        /\ i.replayOf # None => PlayOf(h, i.replayOf, i.ref)
        /\ i.after # None => Past(h, i.after)}
CurOf(h, owner) ==
    {i \in ItemOf(h, owner) :
        i.walk = None /\ i.pos = None /\ (i.replayOf # None => i.after = None)}
Unwalked(h, owner) == {i \in ItemOf(h, owner) : i.walk = None}

(* The walk's entries are at the front, the lowest place first.            *)
Marked(user) ==
    \A i, j \in DOMAIN user : i < j /\ user[j].walk # None =>
        user[i].walk # None /\ user[i].walk < user[j].walk

QueueOf(h, owner) ==
    {queue \in [cur : CurOf(h, owner) \cup {None}, pos : Refs \cup {None},
                user : Seq(ItemOf(h, owner)), ctx : Seq(Unwalked(h, None))] :
        /\ queue.pos # None => queue.cur # None /\ queue.cur.ref = queue.pos
        /\ Marked(queue.user)}
Walkless(h, owner) == {queue \in QueueOf(h, owner) : queue.user \in Seq(Unwalked(h, owner))}

(* Plays are numbered one by one.                                          *)
PlaysOf(h) ==
    /\ h \in Seq(Range(h))
    /\ \A n \in DOMAIN h : /\ h[n].seq \in Nat /\ h[n].seq = h[1].seq + n - 1
                           /\ h[n].ref \in Refs /\ h[n].queue \in QueueTypes

(* Every queue put aside is its owner's only one, and walks nowhere.       *)
AsideOf(h, owners, saved) ==
    /\ saved \in Seq(Range(saved))
    /\ \A n \in DOMAIN saved :
          saved[n] \in [owner : owners, queue : Walkless(h, saved[n].owner), pick : {None}]
    /\ \A m, n \in DOMAIN saved : saved[m].owner = saved[n].owner => m = n

Shaped(t) == t \in [active : {t.active}, switch : {t.switch}, style : {t.style}, q : {t.q},
                    history : {t.history}, pick : {t.pick}, digest : {t.digest}, saved : {t.saved}]

Session(t, alive) ==
    /\ Shaped(t)
    /\ alive \subseteq DOMAIN Digests \cup {None}
    /\ t.active \in QueueTypes
    /\ t.switch \in QueueTypes \cup {None}
    /\ t.style \in {"spotify", "youtube"}
    /\ t.digest \in alive
    /\ t.q \in [QueueTypes -> QueueOf(t.history, t.digest)]
    /\ t.q["music"] \in QueueOf(t.history, None)
    /\ t.pick \in [QueueTypes -> {None}]
    /\ PlaysOf(t.history)
    /\ AsideOf(t.history, alive \ {t.digest}, t.saved)

IInv == Session(s, lists \cup {None})
----------------------------------------------------------------------------
(* Sequences                                                               *)

(* A set of subsets of a finite set has a smallest one.                    *)
LEMMA SmallestSubset ==
    ASSUME NEW S, IsFiniteSet(S), NEW Bad \in SUBSET (SUBSET S), Bad # {}
    PROVE  \E T \in Bad : \A U \in SUBSET T : U # T => U \notin Bad
<1>1. FiniteSubsetsOf(S) = SUBSET S
    BY FS_FiniteSubsetsOfFinite
<1>2. IsWellFoundedOn(StrictSubsetOrdering(S), SUBSET S)
    BY <1>1, FS_StrictSubsetOrderingWellFounded
<1>3. PICK T \in Bad : \A U \in Bad : <<U, T>> \notin StrictSubsetOrdering(S)
    BY <1>2, WFMin
<1>4. ASSUME NEW U \in SUBSET T, U # T, U \in Bad
      PROVE  FALSE
  <2>1. <<U, T>> \in (SUBSET S) \X (SUBSET S)
      BY <1>4
  <2>2. <<U, T>> \in StrictSubsetOrdering(S)
      BY <1>4, <2>1 DEF StrictSubsetOrdering
  <2> QED
      BY <1>3, <1>4, <2>2
<1> QED
    BY <1>4

(* The least of a set of a line's places.                                  *)
LEMMA LeastPlace ==
    ASSUME NEW n \in Nat, NEW A \in SUBSET (1..n), A # {}
    PROVE  /\ Min(A) \in A
           /\ \A y \in A : Min(A) <= y
<1> DEFINE Upto == {1..k : k \in A}
<1>0. \A k \in A : 1..k \subseteq 1..n
    OBVIOUS
<1>1. Upto \in SUBSET (SUBSET (1..n)) /\ Upto # {}
    BY <1>0, Zenon
<1>2. IsFiniteSet(1..n)
    BY FS_Interval
<1>3. PICK T \in Upto : \A U \in SUBSET T : U # T => U \notin Upto
    BY <1>1, <1>2, SmallestSubset
<1>4. PICK k \in A : T = 1..k
    BY <1>3
<1>5. ASSUME NEW y \in A, y < k
      PROVE  FALSE
  <2>1. 1..y \in SUBSET T /\ 1..y # T
      BY <1>4, <1>5
  <2> QED
      BY <1>3, <1>5, <2>1
<1>6. \A y \in A : k <= y
    BY <1>5
<1> QED
    BY <1>6 DEF Min

(* An element put in a line at a place of it.                              *)
LEMMA PutAt ==
    ASSUME NEW S, NEW line \in Seq(S), NEW i \in 1..(Len(line) + 1), NEW e \in S
    PROVE  /\ InsertAt(line, i, e) \in Seq(S)
           /\ Len(InsertAt(line, i, e)) = Len(line) + 1
           /\ \A n \in 1..(Len(line) + 1) :
                 InsertAt(line, i, e)[n] = IF n < i THEN line[n] ELSE IF n = i THEN e ELSE line[n - 1]
<1> DEFINE head == SubSeq(line, 1, i - 1)
           rest == SubSeq(line, i, Len(line))
<1>1. Len(line) \in Nat /\ \A n \in 1..Len(line) : line[n] \in S
    BY LenProperties, ElementOfSeq
<1>2. \A n \in 1..(i - 1) : line[n] \in S
    BY <1>1
<1>3. \A n \in i..Len(line) : line[n] \in S
    BY <1>1
<1>4. /\ head \in Seq(S) /\ Len(head) = i - 1
      /\ \A n \in 1..(i - 1) : head[n] = line[n]
    BY <1>1, <1>2, SubSeqProperties
<1>5. /\ rest \in Seq(S) /\ Len(rest) = Len(line) - i + 1
      /\ \A n \in 1..(Len(line) - i + 1) : rest[n] = line[i + n - 1]
    BY <1>1, <1>3, SubSeqProperties
<1> HIDE DEF head, rest
<1>6. <<e>> \in Seq(S) /\ Len(<<e>>) = 1 /\ <<e>>[1] = e
    OBVIOUS
<1>7. /\ head \o <<e>> \in Seq(S) /\ Len(head \o <<e>>) = i
      /\ \A n \in 1..i : (head \o <<e>>)[n] = IF n < i THEN line[n] ELSE e
    BY <1>4, <1>6, ConcatProperties
<1> DEFINE upto == head \o <<e>>
<1> HIDE DEF upto
<1>7a. upto \in Seq(S) /\ Len(upto) = i
    BY <1>7 DEF upto
<1>8a. upto \in Seq(S) /\ Len(upto) = i /\ Len(upto) + Len(rest) = Len(line) + 1
    BY <1>1, <1>5, <1>7a
<1>8b. /\ upto \o rest \in Seq(S)
       /\ Len(upto \o rest) = Len(upto) + Len(rest)
       /\ \A n \in 1..(Len(upto) + Len(rest)) : (upto \o rest)[n] =
            IF n <= Len(upto) THEN upto[n] ELSE rest[n - Len(upto)]
    BY <1>5, <1>8a, ConcatProperties, Zenon
<1>8. /\ (head \o <<e>>) \o rest \in Seq(S)
      /\ Len((head \o <<e>>) \o rest) = Len(line) + 1
      /\ \A n \in 1..(Len(line) + 1) : ((head \o <<e>>) \o rest)[n] =
            IF n <= i THEN (head \o <<e>>)[n] ELSE rest[n - i]
    BY <1>8a, <1>8b DEF upto
<1>9. InsertAt(line, i, e) = (head \o <<e>>) \o rest
    BY DEF InsertAt, head, rest
<1>10. \A n \in 1..(Len(line) + 1) :
          ((head \o <<e>>) \o rest)[n] = IF n < i THEN line[n] ELSE IF n = i THEN e ELSE line[n - 1]
    BY <1>1, <1>5, <1>7, <1>8
<1> QED
    BY <1>8, <1>9, <1>10

(* The places of a line that are kept, counted.                            *)
LEMMA CountTo ==
    ASSUME NEW n \in Nat, NEW A \in SUBSET (1..n)
    PROVE  /\ IsFiniteSet(A) /\ Cardinality(A) \in Nat
           /\ \A m \in 0..n : Cardinality(A \cap (1..m)) \in Nat
           /\ Cardinality(A \cap (1..0)) = 0
           /\ A \cap (1..n) = A
           /\ \A m \in 1..n : Cardinality(A \cap (1..m)) =
                 Cardinality(A \cap (1..(m - 1))) + IF m \in A THEN 1 ELSE 0
<1>1. IsFiniteSet(1..n)
    BY FS_Interval
<1>2. \A B \in SUBSET A : IsFiniteSet(B) /\ Cardinality(B) \in Nat
    BY <1>1, FS_Subset, FS_CardinalityType
<1>3. A \cap (1..0) = {}
    OBVIOUS
<1>4. Cardinality(A \cap (1..0)) = 0
    BY <1>3, FS_EmptySet
<1>5. ASSUME NEW m \in 1..n
      PROVE  Cardinality(A \cap (1..m)) =
                 Cardinality(A \cap (1..(m - 1))) + IF m \in A THEN 1 ELSE 0
  <2> DEFINE before == A \cap (1..(m - 1))
  <2>1. IsFiniteSet(before) /\ m \notin before /\ Cardinality(before) \in Nat
      BY <1>2
  <2>2. CASE m \in A
    <3>1. A \cap (1..m) = before \cup {m}
        BY <2>2
    <3> QED
        BY <2>1, <2>2, <3>1, FS_AddElement
  <2>3. CASE m \notin A
    <3>1. A \cap (1..m) = before
        BY <2>3
    <3> QED
        BY <2>1, <2>3, <3>1, Cardinality(before) + 0 = Cardinality(before)
  <2> QED
      BY <2>2, <2>3
<1>6. A \cap (1..n) = A
    OBVIOUS
<1>7. \A m \in 0..n : Cardinality(A \cap (1..m)) \in Nat
    BY <1>2
<1>8. IsFiniteSet(A) /\ Cardinality(A) \in Nat
    BY <1>2
<1> QED
    BY <1>4, <1>5, <1>6, <1>7, <1>8

(* What is kept of a line is of the line, in its order.                    *)
LEMMA OnlyKept ==
    ASSUME NEW S, NEW line \in Seq(S), NEW kept
    PROVE  /\ Only(line, kept) \in Seq(S \cap kept)
           /\ \E place \in [DOMAIN Only(line, kept) -> DOMAIN line] :
                 \A n \in DOMAIN Only(line, kept) :
                    /\ Only(line, kept)[n] = line[place[n]]
                    /\ \A m \in DOMAIN Only(line, kept) : m < n => place[m] < place[n]
<1> DEFINE at == {n \in DOMAIN line : line[n] \in kept}
           count == Cardinality(at)
           Nth(n) == CHOOSE m \in at : Cardinality(at \cap (1..m)) = n
           only == [n \in 1..count |-> line[Nth(n)]]
           upto == [m \in 0..Len(line) |-> Cardinality(at \cap (1..m))]
<1>1. Len(line) \in Nat /\ DOMAIN line = 1..Len(line)
    BY LenProperties
<1>2. at \in SUBSET (1..Len(line))
    BY <1>1
<1>3. /\ count \in Nat
      /\ \A m \in 0..Len(line) : upto[m] \in Nat
      /\ upto[0] = 0
      /\ upto[Len(line)] = count
      /\ \A m \in 1..Len(line) : upto[m] = upto[m - 1] + IF m \in at THEN 1 ELSE 0
  <2>1. \A m \in 0..Len(line) : upto[m] = Cardinality(at \cap (1..m))
      OBVIOUS
  <2>2. 0 \in 0..Len(line) /\ Len(line) \in 0..Len(line) /\
        \A m \in 1..Len(line) : m \in 0..Len(line) /\ m - 1 \in 0..Len(line)
      BY <1>1
  <2> HIDE DEF at, upto
  <2>3. /\ count \in Nat
        /\ \A m \in 0..Len(line) : Cardinality(at \cap (1..m)) \in Nat
        /\ Cardinality(at \cap (1..0)) = 0
        /\ at \cap (1..Len(line)) = at
        /\ \A m \in 1..Len(line) : Cardinality(at \cap (1..m)) =
              Cardinality(at \cap (1..(m - 1))) + IF m \in at THEN 1 ELSE 0
      BY <1>1, <1>2, CountTo
  <2>4. upto[0] = 0 /\ upto[Len(line)] = count
      BY <2>1, <2>2, <2>3
  <2>5. \A m \in 0..Len(line) : upto[m] \in Nat
      BY <2>1, <2>3
  <2>6. \A m \in 1..Len(line) : upto[m] = upto[m - 1] + IF m \in at THEN 1 ELSE 0
      BY <2>1, <2>2, <2>3
  <2> QED
      BY <2>3, <2>4, <2>5, <2>6
<1>4. Only(line, kept) = only
    BY Zenon DEF Only
<1>5. \A n \in DOMAIN line : n \in at <=> line[n] \in kept
    OBVIOUS
<1> HIDE DEF at, only, upto
<1>6. ASSUME NEW n \in 1..count
      PROVE  \E m \in at : upto[m] = n
  <2> DEFINE enough == {m \in 1..Len(line) : upto[m] >= n}
  <2>0. Len(line) # 0
      BY <1>3, <1>6
  <2>1. Len(line) \in enough
      BY <1>1, <1>3, <1>6, <2>0
  <2>2. enough \in SUBSET (1..Len(line)) /\ enough # {}
      BY <2>1
  <2> DEFINE m == Min(enough)
  <2>3. m \in enough /\ \A k \in enough : m <= k
      <3> HIDE DEF enough
      <3> QED
          BY <1>1, <2>2, LeastPlace
  <2> HIDE DEF m
  <2>4. m \in 1..Len(line) /\ upto[m] >= n
      BY <2>3
  <2>5. m - 1 \notin enough
      BY <2>3, <2>4
  <2>6. upto[m - 1] < n
    <3>1. CASE m = 1
        BY <1>3, <3>1
    <3>2. CASE m # 1
      <4>1. m - 1 \in 1..Len(line) /\ upto[m - 1] \in Nat
          BY <1>1, <1>3, <2>4, <3>2
      <4> QED
          BY <2>5, <4>1
    <3> QED
        BY <3>1, <3>2
  <2>7. upto[m] = upto[m - 1] + (IF m \in at THEN 1 ELSE 0) /\ upto[m] \in Nat /\ upto[m - 1] \in Nat
      BY <1>1, <1>3, <2>4
  <2>8. m \in at /\ upto[m] = n
      BY <2>4, <2>6, <2>7
  <2> QED
      BY <2>8
<1>6a. \A m \in at : m \in 0..Len(line) /\ upto[m] = Cardinality(at \cap (1..m))
    BY <1>2 DEF upto
<1>7. \A n \in 1..count : Nth(n) \in at /\ upto[Nth(n)] = n
    BY <1>6, <1>6a
<1>8. ASSUME NEW m \in 1..count, NEW n \in 1..count, m < n
      PROVE  Nth(m) < Nth(n)
  <2> DEFINE a == Nth(n)
             b == Nth(m)
  <2>1. a \in 1..Len(line) /\ b \in 1..Len(line) /\ upto[a] = n /\ upto[b] = m
      BY <1>2, <1>7
  <2>2. SUFFICES ASSUME a <= b PROVE FALSE
      BY <2>1
  <2> HIDE DEF a, b
  <2>3. at \cap (1..a) \subseteq at \cap (1..b)
      BY <2>1, <2>2
  <2>4. IsFiniteSet(at \cap (1..b))
    <3>1. at \cap (1..b) \in SUBSET (1..Len(line))
        BY <1>2
    <3> QED
        BY <1>1, <3>1, CountTo
  <2>5. Cardinality(at \cap (1..a)) <= Cardinality(at \cap (1..b))
      BY <2>3, <2>4, FS_Subset
  <2>6. upto[a] <= upto[b]
      BY <1>7, <1>6a, <2>5, <1>8 DEF a, b
  <2> QED
      BY <1>8, <2>1, <2>6
<1> DEFINE place == [n \in 1..count |-> Nth(n)]
<1> HIDE DEF Nth
<1>9. /\ DOMAIN only = 1..count
      /\ \A n \in 1..count : only[n] = line[Nth(n)]
    BY DEF only
<1>10. \A n \in 1..count : only[n] \in S \cap kept
    BY <1>1, <1>2, <1>5, <1>7, <1>9, ElementOfSeq
<1>11. only \in Seq(S \cap kept)
    BY <1>3, <1>9, <1>10, only = [n \in 1..count |-> only[n]] DEF only
<1>12. /\ place \in [DOMAIN only -> DOMAIN line]
       /\ \A n \in DOMAIN only : /\ only[n] = line[place[n]]
                                 /\ \A m \in DOMAIN only : m < n => place[m] < place[n]
    BY <1>2, <1>1, <1>7, <1>8, <1>9
<1> HIDE DEF place
<1> QED
    BY <1>4, <1>11, <1>12

----------------------------------------------------------------------------
(* Items and the history they are of                                       *)

(* A history goes on from another when what was played of that is so of it.*)
GoesOn(h, g) ==
    /\ \A seq \in Nat : Past(h, seq) => Past(g, seq)
    /\ \A seq \in Nat, ref \in Refs : PlayOf(h, seq, ref) => PlayOf(g, seq, ref)

(* A play recorded after the last.                                         *)
LEMMA PlayRecorded ==
    ASSUME NEW h, PlaysOf(h), NEW p, p.ref \in Refs, p.queue \in QueueTypes,
           p.seq = IF h = <<>> THEN 0 ELSE Last(h).seq + 1
    PROVE  /\ PlaysOf(Append(h, p)) /\ GoesOn(h, Append(h, p))
           /\ p.seq \in Nat /\ Past(Append(h, p), p.seq)
<1> DEFINE g == Append(h, p)
           S == Range(h) \cup {p}
<1>1. h \in Seq(S) /\ p \in S
    BY SeqMonotonic DEF PlaysOf
<1>2. Len(h) \in Nat /\ DOMAIN h = 1..Len(h)
    BY <1>1, LenProperties
<1> HIDE DEF S
<1>3. /\ g \in Seq(S) /\ g # <<>> /\ Len(g) = Len(h) + 1 /\ DOMAIN g = 1..Len(g)
      /\ \A i \in 1..Len(h) : g[i] = h[i]
      /\ g[Len(g)] = p /\ Last(g) = p
    BY <1>1, AppendProperties, LenProperties DEF Last
<1> HIDE DEF g
<1>4. g \in Seq(Range(g))
    BY <1>3, SeqOfRange
<1>5. h = <<>> \/ Len(h) >= 1
    BY <1>1, EmptySeq, <1>2
<1>6. /\ p.seq \in Nat
      /\ \A n \in DOMAIN g : /\ g[n].seq \in Nat /\ g[n].seq = g[1].seq + n - 1
                             /\ g[n].ref \in Refs /\ g[n].queue \in QueueTypes
  <2>1. CASE h = <<>>
    <3>1. Len(g) = 1 /\ g[1] = p
        BY <2>1, <1>3, <1>2, EmptySeq
    <3> QED
        BY <2>1, <3>1, <1>3
  <2>2. CASE Len(h) >= 1
    <3>1. h # <<>> /\ g[1] = h[1] /\ 1 \in DOMAIN h /\ Len(h) \in DOMAIN h
        BY <1>2, <1>3, <2>2
    <3>2. /\ h[Len(h)].seq = h[1].seq + Len(h) - 1 /\ h[1].seq \in Nat
          /\ p.seq = h[Len(h)].seq + 1
        BY <3>1 DEF PlaysOf, Last
    <3>3. p.seq = g[1].seq + Len(g) - 1 /\ p.seq \in Nat
        BY <1>2, <1>3, <3>1, <3>2
    <3>4. \A n \in 1..Len(h) : /\ g[n].seq \in Nat /\ g[n].seq = g[1].seq + n - 1
                               /\ g[n].ref \in Refs /\ g[n].queue \in QueueTypes
        BY <1>2, <1>3, <3>1 DEF PlaysOf
    <3>5. \A n \in DOMAIN g : n \in 1..Len(h) \/ n = Len(g)
        BY <1>2, <1>3
    <3>6. g[Len(g)].seq = g[1].seq + Len(g) - 1 /\ g[Len(g)].seq \in Nat
          /\ g[Len(g)].ref \in Refs /\ g[Len(g)].queue \in QueueTypes
        BY <1>3, <3>3
    <3> QED
        BY <3>3, <3>4, <3>5, <3>6
  <2> QED
      BY <1>5, <2>1, <2>2
<1>7. PlaysOf(g)
    BY <1>4, <1>6 DEF PlaysOf
<1>8. ASSUME NEW seq \in Nat, Past(h, seq)
      PROVE  seq < p.seq
  <2>1. h # <<>> /\ seq <= Last(h).seq
      BY <1>8 DEF Past
  <2>2. Last(h).seq \in Nat
      BY <2>1, <1>2, <1>5 DEF PlaysOf, Last
  <2> QED
      BY <2>1, <2>2
<1>9. \A seq \in Nat : Past(h, seq) => Past(g, seq)
    BY <1>3, <1>6, <1>8 DEF Past
<1>10. ASSUME NEW seq \in Nat, NEW ref \in Refs, PlayOf(h, seq, ref)
       PROVE  PlayOf(g, seq, ref)
  <2>1. seq < p.seq /\ Past(g, seq)
      BY <1>8, <1>9, <1>10 DEF PlayOf
  <2>2. \A n \in DOMAIN g : n \in DOMAIN h \/ g[n] = p
      BY <1>2, <1>3
  <2> QED
      BY <1>2, <1>3, <1>6, <1>10, <2>1, <2>2 DEF PlayOf
<1>11. Past(g, p.seq)
    BY <1>3, <1>6 DEF Past
<1> QED
    BY <1>6, <1>7, <1>9, <1>10, <1>11 DEF g, GoesOn

(* The newest plays of a history, as it is stored.                         *)
LEMMA OldestPushedOut ==
    ASSUME NEW h, PlaysOf(h), Len(h) > Kept
    PROVE  LET g == SubSeq(h, Len(h) - Kept + 1, Len(h))
           IN  PlaysOf(g) /\ GoesOn(h, g)
<1> DEFINE m == Len(h) - Kept + 1
           g == SubSeq(h, m, Len(h))
<1>1. h \in Seq(Range(h)) /\ Len(h) \in Nat /\ DOMAIN h = 1..Len(h)
    BY LenProperties DEF PlaysOf
<1>2. m \in 1..Len(h) /\ Kept >= 1 /\ Kept \in Nat
    BY <1>1, EngineConstants
<1>3. \A i \in m..Len(h) : h[i] \in Range(h)
    BY <1>1, <1>2, ElementOfSeq
<1> HIDE DEF m
<1>4. /\ g \in Seq(Range(h)) /\ Len(g) = Len(h) - m + 1
      /\ \A i \in 1..(Len(h) - m + 1) : g[i] = h[m + i - 1]
    BY <1>1, <1>2, <1>3, SubSeqProperties
<1> HIDE DEF g
<1>4a. DOMAIN g = 1..Len(g) /\ Len(g) \in Nat
    BY <1>4, LenProperties
<1>4b. Len(g) >= 1 /\ \A i \in 1..Len(g) : m + i - 1 \in 1..Len(h) /\ i \in 1..(Len(h) - m + 1)
    BY <1>1, <1>2, <1>4, <1>4a
<1>5. /\ DOMAIN g = 1..Len(g) /\ Len(g) >= 1 /\ Len(g) \in Nat
      /\ \A i \in DOMAIN g : m + i - 1 \in DOMAIN h /\ g[i] = h[m + i - 1]
    BY <1>1, <1>4, <1>4a, <1>4b
<1>6. g # <<>> /\ Last(g) = Last(h) /\ h # <<>>
    BY <1>1, <1>2, <1>4, <1>5, EmptySeq DEF Last
<1>7. g \in Seq(Range(g))
    BY <1>4, SeqOfRange
<1>8. \A n \in DOMAIN g : /\ g[n].seq \in Nat /\ g[n].seq = g[1].seq + n - 1
                          /\ g[n].ref \in Refs /\ g[n].queue \in QueueTypes
  <2>1. \A n \in DOMAIN g : h[m + n - 1].seq = h[1].seq + (m + n - 1) - 1
      BY <1>5 DEF PlaysOf
  <2>2. g[1].seq = h[1].seq + m - 1 /\ h[1].seq \in Nat /\ 1 \in DOMAIN g
      BY <1>1, <1>2, <1>5, <2>1 DEF PlaysOf
  <2>3. ASSUME NEW n \in DOMAIN g
        PROVE  g[n].seq = g[1].seq + n - 1
    <3>1. n \in Nat /\ m \in Nat /\ g[n].seq = h[1].seq + (m + n - 1) - 1
        BY <1>2, <1>5, <2>1
    <3>2. \A a, k, l \in Nat : a + (k + l - 1) - 1 = (a + k - 1) + l - 1
        OBVIOUS
    <3>3. g[n].seq = (h[1].seq + m - 1) + n - 1
        BY <2>2, <3>1, <3>2
    <3> QED
        BY <2>2, <3>3
  <2> QED
      BY <1>5, <2>3 DEF PlaysOf
<1>9. PlaysOf(g)
    BY <1>7, <1>8 DEF PlaysOf
<1>10. \A seq : Past(h, seq) => Past(g, seq)
    BY <1>6 DEF Past
<1>11. \A seq, ref : PlayOf(h, seq, ref) => PlayOf(g, seq, ref)
    BY <1>5, <1>10 DEF PlayOf
<1> QED
    BY <1>9, <1>10, <1>11 DEF g, m, GoesOn

(* What a queue may hold stays so as history goes on.                      *)
LEMMA ItemsGoOn ==
    ASSUME NEW h, NEW g, GoesOn(h, g), NEW owner
    PROVE  /\ ItemOf(h, owner) \subseteq ItemOf(g, owner)
           /\ CurOf(h, owner) \subseteq CurOf(g, owner)
           /\ Unwalked(h, owner) \subseteq Unwalked(g, owner)
           /\ QueueOf(h, owner) \subseteq QueueOf(g, owner)
           /\ Walkless(h, owner) \subseteq Walkless(g, owner)
<1>1. \A own : ItemOf(h, own) \subseteq ItemOf(g, own)
    BY DEF ItemOf, ItemShape, Marks, GoesOn
<1>2. \A own : CurOf(h, own) \subseteq CurOf(g, own) /\ Unwalked(h, own) \subseteq Unwalked(g, own)
    BY <1>1 DEF CurOf, Unwalked
<1>3. \A A, B : A \subseteq B => Seq(A) \subseteq Seq(B)
    BY SeqMonotonic
<1>4. /\ Seq(ItemOf(h, owner)) \subseteq Seq(ItemOf(g, owner))
      /\ Seq(Unwalked(h, owner)) \subseteq Seq(Unwalked(g, owner))
      /\ Seq(Unwalked(h, None)) \subseteq Seq(Unwalked(g, None))
    BY <1>1, <1>2, <1>3
<1>5. QueueOf(h, owner) \subseteq QueueOf(g, owner)
    BY <1>2, <1>4 DEF QueueOf
<1> QED
    BY <1>1, <1>2, <1>4, <1>5 DEF Walkless

(* What is nobody's may be in any queue; what is in one is something.      *)
LEMMA ItemsOfNone ==
    ASSUME NEW h, NEW owner
    PROVE  /\ ItemOf(h, None) \subseteq ItemOf(h, owner)
           /\ CurOf(h, None) \subseteq CurOf(h, owner)
           /\ Unwalked(h, None) \subseteq Unwalked(h, owner)
           /\ QueueOf(h, None) \subseteq QueueOf(h, owner)
           /\ None \notin ItemOf(h, owner)
           /\ CurOf(h, owner) \subseteq Unwalked(h, owner)
           /\ Unwalked(h, owner) \subseteq ItemOf(h, owner)
<1>1. ItemOf(h, None) \subseteq ItemOf(h, owner)
    BY DEF ItemOf
<1>2. CurOf(h, None) \subseteq CurOf(h, owner) /\ Unwalked(h, None) \subseteq Unwalked(h, owner)
    BY <1>1 DEF CurOf, Unwalked
<1>3. Seq(ItemOf(h, None)) \subseteq Seq(ItemOf(h, owner))
    BY <1>1, SeqMonotonic
<1>4. QueueOf(h, None) \subseteq QueueOf(h, owner)
    BY <1>2, <1>3 DEF QueueOf
<1>5. None \notin ItemOf(h, owner)
    BY TapConstants DEF ItemOf
<1>6. CurOf(h, owner) \subseteq Unwalked(h, owner) /\ Unwalked(h, owner) \subseteq ItemOf(h, owner)
    BY DEF CurOf, Unwalked
<1> QED
    BY <1>1, <1>2, <1>4, <1>5, <1>6

----------------------------------------------------------------------------
(* Lines of a queue                                                        *)

(* Entries no walk placed are in its order.                                *)
LEMMA UnwalkedMarked ==
    ASSUME NEW h, NEW owner, NEW line \in Seq(Unwalked(h, owner))
    PROVE  /\ line \in Seq(ItemOf(h, owner)) /\ Marked(line)
           /\ \A n \in DOMAIN line : line[n].walk = None
<1>1. line \in Seq(ItemOf(h, owner))
    BY ItemsOfNone, SeqMonotonic
<1>2. \A n \in DOMAIN line : line[n] \in Unwalked(h, owner)
    BY LenProperties, ElementOfSeq
<1>3. \A n \in DOMAIN line : line[n].walk = None
    BY <1>2 DEF Unwalked
<1> QED
    BY <1>1, <1>3 DEF Marked

(* A line in the walk's order stays so without its first entry.            *)
LEMMA TailMarked ==
    ASSUME NEW S, NEW line \in Seq(S), line # <<>>, Marked(line)
    PROVE  Tail(line) \in Seq(S) /\ Marked(Tail(line))
<1>1. /\ Tail(line) \in Seq(S) /\ Len(Tail(line)) = Len(line) - 1
      /\ \A i \in 1..Len(Tail(line)) : Tail(line)[i] = line[i + 1]
    BY HeadTailProperties
<1>2. /\ Len(line) \in Nat /\ DOMAIN line = 1..Len(line)
      /\ DOMAIN Tail(line) = 1..Len(Tail(line))
    BY <1>1, LenProperties
<1>3. \A i \in DOMAIN Tail(line) : i + 1 \in DOMAIN line /\ i \in Nat /\ Tail(line)[i] = line[i + 1]
    BY <1>1, <1>2
<1>4. ASSUME NEW i \in DOMAIN Tail(line), NEW j \in DOMAIN Tail(line), i < j
      PROVE  i + 1 < j + 1 /\ i + 1 \in DOMAIN line /\ j + 1 \in DOMAIN line
    BY <1>3, <1>4
<1> QED
    BY <1>1, <1>3, <1>4 DEF Marked

(* Two lines in the walk's order are one, where the first is before it.    *)
LEMMA ConcatMarked ==
    ASSUME NEW S, NEW a \in Seq(S), NEW b \in Seq(S), Marked(a), Marked(b),
           \A i \in DOMAIN a, j \in DOMAIN b :
              b[j].walk # None => a[i].walk # None /\ a[i].walk < b[j].walk
    PROVE  a \o b \in Seq(S) /\ Marked(a \o b)
<1> DEFINE c == a \o b
<1>1. /\ c \in Seq(S) /\ Len(c) = Len(a) + Len(b)
      /\ \A i \in 1..(Len(a) + Len(b)) : c[i] = IF i <= Len(a) THEN a[i] ELSE b[i - Len(a)]
    BY ConcatProperties
<1> HIDE DEF c
<1>2. /\ Len(a) \in Nat /\ Len(b) \in Nat /\ DOMAIN a = 1..Len(a) /\ DOMAIN b = 1..Len(b)
      /\ DOMAIN c = 1..Len(c)
    BY <1>1, LenProperties
<1>3. \A i \in DOMAIN c : /\ i \in Nat
                          /\ \/ i \in DOMAIN a /\ c[i] = a[i]
                             \/ i > Len(a) /\ i - Len(a) \in DOMAIN b /\ c[i] = b[i - Len(a)]
    BY <1>1, <1>2
<1>4. ASSUME NEW i \in DOMAIN c, NEW j \in DOMAIN c, i < j, c[j].walk # None
      PROVE  c[i].walk # None /\ c[i].walk < c[j].walk
  <2>1. CASE j \in DOMAIN a /\ c[j] = a[j]
    <3>1. i \in DOMAIN a /\ c[i] = a[i]
        BY <1>2, <1>3, <1>4, <2>1
    <3> QED
        BY <1>4, <2>1, <3>1 DEF Marked
  <2>2. CASE j > Len(a) /\ j - Len(a) \in DOMAIN b /\ c[j] = b[j - Len(a)]
    <3>1. CASE i \in DOMAIN a /\ c[i] = a[i]
        BY <1>4, <2>2, <3>1
    <3>2. CASE i > Len(a) /\ i - Len(a) \in DOMAIN b /\ c[i] = b[i - Len(a)]
      <4>1. i - Len(a) < j - Len(a)
          BY <1>2, <1>3, <1>4
      <4> QED
          BY <1>4, <2>2, <3>2, <4>1 DEF Marked
    <3> QED
        BY <1>3, <3>1, <3>2
  <2> QED
      BY <1>3, <2>1, <2>2
<1> QED
    BY <1>1, <1>4 DEF Marked, c

(* What is put where the walk's entries end leaves them in their order.    *)
LEMMA InsertMarked ==
    ASSUME NEW S, NEW line \in Seq(S), Marked(line), NEW e \in S, e.walk = None
    PROVE  /\ WalkEnd(line) \in 1..(Len(line) + 1)
           /\ InsertAt(line, WalkEnd(line), e) \in Seq(S)
           /\ Marked(InsertAt(line, WalkEnd(line), e))
<1> DEFINE others == {i \in DOMAIN line : line[i].walk = None}
           w == WalkEnd(line)
           c == InsertAt(line, w, e)
<1>1. Len(line) \in Nat /\ DOMAIN line = 1..Len(line)
    BY LenProperties
<1>2. /\ w \in 1..(Len(line) + 1)
      /\ \A i \in DOMAIN line : i < w => line[i].walk # None
      /\ w \in DOMAIN line => line[w].walk = None
  <2>1. CASE others = {}
    <3>1. w = Len(line) + 1
        BY <2>1 DEF WalkEnd
    <3> QED
        BY <1>1, <2>1, <3>1
  <2>2. CASE others # {}
    <3>1. w = Min(others)
        BY <2>2 DEF WalkEnd
    <3>2. others \in SUBSET (1..Len(line))
        BY <1>1
    <3> HIDE DEF w
    <3>3. Min(others) \in others /\ \A y \in others : Min(others) <= y
        <4> HIDE DEF others
        <4> QED
            BY <1>1, <2>2, <3>2, LeastPlace
    <3>4. w \in DOMAIN line /\ line[w].walk = None /\ \A y \in others : w <= y
        BY <3>1, <3>3
    <3>5. \A i \in DOMAIN line : i < w => i \notin others
        BY <1>1, <3>4
    <3> QED
        BY <1>1, <3>4, <3>5
  <2> QED
      BY <2>1, <2>2
<1> HIDE DEF others, w
<1>3. /\ c \in Seq(S) /\ Len(c) = Len(line) + 1
      /\ \A n \in 1..(Len(line) + 1) :
            c[n] = IF n < w THEN line[n] ELSE IF n = w THEN e ELSE line[n - 1]
    BY <1>2, PutAt
<1> HIDE DEF c
<1>4. DOMAIN c = 1..(Len(line) + 1)
    BY <1>3, LenProperties
<1>5. ASSUME NEW j \in DOMAIN c, c[j].walk # None
      PROVE  j \in DOMAIN line /\ j < w /\ c[j] = line[j]
  <2>1. CASE j < w
      BY <1>1, <1>2, <1>3, <1>4, <2>1
  <2>2. CASE j = w
      BY <1>3, <1>4, <1>5, <2>2
  <2>3. CASE j > w
    <3>1. /\ c[j] = line[j - 1] /\ j - 1 \in DOMAIN line /\ w \in DOMAIN line
          /\ w <= j - 1 /\ line[w].walk = None
        BY <1>1, <1>2, <1>3, <1>4, <2>3
    <3>2. w = j - 1 \/ w < j - 1
        BY <1>1, <1>2, <1>4, <2>3
    <3> QED
        BY <1>5, <3>1, <3>2 DEF Marked
  <2> QED
      BY <1>1, <1>2, <1>4, <2>1, <2>2, <2>3
<1>6. ASSUME NEW i \in DOMAIN c, NEW j \in DOMAIN c, i < j, c[j].walk # None
      PROVE  c[i].walk # None /\ c[i].walk < c[j].walk
  <2>1. j \in DOMAIN line /\ j < w /\ c[j] = line[j]
      BY <1>5, <1>6
  <2>2. i \in DOMAIN line /\ c[i] = line[i]
      BY <1>1, <1>2, <1>3, <1>4, <1>6, <2>1
  <2> QED
      BY <1>6, <2>1, <2>2 DEF Marked
<1> QED
    BY <1>2, <1>3, <1>6 DEF Marked, w, c

(* Once the walk ends no entry has a place in it.                          *)
LEMMA WalkEnds ==
    ASSUME NEW h, NEW owner, NEW user \in Seq(ItemOf(h, owner)), NEW isInto \in BOOLEAN
    PROVE  EndedWalk(user, isInto) \in Seq(Unwalked(h, owner))
<1> DEFINE Stays(i) == i.walk = None \/ ~isInto \/ (i.replayOf = None /\ i.walk # 0)
           stays == Only(user, {i \in Range(user) : Stays(i)})
           Unmarked(i) == IF i.walk = None THEN i
                          ELSE [i EXCEPT !.walk = None,
                                         !.replayOf = IF isInto THEN @ ELSE None]
           left == [n \in DOMAIN stays |-> Unmarked(stays[n])]
<1>1. EndedWalk(user, isInto) = left
    BY DEF EndedWalk
<1>2. stays \in Seq(ItemOf(h, owner) \cap {i \in Range(user) : Stays(i)})
    BY OnlyKept
<1>3. ItemOf(h, owner) \cap {i \in Range(user) : Stays(i)} \subseteq ItemOf(h, owner)
    OBVIOUS
<1> HIDE DEF stays
<1>4. stays \in Seq(ItemOf(h, owner))
    BY <1>2, <1>3, SeqMonotonic
<1>5. Len(stays) \in Nat /\ DOMAIN stays = 1..Len(stays)
    BY <1>4, LenProperties
<1>6. ASSUME NEW n \in DOMAIN stays
      PROVE  Unmarked(stays[n]) \in Unwalked(h, owner)
  <2>1. stays[n] \in ItemOf(h, owner)
      BY <1>4, <1>5, ElementOfSeq
  <2> DEFINE i == stays[n]
  <2>2. CASE i.walk = None
      BY <2>1, <2>2 DEF Unwalked
  <2>3. CASE i.walk # None
    <3> DEFINE u == [i EXCEPT !.walk = None, !.replayOf = IF isInto THEN @ ELSE None]
    <3>1. /\ u \in ItemShape /\ u.walk = None /\ u.ref = i.ref /\ u.pos = i.pos /\ u.list = i.list
          /\ u.after = i.after /\ u.replayOf \in {None, i.replayOf}
        BY <2>1 DEF ItemOf, ItemShape, Marks
    <3>2. u \in Unwalked(h, owner)
        BY <2>1, <3>1 DEF ItemOf, Unwalked
    <3> QED
        BY <2>3, <3>2
  <2> QED
      BY <2>2, <2>3
<1>7. /\ DOMAIN left = 1..Len(stays) /\ \A n \in 1..Len(stays) : left[n] \in Unwalked(h, owner)
      /\ left = [n \in 1..Len(stays) |-> left[n]]
    BY <1>5, <1>6
<1> HIDE DEF left
<1>8. left \in Seq(Unwalked(h, owner))
    BY <1>5, <1>7
<1> QED
    BY <1>1, <1>8

----------------------------------------------------------------------------
(* Queues                                                                  *)

(* The plays an item may follow.                                           *)
Follows(h) == {None} \cup {seq \in Nat : Past(h, seq)}

(* A new item of a ref.                                                    *)
LEMMA NewItem ==
    ASSUME NEW h, NEW owner \in DOMAIN Digests \cup {None}, NEW ref \in Refs
    PROVE  /\ Item(ref) \in Unwalked(h, None)
           /\ [Item(ref) EXCEPT !.list = owner] \in Unwalked(h, owner)
  BY DEF Item, Unwalked, ItemOf, ItemShape, Marks

(* A queue with other entries.                                             *)
LEMMA Requeued ==
    ASSUME NEW h, NEW owner, NEW queue \in QueueOf(h, owner)
    PROVE  /\ \A user \in Seq(ItemOf(h, owner)) :
                 Marked(user) => [queue EXCEPT !.user = user] \in QueueOf(h, owner)
           /\ \A ctx \in Seq(Unwalked(h, None)) :
                 [queue EXCEPT !.ctx = ctx] \in QueueOf(h, owner)
           /\ Cleared(queue) \in QueueOf(h, owner)
           /\ Cleared(queue).cur = None /\ Cleared(queue).pos = None
           /\ Cleared(queue).user = queue.user /\ Cleared(queue).ctx = queue.ctx
  BY DEF QueueOf, Cleared

(* What is left while another item plays keeps where it was.               *)
LEMMA ParkedIs ==
    ASSUME NEW h, NEW owner, NEW queue \in QueueOf(h, owner), queue.cur # None
    PROVE  Parked(queue) \in Unwalked(h, owner)
  BY DEF QueueOf, Parked, Unwalked, CurOf, ItemOf, ItemShape, Marks

(* An item that becomes current, right after a play.                       *)
LEMMA FollowIs ==
    ASSUME NEW h, NEW owner, NEW item \in ItemOf(h, owner), item.walk = None, item.pos = None,
           NEW after \in Follows(h)
    PROVE  Follow(item, after) \in CurOf(h, owner) /\ Follow(item, after).ref = item.ref
<1> DEFINE f == [item EXCEPT !.after = IF item.replayOf = None THEN after ELSE None]
<1>1. Follow(item, after) = f
    BY DEF Follow
<1>2. /\ f \in ItemShape /\ f.walk = None /\ f.pos = None /\ f.ref = item.ref
      /\ f.replayOf = item.replayOf /\ f.list = item.list
      /\ f.after = IF item.replayOf = None THEN after ELSE None
    BY DEF ItemOf, ItemShape, Marks, Follows
<1>3. f \in CurOf(h, owner)
    BY <1>2 DEF CurOf, ItemOf, Follows
<1> QED
    BY <1>1, <1>2, <1>3

(* An item started where it was left, and the rest as it was.              *)
LEMMA StartIs ==
    ASSUME NEW h, NEW owner, NEW queue \in QueueOf(h, owner), NEW item \in ItemOf(h, owner),
           NEW after \in Follows(h)
    PROVE  /\ Start(queue, item, after) \in QueueOf(h, owner)
           /\ Start(queue, item, after).user = queue.user
           /\ Start(queue, item, after).ctx = queue.ctx
           /\ Start(queue, item, after).cur \in CurOf(h, owner)
<1> DEFINE i == [item EXCEPT !.walk = None, !.pos = None]
           c == Follow(i, after)
<1>1. i \in ItemOf(h, owner) /\ i.walk = None /\ i.pos = None /\ i.ref = item.ref
    BY DEF ItemOf, ItemShape
<1>2. c \in CurOf(h, owner) /\ c.ref = item.ref
    <2> HIDE DEF i
    <2> QED
        BY <1>1, FollowIs
<1>3. c # None
    BY <1>2, ItemsOfNone
<1>4. item.pos \in {None, item.ref} /\ item.pos \in Refs \cup {None}
    BY DEF ItemOf, ItemShape
<1>5. Start(queue, item, after) = [queue EXCEPT !.cur = c, !.pos = item.pos]
    BY DEF Start
<1> HIDE DEF c
<1> QED
    BY <1>2, <1>3, <1>4, <1>5 DEF QueueOf

----------------------------------------------------------------------------
(* Sessions                                                                *)

OwnerOf(t, type) == IF type = "spoken" THEN t.digest ELSE None
Unwalking(t) == \A type \in QueueTypes : t.q[type] \in Walkless(t.history, OwnerOf(t, type))

(* What of a session an operator on its queues leaves as it was.           *)
SameElsewhere(u, t) ==
    u.style = t.style /\ u.pick = t.pick /\ u.digest = t.digest /\ u.saved = t.saved

(* Each queue is of its owner's items, and only those.                     *)
LEMMA QueuesAre ==
    ASSUME NEW t, NEW alive, Session(t, alive)
    PROVE  /\ t.q = [type \in QueueTypes |-> t.q[type]]
           /\ \A type \in QueueTypes : /\ t.q[type] \in QueueOf(t.history, OwnerOf(t, type))
                                       /\ OwnerOf(t, type) \in DOMAIN Digests \cup {None}
  BY DEF Session, OwnerOf, QueueTypes

(* Queues that each are of their owner's items.                            *)
LEMMA QueuesMake ==
    ASSUME NEW h, NEW digest, NEW q, q = [type \in QueueTypes |-> q[type]],
           \A type \in QueueTypes : q[type] \in QueueOf(h, IF type = "spoken" THEN digest ELSE None)
    PROVE  q \in [QueueTypes -> QueueOf(h, digest)] /\ q["music"] \in QueueOf(h, None)
<1>1. q["music"] \in QueueOf(h, None) /\ q["spoken"] \in QueueOf(h, digest)
    BY DEF QueueTypes
<1>2. \A type \in QueueTypes : q[type] \in QueueOf(h, digest)
    BY <1>1, ItemsOfNone DEF QueueTypes
<1> QED
    BY <1>1, <1>2

(* A session with one queue changed for another that is its owner's.       *)
LEMMA QueueChanged ==
    ASSUME NEW t, NEW alive, Session(t, alive), NEW type \in QueueTypes,
           NEW queue \in QueueOf(t.history, OwnerOf(t, type)),
           NEW u, Shaped(u), u.active \in QueueTypes, u.switch \in QueueTypes \cup {None},
           u.q = [t.q EXCEPT ![type] = queue], u.history = t.history,
           u.style \in {"spotify", "youtube"}, u.pick = t.pick, u.digest = t.digest,
           u.saved = t.saved
    PROVE  Session(u, alive)
<1>1. /\ u.q[type] = queue /\ \A other \in QueueTypes \ {type} : u.q[other] = t.q[other]
      /\ u.q = [other \in QueueTypes |-> u.q[other]]
    BY QueuesAre
<1>2. \A other \in QueueTypes :
          u.q[other] \in QueueOf(u.history, IF other = "spoken" THEN u.digest ELSE None)
    BY <1>1, QueuesAre DEF OwnerOf
<1>3. u.q \in [QueueTypes -> QueueOf(u.history, u.digest)] /\ u.q["music"] \in QueueOf(u.history, None)
    BY <1>1, <1>2, QueuesMake
<1> QED
    BY <1>3 DEF Session

(* A session whose history goes on.                                        *)
LEMMA HistoryChanged ==
    ASSUME NEW t, NEW alive, Session(t, alive),
           NEW u, Shaped(u), PlaysOf(u.history), GoesOn(t.history, u.history),
           u.active = t.active, u.switch = t.switch, u.q = t.q, SameElsewhere(u, t)
    PROVE  Session(u, alive)
<1>1. \A owner : QueueOf(t.history, owner) \subseteq QueueOf(u.history, owner)
                 /\ Walkless(t.history, owner) \subseteq Walkless(u.history, owner)
    BY ItemsGoOn
<1>2. u.q \in [QueueTypes -> QueueOf(u.history, u.digest)] /\ u.q["music"] \in QueueOf(u.history, None)
    BY <1>1 DEF Session, SameElsewhere
<1>3. AsideOf(u.history, alive \ {u.digest}, u.saved)
    BY <1>1 DEF Session, SameElsewhere, AsideOf
<1> QED
    BY <1>2, <1>3 DEF Session, SameElsewhere

----------------------------------------------------------------------------
(* Recording, and the end of a walk                                        *)

(* A play recorded: what is in the session stays there.                    *)
LEMMA RecordedIs ==
    ASSUME NEW t, NEW alive, Session(t, alive), NEW type \in QueueTypes,
           NEW item, item.ref \in Refs, NEW after
    PROVE  LET u == Recorded(t, type, item, after)
           IN  /\ Session(u, alive) /\ GoesOn(t.history, u.history)
               /\ u.q = t.q /\ u.active = t.active /\ u.switch = t.switch /\ SameElsewhere(u, t)
               /\ NextSeq(t) \in Follows(u.history)
<1> DEFINE p == [seq |-> NextSeq(t), queue |-> type, ref |-> item.ref, after |-> after,
                 list |-> item.list]
           u == Recorded(t, type, item, after)
<1>1. p.ref \in Refs /\ p.queue \in QueueTypes
      /\ p.seq = IF t.history = <<>> THEN 0 ELSE Last(t.history).seq + 1
    BY DEF NextSeq
<1>2. p.seq = NextSeq(t)
    OBVIOUS
<1>3. u = [t EXCEPT !.history = Append(t.history, p)]
    BY DEF Recorded
<1> HIDE DEF p, u
<1>4. Shaped(u) /\ u.history = Append(t.history, p) /\ u.q = t.q /\ u.active = t.active
      /\ u.switch = t.switch /\ SameElsewhere(u, t)
    BY <1>3 DEF Session, Shaped, SameElsewhere
<1>5. PlaysOf(t.history)
    BY DEF Session
<1>6. /\ PlaysOf(u.history) /\ GoesOn(t.history, u.history)
      /\ p.seq \in Nat /\ Past(u.history, p.seq)
    BY <1>1, <1>4, <1>5, PlayRecorded
<1>7. Session(u, alive)
    BY <1>4, <1>6, HistoryChanged
<1> QED
    BY <1>2, <1>4, <1>6, <1>7 DEF Follows, u

(* What comes next follows a play.                                         *)
LEMMA FollowedPlays ==
    ASSUME NEW t, NEW alive, Session(t, alive), NEW item,
           \/ item = None
           \/ \E owner : item \in ItemOf(t.history, owner)
    PROVE  Newest(t) \in Follows(t.history) /\ Followed(t, item) \in Follows(t.history)
<1>1. Newest(t) \in Follows(t.history)
  <2>1. CASE t.history = <<>>
      BY <2>1 DEF Newest, Follows
  <2>2. CASE t.history # <<>>
    <3>1. t.history \in Seq(Range(t.history))
        BY DEF Session, PlaysOf
    <3>2. Len(t.history) \in DOMAIN t.history
        BY <3>1, <2>2, EmptySeq, LenProperties
    <3>3. Last(t.history).seq \in Nat
        BY <3>2 DEF Session, PlaysOf, Last
    <3> QED
        BY <2>2, <3>3 DEF Newest, Follows, Past
  <2> QED
      BY <2>1, <2>2
<1>2. CASE item = None
    BY <1>1, <1>2 DEF Followed
<1>3. ASSUME NEW owner, item \in ItemOf(t.history, owner)
      PROVE  Followed(t, item) \in Follows(t.history)
  <2>1. item # None
      BY <1>3, ItemsOfNone
  <2> QED
      BY <1>3, <2>1 DEF Followed, Follows, ItemOf, ItemShape, Marks, PlayOf
<1> QED
    BY <1>1, <1>2, <1>3

(* The current item of a queue ended.                                      *)
LEMMA RetiredIs ==
    ASSUME NEW t, NEW alive, Session(t, alive), NEW type \in QueueTypes
    PROVE  LET u == Retired(t, type)
           IN  /\ Session(u, alive) /\ GoesOn(t.history, u.history)
               /\ u.q[type] = Cleared(t.q[type])
               /\ \A other \in QueueTypes \ {type} : u.q[other] = t.q[other]
               /\ u.active = t.active /\ u.switch = t.switch /\ SameElsewhere(u, t)
               /\ RetiredPlay(t, type) \in Follows(u.history)
<1> DEFINE item == t.q[type].cur
           v == [t EXCEPT !.q[type] = Cleared(@)]
           u == Retired(t, type)
           owner == OwnerOf(t, type)
<1>1. t.q[type] \in QueueOf(t.history, owner)
    BY QueuesAre
<1>2. Cleared(t.q[type]) \in QueueOf(t.history, owner)
    BY <1>1, Requeued
<1>3. /\ Shaped(v) /\ v.q = [t.q EXCEPT ![type] = Cleared(t.q[type])] /\ v.history = t.history
      /\ v.active = t.active /\ v.switch = t.switch /\ SameElsewhere(v, t)
    BY DEF Session, Shaped, SameElsewhere
<1>4. u = IF item = None THEN v
          ELSE IF item.replayOf # None THEN v ELSE Recorded(v, type, item, item.after)
    BY DEF Retired
<1> HIDE DEF v, u
<1>5. /\ Session(v, alive) /\ v.q[type] = Cleared(t.q[type])
      /\ \A other \in QueueTypes \ {type} : v.q[other] = t.q[other]
  <2>1. /\ v.active \in QueueTypes /\ v.switch \in QueueTypes \cup {None}
        /\ v.style \in {"spotify", "youtube"}
        /\ v.pick = t.pick /\ v.digest = t.digest /\ v.saved = t.saved
      BY <1>3 DEF Session, SameElsewhere
  <2>2. Session(v, alive)
      BY <1>2, <1>3, <2>1, QueueChanged
  <2>3. /\ v.q[type] = Cleared(t.q[type])
        /\ \A other \in QueueTypes \ {type} : v.q[other] = t.q[other]
      BY <1>3, QueuesAre
  <2> QED
      BY <2>2, <2>3
<1>6. GoesOn(v.history, v.history)
    BY DEF GoesOn
<1>7. NextSeq(v) = NextSeq(t)
    BY <1>3 DEF NextSeq
<1>8. item = None \/ item \in CurOf(t.history, owner)
    BY <1>1 DEF QueueOf
<1>9. CASE item = None
  <2>1. u = v /\ RetiredPlay(t, type) = Newest(t)
      BY <1>4, <1>9 DEF RetiredPlay
  <2>2. Newest(t) \in Follows(t.history)
      BY FollowedPlays
  <2> QED
      BY <1>3, <1>5, <1>6, <2>1, <2>2 DEF u
<1>10. CASE item # None /\ item.replayOf # None
  <2>1. u = v /\ RetiredPlay(t, type) = item.replayOf
      BY <1>4, <1>10 DEF RetiredPlay
  <2>2. item.replayOf \in Follows(t.history)
      BY <1>8, <1>10 DEF CurOf, ItemOf, ItemShape, Marks, PlayOf, Follows
  <2> QED
      BY <1>3, <1>5, <1>6, <2>1, <2>2 DEF u
<1>11. CASE item # None /\ item.replayOf = None
  <2>1. u = Recorded(v, type, item, item.after) /\ RetiredPlay(t, type) = NextSeq(v)
      BY <1>4, <1>7, <1>11 DEF RetiredPlay
  <2>2. item.ref \in Refs
      BY <1>8, <1>11 DEF CurOf, ItemOf, ItemShape
  <2>3. /\ Session(u, alive) /\ GoesOn(v.history, u.history)
        /\ u.q = v.q /\ u.active = v.active /\ u.switch = v.switch /\ SameElsewhere(u, v)
        /\ NextSeq(v) \in Follows(u.history)
      BY <1>5, <2>1, <2>2, RecordedIs
  <2> QED
      BY <1>3, <1>5, <2>1, <2>3 DEF u, SameElsewhere
<1> QED
    BY <1>9, <1>10, <1>11

(* Every entry of a walk that ended plays in its turn again, and what Back *)
(* first left is recorded where a new play took its place.                 *)
LEMMA WalkEnded ==
    ASSUME NEW t, NEW alive, Session(t, alive), NEW into \in QueueTypes \cup {None}
    PROVE  LET u == EndWalk(t, into)
           IN  /\ Session(u, alive) /\ Unwalking(u) /\ GoesOn(t.history, u.history)
               /\ u.active = t.active /\ u.switch = t.switch /\ SameElsewhere(u, t)
               /\ \A type \in QueueTypes : u.q[type].cur = t.q[type].cur
               /\ EndWalkPlay(t, into) \in Follows(u.history)
<1> DEFINE Ended(type) == [t.q[type] EXCEPT !.user = EndedWalk(@, type = into)]
           v == [t EXCEPT !.q = [type \in QueueTypes |-> Ended(type)]]
           u == EndWalk(t, into)
           i == CHOOSE i \in FirstLeft(t, into) : TRUE
<1>1. u = IF FirstLeft(t, into) = {} THEN v ELSE Recorded(v, into, i, LastPlayed(t))
    BY Zenon DEF EndWalk
<1>2. ASSUME NEW type \in QueueTypes
      PROVE  /\ Ended(type) \in Walkless(t.history, OwnerOf(t, type))
             /\ Ended(type).cur = t.q[type].cur
  <2> DEFINE h == t.history
             owner == OwnerOf(t, type)
             queue == t.q[type]
             user == EndedWalk(queue.user, type = into)
  <2>1. queue \in QueueOf(h, owner) /\ queue.user \in Seq(ItemOf(h, owner))
      BY QueuesAre DEF QueueOf
  <2>2. user \in Seq(Unwalked(h, owner))
      <3> HIDE DEF queue, owner, h
      <3> QED
          BY <2>1, WalkEnds
  <2> HIDE DEF user
  <2>3. user \in Seq(ItemOf(h, owner)) /\ Marked(user)
      BY <2>2, UnwalkedMarked
  <2>4. [queue EXCEPT !.user = user] \in QueueOf(h, owner)
      <3> HIDE DEF queue, owner, h
      <3> QED
          BY <2>1, <2>3, Requeued
  <2>5. [queue EXCEPT !.user = user].user = user /\ [queue EXCEPT !.user = user].cur = queue.cur
      BY <2>1 DEF QueueOf
  <2>6. Ended(type) = [queue EXCEPT !.user = user]
      BY DEF user
  <2> QED
      BY <2>2, <2>4, <2>5, <2>6 DEF Walkless
<1>3. /\ Shaped(v) /\ v.q = [type \in QueueTypes |-> Ended(type)] /\ v.history = t.history
      /\ v.active = t.active /\ v.switch = t.switch /\ SameElsewhere(v, t)
    BY DEF Session, Shaped, SameElsewhere
<1> HIDE DEF v, u
<1>4. v.q = [type \in QueueTypes |-> v.q[type]] /\ \A type \in QueueTypes : v.q[type] = Ended(type)
    BY <1>3
<1> HIDE DEF Ended
<1>5. Unwalking(v) /\ \A type \in QueueTypes : v.q[type].cur = t.q[type].cur
    BY <1>2, <1>3, <1>4 DEF Unwalking, OwnerOf, SameElsewhere
<1>6. \A type \in QueueTypes :
          v.q[type] \in QueueOf(v.history, IF type = "spoken" THEN v.digest ELSE None)
    BY <1>5 DEF Unwalking, OwnerOf, Walkless
<1>7. v.q \in [QueueTypes -> QueueOf(v.history, v.digest)] /\ v.q["music"] \in QueueOf(v.history, None)
    BY <1>4, <1>6, QueuesMake
<1>8. Session(v, alive)
    BY <1>3, <1>7 DEF Session, SameElsewhere
<1>9. CASE FirstLeft(t, into) = {}
  <2>1. u = v /\ EndWalkPlay(t, into) = None
      BY <1>1, <1>9 DEF EndWalkPlay
  <2> QED
      BY <1>3, <1>5, <1>8, <2>1 DEF u, GoesOn, Follows
<1>10. CASE FirstLeft(t, into) # {}
  <2>1. i \in FirstLeft(t, into) /\ into \in QueueTypes
      BY <1>10 DEF FirstLeft
  <2>2. i \in Range(t.q[into].user)
      BY <2>1 DEF FirstLeft
  <2>3. t.q[into].user \in Seq(ItemOf(t.history, OwnerOf(t, into)))
      BY <2>1, QueuesAre DEF QueueOf
  <2>4. i.ref \in Refs
      BY <2>2, <2>3, RangeOfSeq DEF ItemOf, ItemShape
  <2> HIDE DEF i
  <2>5. u = Recorded(v, into, i, LastPlayed(t)) /\ EndWalkPlay(t, into) = NextSeq(v)
      BY <1>1, <1>3, <1>10 DEF EndWalkPlay, NextSeq
  <2>6. /\ Session(u, alive) /\ GoesOn(v.history, u.history)
        /\ u.q = v.q /\ u.active = v.active /\ u.switch = v.switch /\ SameElsewhere(u, v)
        /\ NextSeq(v) \in Follows(u.history)
      BY <1>8, <2>1, <2>4, <2>5, RecordedIs
  <2>7. \A owner : Walkless(v.history, owner) \subseteq Walkless(u.history, owner)
      BY <2>6, ItemsGoOn
  <2>8. Unwalking(u)
      BY <1>5, <2>6, <2>7 DEF Unwalking, OwnerOf, SameElsewhere
  <2> QED
      BY <1>3, <1>5, <2>5, <2>6, <2>8 DEF u, SameElsewhere
<1> QED
    BY <1>9, <1>10

----------------------------------------------------------------------------
(* Playing                                                                 *)

(* A current item plays on after another play.                             *)
LEMMA PlaysOnAfter ==
    ASSUME NEW h, NEW owner, NEW queue \in QueueOf(h, owner), queue.cur # None,
           NEW after \in Follows(h)
    PROVE  /\ [queue EXCEPT !.cur = Follow(@, after)] \in QueueOf(h, owner)
           /\ [queue EXCEPT !.cur = Follow(@, after)].user = queue.user
<1> DEFINE c == Follow(queue.cur, after)
<1>1. queue.cur \in CurOf(h, owner)
    BY DEF QueueOf
<1>2. queue.cur \in ItemOf(h, owner) /\ queue.cur.walk = None /\ queue.cur.pos = None
    BY <1>1 DEF CurOf
<1>3. c \in CurOf(h, owner) /\ c.ref = queue.cur.ref /\ c # None
    BY <1>2, FollowIs, ItemsOfNone
<1>4. [queue EXCEPT !.cur = Follow(@, after)] = [queue EXCEPT !.cur = c]
    OBVIOUS
<1> HIDE DEF c
<1>5. [queue EXCEPT !.cur = c] \in QueueOf(h, owner) /\ [queue EXCEPT !.cur = c].user = queue.user
    BY <1>3 DEF QueueOf
<1> QED
    BY <1>4, <1>5

(* An item made current, what was there waiting after the walk.            *)
LEMMA LandIs ==
    ASSUME NEW t, NEW alive, Session(t, alive), NEW type \in QueueTypes,
           NEW item \in ItemOf(t.history, OwnerOf(t, type)), NEW after \in Follows(t.history)
    PROVE  Session(Land(t, type, item, after), alive)
<1> DEFINE h == t.history
           owner == OwnerOf(t, type)
           queue == t.q[type]
           put == InsertAt(queue.user, WalkEnd(queue.user), Parked(queue))
           waiting == IF queue.cur = None THEN queue.user ELSE put
           onto == [queue EXCEPT !.user = waiting]
           new == Start(onto, item, after)
           u == Land(t, type, item, after)
<1>1. queue \in QueueOf(h, owner) /\ queue.user \in Seq(ItemOf(h, owner)) /\ Marked(queue.user)
    BY QueuesAre DEF QueueOf
<1>2. ASSUME queue.cur # None
      PROVE  put \in Seq(ItemOf(h, owner)) /\ Marked(put)
  <2>1. Parked(queue) \in ItemOf(h, owner) /\ Parked(queue).walk = None
    <3> HIDE DEF queue, h, owner
    <3> QED
        BY <1>1, <1>2, ParkedIs DEF Unwalked
  <2> HIDE DEF queue, h, owner
  <2> QED
      BY <1>1, <2>1, InsertMarked
<1> HIDE DEF put
<1>3. waiting \in Seq(ItemOf(h, owner)) /\ Marked(waiting)
    BY <1>1, <1>2
<1> HIDE DEF waiting
<1>4. onto \in QueueOf(h, owner)
  <2> HIDE DEF queue, h, owner
  <2> QED
      BY <1>1, <1>3, Requeued
<1> HIDE DEF onto
<1>5. new \in QueueOf(h, owner)
    BY <1>4, StartIs
<1>6. u = [t EXCEPT !.active = type, !.q[type] = new]
    BY DEF Land, new, onto, waiting, put
<1> HIDE DEF new, u
<1>7. /\ Shaped(u) /\ u.q = [t.q EXCEPT ![type] = new] /\ u.history = t.history
      /\ u.active = type /\ u.switch = t.switch /\ u.style = t.style
      /\ u.pick = t.pick /\ u.digest = t.digest /\ u.saved = t.saved
    BY <1>6 DEF Session, Shaped
<1>8. u.switch \in QueueTypes \cup {None} /\ u.style \in {"spotify", "youtube"}
    BY <1>7 DEF Session
<1>9. Session(u, alive)
    BY <1>5, <1>7, <1>8, QueueChanged
<1> QED
    BY <1>9 DEF u

(* A queue plays: its paused item, else what is next in it.                *)
LEMMA PlayIs ==
    ASSUME NEW t, NEW alive, Session(t, alive), NEW type \in QueueTypes,
           NEW after \in Follows(t.history)
    PROVE  Session(Play(t, type, after), alive)
<1> DEFINE h == t.history
           owner == OwnerOf(t, type)
           queue == t.q[type]
           picked == StoredAutoplay(t, type)
           u == Play(t, type, after)
           resumed == [queue EXCEPT !.cur = Follow(@, after)]
           nextUser == Start([queue EXCEPT !.user = Tail(@)], Head(queue.user), after)
           nextCtx == Start([queue EXCEPT !.ctx = Tail(@)], Head(queue.ctx), after)
           played ==
            IF queue.cur # None THEN resumed
            ELSE IF queue.user # <<>> THEN nextUser
            ELSE IF queue.ctx # <<>> THEN nextCtx
            ELSE queue
<1>1. /\ queue \in QueueOf(h, owner)
      /\ queue.user \in Seq(ItemOf(h, owner)) /\ Marked(queue.user)
      /\ queue.ctx \in Seq(Unwalked(h, None))
    BY QueuesAre DEF QueueOf
<1>2. picked = None
    BY DEF StoredAutoplay, AutoplayKept, Session
<1>3. u = [t EXCEPT !.active = type, !.q[type] = played]
    BY <1>2 DEF Play
<1> HIDE DEF queue, h, owner, picked, u
<1>4. queue.cur # None => resumed \in QueueOf(h, owner)
    BY <1>1, PlaysOnAfter DEF h
<1>5. ASSUME queue.user # <<>>
      PROVE  nextUser \in QueueOf(h, owner)
  <2>1. Tail(queue.user) \in Seq(ItemOf(h, owner)) /\ Marked(Tail(queue.user))
      BY <1>1, <1>5, TailMarked
  <2>2. Head(queue.user) \in ItemOf(h, owner)
      BY <1>1, <1>5, HeadTailProperties
  <2>3. [queue EXCEPT !.user = Tail(@)] = [queue EXCEPT !.user = Tail(queue.user)]
      OBVIOUS
  <2>4. [queue EXCEPT !.user = Tail(@)] \in QueueOf(h, owner)
      BY <1>1, <2>1, <2>3, Requeued
  <2> QED
      BY <2>2, <2>4, StartIs DEF h
<1>6. ASSUME queue.ctx # <<>>
      PROVE  nextCtx \in QueueOf(h, owner)
  <2>1. Tail(queue.ctx) \in Seq(Unwalked(h, None)) /\ Head(queue.ctx) \in Unwalked(h, None)
      BY <1>1, <1>6, HeadTailProperties
  <2>2. Head(queue.ctx) \in ItemOf(h, owner)
      BY <2>1, ItemsOfNone
  <2>3. [queue EXCEPT !.ctx = Tail(@)] = [queue EXCEPT !.ctx = Tail(queue.ctx)]
      OBVIOUS
  <2>4. [queue EXCEPT !.ctx = Tail(@)] \in QueueOf(h, owner)
      BY <1>1, <2>1, <2>3, Requeued
  <2> QED
      BY <2>2, <2>4, StartIs DEF h
<1> HIDE DEF resumed, nextUser, nextCtx
<1>7. played \in QueueOf(h, owner)
    BY <1>1, <1>4, <1>5, <1>6
<1> HIDE DEF played
<1>8. /\ Shaped(u) /\ u.q = [t.q EXCEPT ![type] = played] /\ u.history = t.history
      /\ u.active = type /\ u.switch = t.switch /\ u.style = t.style
      /\ u.pick = t.pick /\ u.digest = t.digest /\ u.saved = t.saved
    BY <1>3 DEF Session, Shaped
<1>9. u.switch \in QueueTypes \cup {None} /\ u.style \in {"spotify", "youtube"}
    BY <1>8 DEF Session
<1>10. Session(u, alive)
    BY <1>7, <1>8, <1>9, QueueChanged DEF h, owner
<1> QED
    BY <1>10 DEF u

(* Which queue's first entry is the walk's next.                           *)
LEMMA WalkNextIs ==
    ASSUME NEW t, NEW alive, Session(t, alive), WalkHeads(t) # {}
    PROVE  /\ WalkNext(t) \in WalkHeads(t)
           /\ \A u \in WalkHeads(t) :
                 Head(t.q[WalkNext(t)].user).walk <= Head(t.q[u].user).walk
<1> DEFINE W(u) == Head(t.q[u].user).walk
<1>1. ASSUME NEW u \in WalkHeads(t)
      PROVE  u \in QueueTypes /\ W(u) \in Int
  <2>1. u \in QueueTypes /\ t.q[u].user # <<>> /\ W(u) # None
      BY DEF WalkHeads
  <2>2. Head(t.q[u].user) \in ItemOf(t.history, OwnerOf(t, u))
    <3>1. t.q[u].user \in Seq(ItemOf(t.history, OwnerOf(t, u)))
        BY <2>1, QueuesAre DEF QueueOf
    <3> QED
        BY <2>1, <3>1, HeadTailProperties
  <2> QED
      BY <2>1, <2>2 DEF ItemOf, ItemShape
<1> HIDE DEF W
<1>2. \E w \in WalkHeads(t) : \A u \in WalkHeads(t) : W(w) <= W(u)
  <2>1. PICK v \in WalkHeads(t) : TRUE
      OBVIOUS
  <2>2. CASE \A u \in WalkHeads(t) : W(v) <= W(u)
      BY <2>2
  <2>3. ASSUME NEW u \in WalkHeads(t), ~(W(v) <= W(u))
        PROVE  \E w \in WalkHeads(t) : \A x \in WalkHeads(t) : W(w) <= W(x)
    <3>1. \A x \in WalkHeads(t) : x = u \/ x = v
        BY <1>1, <2>3 DEF QueueTypes
    <3>2. W(u) <= W(v) /\ W(u) <= W(u)
        BY <1>1, <2>3
    <3> QED
        BY <3>1, <3>2
  <2> QED
      BY <2>2, <2>3
<1> QED
    BY <1>2 DEF WalkNext, W

(* Next: the walk's first entry, else what the queue plays next.           *)
LEMMA StepNextIs ==
    ASSUME NEW t, NEW alive, Session(t, alive)
    PROVE  Session(StepNext(t), alive)
<1> DEFINE after == RetiredPlay(t, t.active)
           r == Retired(t, t.active)
           walked == WalkNext(r)
           target == IF t.switch = None THEN t.active ELSE t.switch
           rest == [r EXCEPT !.q[walked].user = Tail(@)]
           first == Head(r.q[walked].user)
           open == [r EXCEPT !.switch = None]
<1>1. t.active \in QueueTypes /\ target \in QueueTypes
    BY DEF Session
<1>2. Session(r, alive) /\ after \in Follows(r.history)
    BY <1>1, RetiredIs
<1>3. StepNext(t) = IF WalkHeads(r) # {} THEN Land(rest, walked, first, after)
                    ELSE Play(open, target, after)
    BY DEF StepNext
<1> HIDE DEF after, r, target
<1>4. ASSUME WalkHeads(r) # {}
      PROVE  Session(Land(rest, walked, first, after), alive)
  <2> DEFINE h == r.history
             owner == OwnerOf(r, walked)
             queue == r.q[walked]
             less == [queue EXCEPT !.user = Tail(queue.user)]
  <2>1. walked \in QueueTypes /\ queue.user # <<>>
      BY <1>2, <1>4, WalkNextIs DEF WalkHeads
  <2> HIDE DEF walked
  <2>2. queue \in QueueOf(h, owner) /\ queue.user \in Seq(ItemOf(h, owner)) /\ Marked(queue.user)
      BY <1>2, <2>1, QueuesAre DEF QueueOf
  <2>3. /\ Tail(queue.user) \in Seq(ItemOf(h, owner)) /\ Marked(Tail(queue.user))
        /\ first \in ItemOf(h, owner)
    <3> HIDE DEF h, owner
    <3> QED
      BY <2>1, <2>2, TailMarked, HeadTailProperties
  <2>4. less \in QueueOf(h, owner)
    <3> HIDE DEF h, owner, queue
    <3> QED
      BY <2>2, <2>3, Requeued
  <2>5. /\ Shaped(rest) /\ rest.q = [r.q EXCEPT ![walked] = less] /\ rest.history = h
        /\ rest.active = r.active /\ rest.switch = r.switch /\ rest.style = r.style
        /\ rest.pick = r.pick /\ rest.digest = r.digest /\ rest.saved = r.saved
      BY <1>2, <2>1 DEF Session, Shaped
  <2>6. /\ rest.switch \in QueueTypes \cup {None} /\ rest.style \in {"spotify", "youtube"}
        /\ rest.active \in QueueTypes
      BY <1>2, <2>5 DEF Session
  <2> HIDE DEF rest, less, first, queue
  <2>7. Session(rest, alive)
      BY <1>2, <2>1, <2>4, <2>5, <2>6, QueueChanged
  <2>8. OwnerOf(rest, walked) = owner
      BY <2>5 DEF OwnerOf
  <2> QED
      BY <1>2, <2>1, <2>3, <2>5, <2>7, <2>8, LandIs
<1>5. Session(Play(open, target, after), alive)
  <2>1. /\ Shaped(open) /\ open.history = r.history /\ open.q = r.q
        /\ open.active = r.active /\ open.switch = None /\ open.style = r.style
        /\ open.pick = r.pick /\ open.digest = r.digest /\ open.saved = r.saved
      BY <1>2 DEF Session, Shaped
  <2>2. Session(open, alive)
      BY <1>2, <2>1 DEF Session
  <2> HIDE DEF open
  <2> QED
      BY <1>1, <1>2, <2>1, <2>2, PlayIs
<1> QED
    BY <1>3, <1>4, <1>5

(* The walk's lowest place, and that there is none when nothing walks.     *)
LEMMA LowestIs ==
    ASSUME NEW t, NEW alive, Session(t, alive)
    PROVE  /\ LowestWalk(t) \in Int \cup {None}
           /\ LowestWalk(t) = None => Unwalking(t)
           /\ LowestWalk(t) # None =>
                 \A type \in QueueTypes : \A i \in DOMAIN t.q[type].user :
                    t.q[type].user[i].walk # None => LowestWalk(t) <= t.q[type].user[i].walk
<1> DEFINE Of(type) == {t.q[type].user[i].walk : i \in DOMAIN t.q[type].user}
           places == (UNION {Of(type) : type \in QueueTypes}) \ {None}
           W(type) == t.q[type].user[1].walk
<1>1. ASSUME NEW type \in QueueTypes
      PROVE  /\ t.q[type].user \in Seq(ItemOf(t.history, OwnerOf(t, type))) /\ Marked(t.q[type].user)
             /\ DOMAIN t.q[type].user = 1..Len(t.q[type].user) /\ Len(t.q[type].user) \in Nat
             /\ \A i \in DOMAIN t.q[type].user :
                   /\ t.q[type].user[i] \in ItemOf(t.history, OwnerOf(t, type))
                   /\ t.q[type].user[i].walk \in Int \cup {None}
  <2>1. t.q[type].user \in Seq(ItemOf(t.history, OwnerOf(t, type))) /\ Marked(t.q[type].user)
      BY QueuesAre DEF QueueOf
  <2>2. DOMAIN t.q[type].user = 1..Len(t.q[type].user) /\ Len(t.q[type].user) \in Nat
      BY <2>1, LenProperties
  <2>3. \A i \in DOMAIN t.q[type].user : t.q[type].user[i] \in ItemOf(t.history, OwnerOf(t, type))
      BY <2>1, <2>2, ElementOfSeq
  <2> QED
      BY <2>1, <2>2, <2>3 DEF ItemOf, ItemShape
<1>2. ASSUME NEW type \in QueueTypes, NEW i \in DOMAIN t.q[type].user,
             t.q[type].user[i].walk # None
      PROVE  /\ W(type) \in Of(type) /\ W(type) \in Int /\ W(type) # None
             /\ W(type) <= t.q[type].user[i].walk
  <2>1. 1 \in DOMAIN t.q[type].user /\ i \in Nat /\ (i = 1 \/ 1 < i)
      BY <1>1, <1>2
  <2>2. W(type) # None /\ (i = 1 \/ W(type) < t.q[type].user[i].walk)
      BY <1>1, <1>2, <2>1 DEF Marked
  <2> QED
      BY <1>1, <1>2, <2>1, <2>2
<1>2a. \A type \in QueueTypes : \A i \in DOMAIN t.q[type].user :
          t.q[type].user[i].walk # None => t.q[type].user[i].walk \in places
    OBVIOUS
<1>3. \A p \in places : \E type \in QueueTypes : p \in Of(type) /\ p # None
    OBVIOUS
<1>4. ASSUME NEW p \in places
      PROVE  \E type \in QueueTypes : W(type) \in places /\ W(type) \in Int /\ W(type) <= p /\ p \in Int
  <2>1. PICK type \in QueueTypes : p \in Of(type) /\ p # None
      BY <1>3
  <2>2. PICK i \in DOMAIN t.q[type].user : p = t.q[type].user[i].walk
      BY <2>1
  <2>3. W(type) \in Of(type) /\ W(type) \in Int /\ W(type) # None /\ W(type) <= p
      BY <1>2, <2>1, <2>2
  <2>4. p \in Int
      BY <1>1, <2>1, <2>2
  <2> QED
      BY <2>3, <2>4
<1>5. ASSUME places # {}
      PROVE  \E m \in places : \A p \in places : m <= p
  <2> DEFINE own == {type \in QueueTypes : W(type) \in places /\ W(type) \in Int}
  <2>1. PICK v \in own : TRUE
      BY <1>4, <1>5
  <2>2. \A p \in places : \E type \in own : W(type) <= p /\ p \in Int
      BY <1>4
  <2>3. \E w \in own : \A x \in own : W(w) <= W(x)
    <3>0. \A x \in own : x \in QueueTypes /\ W(x) \in Int
        OBVIOUS
    <3> HIDE DEF W, own
    <3>1. CASE \A u \in own : W(v) <= W(u)
        BY <3>1
    <3>2. ASSUME NEW u \in own, ~(W(v) <= W(u))
          PROVE  \E w \in own : \A x \in own : W(w) <= W(x)
      <4>1. \A x \in own : x = u \/ x = v
          BY <3>0, <3>2 DEF QueueTypes
      <4>2. W(u) <= W(v) /\ W(u) <= W(u)
          BY <3>0, <3>2
      <4> QED
          BY <4>1, <4>2
    <3> QED
        BY <3>1, <3>2
  <2>4. PICK w \in own : \A x \in own : W(w) <= W(x)
      BY <2>3
  <2>5. \A x \in own : W(x) \in Int /\ W(x) \in places
      OBVIOUS
  <2> HIDE DEF W, own, places
  <2> QED
      BY <2>2, <2>4, <2>5
<1>6. LowestWalk(t) = IF places = {} THEN None ELSE Min(places)
    BY DEF LowestWalk
<1>7. CASE places = {}
  <2>1. \A type \in QueueTypes : \A i \in DOMAIN t.q[type].user : t.q[type].user[i].walk = None
      BY <1>2a, <1>7
  <2>2. ASSUME NEW type \in QueueTypes
        PROVE  t.q[type] \in Walkless(t.history, OwnerOf(t, type))
    <3> DEFINE line == t.q[type].user
               own == Unwalked(t.history, OwnerOf(t, type))
    <3>1. \A i \in 1..Len(line) : line[i] \in own
        BY <1>1, <2>1 DEF Unwalked
    <3>2. line = [i \in 1..Len(line) |-> line[i]] /\ Len(line) \in Nat
        BY <1>1, LenProperties
    <3> HIDE DEF line, own
    <3>3. line \in Seq(own)
        BY <3>1, <3>2
    <3> QED
        BY <3>3, QueuesAre DEF Walkless, line, own
  <2> QED
      BY <1>6, <1>7, <2>2 DEF Unwalking
<1>8. CASE places # {}
  <2>1. Min(places) \in places /\ \A p \in places : Min(places) <= p
      BY <1>5, <1>8 DEF Min
  <2>2. Min(places) \in Int /\ Min(places) # None
      BY <1>4, <2>1
  <2> QED
      BY <1>6, <1>8, <1>2a, <2>1, <2>2
<1> QED
    BY <1>7, <1>8

(* A play kept is the only one of its seq.                                 *)
LEMMA PlayKept ==
    ASSUME NEW h, PlaysOf(h), NEW p \in Range(h)
    PROVE  PlayOf(h, p.seq, p.ref) /\ p.seq \in Nat /\ p.ref \in Refs /\ p.queue \in QueueTypes
<1>1. Len(h) \in Nat /\ DOMAIN h = 1..Len(h) /\ h \in Seq(Range(h))
    BY LenProperties DEF PlaysOf
<1>2. PICK n \in DOMAIN h : p = h[n]
    BY DEF Range
<1>3. h # <<>> /\ Len(h) \in DOMAIN h /\ n <= Len(h) /\ n \in Nat /\ 1 \in DOMAIN h
    BY <1>1, <1>2, EmptySeq
<1>4. /\ \A m \in DOMAIN h : h[m].seq = h[1].seq + m - 1
      /\ h[1].seq \in Nat
    BY <1>3 DEF PlaysOf
<1>5. h[n].seq <= h[Len(h)].seq
    BY <1>1, <1>2, <1>3, <1>4
<1>6. \A m \in DOMAIN h : h[m].seq = h[n].seq => m = n
    BY <1>1, <1>2, <1>3, <1>4
<1> QED
    BY <1>2, <1>3, <1>5, <1>6 DEF PlayOf, Past, Last, PlaysOf

(* What Back leaves of the session before the earlier play is current.     *)
Stepped(t) ==
    LET left == t.q[t.active]
        place == IF LowestWalk(t) = None THEN 0 ELSE LowestWalk(t) - 1
    IN  IF left.cur = None THEN t
        ELSE [t EXCEPT !.q[t.active] =
                 [Cleared(left) EXCEPT !.user = <<[Parked(left) EXCEPT !.walk = place]>> \o @]]
Earlier(t) == CHOOSE h \in Range(t.history) : h.seq = BackTo(t)

(* The item left goes first in its queue, at a place below the walk's.     *)
LEMMA SteppedIs ==
    ASSUME NEW t, NEW alive, Session(t, alive)
    PROVE  /\ Session(Stepped(t), alive) /\ Stepped(t).history = t.history
           /\ SameElsewhere(Stepped(t), t)
<1> DEFINE left == t.q[t.active]
           place == IF LowestWalk(t) = None THEN 0 ELSE LowestWalk(t) - 1
           first == [Parked(left) EXCEPT !.walk = place]
           put == [Cleared(left) EXCEPT !.user = <<first>> \o @]
           h == t.history
           owner == OwnerOf(t, t.active)
           u == Stepped(t)
<1>1. CASE left.cur = None
    BY <1>1 DEF Stepped, SameElsewhere
<1>2. CASE left.cur # None
  <2>1. t.active \in QueueTypes
      BY DEF Session
  <2>2. left \in QueueOf(h, owner) /\ left.user \in Seq(ItemOf(h, owner)) /\ Marked(left.user)
      BY <2>1, QueuesAre DEF QueueOf
  <2>3. place \in Int
      BY LowestIs
  <2>4. \A j \in DOMAIN left.user : left.user[j].walk # None => place < left.user[j].walk
    <3>1. ASSUME NEW j \in DOMAIN left.user, left.user[j].walk # None
          PROVE  place < left.user[j].walk
      <4>1. left.user[j] \in ItemOf(h, owner)
          BY <2>2, LenProperties, ElementOfSeq
      <4>2. left.user[j].walk \in Int
          BY <3>1, <4>1 DEF ItemOf, ItemShape
      <4>3. CASE LowestWalk(t) = None
        <5>1. left \in Walkless(h, owner)
            BY <2>1, <4>3, LowestIs DEF Unwalking
        <5>2. left.user \in Seq(Unwalked(h, owner))
            BY <5>1 DEF Walkless
        <5> QED
            BY <3>1, <5>2, UnwalkedMarked
      <4>4. CASE LowestWalk(t) # None
        <5>1. LowestWalk(t) \in Int /\ LowestWalk(t) <= left.user[j].walk
            BY <2>1, <3>1, <4>4, LowestIs
        <5> QED
            BY <4>2, <4>4, <5>1
      <4> QED
          BY <4>3, <4>4
    <3> QED
        BY <3>1
  <2> HIDE DEF place, left, h, owner
  <2>5. Parked(left) \in Unwalked(h, owner)
      BY <1>2, <2>2, ParkedIs
  <2>6. first \in ItemOf(h, owner) /\ first.walk = place
      BY <2>3, <2>5 DEF Unwalked, ItemOf, ItemShape
  <2> DEFINE line == <<first>> \o left.user
  <2>7. line \in Seq(ItemOf(h, owner)) /\ Marked(line)
    <3> HIDE DEF first
    <3>1. <<first>> \in Seq(ItemOf(h, owner)) /\ DOMAIN <<first>> = {1} /\ <<first>>[1] = first
        BY <2>6
    <3>2. Marked(<<first>>)
        BY <3>1 DEF Marked
    <3>3. first.walk # None
        BY <2>3, <2>6, TapConstants
    <3> QED
        BY <2>2, <2>4, <2>6, <3>1, <3>2, <3>3, ConcatMarked
  <2> HIDE DEF line, first
  <2> DEFINE cleared == Cleared(left)
             changed == [cleared EXCEPT !.user = line]
  <2>8. cleared \in QueueOf(h, owner) /\ cleared.user = left.user
      BY <2>2, Requeued
  <2>9. put = changed
      BY <2>8 DEF line
  <2> HIDE DEF cleared, put
  <2>10. put \in QueueOf(h, owner)
      BY <2>7, <2>8, <2>9, Requeued
  <2>11. u = [t EXCEPT !.q[t.active] = put]
      BY <1>2 DEF Stepped, put, first, left, place
  <2> HIDE DEF u
  <2>12. /\ Shaped(u) /\ u.q = [t.q EXCEPT ![t.active] = put] /\ u.history = t.history
         /\ u.active = t.active /\ u.switch = t.switch /\ u.style = t.style
         /\ u.pick = t.pick /\ u.digest = t.digest /\ u.saved = t.saved
      BY <2>11 DEF Session, Shaped
  <2>13. /\ u.active \in QueueTypes /\ u.switch \in QueueTypes \cup {None}
         /\ u.style \in {"spotify", "youtube"}
      BY <2>12 DEF Session
  <2>14. Session(u, alive)
      BY <2>1, <2>10, <2>12, <2>13, QueueChanged DEF h, owner
  <2> QED
      BY <2>12, <2>14 DEF u, SameElsewhere
<1> QED
    BY <1>1, <1>2

(* The play Back makes current again was played, and is kept.              *)
LEMMA EarlierIs ==
    ASSUME NEW t, NEW alive, Session(t, alive), BackTo(t) # None
    PROVE  /\ Earlier(t) \in Range(t.history) /\ Earlier(t).seq = BackTo(t)
           /\ PlayOf(t.history, BackTo(t), Earlier(t).ref) /\ BackTo(t) \in Nat
           /\ Earlier(t).ref \in Refs /\ Earlier(t).queue \in QueueTypes
<1>1. BackTo(t) \in Seqs(t)
    BY DEF BackTo
<1>2. \E h \in Range(t.history) : h.seq = BackTo(t)
    BY <1>1 DEF Seqs, Range
<1>3. Earlier(t) \in Range(t.history) /\ Earlier(t).seq = BackTo(t)
    BY <1>2 DEF Earlier
<1>4. PlaysOf(t.history)
    BY DEF Session
<1> QED
    BY <1>3, <1>4, PlayKept

(* Back: the earlier play is current, as a replay.                         *)
LEMMA StepBackIs ==
    ASSUME NEW t, NEW alive, Session(t, alive)
    PROVE  Session(StepBack(t), alive)
<1> DEFINE replay == [Item(Earlier(t).ref) EXCEPT !.replayOf = Earlier(t).seq]
           type == Earlier(t).queue
           u == Stepped(t)
<1>1. StepBack(t) = IF BackTo(t) = None THEN t ELSE Land(u, type, replay, None)
    BY DEF StepBack, Stepped, Earlier
<1>2. ASSUME BackTo(t) # None
      PROVE  Session(Land(u, type, replay, None), alive)
  <2>1. Session(u, alive) /\ u.history = t.history
      BY SteppedIs
  <2>2. /\ Earlier(t).ref \in Refs /\ Earlier(t).seq \in Nat /\ type \in QueueTypes
        /\ PlayOf(u.history, Earlier(t).seq, Earlier(t).ref)
      BY <1>2, <2>1, EarlierIs
  <2> DEFINE new == Item(Earlier(t).ref)
  <2>3. new \in Unwalked(u.history, None) /\ new.ref = Earlier(t).ref
      BY <2>2, NewItem DEF Item
  <2> HIDE DEF u, new
  <2>4. [new EXCEPT !.replayOf = Earlier(t).seq] \in ItemOf(u.history, None)
      BY <2>2, <2>3 DEF Unwalked, ItemOf, ItemShape, Marks
  <2>5. replay \in ItemOf(u.history, OwnerOf(u, type))
      BY <2>4, ItemsOfNone DEF new
  <2>6. None \in Follows(u.history)
      BY DEF Follows
  <2> HIDE DEF replay, type
  <2> QED
      BY <2>1, <2>2, <2>5, <2>6, LandIs
<1> QED
    BY <1>1, <1>2

(* Another queue made active.                                              *)
LEMMA SwitchToIs ==
    ASSUME NEW t, NEW alive, Session(t, alive), NEW type \in QueueTypes
    PROVE  Session(SwitchTo(t, type), alive)
<1> DEFINE w == EndWalk(t, None)
           open == [w EXCEPT !.switch = None]
           after == Followed(t, Current(t))
<1>1. SwitchTo(t, type) = IF type = t.active THEN t ELSE Play(open, type, after)
    BY DEF SwitchTo
<1>2. Session(w, alive) /\ GoesOn(t.history, w.history)
    BY WalkEnded
<1>3. after \in Follows(w.history)
  <2>1. t.q[t.active] \in QueueOf(t.history, OwnerOf(t, t.active))
      BY QueuesAre DEF Session
  <2>2. Current(t) = None \/ Current(t) \in ItemOf(t.history, OwnerOf(t, t.active))
      BY <2>1 DEF Current, QueueOf, CurOf
  <2>3. after \in Follows(t.history)
      BY <2>2, FollowedPlays
  <2> QED
      BY <1>2, <2>3 DEF Follows, GoesOn
<1> HIDE DEF w, after
<1>4. /\ Shaped(open) /\ open.history = w.history /\ open.q = w.q
      /\ open.active = w.active /\ open.switch = None /\ open.style = w.style
      /\ open.pick = w.pick /\ open.digest = w.digest /\ open.saved = w.saved
    BY <1>2 DEF Session, Shaped
<1>5. Session(open, alive)
    BY <1>2, <1>4 DEF Session
<1> HIDE DEF open
<1>6. Session(Play(open, type, after), alive)
    BY <1>3, <1>4, <1>5, PlayIs
<1> QED
    BY <1>1, <1>6

(* Another style of queue.                                                 *)
LEMMA SetQueueStyleIs ==
    ASSUME NEW t, NEW alive, Session(t, alive), NEW style \in {"spotify", "youtube"}
    PROVE  Session(SetQueueStyle(t, style), alive)
<1> DEFINE u == SetQueueStyle(t, style)
           h == t.history
           queue == t.q["music"]
           all == queue.user \o queue.ctx
           joined == [queue EXCEPT !.user = all, !.ctx = <<>>]
<1>1. /\ queue \in QueueOf(h, None) /\ queue.user \in Seq(ItemOf(h, None)) /\ Marked(queue.user)
      /\ queue.ctx \in Seq(Unwalked(h, None))
    BY DEF Session, QueueOf
<1>2. CASE style = "youtube"
  <2>1. all \in Seq(ItemOf(h, None)) /\ Marked(all)
    <3> HIDE DEF queue, h
    <3>1. /\ queue.ctx \in Seq(ItemOf(h, None)) /\ Marked(queue.ctx)
          /\ \A n \in DOMAIN queue.ctx : queue.ctx[n].walk = None
        BY <1>1, UnwalkedMarked
    <3> QED
        BY <1>1, <3>1, ConcatMarked
  <2> HIDE DEF all
  <2>2. <<>> \in Seq(Unwalked(h, None))
      BY EmptySeq
  <2>3. joined \in QueueOf(h, None)
    <3> HIDE DEF queue, h
    <3> QED
        BY <1>1, <2>1, <2>2 DEF QueueOf
  <2>4. u = [t EXCEPT !.style = style, !.q["music"].user = all, !.q["music"].ctx = <<>>]
      BY <1>2 DEF SetQueueStyle, all
  <2> HIDE DEF u
  <2>5. /\ Shaped(u) /\ u.history = h
        /\ u.active = t.active /\ u.switch = t.switch /\ u.style = style
        /\ u.pick = t.pick /\ u.digest = t.digest /\ u.saved = t.saved
      BY <2>4 DEF Session, Shaped
  <2>6. u.q = [t.q EXCEPT !["music"] = joined]
      BY <2>4 DEF Session, Shaped
  <2> HIDE DEF joined
  <2>7. /\ u.active \in QueueTypes /\ u.switch \in QueueTypes \cup {None}
        /\ u.style \in {"spotify", "youtube"} /\ "music" \in QueueTypes
        /\ joined \in QueueOf(h, OwnerOf(t, "music"))
      BY <2>3, <2>5 DEF Session, QueueTypes, OwnerOf
  <2>8. Session(u, alive)
      BY <2>5, <2>6, <2>7, QueueChanged
  <2> QED
      BY <2>8 DEF u
<1>3. CASE style # "youtube"
  <2>1. u = [t EXCEPT !.style = style]
      BY <1>3 DEF SetQueueStyle
  <2> HIDE DEF u
  <2>2. /\ Shaped(u) /\ u.history = h /\ u.q = t.q
        /\ u.active = t.active /\ u.switch = t.switch /\ u.style = style
        /\ u.pick = t.pick /\ u.digest = t.digest /\ u.saved = t.saved
      BY <2>1 DEF Session, Shaped
  <2>3. Session(u, alive)
      BY <2>2 DEF Session
  <2> QED
      BY <2>3 DEF u
<1> QED
    BY <1>2, <1>3

----------------------------------------------------------------------------
(* Digests' queues                                                         *)

(* Some of the queues put aside, each still its owner's only one.          *)
LEMMA AsideKept ==
    ASSUME NEW h, NEW owners, NEW saved, AsideOf(h, owners, saved), NEW left, NEW kept,
           \A q \in kept : q.owner \in left
    PROVE  AsideOf(h, owners \cap left, Only(saved, kept))
<1> DEFINE S == Range(saved)
           only == Only(saved, kept)
<1>1. saved \in Seq(S)
    BY DEF AsideOf
<1> HIDE DEF S
<1>3. /\ only \in Seq(S \cap kept)
      /\ \E place \in [DOMAIN only -> DOMAIN saved] :
                 \A n \in DOMAIN only :
                    /\ only[n] = saved[place[n]]
                    /\ \A m \in DOMAIN only : m < n => place[m] < place[n]
    BY <1>1, OnlyKept
<1> HIDE DEF only
<1>4. only \in Seq(Range(only))
    BY <1>3, SeqOfRange
<1>5. Len(only) \in Nat /\ DOMAIN only = 1..Len(only) /\ Len(saved) \in Nat /\ DOMAIN saved = 1..Len(saved)
    BY <1>1, <1>3, LenProperties
<1>6. \A n \in DOMAIN only : only[n] \in kept
    BY <1>3, <1>5, ElementOfSeq
<1>7. PICK place \in [DOMAIN only -> DOMAIN saved] :
                 \A n \in DOMAIN only :
                    /\ only[n] = saved[place[n]]
                    /\ \A m \in DOMAIN only : m < n => place[m] < place[n]
    BY <1>3
<1>8. ASSUME NEW n \in DOMAIN only
      PROVE  only[n] \in [owner : owners \cap left, queue : Walkless(h, only[n].owner), pick : {None}]
  <2>1. only[n] \in [owner : owners, queue : Walkless(h, only[n].owner), pick : {None}]
      BY <1>7 DEF AsideOf
  <2>2. only[n].owner \in left
      BY <1>6
  <2> QED
      BY <2>1, <2>2
<1>9. ASSUME NEW m \in DOMAIN only, NEW n \in DOMAIN only, only[m].owner = only[n].owner
      PROVE  m = n
  <2>1. place[m] = place[n]
      BY <1>7, <1>9 DEF AsideOf
  <2>2. place[m] \in Nat
      BY <1>5
  <2> QED
      BY <1>5, <1>7, <2>1, <2>2
<1> QED
    BY <1>4, <1>8, <1>9 DEF AsideOf, only

(* The queues put aside without an owner's.                                *)
LEMMA OthersAre ==
    ASSUME NEW h, NEW owners, NEW saved, AsideOf(h, owners, saved), NEW owner
    PROVE  AsideOf(h, owners \ {owner}, Others(saved, owner))
<1> DEFINE left == owners \ {owner}
           kept == {q \in Range(saved) : q.owner # owner}
<1>1. \A q \in Range(saved) : q.owner \in owners
    BY DEF AsideOf, Range
<1>2. \A q \in kept : q.owner \in left
    BY <1>1
<1> HIDE DEF kept
<1>3. AsideOf(h, owners \cap left, Only(saved, kept))
    BY <1>2, AsideKept
<1>4. owners \cap left = owners \ {owner}
    OBVIOUS
<1> QED
    BY <1>3, <1>4 DEF Others, kept

(* One more queue put aside, of an owner that had none.                    *)
LEMMA AsidePut ==
    ASSUME NEW h, NEW owners, NEW saved, AsideOf(h, owners, saved),
           NEW owner, owner \notin owners, NEW queue \in Walkless(h, owner)
    PROVE  AsideOf(h, owners \cup {owner},
                   Append(saved, [owner |-> owner, queue |-> queue, pick |-> None]))
<1> DEFINE q == [owner |-> owner, queue |-> queue, pick |-> None]
           S == Range(saved) \cup {q}
           new == Append(saved, q)
<1>1. saved \in Seq(S) /\ q \in S
    BY SeqMonotonic DEF AsideOf
<1>2. /\ q \in [owner : owners \cup {owner}, queue : Walkless(h, q.owner), pick : {None}]
      /\ q.owner = owner
    OBVIOUS
<1> HIDE DEF S, q
<1>3. /\ new \in Seq(S) /\ Len(new) = Len(saved) + 1 /\ DOMAIN new = 1..Len(new)
      /\ \A i \in 1..Len(saved) : new[i] = saved[i]
      /\ new[Len(new)] = q
      /\ Len(saved) \in Nat /\ DOMAIN saved = 1..Len(saved)
    BY <1>1, AppendProperties, LenProperties
<1> HIDE DEF new
<1>4. new \in Seq(Range(new))
    BY <1>3, SeqOfRange
<1>5. \A n \in DOMAIN new : \/ n \in DOMAIN saved /\ new[n] = saved[n]
                            \/ n = Len(new) /\ new[n] = q
    BY <1>3
<1>6. \A n \in DOMAIN saved :
         saved[n] \in [owner : owners \cup {owner}, queue : Walkless(h, saved[n].owner), pick : {None}]
         /\ saved[n].owner # owner
    BY DEF AsideOf
<1>7. \A n \in DOMAIN new :
         new[n] \in [owner : owners \cup {owner}, queue : Walkless(h, new[n].owner), pick : {None}]
    BY <1>2, <1>5, <1>6
<1>8. ASSUME NEW m \in DOMAIN new, NEW n \in DOMAIN new, new[m].owner = new[n].owner
      PROVE  m = n
    BY <1>2, <1>5, <1>6, <1>8 DEF AsideOf
<1> QED
    BY <1>4, <1>7, <1>8 DEF AsideOf, new, q

(* What is saved of an owner is its own.                                   *)
LEMMA SavedIs ==
    ASSUME NEW t, NEW alive, Session(t, alive), NEW owner, NEW q \in SavedOf(t, owner)
    PROVE  /\ owner \in alive /\ owner # t.digest
           /\ q.queue \in Walkless(t.history, owner) /\ q.pick = None
<1>1. PICK n \in DOMAIN t.saved : q = t.saved[n]
    BY DEF Range, SavedOf
<1>2. q.owner = owner
    BY DEF SavedOf
<1>3. AsideOf(t.history, alive \ {t.digest}, t.saved)
    BY DEF Session
<1> QED
    BY <1>1, <1>2, <1>3 DEF AsideOf

(* The spoken queue put aside, as its owner's.                             *)
LEMMA PutAsideIs ==
    ASSUME NEW t, NEW alive, Session(t, alive), t.q["spoken"] \in Walkless(t.history, t.digest)
    PROVE  LET u == PutAside(t)
           IN  /\ Shaped(u) /\ u.active = t.active /\ u.switch = t.switch /\ u.style = t.style
               /\ u.q = t.q /\ u.history = t.history /\ u.pick = t.pick /\ u.digest = t.digest
               /\ AsideOf(t.history, alive, u.saved)
<1> DEFINE h == t.history
           queue == t.q["spoken"]
           cur == IF queue.cur = None THEN queue.cur ELSE [queue.cur EXCEPT !.after = None]
           left == [queue EXCEPT !.cur = cur]
           others == Others(t.saved, t.digest)
           saved == Append(others, [owner |-> t.digest, queue |-> left, pick |-> None])
           u == PutAside(t)
<1>1. t.pick["spoken"] = None
    BY DEF Session, QueueTypes
<1>2. u = [t EXCEPT !.saved = saved]
    BY <1>1 DEF PutAside
<1>3. queue.cur \in CurOf(h, t.digest) \cup {None}
    BY DEF Walkless, QueueOf
<1>4. /\ cur \in CurOf(h, t.digest) \cup {None}
      /\ queue.cur # None => cur # None /\ cur.ref = queue.cur.ref
  <2>1. CASE queue.cur = None
      BY <2>1
  <2>2. CASE queue.cur # None
    <3>1. cur = [queue.cur EXCEPT !.after = None] /\ queue.cur \in CurOf(h, t.digest)
        BY <1>3, <2>2
    <3>2. cur \in CurOf(h, t.digest) /\ cur.ref = queue.cur.ref
        BY <3>1 DEF CurOf, ItemOf, ItemShape, Marks
    <3> QED
        BY <3>2, ItemsOfNone
  <2> QED
      BY <2>1, <2>2
<1> HIDE DEF cur
<1>5. left \in Walkless(h, t.digest)
    BY <1>4 DEF Walkless, QueueOf
<1>6. AsideOf(h, alive \ {t.digest}, t.saved)
    BY DEF Session
<1>7. AsideOf(h, (alive \ {t.digest}) \ {t.digest}, others)
    BY <1>6, OthersAre
<1>8. AsideOf(h, ((alive \ {t.digest}) \ {t.digest}) \cup {t.digest}, saved)
  <2> HIDE DEF others, left
  <2> QED
      BY <1>5, <1>7, AsidePut
<1>9. ((alive \ {t.digest}) \ {t.digest}) \cup {t.digest} = alive
    BY DEF Session
<1> HIDE DEF saved, u
<1>10. /\ Shaped(u) /\ u.active = t.active /\ u.switch = t.switch /\ u.style = t.style
       /\ u.q = t.q /\ u.history = t.history /\ u.pick = t.pick /\ u.digest = t.digest
       /\ u.saved = saved
    BY <1>2 DEF Session, Shaped
<1> QED
    BY <1>8, <1>9, <1>10 DEF u

(* The spoken queue and who it is of changed for others.                   *)
LEMMA SpokenChanged ==
    ASSUME NEW t, NEW alive, Session(t, alive), NEW u, Shaped(u), u.active \in QueueTypes,
           u.switch \in QueueTypes \cup {None}, u.style = t.style, u.history = t.history,
           u.digest \in alive, NEW queue \in QueueOf(t.history, u.digest),
           u.q = [t.q EXCEPT !["spoken"] = queue], u.pick \in [QueueTypes -> {None}],
           AsideOf(t.history, alive \ {u.digest}, u.saved)
    PROVE  Session(u, alive) /\ u.q["spoken"] = queue /\ u.q["music"] = t.q["music"]
<1>1. /\ u.q["spoken"] = queue /\ u.q["music"] = t.q["music"]
      /\ u.q = [type \in QueueTypes |-> u.q[type]]
    BY QueuesAre DEF QueueTypes
<1>2. t.q["music"] \in QueueOf(t.history, None)
    BY DEF Session
<1>3. \A type \in QueueTypes :
          u.q[type] \in QueueOf(u.history, IF type = "spoken" THEN u.digest ELSE None)
    BY <1>1, <1>2 DEF QueueTypes
<1>4. u.q \in [QueueTypes -> QueueOf(u.history, u.digest)] /\ u.q["music"] \in QueueOf(u.history, None)
    BY <1>1, <1>3, QueuesMake
<1>5. t.style \in {"spotify", "youtube"} /\ PlaysOf(t.history) /\ alive \subseteq DOMAIN Digests \cup {None}
    BY DEF Session
<1>6. Session(u, alive)
    BY <1>4, <1>5 DEF Session
<1> QED
    BY <1>1, <1>6

(* Another owner's queue in place of the spoken one, which is put aside.   *)
LEMMA SwapSpokenIs ==
    ASSUME NEW t, NEW alive, Session(t, alive), t.q["spoken"] \in Walkless(t.history, t.digest),
           NEW owner \in alive, NEW after \in Follows(t.history)
    PROVE  LET u == SwapSpoken(t, owner, after)
           IN  /\ Session(u, alive) /\ u.q["spoken"] \in Walkless(t.history, owner)
               /\ u.q["music"] = t.q["music"] /\ u.history = t.history /\ u.digest = owner
               /\ u.active = t.active /\ u.switch = t.switch /\ u.style = t.style
<1> DEFINE h == t.history
           back == SavedOf(t, owner)
           aside == PutAside(t)
           held == CHOOSE q \in back : TRUE
           queue == IF back = {} THEN EmptyQueue ELSE held.queue
           resumed == [queue EXCEPT !.cur = Follow(@, after)]
           new == IF queue.cur = None THEN queue ELSE resumed
           pick == IF back = {} THEN None ELSE held.pick
           u == SwapSpoken(t, owner, after)
<1>1. /\ Shaped(aside) /\ aside.active = t.active /\ aside.switch = t.switch /\ aside.style = t.style
      /\ aside.q = t.q /\ aside.history = t.history /\ aside.pick = t.pick
      /\ aside.digest = t.digest /\ AsideOf(h, alive, aside.saved)
    BY PutAsideIs
<1>2. AsideOf(h, alive \ {owner}, Others(aside.saved, owner))
    BY <1>1, OthersAre
<1>3. u = [aside EXCEPT !.saved = Others(@, owner), !.digest = owner, !.pick["spoken"] = pick,
                        !.q["spoken"] = new]
    BY DEF SwapSpoken
<1>5. back # {} => held.queue \in Walkless(h, owner) /\ held.pick = None
  <2>1. back # {} => held \in back
      OBVIOUS
  <2> HIDE DEF held
  <2> QED
      BY <2>1, SavedIs
<1>6. EmptyQueue \in Walkless(h, owner)
  <2>1. <<>> \in Seq(ItemOf(h, owner)) /\ <<>> \in Seq(Unwalked(h, owner)) /\ <<>> \in Seq(Unwalked(h, None))
      BY EmptySeq
  <2>2. Marked(<<>>)
      BY <2>1, UnwalkedMarked
  <2>3. EmptyQueue \in QueueOf(h, owner) /\ EmptyQueue.user = <<>>
      BY <2>1, <2>2 DEF EmptyQueue, QueueOf
  <2> QED
      BY <2>1, <2>3 DEF Walkless
<1>7. queue \in Walkless(h, owner) /\ pick = None
    BY <1>5, <1>6
<1> HIDE DEF queue, pick
<1>8. new \in Walkless(h, owner)
  <2>1. CASE queue.cur = None
      BY <1>7, <2>1
  <2>2. CASE queue.cur # None
    <3> DEFINE line == queue.user
    <3>0. queue \in QueueOf(h, owner) /\ line \in Seq(Unwalked(h, owner))
        BY <1>7 DEF Walkless
    <3>1. resumed \in QueueOf(h, owner) /\ resumed.user = line
        BY <2>2, <3>0, PlaysOnAfter
    <3> QED
        BY <2>2, <3>0, <3>1 DEF Walkless
  <2> QED
      BY <2>1, <2>2
<1>9. new \in QueueOf(h, owner)
    BY <1>8 DEF Walkless
<1> HIDE DEF new, aside, u
<1>9a. aside.q = [type \in QueueTypes |-> t.q[type]] /\ aside.pick = [type \in QueueTypes |-> None]
    BY <1>1, QueuesAre DEF Session
<1>10. /\ Shaped(u) /\ u.active = t.active /\ u.switch = t.switch /\ u.style = t.style
       /\ u.history = h /\ u.digest = owner /\ u.saved = Others(aside.saved, owner)
    BY <1>1, <1>3 DEF Session, Shaped
<1>11. u.q = [t.q EXCEPT !["spoken"] = new]
    BY <1>1, <1>3 DEF Session, Shaped
<1>12. u.pick \in [QueueTypes -> {None}]
  <2>1. u.pick = [t.pick EXCEPT !["spoken"] = pick]
      BY <1>1, <1>3 DEF Session, Shaped
  <2> QED
      BY <1>7, <2>1 DEF Session
<1>13. /\ u.active \in QueueTypes /\ u.switch \in QueueTypes \cup {None} /\ u.digest \in alive
       /\ new \in QueueOf(t.history, u.digest) /\ u.history = t.history
       /\ AsideOf(t.history, alive \ {u.digest}, u.saved)
    BY <1>2, <1>9, <1>10 DEF Session
<1>14. Session(u, alive) /\ u.q["spoken"] = new /\ u.q["music"] = t.q["music"]
  <2>1. Shaped(u) /\ u.style = t.style
      BY <1>10
  <2> QED
      BY <2>1, <1>11, <1>12, <1>13, SpokenChanged
<1> QED
    BY <1>8, <1>10, <1>14 DEF u

(* What is current is of the active queue's owner.                         *)
LEMMA CurrentFollowed ==
    ASSUME NEW t, NEW alive, Session(t, alive)
    PROVE  Followed(t, Current(t)) \in Follows(t.history)
<1>1. t.q[t.active] \in QueueOf(t.history, OwnerOf(t, t.active))
    BY QueuesAre DEF Session
<1>2. Current(t) = None \/ Current(t) \in ItemOf(t.history, OwnerOf(t, t.active))
    BY <1>1 DEF Current, QueueOf, CurOf
<1> QED
    BY <1>2, FollowedPlays

(* The spoken queue made active.                                           *)
LEMMA OnSpokenIs ==
    ASSUME NEW t, NEW alive, Session(t, alive)
    PROVE  Session(OnSpoken(t), alive)
<1> DEFINE u == OnSpoken(t)
<1>1. u = [t EXCEPT !.active = "spoken", !.switch = IF t.switch = "spoken" THEN None ELSE t.switch]
    BY DEF OnSpoken
<1> HIDE DEF u
<1>2. /\ Shaped(u) /\ u.active = "spoken" /\ u.switch = (IF t.switch = "spoken" THEN None ELSE t.switch)
      /\ u.style = t.style /\ u.q = t.q /\ u.history = t.history /\ u.pick = t.pick
      /\ u.digest = t.digest /\ u.saved = t.saved
    BY <1>1 DEF Session, Shaped
<1>3. Session(u, alive)
    BY <1>2 DEF Session, QueueTypes
<1> QED
    BY <1>3 DEF u

(* The walk ended, and what is next to follow the item left.               *)
LEMMA LeftIs ==
    ASSUME NEW t, NEW alive, Session(t, alive)
    PROVE  LET w == EndWalk(t, None)
           IN  /\ Session(w, alive) /\ Unwalking(w) /\ w.q["spoken"] \in Walkless(w.history, w.digest)
               /\ GoesOn(t.history, w.history)
               /\ SameElsewhere(w, t) /\ w.active = t.active /\ w.switch = t.switch
               /\ Followed(t, Current(t)) \in Follows(w.history)
<1> DEFINE w == EndWalk(t, None)
<1>1. /\ Session(w, alive) /\ Unwalking(w) /\ GoesOn(t.history, w.history)
      /\ w.active = t.active /\ w.switch = t.switch /\ SameElsewhere(w, t)
    BY WalkEnded
<1>2. Followed(t, Current(t)) \in Follows(t.history)
    BY CurrentFollowed
<1> HIDE DEF w
<1>3. Followed(t, Current(t)) \in Follows(w.history)
    BY <1>1, <1>2 DEF Follows, GoesOn
<1>4. w.q["spoken"] \in Walkless(w.history, w.digest)
    BY <1>1 DEF Unwalking, OwnerOf, QueueTypes
<1> QED
    BY <1>1, <1>3, <1>4 DEF w

(* A saved queue that comes back whole.                                    *)
LEMMA ResumeSavedIs ==
    ASSUME NEW t, NEW alive, Session(t, alive), NEW owner
    PROVE  Session(ResumeSaved(t, owner), alive)
<1> DEFINE w == EndWalk(t, None)
           after == Followed(t, Current(t))
           u == SwapSpoken(w, owner, after)
<1>1. ResumeSaved(t, owner) = IF SavedOf(t, owner) = {} THEN t ELSE OnSpoken(u)
    BY DEF ResumeSaved
<1>2. ASSUME SavedOf(t, owner) # {}
      PROVE  Session(OnSpoken(u), alive)
  <2>1. /\ Session(w, alive) /\ w.q["spoken"] \in Walkless(w.history, w.digest)
        /\ after \in Follows(w.history)
      BY LeftIs
  <2>3. owner \in alive
      BY <1>2, SavedIs
  <2> HIDE DEF w, after
  <2>4. Session(u, alive)
      BY <2>1, <2>3, SwapSpokenIs
  <2> QED
      BY <2>4, OnSpokenIs
<1> QED
    BY <1>1, <1>2

(* A queue's position is one in its current item.                          *)
LEMMA PositionIs ==
    ASSUME NEW h, NEW owner, NEW queue \in QueueOf(h, owner)
    PROVE  /\ queue.cur # None => queue.pos \in {None, queue.cur.ref}
           /\ queue.cur \in ItemOf(h, owner) \cup {None}
  BY DEF QueueOf, CurOf

(* A digest that plays in a queue of its own.                              *)
LEMMA EnterDigestIs ==
    ASSUME NEW t, NEW alive, Session(t, alive), NEW digest \in DOMAIN Digests, digest \in alive,
           NEW episodes \in Digests[digest], NEW start \in Range(episodes) \cup {None}
    PROVE  Session(EnterDigest(t, digest, episodes, start), alive)
<1> DEFINE left == IF t.digest = digest THEN {t.q["spoken"]}
                   ELSE {q.queue : q \in SavedOf(t, digest)}
           one == CHOOSE q \in left : TRUE
           was == IF left = {} THEN None ELSE one.cur
           first == IF start # None THEN start
                    ELSE IF was = None THEN episodes[1]
                    ELSE IF was.ref \in Range(episodes) THEN was.ref ELSE episodes[1]
           same == IF was = None THEN FALSE ELSE was.ref = first
           Listed(ref) == [Item(ref) EXCEPT !.list = digest]
           rest == Only(episodes, Range(episodes) \ {first})
           w == EndWalk(t, None)
           h == w.history
           aside == IF t.digest = digest THEN w ELSE PutAside(w)
           after == Followed(t, Current(t))
           others == Others(aside.saved, digest)
           line == [n \in DOMAIN rest |-> Listed(rest[n])]
           cur == Follow(Listed(first), after)
           pos == IF same THEN one.pos ELSE None
           new == [cur |-> cur, pos |-> pos, user |-> line, ctx |-> <<>>]
           u == [aside EXCEPT !.saved = others, !.digest = digest,
                              !.pick["spoken"] = None, !.q["spoken"] = new]
<1>1. EnterDigest(t, digest, episodes, start) = OnSpoken(u)
    BY DEF EnterDigest
<1>2. /\ Session(w, alive) /\ w.q["spoken"] \in Walkless(h, w.digest)
      /\ w.active = t.active /\ w.switch = t.switch /\ SameElsewhere(w, t)
      /\ after \in Follows(h)
    BY LeftIs
<1>3. episodes \in Seq(Refs) /\ episodes # <<>> /\ Range(episodes) \subseteq Refs /\ episodes[1] \in Refs
  <2>1. episodes \in Seq(Refs) /\ episodes # <<>>
      BY TapConstants
  <2>2. Range(episodes) \subseteq Refs
      BY <2>1, RangeOfSeq
  <2>3. 1 \in 1..Len(episodes)
      BY <2>1, EmptySeq, LenProperties
  <2> QED
      BY <2>1, <2>2, <2>3, ElementOfSeq
<1>4. first \in Refs
    BY <1>3
<1>5. left # {} => /\ one.cur # None => one.pos \in {None, one.cur.ref}
                   /\ one \in left
  <2>1. t.q["spoken"] \in QueueOf(t.history, OwnerOf(t, "spoken"))
      BY QueuesAre DEF QueueTypes
  <2>2. \A q \in SavedOf(t, digest) : q.queue \in QueueOf(t.history, digest)
      BY SavedIs DEF Walkless
  <2>3. \A queue \in left : \E owner : queue \in QueueOf(t.history, owner)
      BY <2>1, <2>2
  <2>4. left # {} => one \in left
      OBVIOUS
  <2> HIDE DEF left, one
  <2> QED
      BY <2>3, <2>4, PositionIs
<1>6. pos \in {None, first}
    BY <1>5
<1> HIDE DEF pos, first
<1>7. cur \in CurOf(h, digest) /\ cur.ref = first /\ cur # None
  <2> DEFINE item == Listed(first)
  <2>1. item \in Unwalked(h, digest) /\ item.pos = None /\ item.ref = first
      BY <1>4, NewItem DEF Item
  <2> HIDE DEF item
  <2>2. item \in ItemOf(h, digest) /\ item.walk = None
      BY <2>1 DEF Unwalked
  <2>3. Follow(item, after) \in CurOf(h, digest) /\ Follow(item, after).ref = first
      BY <1>2, <2>1, <2>2, FollowIs
  <2> QED
      BY <2>3, ItemsOfNone DEF item
<1>8. rest \in Seq(Refs)
  <2>1. rest \in Seq(Refs \cap (Range(episodes) \ {first}))
      BY <1>3, OnlyKept
  <2>2. Refs \cap (Range(episodes) \ {first}) \subseteq Refs
      OBVIOUS
  <2> QED
      BY <2>1, <2>2, SeqMonotonic
<1> HIDE DEF rest
<1>9. line \in Seq(Unwalked(h, digest))
  <2>1. Len(rest) \in Nat /\ DOMAIN rest = 1..Len(rest) /\ \A n \in 1..Len(rest) : rest[n] \in Refs
      BY <1>8, LenProperties, ElementOfSeq
  <2>2. \A n \in 1..Len(rest) : line[n] \in Unwalked(h, digest)
      BY <2>1, NewItem
  <2>3. line = [n \in 1..Len(rest) |-> line[n]]
      BY <2>1
  <2> HIDE DEF line
  <2> QED
      BY <2>1, <2>2, <2>3
<1> HIDE DEF line, cur
<1>10. new \in QueueOf(h, digest)
  <2>1. line \in Seq(ItemOf(h, digest)) /\ Marked(line)
      BY <1>9, UnwalkedMarked
  <2>2. <<>> \in Seq(Unwalked(h, None))
      BY EmptySeq
  <2> QED
      BY <1>4, <1>6, <1>7, <2>1, <2>2 DEF QueueOf
<1>11. /\ Shaped(aside) /\ aside.active = t.active /\ aside.switch = t.switch /\ aside.style = w.style
       /\ aside.q = w.q /\ aside.history = h /\ aside.pick = w.pick
  <2>1. CASE t.digest = digest
      BY <1>2, <2>1 DEF Session
  <2>2. CASE t.digest # digest
      BY <1>2, <2>2, PutAsideIs
  <2> QED
      BY <2>1, <2>2
<1>12. AsideOf(h, alive \ {digest}, others)
  <2>1. CASE t.digest = digest
    <3>1. AsideOf(h, alive \ {digest}, aside.saved)
        BY <1>2, <2>1 DEF Session, SameElsewhere
    <3>2. AsideOf(h, (alive \ {digest}) \ {digest}, others)
        BY <3>1, OthersAre
    <3> QED
        BY <3>2, (alive \ {digest}) \ {digest} = alive \ {digest}
  <2>2. CASE t.digest # digest
    <3>1. AsideOf(h, alive, aside.saved)
        BY <1>2, <2>2, PutAsideIs
    <3> QED
        BY <3>1, OthersAre
  <2> QED
      BY <2>1, <2>2
<1> HIDE DEF w, aside, new, u, others
<1>13. w.q = [type \in QueueTypes |-> w.q[type]] /\ w.pick = [type \in QueueTypes |-> None]
    BY <1>2, QueuesAre DEF Session
<1>14. /\ Shaped(u) /\ u.active = t.active /\ u.switch = t.switch /\ u.style = w.style
       /\ u.history = h /\ u.digest = digest /\ u.saved = others
       /\ u.q = [w.q EXCEPT !["spoken"] = new]
    BY <1>11 DEF Shaped, u
<1>15. u.pick \in [QueueTypes -> {None}]
  <2>1. u.pick = [w.pick EXCEPT !["spoken"] = None]
      BY <1>11 DEF Shaped, u
  <2> QED
      BY <1>13, <2>1
<1>16. /\ u.active \in QueueTypes /\ u.switch \in QueueTypes \cup {None} /\ u.digest \in alive
       /\ new \in QueueOf(w.history, u.digest) /\ u.history = w.history
       /\ AsideOf(w.history, alive \ {u.digest}, u.saved)
    BY <1>10, <1>12, <1>14 DEF Session
<1>17. Shaped(u) /\ u.style = w.style /\ u.q = [w.q EXCEPT !["spoken"] = new]
    BY <1>14
<1>18. Session(u, alive)
    BY <1>2, <1>15, <1>16, <1>17, SpokenChanged
<1> QED
    BY <1>1, <1>18, OnSpokenIs

----------------------------------------------------------------------------
(* Adding                                                                  *)

(* A session with other entries in one queue.                              *)
LEMMA Entered ==
    ASSUME NEW t, NEW alive, Session(t, alive), NEW type \in QueueTypes,
           NEW user \in Seq(ItemOf(t.history, OwnerOf(t, type))), Marked(user)
    PROVE  Session([t EXCEPT !.q[type].user = user], alive)
<1> DEFINE queue == t.q[type]
           new == [queue EXCEPT !.user = user]
           u == [t EXCEPT !.q[type].user = user]
<1>1. queue \in QueueOf(t.history, OwnerOf(t, type))
    BY QueuesAre
<1> HIDE DEF queue
<1>2. new \in QueueOf(t.history, OwnerOf(t, type))
    BY <1>1, Requeued
<1>3. /\ Shaped(u) /\ u.active = t.active /\ u.switch = t.switch /\ u.style = t.style
      /\ u.history = t.history /\ u.pick = t.pick /\ u.digest = t.digest /\ u.saved = t.saved
      /\ u.q = [t.q EXCEPT ![type] = new]
    BY DEF Session, Shaped, queue
<1> HIDE DEF u, new
<1>4. /\ u.active \in QueueTypes /\ u.switch \in QueueTypes \cup {None}
      /\ u.style \in {"spotify", "youtube"}
    BY <1>3 DEF Session
<1>5. Session(u, alive)
    BY <1>2, <1>3, <1>4, QueueChanged
<1> QED
    BY <1>5 DEF u

(* What is put next: before a walk that has not ended, in its order; else  *)
(* first, and before what a queue that is not active held while paused.    *)
LEMMA AddNextIs ==
    ASSUME NEW t, NEW alive, Session(t, alive), NEW type \in QueueTypes,
           NEW items \in Seq(Unwalked(t.history, OwnerOf(t, type)))
    PROVE  Session(AddNext(t, type, items), alive)
<1> DEFINE h == t.history
           owner == OwnerOf(t, type)
           lowest == LowestWalk(t)
           n == Len(items)
           queue == t.q[type]
           paused == IF queue.cur = None THEN <<>> ELSE <<Parked(queue)>>
           walked == [i \in 1..n |-> [items[i] EXCEPT !.walk = lowest - n + i - 1]]
           u == AddNext(t, type, items)
<1>1. queue \in QueueOf(h, owner) /\ queue.user \in Seq(ItemOf(h, owner)) /\ Marked(queue.user)
    BY QueuesAre DEF QueueOf
<1>2. n \in Nat /\ DOMAIN items = 1..n /\ \A i \in 1..n : items[i] \in Unwalked(h, owner)
    BY LenProperties, ElementOfSeq
<1>3. CASE lowest # None
  <2> DEFINE line == walked \o queue.user
  <2>1. lowest \in Int
      BY <1>3, LowestIs
  <2>2. \A j \in DOMAIN queue.user : queue.user[j].walk # None => lowest <= queue.user[j].walk
      BY <1>3, LowestIs
  <2>3. \A j \in DOMAIN queue.user : queue.user[j].walk \in Int \cup {None}
    <3>1. \A j \in DOMAIN queue.user : queue.user[j] \in ItemOf(h, owner)
        BY <1>1, LenProperties, ElementOfSeq
    <3> QED
        BY <3>1 DEF ItemOf, ItemShape
  <2>4. u = [t EXCEPT !.q[type].user = line]
      BY <1>3 DEF AddNext
  <2> HIDE DEF lowest, queue, h, owner, n
  <2>5. \A i \in 1..n : lowest - n + i - 1 \in Int /\ lowest - n + i - 1 < lowest
      BY <1>2, <2>1
  <2>6. /\ DOMAIN walked = 1..n
        /\ \A i \in 1..n : /\ walked[i] \in ItemOf(h, owner)
                           /\ walked[i].walk = lowest - n + i - 1
      BY <1>2, <2>5 DEF Unwalked, ItemOf, ItemShape
  <2>7. walked \in Seq(ItemOf(h, owner))
      BY <1>2, <2>6
  <2> HIDE DEF walked
  <2>8. \A i \in 1..n : walked[i].walk \in Int /\ walked[i].walk # None
      BY <2>5, <2>6, TapConstants
  <2>9. Marked(walked)
      BY <1>2, <2>1, <2>6, <2>8 DEF Marked
  <2>10. \A i \in DOMAIN walked, j \in DOMAIN queue.user :
            queue.user[j].walk # None => walked[i].walk # None /\ walked[i].walk < queue.user[j].walk
    <3>1. \A i \in 1..n : walked[i].walk < lowest
        BY <2>5, <2>6
    <3> QED
        BY <2>1, <2>2, <2>3, <2>6, <2>8, <3>1
  <2>11. line \in Seq(ItemOf(h, owner)) /\ Marked(line)
      BY <1>1, <2>7, <2>9, <2>10, ConcatMarked
  <2> HIDE DEF line
  <2> QED
      BY <2>4, <2>11, Entered DEF h, owner
<1>4. CASE lowest = None
  <2>1. queue \in Walkless(h, owner)
      BY <1>4, LowestIs DEF Unwalking
  <2>2. queue.user \in Seq(Unwalked(h, owner))
      BY <2>1 DEF Walkless
  <2>3. CASE type # t.active
    <3> DEFINE line == (items \o paused) \o queue.user
               cleared == Cleared(queue)
               new == [cleared EXCEPT !.user = line]
    <3>1. cleared \in QueueOf(h, owner) /\ cleared.user = queue.user
        BY <1>1, Requeued
    <3>2. u = [t EXCEPT !.q[type] = [cleared EXCEPT !.user = items \o paused \o @], !.switch = type]
        BY <1>4, <2>3 DEF AddNext
    <3>3. [cleared EXCEPT !.user = items \o paused \o @] = new
        BY <3>1
    <3>4. paused \in Seq(Unwalked(h, owner))
      <4> HIDE DEF queue, h, owner
      <4>1. CASE queue.cur = None
          BY <4>1, EmptySeq
      <4>2. CASE queue.cur # None
        <5>1. Parked(queue) \in Unwalked(h, owner)
            BY <1>1, <4>2, ParkedIs
        <5> QED
            BY <4>2, <5>1
      <4> QED
          BY <4>1, <4>2
    <3> HIDE DEF cleared, paused, queue, h, owner
    <3>5. line \in Seq(Unwalked(h, owner))
        BY <2>2, <3>4, ConcatProperties DEF h, owner
    <3> HIDE DEF line
    <3>6. line \in Seq(ItemOf(h, owner)) /\ Marked(line)
        BY <3>5, UnwalkedMarked
    <3>7. new \in QueueOf(h, owner)
        BY <3>1, <3>6, Requeued
    <3> HIDE DEF new, u
    <3>8. /\ Shaped(u) /\ u.active = t.active /\ u.switch = type /\ u.style = t.style
          /\ u.history = t.history /\ u.pick = t.pick /\ u.digest = t.digest /\ u.saved = t.saved
          /\ u.q = [t.q EXCEPT ![type] = new]
        BY <3>2, <3>3 DEF Session, Shaped
    <3>9. /\ u.active \in QueueTypes /\ u.switch \in QueueTypes \cup {None}
          /\ u.style \in {"spotify", "youtube"}
        BY <3>8 DEF Session
    <3>10. Session(u, alive)
        BY <3>7, <3>8, <3>9, QueueChanged DEF h, owner
    <3> QED
        BY <3>10 DEF u
  <2>4. CASE type = t.active
    <3> DEFINE line == items \o queue.user
    <3>1. u = [t EXCEPT !.q[type].user = line]
        BY <1>4, <2>4 DEF AddNext
    <3> HIDE DEF queue
    <3>2. line \in Seq(Unwalked(h, owner))
        BY <2>2, ConcatProperties
    <3> HIDE DEF line
    <3>3. line \in Seq(ItemOf(h, owner)) /\ Marked(line)
      <4> HIDE DEF h, owner
      <4> QED
          BY <3>2, UnwalkedMarked
    <3> QED
        BY <3>1, <3>3, Entered
  <2> QED
      BY <2>3, <2>4
<1> QED
    BY <1>3, <1>4

(* What plays now in a queue of its items: the walk ends, its first item   *)
(* is current, and the rest go first.                                      *)
PlaysNow(t, type, items, from) ==
    LET ended == Retired(t, type)
        after == IF type = t.active THEN RetiredPlay(t, type) ELSE Followed(ended, Current(t))
        recorded == EndWalkPlay(ended, type)
        walked == EndWalk(ended, type)
        into == Start(walked.q[type], items[1], IF recorded = None THEN after ELSE recorded)
        rest == Tail(items)
        onto == IF type = "music" /\ t.style = "spotify" /\ from
                THEN [into EXCEPT !.ctx = rest \o @]
                ELSE [into EXCEPT !.user = rest \o @, !.ctx = IF from THEN <<>> ELSE @]
    IN  [walked EXCEPT !.q[type] = onto, !.active = type,
                       !.switch = IF @ = type THEN None ELSE @]

(* It is a session, and an item is current in that queue.                  *)
LEMMA PlaysNowIs ==
    ASSUME NEW t, NEW alive, Session(t, alive), NEW type \in QueueTypes, NEW from \in BOOLEAN,
           NEW items \in Seq(Unwalked(t.history, OwnerOf(t, type))), items # <<>>
    PROVE  LET u == PlaysNow(t, type, items, from)
           IN  /\ Session(u, alive) /\ u.q[type].cur # None
               /\ u.q[type].cur.ref \in Refs
<1> DEFINE ended == Retired(t, type)
           after == IF type = t.active THEN RetiredPlay(t, type) ELSE Followed(ended, Current(t))
           recorded == EndWalkPlay(ended, type)
           walked == EndWalk(ended, type)
           next == IF recorded = None THEN after ELSE recorded
           queue == walked.q[type]
           into == Start(queue, items[1], next)
           rest == Tail(items)
           onto == IF type = "music" /\ t.style = "spotify" /\ from
                   THEN [into EXCEPT !.ctx = rest \o @]
                   ELSE [into EXCEPT !.user = rest \o @, !.ctx = IF from THEN <<>> ELSE @]
           u == PlaysNow(t, type, items, from)
           h == walked.history
           owner == OwnerOf(t, type)
<1>1. /\ Session(ended, alive) /\ GoesOn(t.history, ended.history) /\ SameElsewhere(ended, t)
      /\ RetiredPlay(t, type) \in Follows(ended.history)
    BY RetiredIs
<1>2. /\ Session(walked, alive) /\ Unwalking(walked) /\ GoesOn(ended.history, h)
      /\ SameElsewhere(walked, ended) /\ recorded \in Follows(h)
    BY <1>1, WalkEnded
<1>3. after \in Follows(ended.history)
  <2>1. t.q[t.active] \in QueueOf(t.history, OwnerOf(t, t.active))
      BY QueuesAre DEF Session
  <2>2. Current(t) = None \/ Current(t) \in ItemOf(t.history, OwnerOf(t, t.active))
      BY <2>1, PositionIs DEF Current
  <2>3. Current(t) = None \/ Current(t) \in ItemOf(ended.history, OwnerOf(t, t.active))
      BY <1>1, <2>2, ItemsGoOn
  <2>4. Followed(ended, Current(t)) \in Follows(ended.history)
    <3> HIDE DEF ended
    <3> QED
        BY <1>1, <2>3, FollowedPlays
  <2> QED
      BY <1>1, <2>4
<1>4. u = [walked EXCEPT !.q[type] = onto, !.active = type, !.switch = IF @ = type THEN None ELSE @]
    BY DEF PlaysNow
<1> HIDE DEF ended, after, recorded, walked, u
<1>5. next \in Follows(h)
    BY <1>2, <1>3 DEF Follows, GoesOn
<1>6. owner = OwnerOf(walked, type)
    BY <1>1, <1>2 DEF SameElsewhere, OwnerOf
<1>7. /\ queue \in Walkless(h, owner) /\ queue \in QueueOf(h, owner)
      /\ queue.user \in Seq(Unwalked(h, owner)) /\ queue.ctx \in Seq(Unwalked(h, None))
  <2>1. queue \in Walkless(h, owner)
      BY <1>2, <1>6 DEF Unwalking
  <2> QED
      BY <2>1 DEF Walkless, QueueOf
<1>8. items \in Seq(Unwalked(h, owner))
  <2>1. Unwalked(t.history, owner) \subseteq Unwalked(ended.history, owner)
      BY <1>1, ItemsGoOn
  <2>2. Unwalked(ended.history, owner) \subseteq Unwalked(h, owner)
      BY <1>2, ItemsGoOn
  <2>3. Unwalked(t.history, owner) \subseteq Unwalked(h, owner)
      BY <2>1, <2>2
  <2> QED
      BY <2>3, SeqMonotonic
<1>9. items[1] \in ItemOf(h, owner) /\ rest \in Seq(Unwalked(h, owner))
  <2>1. 1 \in 1..Len(items)
      BY EmptySeq, LenProperties
  <2>2. items[1] \in Unwalked(h, owner)
      BY <1>8, <2>1, ElementOfSeq
  <2> QED
      BY <1>8, <2>2, HeadTailProperties, ItemsOfNone
<1> HIDE DEF queue, rest, next, h
<1>10. /\ into \in QueueOf(h, owner) /\ into.user = queue.user /\ into.ctx = queue.ctx
       /\ into.cur \in CurOf(h, owner)
    BY <1>5, <1>7, <1>9, StartIs
<1> HIDE DEF into
<1>11. into.cur # None /\ into.cur.ref \in Refs
    BY <1>10, ItemsOfNone DEF CurOf, ItemOf, ItemShape
<1>12. onto \in QueueOf(h, owner) /\ onto.cur = into.cur
  <2>1. CASE type = "music" /\ t.style = "spotify" /\ from
    <3> DEFINE ctx == rest \o into.ctx
    <3>1. owner = None
        BY <2>1 DEF OwnerOf
    <3>2. ctx \in Seq(Unwalked(h, None))
        BY <1>7, <1>9, <1>10, <3>1, ConcatProperties
    <3> HIDE DEF ctx
    <3>3. [into EXCEPT !.ctx = ctx] \in QueueOf(h, owner) /\ [into EXCEPT !.ctx = ctx].cur = into.cur
        BY <1>10, <3>2 DEF QueueOf
    <3>4. onto = [into EXCEPT !.ctx = ctx]
        BY <2>1 DEF ctx
    <3> QED
        BY <3>3, <3>4
  <2>2. CASE ~(type = "music" /\ t.style = "spotify" /\ from)
    <3> DEFINE user == rest \o into.user
               ctx == IF from THEN <<>> ELSE into.ctx
               new == [into EXCEPT !.user = user, !.ctx = ctx]
    <3>1. user \in Seq(Unwalked(h, owner))
        BY <1>7, <1>9, <1>10, ConcatProperties
    <3>2. ctx \in Seq(Unwalked(h, None))
        BY <1>7, <1>10, EmptySeq
    <3> HIDE DEF user, ctx, owner
    <3>3. user \in Seq(ItemOf(h, owner)) /\ Marked(user)
        BY <3>1, UnwalkedMarked
    <3>4. new \in QueueOf(h, owner) /\ new.cur = into.cur
        BY <1>10, <3>2, <3>3 DEF QueueOf
    <3>5. onto = new
        BY <2>2 DEF user, ctx
    <3> QED
        BY <3>4, <3>5
  <2> QED
      BY <2>1, <2>2
<1> HIDE DEF onto
<1>13. /\ Shaped(u) /\ u.active = type /\ u.switch = (IF walked.switch = type THEN None ELSE walked.switch)
       /\ u.style = walked.style /\ u.history = walked.history /\ u.pick = walked.pick
       /\ u.digest = walked.digest /\ u.saved = walked.saved
       /\ u.q = [walked.q EXCEPT ![type] = onto]
    BY <1>2, <1>4 DEF Session, Shaped
<1>14. /\ u.active \in QueueTypes /\ u.switch \in QueueTypes \cup {None}
       /\ u.style \in {"spotify", "youtube"}
       /\ onto \in QueueOf(walked.history, OwnerOf(walked, type))
    BY <1>2, <1>6, <1>12, <1>13 DEF Session, h
<1>15. Session(u, alive)
    BY <1>2, <1>13, <1>14, QueueChanged
<1>16. u.q[type] = onto
    BY <1>2, <1>13, QueuesAre
<1> QED
    BY <1>11, <1>12, <1>15, <1>16 DEF u

(* Play now, back in your own queue first where a digest's holds none.     *)
LEMMA AddNowIs ==
    ASSUME NEW t, NEW alive, Session(t, alive), None \in alive,
           NEW type \in QueueTypes, NEW from \in BOOLEAN,
           NEW items \in Seq(Unwalked(t.history, OwnerOf(t, type))), items # <<>>,
           Holds(t.q[type], {items[i].ref : i \in DOMAIN items})
              \/ items \in Seq(Unwalked(t.history, None))
    PROVE  LET u == AddNow(t, type, items, from)
           IN  /\ Session(u, alive) /\ u.q[type].cur # None
               /\ u.q[type].cur.ref \in Refs
<1> DEFINE leaves == type = "spoken" /\ t.digest # None
                     /\ ~Holds(t.q[type], {items[i].ref : i \in DOMAIN items})
           w == EndWalk(t, None)
           after == Followed(t, Current(t))
           own == SwapSpoken(w, None, after)
           v == IF leaves THEN own ELSE t
<1>1. AddNow(t, type, items, from) = PlaysNow(v, type, items, from)
    BY DEF AddNow, PlaysNow
<1>2. CASE leaves
  <2>1. /\ Session(w, alive) /\ w.q["spoken"] \in Walkless(w.history, w.digest)
        /\ after \in Follows(w.history) /\ GoesOn(t.history, w.history)
      BY LeftIs
  <2> HIDE DEF w, after
  <2>2. Session(own, alive) /\ own.history = w.history /\ own.digest = None
      BY <2>1, SwapSpokenIs
  <2>3. Unwalked(t.history, None) \subseteq Unwalked(own.history, None)
      BY <2>1, <2>2, ItemsGoOn
  <2>4. items \in Seq(Unwalked(own.history, None))
      BY <1>2, <2>3, SeqMonotonic
  <2>5. OwnerOf(own, type) = None
      BY <2>2 DEF OwnerOf
  <2> HIDE DEF own
  <2> QED
      BY <1>1, <1>2, <2>2, <2>4, <2>5, PlaysNowIs
<1>3. CASE ~leaves
    BY <1>1, <1>3, PlaysNowIs
<1> QED
    BY <1>2, <1>3

(* What a queue's entries are.                                             *)
LEMMA EntriesAre ==
    ASSUME NEW h, NEW owner, NEW queue \in QueueOf(h, owner)
    PROVE  /\ Entries(queue) \in Seq(ItemOf(h, owner))
           /\ Range(Entries(queue)) =
                 (IF queue.cur = None THEN {} ELSE {queue.cur}) \cup Range(queue.user) \cup Range(queue.ctx)
<1> DEFINE S == ItemOf(h, owner)
           first == IF queue.cur = None THEN <<>> ELSE <<queue.cur>>
<1>1. /\ queue.user \in Seq(S) /\ queue.cur \in S \cup {None}
      /\ queue.ctx \in Seq(Unwalked(h, None))
    BY PositionIs DEF QueueOf
<1>2. Unwalked(h, None) \subseteq S
    BY ItemsOfNone
<1>3. queue.ctx \in Seq(S)
    BY <1>1, <1>2, SeqMonotonic
<1> HIDE DEF S
<1>4. /\ first \in Seq(S)
      /\ Range(first) = IF queue.cur = None THEN {} ELSE {queue.cur}
    BY <1>1, EmptySeq DEF Range
<1>5. Entries(queue) = (first \o queue.user) \o queue.ctx
    BY DEF Entries
<1> HIDE DEF first
<1>6. first \o queue.user \in Seq(S) /\ Range(first \o queue.user) = Range(first) \cup Range(queue.user)
    BY <1>1, <1>4, ConcatProperties, RangeConcatenation
<1> DEFINE upto == first \o queue.user
<1> HIDE DEF upto
<1>7. upto \in Seq(S) /\ queue.ctx \in Seq(S)
    BY <1>3, <1>6 DEF upto
<1>8. upto \o queue.ctx \in Seq(S) /\ Range(upto \o queue.ctx) = Range(upto) \cup Range(queue.ctx)
    BY <1>7, ConcatProperties, RangeConcatenation
<1> QED
    BY <1>4, <1>5, <1>6, <1>8 DEF S, upto

(* What is added of a thing.                                               *)
ItemsOf(t, thing) ==
    LET type == QueueFor(thing.kind)
        digest == IF type = "spoken" THEN t.digest ELSE None
    IN  [i \in DOMAIN thing.entries |->
            [Item(thing.entries[i]) EXCEPT !.list =
                IF DigestHolds(t.q[type], thing.entries[i]) THEN digest ELSE None]]

(* What is added is nobody's, or of the queue it is added to; nobody's     *)
(* where that queue holds none of it.                                      *)
LEMMA ItemsAre ==
    ASSUME NEW t, NEW alive, Session(t, alive), NEW thing \in Things
    PROVE  LET type == QueueFor(thing.kind)
               items == ItemsOf(t, thing)
           IN  /\ type \in QueueTypes /\ items # <<>>
               /\ items \in Seq(Unwalked(t.history, OwnerOf(t, type)))
               /\ \/ Holds(t.q[type], {items[i].ref : i \in DOMAIN items})
                  \/ items \in Seq(Unwalked(t.history, None))
<1> DEFINE type == QueueFor(thing.kind)
           entries == thing.entries
           items == ItemsOf(t, thing)
           owner == OwnerOf(t, type)
           queue == t.q[type]
           list == [i \in DOMAIN entries |-> IF DigestHolds(queue, entries[i]) THEN owner ELSE None]
           n == Len(entries)
           h == t.history
<1>1. type \in QueueTypes
    BY DEF QueueFor, QueueTypes
<1>2. /\ entries \in Seq(Refs) /\ entries # <<>> /\ n \in Nat /\ n # 0 /\ DOMAIN entries = 1..n
      /\ \A i \in 1..n : entries[i] \in Refs
  <2>1. entries \in Seq(Refs) /\ entries # <<>>
      BY TapConstants
  <2> HIDE DEF entries
  <2> QED
      BY <2>1, EmptySeq, LenProperties, ElementOfSeq
<1>3. items = [i \in 1..n |-> [Item(entries[i]) EXCEPT !.list = list[i]]]
    BY <1>2 DEF ItemsOf, OwnerOf
<1>4. queue \in QueueOf(h, owner) /\ owner \in DOMAIN Digests \cup {None}
    BY <1>1, QueuesAre
<1>5. \A i \in 1..n : list[i] \in {owner, None} /\ (list[i] # None => DigestHolds(queue, entries[i]))
    BY <1>2
<1> HIDE DEF items, list, n, owner, entries, type, queue
<1>6. \A i \in 1..n : items[i] \in Unwalked(h, owner) /\ items[i].ref = entries[i]
    <2>1. ASSUME NEW i \in 1..n
          PROVE  items[i] \in Unwalked(h, owner) /\ items[i].ref = entries[i]
      <3> DEFINE ref == entries[i]
                 li == list[i]
      <3>1. items[i] = [Item(ref) EXCEPT !.list = li] /\ ref \in Refs /\ li \in {owner, None}
          BY <1>2, <1>3, <1>5
      <3> HIDE DEF ref, li
      <3>2. [Item(ref) EXCEPT !.list = li] \in Unwalked(h, li)
          BY <1>4, <3>1, NewItem
      <3>3. Unwalked(h, None) \subseteq Unwalked(h, owner)
          BY ItemsOfNone
      <3>4. [Item(ref) EXCEPT !.list = li].ref = ref
          BY DEF Item
      <3> QED
          BY <3>1, <3>2, <3>3, <3>4 DEF ref
    <2> QED
        BY <2>1
<1>7. /\ items \in Seq(Unwalked(h, owner)) /\ Len(items) = n /\ items # <<>>
      /\ DOMAIN items = 1..n
  <2>1. items = [i \in 1..n |-> items[i]]
      BY <1>3
  <2>2. items \in Seq(Unwalked(h, owner))
      BY <1>2, <1>6, <2>1
  <2>3. DOMAIN items = 1..n
      BY <2>1
  <2>4. Len(items) = n
      BY <1>2, <2>2, <2>3, LenProperties
  <2> QED
      BY <1>2, <2>2, <2>3, <2>4, EmptySeq
<1>8. ASSUME ~Holds(queue, {items[i].ref : i \in DOMAIN items})
      PROVE  items \in Seq(Unwalked(h, None))
  <2>1. ASSUME NEW i \in 1..n
        PROVE  list[i] = None
    <3>1. SUFFICES ASSUME DigestHolds(queue, entries[i])
                   PROVE  FALSE
        BY <1>5
    <3> DEFINE less == [queue EXCEPT !.ctx = <<>>]
    <3>2. PICK e \in Range(Entries(less)) : e.ref = entries[i]
        BY <3>1 DEF DigestHolds
    <3>3. less \in QueueOf(h, owner) /\ less.cur = queue.cur /\ less.user = queue.user /\ less.ctx = <<>>
        BY <1>4, EmptySeq DEF QueueOf
    <3> HIDE DEF less
    <3>4. e \in Range(Entries(queue))
      <4>1. Range(less.ctx) = {}
          BY <3>3 DEF Range
      <4>2. Range(Entries(less)) = (IF queue.cur = None THEN {} ELSE {queue.cur}) \cup Range(queue.user)
          BY <3>3, <4>1, EntriesAre
      <4>3. Range(Entries(less)) \subseteq Range(Entries(queue))
          BY <1>4, <4>2, EntriesAre
      <4> QED
          BY <3>2, <4>3
    <3>5. entries[i] \in {items[j].ref : j \in DOMAIN items}
        BY <1>6, <1>7
    <3> QED
        BY <1>8, <3>2, <3>4, <3>5 DEF Holds
  <2>2. \A i \in 1..n : items[i] \in Unwalked(h, None)
    <3>1. ASSUME NEW i \in 1..n
          PROVE  items[i] \in Unwalked(h, None)
      <4> DEFINE ref == entries[i]
      <4>1. items[i] = [Item(ref) EXCEPT !.list = None] /\ ref \in Refs
          BY <1>2, <1>3, <2>1
      <4> HIDE DEF ref
      <4> QED
          BY <4>1, NewItem
    <3> QED
        BY <3>1
  <2>3. items = [i \in 1..n |-> items[i]]
      BY <1>3
  <2> QED
      BY <1>2, <2>2, <2>3
<1> QED
    BY <1>1, <1>7, <1>8 DEF items, type, owner, queue

(* Whatever is added, and however.                                         *)
LEMMA AddIs ==
    ASSUME NEW t, NEW alive, Session(t, alive), None \in alive, NEW thing \in Things,
           NEW how \in {"next", "end", "now"}
    PROVE  LET u == Add(t, thing, how)
               type == QueueFor(thing.kind)
           IN  /\ Session(u, alive) /\ type \in QueueTypes
               /\ how = "now" => u.q[type].cur # None /\ u.q[type].cur.ref \in Refs
<1> DEFINE type == QueueFor(thing.kind)
           items == ItemsOf(t, thing)
           h == t.history
           owner == OwnerOf(t, type)
           user == t.q[type].user
           line == user \o items
<1>1. /\ type \in QueueTypes /\ items # <<>> /\ items \in Seq(Unwalked(h, owner))
      /\ \/ Holds(t.q[type], {items[i].ref : i \in DOMAIN items})
         \/ items \in Seq(Unwalked(h, None))
    BY ItemsAre
<1>2. Add(t, thing, how) =
          CASE how = "end" -> [t EXCEPT !.q[type].user = line]
            [] how = "next" -> AddNext(t, type, items)
            [] how = "now" -> AddNow(t, type, items, thing.from)
    BY DEF Add, ItemsOf
<1> HIDE DEF items, type
<1>3. CASE how = "end"
  <2>1. user \in Seq(ItemOf(h, owner)) /\ Marked(user)
      BY <1>1, QueuesAre DEF QueueOf
  <2> HIDE DEF user, h, owner
  <2>2. /\ items \in Seq(ItemOf(h, owner)) /\ Marked(items)
        /\ \A n \in DOMAIN items : items[n].walk = None
      BY <1>1, UnwalkedMarked
  <2>3. line \in Seq(ItemOf(h, owner)) /\ Marked(line)
      BY <2>1, <2>2, ConcatMarked
  <2>4. Add(t, thing, how) = [t EXCEPT !.q[type].user = line]
      BY <1>2, <1>3
  <2> HIDE DEF line
  <2>5. Session([t EXCEPT !.q[type].user = line], alive)
      BY <1>1, <2>3, Entered DEF h, owner
  <2> QED
      BY <1>1, <1>3, <2>4, <2>5 DEF type
<1>4. CASE how = "next"
  <2>1. Session(AddNext(t, type, items), alive)
      BY <1>1, AddNextIs
  <2>2. Add(t, thing, how) = AddNext(t, type, items)
      BY <1>2, <1>4
  <2> QED
      BY <1>1, <1>4, <2>1, <2>2 DEF type
<1>5. CASE how = "now"
  <2>1. thing.from \in BOOLEAN
      BY TapConstants
  <2> DEFINE u == AddNow(t, type, items, thing.from)
  <2>2. Session(u, alive) /\ u.q[type].cur # None /\ u.q[type].cur.ref \in Refs
      BY <1>1, <2>1, AddNowIs
  <2>3. Add(t, thing, how) = u
      BY <1>2, <1>5
  <2> QED
      BY <1>1, <2>2, <2>3 DEF type
<1> QED
    BY <1>3, <1>4, <1>5

----------------------------------------------------------------------------
(* The taps                                                                *)

(* A play now of a thing.                                                  *)
LEMMA PlayedNowIs ==
    ASSUME NEW t, NEW alive, Session(t, alive), None \in alive, NEW thing \in Things,
           NEW finished
    PROVE  Session(PlayedNow(t, thing, finished), alive)
<1> DEFINE refs == Range(thing.entries)
           one == Resumable(t, refs)[1].owner
           next == ResumableNext(t, refs)[1].owner
<1>1. PlayedNow(t, thing, finished) =
          IF Resumable(t, refs) # <<>> THEN ResumeSaved(t, one)
          ELSE IF finished /\ ResumableNext(t, refs) # <<>> THEN StepNext(ResumeSaved(t, next))
          ELSE Add(t, thing, "now")
    BY DEF PlayedNow
<1> HIDE DEF one, next
<1>2. Session(ResumeSaved(t, one), alive) /\ Session(ResumeSaved(t, next), alive)
    BY ResumeSavedIs
<1>3. Session(StepNext(ResumeSaved(t, next)), alive)
    BY <1>2, StepNextIs
<1>4. Session(Add(t, thing, "now"), alive)
    BY AddIs
<1> QED
    BY <1>1, <1>2, <1>3, <1>4

(* What is stored of a session.                                            *)
LEMMA StoredIs ==
    ASSUME NEW t, NEW alive, Session(t, alive)
    PROVE  Session(Stored(t), alive)
<1> DEFINE h == t.history
           g == IF Len(h) > Kept THEN SubSeq(h, Len(h) - Kept + 1, Len(h)) ELSE h
           u == Stored(t)
<1>1. PlaysOf(h)
    BY DEF Session
<1>2. PlaysOf(g) /\ GoesOn(h, g)
  <2>1. CASE Len(h) > Kept
      BY <1>1, <2>1, OldestPushedOut
  <2>2. CASE ~(Len(h) > Kept)
      BY <1>1, <2>2 DEF GoesOn
  <2> QED
      BY <2>1, <2>2
<1>3. u = [t EXCEPT !.history = g]
    BY DEF Stored
<1> HIDE DEF g, u
<1>4. /\ Shaped(u) /\ u.history = g /\ u.active = t.active /\ u.switch = t.switch /\ u.q = t.q
      /\ SameElsewhere(u, t)
    BY <1>3 DEF Session, Shaped, SameElsewhere
<1>5. Session(u, alive)
    BY <1>2, <1>4, HistoryChanged
<1> QED
    BY <1>5 DEF u

(* A report of where the device is in a queue's current item.              *)
LEMMA ListenedIs ==
    ASSUME NEW t, NEW alive, Session(t, alive), NEW type \in QueueTypes, t.q[type].cur # None
    PROVE  Session([t EXCEPT !.q[type].pos = t.q[type].cur.ref], alive)
<1> DEFINE queue == t.q[type]
           new == [queue EXCEPT !.pos = queue.cur.ref]
           u == [t EXCEPT !.q[type].pos = t.q[type].cur.ref]
<1>1. queue \in QueueOf(t.history, OwnerOf(t, type))
    BY QueuesAre
<1>2. u = [t EXCEPT !.q[type] = new]
    BY DEF Session, Shaped
<1> HIDE DEF queue
<1>3. queue.cur \in CurOf(t.history, OwnerOf(t, type)) /\ queue.cur.ref \in Refs
    BY <1>1 DEF QueueOf, CurOf, ItemOf, ItemShape, queue
<1>4. new \in QueueOf(t.history, OwnerOf(t, type))
    BY <1>1, <1>3 DEF QueueOf, queue
<1> HIDE DEF new, u
<1>5. /\ Shaped(u) /\ u.active = t.active /\ u.switch = t.switch /\ u.style = t.style
      /\ u.history = t.history /\ u.pick = t.pick /\ u.digest = t.digest /\ u.saved = t.saved
      /\ u.q = [t.q EXCEPT ![type] = new]
    BY <1>2 DEF Session, Shaped
<1>6. /\ u.active \in QueueTypes /\ u.switch \in QueueTypes \cup {None}
      /\ u.style \in {"spotify", "youtube"}
    BY <1>5 DEF Session
<1>7. Session(u, alive)
    BY <1>4, <1>5, <1>6, QueueChanged
<1> QED
    BY <1>7 DEF u

(* The spoken queue without what follows its entries.                      *)
LEMMA ContextDropped ==
    ASSUME NEW t, NEW alive, Session(t, alive)
    PROVE  /\ Session([t EXCEPT !.q["spoken"].ctx = <<>>], alive)
           /\ [t EXCEPT !.q["spoken"].ctx = <<>>].q["spoken"].cur = t.q["spoken"].cur
<1> DEFINE queue == t.q["spoken"]
           new == [queue EXCEPT !.ctx = <<>>]
           u == [t EXCEPT !.q["spoken"].ctx = <<>>]
<1>1. queue \in QueueOf(t.history, OwnerOf(t, "spoken")) /\ "spoken" \in QueueTypes
    BY QueuesAre DEF QueueTypes
<1>2. u = [t EXCEPT !.q["spoken"] = new]
    BY DEF Session, Shaped
<1> HIDE DEF queue
<1>3. <<>> \in Seq(Unwalked(t.history, None))
    BY EmptySeq
<1>4. new \in QueueOf(t.history, OwnerOf(t, "spoken")) /\ new.cur = queue.cur
    BY <1>1, <1>3 DEF QueueOf
<1> HIDE DEF new, u
<1>5. /\ Shaped(u) /\ u.active = t.active /\ u.switch = t.switch /\ u.style = t.style
      /\ u.history = t.history /\ u.pick = t.pick /\ u.digest = t.digest /\ u.saved = t.saved
      /\ u.q = [t.q EXCEPT !["spoken"] = new]
    BY <1>2 DEF Session, Shaped
<1>6. /\ u.active \in QueueTypes /\ u.switch \in QueueTypes \cup {None}
      /\ u.style \in {"spotify", "youtube"}
    BY <1>5 DEF Session
<1>7. Session(u, alive)
    BY <1>1, <1>4, <1>5, <1>6, QueueChanged
<1>8. u.q["spoken"].cur = queue.cur
    BY <1>1, <1>4, <1>5, QueuesAre
<1> QED
    BY <1>7, <1>8 DEF u, queue

(* A deleted digest's playing queue becomes your own, its saved one goes.  *)
OwnItem(i, digest) == IF i.list = digest THEN [i EXCEPT !.list = None] ELSE i
OwnQueue(queue, digest) ==
    [queue EXCEPT !.cur = IF @ = None THEN @ ELSE IF @.list = digest
                          THEN [@ EXCEPT !.list = None] ELSE @,
                  !.user = [n \in DOMAIN @ |-> IF @[n].list = digest
                            THEN [@[n] EXCEPT !.list = None] ELSE @[n]]]
Deleted(t, digest) ==
    LET kept == Only(t.saved, {q \in Range(t.saved) : q.owner # digest /\
                                          (t.digest = digest => q.owner # None)})
    IN  [t EXCEPT !.saved = kept, !.q = [u \in QueueTypes |-> OwnQueue(t.q[u], digest)],
                  !.digest = IF @ = digest THEN None ELSE @]

(* A digest's item becomes nobody's when the digest is deleted.            *)
LEMMA OwnItemIs ==
    ASSUME NEW h, NEW owner, NEW digest, NEW i \in ItemOf(h, owner)
    PROVE  LET own == IF owner = digest THEN None ELSE owner
               j == OwnItem(i, digest)
           IN  /\ j \in ItemOf(h, own) /\ j.walk = i.walk /\ j.ref = i.ref
               /\ i \in CurOf(h, owner) => j \in CurOf(h, own)
<1>1. CASE i.list = digest
  <2> DEFINE j == [i EXCEPT !.list = None]
  <2>1. /\ j \in ItemShape /\ j.walk = i.walk /\ j.pos = i.pos /\ j.ref = i.ref
        /\ j.replayOf = i.replayOf /\ j.after = i.after /\ j.list = None
      BY DEF ItemOf, ItemShape
  <2>2. OwnItem(i, digest) = j
      BY <1>1 DEF OwnItem
  <2> HIDE DEF j
  <2> QED
      BY <2>1, <2>2 DEF ItemOf, CurOf
<1>2. CASE i.list # digest
  <2>1. OwnItem(i, digest) = i
      BY <1>2 DEF OwnItem
  <2>2. i.list \in {None, IF owner = digest THEN None ELSE owner}
      BY <1>2 DEF ItemOf
  <2> QED
      BY <2>1, <2>2 DEF ItemOf, CurOf
<1> QED
    BY <1>1, <1>2

(* Its queue becomes your own, and another's stays another's.              *)
LEMMA OwnQueueIs ==
    ASSUME NEW h, NEW owner, NEW digest, NEW queue \in QueueOf(h, owner)
    PROVE  OwnQueue(queue, digest) \in QueueOf(h, IF owner = digest THEN None ELSE owner)
<1> DEFINE own == IF owner = digest THEN None ELSE owner
           user == queue.user
           line == [n \in DOMAIN user |-> OwnItem(user[n], digest)]
           cur == IF queue.cur = None THEN None ELSE OwnItem(queue.cur, digest)
           new == [queue EXCEPT !.cur = cur, !.user = line]
<1>1. OwnQueue(queue, digest) = new
    BY DEF OwnQueue, OwnItem
<1>2. user \in Seq(ItemOf(h, owner)) /\ Marked(user) /\ queue.cur \in CurOf(h, owner) \cup {None}
    BY DEF QueueOf
<1>3. Len(user) \in Nat /\ DOMAIN user = 1..Len(user) /\ \A n \in 1..Len(user) : user[n] \in ItemOf(h, owner)
    BY <1>2, LenProperties, ElementOfSeq
<1> HIDE DEF user
<1>4. \A n \in 1..Len(user) : line[n] \in ItemOf(h, own) /\ line[n].walk = user[n].walk
    BY <1>3, OwnItemIs
<1>5. DOMAIN line = 1..Len(user) /\ line \in Seq(ItemOf(h, own))
  <2>1. line = [n \in 1..Len(user) |-> line[n]]
      BY <1>3
  <2> HIDE DEF line, own
  <2> QED
      BY <1>3, <1>4, <2>1
<1> HIDE DEF line
<1>6. Marked(line)
    BY <1>2, <1>3, <1>4, <1>5 DEF Marked
<1>7. /\ cur \in CurOf(h, own) \cup {None}
      /\ queue.cur # None => cur # None /\ cur.ref = queue.cur.ref
  <2>1. CASE queue.cur = None
      BY <2>1
  <2>2. CASE queue.cur # None
    <3> DEFINE i == queue.cur
    <3>1. i \in ItemOf(h, owner) /\ i \in CurOf(h, owner)
        BY <1>2, <2>2 DEF CurOf
    <3> HIDE DEF i
    <3>2. OwnItem(i, digest) \in CurOf(h, own) /\ OwnItem(i, digest).ref = i.ref
        BY <3>1, OwnItemIs
    <3>3. OwnItem(i, digest) # None
        BY <3>2, ItemsOfNone
    <3> QED
        BY <2>2, <3>2, <3>3 DEF i
  <2> QED
      BY <2>1, <2>2
<1> HIDE DEF cur, own
<1>8. new \in QueueOf(h, own)
    BY <1>5, <1>6, <1>7 DEF QueueOf
<1> QED
    BY <1>1, <1>8 DEF own

(* A session without a digest.                                             *)
LEMMA DeletedIs ==
    ASSUME NEW t, NEW left, Session(t, left \cup {None}), NEW digest
    PROVE  Session(Deleted(t, digest), (left \ {digest}) \cup {None})
<1> DEFINE alive == left \cup {None}
           less == (left \ {digest}) \cup {None}
           gone == {q \in Range(t.saved) : q.owner # digest /\ (t.digest = digest => q.owner # None)}
           kept == Only(t.saved, gone)
           playing == IF t.digest = digest THEN None ELSE t.digest
           Own(type) == OwnQueue(t.q[type], digest)
           u == Deleted(t, digest)
           h == t.history
<1>1. u = [t EXCEPT !.saved = kept, !.q = [type \in QueueTypes |-> Own(type)], !.digest = playing]
    BY DEF Deleted
<1>2. AsideOf(h, less \ {playing}, kept)
  <2> DEFINE owners == alive \ {t.digest}
             able == less \ {playing}
  <2>1. AsideOf(h, owners, t.saved)
      BY DEF Session
  <2>2. \A q \in Range(t.saved) : q.owner \in owners
      BY <2>1 DEF AsideOf, Range
  <2>3. \A q \in gone : q.owner \in able
      BY <2>2
  <2> HIDE DEF gone, owners, able
  <2>4. AsideOf(h, owners \cap able, kept)
      BY <2>1, <2>3, AsideKept
  <2>5. \A o \in able : o \in less /\ o # playing
      BY DEF able
  <2>6. owners \cap able \subseteq less \ {playing}
      BY <2>5
  <2> HIDE DEF kept, less, playing
  <2> QED
      BY <2>4, <2>6 DEF AsideOf
<1>3. \A type \in QueueTypes :
          Own(type) \in QueueOf(h, IF type = "spoken" THEN playing ELSE None)
  <2>1. ASSUME NEW type \in QueueTypes
        PROVE  Own(type) \in QueueOf(h, IF type = "spoken" THEN playing ELSE None)
    <3>1. t.q[type] \in QueueOf(h, OwnerOf(t, type))
        BY QueuesAre
    <3>2. Own(type) \in QueueOf(h, IF OwnerOf(t, type) = digest THEN None ELSE OwnerOf(t, type))
        BY <3>1, OwnQueueIs
    <3> QED
        BY <3>2 DEF OwnerOf
  <2> QED
      BY <2>1
<1> HIDE DEF kept, Own, u
<1>4. /\ Shaped(u) /\ u.active = t.active /\ u.switch = t.switch /\ u.style = t.style
      /\ u.history = h /\ u.pick = t.pick /\ u.digest = playing /\ u.saved = kept
      /\ u.q = [type \in QueueTypes |-> Own(type)]
    BY <1>1 DEF Session, Shaped
<1>5. u.q \in [QueueTypes -> QueueOf(u.history, u.digest)] /\ u.q["music"] \in QueueOf(u.history, None)
  <2>1. u.q = [type \in QueueTypes |-> u.q[type]] /\ \A type \in QueueTypes : u.q[type] = Own(type)
      BY <1>4
  <2>2. \A type \in QueueTypes :
            u.q[type] \in QueueOf(u.history, IF type = "spoken" THEN u.digest ELSE None)
      BY <1>3, <1>4, <2>1
  <2> QED
      BY <2>1, <2>2, QueuesMake
<1>6. /\ alive \subseteq DOMAIN Digests \cup {None} /\ t.digest \in alive
      /\ t.active \in QueueTypes /\ t.switch \in QueueTypes \cup {None}
      /\ t.style \in {"spotify", "youtube"} /\ t.pick \in [QueueTypes -> {None}] /\ PlaysOf(h)
    BY DEF Session
<1>7. less \subseteq DOMAIN Digests \cup {None} /\ playing \in less
    BY <1>6
<1>8. Session(u, less)
    BY <1>2, <1>4, <1>5, <1>6, <1>7 DEF Session
<1> QED
    BY <1>8 DEF u

----------------------------------------------------------------------------
(* The invariant                                                           *)

(* A new session, which plays nothing.                                     *)
LEMMA InitIs == Init => IInv
<1> SUFFICES ASSUME Init
             PROVE  IInv
    OBVIOUS
<1> DEFINE alive == lists \cup {None}
<1>1. s = EmptySession /\ lists = DOMAIN Digests
    BY DEF Init
<1>2. /\ Shaped(s) /\ s.active = "music" /\ s.switch = None /\ s.style = "youtube"
      /\ s.q = [t \in QueueTypes |-> EmptyQueue] /\ s.history = <<>>
      /\ s.pick = [t \in QueueTypes |-> None] /\ s.digest = None /\ s.saved = <<>>
    BY <1>1 DEF EmptySession, Shaped
<1>3. EmptyQueue \in QueueOf(<<>>, None)
  <2>1. <<>> \in Seq(ItemOf(<<>>, None)) /\ <<>> \in Seq(Unwalked(<<>>, None))
      BY EmptySeq
  <2>2. Marked(<<>>)
      BY <2>1, UnwalkedMarked
  <2> QED
      BY <2>1, <2>2 DEF EmptyQueue, QueueOf
<1>4. PlaysOf(<<>>) /\ AsideOf(<<>>, alive \ {None}, <<>>)
  <2>1. <<>> \in Seq(Range(<<>>)) /\ DOMAIN <<>> = {}
      BY EmptySeq
  <2> QED
      BY <2>1 DEF PlaysOf, AsideOf
<1>5. s.q \in [QueueTypes -> QueueOf(s.history, s.digest)] /\ s.q["music"] \in QueueOf(s.history, None)
    BY <1>2, <1>3 DEF QueueTypes
<1>6. Session(s, alive)
    BY <1>1, <1>2, <1>4, <1>5 DEF Session, QueueTypes
<1> QED
    BY <1>6 DEF IInv

(* Whatever a tap makes of a session, what is saved of it is one.          *)
LEMMA SaveKeeps ==
    ASSUME NEW t, Session(t, lists \cup {None}), Save(t)
    PROVE  IInv'
<1>1. s' = Stored(t) /\ lists' = lists
    BY DEF Save
<1>2. Session(Stored(t), lists \cup {None})
    BY StoredIs
<1> QED
    BY <1>1, <1>2 DEF IInv

(* A tap keeps the session one.                                            *)
LEMMA NextKeeps == IInv /\ [Next]_vars => IInv'
<1> SUFFICES ASSUME IInv, [Next]_vars
             PROVE  IInv'
    OBVIOUS
<1> DEFINE alive == lists \cup {None}
<1>1. Session(s, alive) /\ None \in alive /\ lists \subseteq DOMAIN Digests \cup {None}
    BY DEF IInv, Session
<1>2. ASSUME NEW thing \in Things, NEW how \in {"next", "end"}, AddToQueue(thing, how)
      PROVE  IInv'
  <2>1. Session(Add(s, thing, how), alive)
      BY <1>1, AddIs
  <2> QED
      BY <1>2, <2>1, SaveKeeps DEF AddToQueue
<1>3. ASSUME NEW thing \in Things, NEW finished \in BOOLEAN, PlayNow(thing, finished)
      PROVE  IInv'
  <2>1. Session(PlayedNow(s, thing, finished), alive)
      BY <1>1, PlayedNowIs
  <2> QED
      BY <1>3, <2>1, SaveKeeps DEF PlayNow
<1>4. ASSUME NEW thing \in Things, PlayList(thing)
      PROVE  IInv'
  <2> DEFINE t == Add(s, thing, "now")
             v == [t EXCEPT !.q["spoken"].ctx = <<>>]
             w == [v EXCEPT !.q["spoken"].pos = v.q["spoken"].cur.ref]
  <2>1. QueueFor(thing.kind) = "spoken"
      BY <1>4 DEF PlayList
  <2>2. Session(t, alive) /\ t.q["spoken"].cur # None /\ "spoken" \in QueueTypes
    <3>1. /\ Session(t, alive) /\ QueueFor(thing.kind) \in QueueTypes
          /\ t.q[QueueFor(thing.kind)].cur # None
        BY <1>1, AddIs
    <3> QED
        BY <2>1, <3>1
  <2>3. \/ Save(v)
        \/ Save([t EXCEPT !.q["spoken"].ctx = <<>>, !.q["spoken"].pos = t.q["spoken"].cur.ref])
      BY <1>4 DEF PlayList
  <2>4. [t EXCEPT !.q["spoken"].ctx = <<>>, !.q["spoken"].pos = t.q["spoken"].cur.ref]
          = [v EXCEPT !.q["spoken"].pos = t.q["spoken"].cur.ref]
      OBVIOUS
  <2> HIDE DEF t
  <2>5. Session(v, alive) /\ v.q["spoken"].cur = t.q["spoken"].cur
      BY <2>2, ContextDropped
  <2>6. Save(v) \/ Save(w)
      BY <2>3, <2>4, <2>5
  <2> HIDE DEF v
  <2>7. Session(w, alive)
      BY <2>2, <2>5, ListenedIs
  <2> HIDE DEF w
  <2> QED
      BY <2>5, <2>6, <2>7, SaveKeeps
<1>5. CASE Next_
  <2>1. Session(StepNext(s), alive)
      BY <1>1, StepNextIs
  <2> QED
      BY <1>5, <2>1, SaveKeeps DEF Next_
<1>6. CASE Back
  <2>1. Session(StepBack(s), alive)
      BY <1>1, StepBackIs
  <2> QED
      BY <1>6, <2>1, SaveKeeps DEF Back
<1>7. ASSUME NEW type \in QueueTypes, SetActive(type)
      PROVE  IInv'
  <2>1. Session(SwitchTo(s, type), alive)
      BY <1>1, SwitchToIs
  <2> QED
      BY <1>7, <2>1, SaveKeeps DEF SetActive
<1>8. ASSUME NEW type \in QueueTypes, Listen(type)
      PROVE  IInv'
  <2>1. s' = [s EXCEPT !.q[type].pos = s.q[type].cur.ref] /\ lists' = lists /\ s.q[type].cur # None
      BY <1>8 DEF Listen
  <2>2. Session([s EXCEPT !.q[type].pos = s.q[type].cur.ref], alive)
      BY <1>1, <2>1, ListenedIs
  <2>3. Session(s', alive)
      BY <2>1, <2>2
  <2> QED
      BY <2>1, <2>3 DEF IInv
<1>9. ASSUME NEW style \in {"spotify", "youtube"}, Restyle(style)
      PROVE  IInv'
  <2>1. Session(SetQueueStyle(s, style), alive)
      BY <1>1, SetQueueStyleIs
  <2> QED
      BY <1>9, <2>1, SaveKeeps DEF Restyle
<1>10. ASSUME NEW d \in DOMAIN Digests, NEW rows \in Digests[d], NEW start \in Refs \cup {None},
              PlayDigest(d, rows, start)
       PROVE  IInv'
  <2>1. d \in alive /\ start \in Range(rows) \cup {None} /\ Save(EnterDigest(s, d, rows, start))
      BY <1>10 DEF PlayDigest
  <2>2. Session(EnterDigest(s, d, rows, start), alive)
      BY <1>1, <2>1, EnterDigestIs
  <2> QED
      BY <2>1, <2>2, SaveKeeps
<1>11. ASSUME NEW d \in DOMAIN Digests, DeleteList(d)
       PROVE  IInv'
  <2>1. lists' = lists \ {d} /\ s' = Deleted(s, d)
      BY <1>11 DEF DeleteList, Deleted, OwnQueue
  <2>2. Session(Deleted(s, d), (lists \ {d}) \cup {None})
      BY <1>1, DeletedIs
  <2> QED
      BY <2>1, <2>2 DEF IInv
<1>12. CASE UNCHANGED vars
    BY <1>1, <1>12 DEF vars, IInv
<1> QED
    BY <1>2, <1>3, <1>4, <1>5, <1>6, <1>7, <1>8, <1>9, <1>10, <1>11, <1>12 DEF Next

(* Every session stored is one.                                            *)
THEOREM Invariance == Spec => []IInv
<1>1. Init => IInv
    BY InitIs
<1>2. IInv /\ [Next]_vars => IInv'
    BY NextKeeps
<1> QED
    BY <1>1, <1>2, PTL DEF Spec

----------------------------------------------------------------------------
(* What the invariant says of each queue                                   *)

(* Every queue, playing or put aside, is somebody's.                       *)
LEMMA QueuesOwned ==
    ASSUME IInv
    PROVE  \A queue \in AllQueues(s) : \E owner : queue \in QueueOf(s.history, owner)
<1>1. \A u \in QueueTypes : s.q[u] \in QueueOf(s.history, OwnerOf(s, u))
    BY QueuesAre DEF IInv
<1>2. AsideOf(s.history, (lists \cup {None}) \ {s.digest}, s.saved)
    BY DEF IInv, Session
<1>3. \A q \in Range(s.saved) : q.queue \in QueueOf(s.history, q.owner)
    BY <1>2 DEF AsideOf, Range, Walkless
<1> QED
    BY <1>1, <1>3 DEF AllQueues

(* A position is always one in the item it is kept with.                   *)
THEOREM PositionsAtHome == Spec => []PositionIsItsItems
<1>1. ASSUME IInv
      PROVE  PositionIsItsItems
  <2>1. ASSUME NEW q \in AllQueues(s)
        PROVE  /\ q.pos # None => q.cur # None /\ q.cur.ref = q.pos
               /\ \A i \in Range(q.user) : i.pos \in {None, i.ref}
    <3>1. PICK owner : q \in QueueOf(s.history, owner)
        BY <1>1, QueuesOwned
    <3>2. /\ q.pos # None => q.cur # None /\ q.cur.ref = q.pos
          /\ q.user \in Seq(ItemOf(s.history, owner))
        BY <3>1 DEF QueueOf
    <3>3. \A i \in Range(q.user) : i \in ItemOf(s.history, owner)
        BY <3>2, RangeOfSeq
    <3> QED
        BY <3>2, <3>3 DEF ItemOf
  <2> QED
      BY <2>1 DEF PositionIsItsItems
<1> QED
    BY <1>1, Invariance, PTL

(* What a digest's rule put in a queue is in that digest's alone, and no   *)
(* two queues have one owner, a list that still exists.                    *)
THEOREM DigestsKept == Spec => []DigestsAtHome
<1>1. ASSUME IInv
      PROVE  DigestsAtHome
  <2> DEFINE h == s.history
             alive == lists \cup {None}
             Of(queue, owner) == \A i \in Range(Entries(queue)) : i.list \in {None, owner}
  <2>1. /\ s.digest \in alive /\ AsideOf(h, alive \ {s.digest}, s.saved)
        /\ s.q["music"] \in QueueOf(h, None) /\ s.q["spoken"] \in QueueOf(h, s.digest)
      BY <1>1 DEF IInv, Session, QueueTypes
  <2>2. ASSUME NEW owner, NEW queue \in QueueOf(h, owner)
        PROVE  Of(queue, owner)
    <3>1. Range(Entries(queue)) \subseteq ItemOf(h, owner)
        BY EntriesAre, RangeOfSeq
    <3> QED
        BY <3>1 DEF ItemOf
  <2>3. Of(s.q["music"], None) /\ Of(s.q["spoken"], s.digest)
      BY <2>1, <2>2
  <2> HIDE DEF Of
  <2>4. \A i \in DOMAIN s.saved : /\ s.saved[i].owner \in alive \ {s.digest}
                                  /\ s.saved[i].queue \in QueueOf(h, s.saved[i].owner)
      BY <2>1 DEF AsideOf, Walkless
  <2>5. \A i, j \in DOMAIN s.saved : s.saved[i].owner = s.saved[j].owner => i = j
      BY <2>1 DEF AsideOf
  <2>6. {kept.owner : kept \in Range(s.saved)} \subseteq alive
      BY <2>4 DEF Range
  <2>7. \A i \in DOMAIN s.saved : Of(s.saved[i].queue, s.saved[i].owner)
      BY <2>2, <2>4
  <2>8. {s.digest} \cup {kept.owner : kept \in Range(s.saved)} \subseteq alive
      BY <2>1, <2>6
  <2>9. \A i \in DOMAIN s.saved : s.saved[i].owner # s.digest
      BY <2>4
  <2> QED
      BY <2>3, <2>5, <2>7, <2>8, <2>9 DEF DigestsAtHome, Of
<1> QED
    BY <1>1, Invariance, PTL

(* What a history no longer has of what was played was pushed out of it.   *)
LEMMA PastIs ==
    ASSUME NEW h, PlaysOf(h), NEW seq \in Nat, Past(h, seq)
    PROVE  (\E n \in DOMAIN h : h[n].seq = seq) \/ seq < h[1].seq
<1>1. Len(h) \in Nat /\ DOMAIN h = 1..Len(h) /\ h \in Seq(Range(h)) /\ h # <<>>
    BY LenProperties DEF PlaysOf, Past
<1>2. 1 \in DOMAIN h /\ Len(h) \in DOMAIN h
    BY <1>1, EmptySeq
<1>3. h[1].seq \in Nat /\ \A n \in DOMAIN h : h[n].seq = h[1].seq + n - 1
    BY <1>2 DEF PlaysOf
<1>4. seq <= h[1].seq + Len(h) - 1
    BY <1>2, <1>3 DEF Past, Last
<1>5. ASSUME h[1].seq <= seq
      PROVE  \E n \in DOMAIN h : h[n].seq = seq
  <2> DEFINE n == seq - h[1].seq + 1
  <2>1. n \in 1..Len(h)
      BY <1>1, <1>3, <1>4, <1>5
  <2>2. h[n].seq = h[1].seq + n - 1
      BY <1>1, <1>3, <2>1
  <2>3. h[1].seq + n - 1 = seq
      BY <1>3
  <2> QED
      BY <1>1, <2>1, <2>2, <2>3
<1> QED
    BY <1>3, <1>5

(* A replay names a play of its ref, what is current follows a play, and a *)
(* walk's entries are at the front of their queue in its order.            *)
THEOREM WalksArePlays == Spec => []WalkIsPlays
<1>1. ASSUME IInv
      PROVE  WalkIsPlays
  <2> DEFINE h == s.history
  <2>1. PlaysOf(h)
      BY <1>1 DEF IInv, Session
  <2>2. ASSUME NEW queue \in AllQueues(s), NEW i \in Range(Entries(queue))
        PROVE  /\ i.replayOf # None =>
                     \/ \E p \in Range(h) : p.seq = i.replayOf /\ p.ref = i.ref
                     \/ h # <<>> /\ i.replayOf < h[1].seq
               /\ i.after # None => i.after \in Seqs(s) \/ i.after < h[1].seq
    <3>1. PICK owner : queue \in QueueOf(h, owner)
        BY <1>1, QueuesOwned
    <3>2. i \in ItemOf(h, owner)
        BY <3>1, EntriesAre, RangeOfSeq
    <3>3. ASSUME i.replayOf # None
          PROVE  \/ \E p \in Range(h) : p.seq = i.replayOf /\ p.ref = i.ref
                 \/ h # <<>> /\ i.replayOf < h[1].seq
      <4>1. i.replayOf \in Nat /\ PlayOf(h, i.replayOf, i.ref)
          BY <3>2, <3>3 DEF ItemOf, ItemShape, Marks
      <4>2. /\ Past(h, i.replayOf) /\ h # <<>>
            /\ \A n \in DOMAIN h : h[n].seq = i.replayOf => h[n].ref = i.ref
          BY <4>1 DEF PlayOf, Past
      <4>3. (\E n \in DOMAIN h : h[n].seq = i.replayOf) \/ i.replayOf < h[1].seq
          BY <2>1, <4>1, <4>2, PastIs
      <4> QED
          BY <4>2, <4>3 DEF Range
    <3>4. ASSUME i.after # None
          PROVE  i.after \in Seqs(s) \/ i.after < h[1].seq
      <4>1. i.after \in Nat /\ Past(h, i.after)
          BY <3>2, <3>4 DEF ItemOf, ItemShape, Marks
      <4>2. (\E n \in DOMAIN h : h[n].seq = i.after) \/ i.after < h[1].seq
          BY <2>1, <4>1, PastIs
      <4> QED
          BY <4>2 DEF Seqs
    <3> QED
        BY <3>3, <3>4
  <2>3. \A type \in QueueTypes : Marked(s.q[type].user)
      BY <1>1, QueuesAre DEF IInv, QueueOf
  <2> QED
      BY <2>2, <2>3 DEF WalkIsPlays, Marked
<1> QED
    BY <1>1, Invariance, PTL

----------------------------------------------------------------------------
(* Forward undoes Back                                                     *)

(* Items alike in every field are one.                                     *)
LEMMA SameItem ==
    ASSUME NEW i \in ItemShape, NEW j \in ItemShape,
           i.ref = j.ref, i.walk = j.walk, i.replayOf = j.replayOf, i.after = j.after,
           i.pos = j.pos, i.list = j.list
    PROVE  i = j
  BY DEF ItemShape

(* What Back puts at a place of the walk.                                  *)
LeftAt(queue, place) == [Parked(queue) EXCEPT !.walk = place]
Resumed(item, after) == Follow([item EXCEPT !.walk = None, !.pos = None], after)

(* What Back left becomes what it was once Next plays it after the play it *)
(* followed.                                                               *)
LEMMA PlaysOnAsWas ==
    ASSUME NEW h, NEW owner, NEW queue \in QueueOf(h, owner), queue.cur # None,
           NEW place, place \in Int, NEW after, after \in Marks,
           queue.cur.replayOf = None => after = queue.cur.after
    PROVE  LET first == LeftAt(queue, place)
           IN  /\ first.walk = place /\ first.pos = queue.pos
               /\ Resumed(first, after) = queue.cur
<1> DEFINE first == LeftAt(queue, place)
           cur == queue.cur
           bare == [first EXCEPT !.walk = None, !.pos = None]
           f == Follow(bare, after)
<1>1. /\ cur \in ItemShape /\ cur.walk = None /\ cur.pos = None
      /\ cur.replayOf # None => cur.after = None
      /\ queue.pos \in Refs \cup {None}
    BY DEF QueueOf, CurOf, ItemOf
<1>2. first = [cur EXCEPT !.pos = queue.pos, !.after = None, !.walk = place]
    BY DEF Parked, LeftAt
<1> HIDE DEF cur, first
<1>3. /\ first \in ItemShape /\ first.walk = place /\ first.pos = queue.pos
      /\ first.ref = cur.ref /\ first.replayOf = cur.replayOf /\ first.list = cur.list
    BY <1>1, <1>2 DEF ItemShape, Marks
<1>4. /\ bare \in ItemShape /\ bare.walk = None /\ bare.pos = None
      /\ bare.ref = cur.ref /\ bare.replayOf = cur.replayOf /\ bare.list = cur.list
    BY <1>3 DEF ItemShape
<1> HIDE DEF bare
<1>5. f = [bare EXCEPT !.after = IF bare.replayOf = None THEN after ELSE None]
    BY DEF Follow
<1> HIDE DEF f
<1>6. /\ f \in ItemShape /\ f.walk = None /\ f.pos = None /\ f.ref = cur.ref
      /\ f.replayOf = cur.replayOf /\ f.list = cur.list
      /\ f.after = IF cur.replayOf = None THEN after ELSE None
    BY <1>4, <1>5 DEF ItemShape, Marks
<1>7. f.after = cur.after
    BY <1>1, <1>6 DEF cur
<1>8. f = cur
    BY <1>1, <1>6, <1>7, SameItem
<1> QED
    BY <1>3, <1>8 DEF f, bare, cur, first, Resumed

(* What waits in a queue whose item is left for another.                   *)
LEMMA WaitingIs ==
    ASSUME NEW h, NEW owner, NEW queue \in QueueOf(h, owner), queue.cur # None
    PROVE  LET put == InsertAt(queue.user, WalkEnd(queue.user), Parked(queue))
           IN  /\ put \in Seq(ItemOf(h, owner))
               /\ \A n \in DOMAIN put :
                     put[n].walk # None => \E m \in DOMAIN queue.user : put[n] = queue.user[m]
<1> DEFINE user == queue.user
           w == WalkEnd(user)
           e == Parked(queue)
           put == InsertAt(user, w, e)
<1>1. user \in Seq(ItemOf(h, owner)) /\ Marked(user)
    BY DEF QueueOf
<1>2. e \in ItemOf(h, owner) /\ e.walk = None
    BY ParkedIs DEF Unwalked
<1> HIDE DEF user, e
<1>3. w \in 1..(Len(user) + 1)
    BY <1>1, <1>2, InsertMarked
<1> HIDE DEF w
<1>4. /\ put \in Seq(ItemOf(h, owner)) /\ Len(put) = Len(user) + 1
      /\ \A n \in 1..(Len(user) + 1) :
            put[n] = IF n < w THEN user[n] ELSE IF n = w THEN e ELSE user[n - 1]
    BY <1>1, <1>2, <1>3, PutAt
<1> HIDE DEF put
<1>5. /\ DOMAIN put = 1..(Len(user) + 1) /\ Len(user) \in Nat /\ DOMAIN user = 1..Len(user)
    BY <1>1, <1>4, LenProperties
<1>6. ASSUME NEW n \in DOMAIN put, put[n].walk # None
      PROVE  \E m \in DOMAIN user : put[n] = user[m]
  <2>1. CASE n < w
      BY <1>3, <1>4, <1>5, <2>1
  <2>2. CASE n = w
      BY <1>2, <1>4, <1>5, <1>6, <2>2
  <2>3. CASE n > w
    <3>1. put[n] = user[n - 1] /\ n - 1 \in DOMAIN user
        BY <1>3, <1>4, <1>5, <2>3
    <3> QED
        BY <3>1
  <2> QED
      BY <1>3, <1>5, <2>1, <2>2, <2>3
<1> QED
    BY <1>4, <1>6 DEF put, user, e, w

(* The item Back leaves, at the lowest place of the walk.                  *)
PlaceOf(t) == IF LowestWalk(t) = None THEN 0 ELSE LowestWalk(t) - 1
LeftOf(t) == LeftAt(t.q[t.active], PlaceOf(t))

(* What Back leaves: the item left at the front of its queue, the replay   *)
(* current, and no other place in the walk.                                *)
LEMMA BackLeaves ==
    ASSUME NEW t, NEW alive, Session(t, alive), Current(t) # None, BackTo(t) # None
    PROVE  LET u == StepBack(t)
           IN  /\ u.history = t.history /\ u.active \in QueueTypes
               /\ u.q[u.active].cur # None /\ u.q[u.active].cur.replayOf = BackTo(t)
               /\ u.q[t.active].user = <<LeftOf(t)>> \o t.q[t.active].user
               /\ t.active # u.active => u.q[t.active].cur = None
               /\ \A other \in QueueTypes \ {t.active} : \A n \in DOMAIN u.q[other].user :
                     u.q[other].user[n].walk # None =>
                        \E m \in DOMAIN t.q[other].user : u.q[other].user[n] = t.q[other].user[m]
<1> DEFINE A == t.active
           type == Earlier(t).queue
           left == t.q[A]
           first == LeftOf(t)
           v == Stepped(t)
           put == [Cleared(left) EXCEPT !.user = <<first>> \o @]
           replay == [Item(Earlier(t).ref) EXCEPT !.replayOf = Earlier(t).seq]
           queue == v.q[type]
           waiting == IF queue.cur = None THEN queue.user
                      ELSE InsertAt(queue.user, WalkEnd(queue.user), Parked(queue))
           onto == [queue EXCEPT !.user = waiting]
           new == Start(onto, replay, None)
           u == StepBack(t)
<1>1. /\ Session(v, alive) /\ v.history = t.history /\ SameElsewhere(v, t)
    BY SteppedIs
<1>2. /\ Earlier(t).seq = BackTo(t) /\ BackTo(t) \in Nat /\ Earlier(t).ref \in Refs
      /\ type \in QueueTypes /\ A \in QueueTypes
    BY EarlierIs DEF Session
<1>3. left.cur # None
    BY DEF Current
<1>4. v = [t EXCEPT !.q[A] = put]
    BY <1>3 DEF Stepped, LeftOf, LeftAt, PlaceOf
<1>5. u = [v EXCEPT !.active = type, !.q[type] = new]
    BY DEF StepBack, Stepped, Earlier, Land
<1>6. left \in QueueOf(t.history, OwnerOf(t, A))
    BY <1>2, QueuesAre
<1> HIDE DEF v, u, left, first
<1>7. put.cur = None /\ put.user = <<first>> \o left.user
  <2> DEFINE cleared == Cleared(left)
  <2>1. cleared \in QueueOf(t.history, OwnerOf(t, A)) /\ cleared.cur = None /\ cleared.user = left.user
      BY <1>6, Requeued
  <2> HIDE DEF cleared
  <2>2. [cleared EXCEPT !.user = <<first>> \o @].cur = None
        /\ [cleared EXCEPT !.user = <<first>> \o @].user = <<first>> \o cleared.user
      BY <2>1 DEF QueueOf
  <2> QED
      BY <2>1, <2>2 DEF cleared
<1> HIDE DEF put
<1>8. v.q[A] = put /\ \A other \in QueueTypes \ {A} : v.q[other] = t.q[other]
    BY <1>2, <1>4, QueuesAre DEF Session, Shaped
<1>9. queue \in QueueOf(t.history, OwnerOf(v, type))
    BY <1>1, <1>2, QueuesAre
<1> HIDE DEF queue
<1>10. /\ waiting \in Seq(ItemOf(t.history, OwnerOf(v, type)))
       /\ queue.cur = None => waiting = queue.user
       /\ queue.cur # None => \A n \in DOMAIN waiting :
             waiting[n].walk # None => \E m \in DOMAIN queue.user : waiting[n] = queue.user[m]
  <2>1. CASE queue.cur = None
      BY <1>9, <2>1 DEF QueueOf
  <2>2. CASE queue.cur # None
      BY <1>9, <2>2, WaitingIs
  <2> QED
      BY <2>1, <2>2
<1> HIDE DEF waiting
<1>11. onto \in [cur : {queue.cur}, pos : {queue.pos}, user : {waiting}, ctx : {queue.ctx}]
    BY <1>9 DEF QueueOf
<1> HIDE DEF onto
<1>12. new.user = waiting /\ new.cur # None /\ new.cur.replayOf = BackTo(t)
  <2> DEFINE ref == Earlier(t).ref
             bare == [replay EXCEPT !.walk = None, !.pos = None]
             cur == Follow(bare, None)
  <2>1. /\ bare \in ItemShape /\ bare.replayOf = BackTo(t)
      BY <1>2 DEF Item, ItemShape, Marks
  <2>2. new = [onto EXCEPT !.cur = cur, !.pos = replay.pos]
      BY DEF Start
  <2> HIDE DEF bare
  <2>3. cur = [bare EXCEPT !.after = IF bare.replayOf = None THEN None ELSE None]
      BY DEF Follow
  <2> HIDE DEF cur
  <2>4. cur \in ItemShape /\ cur.replayOf = BackTo(t)
      BY <2>1, <2>3 DEF ItemShape, Marks
  <2>5. cur # None
      BY <2>4, TapConstants
  <2> HIDE DEF replay
  <2>6. new.user = waiting /\ new.cur = cur
      BY <1>11, <2>2
  <2> QED
      BY <2>4, <2>5, <2>6
<1> HIDE DEF new
<1>13. u.history = t.history /\ u.active = type
    BY <1>1, <1>5 DEF Session, Shaped
<1>14. u.q[type] = new /\ \A other \in QueueTypes \ {type} : u.q[other] = v.q[other]
    BY <1>1, <1>2, <1>5, QueuesAre DEF Session, Shaped
<1>15. u.q[A].user = <<first>> \o left.user
  <2>1. CASE A = type
      BY <1>7, <1>8, <1>10, <1>12, <1>14, <2>1 DEF queue
  <2>2. CASE A # type
      BY <1>2, <1>7, <1>8, <1>14, <2>2
  <2> QED
      BY <2>1, <2>2
<1>16. A # type => u.q[A].cur = None
    BY <1>2, <1>7, <1>8, <1>14
<1>17. ASSUME NEW other \in QueueTypes \ {A}, NEW n \in DOMAIN u.q[other].user,
              u.q[other].user[n].walk # None
       PROVE  \E m \in DOMAIN t.q[other].user : u.q[other].user[n] = t.q[other].user[m]
  <2>1. CASE other # type
      BY <1>8, <1>14, <1>17, <2>1
  <2>2. CASE other = type
    <3>1. u.q[other].user = waiting /\ queue = t.q[other]
        BY <1>8, <1>12, <1>14, <1>17, <2>2 DEF queue
    <3> QED
        BY <1>10, <1>17, <3>1
  <2> QED
      BY <2>1, <2>2
<1> QED
    BY <1>2, <1>12, <1>13, <1>14, <1>15, <1>16, <1>17 DEF u, left, first

(* Then Next ends the replay, and what was left is current as it was.      *)
LEMMA ForwardIs ==
    ASSUME NEW t, NEW alive, Session(t, alive), Current(t) # None, BackTo(t) # None
    PROVE  LET u == StepNext(StepBack(t))
           IN  /\ u.active = t.active /\ u.history = t.history
               /\ u.q[t.active].cur = t.q[t.active].cur /\ u.q[t.active].pos = t.q[t.active].pos
               /\ u.q[t.active].user = t.q[t.active].user
<1> DEFINE A == t.active
           left == t.q[A]
           first == LeftOf(t)
           b == StepBack(t)
           type == b.active
           r == Retired(b, type)
           after == RetiredPlay(b, type)
           walked == WalkNext(r)
           h == t.history
           owner == OwnerOf(t, A)
           place == PlaceOf(t)
<1>1. A \in QueueTypes /\ left \in QueueOf(h, owner) /\ left.cur # None
    BY QueuesAre DEF Session, Current
<1>2. /\ Session(b, alive) /\ b.history = h /\ type \in QueueTypes
      /\ b.q[type].cur # None /\ b.q[type].cur.replayOf = BackTo(t)
      /\ b.q[A].user = <<first>> \o left.user
      /\ A # type => b.q[A].cur = None
      /\ \A other \in QueueTypes \ {A} : \A n \in DOMAIN b.q[other].user :
            b.q[other].user[n].walk # None =>
               \E m \in DOMAIN t.q[other].user : b.q[other].user[n] = t.q[other].user[m]
    BY StepBackIs, BackLeaves
<1>3. place \in Int /\ \A other \in QueueTypes : \A m \in DOMAIN t.q[other].user :
          t.q[other].user[m].walk # None => place < t.q[other].user[m].walk
  <2>1. place \in Int
      BY LowestIs DEF PlaceOf
  <2>2. ASSUME NEW other \in QueueTypes, NEW m \in DOMAIN t.q[other].user,
               t.q[other].user[m].walk # None
        PROVE  place < t.q[other].user[m].walk
    <3> DEFINE line == t.q[other].user
    <3>1. line \in Seq(ItemOf(h, OwnerOf(t, other)))
        BY QueuesAre DEF QueueOf
    <3>2. line[m] \in ItemOf(h, OwnerOf(t, other))
        BY <3>1, LenProperties, ElementOfSeq
    <3>3. line[m].walk \in Int
        BY <2>2, <3>2 DEF ItemOf, ItemShape
    <3>4. LowestWalk(t) # None
      <4>1. SUFFICES ASSUME LowestWalk(t) = None
                     PROVE  FALSE
          OBVIOUS
      <4>2. line \in Seq(Unwalked(h, OwnerOf(t, other)))
          BY <4>1, LowestIs DEF Unwalking, Walkless
      <4> QED
          BY <2>2, <4>2, UnwalkedMarked
    <3>5. LowestWalk(t) \in Int /\ LowestWalk(t) <= line[m].walk
        BY <2>2, <3>4, LowestIs
    <3> QED
        BY <3>3, <3>4, <3>5 DEF PlaceOf
  <2> QED
      BY <2>1, <2>2
<1>4. after = BackTo(t) /\ after \in Nat
  <2>1. BackTo(t) # None /\ BackTo(t) \in Nat
      BY EarlierIs
  <2> QED
      BY <1>2, <2>1 DEF RetiredPlay
<1>5. left.cur.replayOf = None => after = left.cur.after
    BY <1>4 DEF BackTo, Current
<1> HIDE DEF place, b, left
<1>6. /\ first.walk = place /\ first.pos = left.pos
      /\ Resumed(first, after) = left.cur
  <2>1. first = LeftAt(left, place)
      BY DEF LeftOf, place, left
  <2>2. after \in Marks
      BY <1>4 DEF Marks
  <2>3. place \in Int
      BY <1>3
  <2> HIDE DEF first, after, h, owner
  <2> QED
      BY <1>1, <1>5, <2>1, <2>2, <2>3, PlaysOnAsWas
<1> HIDE DEF first, after
<1>7. /\ Session(r, alive) /\ r.q[type] = Cleared(b.q[type])
      /\ \A other \in QueueTypes \ {type} : r.q[other] = b.q[other]
    BY <1>2, RetiredIs
<1>8. r = [b EXCEPT !.q[type] = Cleared(@)] /\ r.history = h
  <2>1. b.q[type].cur.replayOf # None
      BY <1>2
  <2>2. r = [b EXCEPT !.q[type] = Cleared(@)]
      BY <1>2, <2>1 DEF Retired
  <2>3. [b EXCEPT !.q[type] = Cleared(@)].history = b.history
      BY <1>2 DEF Session, Shaped
  <2> QED
      BY <1>2, <2>2, <2>3
<1>9. StepNext(b) = IF WalkHeads(r) # {}
                    THEN Land([r EXCEPT !.q[walked].user = Tail(@)], walked,
                              Head(r.q[walked].user), after)
                    ELSE Play([r EXCEPT !.switch = None],
                              IF b.switch = None THEN b.active ELSE b.switch, after)
    BY DEF StepNext, after
<1>10. \A other \in QueueTypes : r.q[other].user = b.q[other].user
  <2>1. b.q[type] \in QueueOf(b.history, OwnerOf(b, type))
      BY <1>2, QueuesAre
  <2>2. Cleared(b.q[type]).user = b.q[type].user
      BY <2>1, Requeued
  <2> QED
      BY <1>7, <2>2
<1>11. r.q[A].cur = None
  <2>1. b.q[type] \in QueueOf(b.history, OwnerOf(b, type))
      BY <1>2, QueuesAre
  <2>2. Cleared(b.q[type]).cur = None
      BY <2>1, Requeued
  <2> QED
      BY <1>1, <1>2, <1>7, <2>2
<1> HIDE DEF r
<1>12. /\ r.q[A].user = <<first>> \o left.user /\ r.q[A].user # <<>>
       /\ Head(r.q[A].user) = first /\ Tail(r.q[A].user) = left.user
  <2> DEFINE line == left.user
             S == Range(line) \cup {first}
  <2>1. line \in Seq(ItemOf(h, owner))
      BY <1>1 DEF QueueOf
  <2>2. line \in Seq(S) /\ first \in S
      BY <2>1, SeqOfRange, SeqMonotonic
  <2> HIDE DEF line, S
  <2>3. /\ <<first>> \o line # <<>> /\ Head(<<first>> \o line) = first
        /\ Tail(<<first>> \o line) = line
      BY <2>2
  <2> QED
      BY <1>1, <1>2, <1>10, <2>3 DEF line
<1>13. A \in WalkHeads(r)
    BY <1>1, <1>3, <1>6, <1>12, TapConstants DEF WalkHeads
<1>14. ASSUME NEW other \in WalkHeads(r), other # A
       PROVE  place < Head(r.q[other].user).walk
  <2> DEFINE line == b.q[other].user
  <2>1. other \in QueueTypes \ {A} /\ line # <<>> /\ Head(line).walk # None /\ r.q[other].user = line
      BY <1>10, <1>14 DEF WalkHeads
  <2>2. line \in Seq(ItemOf(b.history, OwnerOf(b, other)))
      BY <1>2, <2>1, QueuesAre DEF QueueOf
  <2>3. 1 \in DOMAIN line /\ Head(line) = line[1]
      BY <2>1, <2>2, EmptySeq, LenProperties
  <2>4. \E m \in DOMAIN t.q[other].user : line[1] = t.q[other].user[m]
      BY <1>2, <2>1, <2>3
  <2> QED
      BY <1>3, <2>1, <2>3, <2>4
<1>15. walked = A
  <2>1. /\ walked \in WalkHeads(r)
        /\ Head(r.q[walked].user).walk <= Head(r.q[A].user).walk
      BY <1>7, <1>13, WalkNextIs
  <2>2. Head(r.q[A].user).walk = place
      BY <1>6, <1>12
  <2>3. walked # A => Head(r.q[walked].user).walk \in Int
    <3>1. walked \in QueueTypes /\ r.q[walked].user # <<>> /\ Head(r.q[walked].user).walk # None
        BY <2>1 DEF WalkHeads
    <3>2. r.q[walked].user \in Seq(ItemOf(r.history, OwnerOf(r, walked)))
        BY <1>7, <3>1, QueuesAre DEF QueueOf
    <3>3. Head(r.q[walked].user) \in ItemOf(r.history, OwnerOf(r, walked))
        BY <3>1, <3>2, HeadTailProperties
    <3> QED
        BY <3>1, <3>3 DEF ItemOf, ItemShape
  <2> QED
      BY <1>3, <1>14, <2>1, <2>2, <2>3
<1> HIDE DEF walked
<1> DEFINE less == [r.q[A] EXCEPT !.user = left.user]
           w == [r EXCEPT !.q[A] = less]
           new == Start(less, first, after)
           u == StepNext(b)
<1>16. u = Land(w, A, first, after)
    BY <1>9, <1>12, <1>13, <1>15
<1>17. /\ less.cur = None /\ less.user = left.user
       /\ less \in [cur : {less.cur}, pos : {less.pos}, user : {less.user}, ctx : {less.ctx}]
  <2>1. r.q[A] \in QueueOf(r.history, OwnerOf(r, A))
      BY <1>1, <1>7, QueuesAre
  <2> QED
      BY <1>11, <2>1 DEF QueueOf
<1>18. w.q[A] = less
    BY <1>1, <1>7, QueuesAre DEF Session, Shaped
<1> HIDE DEF less
<1>19. u = [w EXCEPT !.active = A, !.q[A] = new]
  <2>1. [less EXCEPT !.user = less.user] = less
      BY <1>17
  <2> HIDE DEF w
  <2> QED
      BY <1>16, <1>17, <1>18, <2>1 DEF Land
<1>20. new.user = left.user /\ new.cur = left.cur /\ new.pos = left.pos
  <2>1. new = [less EXCEPT !.cur = left.cur, !.pos = left.pos]
      BY <1>6 DEF Start, Resumed
  <2> QED
      BY <1>17, <2>1
<1> HIDE DEF new, u
<1>21. u.active = A /\ u.history = h /\ u.q[A] = new
    BY <1>1, <1>7, <1>8, <1>19, QueuesAre DEF Session, Shaped
<1> QED
    BY <1>20, <1>21 DEF u, b, left

(* Forward undoes Back, where something is current to come back to.        *)
THEOREM ForwardComesBack == Spec => []ForwardUndoesBack
<1>1. ASSUME IInv
      PROVE  ForwardUndoesBack
  <2> DEFINE t == StepNext(StepBack(s))
  <2>1. ASSUME Current(s) # None, BackTo(s) # None
        PROVE  /\ t.active = s.active /\ t.history = s.history
               /\ t.q[s.active].cur = s.q[s.active].cur /\ t.q[s.active].pos = s.q[s.active].pos
               /\ t.q[s.active].user = s.q[s.active].user
      BY <1>1, <2>1, ForwardIs DEF IInv
  <2> HIDE DEF t
  <2> QED
      BY <2>1 DEF ForwardUndoesBack, Current, t
<1> QED
    BY <1>1, Invariance, PTL

----------------------------------------------------------------------------
(* Counting                                                                *)

(* How many of a line's entries are of a kind, and whether one is.         *)
Often(line, kind) == Cardinality({n \in DOMAIN line : line[n] \in kind})
One(item, kind) == IF item \in kind THEN 1 ELSE 0

(* How often is a number.                                                  *)
LEMMA OftenIs ==
    ASSUME NEW S, NEW line \in Seq(S), NEW kind
    PROVE  Often(line, kind) \in Nat /\ IsFiniteSet({n \in DOMAIN line : line[n] \in kind})
<1>1. Len(line) \in Nat /\ {n \in DOMAIN line : line[n] \in kind} \in SUBSET (1..Len(line))
    BY LenProperties
<1> QED
    BY <1>1, CountTo DEF Often

(* Two lines put together hold what each held.                             *)
LEMMA OftenJoined ==
    ASSUME NEW S, NEW a \in Seq(S), NEW b \in Seq(S), NEW kind
    PROVE  Often(a \o b, kind) = Often(a, kind) + Often(b, kind)
<1> DEFINE A == {n \in DOMAIN a : a[n] \in kind}
           B == {n \in DOMAIN b : b[n] \in kind}
           C == {n \in DOMAIN (a \o b) : (a \o b)[n] \in kind}
           D == C \ A
           moved == [n \in B |-> n + Len(a)]
<1>1. /\ Len(a) \in Nat /\ DOMAIN a = 1..Len(a) /\ Len(b) \in Nat /\ DOMAIN b = 1..Len(b)
      /\ DOMAIN (a \o b) = 1..(Len(a) + Len(b))
      /\ \A n \in 1..(Len(a) + Len(b)) :
            (a \o b)[n] = IF n <= Len(a) THEN a[n] ELSE b[n - Len(a)]
    BY LenProperties, ConcatProperties
<1>2. /\ A \subseteq C /\ D = {n \in (Len(a) + 1)..(Len(a) + Len(b)) : b[n - Len(a)] \in kind}
  <2>1. \A n \in 1..Len(a) : n \in 1..(Len(a) + Len(b)) /\ n <= Len(a)
      BY <1>1
  <2>2. A \subseteq C
      BY <1>1, <2>1
  <2>3. \A n \in 1..(Len(a) + Len(b)) : n \in 1..Len(a) \/ n \in (Len(a) + 1)..(Len(a) + Len(b))
      BY <1>1
  <2>4. \A n \in (Len(a) + 1)..(Len(a) + Len(b)) :
            n \in 1..(Len(a) + Len(b)) /\ n \notin 1..Len(a) /\ ~(n <= Len(a))
      BY <1>1
  <2> QED
      BY <1>1, <2>1, <2>2, <2>3, <2>4
<1>3. moved \in Bijection(B, D)
  <2>1. \A n \in B : moved[n] = n + Len(a) /\ n \in 1..Len(b)
      BY <1>1
  <2>2. moved \in [B -> D]
    <3>1. \A n \in 1..Len(b) : /\ n + Len(a) \in (Len(a) + 1)..(Len(a) + Len(b))
                               /\ (n + Len(a)) - Len(a) = n
        BY <1>1
    <3> QED
        BY <1>1, <1>2, <2>1, <3>1
  <2>3. \A m, n \in B : moved[m] = moved[n] => m = n
      BY <1>1, <2>1
  <2>4. \A d \in D : \E n \in B : moved[n] = d
    <3>1. \A d \in D : d - Len(a) \in 1..Len(b) /\ (d - Len(a)) + Len(a) = d
                       /\ b[d - Len(a)] \in kind
        BY <1>1, <1>2
    <3> QED
        BY <1>1, <2>1, <3>1
  <2> HIDE DEF moved, B, D
  <2> QED
      BY <2>2, <2>3, <2>4 DEF Bijection, Injection, Surjection, IsInjective, Range
<1>4. IsFiniteSet(A) /\ IsFiniteSet(B) /\ Often(a, kind) \in Nat /\ Often(b, kind) \in Nat
      /\ Often(a, kind) = Cardinality(A) /\ Often(b, kind) = Cardinality(B)
    BY OftenIs DEF Often
<1>5. IsFiniteSet(D) /\ Cardinality(D) = Cardinality(B)
  <2> HIDE DEF moved, B, D
  <2> QED
      BY <1>3, <1>4, FS_Bijection DEF ExistsBijection
<1>6. C = A \cup D /\ A \cap D = {}
    BY <1>2
<1> HIDE DEF A, B, D
<1>7. Cardinality(C) = Cardinality(A) + Cardinality(B) - Cardinality({})
  <2> HIDE DEF C
  <2> QED
      BY <1>4, <1>5, <1>6, FS_Union
<1>8. Cardinality({}) = 0
    BY FS_EmptySet
<1>9. Often(a \o b, kind) = Cardinality(C)
    BY DEF Often
<1> HIDE DEF C
<1>10. Cardinality(C) = Often(a, kind) + Often(b, kind) - 0
    BY <1>4, <1>5, <1>7, <1>8
<1> HIDE DEF Often
<1> QED
    BY <1>4, <1>9, <1>10

(* No entry, or one.                                                       *)
LEMMA OftenOne ==
    ASSUME NEW item, NEW kind
    PROVE  Often(<<item>>, kind) = One(item, kind) /\ Often(<<>>, kind) = 0
<1>1. {n \in DOMAIN <<>> : <<>>[n] \in kind} = {}
    OBVIOUS
<1>2. {n \in DOMAIN <<item>> : <<item>>[n] \in kind} = IF item \in kind THEN {1} ELSE {}
    OBVIOUS
<1>3. Cardinality({}) = 0 /\ Cardinality({1}) = 1
    BY FS_EmptySet, FS_Singleton
<1> QED
    BY <1>1, <1>2, <1>3 DEF Often, One

(* A line without its first entry.                                         *)
LEMMA OftenTail ==
    ASSUME NEW S, NEW line \in Seq(S), line # <<>>, NEW kind
    PROVE  Often(line, kind) = One(Head(line), kind) + Often(Tail(line), kind)
<1>1. /\ Head(line) \in S /\ Tail(line) \in Seq(S) /\ <<Head(line)>> \in Seq(S)
      /\ line = <<Head(line)>> \o Tail(line)
  <2>1. /\ Head(line) \in S /\ Tail(line) \in Seq(S) /\ Head(line) = line[1]
        /\ Len(line) \in Nat /\ Len(Tail(line)) = Len(line) - 1
        /\ \A n \in 1..Len(Tail(line)) : Tail(line)[n] = line[n + 1]
      BY HeadTailProperties, LenProperties
  <2> DEFINE one == <<Head(line)>>
             rest == Tail(line)
  <2>2. /\ one \in Seq(S) /\ Len(one) = 1 /\ one[1] = line[1]
        /\ rest \in Seq(S) /\ Len(rest) = Len(line) - 1
        /\ \A n \in 1..Len(rest) : rest[n] = line[n + 1]
      BY <2>1
  <2> HIDE DEF one, rest
  <2>3. /\ one \o rest \in Seq(S) /\ Len(one \o rest) = Len(one) + Len(rest)
        /\ \A n \in 1..(Len(one) + Len(rest)) : (one \o rest)[n] =
              IF n <= Len(one) THEN one[n] ELSE rest[n - Len(one)]
    <3>1. one \in Seq(S) /\ rest \in Seq(S)
        BY <2>2
    <3> QED
        BY <3>1, ConcatProperties, Zenon
  <2> DEFINE both == one \o rest
  <2>4. both \in Seq(S) /\ Len(both) = Len(line)
      BY <2>1, <2>2, <2>3
  <2>5. \A n \in 1..Len(line) : both[n] = line[n]
    <3> SUFFICES ASSUME NEW n \in 1..Len(line) PROVE both[n] = line[n]
        OBVIOUS
    <3>1. n \in 1..(Len(one) + Len(rest))
        BY <2>1, <2>2
    <3>2. CASE n = 1
        BY <2>2, <2>3, <3>1, <3>2
    <3>3. CASE n # 1
      <4>1. n - 1 \in 1..Len(rest) /\ ~(n <= Len(one)) /\ (n - 1) + 1 = n /\ n - Len(one) = n - 1
          BY <2>1, <2>2, <3>3
      <4> QED
          BY <2>2, <2>3, <3>1, <4>1
    <3> QED
        BY <3>2, <3>3
  <2> HIDE DEF both
  <2>6. both = line
      BY <2>4, <2>5, SeqEqual
  <2> QED
      BY <2>1, <2>2, <2>6 DEF both, one, rest
<1> DEFINE first == <<Head(line)>>
           rest == Tail(line)
<1> HIDE DEF first, rest
<1>2. Often(first \o rest, kind) = Often(first, kind) + Often(rest, kind)
    BY <1>1, OftenJoined DEF first, rest
<1>3. Often(first, kind) = One(Head(line), kind)
    BY OftenOne DEF first
<1> QED
    BY <1>1, <1>2, <1>3 DEF first, rest

(* A line with one more entry in it.                                       *)
LEMMA OftenPut ==
    ASSUME NEW S, NEW line \in Seq(S), NEW i \in 1..(Len(line) + 1), NEW e \in S, NEW kind
    PROVE  Often(InsertAt(line, i, e), kind) = Often(line, kind) + One(e, kind)
<1> DEFINE head == SubSeq(line, 1, i - 1)
           rest == SubSeq(line, i, Len(line))
<1>1. Len(line) \in Nat /\ \A n \in 1..Len(line) : line[n] \in S
    BY LenProperties, ElementOfSeq
<1>2. /\ head \in Seq(S) /\ Len(head) = i - 1
      /\ \A n \in 1..(i - 1) : head[n] = line[n]
    BY <1>1, SubSeqProperties
<1>3. /\ rest \in Seq(S) /\ Len(rest) = Len(line) - i + 1
      /\ \A n \in 1..(Len(line) - i + 1) : rest[n] = line[i + n - 1]
    BY <1>1, SubSeqProperties
<1> HIDE DEF head, rest
<1>4. line = head \o rest
  <2>1. /\ head \o rest \in Seq(S) /\ Len(head \o rest) = Len(head) + Len(rest)
        /\ \A n \in 1..(Len(head) + Len(rest)) : (head \o rest)[n] =
              IF n <= Len(head) THEN head[n] ELSE rest[n - Len(head)]
      BY <1>2, <1>3, ConcatProperties
  <2> DEFINE both == head \o rest
  <2>2. both \in Seq(S) /\ Len(both) = Len(line)
      BY <1>1, <1>2, <1>3, <2>1
  <2>3. \A n \in 1..Len(line) : both[n] = line[n]
    <3> SUFFICES ASSUME NEW n \in 1..Len(line) PROVE both[n] = line[n]
        OBVIOUS
    <3>1. n \in 1..(Len(head) + Len(rest))
        BY <1>1, <1>2, <1>3
    <3>2. CASE n <= Len(head)
      <4>1. n \in 1..(i - 1)
          BY <1>1, <1>2, <3>2
      <4> QED
          BY <1>2, <2>1, <3>1, <3>2, <4>1
    <3>3. CASE ~(n <= Len(head))
      <4>1. /\ n - Len(head) \in 1..(Len(line) - i + 1)
            /\ i + (n - Len(head)) - 1 = n
          BY <1>1, <1>2, <3>3
      <4>2. rest[n - Len(head)] = line[n]
          BY <1>3, <4>1
      <4> QED
          BY <2>1, <3>1, <3>3, <4>2
    <3> QED
        BY <3>2, <3>3
  <2> HIDE DEF both
  <2>4. both = line
      BY <2>2, <2>3, SeqEqual
  <2> QED
      BY <2>4 DEF both
<1>5. InsertAt(line, i, e) = (head \o <<e>>) \o rest
    BY DEF InsertAt, head, rest
<1> DEFINE one == <<e>>
<1>6. one \in Seq(S) /\ Often(one, kind) = One(e, kind)
    BY OftenOne
<1> HIDE DEF one
<1> DEFINE upto == head \o one
<1>7. upto \in Seq(S) /\ Often(upto, kind) = Often(head, kind) + Often(one, kind)
    BY <1>2, <1>6, OftenJoined, ConcatProperties
<1> HIDE DEF upto
<1>8. Often(upto \o rest, kind) = Often(upto, kind) + Often(rest, kind)
    BY <1>3, <1>7, OftenJoined
<1>9. Often(line, kind) = Often(head, kind) + Often(rest, kind)
    BY <1>2, <1>3, <1>4, OftenJoined
<1>10. Often(head, kind) \in Nat /\ Often(rest, kind) \in Nat /\ One(e, kind) \in Nat
    BY <1>2, <1>3, OftenIs DEF One
<1> QED
    BY <1>5, <1>6, <1>7, <1>8, <1>9, <1>10 DEF upto, one
----------------------------------------------------------------------------
(* What waits, counted                                                     *)

(* The items of a ref that are no replays.                                 *)
Unplayed(ref) == {i \in ItemShape : i.ref = ref /\ i.replayOf = None}

(* How many of a queue's items are of a kind.                              *)
InQueue(queue, kind) == One(queue.cur, kind) + Often(queue.user, kind) + Often(queue.ctx, kind)

(* An item is of a ref whatever its place, its position and what it follows. *)
LEMMA SameKind ==
    ASSUME NEW h, NEW owner, NEW item \in ItemOf(h, owner), NEW ref
    PROVE  /\ \A after \in Follows(h) : Follow(item, after) \in Unplayed(ref) <=> item \in Unplayed(ref)
           /\ \A walk \in Int \cup {None} : \A pos \in {None, item.ref} : \A after \in {None, item.after} :
                 [item EXCEPT !.walk = walk, !.pos = pos, !.after = after] \in Unplayed(ref)
                     <=> item \in Unplayed(ref)
  BY DEF ItemOf, ItemShape, Unplayed, Follow, Follows, Marks

(* A queue's items are its current one, the user's and its context's.      *)
LEMMA WaitsAre ==
    ASSUME NEW h, NEW owner, NEW queue \in QueueOf(h, owner), NEW ref
    PROVE  /\ Cardinality(Waits(queue, ref)) = InQueue(queue, Unplayed(ref))
           /\ InQueue(queue, Unplayed(ref)) \in Nat
           /\ One(queue.cur, Unplayed(ref)) \in Nat
           /\ Often(queue.user, Unplayed(ref)) \in Nat
           /\ Often(queue.ctx, Unplayed(ref)) \in Nat
<1> DEFINE kind == Unplayed(ref)
           first == IF queue.cur = None THEN <<>> ELSE <<queue.cur>>
           upto == first \o queue.user
           all == upto \o queue.ctx
<1>1. /\ queue.cur = None \/ queue.cur \in ItemShape
      /\ queue.user \in Seq(ItemShape) /\ queue.ctx \in Seq(ItemShape)
  <2>1. ItemOf(h, owner) \subseteq ItemShape /\ Unwalked(h, None) \subseteq ItemShape
      BY DEF ItemOf, Unwalked
  <2>2. queue.user \in Seq(ItemOf(h, owner)) /\ queue.ctx \in Seq(Unwalked(h, None))
      BY DEF QueueOf
  <2>3. queue.cur = None \/ queue.cur \in ItemOf(h, owner)
      BY DEF QueueOf, CurOf
  <2>4. \A n \in 1..Len(queue.user) : queue.user[n] \in ItemShape
      BY <2>1, <2>2, ElementOfSeq
  <2>5. \A n \in 1..Len(queue.ctx) : queue.ctx[n] \in ItemShape
      BY <2>1, <2>2, ElementOfSeq
  <2> QED
      BY <2>1, <2>2, <2>3
<1>2. first \in Seq(ItemShape) /\ Often(first, kind) = One(queue.cur, kind)
  <2>1. CASE queue.cur = None
    <3>1. queue.cur \notin kind
        BY <2>1, TapConstants DEF Unplayed
    <3> QED
        BY <2>1, <3>1, OftenOne, EmptySeq DEF One
  <2>2. CASE queue.cur # None
      BY <1>1, <2>2, OftenOne
  <2> QED
      BY <2>1, <2>2
<1> HIDE DEF first
<1>3. upto \in Seq(ItemShape) /\ Often(upto, kind) = Often(first, kind) + Often(queue.user, kind)
    BY <1>1, <1>2, OftenJoined, ConcatProperties
<1> HIDE DEF upto
<1>4. all \in Seq(ItemShape) /\ Often(all, kind) = Often(upto, kind) + Often(queue.ctx, kind)
    BY <1>1, <1>3, OftenJoined, ConcatProperties
<1>5. Entries(queue) = all
    BY DEF Entries, all, upto, first
<1> HIDE DEF all
<1>6. Waits(queue, ref) = {n \in DOMAIN all : all[n] \in kind}
  <2>1. \A n \in DOMAIN all : all[n] \in ItemShape
      BY <1>4, ElementOfSeq, LenProperties
  <2> QED
      BY <1>5, <2>1 DEF Waits, Unplayed
<1>7. Cardinality(Waits(queue, ref)) = Often(all, kind)
    BY <1>6 DEF Often
<1>8. One(queue.cur, kind) \in Nat /\ Often(queue.user, kind) \in Nat /\ Often(queue.ctx, kind) \in Nat
    BY <1>1, OftenIs DEF One
<1> QED
    BY <1>2, <1>3, <1>4, <1>7, <1>8 DEF InQueue

(* A play recorded counts once, for its ref.                               *)
LEMMA RecordedCounts ==
    ASSUME NEW h, PlaysOf(h), NEW p, NEW ref
    PROVE  /\ Cardinality(Plays(h, ref)) \in Nat
           /\ Cardinality(Plays(Append(h, p), ref)) =
                 Cardinality(Plays(h, ref)) + IF p.ref = ref THEN 1 ELSE 0
<1> DEFINE S == Range(h) \cup {p}
           kind == {x \in S : x.ref = ref}
           one == <<p>>
           more == Append(h, p)
<1>1. h \in Seq(S) /\ one \in Seq(S)
  <2>1. h \in Seq(Range(h))
      BY DEF PlaysOf
  <2>2. \A n \in 1..Len(h) : h[n] \in S
      BY <2>1, ElementOfSeq
  <2> QED
      BY <2>1, <2>2
<1>2. more \in Seq(S) /\ more = h \o one
    BY <1>1, AppendIsConcat, AppendProperties
<1>3. \A line \in Seq(S) : Plays(line, ref) = {n \in DOMAIN line : line[n] \in kind}
  <2>1. \A line \in Seq(S) : \A n \in DOMAIN line : line[n] \in S
      BY ElementOfSeq, LenProperties
  <2> QED
      BY <2>1 DEF Plays
<1>4. \A line \in Seq(S) : Cardinality(Plays(line, ref)) = Often(line, kind)
    BY <1>3 DEF Often
<1>5. One(p, kind) = IF p.ref = ref THEN 1 ELSE 0
    BY DEF One
<1>6. Often(one, kind) = One(p, kind) /\ Often(h, kind) \in Nat
    BY <1>1, OftenOne, OftenIs
<1> HIDE DEF one, kind, S, more
<1>7. Often(h \o one, kind) = Often(h, kind) + Often(one, kind)
    BY <1>1, OftenJoined
<1> QED
    BY <1>1, <1>2, <1>4, <1>5, <1>6, <1>7 DEF more

(* What ends waits no more, and was played once if it was no replay.       *)
LEMMA RetiredCounts ==
    ASSUME NEW t, NEW alive, Session(t, alive), NEW type \in QueueTypes, NEW ref
    PROVE  LET u == Retired(t, type)
               kind == Unplayed(ref)
           IN  Cardinality(Plays(u.history, ref)) + InQueue(u.q[type], kind) =
                  Cardinality(Plays(t.history, ref)) + InQueue(t.q[type], kind)
<1> DEFINE item == t.q[type].cur
           queue == t.q[type]
           owner == OwnerOf(t, type)
           kind == Unplayed(ref)
           h == t.history
           u == Retired(t, type)
           p == [seq |-> NextSeq([t EXCEPT !.q[type] = Cleared(@)]), queue |-> type,
                 ref |-> item.ref, after |-> item.after, list |-> item.list]
<1>1. /\ queue \in QueueOf(h, owner) /\ PlaysOf(h)
      /\ u.q[type] = Cleared(queue)
  <2>1. queue \in QueueOf(h, owner)
      BY QueuesAre
  <2>2. PlaysOf(h)
      BY DEF Session
  <2>3. Retired(t, type).q[type] = Cleared(t.q[type])
      BY RetiredIs
  <2> QED
      BY <2>1, <2>2, <2>3
<1>2. u.history = IF item = None THEN h ELSE IF item.replayOf # None THEN h ELSE Append(h, p)
    BY DEF Retired, Recorded, Session, Shaped
<1>3. item = None \/ item \in ItemShape
    BY <1>1 DEF QueueOf, CurOf, ItemOf
<1>4. One(item, kind) = IF item # None /\ item.replayOf = None /\ item.ref = ref THEN 1 ELSE 0
    BY <1>3, TapConstants DEF One, Unplayed
<1>5. One(None, kind) = 0
    BY TapConstants DEF One, Unplayed
<1>6. p.ref = item.ref
    OBVIOUS
<1> HIDE DEF p, kind, h, queue, u
<1>7. InQueue(Cleared(queue), kind) = Often(queue.user, kind) + Often(queue.ctx, kind)
      /\ InQueue(queue, kind) = One(queue.cur, kind) + Often(queue.user, kind) + Often(queue.ctx, kind)
      /\ Often(queue.user, kind) \in Nat /\ Often(queue.ctx, kind) \in Nat
  <2>1. /\ Cleared(queue).cur = None /\ Cleared(queue).user = queue.user
        /\ Cleared(queue).ctx = queue.ctx
      BY <1>1, Requeued
  <2>2. Often(queue.user, kind) \in Nat /\ Often(queue.ctx, kind) \in Nat
      BY <1>1, WaitsAre DEF kind
  <2> QED
      BY <1>5, <2>1, <2>2 DEF InQueue
<1>8. /\ Cardinality(Plays(h, ref)) \in Nat
      /\ Cardinality(Plays(Append(h, p), ref)) =
            Cardinality(Plays(h, ref)) + IF item.ref = ref THEN 1 ELSE 0
    BY <1>1, <1>6, RecordedCounts
<1>9. One(queue.cur, kind) = One(item, kind)
    BY DEF queue
<1>10. Cardinality(Plays(u.history, ref)) + InQueue(u.q[type], kind) =
          Cardinality(Plays(h, ref)) + InQueue(queue, kind)
    BY <1>1, <1>2, <1>4, <1>7, <1>8, <1>9
<1> QED
    BY <1>10 DEF u, kind, h, queue

(* What lands is there once more, and what was there still is.             *)
LEMMA LandCounts ==
    ASSUME NEW t, NEW alive, Session(t, alive), NEW type \in QueueTypes,
           NEW item \in ItemOf(t.history, OwnerOf(t, type)), NEW after \in Follows(t.history),
           NEW ref
    PROVE  LET u == Land(t, type, item, after)
           IN  /\ u.history = t.history /\ u.saved = t.saved
               /\ \A other \in QueueTypes \ {type} : u.q[other] = t.q[other]
               /\ InQueue(u.q[type], Unplayed(ref)) =
                     InQueue(t.q[type], Unplayed(ref)) + One(item, Unplayed(ref))
<1> DEFINE h == t.history
           owner == OwnerOf(t, type)
           queue == t.q[type]
           kind == Unplayed(ref)
           put == InsertAt(queue.user, WalkEnd(queue.user), Parked(queue))
           waiting == IF queue.cur = None THEN queue.user ELSE put
           onto == [queue EXCEPT !.user = waiting]
           new == Start(onto, item, after)
           u == Land(t, type, item, after)
<1>1. /\ queue \in QueueOf(h, owner) /\ queue.user \in Seq(ItemOf(h, owner)) /\ Marked(queue.user)
      /\ item \in ItemOf(h, owner) /\ after \in Follows(h)
    BY QueuesAre DEF QueueOf
<1>2. u = [t EXCEPT !.active = type, !.q[type] = new]
    BY DEF Land
<1>3. /\ u.history = h /\ u.saved = t.saved /\ u.q[type] = new
      /\ \A other \in QueueTypes \ {type} : u.q[other] = t.q[other]
  <2> HIDE DEF new, u
  <2> QED
      BY <1>2, QueuesAre DEF Session, Shaped
<1>4. One(None, kind) = 0
    BY TapConstants DEF One, Unplayed
<1> HIDE DEF u, new, queue, h, owner, kind
<1>5. waiting \in Seq(ItemOf(h, owner)) /\ Marked(waiting)
      /\ Often(waiting, kind) = Often(queue.user, kind) + One(queue.cur, kind)
  <2>1. CASE queue.cur = None
    <3>1. Often(queue.user, kind) \in Nat
        BY <1>1, OftenIs
    <3> QED
        BY <1>1, <1>4, <2>1, <3>1
  <2>2. CASE queue.cur # None
    <3>1. Parked(queue) \in ItemOf(h, owner) /\ Parked(queue).walk = None
        BY <1>1, <2>2, ParkedIs DEF Unwalked
    <3>2. put \in Seq(ItemOf(h, owner)) /\ Marked(put)
        BY <1>1, <3>1, InsertMarked
    <3>3. WalkEnd(queue.user) \in 1..(Len(queue.user) + 1)
        BY <1>1, <3>1, InsertMarked
    <3>4. Often(put, kind) = Often(queue.user, kind) + One(Parked(queue), kind)
        BY <1>1, <3>1, <3>3, OftenPut
    <3>5. Parked(queue) \in kind <=> queue.cur \in kind
        BY <1>1, <2>2 DEF kind, QueueOf, CurOf, ItemOf, ItemShape, Unplayed, Parked
    <3> QED
        BY <2>2, <3>2, <3>4, <3>5 DEF One
  <2> QED
      BY <2>1, <2>2
<1> HIDE DEF waiting
<1>6. onto \in QueueOf(h, owner) /\ onto.user = waiting /\ onto.ctx = queue.ctx
    BY <1>1, <1>5, Requeued DEF QueueOf
<1> HIDE DEF onto
<1>7. /\ new.user = waiting /\ new.ctx = queue.ctx
      /\ new.cur \in kind <=> item \in kind
  <2>1. /\ new.user = onto.user /\ new.ctx = onto.ctx
      BY <1>1, <1>6, StartIs DEF new
  <2> DEFINE i == [item EXCEPT !.walk = None, !.pos = None]
  <2>2. i \in ItemOf(h, owner) /\ (i \in kind <=> item \in kind)
      BY <1>1 DEF ItemOf, ItemShape, kind, Unplayed
  <2>3. new.cur = Follow(i, after)
      BY <1>6 DEF new, Start, QueueOf
  <2> HIDE DEF i
  <2>4. Follow(i, after) \in kind <=> i \in kind
      BY <1>1, <2>2, SameKind DEF kind
  <2> QED
      BY <1>6, <2>1, <2>2, <2>3, <2>4
<1>8. /\ InQueue(new, kind) = One(item, kind) + Often(waiting, kind) + Often(queue.ctx, kind)
      /\ InQueue(queue, kind) = One(queue.cur, kind) + Often(queue.user, kind) + Often(queue.ctx, kind)
    BY <1>7 DEF InQueue, One
<1>9. Often(queue.user, kind) \in Nat /\ Often(queue.ctx, kind) \in Nat /\ One(queue.cur, kind) \in Nat
    BY <1>1, WaitsAre DEF kind
<1>10. One(item, kind) \in Nat
    BY DEF One
<1>11. InQueue(new, kind) = InQueue(queue, kind) + One(item, kind)
    BY <1>5, <1>8, <1>9, <1>10
<1> QED
    BY <1>3, <1>11 DEF u, h, queue, kind

(* What a queue plays next was in it, as was all that stays.               *)
LEMMA PlayCounts ==
    ASSUME NEW t, NEW alive, Session(t, alive), NEW type \in QueueTypes,
           NEW after \in Follows(t.history), NEW ref
    PROVE  LET u == Play(t, type, after)
           IN  /\ u.history = t.history /\ u.saved = t.saved
               /\ \A other \in QueueTypes \ {type} : u.q[other] = t.q[other]
               /\ InQueue(u.q[type], Unplayed(ref)) = InQueue(t.q[type], Unplayed(ref))
<1> DEFINE h == t.history
           owner == OwnerOf(t, type)
           queue == t.q[type]
           kind == Unplayed(ref)
           picked == StoredAutoplay(t, type)
           u == Play(t, type, after)
           resumed == [queue EXCEPT !.cur = Follow(@, after)]
           lessUser == [queue EXCEPT !.user = Tail(@)]
           lessCtx == [queue EXCEPT !.ctx = Tail(@)]
           nextUser == Start(lessUser, Head(queue.user), after)
           nextCtx == Start(lessCtx, Head(queue.ctx), after)
           played ==
            IF queue.cur # None THEN resumed
            ELSE IF queue.user # <<>> THEN nextUser
            ELSE IF queue.ctx # <<>> THEN nextCtx
            ELSE queue
<1>1. /\ queue \in QueueOf(h, owner) /\ after \in Follows(h)
      /\ queue.user \in Seq(ItemOf(h, owner)) /\ Marked(queue.user)
      /\ queue.ctx \in Seq(Unwalked(h, None))
    BY QueuesAre DEF QueueOf
<1>2. picked = None
    BY DEF StoredAutoplay, AutoplayKept, Session
<1>3. u = [t EXCEPT !.active = type, !.q[type] = played]
    BY <1>2 DEF Play
<1> HIDE DEF picked, played, u
<1>4. /\ u.history = h /\ u.saved = t.saved /\ u.q[type] = played
      /\ \A other \in QueueTypes \ {type} : u.q[other] = t.q[other]
    BY <1>3, QueuesAre DEF Session, Shaped
<1>5. One(None, kind) = 0
    BY TapConstants DEF One, Unplayed
<1> HIDE DEF queue, h, owner, kind
<1>6. Often(queue.user, kind) \in Nat /\ Often(queue.ctx, kind) \in Nat /\ One(queue.cur, kind) \in Nat
    BY <1>1, WaitsAre DEF kind
(* An item started in a queue that has no current one.                     *)
<1>7. ASSUME NEW less \in QueueOf(h, owner), NEW item \in ItemOf(h, owner)
      PROVE  InQueue(Start(less, item, after), kind) =
                One(item, kind) + Often(less.user, kind) + Often(less.ctx, kind)
  <2> DEFINE i == [item EXCEPT !.walk = None, !.pos = None]
             new == Start(less, item, after)
  <2>1. i \in ItemOf(h, owner) /\ (i \in kind <=> item \in kind)
      BY DEF ItemOf, ItemShape, kind, Unplayed
  <2>2. new.cur = Follow(i, after)
      BY DEF Start, QueueOf
  <2>3. new.user = less.user /\ new.ctx = less.ctx
      BY <1>1, StartIs
  <2> HIDE DEF i, new
  <2>4. Follow(i, after) \in kind <=> i \in kind
      BY <1>1, <2>1, SameKind DEF kind
  <2>5. InQueue(new, kind) = One(item, kind) + Often(less.user, kind) + Often(less.ctx, kind)
      BY <2>1, <2>2, <2>3, <2>4 DEF InQueue, One
  <2> QED
      BY <2>5 DEF new
<1>8. queue.cur # None => InQueue(resumed, kind) = InQueue(queue, kind)
  <2> SUFFICES ASSUME queue.cur # None
               PROVE  InQueue(resumed, kind) = InQueue(queue, kind)
      OBVIOUS
  <2>1. queue.cur \in ItemOf(h, owner)
      BY <1>1 DEF QueueOf, CurOf
  <2>2. Follow(queue.cur, after) \in kind <=> queue.cur \in kind
      BY <1>1, <2>1, SameKind DEF kind
  <2>3. resumed.cur = Follow(queue.cur, after) /\ resumed.user = queue.user /\ resumed.ctx = queue.ctx
      BY <1>1 DEF QueueOf
  <2> QED
      BY <2>2, <2>3 DEF InQueue, One
<1>9. ASSUME queue.cur = None, queue.user # <<>>
      PROVE  InQueue(nextUser, kind) = InQueue(queue, kind)
  <2>1. Tail(queue.user) \in Seq(ItemOf(h, owner)) /\ Marked(Tail(queue.user))
      BY <1>1, <1>9, TailMarked
  <2>2. Head(queue.user) \in ItemOf(h, owner)
      BY <1>1, <1>9, HeadTailProperties
  <2>3. lessUser = [queue EXCEPT !.user = Tail(queue.user)]
      OBVIOUS
  <2>4. /\ lessUser \in QueueOf(h, owner)
        /\ lessUser.user = Tail(queue.user) /\ lessUser.ctx = queue.ctx
    <3>1. [queue EXCEPT !.user = Tail(queue.user)] \in QueueOf(h, owner)
        BY <1>1, <2>1, Requeued
    <3> QED
        BY <1>1, <2>3, <3>1 DEF QueueOf
  <2>5. Often(queue.user, kind) = One(Head(queue.user), kind) + Often(Tail(queue.user), kind)
      BY <1>1, <1>9, OftenTail
  <2> HIDE DEF lessUser
  <2>6. InQueue(nextUser, kind) = One(Head(queue.user), kind) + Often(lessUser.user, kind)
                                     + Often(lessUser.ctx, kind)
      BY <1>7, <2>2, <2>4
  <2> QED
      BY <1>5, <1>6, <1>9, <2>4, <2>5, <2>6 DEF InQueue
<1>10. ASSUME queue.cur = None, queue.ctx # <<>>
       PROVE  InQueue(nextCtx, kind) = InQueue(queue, kind)
  <2>1. Tail(queue.ctx) \in Seq(Unwalked(h, None)) /\ Head(queue.ctx) \in Unwalked(h, None)
      BY <1>1, <1>10, HeadTailProperties
  <2>2. Head(queue.ctx) \in ItemOf(h, owner)
      BY <2>1, ItemsOfNone
  <2>3. lessCtx = [queue EXCEPT !.ctx = Tail(queue.ctx)]
      OBVIOUS
  <2>4. /\ lessCtx \in QueueOf(h, owner)
        /\ lessCtx.ctx = Tail(queue.ctx) /\ lessCtx.user = queue.user
    <3>1. [queue EXCEPT !.ctx = Tail(queue.ctx)] \in QueueOf(h, owner)
        BY <1>1, <2>1, Requeued
    <3> QED
        BY <1>1, <2>3, <3>1 DEF QueueOf
  <2>5. Often(queue.ctx, kind) = One(Head(queue.ctx), kind) + Often(Tail(queue.ctx), kind)
      BY <1>1, <1>10, OftenTail
  <2>6. One(Head(queue.ctx), kind) \in Nat /\ Often(Tail(queue.ctx), kind) \in Nat
      BY <2>1, OftenIs DEF One
  <2> HIDE DEF lessCtx
  <2>7. InQueue(nextCtx, kind) = One(Head(queue.ctx), kind) + Often(lessCtx.user, kind)
                                    + Often(lessCtx.ctx, kind)
      BY <1>7, <2>2, <2>4
  <2> QED
      BY <1>5, <1>6, <1>10, <2>4, <2>5, <2>6, <2>7 DEF InQueue
<1> HIDE DEF resumed, nextUser, nextCtx
<1>11. InQueue(played, kind) = InQueue(queue, kind)
    BY <1>8, <1>9, <1>10 DEF played
<1> QED
    BY <1>4, <1>11 DEF u, h, queue, kind

(* All of a ref that waits in the two queues, or was played.               *)
InAll(t, ref) ==
    Cardinality(Plays(t.history, ref)) +
    InQueue(t.q["music"], Unplayed(ref)) + InQueue(t.q["spoken"], Unplayed(ref))

(* One queue and the history changed, all else as it was.                  *)
LEMMA OneQueueCounts ==
    ASSUME NEW t, NEW alive, Session(t, alive), NEW u, Session(u, alive), NEW ref,
           NEW type \in QueueTypes,
           \A other \in QueueTypes \ {type} : u.q[other] = t.q[other],
           Cardinality(Plays(u.history, ref)) + InQueue(u.q[type], Unplayed(ref)) =
              Cardinality(Plays(t.history, ref)) + InQueue(t.q[type], Unplayed(ref))
    PROVE  InAll(u, ref) = InAll(t, ref)
<1> DEFINE In(v, q) == InQueue(v.q[q], Unplayed(ref))
           Played(v) == Cardinality(Plays(v.history, ref))
<1>1. \A q \in QueueTypes : In(t, q) \in Nat /\ In(u, q) \in Nat
  <2>1. \A q \in QueueTypes : /\ t.q[q] \in QueueOf(t.history, OwnerOf(t, q))
                              /\ u.q[q] \in QueueOf(u.history, OwnerOf(u, q))
      BY QueuesAre
  <2> QED
      BY <2>1, WaitsAre
<1>2. Played(t) \in Nat /\ Played(u) \in Nat
  <2>1. PlaysOf(t.history) /\ PlaysOf(u.history)
      BY DEF Session
  <2> QED
      BY <2>1, RecordedCounts
<1>3. Played(u) + In(u, type) = Played(t) + In(t, type)
    OBVIOUS
<1>4. \A other \in QueueTypes \ {type} : In(u, other) = In(t, other)
    OBVIOUS
<1>5. /\ InAll(u, ref) = Played(u) + In(u, "music") + In(u, "spoken")
      /\ InAll(t, ref) = Played(t) + In(t, "music") + In(t, "spoken")
    BY DEF InAll
<1> HIDE DEF In, Played
<1> QED
    BY <1>1, <1>2, <1>3, <1>4, <1>5 DEF QueueTypes

(* Next: what is left is recorded once or was a play, the rest stays.      *)
LEMMA StepNextCounts ==
    ASSUME NEW t, NEW alive, Session(t, alive), NEW ref
    PROVE  InAll(StepNext(t), ref) = InAll(t, ref) /\ StepNext(t).saved = t.saved
<1> DEFINE after == RetiredPlay(t, t.active)
           r == Retired(t, t.active)
           walked == WalkNext(r)
           target == IF t.switch = None THEN t.active ELSE t.switch
           rest == [r EXCEPT !.q[walked].user = Tail(@)]
           first == Head(r.q[walked].user)
           open == [r EXCEPT !.switch = None]
           kind == Unplayed(ref)
<1>1. t.active \in QueueTypes /\ target \in QueueTypes
    BY DEF Session
<1>2. /\ Session(r, alive) /\ after \in Follows(r.history)
      /\ \A other \in QueueTypes \ {t.active} : r.q[other] = t.q[other]
      /\ r.saved = t.saved
    BY <1>1, RetiredIs DEF SameElsewhere
<1>3. StepNext(t) = IF WalkHeads(r) # {} THEN Land(rest, walked, first, after)
                    ELSE Play(open, target, after)
    BY DEF StepNext
<1>4. Cardinality(Plays(r.history, ref)) + InQueue(r.q[t.active], kind) =
         Cardinality(Plays(t.history, ref)) + InQueue(t.q[t.active], kind)
    BY <1>1, RetiredCounts
<1> HIDE DEF after, r, target
<1>5. InAll(r, ref) = InAll(t, ref)
    BY <1>1, <1>2, <1>4, OneQueueCounts
<1>6. ASSUME WalkHeads(r) # {}
      PROVE  LET u == Land(rest, walked, first, after)
             IN  InAll(u, ref) = InAll(r, ref) /\ u.saved = r.saved
  <2> DEFINE h == r.history
             owner == OwnerOf(r, walked)
             queue == r.q[walked]
             less == [queue EXCEPT !.user = Tail(queue.user)]
             u == Land(rest, walked, first, after)
  <2>1. walked \in QueueTypes /\ queue.user # <<>>
      BY <1>2, <1>6, WalkNextIs DEF WalkHeads
  <2> HIDE DEF walked
  <2>2. queue \in QueueOf(h, owner) /\ queue.user \in Seq(ItemOf(h, owner)) /\ Marked(queue.user)
      BY <1>2, <2>1, QueuesAre DEF QueueOf
  <2>3. /\ Tail(queue.user) \in Seq(ItemOf(h, owner)) /\ Marked(Tail(queue.user))
        /\ first \in ItemOf(h, owner)
    <3> HIDE DEF h, owner
    <3> QED
      BY <2>1, <2>2, TailMarked, HeadTailProperties
  <2>4. less \in QueueOf(h, owner)
    <3> HIDE DEF h, owner, queue
    <3> QED
      BY <2>2, <2>3, Requeued
  <2>5. /\ Shaped(rest) /\ rest.q = [r.q EXCEPT ![walked] = less] /\ rest.history = h
        /\ rest.active = r.active /\ rest.switch = r.switch /\ rest.style = r.style
        /\ rest.pick = r.pick /\ rest.digest = r.digest /\ rest.saved = r.saved
      BY <1>2, <2>1 DEF Session, Shaped
  <2>6. /\ rest.switch \in QueueTypes \cup {None} /\ rest.style \in {"spotify", "youtube"}
        /\ rest.active \in QueueTypes
      BY <1>2, <2>5 DEF Session
  <2>7. rest.q[walked] = less /\ \A other \in QueueTypes \ {walked} : rest.q[other] = r.q[other]
    <3> HIDE DEF rest, less
    <3> QED
        BY <1>2, <2>1, <2>5, QueuesAre
  <2>8. less.cur = queue.cur /\ less.user = Tail(queue.user) /\ less.ctx = queue.ctx
      BY <2>2 DEF QueueOf
  <2>9. first = Head(queue.user)
      OBVIOUS
  <2> HIDE DEF rest, less, first, queue
  <2>10. Session(rest, alive) /\ OwnerOf(rest, walked) = owner
    <3>1. Session(rest, alive)
        BY <1>2, <2>1, <2>4, <2>5, <2>6, QueueChanged DEF queue
    <3> QED
        BY <2>5, <3>1 DEF OwnerOf
  <2> HIDE DEF owner, h
  <2>11. /\ u.history = rest.history /\ u.saved = rest.saved
         /\ \A other \in QueueTypes \ {walked} : u.q[other] = rest.q[other]
         /\ InQueue(u.q[walked], kind) = InQueue(rest.q[walked], kind) + One(first, kind)
    <3>1. first \in ItemOf(rest.history, OwnerOf(rest, walked)) /\ after \in Follows(rest.history)
        BY <1>2, <2>3, <2>5, <2>10 DEF h
    <3> QED
        BY <2>1, <2>10, <3>1, LandCounts
  <2>12. Session(u, alive)
    <3>1. first \in ItemOf(rest.history, OwnerOf(rest, walked)) /\ after \in Follows(rest.history)
        BY <1>2, <2>3, <2>5, <2>10 DEF h
    <3> QED
        BY <2>1, <2>10, <3>1, LandIs
  <2> HIDE DEF u
  <2>13. InQueue(rest.q[walked], kind) + One(first, kind) = InQueue(queue, kind)
    <3>1. Often(queue.user, kind) = One(first, kind) + Often(less.user, kind)
        BY <2>1, <2>2, <2>8, <2>9, OftenTail DEF queue
    <3>2. /\ Often(queue.user, kind) \in Nat /\ Often(queue.ctx, kind) \in Nat
          /\ One(queue.cur, kind) \in Nat
        BY <2>2, WaitsAre
    <3>3. Often(less.user, kind) \in Nat /\ One(first, kind) \in Nat
        BY <2>3, <2>8, OftenIs DEF One
    <3> HIDE DEF kind
    <3> QED
        BY <2>7, <2>8, <3>1, <3>2, <3>3 DEF InQueue
  <2>14. InQueue(queue, kind) \in Nat /\ Cardinality(Plays(r.history, ref)) \in Nat
    <3>1. PlaysOf(r.history)
        BY <1>2 DEF Session
    <3> QED
        BY <2>2, <3>1, WaitsAre, RecordedCounts
  <2>15. Cardinality(Plays(u.history, ref)) + InQueue(u.q[walked], kind) =
            Cardinality(Plays(r.history, ref)) + InQueue(r.q[walked], kind)
    <3> HIDE DEF kind
    <3>1. u.history = r.history
        BY <2>5, <2>11 DEF h
    <3> QED
        BY <2>11, <2>13, <2>14, <3>1 DEF queue
  <2>16. \A other \in QueueTypes \ {walked} : u.q[other] = r.q[other]
      BY <2>7, <2>11
  <2>17. InAll(u, ref) = InAll(r, ref)
      BY <1>2, <2>1, <2>12, <2>15, <2>16, OneQueueCounts
  <2>18. u.saved = r.saved
      BY <2>5, <2>11
  <2> QED
      BY <2>17, <2>18 DEF u
<1>7. LET u == Play(open, target, after)
      IN  InAll(u, ref) = InAll(r, ref) /\ u.saved = r.saved
  <2> DEFINE u == Play(open, target, after)
  <2>1. /\ Shaped(open) /\ open.history = r.history /\ open.q = r.q
        /\ open.active = r.active /\ open.switch = None /\ open.style = r.style
        /\ open.pick = r.pick /\ open.digest = r.digest /\ open.saved = r.saved
      BY <1>2 DEF Session, Shaped
  <2>2. Session(open, alive)
      BY <1>2, <2>1 DEF Session
  <2> HIDE DEF open
  <2>3. after \in Follows(open.history)
      BY <1>2, <2>1
  <2>4. /\ u.history = open.history /\ u.saved = open.saved
        /\ \A other \in QueueTypes \ {target} : u.q[other] = open.q[other]
        /\ InQueue(u.q[target], kind) = InQueue(open.q[target], kind)
      BY <1>1, <2>2, <2>3, PlayCounts
  <2> HIDE DEF u
  <2>5. /\ InQueue(u.q["music"], kind) = InQueue(r.q["music"], kind)
        /\ InQueue(u.q["spoken"], kind) = InQueue(r.q["spoken"], kind)
    <3>1. \A other \in QueueTypes : InQueue(u.q[other], kind) = InQueue(r.q[other], kind)
        BY <2>1, <2>4
    <3> QED
        BY <3>1 DEF QueueTypes
  <2>6. InAll(u, ref) = InAll(r, ref) /\ u.saved = r.saved
    <3>1. u.history = r.history /\ u.saved = r.saved
        BY <2>1, <2>4
    <3> QED
        BY <2>5, <3>1 DEF InAll
  <2> QED
      BY <2>6 DEF u
<1> QED
  <2>1. CASE WalkHeads(r) # {}
      BY <1>2, <1>3, <1>5, <1>6, <2>1
  <2>2. CASE WalkHeads(r) = {}
      BY <1>2, <1>3, <1>5, <1>7, <2>2
  <2> QED
      BY <2>1, <2>2

(* Next records the item it leaves exactly once and loses none.            *)
THEOREM NextRecords == Spec => []NextRecordsOnce
<1>1. ASSUME IInv
      PROVE  NextRecordsOnce
  <2> SUFFICES ASSUME NEW ref \in Refs
               PROVE  Counted(StepNext(s), ref) = Counted(s, ref)
      BY DEF NextRecordsOnce
  <2> DEFINE alive == lists \cup {None}
             t == StepNext(s)
             Aside(saved) == SumFunction([n \in DOMAIN saved |-> Cardinality(Waits(saved[n].queue, ref))])
  <2>1. Session(s, alive)
      BY <1>1 DEF IInv
  <2>2. Session(t, alive) /\ InAll(t, ref) = InAll(s, ref) /\ t.saved = s.saved
      BY <2>1, StepNextIs, StepNextCounts
  <2> HIDE DEF t, alive
  <2>3. ASSUME NEW u, Session(u, alive)
        PROVE  Counted(u, ref) = InAll(u, ref) + Aside(u.saved)
    <3>1. \A q \in QueueTypes : u.q[q] \in QueueOf(u.history, OwnerOf(u, q))
        BY <2>3, QueuesAre
    <3>2. \A q \in QueueTypes : Cardinality(Waits(u.q[q], ref)) = InQueue(u.q[q], Unplayed(ref))
        BY <3>1, WaitsAre
    <3>3. "music" \in QueueTypes /\ "spoken" \in QueueTypes
        BY DEF QueueTypes
    <3> QED
        BY <3>2, <3>3 DEF Counted, InAll
  <2> QED
      BY <2>1, <2>2, <2>3 DEF t
<1> QED
    BY <1>1, Invariance, PTL

----------------------------------------------------------------------------
(* What waits                                                              *)

(* A ref waits in a line, and in a queue, as an item that is no replay.    *)
Due(line, ref) == \E n \in DOMAIN line : line[n].ref = ref /\ line[n].replayOf = None
Awaits(queue, ref) ==
    \/ queue.cur # None /\ queue.cur.ref = ref /\ queue.cur.replayOf = None
    \/ Due(queue.user, ref) \/ Due(queue.ctx, ref)
Awaited(t, ref) ==
    \/ \E type \in QueueTypes : Awaits(t.q[type], ref)
    \/ \E n \in DOMAIN t.saved : Awaits(t.saved[n].queue, ref)

(* An album's context is kept only where Spotify's style plays it.         *)
Contexts(t) ==
    /\ t.style = "youtube" => t.q["music"].ctx = <<>>
    /\ t.q["spoken"].ctx = <<>>
    /\ \A n \in DOMAIN t.saved : t.saved[n].queue.ctx = <<>>

(* A ref played since a history was h.                                     *)
PlayedSince(h, g, ref) == \E n \in (Len(h) + 1)..Len(g) : g[n].ref = ref

(* A context is only taken from, and nothing put aside changes.            *)
SameContexts(t, u) ==
    /\ u.style = t.style /\ u.saved = t.saved
    /\ \A type \in QueueTypes : t.q[type].ctx = <<>> => u.q[type].ctx = <<>>

(* No ref that waited is lost, and no more than n plays are recorded.      *)
Carries(t, u, n) ==
    /\ Contexts(t) => Contexts(u)
    /\ Len(t.history) <= Len(u.history) /\ Len(u.history) <= Len(t.history) + n
    /\ \A k \in DOMAIN t.history : u.history[k] = t.history[k]
    /\ \A ref \in Refs :
          Awaited(t, ref) => Awaited(u, ref) \/ PlayedSince(t.history, u.history, ref)

(* A queue a ref waits in is one that counts it.                           *)
LEMMA AwaitsIs ==
    ASSUME NEW h, NEW owner, NEW queue \in QueueOf(h, owner), NEW ref
    PROVE  /\ Waits(queue, ref) # {} <=> Awaits(queue, ref)
           /\ InQueue(queue, Unplayed(ref)) # 0 <=> Awaits(queue, ref)
<1> DEFINE first == IF queue.cur = None THEN <<>> ELSE <<queue.cur>>
           Unl(i) == i.ref = ref /\ i.replayOf = None
<1>1. /\ queue.cur = None \/ queue.cur \in ItemOf(h, owner)
      /\ queue.user \in Seq(ItemOf(h, owner)) /\ queue.ctx \in Seq(Unwalked(h, None))
    BY DEF QueueOf, CurOf
<1>2. /\ Entries(queue) \in Seq(ItemOf(h, owner))
      /\ Range(Entries(queue)) =
            (IF queue.cur = None THEN {} ELSE {queue.cur}) \cup Range(queue.user) \cup Range(queue.ctx)
    BY EntriesAre
<1>3. \A line : Range(line) = {line[n] : n \in DOMAIN line}
    BY DEF Range
<1>4. Waits(queue, ref) # {} <=> \E i \in Range(Entries(queue)) : Unl(i)
    BY <1>3 DEF Waits
<1>5. /\ Due(queue.user, ref) <=> \E i \in Range(queue.user) : Unl(i)
      /\ Due(queue.ctx, ref) <=> \E i \in Range(queue.ctx) : Unl(i)
    BY <1>3 DEF Due
<1>6. Waits(queue, ref) # {} <=> Awaits(queue, ref)
    BY <1>2, <1>4, <1>5 DEF Awaits
<1>7. Cardinality(Waits(queue, ref)) = InQueue(queue, Unplayed(ref))
    BY WaitsAre
<1>8. IsFiniteSet(Waits(queue, ref))
  <2>1. Waits(queue, ref) \in SUBSET (1..Len(Entries(queue))) /\ Len(Entries(queue)) \in Nat
      BY <1>2, LenProperties DEF Waits
  <2> QED
      BY <2>1, CountTo
<1>9. Cardinality(Waits(queue, ref)) = 0 <=> Waits(queue, ref) = {}
    BY <1>8, FS_EmptySet
<1> QED
    BY <1>6, <1>7, <1>9

(* What waits in a session waits in one of its queues.                     *)
LEMMA AwaitedIs ==
    ASSUME NEW t, NEW alive, Session(t, alive), NEW ref
    PROVE  Waiting(t, ref) <=> Awaited(t, ref)
<1>1. \A type \in QueueTypes : t.q[type] \in QueueOf(t.history, OwnerOf(t, type))
    BY QueuesAre
<1>2. \A type \in QueueTypes : Waits(t.q[type], ref) # {} <=> Awaits(t.q[type], ref)
    BY <1>1, AwaitsIs
<1>3. \A n \in DOMAIN t.saved : t.saved[n].queue \in QueueOf(t.history, t.saved[n].owner)
    BY DEF Session, AsideOf, Walkless
<1>4. \A n \in DOMAIN t.saved : Waits(t.saved[n].queue, ref) # {} <=> Awaits(t.saved[n].queue, ref)
    BY <1>3, AwaitsIs
<1>5. AllQueues(t) = {t.q[u] : u \in QueueTypes} \cup {t.saved[n].queue : n \in DOMAIN t.saved}
    BY DEF AllQueues, Range
<1> QED
    BY <1>2, <1>4, <1>5 DEF Waiting, Awaited

(* One operator after another loses nothing if neither does.               *)
LEMMA CarriesOn ==
    ASSUME NEW t, NEW u, NEW v, NEW m \in Nat, NEW n \in Nat,
           PlaysOf(t.history), PlaysOf(u.history), PlaysOf(v.history),
           Carries(t, u, m), Carries(u, v, n)
    PROVE  Carries(t, v, m + n)
<1> DEFINE a == Len(t.history)
           b == Len(u.history)
           c == Len(v.history)
<1>1. /\ a \in Nat /\ b \in Nat /\ c \in Nat
      /\ DOMAIN t.history = 1..a /\ DOMAIN u.history = 1..b /\ DOMAIN v.history = 1..c
    BY LenProperties DEF PlaysOf
<1>2. /\ a <= b /\ b <= a + m /\ b <= c /\ c <= b + n
      /\ \A k \in 1..a : u.history[k] = t.history[k]
      /\ \A k \in 1..b : v.history[k] = u.history[k]
    BY <1>1 DEF Carries
<1>3. \A k \in 1..a : k \in 1..b
    BY <1>1, <1>2
<1>4. a <= c /\ c <= a + (m + n)
  <2> HIDE DEF a, b, c
  <2>1. a \in Nat /\ b \in Nat /\ c \in Nat /\ a <= b /\ b <= a + m /\ b <= c /\ c <= b + n
      BY <1>1, <1>2
  <2> QED
      BY <2>1
<1>5. \A k \in 1..a : v.history[k] = t.history[k]
    BY <1>2, <1>3
<1>6. \A ref : PlayedSince(t.history, u.history, ref) \/ PlayedSince(u.history, v.history, ref)
                  => PlayedSince(t.history, v.history, ref)
  <2>1. \A k \in (a + 1)..b : k \in (a + 1)..c /\ k \in 1..b
      BY <1>1, <1>2
  <2>2. \A k \in (b + 1)..c : k \in (a + 1)..c
      BY <1>1, <1>2
  <2> QED
      BY <1>2, <2>1, <2>2 DEF PlayedSince
<1> QED
    BY <1>1, <1>4, <1>5, <1>6 DEF Carries

(* What was stored is there, or was played since and is kept.              *)
LEMMA StoredCarries ==
    ASSUME NEW t, NEW alive, Session(t, alive), NEW u, Session(u, alive),
           NEW n \in Nat, n <= Kept, Carries(t, u, n), NEW ref \in Refs, Awaited(t, ref)
    PROVE  Awaited(Stored(u), ref) \/ Plays(Stored(u).history, ref) # {}
<1> DEFINE h == t.history
           g == u.history
           kept == IF Len(g) > Kept THEN SubSeq(g, Len(g) - Kept + 1, Len(g)) ELSE g
<1>1. Stored(u).q = u.q /\ Stored(u).saved = u.saved /\ Stored(u).history = kept
    BY DEF Stored, Session, Shaped
<1>2. CASE Awaited(u, ref)
    BY <1>1, <1>2 DEF Awaited
<1>3. CASE PlayedSince(h, g, ref)
  <2>1. Len(h) \in Nat /\ Len(g) \in Nat /\ g \in Seq(Range(g)) /\ DOMAIN g = 1..Len(g)
      BY LenProperties DEF Session, PlaysOf
  <2>2. PICK k \in (Len(h) + 1)..Len(g) : g[k].ref = ref
      BY <1>3 DEF PlayedSince
  <2>3. Len(g) <= Len(h) + n
      BY DEF Carries
  <2>4. Kept \in Nat /\ n <= Kept
      BY EngineConstants
  <2> HIDE DEF h, g
  <2>5. CASE Len(g) > Kept
    <3> DEFINE first == Len(g) - Kept + 1
    <3>1. first \in Nat /\ first >= 1 /\ k >= first /\ k <= Len(g)
        BY <2>1, <2>2, <2>3, <2>4, <2>5
    <3>2. /\ DOMAIN SubSeq(g, first, Len(g)) = 1..(Len(g) - first + 1)
          /\ \A j \in 1..(Len(g) - first + 1) : SubSeq(g, first, Len(g))[j] = g[first + j - 1]
        BY <2>1, <3>1
    <3>3. k - first + 1 \in 1..(Len(g) - first + 1) /\ first + (k - first + 1) - 1 = k
        BY <2>1, <2>2, <3>1
    <3>4. kept = SubSeq(g, first, Len(g))
        BY <2>5
    <3> HIDE DEF first, kept
    <3>5. k - first + 1 \in DOMAIN kept /\ kept[k - first + 1] = g[k]
        BY <3>2, <3>3, <3>4
    <3> QED
        BY <1>1, <2>2, <3>5 DEF Plays
  <2>6. CASE ~(Len(g) > Kept)
      BY <1>1, <2>1, <2>2, <2>6 DEF Plays
  <2> QED
      BY <2>5, <2>6
<1> QED
    BY <1>2, <1>3 DEF Carries

(* A history a play may have been recorded in.                             *)
LEMMA Grown ==
    ASSUME NEW h, PlaysOf(h), NEW p
    PROVE  /\ Len(h) \in Nat /\ Len(Append(h, p)) = Len(h) + 1
           /\ \A k \in DOMAIN h : Append(h, p)[k] = h[k]
           /\ \A ref : PlayedSince(h, Append(h, p), ref) <=> p.ref = ref
<1> DEFINE S == Range(h) \cup {p}
           g == Append(h, p)
<1>1. h \in Seq(S) /\ Len(h) \in Nat /\ DOMAIN h = 1..Len(h)
  <2>1. h \in Seq(Range(h)) /\ Len(h) \in Nat /\ DOMAIN h = 1..Len(h)
      BY LenProperties DEF PlaysOf
  <2>2. \A k \in 1..Len(h) : h[k] \in S
      BY <2>1, ElementOfSeq
  <2> QED
      BY <2>1, <2>2
<1>2. /\ Len(g) = Len(h) + 1 /\ \A k \in 1..Len(h) : g[k] = h[k]
      /\ g[Len(h) + 1] = p
    BY <1>1, AppendProperties
<1> HIDE DEF g
<1>3. ASSUME NEW ref
      PROVE  PlayedSince(h, g, ref) <=> p.ref = ref
  <2>1. (Len(h) + 1)..Len(g) = {Len(h) + 1}
      BY <1>1, <1>2
  <2> QED
      BY <1>2, <2>1 DEF PlayedSince
<1> QED
    BY <1>1, <1>2, <1>3 DEF g

(* Queues that lose nothing, and a play recorded or none.                  *)
LEMMA QueuesCarry ==
    ASSUME NEW t, PlaysOf(t.history), NEW u, SameContexts(t, u), NEW n \in Nat, NEW p,
           u.history = t.history \/ (n >= 1 /\ u.history = Append(t.history, p)),
           \A type \in QueueTypes : \A ref \in Refs : Awaits(t.q[type], ref) =>
              Awaits(u.q[type], ref) \/ (u.history = Append(t.history, p) /\ p.ref = ref)
    PROVE  Carries(t, u, n)
<1>1. Contexts(t) => Contexts(u)
    BY DEF Contexts, SameContexts, QueueTypes
<1>2. /\ Len(t.history) <= Len(u.history) /\ Len(u.history) <= Len(t.history) + n
      /\ \A k \in DOMAIN t.history : u.history[k] = t.history[k]
    BY Grown
<1>3. \A ref : u.history = Append(t.history, p) /\ p.ref = ref => PlayedSince(t.history, u.history, ref)
    BY Grown
<1>4. u.saved = t.saved
    BY DEF SameContexts
<1> QED
    BY <1>1, <1>2, <1>3, <1>4 DEF Carries, Awaited

(* What ends waits no more, and was played.                                *)
LEMMA RetiredCarries ==
    ASSUME NEW t, NEW alive, Session(t, alive), NEW type \in QueueTypes
    PROVE  Carries(t, Retired(t, type), 1) /\ SameContexts(t, Retired(t, type))
<1> DEFINE item == t.q[type].cur
           queue == t.q[type]
           owner == OwnerOf(t, type)
           u == Retired(t, type)
           p == [seq |-> NextSeq([t EXCEPT !.q[type] = Cleared(@)]), queue |-> type,
                 ref |-> item.ref, after |-> item.after, list |-> item.list]
<1>1. /\ queue \in QueueOf(t.history, owner) /\ PlaysOf(t.history)
    BY QueuesAre DEF Session
<1>2. /\ u.q[type] = Cleared(queue)
      /\ \A other \in QueueTypes \ {type} : u.q[other] = t.q[other]
      /\ u.style = t.style /\ u.saved = t.saved
    BY RetiredIs DEF SameElsewhere
<1>3. u.history = IF item = None THEN t.history
                  ELSE IF item.replayOf # None THEN t.history ELSE Append(t.history, p)
    BY DEF Retired, Recorded, Session, Shaped
<1>4. p.ref = item.ref
    OBVIOUS
<1>5. Cleared(queue).user = queue.user /\ Cleared(queue).ctx = queue.ctx /\ Cleared(queue).cur = None
    BY <1>1, Requeued
<1> HIDE DEF u, p
<1>6. SameContexts(t, u)
    BY <1>2, <1>5 DEF SameContexts
<1>7. \A ref \in Refs : Awaits(queue, ref) =>
          Awaits(u.q[type], ref) \/ (u.history = Append(t.history, p) /\ p.ref = ref)
    BY <1>2, <1>3, <1>4, <1>5 DEF Awaits
<1>8. \A other \in QueueTypes : \A ref \in Refs : Awaits(t.q[other], ref) =>
          Awaits(u.q[other], ref) \/ (u.history = Append(t.history, p) /\ p.ref = ref)
    BY <1>2, <1>7
<1>9. u.history = t.history \/ (1 >= 1 /\ u.history = Append(t.history, p))
    BY <1>3
<1>10. Carries(t, u, 1)
    BY <1>1, <1>6, <1>8, <1>9, QueuesCarry
<1> QED
    BY <1>6, <1>10 DEF u

(* One queue changed that counts no less, all else as it was.              *)
LEMMA CountedCarries ==
    ASSUME NEW t, NEW alive, Session(t, alive), NEW u, Session(u, alive), NEW type \in QueueTypes,
           u.history = t.history, u.saved = t.saved, u.style = t.style,
           \A other \in QueueTypes \ {type} : u.q[other] = t.q[other],
           t.q[type].ctx = <<>> => u.q[type].ctx = <<>>,
           \A ref \in Refs : InQueue(t.q[type], Unplayed(ref)) <= InQueue(u.q[type], Unplayed(ref))
    PROVE  Carries(t, u, 0) /\ SameContexts(t, u)
<1>1. PlaysOf(t.history) /\ SameContexts(t, u)
    BY DEF Session, SameContexts
<1>2. /\ t.q[type] \in QueueOf(t.history, OwnerOf(t, type))
      /\ u.q[type] \in QueueOf(u.history, OwnerOf(u, type))
    BY QueuesAre
<1>3. ASSUME NEW ref \in Refs, Awaits(t.q[type], ref)
      PROVE  Awaits(u.q[type], ref)
  <2>1. InQueue(t.q[type], Unplayed(ref)) # 0
      BY <1>2, <1>3, AwaitsIs
  <2>2. InQueue(t.q[type], Unplayed(ref)) \in Nat /\ InQueue(u.q[type], Unplayed(ref)) \in Nat
      BY <1>2, WaitsAre
  <2>3. InQueue(u.q[type], Unplayed(ref)) # 0
      BY <2>1, <2>2
  <2> QED
      BY <1>2, <2>3, AwaitsIs
<1>4. \A other \in QueueTypes : \A ref \in Refs : Awaits(t.q[other], ref) => Awaits(u.q[other], ref)
    BY <1>3
<1>5. Carries(t, u, 0)
    BY <1>1, <1>4, QueuesCarry
<1> QED
    BY <1>1, <1>5

(* What lands leaves what the queue held waiting.                          *)
LEMMA LandCarries ==
    ASSUME NEW t, NEW alive, Session(t, alive), NEW type \in QueueTypes,
           NEW item \in ItemOf(t.history, OwnerOf(t, type)), NEW after \in Follows(t.history)
    PROVE  LET u == Land(t, type, item, after)
           IN  Carries(t, u, 0) /\ SameContexts(t, u)
<1> DEFINE queue == t.q[type]
           waiting == IF queue.cur = None THEN queue.user
                      ELSE InsertAt(queue.user, WalkEnd(queue.user), Parked(queue))
           onto == [queue EXCEPT !.user = waiting]
           new == Start(onto, item, after)
           u == Land(t, type, item, after)
<1>1. queue \in QueueOf(t.history, OwnerOf(t, type))
    BY QueuesAre
<1>2. u = [t EXCEPT !.active = type, !.q[type] = new]
    BY DEF Land
<1>3. new.ctx = queue.ctx
  <2>1. new.ctx = onto.ctx
      BY DEF Start
  <2> QED
      BY <1>1, <2>1 DEF QueueOf
<1>4. u.style = t.style /\ u.q[type] = new
  <2> HIDE DEF new, u
  <2> QED
      BY <1>2, QueuesAre DEF Session, Shaped
<1>5. u.q[type].ctx = t.q[type].ctx
    BY <1>3, <1>4
<1>6. Session(u, alive)
    BY LandIs
<1>7. \A ref \in Refs :
         /\ u.history = t.history /\ u.saved = t.saved
         /\ \A other \in QueueTypes \ {type} : u.q[other] = t.q[other]
         /\ InQueue(u.q[type], Unplayed(ref)) = InQueue(t.q[type], Unplayed(ref)) + One(item, Unplayed(ref))
    BY LandCounts
<1>8. \A ref : One(item, Unplayed(ref)) \in Nat /\ InQueue(t.q[type], Unplayed(ref)) \in Nat
    BY <1>1, WaitsAre DEF One
<1>9. Refs # {}
  <2>1. item.ref \in Refs
      BY DEF ItemOf, ItemShape
  <2> QED
      BY <2>1
<1> HIDE DEF u
<1>10. \A ref \in Refs : InQueue(t.q[type], Unplayed(ref)) <= InQueue(u.q[type], Unplayed(ref))
    BY <1>7, <1>8
<1>11. Carries(t, u, 0) /\ SameContexts(t, u)
    BY <1>4, <1>5, <1>6, <1>7, <1>9, <1>10, CountedCarries
<1> QED
    BY <1>11 DEF u

(* What a queue plays next was in it, and all that stays.                  *)
LEMMA PlayCarries ==
    ASSUME NEW t, NEW alive, Session(t, alive), NEW type \in QueueTypes,
           NEW after \in Follows(t.history)
    PROVE  LET u == Play(t, type, after)
           IN  Carries(t, u, 0) /\ SameContexts(t, u)
<1> DEFINE queue == t.q[type]
           picked == StoredAutoplay(t, type)
           resumed == [queue EXCEPT !.cur = Follow(@, after)]
           lessUser == [queue EXCEPT !.user = Tail(@)]
           lessCtx == [queue EXCEPT !.ctx = Tail(@)]
           nextUser == Start(lessUser, Head(queue.user), after)
           nextCtx == Start(lessCtx, Head(queue.ctx), after)
           played ==
            IF queue.cur # None THEN resumed
            ELSE IF queue.user # <<>> THEN nextUser
            ELSE IF queue.ctx # <<>> THEN nextCtx
            ELSE queue
           u == Play(t, type, after)
<1>1. queue \in QueueOf(t.history, OwnerOf(t, type))
    BY QueuesAre
<1>2. picked = None
    BY DEF StoredAutoplay, AutoplayKept, Session
<1>3. u = [t EXCEPT !.active = type, !.q[type] = played]
    BY <1>2 DEF Play
<1>4. resumed.ctx = queue.ctx /\ nextUser.ctx = queue.ctx
    BY <1>1 DEF QueueOf, Start
<1> HIDE DEF resumed, nextUser, nextCtx
<1>5. queue.ctx = <<>> => played.ctx = <<>>
    BY <1>4
<1> HIDE DEF played, u
<1>6. u.style = t.style /\ u.q[type] = played
    BY <1>3, QueuesAre DEF Session, Shaped
<1>7. t.q[type].ctx = <<>> => u.q[type].ctx = <<>>
    BY <1>5, <1>6
<1>8. Session(u, alive)
    BY PlayIs DEF u
<1>9. /\ u.history = t.history /\ u.saved = t.saved
      /\ \A other \in QueueTypes \ {type} : u.q[other] = t.q[other]
      /\ \A ref \in Refs : InQueue(u.q[type], Unplayed(ref)) = InQueue(t.q[type], Unplayed(ref))
  <2>1. \A ref :
         /\ u.history = t.history /\ u.saved = t.saved
         /\ \A other \in QueueTypes \ {type} : u.q[other] = t.q[other]
         /\ InQueue(u.q[type], Unplayed(ref)) = InQueue(t.q[type], Unplayed(ref))
      BY PlayCounts DEF u
  <2> QED
      BY <2>1
<1>10. \A ref : InQueue(t.q[type], Unplayed(ref)) \in Nat
    BY <1>1, WaitsAre
<1>11. \A ref \in Refs : InQueue(t.q[type], Unplayed(ref)) <= InQueue(u.q[type], Unplayed(ref))
    BY <1>9, <1>10
<1>12. Carries(t, u, 0) /\ SameContexts(t, u)
    BY <1>6, <1>7, <1>8, <1>9, <1>11, CountedCarries
<1> QED
    BY <1>12 DEF u

(* Next leaves nothing behind that did not end.                            *)
LEMMA StepNextCarries ==
    ASSUME NEW t, NEW alive, Session(t, alive)
    PROVE  Carries(t, StepNext(t), 1)
<1> DEFINE after == RetiredPlay(t, t.active)
           r == Retired(t, t.active)
           walked == WalkNext(r)
           target == IF t.switch = None THEN t.active ELSE t.switch
           rest == [r EXCEPT !.q[walked].user = Tail(@)]
           first == Head(r.q[walked].user)
           open == [r EXCEPT !.switch = None]
           u == StepNext(t)
           p == [seq |-> NextSeq([t EXCEPT !.q[t.active] = Cleared(@)]), queue |-> t.active,
                 ref |-> t.q[t.active].cur.ref, after |-> t.q[t.active].cur.after,
                 list |-> t.q[t.active].cur.list]
<1>1. t.active \in QueueTypes /\ target \in QueueTypes
    BY DEF Session
<1>2. /\ Session(r, alive) /\ after \in Follows(r.history)
      /\ \A other \in QueueTypes \ {t.active} : r.q[other] = t.q[other]
      /\ r.q[t.active] = Cleared(t.q[t.active])
      /\ r.saved = t.saved /\ r.style = t.style
    BY <1>1, RetiredIs DEF SameElsewhere
<1>3. r.history = t.history \/ r.history = Append(t.history, p)
    BY DEF Retired, Recorded, Session, Shaped
<1>4. StepNext(t) = IF WalkHeads(r) # {} THEN Land(rest, walked, first, after)
                    ELSE Play(open, target, after)
    BY DEF StepNext
<1>5. SameContexts(t, r)
    BY <1>1, RetiredCarries
<1> HIDE DEF after, r, target, p
<1>6. ASSUME WalkHeads(r) # {}
      PROVE  LET v == Land(rest, walked, first, after)
             IN  v.history = r.history /\ SameContexts(r, v)
  <2> DEFINE h == r.history
             owner == OwnerOf(r, walked)
             queue == r.q[walked]
             less == [queue EXCEPT !.user = Tail(queue.user)]
             v == Land(rest, walked, first, after)
  <2>1. walked \in QueueTypes /\ queue.user # <<>>
      BY <1>2, <1>6, WalkNextIs DEF WalkHeads
  <2> HIDE DEF walked
  <2>2. queue \in QueueOf(h, owner) /\ queue.user \in Seq(ItemOf(h, owner)) /\ Marked(queue.user)
      BY <1>2, <2>1, QueuesAre DEF QueueOf
  <2>3. /\ Tail(queue.user) \in Seq(ItemOf(h, owner)) /\ Marked(Tail(queue.user))
        /\ first \in ItemOf(h, owner)
    <3> HIDE DEF h, owner
    <3> QED
      BY <2>1, <2>2, TailMarked, HeadTailProperties
  <2>4. less \in QueueOf(h, owner)
    <3> HIDE DEF h, owner, queue
    <3> QED
      BY <2>2, <2>3, Requeued
  <2>5. /\ Shaped(rest) /\ rest.q = [r.q EXCEPT ![walked] = less] /\ rest.history = h
        /\ rest.active = r.active /\ rest.switch = r.switch /\ rest.style = r.style
        /\ rest.pick = r.pick /\ rest.digest = r.digest /\ rest.saved = r.saved
      BY <1>2, <2>1 DEF Session, Shaped
  <2>6. /\ rest.switch \in QueueTypes \cup {None} /\ rest.style \in {"spotify", "youtube"}
        /\ rest.active \in QueueTypes
      BY <1>2, <2>5 DEF Session
  <2>7. rest.q[walked] = less /\ \A other \in QueueTypes \ {walked} : rest.q[other] = r.q[other]
    <3> HIDE DEF rest, less
    <3> QED
        BY <1>2, <2>1, <2>5, QueuesAre
  <2>8. less.ctx = queue.ctx
      BY <2>2 DEF QueueOf
  <2> HIDE DEF rest, less, first
  <2>9. Session(rest, alive) /\ OwnerOf(rest, walked) = owner
    <3>1. Session(rest, alive)
        BY <1>2, <2>1, <2>4, <2>5, <2>6, QueueChanged
    <3> QED
        BY <2>5, <3>1 DEF OwnerOf
  <2>10. SameContexts(r, rest)
      BY <2>5, <2>7, <2>8 DEF SameContexts
  <2>11. first \in ItemOf(rest.history, OwnerOf(rest, walked)) /\ after \in Follows(rest.history)
      BY <1>2, <2>3, <2>5, <2>9
  <2> HIDE DEF owner, h, queue
  <2>12. v.history = rest.history /\ SameContexts(rest, v)
      BY <2>1, <2>9, <2>11, LandCounts, LandCarries
  <2>13. v.history = r.history
      BY <2>5, <2>12 DEF h
  <2> HIDE DEF v
  <2>14. SameContexts(r, v)
      BY <2>10, <2>12 DEF SameContexts
  <2> QED
      BY <2>13, <2>14 DEF v
<1>7. LET v == Play(open, target, after)
      IN  v.history = r.history /\ SameContexts(r, v)
  <2> DEFINE v == Play(open, target, after)
  <2>1. /\ Shaped(open) /\ open.history = r.history /\ open.q = r.q
        /\ open.active = r.active /\ open.switch = None /\ open.style = r.style
        /\ open.pick = r.pick /\ open.digest = r.digest /\ open.saved = r.saved
      BY <1>2 DEF Session, Shaped
  <2>2. Session(open, alive)
      BY <1>2, <2>1 DEF Session
  <2> HIDE DEF open
  <2>3. after \in Follows(open.history)
      BY <1>2, <2>1
  <2>4. v.history = open.history /\ SameContexts(open, v)
      BY <1>1, <2>2, <2>3, PlayCounts, PlayCarries
  <2> HIDE DEF v
  <2>5. SameContexts(r, v)
      BY <2>1, <2>4 DEF SameContexts
  <2> QED
      BY <2>1, <2>4, <2>5 DEF v
<1>8. u.history = r.history /\ SameContexts(r, u)
  <2>1. CASE WalkHeads(r) # {}
      BY <1>4, <1>6, <2>1
  <2>2. CASE WalkHeads(r) = {}
      BY <1>4, <1>7, <2>2
  <2> QED
      BY <2>1, <2>2
<1>9. Session(u, alive) /\ \A ref : InAll(u, ref) = InAll(t, ref)
    BY StepNextIs, StepNextCounts
<1> HIDE DEF u
<1>10. SameContexts(t, u)
    BY <1>5, <1>8 DEF SameContexts
<1>11. PlaysOf(t.history)
    BY DEF Session
<1>12. \A v \in {t, u} : \A ref : \A type \in QueueTypes :
           /\ InQueue(v.q[type], Unplayed(ref)) \in Nat
           /\ InQueue(v.q[type], Unplayed(ref)) # 0 <=> Awaits(v.q[type], ref)
  <2>1. \A v \in {t, u} : \A type \in QueueTypes : v.q[type] \in QueueOf(v.history, OwnerOf(v, type))
      BY <1>9, QueuesAre
  <2> QED
      BY <2>1, WaitsAre, AwaitsIs
<1>13. ASSUME NEW ref \in Refs
       PROVE  \/ \E type \in QueueTypes : Awaits(u.q[type], ref)
              \/ u.history = Append(t.history, p) /\ p.ref = ref
              \/ \A type \in QueueTypes : ~Awaits(t.q[type], ref)
  <2> DEFINE In(v, type) == InQueue(v.q[type], Unplayed(ref))
             played == Cardinality(Plays(t.history, ref))
             now == Cardinality(Plays(u.history, ref))
  <2>1. played \in Nat /\ Cardinality(Plays(Append(t.history, p), ref)) =
                              played + IF p.ref = ref THEN 1 ELSE 0
      BY <1>11, RecordedCounts
  <2>2. now + In(u, "music") + In(u, "spoken") = played + In(t, "music") + In(t, "spoken")
      BY <1>9 DEF InAll
  <2>3. \A type \in QueueTypes :
           /\ In(u, type) \in Nat /\ (In(u, type) # 0 <=> Awaits(u.q[type], ref))
           /\ In(t, type) \in Nat /\ (In(t, type) # 0 <=> Awaits(t.q[type], ref))
      BY <1>12
  <2>4. \/ now = played
        \/ u.history = Append(t.history, p) /\ now = played + IF p.ref = ref THEN 1 ELSE 0
      BY <1>3, <1>8, <2>1
  <2> HIDE DEF In, played, now
  <2> QED
      BY <2>1, <2>2, <2>3, <2>4 DEF QueueTypes
<1>14. /\ Len(t.history) <= Len(u.history) /\ Len(u.history) <= Len(t.history) + 1
       /\ \A k \in DOMAIN t.history : u.history[k] = t.history[k]
  <2>1. u.history = t.history \/ u.history = Append(t.history, p)
      BY <1>3, <1>8
  <2> QED
      BY <1>11, <2>1, Grown
<1>15. \A ref : u.history = Append(t.history, p) /\ p.ref = ref => PlayedSince(t.history, u.history, ref)
    BY <1>11, Grown
<1>16. u.saved = t.saved /\ (Contexts(t) => Contexts(u))
    BY <1>10 DEF Contexts, SameContexts, QueueTypes
<1>17. Carries(t, u, 1)
    BY <1>13, <1>14, <1>15, <1>16 DEF Carries, Awaited
<1> QED
    BY <1>17 DEF u

(* What is selected from a line is all of it that is kept.                 *)
LEMMA OnlyAll ==
    ASSUME NEW S, NEW line \in Seq(S), NEW kept, NEW m \in DOMAIN line, line[m] \in kept
    PROVE  \E n \in DOMAIN Only(line, kept) : Only(line, kept)[n] = line[m]
<1> DEFINE at == {n \in DOMAIN line : line[n] \in kept}
           count == Cardinality(at)
           Upto(k) == Cardinality(at \cap (1..k))
           Nth(n) == CHOOSE k \in at : Upto(k) = n
           only == [n \in 1..count |-> line[Nth(n)]]
<1>1. Len(line) \in Nat /\ DOMAIN line = 1..Len(line)
    BY LenProperties
<1>2. Only(line, kept) = only
    BY Zenon DEF Only
<1>3. at \in SUBSET (1..Len(line)) /\ m \in at
    BY <1>1
<1> HIDE DEF at
<1>4. /\ IsFiniteSet(at) /\ count \in Nat
      /\ \A k \in 0..Len(line) : Upto(k) \in Nat /\ IsFiniteSet(at \cap (1..k))
      /\ \A k \in 1..Len(line) : Upto(k) = Upto(k - 1) + IF k \in at THEN 1 ELSE 0
  <2>1. \A k \in 0..Len(line) : at \cap (1..k) \in SUBSET (1..Len(line))
      BY <1>3
  <2>2. \A k \in 0..Len(line) : IsFiniteSet(at \cap (1..k))
      BY <1>1, <2>1, CountTo
  <2> QED
      BY <1>1, <1>3, <2>2, CountTo
<1>5. ASSUME NEW a \in at, NEW b \in at, a < b
      PROVE  Upto(a) < Upto(b)
  <2>1. a \in 1..Len(line) /\ b \in 1..Len(line) /\ b - 1 \in 0..Len(line) /\ a \in 0..Len(line)
      BY <1>1, <1>3, <1>5
  <2>2. at \cap (1..a) \subseteq at \cap (1..(b - 1))
      BY <1>1, <1>5, <2>1
  <2>3. Upto(a) <= Upto(b - 1)
      BY <1>4, <2>1, <2>2, FS_Subset
  <2>4. Upto(b) = Upto(b - 1) + 1 /\ Upto(b - 1) \in Nat /\ Upto(a) \in Nat
      BY <1>4, <1>5, <2>1
  <2> HIDE DEF Upto
  <2> QED
      BY <2>3, <2>4
<1>6. Upto(m) \in 1..count
  <2>1. m \in 1..Len(line) /\ m - 1 \in 0..Len(line) /\ m \in 0..Len(line)
      BY <1>1, <1>3
  <2>2. at \cap (1..m) \subseteq at
      OBVIOUS
  <2>3. Upto(m) <= count
      BY <1>4, <2>2, FS_Subset
  <2>4. Upto(m) = Upto(m - 1) + 1 /\ Upto(m - 1) \in Nat /\ Upto(m) \in Nat
      BY <1>3, <1>4, <2>1
  <2> HIDE DEF Upto, count
  <2> QED
      BY <1>4, <2>3, <2>4
<1>7. Nth(Upto(m)) \in at /\ Upto(Nth(Upto(m))) = Upto(m)
    BY <1>3
<1> DEFINE k == Nth(Upto(m))
<1>8. k = m
  <2>1. k \in at /\ Upto(k) = Upto(m) /\ m \in at
      BY <1>3, <1>7
  <2> HIDE DEF k
  <2>2. k \in 1..Len(line) /\ m \in 1..Len(line) /\ Upto(k) \in Nat
      BY <1>1, <1>3, <1>4, <2>1
  <2> SUFFICES ASSUME k < m \/ m < k PROVE FALSE
      BY <1>1, <2>2
  <2>3. Upto(k) < Upto(m) \/ Upto(m) < Upto(k)
      BY <1>5, <2>1
  <2> HIDE DEF Upto
  <2> QED
      BY <2>1, <2>2, <2>3
<1>9. only[Upto(m)] = line[Nth(Upto(m))] /\ Upto(m) \in DOMAIN only
    BY <1>6
<1> QED
    BY <1>2, <1>8, <1>9

(* A walk that ends leaves all that waits in its place, but for what Back  *)
(* first left in the queue a new play plays in.                            *)
LEMMA EndedWaits ==
    ASSUME NEW h, NEW owner, NEW user \in Seq(ItemOf(h, owner)), NEW isInto \in BOOLEAN,
           NEW m \in DOMAIN user, user[m].replayOf = None, isInto => user[m].walk # 0
    PROVE  Due(EndedWalk(user, isInto), user[m].ref)
<1> DEFINE Stays(i) == i.walk = None \/ ~isInto \/ (i.replayOf = None /\ i.walk # 0)
           kept == {i \in Range(user) : Stays(i)}
           stays == Only(user, kept)
           Unmarked(i) == IF i.walk = None THEN i
                          ELSE [i EXCEPT !.walk = None,
                                         !.replayOf = IF isInto THEN @ ELSE None]
           left == [n \in DOMAIN stays |-> Unmarked(stays[n])]
<1>1. EndedWalk(user, isInto) = left
    BY DEF EndedWalk
<1>2. user[m] \in Range(user) /\ user[m] \in ItemOf(h, owner)
    BY ElementOfSeq, LenProperties DEF Range
<1>3. user[m] \in kept
    BY <1>2
<1> HIDE DEF kept
<1>4. PICK n \in DOMAIN stays : stays[n] = user[m]
    BY <1>3, OnlyAll
<1> HIDE DEF stays
<1>5. n \in DOMAIN left /\ left[n] = Unmarked(user[m])
    BY <1>4
<1>6. Unmarked(user[m]).ref = user[m].ref /\ Unmarked(user[m]).replayOf = None
  <2> DEFINE i == user[m]
  <2>1. i \in ItemShape /\ i.replayOf = None
      BY <1>2 DEF ItemOf
  <2> HIDE DEF i
  <2>2. Unmarked(i).ref = i.ref /\ Unmarked(i).replayOf = None
      BY <2>1 DEF ItemShape
  <2> QED
      BY <2>2 DEF i
<1> HIDE DEF left
<1> QED
    BY <1>1, <1>5, <1>6 DEF Due

(* A walk that ends loses nothing: what Back first left is played.         *)
LEMMA EndWalkCarries ==
    ASSUME NEW t, NEW alive, Session(t, alive), NEW into \in QueueTypes \cup {None}
    PROVE  LET u == EndWalk(t, into)
           IN  /\ Carries(t, u, 1) /\ SameContexts(t, u)
               /\ into = None => /\ Carries(t, u, 0) /\ u.history = t.history
                                 /\ \A type \in QueueTypes : \A ref \in Refs :
                                       Awaits(t.q[type], ref) => Awaits(u.q[type], ref)
<1> DEFINE Ended(type) == [t.q[type] EXCEPT !.user = EndedWalk(@, type = into)]
           v == [t EXCEPT !.q = [type \in QueueTypes |-> Ended(type)]]
           u == EndWalk(t, into)
           i == CHOOSE i \in FirstLeft(t, into) : TRUE
           p == [seq |-> NextSeq(v), queue |-> into, ref |-> i.ref,
                 after |-> LastPlayed(t), list |-> i.list]
<1>1. u = IF FirstLeft(t, into) = {} THEN v ELSE Recorded(v, into, i, LastPlayed(t))
    BY Zenon DEF EndWalk
<1>2. ASSUME NEW type \in QueueTypes
      PROVE  /\ t.q[type] \in QueueOf(t.history, OwnerOf(t, type))
             /\ t.q[type].user \in Seq(ItemOf(t.history, OwnerOf(t, type))) /\ Marked(t.q[type].user)
             /\ Ended(type).cur = t.q[type].cur /\ Ended(type).ctx = t.q[type].ctx
             /\ Ended(type).user = EndedWalk(t.q[type].user, type = into)
  <2>1. t.q[type] \in QueueOf(t.history, OwnerOf(t, type))
      BY QueuesAre
  <2> QED
      BY <2>1 DEF QueueOf
<1>3. /\ Shaped(v) /\ v.q = [type \in QueueTypes |-> Ended(type)] /\ v.history = t.history
      /\ v.style = t.style /\ v.saved = t.saved
    BY DEF Session, Shaped
<1> HIDE DEF v
<1>4. \A type \in QueueTypes : v.q[type] = Ended(type)
    BY <1>3
<1>5. Recorded(v, into, i, LastPlayed(t)) = [v EXCEPT !.history = Append(@, p)]
    BY DEF Recorded
<1>6. /\ u.q = v.q /\ u.style = v.style /\ u.saved = v.saved
      /\ u.history = IF FirstLeft(t, into) = {} THEN t.history ELSE Append(t.history, p)
      /\ p.ref = i.ref
  <2>1. p.ref = i.ref
      OBVIOUS
  <2> HIDE DEF p, i, u
  <2> QED
      BY <1>1, <1>3, <1>5, <2>1 DEF Shaped
<1> HIDE DEF p, u, Ended
<1>7. SameContexts(t, u)
    BY <1>2, <1>3, <1>4, <1>6 DEF SameContexts
<1>8. ASSUME NEW type \in QueueTypes, NEW ref \in Refs, Awaits(t.q[type], ref)
      PROVE  Awaits(u.q[type], ref) \/ (FirstLeft(t, into) # {} /\ p.ref = ref)
  <2> DEFINE queue == t.q[type]
             user == queue.user
  <2>1. u.q[type] = Ended(type)
      BY <1>4, <1>6
  <2>2. CASE (queue.cur # None /\ queue.cur.ref = ref /\ queue.cur.replayOf = None) \/ Due(queue.ctx, ref)
      BY <1>2, <2>1, <2>2 DEF Awaits
  <2>3. CASE Due(user, ref)
    <3>1. PICK m \in DOMAIN user : user[m].ref = ref /\ user[m].replayOf = None
        BY <2>3 DEF Due
    <3>2. CASE type = into => user[m].walk # 0
      <4>1. Due(EndedWalk(user, type = into), user[m].ref)
        <5>1. user \in Seq(ItemOf(t.history, OwnerOf(t, type))) /\ (type = into) \in BOOLEAN
            BY <1>2
        <5> HIDE DEF user
        <5> QED
            BY <3>1, <3>2, <5>1, EndedWaits
      <4> QED
          BY <1>2, <2>1, <3>1, <4>1 DEF Awaits
    <3>3. CASE type = into /\ user[m].walk = 0
      <4>1. user[m] \in FirstLeft(t, into)
        <5>1. user[m] \in Range(t.q[into].user) /\ into # None
          <6>1. into # None
              BY <3>3, EngineConstants
          <6> QED
              BY <3>1, <3>3, <6>1 DEF Range
        <5> QED
            BY <3>1, <3>3, <5>1 DEF FirstLeft
      <4>2. i \in FirstLeft(t, into)
          BY <4>1
      <4>3. PICK k \in DOMAIN user : i = user[k]
          BY <3>3, <4>2 DEF FirstLeft, Range
      <4>4. i.walk = 0
          BY <4>2 DEF FirstLeft
      <4>5. 0 # None
          BY TapConstants
      <4>6. k = m
        <5>1. m \in Nat /\ k \in Nat
            BY <1>2, <3>1, <4>3, LenProperties
        <5>2. user[m].walk = 0 /\ user[k].walk = 0 /\ m \in DOMAIN user /\ k \in DOMAIN user
            BY <3>3, <4>3, <4>4
        <5>3. Marked(user)
            BY <1>2
        <5> HIDE DEF user
        <5>4. ~(0 < 0)
            OBVIOUS
        <5>5. ~(m < k) /\ ~(k < m)
            BY <4>5, <5>2, <5>3, <5>4 DEF Marked
        <5> QED
            BY <5>1, <5>5
      <4> QED
          BY <1>6, <3>1, <4>1, <4>3, <4>6
    <3> QED
        BY <3>2, <3>3
  <2> QED
      BY <1>8, <2>2, <2>3 DEF Awaits
<1>9. PlaysOf(t.history)
    BY DEF Session
<1>10. Carries(t, u, 1)
  <2>1. u.history = t.history \/ (1 >= 1 /\ u.history = Append(t.history, p))
      BY <1>6
  <2>2. \A type \in QueueTypes : \A ref \in Refs : Awaits(t.q[type], ref) =>
              Awaits(u.q[type], ref) \/ (u.history = Append(t.history, p) /\ p.ref = ref)
      BY <1>6, <1>8
  <2> QED
      BY <1>7, <1>9, <2>1, <2>2, QueuesCarry
<1>11. ASSUME into = None
       PROVE  /\ Carries(t, u, 0) /\ u.history = t.history
              /\ \A type \in QueueTypes : \A ref \in Refs :
                    Awaits(t.q[type], ref) => Awaits(u.q[type], ref)
  <2>1. FirstLeft(t, into) = {}
      BY <1>11 DEF FirstLeft
  <2>2. \A type \in QueueTypes : \A ref \in Refs : Awaits(t.q[type], ref) => Awaits(u.q[type], ref)
      BY <1>8, <2>1
  <2>3. u.history = t.history
      BY <1>6, <2>1
  <2> QED
      BY <1>7, <1>9, <2>2, <2>3, QueuesCarry
<1> QED
    BY <1>7, <1>10, <1>11 DEF u

(* A line put before another waits as each did.                            *)
LEMMA DueJoined ==
    ASSUME NEW S, NEW a \in Seq(S), NEW b \in Seq(S), NEW ref
    PROVE  Due(a \o b, ref) <=> Due(a, ref) \/ Due(b, ref)
<1>1. /\ a \o b \in Seq(S) /\ Len(a) \in Nat /\ Len(b) \in Nat
      /\ DOMAIN (a \o b) = 1..(Len(a) + Len(b)) /\ DOMAIN a = 1..Len(a) /\ DOMAIN b = 1..Len(b)
      /\ \A n \in 1..(Len(a) + Len(b)) :
            (a \o b)[n] = IF n <= Len(a) THEN a[n] ELSE b[n - Len(a)]
    BY ConcatProperties, LenProperties
<1> DEFINE c == a \o b
<1>2. \A n \in 1..(Len(a) + Len(b)) : c[n] = IF n <= Len(a) THEN a[n] ELSE b[n - Len(a)]
    BY <1>1
<1>3. \A n \in 1..Len(a) : n \in 1..(Len(a) + Len(b)) /\ c[n] = a[n]
    BY <1>1, <1>2
<1>4. \A n \in 1..Len(b) : n + Len(a) \in 1..(Len(a) + Len(b)) /\ c[n + Len(a)] = b[n]
    BY <1>1, <1>2
<1>5. \A n \in 1..(Len(a) + Len(b)) :
         \/ n \in 1..Len(a) /\ c[n] = a[n]
         \/ n - Len(a) \in 1..Len(b) /\ c[n] = b[n - Len(a)]
    BY <1>1, <1>2
<1>6. DOMAIN c = 1..(Len(a) + Len(b))
    BY <1>1
<1> HIDE DEF c
<1>7. Due(c, ref) => Due(a, ref) \/ Due(b, ref)
  <2> SUFFICES ASSUME Due(c, ref) PROVE Due(a, ref) \/ Due(b, ref)
      OBVIOUS
  <2>1. PICK n \in 1..(Len(a) + Len(b)) : c[n].ref = ref /\ c[n].replayOf = None
      BY <1>6 DEF Due
  <2> QED
      BY <1>1, <1>5, <2>1 DEF Due
<1>8. Due(a, ref) => Due(c, ref)
    BY <1>1, <1>3, <1>6 DEF Due
<1>9. Due(b, ref) => Due(c, ref)
    BY <1>1, <1>4, <1>6 DEF Due
<1> QED
    BY <1>7, <1>8, <1>9 DEF c

(* One queue changed in which all that waited waits, all else as it was.   *)
LEMMA OneCarries ==
    ASSUME NEW t, NEW alive, Session(t, alive), NEW u, NEW type \in QueueTypes, NEW queue,
           u.history = t.history, u.saved = t.saved, u.style = t.style,
           u.q = [t.q EXCEPT ![type] = queue],
           t.q[type].ctx = <<>> => queue.ctx = <<>>,
           \A ref \in Refs : Awaits(t.q[type], ref) => Awaits(queue, ref)
    PROVE  Carries(t, u, 0) /\ SameContexts(t, u)
<1>1. u.q[type] = queue /\ \A other \in QueueTypes \ {type} : u.q[other] = t.q[other]
    BY QueuesAre
<1>2. SameContexts(t, u)
    BY <1>1 DEF SameContexts
<1>3. \A other \in QueueTypes : \A ref \in Refs : Awaits(t.q[other], ref) => Awaits(u.q[other], ref)
    BY <1>1
<1>4. PlaysOf(t.history)
    BY DEF Session
<1>5. Carries(t, u, 0)
    BY <1>2, <1>3, <1>4, QueuesCarry
<1> QED
    BY <1>2, <1>5

(* Nothing a session's queues hold changed.                                *)
LEMMA UnchangedCarries ==
    ASSUME NEW t, NEW alive, Session(t, alive), NEW u,
           u.history = t.history, u.saved = t.saved, u.style = t.style, u.q = t.q
    PROVE  Carries(t, u, 0) /\ SameContexts(t, u)
<1>1. SameContexts(t, u)
    BY DEF SameContexts
<1>2. PlaysOf(t.history)
    BY DEF Session
<1>3. Carries(t, u, 0)
    BY <1>1, <1>2, QueuesCarry
<1> QED
    BY <1>1, <1>3

(* What is put in front of a queue's line loses none of it, nor its        *)
(* current item if that is put in front too.                               *)
LEMMA FrontCarries ==
    ASSUME NEW t, NEW alive, Session(t, alive), NEW type \in QueueTypes,
           NEW front \in Seq(ItemOf(t.history, OwnerOf(t, type))), NEW u, NEW queue,
           u.history = t.history, u.saved = t.saved, u.style = t.style,
           u.q = [t.q EXCEPT ![type] = queue],
           queue.user \in {front \o t.q[type].user, t.q[type].user \o front},
           queue.ctx = t.q[type].ctx,
           \/ queue.cur = t.q[type].cur
           \/ t.q[type].cur = None
           \/ Due(front, t.q[type].cur.ref)
           \/ t.q[type].cur.replayOf # None
    PROVE  Carries(t, u, 0) /\ SameContexts(t, u)
<1> DEFINE S == ItemOf(t.history, OwnerOf(t, type))
           back == t.q[type].user
<1>1. back \in Seq(S) /\ front \in Seq(S)
    BY QueuesAre DEF QueueOf
<1> HIDE DEF S
<1>2. \A ref : Due(queue.user, ref) <=> Due(front, ref) \/ Due(back, ref)
  <2>1. \A ref : Due(front \o back, ref) <=> Due(front, ref) \/ Due(back, ref)
      BY <1>1, DueJoined
  <2>2. \A ref : Due(back \o front, ref) <=> Due(front, ref) \/ Due(back, ref)
      BY <1>1, DueJoined
  <2> QED
      BY <2>1, <2>2
<1>3. \A ref \in Refs : Awaits(t.q[type], ref) => Awaits(queue, ref)
    BY <1>2 DEF Awaits
<1> QED
    BY <1>3, OneCarries

(* Back leaves what it leaves at the front of its queue.                   *)
LEMMA StepBackCarries ==
    ASSUME NEW t, NEW alive, Session(t, alive)
    PROVE  Carries(t, StepBack(t), 0)
<1> DEFINE replay == [Item(Earlier(t).ref) EXCEPT !.replayOf = Earlier(t).seq]
           type == Earlier(t).queue
           u == Stepped(t)
           left == t.q[t.active]
           place == IF LowestWalk(t) = None THEN 0 ELSE LowestWalk(t) - 1
           first == [Parked(left) EXCEPT !.walk = place]
           put == [Cleared(left) EXCEPT !.user = <<first>> \o @]
           h == t.history
           owner == OwnerOf(t, t.active)
<1>1. StepBack(t) = IF BackTo(t) = None THEN t ELSE Land(u, type, replay, None)
    BY DEF StepBack, Stepped, Earlier
<1>2. Session(u, alive) /\ u.history = h /\ SameElsewhere(u, t)
    BY SteppedIs
<1>3. Carries(t, u, 0) /\ SameContexts(t, u)
  <2>1. CASE left.cur = None
    <3>1. u = t
        BY <2>1 DEF Stepped
    <3> HIDE DEF u
    <3> QED
        BY <3>1, UnchangedCarries
  <2>2. CASE left.cur # None
    <3>1. t.active \in QueueTypes /\ left \in QueueOf(h, owner) /\ place \in Int
      <4>1. t.active \in QueueTypes
          BY DEF Session
      <4>2. left \in QueueOf(h, owner)
          BY <4>1, QueuesAre
      <4>3. place \in Int
          BY LowestIs
      <4> QED
          BY <4>1, <4>2, <4>3
    <3>2. u = [t EXCEPT !.q[t.active] = put]
        BY <2>2 DEF Stepped
    <3>3. left.cur \in ItemOf(h, owner)
        BY <2>2, <3>1 DEF QueueOf, CurOf
    <3>4. Parked(left) \in Unwalked(h, owner)
        BY <2>2, <3>1, ParkedIs
    <3>5. /\ first \in ItemOf(h, owner)
          /\ first.ref = left.cur.ref /\ first.replayOf = left.cur.replayOf
      <4>1. Parked(left).ref = left.cur.ref /\ Parked(left).replayOf = left.cur.replayOf
          BY <3>3 DEF Parked, ItemOf, ItemShape
      <4> HIDE DEF place, left, h, owner
      <4> QED
          BY <3>1, <3>4, <4>1 DEF Unwalked, ItemOf, ItemShape
    <3>6. Cleared(left).user = left.user /\ Cleared(left).ctx = left.ctx
        BY <3>1, Requeued
    <3> HIDE DEF first
    <3>7. put.user = <<first>> \o left.user /\ put.ctx = left.ctx
      <4>1. Cleared(left) \in QueueOf(h, owner)
          BY <3>1, Requeued
      <4> DEFINE cleared == Cleared(left)
      <4> HIDE DEF cleared
      <4>2. put = [cleared EXCEPT !.user = <<first>> \o left.user]
          BY <3>6 DEF cleared
      <4>3. cleared \in QueueOf(h, owner) /\ cleared.ctx = left.ctx
          BY <3>6, <4>1 DEF cleared
      <4> HIDE DEF put, left, h, owner
      <4> QED
          BY <4>2, <4>3 DEF QueueOf
    <3> HIDE DEF put, u
    <3>8. /\ u.q = [t.q EXCEPT ![t.active] = put] /\ u.saved = t.saved /\ u.style = t.style
        BY <3>2 DEF Session, Shaped
    <3>9. <<first>> \in Seq(ItemOf(h, owner))
        BY <3>5
    <3>10. left.cur.replayOf = None => Due(<<first>>, left.cur.ref)
      <4>1. 1 \in DOMAIN <<first>> /\ <<first>>[1] = first
          OBVIOUS
      <4> QED
          BY <3>5, <4>1 DEF Due
    <3>11. Due(<<first>>, t.q[t.active].cur.ref) \/ t.q[t.active].cur.replayOf # None
        BY <3>10
    <3> DEFINE one == <<first>>
    <3> HIDE DEF one
    <3>12. /\ one \in Seq(ItemOf(t.history, OwnerOf(t, t.active)))
           /\ put.user \in {one \o t.q[t.active].user, t.q[t.active].user \o one}
           /\ put.ctx = t.q[t.active].ctx
           /\ \/ put.cur = t.q[t.active].cur
              \/ t.q[t.active].cur = None
              \/ Due(one, t.q[t.active].cur.ref)
              \/ t.q[t.active].cur.replayOf # None
        BY <3>7, <3>9, <3>11 DEF one
    <3> HIDE DEF left, h, owner
    <3>13. u.history = t.history
        BY <1>2 DEF h
    <3> QED
        BY <3>1, <3>8, <3>12, <3>13, FrontCarries
  <2> QED
      BY <2>1, <2>2
<1>4. ASSUME BackTo(t) # None
      PROVE  Carries(u, Land(u, type, replay, None), 0) /\ Session(Land(u, type, replay, None), alive)
  <2>2. /\ Earlier(t).ref \in Refs /\ Earlier(t).seq \in Nat /\ type \in QueueTypes
        /\ PlayOf(u.history, Earlier(t).seq, Earlier(t).ref)
      BY <1>2, <1>4, EarlierIs
  <2> DEFINE new == Item(Earlier(t).ref)
  <2>3. new \in Unwalked(u.history, None) /\ new.ref = Earlier(t).ref
      BY <2>2, NewItem DEF Item
  <2> HIDE DEF u, new
  <2>4. [new EXCEPT !.replayOf = Earlier(t).seq] \in ItemOf(u.history, None)
      BY <2>2, <2>3 DEF Unwalked, ItemOf, ItemShape, Marks
  <2>5. replay \in ItemOf(u.history, OwnerOf(u, type))
      BY <2>4, ItemsOfNone DEF new
  <2>6. None \in Follows(u.history)
      BY DEF Follows
  <2> HIDE DEF replay, type
  <2> QED
      BY <1>2, <2>2, <2>5, <2>6, LandIs, LandCarries
<1>5. Carries(t, t, 0)
    BY UnchangedCarries
<1>6. PlaysOf(t.history) /\ PlaysOf(u.history)
    BY <1>2 DEF Session
<1>7. ASSUME BackTo(t) # None
      PROVE  Carries(t, StepBack(t), 0)
  <2> DEFINE v == Land(u, type, replay, None)
  <2>1. PlaysOf(v.history) /\ Carries(u, v, 0)
      BY <1>4, <1>7 DEF Session
  <2> HIDE DEF v, u
  <2>2. Carries(t, v, 0 + 0)
      BY <1>3, <1>6, <2>1, CarriesOn
  <2> QED
      BY <1>1, <1>7, <2>2 DEF v
<1> QED
    BY <1>1, <1>5, <1>7

(* Another queue made active: its items play, and the walk's wait on.      *)
LEMMA SwitchToCarries ==
    ASSUME NEW t, NEW alive, Session(t, alive), NEW type \in QueueTypes
    PROVE  Carries(t, SwitchTo(t, type), 0)
<1> DEFINE w == EndWalk(t, None)
           open == [w EXCEPT !.switch = None]
           after == Followed(t, Current(t))
           v == Play(open, type, after)
<1>1. SwitchTo(t, type) = IF type = t.active THEN t ELSE v
    BY DEF SwitchTo
<1>2. /\ Session(w, alive) /\ after \in Follows(w.history)
      /\ Carries(t, w, 0)
    BY LeftIs, EndWalkCarries
<1> HIDE DEF w, after
<1>3. /\ Shaped(open) /\ open.history = w.history /\ open.q = w.q
      /\ open.active = w.active /\ open.switch = None /\ open.style = w.style
      /\ open.pick = w.pick /\ open.digest = w.digest /\ open.saved = w.saved
    BY <1>2 DEF Session, Shaped
<1>4. Session(open, alive)
    BY <1>2, <1>3 DEF Session
<1> HIDE DEF open
<1>5. Carries(w, open, 0)
    BY <1>2, <1>3, UnchangedCarries
<1>6. Carries(open, v, 0) /\ Session(v, alive)
    BY <1>2, <1>3, <1>4, PlayCarries, PlayIs
<1>7. PlaysOf(t.history) /\ PlaysOf(w.history) /\ PlaysOf(open.history) /\ PlaysOf(v.history)
    BY <1>2, <1>4, <1>6 DEF Session
<1> HIDE DEF v
<1>8. Carries(t, open, 0 + 0)
    BY <1>2, <1>5, <1>7, CarriesOn
<1>9. Carries(t, v, 0 + 0)
    BY <1>6, <1>7, <1>8, CarriesOn
<1>10. Carries(t, t, 0)
    BY UnchangedCarries
<1> QED
    BY <1>1, <1>9, <1>10

(* Another style: what a context held goes on waiting in the user's line.  *)
LEMMA SetQueueStyleCarries ==
    ASSUME NEW t, NEW alive, Session(t, alive), NEW style \in {"spotify", "youtube"}
    PROVE  Carries(t, SetQueueStyle(t, style), 0)
<1> DEFINE u == SetQueueStyle(t, style)
           h == t.history
           queue == t.q["music"]
           all == queue.user \o queue.ctx
           joined == [queue EXCEPT !.user = all, !.ctx = <<>>]
<1>1. /\ queue \in QueueOf(h, None) /\ queue.user \in Seq(ItemOf(h, None))
      /\ queue.ctx \in Seq(Unwalked(h, None))
    BY DEF Session, QueueOf
<1>2. CASE style = "youtube"
  <2>1. \A ref : Due(all, ref) <=> Due(queue.user, ref) \/ Due(queue.ctx, ref)
    <3>1. queue.ctx \in Seq(ItemOf(h, None))
        BY <1>1, UnwalkedMarked
    <3> HIDE DEF queue, h
    <3> QED
        BY <1>1, <3>1, DueJoined
  <2> HIDE DEF all
  <2>2. joined.cur = queue.cur /\ joined.user = all /\ joined.ctx = <<>>
      BY <1>1 DEF QueueOf
  <2>3. u = [t EXCEPT !.style = style, !.q["music"].user = all, !.q["music"].ctx = <<>>]
      BY <1>2 DEF SetQueueStyle, all
  <2> HIDE DEF u
  <2>4. u.history = h /\ u.style = style /\ u.saved = t.saved
      BY <2>3 DEF Session, Shaped
  <2>5. u.q = [t.q EXCEPT !["music"] = joined]
      BY <2>3 DEF Session, Shaped
  <2> HIDE DEF joined
  <2>6. u.q["music"] = joined /\ u.q["spoken"] = t.q["spoken"]
      BY <2>5, QueuesAre DEF QueueTypes
  <2>7. Contexts(t) => Contexts(u)
      BY <2>2, <2>4, <2>6 DEF Contexts
  <2>8. \A type \in QueueTypes : \A ref \in Refs : Awaits(t.q[type], ref) => Awaits(u.q[type], ref)
    <3>1. \A ref : Awaits(queue, ref) => Awaits(joined, ref)
        BY <2>1, <2>2 DEF Awaits
    <3> QED
        BY <2>6, <3>1 DEF QueueTypes
  <2>9. Len(h) <= Len(h) + 0
      BY LenProperties DEF Session, PlaysOf
  <2>10. Carries(t, u, 0)
      BY <2>4, <2>7, <2>8, <2>9 DEF Carries, Awaited
  <2> QED
      BY <2>10 DEF u
<1>3. CASE style # "youtube"
  <2>1. u = [t EXCEPT !.style = style]
      BY <1>3 DEF SetQueueStyle
  <2> HIDE DEF u
  <2>2. u.history = h /\ u.q = t.q /\ u.style = style /\ u.saved = t.saved
      BY <2>1 DEF Session, Shaped
  <2>3. Contexts(t) => Contexts(u)
      BY <1>3, <2>2 DEF Contexts
  <2>4. Len(h) <= Len(h) + 0
      BY LenProperties DEF Session, PlaysOf
  <2>5. Carries(t, u, 0)
      BY <2>2, <2>3, <2>4 DEF Carries, Awaited
  <2> QED
      BY <2>5 DEF u
<1> QED
    BY <1>2, <1>3

(* A line entered in place of a queue's, with more before it or after.     *)
LEMMA EnteredCarries ==
    ASSUME NEW t, NEW alive, Session(t, alive), NEW type \in QueueTypes,
           NEW front \in Seq(ItemOf(t.history, OwnerOf(t, type))),
           NEW user \in {front \o t.q[type].user, t.q[type].user \o front}
    PROVE  Carries(t, [t EXCEPT !.q[type].user = user], 0)
<1> DEFINE queue == t.q[type]
           new == [queue EXCEPT !.user = user]
           u == [t EXCEPT !.q[type].user = user]
<1>1. queue \in QueueOf(t.history, OwnerOf(t, type))
    BY QueuesAre
<1>2. new.user = user /\ new.ctx = queue.ctx /\ new.cur = queue.cur
    BY <1>1 DEF QueueOf
<1>3. /\ u.style = t.style /\ u.history = t.history /\ u.saved = t.saved
      /\ u.q = [t.q EXCEPT ![type] = new]
    BY DEF Session, Shaped
<1> HIDE DEF u, new
<1>4. Carries(t, u, 0)
    BY <1>2, <1>3, FrontCarries
<1> QED
    BY <1>4 DEF u

(* What is put next loses nothing, a paused item put after it included.    *)
LEMMA AddNextCarries ==
    ASSUME NEW t, NEW alive, Session(t, alive), NEW type \in QueueTypes,
           NEW items \in Seq(Unwalked(t.history, OwnerOf(t, type)))
    PROVE  Carries(t, AddNext(t, type, items), 0)
<1> DEFINE h == t.history
           owner == OwnerOf(t, type)
           lowest == LowestWalk(t)
           n == Len(items)
           queue == t.q[type]
           paused == IF queue.cur = None THEN <<>> ELSE <<Parked(queue)>>
           walked == [i \in 1..n |-> [items[i] EXCEPT !.walk = lowest - n + i - 1]]
           u == AddNext(t, type, items)
<1>1. queue \in QueueOf(h, owner) /\ queue.user \in Seq(ItemOf(h, owner)) /\ Marked(queue.user)
    BY QueuesAre DEF QueueOf
<1>2. n \in Nat /\ DOMAIN items = 1..n /\ \A i \in 1..n : items[i] \in Unwalked(h, owner)
    BY LenProperties, ElementOfSeq
<1>3. CASE lowest # None
  <2> DEFINE line == walked \o queue.user
  <2>1. lowest \in Int
      BY <1>3, LowestIs
  <2>2. u = [t EXCEPT !.q[type].user = line]
      BY <1>3 DEF AddNext
  <2> HIDE DEF lowest, queue, h, owner, n
  <2>3. \A i \in 1..n : lowest - n + i - 1 \in Int
      BY <1>2, <2>1
  <2>4. DOMAIN walked = 1..n /\ \A i \in 1..n : walked[i] \in ItemOf(h, owner)
      BY <1>2, <2>3 DEF Unwalked, ItemOf, ItemShape
  <2>5. walked \in Seq(ItemOf(h, owner))
      BY <1>2, <2>4
  <2> HIDE DEF walked
  <2>6. /\ walked \in Seq(ItemOf(t.history, OwnerOf(t, type)))
        /\ line \in {walked \o t.q[type].user, t.q[type].user \o walked}
      BY <2>5 DEF h, owner, queue
  <2> HIDE DEF line, u
  <2>7. Carries(t, [t EXCEPT !.q[type].user = line], 0)
      BY <2>6, EnteredCarries
  <2> QED
      BY <2>2, <2>7 DEF u
<1>4. items \in Seq(ItemOf(h, owner))
    BY UnwalkedMarked
<1>5. CASE lowest = None /\ type # t.active
  <2> DEFINE front == items \o paused
             line == front \o queue.user
             cleared == Cleared(queue)
             new == [cleared EXCEPT !.user = line]
  <2>1. cleared \in QueueOf(h, owner) /\ cleared.user = queue.user /\ cleared.ctx = queue.ctx
      BY <1>1, Requeued
  <2>2. u = [t EXCEPT !.q[type] = [cleared EXCEPT !.user = items \o paused \o @], !.switch = type]
      BY <1>5 DEF AddNext
  <2>3. [cleared EXCEPT !.user = items \o paused \o @] = new
      BY <2>1
  <2>4. /\ paused \in Seq(ItemOf(h, owner))
        /\ queue.cur # None /\ queue.cur.replayOf = None => Due(paused, queue.cur.ref)
    <3> HIDE DEF queue, h, owner
    <3>1. CASE queue.cur = None
        BY <3>1, EmptySeq
    <3>2. CASE queue.cur # None
      <4>1. Parked(queue) \in ItemOf(h, owner)
          BY <1>1, <3>2, ParkedIs, ItemsOfNone
      <4>2. queue.cur \in ItemOf(h, owner)
          BY <1>1, <3>2 DEF QueueOf, CurOf
      <4>3. Parked(queue).ref = queue.cur.ref /\ Parked(queue).replayOf = queue.cur.replayOf
          BY <4>2 DEF Parked, ItemOf, ItemShape
      <4>4. paused = <<Parked(queue)>>
          BY <3>2
      <4>5. 1 \in DOMAIN <<Parked(queue)>> /\ <<Parked(queue)>>[1] = Parked(queue)
          OBVIOUS
      <4> QED
          BY <4>1, <4>3, <4>4, <4>5 DEF Due
    <3> QED
        BY <3>1, <3>2
  <2> HIDE DEF paused
  <2>5. /\ front \in Seq(ItemOf(h, owner))
        /\ queue.cur # None /\ queue.cur.replayOf = None => Due(front, queue.cur.ref)
    <3>1. front \in Seq(ItemOf(h, owner))
      <4> HIDE DEF h, owner
      <4> QED
          BY <1>4, <2>4, ConcatProperties
    <3>2. \A ref : Due(front, ref) <=> Due(items, ref) \/ Due(paused, ref)
      <4> HIDE DEF h, owner
      <4> QED
          BY <1>4, <2>4, DueJoined
    <3> HIDE DEF front
    <3> QED
        BY <2>4, <3>1, <3>2
  <2> HIDE DEF front
  <2>6. new.user = line /\ new.ctx = queue.ctx
    <3> HIDE DEF cleared, queue
    <3> QED
        BY <2>1 DEF QueueOf
  <2> HIDE DEF new, cleared
  <2>7. /\ u.style = t.style /\ u.history = t.history /\ u.saved = t.saved
        /\ u.q = [t.q EXCEPT ![type] = new]
    <3> HIDE DEF u
    <3> QED
        BY <2>2, <2>3 DEF Session, Shaped
  <2>8. /\ front \in Seq(ItemOf(t.history, OwnerOf(t, type)))
        /\ new.user \in {front \o t.q[type].user, t.q[type].user \o front}
        /\ new.ctx = t.q[type].ctx
        /\ \/ new.cur = t.q[type].cur
           \/ t.q[type].cur = None
           \/ Due(front, t.q[type].cur.ref)
           \/ t.q[type].cur.replayOf # None
      BY <2>5, <2>6
  <2> HIDE DEF queue, h, owner, u, line
  <2>9. Carries(t, u, 0)
      BY <2>7, <2>8, FrontCarries
  <2> QED
      BY <2>9 DEF u
<1>6. CASE lowest = None /\ type = t.active
  <2> DEFINE line == items \o queue.user
  <2>1. u = [t EXCEPT !.q[type].user = line]
      BY <1>6 DEF AddNext
  <2>2. /\ items \in Seq(ItemOf(t.history, OwnerOf(t, type)))
        /\ line \in {items \o t.q[type].user, t.q[type].user \o items}
      BY <1>4
  <2> HIDE DEF line, u
  <2>3. Carries(t, [t EXCEPT !.q[type].user = line], 0)
      BY <2>2, EnteredCarries
  <2> QED
      BY <2>1, <2>3 DEF u
<1> QED
    BY <1>3, <1>5, <1>6

(* The queues put aside that are selected are those, and all of those.     *)
LEMMA OnlyHolds ==
    ASSUME NEW h, NEW owners, NEW saved, AsideOf(h, owners, saved), NEW kept
    PROVE  /\ \A n \in DOMAIN saved : saved[n] \in kept =>
                 \E m \in DOMAIN Only(saved, kept) : Only(saved, kept)[m] = saved[n]
           /\ \A m \in DOMAIN Only(saved, kept) :
                 \E n \in DOMAIN saved : Only(saved, kept)[m] = saved[n]
<1> DEFINE S == Range(saved)
<1>1. saved \in Seq(S)
    BY DEF AsideOf
<1> HIDE DEF S
<1>2. \A n \in DOMAIN saved : saved[n] \in kept =>
          \E m \in DOMAIN Only(saved, kept) : Only(saved, kept)[m] = saved[n]
    BY <1>1, OnlyAll
<1>3. \E place \in [DOMAIN Only(saved, kept) -> DOMAIN saved] :
          \A n \in DOMAIN Only(saved, kept) : Only(saved, kept)[n] = saved[place[n]]
  <2>1. \E place \in [DOMAIN Only(saved, kept) -> DOMAIN saved] :
          \A n \in DOMAIN Only(saved, kept) :
             /\ Only(saved, kept)[n] = saved[place[n]]
             /\ \A m \in DOMAIN Only(saved, kept) : m < n => place[m] < place[n]
      BY <1>1, OnlyKept
  <2> QED
      BY <2>1
<1> QED
    BY <1>2, <1>3

(* Without an owner's, all others' are still put aside.                    *)
LEMMA OthersHold ==
    ASSUME NEW h, NEW owners, NEW saved, AsideOf(h, owners, saved), NEW owner
    PROVE  /\ \A n \in DOMAIN saved : saved[n].owner # owner =>
                 \E m \in DOMAIN Others(saved, owner) : Others(saved, owner)[m] = saved[n]
           /\ \A m \in DOMAIN Others(saved, owner) :
                 \E n \in DOMAIN saved : Others(saved, owner)[m] = saved[n]
<1> DEFINE kept == {q \in Range(saved) : q.owner # owner}
<1>1. \A n \in DOMAIN saved : saved[n].owner # owner => saved[n] \in kept
    BY DEF Range
<1> HIDE DEF kept
<1>2. /\ \A n \in DOMAIN saved : saved[n] \in kept =>
                 \E m \in DOMAIN Only(saved, kept) : Only(saved, kept)[m] = saved[n]
      /\ \A m \in DOMAIN Only(saved, kept) :
                 \E n \in DOMAIN saved : Only(saved, kept)[m] = saved[n]
    BY OnlyHolds
<1> QED
    BY <1>1, <1>2 DEF Others, kept

(* What is put aside waits there, with all that was aside already.         *)
LEMMA PutAsideWaits ==
    ASSUME NEW t, NEW alive, Session(t, alive), t.q["spoken"] \in Walkless(t.history, t.digest)
    PROVE  LET saved == PutAside(t).saved
           IN  /\ \A n \in DOMAIN t.saved : \E m \in DOMAIN saved : saved[m] = t.saved[n]
               /\ \E m \in DOMAIN saved :
                     /\ saved[m].owner = t.digest
                     /\ \A ref : Awaits(t.q["spoken"], ref) => Awaits(saved[m].queue, ref)
               /\ Contexts(t) => \A m \in DOMAIN saved : saved[m].queue.ctx = <<>>
<1> DEFINE queue == t.q["spoken"]
           cur == IF queue.cur = None THEN queue.cur ELSE [queue.cur EXCEPT !.after = None]
           left == [queue EXCEPT !.cur = cur]
           others == Others(t.saved, t.digest)
           own == [owner |-> t.digest, queue |-> left, pick |-> None]
           S == Range(others) \cup {own}
           saved == Append(others, own)
<1>1. t.pick["spoken"] = None
    BY DEF Session, QueueTypes
<1>2. PutAside(t).saved = saved
    BY <1>1 DEF PutAside, Session, Shaped
<1>3. AsideOf(t.history, alive \ {t.digest}, t.saved)
    BY DEF Session
<1>4. AsideOf(t.history, (alive \ {t.digest}) \ {t.digest}, others)
    BY <1>3, OthersAre
<1>5. /\ \A n \in DOMAIN t.saved : \E m \in DOMAIN others : others[m] = t.saved[n]
      /\ \A m \in DOMAIN others : \E n \in DOMAIN t.saved : others[m] = t.saved[n]
  <2>1. \A n \in DOMAIN t.saved : t.saved[n].owner # t.digest
      BY <1>3 DEF AsideOf
  <2> QED
      BY <1>3, <2>1, OthersHold
<1>6. own.owner = t.digest /\ own.queue = left
    OBVIOUS
<1>7. left.ctx = queue.ctx /\ \A ref : Awaits(queue, ref) => Awaits(left, ref)
  <2>1. queue \in QueueOf(t.history, t.digest)
      BY DEF Walkless
  <2>2. left.user = queue.user /\ left.ctx = queue.ctx /\ left.cur = cur
      BY <2>1 DEF QueueOf
  <2>3. queue.cur # None => cur # None /\ cur.ref = queue.cur.ref /\ cur.replayOf = queue.cur.replayOf
    <3> SUFFICES ASSUME queue.cur # None
                 PROVE  cur # None /\ cur.ref = queue.cur.ref /\ cur.replayOf = queue.cur.replayOf
        OBVIOUS
    <3>1. queue.cur \in ItemShape
        BY <2>1 DEF QueueOf, CurOf, ItemOf
    <3>2. cur \in ItemShape /\ cur.ref = queue.cur.ref /\ cur.replayOf = queue.cur.replayOf
        BY <3>1 DEF ItemShape, Marks
    <3> QED
        BY <3>2, TapConstants
  <2> HIDE DEF cur, left, queue
  <2> QED
      BY <2>2, <2>3 DEF Awaits
<1>8. others \in Seq(S)
  <2>1. others \in Seq(Range(others))
      BY <1>4 DEF AsideOf
  <2> HIDE DEF others, own
  <2>2. Range(others) \subseteq S
      OBVIOUS
  <2> QED
      BY <2>1, <2>2, SeqMonotonic
<1> HIDE DEF others, own, left
<1>9. /\ Len(others) \in Nat /\ DOMAIN others = 1..Len(others)
      /\ DOMAIN saved = 1..(Len(others) + 1)
      /\ \A m \in 1..Len(others) : saved[m] = others[m]
      /\ saved[Len(others) + 1] = own
  <2>1. own \in S
      OBVIOUS
  <2> HIDE DEF S
  <2>2. /\ saved \in Seq(S) /\ Len(saved) = Len(others) + 1
        /\ \A m \in 1..Len(others) : saved[m] = others[m]
        /\ saved[Len(others) + 1] = own
      BY <1>8, <2>1, AppendProperties
  <2>3. DOMAIN saved = 1..Len(saved) /\ Len(others) \in Nat /\ DOMAIN others = 1..Len(others)
      BY <1>8, <2>2, LenProperties
  <2> QED
      BY <2>2, <2>3
<1> HIDE DEF saved
<1>10. \A m \in DOMAIN others : m \in DOMAIN saved /\ saved[m] = others[m]
    BY <1>9
<1>11. \A m \in DOMAIN saved : (m \in DOMAIN others /\ saved[m] = others[m]) \/ saved[m] = own
    BY <1>9
<1>12. \A n \in DOMAIN t.saved : \E m \in DOMAIN saved : saved[m] = t.saved[n]
    BY <1>5, <1>10
<1>13. \E m \in DOMAIN saved :
          saved[m].owner = t.digest /\ \A ref : Awaits(queue, ref) => Awaits(saved[m].queue, ref)
  <2>1. Len(others) + 1 \in DOMAIN saved
      BY <1>9
  <2> QED
      BY <1>6, <1>7, <1>9, <2>1
<1>14. Contexts(t) => \A m \in DOMAIN saved : saved[m].queue.ctx = <<>>
    BY <1>5, <1>6, <1>7, <1>11 DEF Contexts
<1> QED
    BY <1>2, <1>12, <1>13, <1>14

(* A queue put aside that comes back is the one that was, and the one it   *)
(* takes the place of waits aside.                                         *)
LEMMA SwapSpokenCarries ==
    ASSUME NEW t, NEW alive, Session(t, alive), t.q["spoken"] \in Walkless(t.history, t.digest),
           NEW owner \in alive, owner # t.digest, NEW after \in Follows(t.history)
    PROVE  Carries(t, SwapSpoken(t, owner, after), 0)
<1> DEFINE h == t.history
           back == SavedOf(t, owner)
           aside == PutAside(t)
           held == CHOOSE q \in back : TRUE
           queue == IF back = {} THEN EmptyQueue ELSE held.queue
           resumed == [queue EXCEPT !.cur = Follow(@, after)]
           new == IF queue.cur = None THEN queue ELSE resumed
           pick == IF back = {} THEN None ELSE held.pick
           u == SwapSpoken(t, owner, after)
<1>1. /\ Shaped(aside) /\ aside.q = t.q /\ aside.history = h /\ aside.style = t.style
      /\ AsideOf(h, alive, aside.saved)
    BY PutAsideIs
<1>2. u = [aside EXCEPT !.saved = Others(@, owner), !.digest = owner, !.pick["spoken"] = pick,
                        !.q["spoken"] = new]
    BY DEF SwapSpoken
<1>3. back # {} => held \in back
    OBVIOUS
<1>4. back # {} => held.queue \in Walkless(h, owner)
  <2> HIDE DEF held
  <2> QED
      BY <1>3, SavedIs
<1>5. \A n \in DOMAIN t.saved : t.saved[n].owner = owner => back # {} /\ held = t.saved[n]
  <2> SUFFICES ASSUME NEW n \in DOMAIN t.saved, t.saved[n].owner = owner
               PROVE  back # {} /\ held = t.saved[n]
      OBVIOUS
  <2>1. t.saved[n] \in back
      BY DEF SavedOf, Range
  <2>2. held \in back
      BY <1>3, <2>1
  <2> HIDE DEF held
  <2>3. PICK k \in DOMAIN t.saved : held = t.saved[k] /\ held.owner = owner
      BY <2>2 DEF SavedOf, Range
  <2>4. k = n
      BY <2>3 DEF Session, AsideOf
  <2> QED
      BY <2>1, <2>3, <2>4
<1>6. back # {} => \E n \in DOMAIN t.saved : held = t.saved[n]
  <2> HIDE DEF held
  <2> QED
      BY <1>3 DEF SavedOf, Range
<1> HIDE DEF held
<1>7. queue.cur # None =>
         /\ new.cur # None /\ new.cur.ref = queue.cur.ref /\ new.cur.replayOf = queue.cur.replayOf
         /\ new.user = queue.user /\ new.ctx = queue.ctx
  <2> SUFFICES ASSUME queue.cur # None
               PROVE  /\ new.cur # None /\ new.cur.ref = queue.cur.ref
                      /\ new.cur.replayOf = queue.cur.replayOf
                      /\ new.user = queue.user /\ new.ctx = queue.ctx
      OBVIOUS
  <2>1. queue \in QueueOf(h, owner)
    <3>1. back # {} /\ queue = held.queue
        BY DEF EmptyQueue
    <3> QED
        BY <1>4, <3>1 DEF Walkless
  <2> HIDE DEF queue
  <2>2. new.cur = Follow(queue.cur, after) /\ new.user = queue.user /\ new.ctx = queue.ctx
      BY <2>1 DEF QueueOf
  <2>3. queue.cur \in ItemShape
      BY <2>1 DEF QueueOf, CurOf, ItemOf
  <2> DEFINE i == queue.cur
             j == Follow(i, after)
  <2>4. after \in Marks
      BY DEF Follows, Marks
  <2>5. j \in ItemShape /\ j.ref = i.ref /\ j.replayOf = i.replayOf
    <3>1. i \in ItemShape /\ None \in Marks
        BY <2>3 DEF Marks
    <3> HIDE DEF i
    <3> QED
        BY <2>4, <3>1 DEF Follow, ItemShape
  <2>6. j # None
      BY <2>5, TapConstants
  <2> QED
      BY <2>2, <2>5, <2>6
<1>8. new.ctx = queue.ctx /\ \A ref : Awaits(queue, ref) => Awaits(new, ref)
  <2> HIDE DEF queue, resumed
  <2>1. queue.cur = None => new = queue
      OBVIOUS
  <2> HIDE DEF new
  <2> QED
      BY <1>7, <2>1 DEF Awaits
<1>9. back = {} => queue.ctx = <<>>
    BY DEF EmptyQueue
<1>10. back # {} => queue = held.queue
    OBVIOUS
<1> HIDE DEF queue, new, u, aside
<1>11. u.history = h /\ u.style = t.style /\ u.saved = Others(aside.saved, owner)
    BY <1>1, <1>2 DEF Shaped
<1>12. u.q = [t.q EXCEPT !["spoken"] = new]
    BY <1>1, <1>2 DEF Shaped
<1>13. u.q["spoken"] = new /\ u.q["music"] = t.q["music"]
    BY <1>12, QueuesAre DEF QueueTypes
<1>14. /\ \A n \in DOMAIN t.saved : \E m \in DOMAIN aside.saved : aside.saved[m] = t.saved[n]
       /\ \E m \in DOMAIN aside.saved :
             /\ aside.saved[m].owner = t.digest
             /\ \A ref : Awaits(t.q["spoken"], ref) => Awaits(aside.saved[m].queue, ref)
       /\ Contexts(t) => \A m \in DOMAIN aside.saved : aside.saved[m].queue.ctx = <<>>
    BY PutAsideWaits DEF aside
<1>15. /\ \A n \in DOMAIN aside.saved : aside.saved[n].owner # owner =>
                 \E m \in DOMAIN u.saved : u.saved[m] = aside.saved[n]
       /\ \A m \in DOMAIN u.saved : \E n \in DOMAIN aside.saved : u.saved[m] = aside.saved[n]
    BY <1>1, <1>11, OthersHold
<1>16. Contexts(t) => Contexts(u)
  <2>1. Contexts(t) => new.ctx = <<>>
      BY <1>6, <1>8, <1>9, <1>10 DEF Contexts
  <2> QED
      BY <1>11, <1>13, <1>14, <1>15, <2>1 DEF Contexts
<1>17. ASSUME NEW ref \in Refs, Awaited(t, ref)
       PROVE  Awaited(u, ref)
  <2>1. CASE Awaits(t.q["music"], ref)
      BY <1>13, <2>1 DEF Awaited, QueueTypes
  <2>2. CASE Awaits(t.q["spoken"], ref)
    <3>1. \E m \in DOMAIN u.saved : Awaits(u.saved[m].queue, ref)
        BY <1>14, <1>15, <2>2
    <3> QED
        BY <3>1 DEF Awaited
  <2>3. ASSUME NEW n \in DOMAIN t.saved, Awaits(t.saved[n].queue, ref)
        PROVE  Awaited(u, ref)
    <3>1. CASE t.saved[n].owner = owner
      <4>1. Awaits(new, ref)
          BY <1>5, <1>8, <1>10, <2>3, <3>1
      <4> QED
          BY <1>13, <4>1 DEF Awaited, QueueTypes
    <3>2. CASE t.saved[n].owner # owner
      <4>1. \E m \in DOMAIN u.saved : u.saved[m] = t.saved[n]
          BY <1>14, <1>15, <3>2
      <4> QED
          BY <2>3, <4>1 DEF Awaited
    <3> QED
        BY <3>1, <3>2
  <2> QED
      BY <1>17, <2>1, <2>2, <2>3 DEF Awaited, QueueTypes
<1>18. Len(h) <= Len(h) + 0
    BY LenProperties DEF Session, PlaysOf
<1>19. Carries(t, u, 0)
    BY <1>11, <1>16, <1>17, <1>18 DEF Carries
<1> QED
    BY <1>19 DEF u

(* The spoken queue made active.                                           *)
LEMMA OnSpokenCarries ==
    ASSUME NEW t, NEW alive, Session(t, alive)
    PROVE  /\ Carries(t, OnSpoken(t), 0)
           /\ OnSpoken(t).history = t.history /\ OnSpoken(t).style = t.style
           /\ OnSpoken(t).q = t.q /\ OnSpoken(t).saved = t.saved
<1> DEFINE u == OnSpoken(t)
<1>1. u.history = t.history /\ u.style = t.style /\ u.q = t.q /\ u.saved = t.saved
    BY DEF OnSpoken, Session, Shaped
<1> HIDE DEF u
<1>2. Carries(t, u, 0)
    BY <1>1, UnchangedCarries
<1> QED
    BY <1>1, <1>2 DEF u

(* A saved queue that comes back, and what it takes the place of.          *)
LEMMA ResumeSavedCarries ==
    ASSUME NEW t, NEW alive, Session(t, alive), NEW owner
    PROVE  Carries(t, ResumeSaved(t, owner), 0)
<1> DEFINE w == EndWalk(t, None)
           after == Followed(t, Current(t))
           u == SwapSpoken(w, owner, after)
           v == OnSpoken(u)
<1>1. ResumeSaved(t, owner) = IF SavedOf(t, owner) = {} THEN t ELSE v
    BY DEF ResumeSaved
<1>2. ASSUME SavedOf(t, owner) # {}
      PROVE  Carries(t, v, 0)
  <2>1. /\ Session(w, alive) /\ w.q["spoken"] \in Walkless(w.history, w.digest)
        /\ after \in Follows(w.history) /\ w.digest = t.digest
      BY LeftIs DEF SameElsewhere
  <2>2. Carries(t, w, 0)
      BY EndWalkCarries
  <2>3. owner \in alive /\ owner # t.digest
      BY <1>2, SavedIs
  <2> HIDE DEF w, after
  <2>4. owner # w.digest
      BY <2>1, <2>3
  <2>5. Session(u, alive) /\ Carries(w, u, 0)
      BY <2>1, <2>3, <2>4, SwapSpokenIs, SwapSpokenCarries
  <2> HIDE DEF u
  <2>6. Session(v, alive) /\ Carries(u, v, 0)
      BY <2>5, OnSpokenIs, OnSpokenCarries
  <2> HIDE DEF v
  <2>7. PlaysOf(t.history) /\ PlaysOf(w.history) /\ PlaysOf(u.history) /\ PlaysOf(v.history)
      BY <2>1, <2>5, <2>6 DEF Session
  <2>8. Carries(t, u, 0 + 0)
      BY <2>2, <2>5, <2>7, CarriesOn
  <2>9. Carries(t, v, 0 + 0)
      BY <2>6, <2>7, <2>8, CarriesOn
  <2> QED
      BY <2>9
<1>3. Carries(t, t, 0)
    BY UnchangedCarries
<1> QED
    BY <1>1, <1>2, <1>3

(* What plays now ends what was current there and the walk, and what was   *)
(* queued waits after its rest.                                            *)
LEMMA PlaysNowCarries ==
    ASSUME NEW t, NEW alive, Session(t, alive), Contexts(t),
           NEW type \in QueueTypes, NEW from \in BOOLEAN,
           NEW items \in Seq(Unwalked(t.history, OwnerOf(t, type))), items # <<>>
    PROVE  Carries(t, PlaysNow(t, type, items, from), 2)
<1> DEFINE ended == Retired(t, type)
           after == IF type = t.active THEN RetiredPlay(t, type) ELSE Followed(ended, Current(t))
           recorded == EndWalkPlay(ended, type)
           walked == EndWalk(ended, type)
           next == IF recorded = None THEN after ELSE recorded
           queue == walked.q[type]
           into == Start(queue, items[1], next)
           rest == Tail(items)
           onto == IF type = "music" /\ t.style = "spotify" /\ from
                   THEN [into EXCEPT !.ctx = rest \o @]
                   ELSE [into EXCEPT !.user = rest \o @, !.ctx = IF from THEN <<>> ELSE @]
           u == PlaysNow(t, type, items, from)
           h == walked.history
           owner == OwnerOf(t, type)
<1>1. /\ Session(ended, alive) /\ GoesOn(t.history, ended.history) /\ SameElsewhere(ended, t)
      /\ ended.q[type] = Cleared(t.q[type])
      /\ Carries(t, ended, 1)
    BY RetiredIs, RetiredCarries
<1>2. /\ Session(walked, alive) /\ GoesOn(ended.history, h) /\ SameElsewhere(walked, ended)
      /\ \A other \in QueueTypes : walked.q[other].cur = ended.q[other].cur
      /\ Carries(ended, walked, 1)
    BY <1>1, WalkEnded, EndWalkCarries
<1>3. Session(u, alive)
    BY PlaysNowIs
<1>4. u = [walked EXCEPT !.q[type] = onto, !.active = type, !.switch = IF @ = type THEN None ELSE @]
    BY DEF PlaysNow
<1> HIDE DEF ended, after, recorded, walked, u
<1>5. PlaysOf(t.history) /\ PlaysOf(ended.history) /\ PlaysOf(walked.history) /\ PlaysOf(u.history)
    BY <1>1, <1>2, <1>3 DEF Session
<1>6. Carries(t, walked, 1 + 1)
    BY <1>1, <1>2, <1>5, CarriesOn
<1>7. owner = OwnerOf(walked, type) /\ walked.style = t.style
    BY <1>1, <1>2 DEF SameElsewhere, OwnerOf
<1>8. /\ queue \in QueueOf(h, owner) /\ queue.user \in Seq(ItemOf(h, owner))
      /\ queue.ctx \in Seq(Unwalked(h, None)) /\ queue.cur = None
  <2>1. queue \in QueueOf(h, owner)
      BY <1>2, <1>7, QueuesAre
  <2>2. t.q[type] \in QueueOf(t.history, owner)
      BY QueuesAre
  <2>3. Cleared(t.q[type]).cur = None
      BY <2>2, Requeued
  <2> QED
      BY <1>1, <1>2, <2>1, <2>3 DEF QueueOf
<1>9. rest \in Seq(Unwalked(h, owner))
  <2>1. Unwalked(t.history, owner) \subseteq Unwalked(ended.history, owner)
      BY <1>1, ItemsGoOn
  <2>2. Unwalked(ended.history, owner) \subseteq Unwalked(h, owner)
      BY <1>2, ItemsGoOn
  <2>3. Unwalked(t.history, owner) \subseteq Unwalked(h, owner)
      BY <2>1, <2>2
  <2>4. items \in Seq(Unwalked(h, owner))
      BY <2>3, SeqMonotonic
  <2> QED
      BY <2>4, HeadTailProperties
<1>10. Contexts(walked)
    BY <1>6 DEF Carries
<1> HIDE DEF rest, next, h
<1>11. into.user = queue.user /\ into.ctx = queue.ctx /\ into = [into EXCEPT !.user = into.user]
       /\ DOMAIN into = {"cur", "pos", "user", "ctx"}
    BY <1>8 DEF Start, QueueOf
<1> HIDE DEF into
<1>12. /\ \A ref \in Refs : Awaits(queue, ref) => Awaits(onto, ref)
       /\ onto.ctx = <<>> \/ onto.ctx = queue.ctx
          \/ (type = "music" /\ t.style = "spotify")
  <2>1. CASE type = "music" /\ t.style = "spotify" /\ from
    <3> DEFINE ctx == rest \o queue.ctx
    <3>1. owner = None
        BY <2>1 DEF OwnerOf
    <3>2. \A ref : Due(queue.ctx, ref) => Due(ctx, ref)
      <4> HIDE DEF queue, owner
      <4> QED
        BY <1>8, <1>9, <3>1, DueJoined
    <3> HIDE DEF ctx
    <3>3. onto.ctx = ctx /\ onto.user = queue.user
      <4>1. onto = [into EXCEPT !.ctx = ctx]
          BY <1>11, <2>1 DEF ctx
      <4> HIDE DEF onto, queue
      <4> QED
          BY <1>11, <4>1
    <3> HIDE DEF onto, queue
    <3> QED
        BY <1>8, <2>1, <3>2, <3>3 DEF Awaits
  <2>2. CASE ~(type = "music" /\ t.style = "spotify" /\ from)
    <3> DEFINE user == rest \o queue.user
               ctx == IF from THEN <<>> ELSE queue.ctx
    <3>1. \A ref : Due(queue.user, ref) => Due(user, ref)
      <4>1. rest \in Seq(ItemOf(h, owner))
          BY <1>9, UnwalkedMarked
      <4> HIDE DEF queue, owner
      <4> QED
        BY <1>8, <4>1, DueJoined
    <3>2. from => queue.ctx = <<>>
      <4>1. t.style \in {"spotify", "youtube"}
          BY DEF Session
      <4> QED
          BY <1>7, <1>10, <2>2, <4>1 DEF Contexts, QueueTypes
    <3>3. ctx = queue.ctx
        BY <3>2
    <3> HIDE DEF user, ctx
    <3>4. onto.ctx = queue.ctx /\ onto.user = user
      <4>1. onto = [into EXCEPT !.user = user, !.ctx = ctx]
          BY <1>11, <2>2 DEF user, ctx
      <4> HIDE DEF onto, queue
      <4> QED
          BY <1>11, <3>3, <4>1
    <3> HIDE DEF onto, queue
    <3> QED
        BY <1>8, <3>1, <3>4 DEF Awaits
  <2> QED
      BY <2>1, <2>2
<1> HIDE DEF onto
<1>13. /\ u.style = walked.style /\ u.history = walked.history /\ u.saved = walked.saved
       /\ u.q = [walked.q EXCEPT ![type] = onto]
    BY <1>2, <1>4 DEF Session, Shaped
<1>14. u.q[type] = onto /\ \A other \in QueueTypes \ {type} : u.q[other] = walked.q[other]
    BY <1>2, <1>13, QueuesAre
<1>15. Carries(walked, u, 0)
  <2>1. Contexts(u)
      BY <1>7, <1>10, <1>12, <1>13, <1>14 DEF Contexts, QueueTypes
  <2>2. \A ref \in Refs : Awaited(walked, ref) => Awaited(u, ref)
      BY <1>12, <1>13, <1>14 DEF Awaited
  <2>3. Len(walked.history) <= Len(walked.history) + 0
      BY <1>5, LenProperties DEF PlaysOf
  <2> QED
      BY <1>13, <2>1, <2>2, <2>3 DEF Carries
<1>16. Carries(t, u, (1 + 1) + 0)
    BY <1>5, <1>6, <1>15, CarriesOn
<1> QED
    BY <1>16 DEF u

(* Play now, back in your own queue first where a digest's holds none.     *)
LEMMA AddNowCarries ==
    ASSUME NEW t, NEW alive, Session(t, alive), Contexts(t), None \in alive,
           NEW type \in QueueTypes, NEW from \in BOOLEAN,
           NEW items \in Seq(Unwalked(t.history, OwnerOf(t, type))), items # <<>>,
           Holds(t.q[type], {items[i].ref : i \in DOMAIN items})
              \/ items \in Seq(Unwalked(t.history, None))
    PROVE  Carries(t, AddNow(t, type, items, from), 2)
<1> DEFINE leaves == type = "spoken" /\ t.digest # None
                     /\ ~Holds(t.q[type], {items[i].ref : i \in DOMAIN items})
           w == EndWalk(t, None)
           after == Followed(t, Current(t))
           own == SwapSpoken(w, None, after)
           v == IF leaves THEN own ELSE t
           u == PlaysNow(v, type, items, from)
<1>1. AddNow(t, type, items, from) = u
    BY DEF AddNow, PlaysNow
<1>2. CASE leaves
  <2>1. /\ Session(w, alive) /\ w.q["spoken"] \in Walkless(w.history, w.digest)
        /\ after \in Follows(w.history) /\ GoesOn(t.history, w.history) /\ w.digest = t.digest
      BY LeftIs DEF SameElsewhere
  <2>2. Carries(t, w, 0)
      BY EndWalkCarries
  <2> HIDE DEF w, after
  <2>3. None # w.digest
      BY <1>2, <2>1
  <2>4. Session(own, alive) /\ own.history = w.history /\ own.digest = None /\ Carries(w, own, 0)
      BY <2>1, <2>3, SwapSpokenIs, SwapSpokenCarries
  <2>5. Unwalked(t.history, None) \subseteq Unwalked(own.history, None)
      BY <2>1, <2>4, ItemsGoOn
  <2>6. items \in Seq(Unwalked(own.history, None))
      BY <1>2, <2>5, SeqMonotonic
  <2>7. OwnerOf(own, type) = None
      BY <2>4 DEF OwnerOf
  <2> HIDE DEF own
  <2>8. PlaysOf(t.history) /\ PlaysOf(w.history) /\ PlaysOf(own.history)
      BY <2>1, <2>4 DEF Session
  <2>9. Carries(t, own, 0 + 0)
      BY <2>2, <2>4, <2>8, CarriesOn
  <2>10. Contexts(own)
      BY <2>9 DEF Carries
  <2> DEFINE now == PlaysNow(own, type, items, from)
  <2>11. Session(now, alive) /\ Carries(own, now, 2)
      BY <2>4, <2>6, <2>7, <2>10, PlaysNowIs, PlaysNowCarries
  <2> HIDE DEF now
  <2>12. PlaysOf(now.history)
      BY <2>11 DEF Session
  <2>13. Carries(t, now, (0 + 0) + 2)
      BY <2>8, <2>9, <2>11, <2>12, CarriesOn
  <2> QED
      BY <1>1, <1>2, <2>13 DEF now
<1>3. CASE ~leaves
    BY <1>1, <1>3, PlaysNowCarries
<1> QED
    BY <1>2, <1>3

(* Fewer plays than allowed may be recorded.                               *)
LEMMA CarriesMore ==
    ASSUME NEW t, NEW alive, Session(t, alive), NEW u, NEW among, Session(u, among),
           NEW m \in Nat, NEW n \in Nat, m <= n, Carries(t, u, m)
    PROVE  Carries(t, u, n)
<1> DEFINE a == Len(t.history)
           b == Len(u.history)
<1>1. a \in Nat /\ b \in Nat
    BY LenProperties DEF Session, PlaysOf
<1>2. b <= a + m
    BY DEF Carries
<1> HIDE DEF a, b
<1>3. b <= a + n
    BY <1>1, <1>2
<1> QED
    BY <1>3 DEF Carries, a, b

(* Whatever is added, and however.                                         *)
LEMMA AddCarries ==
    ASSUME NEW t, NEW alive, Session(t, alive), Contexts(t), None \in alive,
           NEW thing \in Things, NEW how \in {"next", "end", "now"}
    PROVE  Carries(t, Add(t, thing, how), 2)
<1> DEFINE type == QueueFor(thing.kind)
           items == ItemsOf(t, thing)
           owner == OwnerOf(t, type)
           user == t.q[type].user
           line == user \o items
<1>1. /\ type \in QueueTypes /\ items # <<>> /\ items \in Seq(Unwalked(t.history, owner))
      /\ \/ Holds(t.q[type], {items[i].ref : i \in DOMAIN items})
         \/ items \in Seq(Unwalked(t.history, None))
    BY ItemsAre
<1>2. Add(t, thing, how) =
          CASE how = "end" -> [t EXCEPT !.q[type].user = line]
            [] how = "next" -> AddNext(t, type, items)
            [] how = "now" -> AddNow(t, type, items, thing.from)
    BY DEF Add, ItemsOf
<1> HIDE DEF items, type
<1>3. \A v : v = Add(t, thing, how) /\ Carries(t, v, 0) => Carries(t, v, 2)
    BY AddIs, CarriesMore
<1>4. CASE how = "end"
  <2>1. /\ items \in Seq(ItemOf(t.history, OwnerOf(t, type)))
        /\ line \in {items \o t.q[type].user, t.q[type].user \o items}
      BY <1>1, UnwalkedMarked
  <2> HIDE DEF line
  <2>2. Carries(t, [t EXCEPT !.q[type].user = line], 0)
      BY <1>1, <2>1, EnteredCarries
  <2> QED
      BY <1>2, <1>3, <1>4, <2>2
<1>5. CASE how = "next"
  <2>1. Carries(t, AddNext(t, type, items), 0)
      BY <1>1, AddNextCarries
  <2> QED
      BY <1>2, <1>3, <1>5, <2>1
<1>6. CASE how = "now"
  <2>1. thing.from \in BOOLEAN
      BY TapConstants
  <2>2. Carries(t, AddNow(t, type, items, thing.from), 2)
      BY <1>1, <2>1, AddNowCarries
  <2> QED
      BY <1>2, <1>6, <2>2
<1> QED
    BY <1>4, <1>5, <1>6

(* A play now of a thing.                                                  *)
LEMMA PlayedNowCarries ==
    ASSUME NEW t, NEW alive, Session(t, alive), Contexts(t), None \in alive,
           NEW thing \in Things, NEW finished
    PROVE  Carries(t, PlayedNow(t, thing, finished), 2)
<1> DEFINE refs == Range(thing.entries)
           one == Resumable(t, refs)[1].owner
           next == ResumableNext(t, refs)[1].owner
           r == ResumeSaved(t, next)
           u == StepNext(r)
<1>1. PlayedNow(t, thing, finished) =
          IF Resumable(t, refs) # <<>> THEN ResumeSaved(t, one)
          ELSE IF finished /\ ResumableNext(t, refs) # <<>> THEN u
          ELSE Add(t, thing, "now")
    BY DEF PlayedNow
<1> HIDE DEF one, next
<1>2. Session(ResumeSaved(t, one), alive) /\ Carries(t, ResumeSaved(t, one), 0)
    BY ResumeSavedIs, ResumeSavedCarries
<1>3. Carries(t, ResumeSaved(t, one), 2)
    BY <1>2, CarriesMore
<1>4. Session(r, alive) /\ Carries(t, r, 0)
    BY ResumeSavedIs, ResumeSavedCarries
<1> HIDE DEF r
<1>5. Session(u, alive) /\ Carries(r, u, 1)
    BY <1>4, StepNextIs, StepNextCarries
<1> HIDE DEF u
<1>6. PlaysOf(t.history) /\ PlaysOf(r.history) /\ PlaysOf(u.history)
    BY <1>4, <1>5 DEF Session
<1>7. Carries(t, u, 0 + 1)
    BY <1>4, <1>5, <1>6, CarriesOn
<1>8. Carries(t, u, 2)
    BY <1>5, <1>7, CarriesMore
<1>9. Carries(t, Add(t, thing, "now"), 2)
    BY AddCarries
<1> QED
    BY <1>1, <1>3, <1>8, <1>9

(* A report of where the device is in a queue's current item.              *)
LEMMA ListenedCarries ==
    ASSUME NEW t, NEW alive, Session(t, alive), NEW type \in QueueTypes, NEW pos
    PROVE  Carries(t, [t EXCEPT !.q[type].pos = pos], 0)
<1> DEFINE queue == t.q[type]
           new == [queue EXCEPT !.pos = pos]
           u == [t EXCEPT !.q[type].pos = pos]
<1>1. queue \in QueueOf(t.history, OwnerOf(t, type))
    BY QueuesAre
<1>2. new.cur = queue.cur /\ new.user = queue.user /\ new.ctx = queue.ctx
    BY <1>1 DEF QueueOf
<1>3. u = [t EXCEPT !.q[type] = new]
    BY DEF Session, Shaped
<1> HIDE DEF new, u
<1>4. /\ u.history = t.history /\ u.saved = t.saved /\ u.style = t.style
      /\ u.q = [t.q EXCEPT ![type] = new]
    BY <1>3 DEF Session, Shaped
<1>5. \A ref \in Refs : Awaits(t.q[type], ref) => Awaits(new, ref)
    BY <1>2 DEF Awaits
<1>6. Carries(t, u, 0)
    BY <1>2, <1>4, <1>5, OneCarries
<1> QED
    BY <1>6 DEF u

(* The spoken queue without what follows its entries, which is nothing.    *)
LEMMA ContextDroppedCarries ==
    ASSUME NEW t, NEW alive, Session(t, alive), Contexts(t)
    PROVE  Carries(t, [t EXCEPT !.q["spoken"].ctx = <<>>], 0)
<1> DEFINE queue == t.q["spoken"]
           new == [queue EXCEPT !.ctx = <<>>]
           u == [t EXCEPT !.q["spoken"].ctx = <<>>]
<1>1. queue \in QueueOf(t.history, OwnerOf(t, "spoken")) /\ "spoken" \in QueueTypes
    BY QueuesAre DEF QueueTypes
<1>2. new.cur = queue.cur /\ new.user = queue.user /\ new.ctx = queue.ctx
    BY <1>1 DEF QueueOf, Contexts
<1>3. u = [t EXCEPT !.q["spoken"] = new]
    BY DEF Session, Shaped
<1> HIDE DEF new, u
<1>4. /\ u.history = t.history /\ u.saved = t.saved /\ u.style = t.style
      /\ u.q = [t.q EXCEPT !["spoken"] = new]
    BY <1>3 DEF Session, Shaped
<1>5. \A ref \in Refs : Awaits(t.q["spoken"], ref) => Awaits(new, ref)
    BY <1>2 DEF Awaits
<1>6. Carries(t, u, 0)
    BY <1>1, <1>2, <1>4, <1>5, OneCarries
<1> QED
    BY <1>6 DEF u

(* A list played: what is added, and no context after it.                  *)
LEMMA PlayListCarries ==
    ASSUME NEW t, NEW alive, Session(t, alive), Contexts(t), None \in alive,
           NEW thing \in Things, QueueFor(thing.kind) = "spoken"
    PROVE  LET a == Add(t, thing, "now")
               u == [a EXCEPT !.q["spoken"].ctx = <<>>]
               v == [a EXCEPT !.q["spoken"].ctx = <<>>, !.q["spoken"].pos = a.q["spoken"].cur.ref]
           IN  /\ Session(u, alive) /\ Carries(t, u, 2)
               /\ Session(v, alive) /\ Carries(t, v, 2)
<1> DEFINE a == Add(t, thing, "now")
           u == [a EXCEPT !.q["spoken"].ctx = <<>>]
           v == [a EXCEPT !.q["spoken"].ctx = <<>>, !.q["spoken"].pos = a.q["spoken"].cur.ref]
           w == [u EXCEPT !.q["spoken"].pos = u.q["spoken"].cur.ref]
<1>1. Session(a, alive) /\ a.q["spoken"].cur # None /\ "spoken" \in QueueTypes
    BY AddIs
<1>2. Carries(t, a, 2)
    BY AddCarries
<1>3. v = [u EXCEPT !.q["spoken"].pos = a.q["spoken"].cur.ref]
    OBVIOUS
<1> HIDE DEF a
<1>4. Contexts(a)
    BY <1>2 DEF Carries
<1>5. Session(u, alive) /\ u.q["spoken"].cur = a.q["spoken"].cur /\ Carries(a, u, 0)
    BY <1>1, <1>4, ContextDropped, ContextDroppedCarries
<1>6. v = w
    BY <1>3, <1>5
<1> HIDE DEF u, v
<1>7. Session(w, alive) /\ Carries(u, w, 0)
    BY <1>1, <1>5, ListenedIs, ListenedCarries
<1> HIDE DEF w
<1>8. PlaysOf(t.history) /\ PlaysOf(a.history) /\ PlaysOf(u.history) /\ PlaysOf(w.history)
    BY <1>1, <1>5, <1>7 DEF Session
<1>9. Carries(t, u, 2 + 0)
    BY <1>2, <1>5, <1>8, CarriesOn
<1>10. Carries(t, w, (2 + 0) + 0)
    BY <1>7, <1>8, <1>9, CarriesOn
<1> QED
    BY <1>5, <1>6, <1>7, <1>9, <1>10 DEF a, u, v

(* A digest that plays in a queue of its own: only what that queue held    *)
(* before may no longer wait.                                              *)
LEMMA EnterDigestLeaves ==
    ASSUME NEW t, NEW alive, Session(t, alive), NEW digest \in DOMAIN Digests, digest \in alive,
           NEW episodes \in Digests[digest], NEW start \in Range(episodes) \cup {None}
    PROVE  LET u == EnterDigest(t, digest, episodes, start)
               left == IF t.digest = digest THEN {t.q["spoken"]}
                       ELSE {q.queue : q \in SavedOf(t, digest)}
           IN  /\ u.history = t.history
               /\ Contexts(t) => Contexts(u)
               /\ \A ref \in Refs : Awaited(t, ref) =>
                     Awaited(u, ref) \/ \E queue \in left : Awaits(queue, ref)
<1> DEFINE left == IF t.digest = digest THEN {t.q["spoken"]}
                   ELSE {q.queue : q \in SavedOf(t, digest)}
           one == CHOOSE q \in left : TRUE
           was == IF left = {} THEN None ELSE one.cur
           first == IF start # None THEN start
                    ELSE IF was = None THEN episodes[1]
                    ELSE IF was.ref \in Range(episodes) THEN was.ref ELSE episodes[1]
           same == IF was = None THEN FALSE ELSE was.ref = first
           Listed(ref) == [Item(ref) EXCEPT !.list = digest]
           rest == Only(episodes, Range(episodes) \ {first})
           w == EndWalk(t, None)
           aside == IF t.digest = digest THEN w ELSE PutAside(w)
           after == Followed(t, Current(t))
           others == Others(aside.saved, digest)
           line == [n \in DOMAIN rest |-> Listed(rest[n])]
           cur == Follow(Listed(first), after)
           pos == IF same THEN one.pos ELSE None
           new == [cur |-> cur, pos |-> pos, user |-> line, ctx |-> <<>>]
           u == [aside EXCEPT !.saved = others, !.digest = digest,
                              !.pick["spoken"] = None, !.q["spoken"] = new]
           v == OnSpoken(u)
<1>1. EnterDigest(t, digest, episodes, start) = v
    BY DEF EnterDigest
<1>2. /\ Session(w, alive) /\ w.q["spoken"] \in Walkless(w.history, w.digest)
      /\ w.saved = t.saved /\ w.digest = t.digest /\ w.style = t.style
    BY LeftIs DEF SameElsewhere
<1>3. /\ w.history = t.history /\ SameContexts(t, w)
      /\ \A type \in QueueTypes : \A ref \in Refs : Awaits(t.q[type], ref) => Awaits(w.q[type], ref)
    BY EndWalkCarries
<1>4. new.ctx = <<>>
    OBVIOUS
<1> HIDE DEF w, new
<1>5. /\ Shaped(aside) /\ aside.style = w.style /\ aside.q = w.q /\ aside.history = w.history
      /\ AsideOf(w.history, alive, aside.saved)
  <2>1. CASE t.digest = digest
    <3>1. Shaped(w) /\ AsideOf(w.history, alive \ {w.digest}, w.saved)
        BY <1>2 DEF Session
    <3>2. AsideOf(w.history, alive, w.saved)
        BY <3>1 DEF AsideOf
    <3> QED
        BY <2>1, <3>1, <3>2
  <2>2. CASE t.digest # digest
      BY <1>2, <2>2, PutAsideIs
  <2> QED
      BY <2>1, <2>2
<1>6. /\ \A n \in DOMAIN t.saved : \E m \in DOMAIN aside.saved : aside.saved[m] = t.saved[n]
      /\ t.digest # digest =>
            \E m \in DOMAIN aside.saved :
               /\ aside.saved[m].owner = t.digest
               /\ \A ref : Awaits(w.q["spoken"], ref) => Awaits(aside.saved[m].queue, ref)
      /\ Contexts(w) => \A m \in DOMAIN aside.saved : aside.saved[m].queue.ctx = <<>>
  <2>1. CASE t.digest = digest
      BY <1>2, <2>1 DEF Contexts
  <2>2. CASE t.digest # digest
      BY <1>2, <2>2, PutAsideWaits
  <2> QED
      BY <2>1, <2>2
<1> HIDE DEF aside, left, u
<1>7. /\ Shaped(u) /\ u.style = t.style /\ u.history = t.history /\ u.saved = others
      /\ u.q = [w.q EXCEPT !["spoken"] = new]
    BY <1>2, <1>3, <1>5 DEF Shaped, u
<1> HIDE DEF others
<1>8. v.history = t.history /\ v.style = t.style /\ v.q = u.q /\ v.saved = others
  <2>1. v = [u EXCEPT !.active = "spoken", !.switch = IF u.switch = "spoken" THEN None ELSE u.switch]
      BY DEF OnSpoken
  <2> HIDE DEF v
  <2> QED
      BY <1>7, <2>1 DEF Shaped
<1> HIDE DEF v
<1>9. v.q["spoken"] = new /\ v.q["music"] = w.q["music"]
    BY <1>2, <1>7, <1>8, QueuesAre DEF QueueTypes
<1>10. /\ \A n \in DOMAIN aside.saved : aside.saved[n].owner # digest =>
                 \E m \in DOMAIN others : others[m] = aside.saved[n]
       /\ \A m \in DOMAIN others : \E n \in DOMAIN aside.saved : others[m] = aside.saved[n]
    BY <1>5, OthersHold DEF others
<1>11. Contexts(t) => Contexts(v)
  <2>1. Contexts(t) => Contexts(w)
      BY <1>3 DEF Contexts, SameContexts, QueueTypes
  <2> QED
      BY <1>2, <1>4, <1>6, <1>8, <1>9, <1>10, <2>1 DEF Contexts
<1>12. ASSUME NEW ref \in Refs, Awaited(t, ref)
       PROVE  Awaited(v, ref) \/ \E queue \in left : Awaits(queue, ref)
  <2>1. CASE Awaits(t.q["music"], ref)
      BY <1>3, <1>9, <2>1 DEF Awaited, QueueTypes
  <2>2. CASE Awaits(t.q["spoken"], ref)
    <3>1. CASE t.digest = digest
        BY <2>2, <3>1 DEF left
    <3>2. CASE t.digest # digest
      <4>1. Awaits(w.q["spoken"], ref)
          BY <1>3, <2>2 DEF QueueTypes
      <4>2. \E m \in DOMAIN others : Awaits(others[m].queue, ref)
          BY <1>6, <1>10, <3>2, <4>1
      <4> QED
          BY <1>8, <4>2 DEF Awaited
    <3> QED
        BY <3>1, <3>2
  <2>3. ASSUME NEW n \in DOMAIN t.saved, Awaits(t.saved[n].queue, ref)
        PROVE  Awaited(v, ref) \/ \E queue \in left : Awaits(queue, ref)
    <3>1. CASE t.saved[n].owner = digest
      <4>1. t.saved[n].owner # t.digest
          BY DEF Session, AsideOf
      <4>2. t.saved[n] \in SavedOf(t, digest)
          BY <3>1 DEF SavedOf, Range
      <4> QED
          BY <2>3, <3>1, <4>1, <4>2 DEF left
    <3>2. CASE t.saved[n].owner # digest
      <4>1. \E m \in DOMAIN others : others[m] = t.saved[n]
          BY <1>6, <1>10, <3>2
      <4> QED
          BY <1>8, <2>3, <4>1 DEF Awaited
    <3> QED
        BY <3>1, <3>2
  <2> QED
      BY <1>12, <2>1, <2>2, <2>3 DEF Awaited, QueueTypes
<1> QED
    BY <1>1, <1>8, <1>11, <1>12 DEF left

(* A digest's item that becomes nobody's waits as it did.                  *)
LEMMA OwnQueueAwaits ==
    ASSUME NEW h, NEW owner, NEW digest, NEW queue \in QueueOf(h, owner), NEW ref
    PROVE  /\ Awaits(queue, ref) => Awaits(OwnQueue(queue, digest), ref)
           /\ OwnQueue(queue, digest).ctx = queue.ctx
<1> DEFINE user == queue.user
           line == [n \in DOMAIN user |-> OwnItem(user[n], digest)]
           cur == IF queue.cur = None THEN None ELSE OwnItem(queue.cur, digest)
           new == [queue EXCEPT !.cur = cur, !.user = line]
<1>1. OwnQueue(queue, digest) = new
    BY DEF OwnQueue, OwnItem
<1>2. new.cur = cur /\ new.user = line /\ new.ctx = queue.ctx
    BY DEF QueueOf
<1>3. ASSUME NEW i \in ItemOf(h, owner)
      PROVE  /\ OwnItem(i, digest).ref = i.ref /\ OwnItem(i, digest).replayOf = i.replayOf
             /\ OwnItem(i, digest) # None
  <2>1. OwnItem(i, digest) \in ItemOf(h, IF owner = digest THEN None ELSE owner)
      BY OwnItemIs
  <2>2. OwnItem(i, digest) # None
      BY <2>1, ItemsOfNone
  <2> QED
      BY <2>2 DEF OwnItem, ItemOf, ItemShape
<1>4. queue.cur # None => queue.cur \in ItemOf(h, owner)
    BY DEF QueueOf, CurOf
<1>5. \A n \in DOMAIN user : user[n] \in ItemOf(h, owner)
    BY ElementOfSeq, LenProperties DEF QueueOf
<1>6. Due(user, ref) => Due(line, ref)
    BY <1>3, <1>5 DEF Due
<1>7. queue.cur # None => cur # None /\ cur.ref = queue.cur.ref /\ cur.replayOf = queue.cur.replayOf
    BY <1>3, <1>4
<1> HIDE DEF user, line, cur, new
<1>8. Due(queue.user, ref) => Due(new.user, ref)
    BY <1>2, <1>6 DEF user
<1> QED
    BY <1>1, <1>2, <1>7, <1>8 DEF Awaits

(* A session without a digest: only its saved queue may no longer wait, or *)
(* your own saved for it.                                                  *)
LEMMA DeletedLeaves ==
    ASSUME NEW t, NEW alive, Session(t, alive), NEW digest
    PROVE  LET u == Deleted(t, digest)
               gone == {q.queue : q \in SavedOf(t, digest) \cup
                                   (IF t.digest = digest THEN SavedOf(t, None) ELSE {})}
           IN  /\ Contexts(t) => Contexts(u)
               /\ \A ref \in Refs : Awaited(t, ref) =>
                     Awaited(u, ref) \/ \E queue \in gone : Awaits(queue, ref)
<1> DEFINE gone == {q.queue : q \in SavedOf(t, digest) \cup
                                   (IF t.digest = digest THEN SavedOf(t, None) ELSE {})}
           stay == {q \in Range(t.saved) : q.owner # digest /\ (t.digest = digest => q.owner # None)}
           kept == Only(t.saved, stay)
           Own(type) == OwnQueue(t.q[type], digest)
           u == Deleted(t, digest)
<1>1. u = [t EXCEPT !.saved = kept, !.q = [type \in QueueTypes |-> Own(type)],
                    !.digest = IF @ = digest THEN None ELSE @]
    BY DEF Deleted
<1>2. \A n \in DOMAIN t.saved : t.saved[n] \in stay \/ t.saved[n].queue \in gone
    BY DEF SavedOf, Range
<1> HIDE DEF stay, gone
<1>3. /\ \A n \in DOMAIN t.saved : t.saved[n] \in stay =>
            \E m \in DOMAIN kept : kept[m] = t.saved[n]
      /\ \A m \in DOMAIN kept : \E n \in DOMAIN t.saved : kept[m] = t.saved[n]
    BY OnlyHolds DEF Session
<1>4. \A type \in QueueTypes :
         /\ Own(type).ctx = t.q[type].ctx
         /\ \A ref : Awaits(t.q[type], ref) => Awaits(Own(type), ref)
  <2>1. \A type \in QueueTypes : t.q[type] \in QueueOf(t.history, OwnerOf(t, type))
      BY QueuesAre
  <2>2. ASSUME NEW type \in QueueTypes, NEW ref
        PROVE  Own(type).ctx = t.q[type].ctx /\ (Awaits(t.q[type], ref) => Awaits(Own(type), ref))
      BY <2>1, OwnQueueAwaits
  <2> HIDE DEF Own
  <2> QED
      BY <2>2
<1> HIDE DEF kept, Own, u
<1>5. u.saved = kept /\ u.style = t.style /\ u.q = [type \in QueueTypes |-> Own(type)]
    BY <1>1 DEF Session, Shaped
<1>6. \A type \in QueueTypes : u.q[type] = Own(type)
    BY <1>5
<1>7. Contexts(t) => Contexts(u)
    BY <1>3, <1>4, <1>5, <1>6 DEF Contexts, QueueTypes
<1>8. \A ref \in Refs : Awaited(t, ref) =>
         Awaited(u, ref) \/ \E queue \in gone : Awaits(queue, ref)
    BY <1>2, <1>3, <1>4, <1>5, <1>6 DEF Awaited
<1> QED
    BY <1>7, <1>8 DEF u, gone

(* What is saved of a session that lost nothing.                           *)
LEMMA SaveCarries ==
    ASSUME IInv, Contexts(s), NEW u, Session(u, lists \cup {None}), Carries(s, u, 2), Save(u)
    PROVE  /\ Contexts(s')
           /\ \A ref \in Refs : Waiting(s, ref) => Waiting(s', ref) \/ Plays(s'.history, ref) # {}
<1> DEFINE alive == lists \cup {None}
<1>1. Session(s, alive) /\ s' = Stored(u)
    BY DEF IInv, Save
<1>2. Session(s', alive)
    BY <1>1, StoredIs
<1>3. 2 \in Nat /\ 2 <= Kept
    BY EngineConstants
<1>4. \A ref \in Refs : Awaited(s, ref) => Awaited(s', ref) \/ Plays(s'.history, ref) # {}
    BY <1>1, <1>3, StoredCarries
<1>5. \A ref : Waiting(s, ref) <=> Awaited(s, ref)
    BY <1>1, AwaitedIs
<1>6. \A ref : Waiting(s', ref) <=> Awaited(s', ref)
    BY <1>2, AwaitedIs
<1>7. Contexts(s')
  <2>1. Contexts(u)
      BY DEF Carries
  <2>2. Stored(u).q = u.q /\ Stored(u).saved = u.saved /\ Stored(u).style = u.style
      BY DEF Stored, Session, Shaped
  <2> QED
      BY <1>1, <2>1, <2>2 DEF Contexts
<1> QED
    BY <1>4, <1>5, <1>6, <1>7

(* Every tap but a digest's play and its deletion loses nothing.           *)
LEMMA TapsCarry ==
    ASSUME IInv, Contexts(s), Next,
           ~ \E d \in DOMAIN Digests : \E rows \in Digests[d] : \E start \in Refs \cup {None} :
                PlayDigest(d, rows, start),
           ~ \E d \in DOMAIN Digests : DeleteList(d)
    PROVE  /\ Contexts(s')
           /\ \A ref \in Refs : Waiting(s, ref) => Waiting(s', ref) \/ Plays(s'.history, ref) # {}
<1> DEFINE alive == lists \cup {None}
           Lossless == /\ Contexts(s')
                       /\ \A ref \in Refs :
                             Waiting(s, ref) => Waiting(s', ref) \/ Plays(s'.history, ref) # {}
<1>1. Session(s, alive) /\ None \in alive
    BY DEF IInv
<1>2. ASSUME NEW u, Session(u, alive), Carries(s, u, 2), Save(u)
      PROVE  Lossless
    BY <1>2, SaveCarries
<1> HIDE DEF Lossless
<1>3. ASSUME NEW thing \in Things, NEW how \in {"next", "end"}, AddToQueue(thing, how)
      PROVE  Lossless
  <2>1. Session(Add(s, thing, how), alive) /\ Carries(s, Add(s, thing, how), 2)
      BY <1>1, AddIs, AddCarries
  <2> QED
      BY <1>2, <1>3, <2>1 DEF AddToQueue
<1>4. ASSUME NEW thing \in Things, NEW finished \in BOOLEAN, PlayNow(thing, finished)
      PROVE  Lossless
  <2>1. /\ Session(PlayedNow(s, thing, finished), alive)
        /\ Carries(s, PlayedNow(s, thing, finished), 2)
      BY <1>1, PlayedNowIs, PlayedNowCarries
  <2> QED
      BY <1>2, <1>4, <2>1 DEF PlayNow
<1>5. ASSUME NEW thing \in Things, PlayList(thing)
      PROVE  Lossless
  <2> DEFINE t == Add(s, thing, "now")
             u == [t EXCEPT !.q["spoken"].ctx = <<>>]
             v == [t EXCEPT !.q["spoken"].ctx = <<>>, !.q["spoken"].pos = t.q["spoken"].cur.ref]
  <2>1. QueueFor(thing.kind) = "spoken" /\ (Save(u) \/ Save(v))
      BY <1>5 DEF PlayList
  <2>2. Session(u, alive) /\ Carries(s, u, 2) /\ Session(v, alive) /\ Carries(s, v, 2)
      BY <1>1, <2>1, PlayListCarries
  <2> HIDE DEF u, v
  <2> QED
      BY <1>2, <2>1, <2>2
<1>6. CASE Next_
  <2>1. Session(StepNext(s), alive) /\ Carries(s, StepNext(s), 1)
      BY <1>1, StepNextIs, StepNextCarries
  <2>2. Carries(s, StepNext(s), 2)
      BY <1>1, <2>1, CarriesMore
  <2> QED
      BY <1>2, <1>6, <2>1, <2>2 DEF Next_, Lossless
<1>7. CASE Back
  <2>1. Session(StepBack(s), alive) /\ Carries(s, StepBack(s), 0)
      BY <1>1, StepBackIs, StepBackCarries
  <2>2. Carries(s, StepBack(s), 2)
      BY <1>1, <2>1, CarriesMore
  <2> QED
      BY <1>2, <1>7, <2>1, <2>2 DEF Back, Lossless
<1>8. ASSUME NEW type \in QueueTypes, SetActive(type)
      PROVE  Lossless
  <2>1. Session(SwitchTo(s, type), alive) /\ Carries(s, SwitchTo(s, type), 0)
      BY <1>1, SwitchToIs, SwitchToCarries
  <2>2. Carries(s, SwitchTo(s, type), 2)
      BY <1>1, <2>1, CarriesMore
  <2> QED
      BY <1>2, <1>8, <2>1, <2>2 DEF SetActive
<1>9. ASSUME NEW style \in {"spotify", "youtube"}, Restyle(style)
      PROVE  Lossless
  <2>1. Session(SetQueueStyle(s, style), alive) /\ Carries(s, SetQueueStyle(s, style), 0)
      BY <1>1, SetQueueStyleIs, SetQueueStyleCarries
  <2>2. Carries(s, SetQueueStyle(s, style), 2)
      BY <1>1, <2>1, CarriesMore
  <2> QED
      BY <1>2, <1>9, <2>1, <2>2 DEF Restyle
<1>10. ASSUME NEW type \in QueueTypes, Listen(type)
       PROVE  Lossless
  <2> DEFINE u == [s EXCEPT !.q[type].pos = s.q[type].cur.ref]
  <2>1. s' = u /\ s.q[type].cur # None
      BY <1>10 DEF Listen
  <2>2. Session(u, alive) /\ Carries(s, u, 0)
      BY <1>1, <2>1, ListenedIs, ListenedCarries
  <2>3. u.history = s.history
      BY <1>1 DEF Session, Shaped
  <2> HIDE DEF u
  <2>4. \A ref \in Refs : Awaited(s, ref) => Awaited(u, ref)
    <3>1. \A ref : ~PlayedSince(s.history, s.history, ref)
      <4>1. Len(s.history) \in Nat
          BY <1>1, LenProperties DEF Session, PlaysOf
      <4>2. (Len(s.history) + 1)..Len(s.history) = {}
          BY <4>1
      <4> QED
          BY <4>2 DEF PlayedSince
    <3> QED
        BY <2>2, <2>3, <3>1 DEF Carries
  <2>5. \A ref : (Waiting(s, ref) <=> Awaited(s, ref)) /\ (Waiting(u, ref) <=> Awaited(u, ref))
      BY <1>1, <2>2, AwaitedIs
  <2>6. Contexts(u)
      BY <2>2 DEF Carries
  <2> QED
      BY <2>1, <2>4, <2>5, <2>6 DEF Lossless
<1> QED
    BY <1>3, <1>4, <1>5, <1>6, <1>7, <1>8, <1>9, <1>10 DEF Next, Lossless

(* A digest that plays loses what its own queue held, if anything.         *)
LEMMA DigestCarries ==
    ASSUME IInv, Contexts(s), NEW digest \in DOMAIN Digests, NEW rows \in Digests[digest],
           NEW start \in Refs \cup {None}, PlayDigest(digest, rows, start)
    PROVE  /\ Contexts(s') /\ digest \in lists
           /\ \A ref \in Refs : Waiting(s, ref) =>
                 Waiting(s', ref) \/ \E queue \in Rebuilt(digest) : Waits(queue, ref) # {}
<1> DEFINE alive == lists \cup {None}
           u == EnterDigest(s, digest, rows, start)
<1>1. Session(s, alive)
    BY DEF IInv
<1>2. digest \in lists /\ digest \in alive /\ start \in Range(rows) \cup {None} /\ s' = Stored(u)
    BY DEF PlayDigest, Save
<1>3. Session(u, alive) /\ Session(Stored(u), alive)
    BY <1>1, <1>2, EnterDigestIs, StoredIs
<1>4. /\ Contexts(u)
      /\ \A ref \in Refs : Awaited(s, ref) =>
            Awaited(u, ref) \/ \E queue \in Rebuilt(digest) : Awaits(queue, ref)
    BY <1>1, <1>2, EnterDigestLeaves DEF Rebuilt
<1> HIDE DEF u
<1>5. Stored(u).q = u.q /\ Stored(u).saved = u.saved /\ Stored(u).style = u.style
    BY <1>3 DEF Stored, Session, Shaped
<1>6. Contexts(s') /\ \A ref : Awaited(u, ref) => Awaited(s', ref)
    BY <1>2, <1>4, <1>5 DEF Contexts, Awaited
<1>7. \A ref : (Waiting(s, ref) <=> Awaited(s, ref)) /\ (Waiting(s', ref) <=> Awaited(s', ref))
    BY <1>1, <1>2, <1>3, AwaitedIs
<1>8. \A queue \in Rebuilt(digest) : \A ref : Awaits(queue, ref) => Waits(queue, ref) # {}
  <2>1. \A queue \in Rebuilt(digest) : \E owner : queue \in QueueOf(s.history, owner)
    <3>1. s.q["spoken"] \in QueueOf(s.history, OwnerOf(s, "spoken"))
        BY <1>1, QueuesAre DEF QueueTypes
    <3>2. \A q \in SavedOf(s, digest) : q.queue \in QueueOf(s.history, digest)
        BY <1>1, SavedIs DEF Walkless
    <3> QED
        BY <3>1, <3>2 DEF Rebuilt
  <2> QED
      BY <2>1, AwaitsIs
<1> QED
    BY <1>2, <1>4, <1>6, <1>7, <1>8

(* A digest deleted loses what is saved of it, or was saved for it.        *)
LEMMA DeleteCarries ==
    ASSUME IInv, Contexts(s), NEW digest \in DOMAIN Digests, DeleteList(digest)
    PROVE  /\ Contexts(s') /\ digest \in lists \ lists'
           /\ \A ref \in Refs : Waiting(s, ref) =>
                 Waiting(s', ref) \/ \E queue \in GoesWith(digest) : Waits(queue, ref) # {}
<1> DEFINE alive == lists \cup {None}
           u == Deleted(s, digest)
<1>1. Session(s, alive)
    BY DEF IInv
<1>2. digest \in lists /\ lists' = lists \ {digest} /\ s' = u
    BY DEF DeleteList, Deleted, OwnQueue
<1>3. Session(u, (lists \ {digest}) \cup {None})
    BY <1>1, DeletedIs
<1>4. /\ Contexts(u)
      /\ \A ref \in Refs : Awaited(s, ref) =>
            Awaited(u, ref) \/ \E queue \in GoesWith(digest) : Awaits(queue, ref)
    BY <1>1, DeletedLeaves DEF GoesWith
<1> HIDE DEF u
<1>5. \A ref : (Waiting(s, ref) <=> Awaited(s, ref)) /\ (Waiting(u, ref) <=> Awaited(u, ref))
    BY <1>1, <1>3, AwaitedIs
<1>6. \A queue \in GoesWith(digest) : \A ref : Awaits(queue, ref) => Waits(queue, ref) # {}
  <2>1. \A owner : \A q \in SavedOf(s, owner) : q.queue \in QueueOf(s.history, owner)
      BY <1>1, SavedIs DEF Walkless
  <2>2. \A queue \in GoesWith(digest) : \E owner : queue \in QueueOf(s.history, owner)
      BY <2>1 DEF GoesWith
  <2> QED
      BY <2>2, AwaitsIs
<1> QED
    BY <1>2, <1>4, <1>5, <1>6

(* An album's context is in a session only where Spotify's style keeps one. *)
ContextsKept == Contexts(s)

(* Whatever is tapped, a ref that waits to be played waits on, or is in    *)
(* the history that is kept: save for a digest's own queue played again,   *)
(* and what goes with a digest that is deleted.                            *)
THEOREM NothingIsLost == Spec => NothingLost
<1> DEFINE Lossless == \A ref \in Refs :
    \/ Waiting(s, ref) => Waiting(s, ref)' \/ Plays(s.history, ref)' # {}
    \/ \E digest \in lists : \E rows \in Digests[digest] : \E start \in Refs \cup {None} :
          /\ PlayDigest(digest, rows, start)
          /\ \E queue \in Rebuilt(digest) : Waits(queue, ref) # {}
    \/ \E digest \in lists \ lists' : \E queue \in GoesWith(digest) : Waits(queue, ref) # {}
<1>1. Init => ContextsKept
  <2>1. Init => s.q = [type \in QueueTypes |-> EmptyQueue] /\ s.saved = <<>>
      BY DEF Init, EmptySession
  <2>2. EmptyQueue.ctx = <<>> /\ DOMAIN <<>> = {}
      BY DEF EmptyQueue
  <2> QED
      BY <2>1, <2>2 DEF Contexts, ContextsKept, QueueTypes
<1>2. IInv /\ ContextsKept /\ Next => ContextsKept' /\ Lossless
  <2> SUFFICES ASSUME IInv, Contexts(s), Next
               PROVE  Contexts(s') /\ Lossless
      BY DEF ContextsKept
  <2>1. ASSUME NEW digest \in DOMAIN Digests, NEW rows \in Digests[digest],
               NEW start \in Refs \cup {None}, PlayDigest(digest, rows, start)
        PROVE  Contexts(s') /\ Lossless
      BY <2>1, DigestCarries
  <2>2. ASSUME NEW digest \in DOMAIN Digests, DeleteList(digest)
        PROVE  Contexts(s') /\ Lossless
      BY <2>2, DeleteCarries
  <2>3. CASE /\ ~ \E d \in DOMAIN Digests : \E rows \in Digests[d] : \E start \in Refs \cup {None} :
                     PlayDigest(d, rows, start)
             /\ ~ \E d \in DOMAIN Digests : DeleteList(d)
      BY <2>3, TapsCarry
  <2> QED
      BY <2>1, <2>2, <2>3
<1>3. ContextsKept /\ UNCHANGED vars => ContextsKept'
    BY DEF vars, ContextsKept
<1>4. Spec => []IInv
    BY Invariance
<1>5. Spec => []ContextsKept
    BY <1>1, <1>2, <1>3, <1>4, PTL DEF Spec
<1>6. IInv /\ ContextsKept /\ [Next]_vars => [Lossless]_vars
    BY <1>2
<1> QED
    BY <1>4, <1>5, <1>6, PTL DEF Spec, NothingLost, Lossless
=============================================================================
