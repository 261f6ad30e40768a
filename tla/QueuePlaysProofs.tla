--------------------------- MODULE QueuePlaysProofs ---------------------------
(***************************************************************************)
(* Proofs about plays on one device and its listening session: for any     *)
(* things played and picks found, any number of plans loading, of autoplay *)
(* runs under way and of entries and plays, and any order of taps, plans,  *)
(* reports and runs, no pick is of anything but what its queue is on once  *)
(* no run is under way (PicksAreCurrent), and a play once recorded stays   *)
(* as it was until it is pushed out (HistoryGrows).  While one plan loads  *)
(* at a time, a play answered is of what the session plays (PlayIsOfItem)  *)
(* and its reports record nothing twice (ReportsRecordOnce).               *)
(*                                                                         *)
(* The invariant is that the session is one (Session), the records laid    *)
(* out and its plays in the order they were recorded; and that a run on    *)
(* the session's own revision follows what its queues are on (AsRead).     *)
(* Every operator of the engine leaves a session whose plays go on from    *)
(* those it had (From): a report drops no play but the one it just         *)
(* recorded, so what was recorded before it is as it was.  For the last    *)
(* two, a play answered has noted every play recorded since (Held).        *)
(*                                                                         *)
(* A plan steps on as often as its entry is away, a report along the       *)
(* entries between: a fold each, which is a function over the subsets of   *)
(* the line's places, of each by the one without its greatest place        *)
(* (Steps).  That there is one (FoldExists), that any two agree            *)
(* (FoldsAgree), and that what each step keeps the fold keeps (ByGreatest) *)
(* are shown by a smallest set of places of which it is not so.            *)
(***************************************************************************)
EXTENDS QueuePlays, SequenceTheorems, FiniteSetTheorems, WellFoundedInduction, TLAPS

----------------------------------------------------------------------------
(* Places                                                                  *)

(* A set of subsets of a finite set has a smallest one.                    *)
LEMMA SmallestSubset ==
    ASSUME NEW S, IsFiniteSet(S), NEW Bad \in SUBSET (SUBSET S), Bad # {}
    PROVE  \E T \in Bad : \A U \in SUBSET T : U # T => U \notin Bad
<1>1. FiniteSubsetsOf(S) = SUBSET S
    BY FS_FiniteSubsetsOfFinite
<1>2. IsWellFoundedOn(StrictSubsetOrdering(S), SUBSET S)
    BY <1>1, FS_StrictSubsetOrderingWellFounded
<1>3. PICK T \in Bad : \A U \in Bad : <<U, T>> \notin StrictSubsetOrdering(S)
    BY <1>2, WFMin
<1>4. ASSUME NEW U \in SUBSET T, U # T, U \in Bad
      PROVE  FALSE
  <2>1. <<U, T>> \in (SUBSET S) \X (SUBSET S)
      BY <1>4
  <2>2. <<U, T>> \in StrictSubsetOrdering(S)
      BY <1>4, <2>1 DEF StrictSubsetOrdering
  <2> QED
      BY <1>3, <1>4, <2>2
<1> QED
    BY <1>4


(* The least of a set of numbers is one of them and below all.             *)
LEMMA LeastOfAll ==
    ASSUME NEW A \in SUBSET Nat, A # {}
    PROVE  Min(A) \in A /\ \A y \in A : Min(A) <= y
<1>1. PICK m \in A : TRUE
    OBVIOUS
<1> DEFINE Upto == {0..k : k \in {j \in A : j <= m}}
<1>2. Upto \in SUBSET (SUBSET (0..m)) /\ Upto # {}
  <2>1. \A k \in {j \in A : j <= m} : 0..k \subseteq 0..m
      BY <1>1
  <2>2. m \in {j \in A : j <= m}
      BY <1>1
  <2> QED
      BY <2>1, <2>2, Zenon
<1>3. IsFiniteSet(0..m)
    BY <1>1, FS_Interval
<1>4. PICK T \in Upto : \A U \in SUBSET T : U # T => U \notin Upto
  <2> HIDE DEF Upto
  <2> QED
      BY <1>2, <1>3, SmallestSubset
<1>5. PICK k \in A : T = 0..k /\ k <= m
    BY <1>4
<1>6. ASSUME NEW y \in A, y < k
      PROVE  FALSE
  <2>1. 0..y \in SUBSET T /\ 0..y # T /\ y <= m
      BY <1>1, <1>5, <1>6
  <2> QED
      BY <1>4, <1>6, <2>1
<1>7. \A y \in A : k <= y
    BY <1>6
<1> QED
    BY <1>7 DEF Min

----------------------------------------------------------------------------
(* Lines of items                                                          *)

(* An entry of a queue, or what it is on.                                  *)
IsItem(i) ==
    i \in [ref : {i.ref}, walk : Int \cup {None}, replayOf : {i.replayOf}, after : {i.after},
           pos : {i.pos}, list : {i.list}]

IsLine(line) == line \in Seq(Range(line)) /\ \A n \in DOMAIN line : IsItem(line[n])

(* A sequence of items is a line.                                          *)
LEMMA LineOf ==
    ASSUME NEW S, \A i \in S : IsItem(i), NEW line \in Seq(S)
    PROVE  IsLine(line)
<1>1. line \in Seq(Range(line))
    BY SeqOfRange
<1>2. \A n \in DOMAIN line : line[n] \in S
    BY LenProperties, ElementOfSeq
<1> QED
    BY <1>1, <1>2 DEF IsLine

(* What is in a line is an item.                                           *)
LEMMA InLine ==
    ASSUME NEW line, IsLine(line)
    PROVE  /\ line \in Seq(Range(line)) /\ Len(line) \in Nat /\ DOMAIN line = 1..Len(line)
           /\ \A i \in Range(line) : IsItem(i)
<1>1. line \in Seq(Range(line)) /\ \A n \in DOMAIN line : IsItem(line[n])
    BY DEF IsLine
<1>2. \A i \in Range(line) : \E n \in DOMAIN line : i = line[n]
    BY DEF Range
<1> QED
    BY <1>1, <1>2, LenProperties

(* Items numbered are a line.                                              *)
LEMMA LineMade ==
    ASSUME NEW n \in Nat, NEW line, line = [i \in 1..n |-> line[i]], \A i \in 1..n : IsItem(line[i])
    PROVE  IsLine(line) /\ Len(line) = n
<1> DEFINE S == {line[i] : i \in 1..n}
<1>1. line \in [1..n -> S]
    OBVIOUS
<1>2. DOMAIN line = 1..n
    OBVIOUS
<1>3. \A i \in S : IsItem(i)
    OBVIOUS
<1> HIDE DEF S
<1>4. line \in Seq(S)
    BY <1>1, SeqDef
<1>5. Len(line) = n
    BY <1>2, <1>4, LenProperties
<1> QED
    BY <1>3, <1>4, <1>5, LineOf

(* A line without its first entry.                                         *)
LEMMA LineTail ==
    ASSUME NEW line, IsLine(line), line # <<>>
    PROVE  IsItem(Head(line)) /\ IsLine(Tail(line)) /\ Head(line) = line[1]
<1>1. Head(line) \in Range(line) /\ Tail(line) \in Seq(Range(line)) /\ Head(line) = line[1]
    BY InLine, HeadTailProperties
<1> QED
    BY <1>1, InLine, LineOf

(* Two lines one after the other, and a line with an item put in it.       *)
LEMMA LineJoined ==
    ASSUME NEW a, IsLine(a), NEW b, IsLine(b)
    PROVE  IsLine(a \o b)
<1> DEFINE S == Range(a) \cup Range(b)
<1>1. a \in Seq(S) /\ b \in Seq(S) /\ \A i \in S : IsItem(i)
    BY InLine, SeqMonotonic
<1> HIDE DEF S
<1>2. a \o b \in Seq(S)
    BY <1>1, ConcatProperties
<1> QED
    BY <1>1, <1>2, LineOf

LEMMA EmptyLine == IsLine(<<>>)
<1>1. <<>> \in Seq({})
    OBVIOUS
<1> QED
    BY <1>1, LineOf

LEMMA LineOfOne == ASSUME NEW e, IsItem(e) PROVE IsLine(<<e>>)
<1>1. <<e>> \in Seq({e})
    OBVIOUS
<1> QED
    BY <1>1, LineOf

LEMMA LinePart ==
    ASSUME NEW line, IsLine(line), NEW m \in Nat, NEW n \in Nat, m >= 1, n <= Len(line)
    PROVE  IsLine(SubSeq(line, m, n))
<1>1. line \in Seq(Range(line)) /\ Len(line) \in Nat /\ DOMAIN line = 1..Len(line)
    BY InLine
<1>2. \A i \in m..n : i \in 1..Len(line)
    BY <1>1
<1>3. \A i \in m..n : line[i] \in Range(line)
    BY <1>1, <1>2, ElementOfSeq
<1>4. SubSeq(line, m, n) \in Seq(Range(line))
    BY <1>3, SubSeqProperties
<1> QED
    BY <1>4, InLine, LineOf

LEMMA LinePut ==
    ASSUME NEW line, IsLine(line), NEW e, IsItem(e), NEW i \in 1..(Len(line) + 1)
    PROVE  IsLine(InsertAt(line, i, e))
<1>1. Len(line) \in Nat
    BY InLine
<1>2. IsLine(SubSeq(line, 1, i - 1)) /\ IsLine(SubSeq(line, i, Len(line))) /\ IsLine(<<e>>)
    BY <1>1, LinePart, LineOfOne
<1>3. InsertAt(line, i, e) = (SubSeq(line, 1, i - 1) \o <<e>>) \o SubSeq(line, i, Len(line))
    BY DEF InsertAt
<1> QED
    BY <1>2, <1>3, LineJoined

(* Where the walk's entries end is in a line or right after it.            *)
LEMMA WalkEndIs ==
    ASSUME NEW line, IsLine(line)
    PROVE  WalkEnd(line) \in 1..(Len(line) + 1)
<1> DEFINE others == {i \in DOMAIN line : line[i].walk = None}
<1>1. Len(line) \in Nat /\ DOMAIN line = 1..Len(line)
    BY InLine
<1>2. others \in SUBSET Nat /\ others \subseteq 1..Len(line)
    BY <1>1
<1>3. WalkEnd(line) = IF others = {} THEN Len(line) + 1 ELSE Min(others)
    BY DEF WalkEnd
<1> HIDE DEF others
<1>4. others # {} => Min(others) \in others
    BY <1>2, LeastOfAll
<1>5. CASE others = {}
  <2>1. WalkEnd(line) = Len(line) + 1
      BY <1>3, <1>5
  <2> QED
      BY <1>1, <2>1
<1>6. CASE others # {}
  <2>1. WalkEnd(line) \in 1..Len(line)
      BY <1>2, <1>3, <1>4, <1>6
  <2> QED
      BY <1>1, <2>1
<1> QED
    BY <1>5, <1>6

(* The places of a line that are kept, counted.                            *)
LEMMA CountTo ==
    ASSUME NEW n \in Nat, NEW A \in SUBSET (1..n)
    PROVE  /\ IsFiniteSet(A) /\ Cardinality(A) \in Nat
           /\ \A m \in 0..n : Cardinality(A \cap (1..m)) \in Nat
           /\ Cardinality(A \cap (1..0)) = 0
           /\ A \cap (1..n) = A
           /\ \A m \in 1..n : Cardinality(A \cap (1..m)) =
                 Cardinality(A \cap (1..(m - 1))) + IF m \in A THEN 1 ELSE 0
<1>1. IsFiniteSet(1..n)
    BY FS_Interval
<1>2. \A B \in SUBSET A : IsFiniteSet(B) /\ Cardinality(B) \in Nat
    BY <1>1, FS_Subset, FS_CardinalityType
<1>3. A \cap (1..0) = {}
    OBVIOUS
<1>4. Cardinality(A \cap (1..0)) = 0
    BY <1>3, FS_EmptySet
<1>5. ASSUME NEW m \in 1..n
      PROVE  Cardinality(A \cap (1..m)) =
                 Cardinality(A \cap (1..(m - 1))) + IF m \in A THEN 1 ELSE 0
  <2> DEFINE before == A \cap (1..(m - 1))
  <2>1. IsFiniteSet(before) /\ m \notin before /\ Cardinality(before) \in Nat
      BY <1>2
  <2>2. CASE m \in A
    <3>1. A \cap (1..m) = before \cup {m}
        BY <2>2
    <3> QED
        BY <2>1, <2>2, <3>1, FS_AddElement
  <2>3. CASE m \notin A
    <3>1. A \cap (1..m) = before
        BY <2>3
    <3> QED
        BY <2>1, <2>3, <3>1, Cardinality(before) + 0 = Cardinality(before)
  <2> QED
      BY <2>2, <2>3
<1>6. A \cap (1..n) = A
    OBVIOUS
<1>7. \A m \in 0..n : Cardinality(A \cap (1..m)) \in Nat
    BY <1>2
<1>8. IsFiniteSet(A) /\ Cardinality(A) \in Nat
    BY <1>2
<1> QED
    BY <1>4, <1>5, <1>6, <1>7, <1>8

(* What is kept of a line is of the line.                                  *)
LEMMA OnlyKept ==
    ASSUME NEW S, NEW line \in Seq(S), NEW kept
    PROVE  Only(line, kept) \in Seq(S \cap kept)
<1> DEFINE at == {n \in DOMAIN line : line[n] \in kept}
           count == Cardinality(at)
           Nth(n) == CHOOSE m \in at : Cardinality(at \cap (1..m)) = n
           only == [n \in 1..count |-> line[Nth(n)]]
           upto == [m \in 0..Len(line) |-> Cardinality(at \cap (1..m))]
<1>1. Len(line) \in Nat /\ DOMAIN line = 1..Len(line)
    BY LenProperties
<1>2. at \in SUBSET (1..Len(line))
    BY <1>1
<1>3. /\ count \in Nat
      /\ \A m \in 0..Len(line) : upto[m] \in Nat
      /\ upto[0] = 0
      /\ upto[Len(line)] = count
      /\ \A m \in 1..Len(line) : upto[m] = upto[m - 1] + IF m \in at THEN 1 ELSE 0
  <2>1. \A m \in 0..Len(line) : upto[m] = Cardinality(at \cap (1..m))
      OBVIOUS
  <2>2. 0 \in 0..Len(line) /\ Len(line) \in 0..Len(line) /\
        \A m \in 1..Len(line) : m \in 0..Len(line) /\ m - 1 \in 0..Len(line)
      BY <1>1
  <2> HIDE DEF at, upto
  <2>3. /\ count \in Nat
        /\ \A m \in 0..Len(line) : Cardinality(at \cap (1..m)) \in Nat
        /\ Cardinality(at \cap (1..0)) = 0
        /\ at \cap (1..Len(line)) = at
        /\ \A m \in 1..Len(line) : Cardinality(at \cap (1..m)) =
              Cardinality(at \cap (1..(m - 1))) + IF m \in at THEN 1 ELSE 0
      BY <1>1, <1>2, CountTo
  <2>4. upto[0] = 0 /\ upto[Len(line)] = count
      BY <2>1, <2>2, <2>3
  <2>5. \A m \in 0..Len(line) : upto[m] \in Nat
      BY <2>1, <2>3
  <2>6. \A m \in 1..Len(line) : upto[m] = upto[m - 1] + IF m \in at THEN 1 ELSE 0
      BY <2>1, <2>2, <2>3
  <2> QED
      BY <2>3, <2>4, <2>5, <2>6
<1>4. Only(line, kept) = only
    BY Zenon DEF Only
<1>5. \A n \in DOMAIN line : n \in at <=> line[n] \in kept
    OBVIOUS
<1> HIDE DEF at, only, upto
<1>6. ASSUME NEW n \in 1..count
      PROVE  \E m \in at : upto[m] = n
  <2> DEFINE enough == {m \in 1..Len(line) : upto[m] >= n}
  <2>0. Len(line) # 0
      BY <1>3, <1>6
  <2>1. Len(line) \in enough
      BY <1>1, <1>3, <1>6, <2>0
  <2>2. enough \in SUBSET (1..Len(line)) /\ enough # {}
      BY <2>1
  <2>2a. enough \in SUBSET Nat /\ enough # {}
      BY <1>1, <2>2
  <2> DEFINE m == Min(enough)
  <2>3. m \in enough /\ \A k \in enough : m <= k
      <3> HIDE DEF enough
      <3> QED
          BY <2>2a, LeastOfAll
  <2> HIDE DEF m
  <2>4. m \in 1..Len(line) /\ upto[m] >= n
      BY <2>3
  <2>5. m - 1 \notin enough
      BY <2>3, <2>4
  <2>6. upto[m - 1] < n
    <3>1. CASE m = 1
        BY <1>3, <3>1
    <3>2. CASE m # 1
      <4>1. m - 1 \in 1..Len(line) /\ upto[m - 1] \in Nat
          BY <1>1, <1>3, <2>4, <3>2
      <4> QED
          BY <2>5, <4>1
    <3> QED
        BY <3>1, <3>2
  <2>7. upto[m] = upto[m - 1] + (IF m \in at THEN 1 ELSE 0) /\ upto[m] \in Nat /\ upto[m - 1] \in Nat
      BY <1>1, <1>3, <2>4
  <2>8. m \in at /\ upto[m] = n
      BY <2>4, <2>6, <2>7
  <2> QED
      BY <2>8
<1>6a. \A m \in at : m \in 0..Len(line) /\ upto[m] = Cardinality(at \cap (1..m))
    BY <1>2 DEF upto
<1>7. \A n \in 1..count : Nth(n) \in at /\ upto[Nth(n)] = n
    BY <1>6, <1>6a
<1> HIDE DEF Nth
<1>9. /\ DOMAIN only = 1..count
      /\ \A n \in 1..count : only[n] = line[Nth(n)]
    BY DEF only
<1>10. \A n \in 1..count : only[n] \in S \cap kept
    BY <1>1, <1>2, <1>5, <1>7, <1>9, ElementOfSeq
<1>11. only \in Seq(S \cap kept)
    BY <1>3, <1>9, <1>10, only = [n \in 1..count |-> only[n]] DEF only
<1> QED
    BY <1>4, <1>11

LEMMA OnlyOfNone == ASSUME NEW kept PROVE Only(<<>>, kept) = <<>>
<1> DEFINE at == {n \in DOMAIN <<>> : <<>>[n] \in kept}
           Nth(n) == CHOOSE m \in at : Cardinality(at \cap (1..m)) = n
<1>1. Only(<<>>, kept) = [n \in 1..Cardinality(at) |-> <<>>[Nth(n)]]
    BY Zenon DEF Only
<1>2. at = {}
    OBVIOUS
<1>3. Cardinality(at) = 0
    BY <1>2, FS_EmptySet
<1> HIDE DEF at, Nth
<1>4. Only(<<>>, kept) = [n \in 1..0 |-> <<>>[Nth(n)]]
    BY <1>1, <1>3
<1> QED
    BY <1>4

(* Once a walk ends what it leaves of a line is one.                       *)
LEMMA EndedIs ==
    ASSUME NEW line, IsLine(line), NEW isInto
    PROVE  IsLine(EndedWalk(line, isInto))
<1> DEFINE Stays(i) == i.walk = None \/ ~isInto \/ (i.replayOf = None /\ i.walk # 0)
           stays == Only(line, {i \in Range(line) : Stays(i)})
           Unmarked(i) == IF i.walk = None THEN i
                          ELSE [i EXCEPT !.walk = None,
                                         !.replayOf = IF isInto THEN @ ELSE None]
           left == [n \in DOMAIN stays |-> Unmarked(stays[n])]
<1>1. EndedWalk(line, isInto) = left
    BY DEF EndedWalk
<1>2. stays \in Seq(Range(line) \cap {i \in Range(line) : Stays(i)})
    BY InLine, OnlyKept
<1>3. Range(line) \cap {i \in Range(line) : Stays(i)} \subseteq Range(line)
    OBVIOUS
<1> HIDE DEF stays
<1>4. stays \in Seq(Range(line))
    BY <1>2, <1>3, SeqMonotonic
<1>5. IsLine(stays)
    BY <1>4, InLine, LineOf
<1>6. Len(stays) \in Nat /\ DOMAIN stays = 1..Len(stays)
    BY <1>5, InLine
<1>7. \A n \in 1..Len(stays) : IsItem(Unmarked(stays[n]))
  <2>1. ASSUME NEW i, IsItem(i)
        PROVE  IsItem(Unmarked(i))
      BY <2>1 DEF IsItem
  <2> HIDE DEF Unmarked
  <2> QED
      BY <1>5, <1>6, <2>1 DEF IsLine
<1>8. left = [n \in 1..Len(stays) |-> left[n]] /\ \A n \in 1..Len(stays) : IsItem(left[n])
    BY <1>6, <1>7
<1> HIDE DEF left
<1> QED
    BY <1>1, <1>6, <1>8, LineMade

----------------------------------------------------------------------------
(* What a session is                                                       *)

(* A queue's record, a session's, and plays in the order they were made.   *)
Laid(queue) ==
    /\ queue \in [cur : {queue.cur}, pos : {queue.pos}, user : {queue.user}, ctx : {queue.ctx}]
    /\ queue.cur # None => IsItem(queue.cur)
    /\ IsLine(queue.user) /\ IsLine(queue.ctx)

Rising(h) ==
    /\ h \in Seq(Range(h))
    /\ \A i \in DOMAIN h : h[i].seq \in Nat /\ h[i].queue \in QueueTypes
    /\ \A i, j \in DOMAIN h : i < j => h[i].seq < h[j].seq

Shaped(t) == t \in [active : {t.active}, switch : {t.switch}, style : {t.style}, q : {t.q},
                    history : {t.history}, pick : {t.pick}, digest : {t.digest}, saved : {t.saved}]
Queues(q) == q = [u \in QueueTypes |-> q[u]] /\ \A u \in QueueTypes : Laid(q[u])

Session(t) ==
    /\ Shaped(t)
    /\ Queues(t.q)
    /\ Rising(t.history)
    /\ t.active \in QueueTypes /\ t.switch \in QueueTypes \cup {None}
    /\ t.digest = None /\ t.saved = <<>>

(* The plays of h are the first of g.                                      *)
Continues(h, g) == Len(h) <= Len(g) /\ \A i \in 1..Len(h) : g[i] = h[i]

(* A session of s: one whose plays go on from h.                           *)
From(h, t) == Session(t) /\ Continues(h, t.history)

(* A session u with one play more than t, of ref.                          *)
OneMore(t, u, ref) ==
    \E p : u.history = Append(t.history, p) /\ p.seq = NextSeq(t) /\ p.ref = ref

(* What plays in a session is ref.                                         *)
Plays(t, ref) == IsItem(Current(t)) /\ Current(t).ref = ref

(* Plays that go on from plays that go on from f go on from f.             *)
LEMMA ContinuesOn ==
    ASSUME NEW f, NEW g, NEW h, Rising(f), Rising(g), Rising(h), Continues(f, g), Continues(g, h)
    PROVE  Continues(f, h)
<1>1. Len(f) \in Nat /\ Len(g) \in Nat /\ Len(h) \in Nat
    BY LenProperties DEF Rising
<1> QED
    BY <1>1 DEF Continues

(* Plays go on from themselves.                                            *)
LEMMA ContinuesItself == ASSUME NEW h, Rising(h) PROVE Continues(h, h)
<1>1. Len(h) \in Nat
    BY LenProperties DEF Rising
<1> QED
    BY <1>1 DEF Continues

(* A session with a queue of its own put in its place.                     *)
LEMMA QueuePut ==
    ASSUME NEW t, Session(t), NEW type \in QueueTypes, NEW queue, Laid(queue),
           NEW u, Shaped(u), u.q = [t.q EXCEPT ![type] = queue],
           u.active \in QueueTypes, u.switch \in QueueTypes \cup {None},
           u.history = t.history, u.digest = t.digest, u.saved = t.saved
    PROVE  Session(u)
<1>1. Queues(u.q)
    BY DEF Session, Queues
<1> QED
    BY <1>1 DEF Session

(* One more play, at the seq after the newest, keeps them in order.        *)
LEMMA PlayAdded ==
    ASSUME NEW h, Rising(h), NEW p, p.queue \in QueueTypes, p.seq = IF h = <<>> THEN 0 ELSE Last(h).seq + 1
    PROVE  /\ Rising(Append(h, p)) /\ Continues(h, Append(h, p))
           /\ Len(Append(h, p)) = Len(h) + 1
<1> DEFINE g == Append(h, p)
           S == Range(h) \cup {p}
<1>1. h \in Seq(S) /\ p \in S
    BY SeqMonotonic DEF Rising
<1>2. Len(h) \in Nat /\ DOMAIN h = 1..Len(h)
    BY <1>1, LenProperties
<1> HIDE DEF S
<1>3. /\ g \in Seq(S) /\ Len(g) = Len(h) + 1 /\ DOMAIN g = 1..(Len(h) + 1)
      /\ \A i \in 1..Len(h) : g[i] = h[i]
      /\ g[Len(h) + 1] = p
    BY <1>1, <1>2, AppendProperties, LenProperties
<1> HIDE DEF g
<1>4. g \in Seq(Range(g))
    BY <1>3, SeqOfRange
<1>5. h = <<>> \/ Len(h) >= 1
    BY <1>1, EmptySeq, <1>2
<1>6. p.seq \in Nat /\ \A i \in 1..Len(h) : h[i].seq < p.seq
  <2>1. CASE h = <<>>
      BY <1>2, <2>1, EmptySeq
  <2>2. CASE Len(h) >= 1
    <3>1. h # <<>> /\ Len(h) \in DOMAIN h
        BY <1>2, <2>2
    <3>2. p.seq = h[Len(h)].seq + 1 /\ h[Len(h)].seq \in Nat
        BY <3>1 DEF Rising, Last
    <3>3. ASSUME NEW i \in 1..Len(h)
          PROVE  h[i].seq < p.seq
      <4>1. i \in DOMAIN h /\ h[i].seq \in Nat
          BY <1>2 DEF Rising
      <4>2. CASE i = Len(h)
          BY <3>2, <4>1, <4>2
      <4>3. CASE i # Len(h)
        <5>1. i < Len(h)
          <6>1. \A k \in Nat : \A j \in 1..k : j = k \/ j < k
              OBVIOUS
          <6> QED
              BY <1>2, <4>3, <6>1
        <5>2. h[i].seq < h[Len(h)].seq
            BY <3>1, <4>1, <5>1 DEF Rising
        <5> QED
            BY <3>2, <4>1, <5>2
      <4> QED
          BY <4>2, <4>3
    <3> QED
        BY <3>2, <3>3
  <2> QED
      BY <1>5, <2>1, <2>2
<1>7. \A i \in DOMAIN g : i \in 1..Len(h) \/ i = Len(h) + 1
    BY <1>2, <1>3
<1>8. \A i \in DOMAIN g : g[i].seq \in Nat /\ g[i].queue \in QueueTypes
    BY <1>2, <1>3, <1>6, <1>7 DEF Rising
<1>9. ASSUME NEW i \in DOMAIN g, NEW j \in DOMAIN g, i < j
      PROVE  g[i].seq < g[j].seq
  <2>1. i \in 1..Len(h)
      BY <1>2, <1>3, <1>9
  <2>2. CASE j \in 1..Len(h)
      BY <1>2, <1>3, <1>9, <2>1, <2>2 DEF Rising
  <2>3. CASE j = Len(h) + 1
      BY <1>3, <1>6, <2>1, <2>3
  <2> QED
      BY <1>7, <2>2, <2>3
<1>10. Len(h) <= Len(h) + 1
    BY <1>2
<1> QED
    BY <1>3, <1>4, <1>8, <1>9, <1>10 DEF Rising, Continues, g

(* recorded: one play more, and nothing else of the session moves.         *)
LEMMA RecordedIs ==
    ASSUME NEW t, Session(t), NEW type \in QueueTypes, NEW item, NEW after
    PROVE  LET u == Recorded(t, type, item, after)
           IN  /\ From(t.history, u) /\ OneMore(t, u, item.ref)
               /\ u.q = t.q /\ u.active = t.active /\ u.switch = t.switch
<1> DEFINE u == Recorded(t, type, item, after)
           p == [seq |-> NextSeq(t), queue |-> type, ref |-> item.ref,
                 after |-> after, list |-> item.list]
<1>1. p.seq = NextSeq(t) /\ p.ref = item.ref /\ p.queue \in QueueTypes
    OBVIOUS
<1>2. u = [t EXCEPT !.history = Append(t.history, p)]
    BY DEF Recorded
<1> HIDE DEF p, u
<1>3. /\ Shaped(u) /\ u.history = Append(t.history, p) /\ u.q = t.q
      /\ u.digest = t.digest /\ u.saved = t.saved /\ u.active = t.active /\ u.switch = t.switch
    BY <1>2 DEF Session, Shaped
<1>4. OneMore(t, u, item.ref)
    BY <1>1, <1>3 DEF OneMore
<1>5. p.seq = IF t.history = <<>> THEN 0 ELSE Last(t.history).seq + 1
    BY <1>1 DEF NextSeq
<1>6. Rising(u.history) /\ Continues(t.history, u.history)
    BY <1>3, <1>1, <1>5, PlayAdded DEF Session
<1> QED
    BY <1>3, <1>4, <1>6 DEF Session, From, u

(* A session goes on from its own plays.                                   *)
LEMMA FromItself == ASSUME NEW t, Session(t) PROVE From(t.history, t)
  BY ContinuesItself DEF From, Session

(* What goes on from a session goes on from what that went on from.        *)
LEMMA FromOn ==
    ASSUME NEW t, NEW u, NEW v, Session(t), From(t.history, u), From(u.history, v)
    PROVE  From(t.history, v)
  BY ContinuesOn DEF From, Session

(* An item is one with any of its marks set, and its ref stays.            *)
LEMMA ItemStays ==
    ASSUME NEW item, IsItem(item)
    PROVE  /\ \A after : LET i == Follow(item, after) IN IsItem(i) /\ i.ref = item.ref
           /\ \A walk \in Int \cup {None} : IsItem([item EXCEPT !.walk = walk])
           /\ \A x : /\ IsItem([item EXCEPT !.replayOf = x]) /\ IsItem([item EXCEPT !.list = x])
                     /\ IsItem([item EXCEPT !.after = x]) /\ [item EXCEPT !.after = x].ref = item.ref
                     /\ [item EXCEPT !.list = x].ref = item.ref
           /\ LET i == [item EXCEPT !.walk = None, !.pos = None] IN IsItem(i) /\ i.ref = item.ref
           /\ \A pos : IsItem([item EXCEPT !.pos = pos, !.after = None])
  BY DEF IsItem, Follow

LEMMA NewItem == ASSUME NEW ref PROVE IsItem(Item(ref)) /\ Item(ref).ref = ref
  BY DEF IsItem, Item

(* A queue that is laid out still is, whatever one of its fields becomes.  *)
LEMMA LaidStays ==
    ASSUME NEW queue, Laid(queue)
    PROVE  /\ Laid(Cleared(queue))
           /\ \A x : (x # None => IsItem(x)) => Laid([queue EXCEPT !.cur = x])
           /\ \A x : Laid([queue EXCEPT !.pos = x])
           /\ \A line : IsLine(line) => /\ Laid([queue EXCEPT !.user = line])
                                        /\ Laid([queue EXCEPT !.ctx = line])
<1>1. \A x : (x # None => IsItem(x)) => Laid([queue EXCEPT !.cur = x])
    BY DEF Laid
<1>2. Laid(Cleared(queue))
    BY DEF Laid, Cleared
<1>3. \A x : Laid([queue EXCEPT !.pos = x])
    BY DEF Laid
<1>4. \A line : IsLine(line) => /\ Laid([queue EXCEPT !.user = line])
                               /\ Laid([queue EXCEPT !.ctx = line])
    BY DEF Laid
<1> QED
    BY <1>1, <1>2, <1>3, <1>4

(* An item that becomes a queue's current one, and the one it was parked.  *)
LEMMA StartIs ==
    ASSUME NEW queue, Laid(queue), NEW item, IsItem(item), NEW after
    PROVE  LET new == Start(queue, item, after)
           IN  /\ Laid(new) /\ new.user = queue.user /\ new.ctx = queue.ctx
               /\ IsItem(new.cur) /\ new.cur.ref = item.ref
<1> DEFINE i == [item EXCEPT !.walk = None, !.pos = None]
           c == Follow(i, after)
<1>1. IsItem(i) /\ i.ref = item.ref
    BY ItemStays
<1> HIDE DEF i
<1>2. IsItem(c) /\ c.ref = item.ref
    BY <1>1, ItemStays
<1>3. Start(queue, item, after) = [queue EXCEPT !.cur = c, !.pos = item.pos]
    BY DEF Start, i
<1> HIDE DEF c
<1> QED
    BY <1>2, <1>3 DEF Laid

LEMMA ParkedIs ==
    ASSUME NEW queue, Laid(queue), queue.cur # None
    PROVE  IsItem(Parked(queue))
  BY ItemStays DEF Laid, Parked

(* The walk's marks on a line, and the least of them.                      *)
Marks(line) == {line[i].walk : i \in DOMAIN line} \ {None}

LEMMA LeastMark ==
    ASSUME NEW line, IsLine(line)
    PROVE  /\ Marks(line) \subseteq Int
           /\ Marks(line) # {} => \E m \in Marks(line) : \A p \in Marks(line) : m <= p
<1> DEFINE marks == Marks(line)
<1>1. Len(line) \in Nat /\ DOMAIN line = 1..Len(line) /\ \A i \in DOMAIN line : IsItem(line[i])
    BY InLine DEF IsLine
<1>2. \A i \in DOMAIN line : line[i].walk \in Int \cup {None}
    BY <1>1 DEF IsItem
<1>3. \A p \in marks : p \in Int /\ \E i \in DOMAIN line : line[i].walk = p
    BY <1>2 DEF Marks
<1> HIDE DEF marks
<1>4. ASSUME marks # {}
      PROVE  \E m \in marks : \A p \in marks : m <= p
  <2> DEFINE Upto(p) == {i \in DOMAIN line : line[i].walk \in marks /\ line[i].walk <= p}
             All == {Upto(p) : p \in marks}
  <2>1. All \in SUBSET (SUBSET (1..Len(line))) /\ All # {}
    <3>1. \A p \in marks : Upto(p) \subseteq 1..Len(line)
        BY <1>1
    <3> HIDE DEF Upto
    <3> QED
        BY <1>4, <3>1
  <2>2. IsFiniteSet(1..Len(line))
      BY <1>1, FS_Interval
  <2>3. PICK T \in All : \A U \in SUBSET T : U # T => U \notin All
    <3> HIDE DEF All
    <3> QED
        BY <2>1, <2>2, SmallestSubset
  <2>4. PICK m \in marks : T = Upto(m)
      BY <2>3
  <2>5. ASSUME NEW p \in marks, p < m
        PROVE  FALSE
    <3>0. p \in Int /\ m \in Int /\ m <= m /\ ~(m <= p)
        BY <1>3, <2>5
    <3>1. PICK i \in DOMAIN line : line[i].walk = m
        BY <1>3
    <3>2. i \in T /\ i \notin Upto(p)
        BY <2>4, <3>0, <3>1
    <3>3. \A k \in DOMAIN line : line[k].walk \in marks /\ line[k].walk <= p => line[k].walk <= m
      <4>1. \A q \in marks : q <= p => q <= m
          BY <1>3, <2>5, <3>0
      <4> QED
          BY <4>1
    <3>4. Upto(p) \in SUBSET T
        BY <2>4, <3>3
    <3>5. Upto(p) \in All
        OBVIOUS
    <3> HIDE DEF Upto, All
    <3> QED
        BY <2>3, <3>2, <3>4, <3>5
  <2>6. \A p \in marks : m <= p
    <3>1. \A p \in marks : p \in Int /\ m \in Int /\ ~(p < m)
        BY <1>3, <2>5
    <3> QED
        BY <3>1
  <2> QED
      BY <2>6
<1> QED
    BY <1>3, <1>4 DEF marks

(* The walk's lowest place is a number.                                    *)
LEMMA LowestIs ==
    ASSUME NEW t, Session(t)
    PROVE  LowestWalk(t) \in Int \cup {None}
<1> DEFINE Of(type) == {t.q[type].user[i].walk : i \in DOMAIN t.q[type].user}
           M(type) == Marks(t.q[type].user)
           places == (UNION {Of(type) : type \in QueueTypes}) \ {None}
<1>1. LowestWalk(t) = IF places = {} THEN None ELSE Min(places)
    BY DEF LowestWalk
<1>2. places = M("music") \cup M("spoken")
    BY DEF QueueTypes, Marks
<1>3. ASSUME NEW type \in QueueTypes
      PROVE  /\ M(type) \subseteq Int
             /\ M(type) # {} => \E m \in M(type) : \A p \in M(type) : m <= p
  <2>1. IsLine(t.q[type].user)
      BY DEF Session, Queues, Laid
  <2> QED
      BY <2>1, LeastMark
<1>4. "music" \in QueueTypes /\ "spoken" \in QueueTypes
    BY DEF QueueTypes
<1> HIDE DEF M, places
<1>5. ASSUME places # {}
      PROVE  Min(places) \in Int
  <2>1. \E m \in places : \A p \in places : m <= p
    <3>1. CASE M("music") = {}
        BY <1>2, <1>3, <1>4, <1>5, <3>1
    <3>2. CASE M("spoken") = {}
        BY <1>2, <1>3, <1>4, <1>5, <3>2
    <3>3. CASE M("music") # {} /\ M("spoken") # {}
      <4>1. PICK a \in M("music") : \A p \in M("music") : a <= p
          BY <1>3, <1>4, <3>3
      <4>2. PICK b \in M("spoken") : \A p \in M("spoken") : b <= p
          BY <1>3, <1>4, <3>3
      <4>3. places \subseteq Int /\ a \in Int /\ b \in Int /\ a \in places /\ b \in places
          BY <1>2, <1>3, <1>4
      <4>4. CASE a <= b
          BY <1>2, <4>1, <4>2, <4>3, <4>4
      <4>5. CASE b <= a
          BY <1>2, <4>1, <4>2, <4>3, <4>5
      <4> QED
          BY <4>3, <4>4, <4>5
    <3> QED
        BY <3>1, <3>2, <3>3
  <2>2. Min(places) \in places
      BY <2>1 DEF Min
  <2>3. places \subseteq Int
      BY <1>2, <1>3, <1>4
  <2> QED
      BY <2>2, <2>3
<1> QED
    BY <1>1, <1>5

(* The queue whose first entry is the walk's next has one.                 *)
LEMMA WalkNextIs ==
    ASSUME NEW t, Session(t), WalkHeads(t) # {}
    PROVE  WalkNext(t) \in WalkHeads(t)
<1> DEFINE W(u) == Head(t.q[u].user).walk
<1>1. ASSUME NEW u \in WalkHeads(t)
      PROVE  u \in QueueTypes /\ W(u) \in Int
  <2>1. u \in QueueTypes /\ t.q[u].user # <<>> /\ W(u) # None
      BY DEF WalkHeads
  <2>2. IsItem(Head(t.q[u].user))
      BY <2>1, LineTail DEF Session, Queues, Laid
  <2> QED
      BY <2>1, <2>2 DEF IsItem
<1> HIDE DEF W
<1>2. \E w \in WalkHeads(t) : \A u \in WalkHeads(t) : W(w) <= W(u)
  <2>1. PICK v \in WalkHeads(t) : TRUE
      OBVIOUS
  <2>2. CASE \A u \in WalkHeads(t) : W(v) <= W(u)
      BY <2>2
  <2>3. ASSUME NEW u \in WalkHeads(t), ~(W(v) <= W(u))
        PROVE  \E w \in WalkHeads(t) : \A x \in WalkHeads(t) : W(w) <= W(x)
    <3>1. \A x \in WalkHeads(t) : x = u \/ x = v
        BY <1>1, <2>3 DEF QueueTypes
    <3>2. W(u) <= W(v) /\ W(u) <= W(u)
        BY <1>1, <2>3
    <3> QED
        BY <3>1, <3>2
  <2> QED
      BY <2>2, <2>3
<1> QED
    BY <1>2 DEF WalkNext, W

(* retire: at most one play more, of the item that ends.                   *)
LEMMA RetiredIs ==
    ASSUME NEW t, Session(t), NEW type \in QueueTypes
    PROVE  LET u == Retired(t, type)
               cur == t.q[type].cur
           IN  /\ From(t.history, u) /\ u.active = t.active /\ u.switch = t.switch
               /\ u.history = t.history \/ (cur # None /\ OneMore(t, u, cur.ref))
<1> DEFINE v == [t EXCEPT !.q[type] = Cleared(@)]
           item == t.q[type].cur
<1>1. /\ Shaped(v) /\ v.q = [t.q EXCEPT ![type] = Cleared(t.q[type])] /\ v.history = t.history
      /\ v.digest = t.digest /\ v.saved = t.saved /\ v.active = t.active /\ v.switch = t.switch
    BY DEF Session, Shaped
<1>2. Laid(Cleared(t.q[type]))
    BY LaidStays DEF Session, Queues
<1> HIDE DEF v
<1>3. Session(v)
    BY <1>1, <1>2, QueuePut DEF Session
<1>4. From(t.history, v)
    BY <1>1, <1>3, FromItself
<1>5. LET u == Recorded(v, type, item, item.after)
      IN  /\ From(t.history, u) /\ OneMore(t, u, item.ref) /\ u.active = t.active /\ u.switch = t.switch
  <2> DEFINE u == Recorded(v, type, item, item.after)
  <2>1. From(v.history, u) /\ OneMore(v, u, item.ref) /\ u.active = v.active /\ u.switch = v.switch
      BY <1>3, RecordedIs
  <2> HIDE DEF u
  <2>2. OneMore(t, u, item.ref)
      BY <1>1, <2>1 DEF OneMore, NextSeq
  <2> QED
      BY <1>1, <2>1, <2>2 DEF u
<1>6. \/ Retired(t, type) = v
      \/ item # None /\ Retired(t, type) = Recorded(v, type, item, item.after)
    BY DEF Retired, v
<1> QED
    BY <1>1, <1>4, <1>5, <1>6

(* land: another item current, and no play recorded.                       *)
LEMMA LandIs ==
    ASSUME NEW t, Session(t), NEW type \in QueueTypes, NEW item, IsItem(item), NEW after
    PROVE  Session(Land(t, type, item, after)) /\ Land(t, type, item, after).history = t.history
<1> DEFINE u == Land(t, type, item, after)
           queue == t.q[type]
           waiting == IF queue.cur = None THEN queue.user
                      ELSE InsertAt(queue.user, WalkEnd(queue.user), Parked(queue))
           new == Start([queue EXCEPT !.user = waiting], item, after)
<1>1. u = [t EXCEPT !.active = type, !.q[type] = new]
    BY DEF Land
<1>2. Laid(new)
  <2>1. Laid(queue)
      BY DEF Session, Queues
  <2> HIDE DEF queue
  <2>2. IsLine(queue.user) /\ WalkEnd(queue.user) \in 1..(Len(queue.user) + 1)
      BY <2>1, WalkEndIs DEF Laid
  <2>3. queue.cur # None => IsItem(Parked(queue))
      BY <2>1, ParkedIs
  <2>4. IsLine(waiting)
      BY <2>2, <2>3, LinePut
  <2> HIDE DEF waiting
  <2>5. Laid([queue EXCEPT !.user = waiting])
      BY <2>1, <2>4, LaidStays
  <2> QED
      BY <2>1, <2>5, StartIs
<1> HIDE DEF u, new
<1>3. /\ Shaped(u) /\ u.q = [t.q EXCEPT ![type] = new] /\ u.history = t.history
      /\ u.digest = t.digest /\ u.saved = t.saved /\ u.active = type /\ u.switch = t.switch
    BY <1>1 DEF Session, Shaped
<1> QED
    BY <1>2, <1>3, QueuePut DEF u, Session

(* playQueue: another queue plays, and no play is recorded; what it is on  *)
(* it resumes.                                                             *)
LEMMA PlayIs ==
    ASSUME NEW t, Session(t), NEW type \in QueueTypes, NEW after
    PROVE  LET u == Play(t, type, after)
           IN  /\ Session(u) /\ u.history = t.history
               /\ t.q[type].cur # None =>
                     IsItem(Current(u)) /\ Current(u).ref = t.q[type].cur.ref
<1> DEFINE u == Play(t, type, after)
           queue == t.q[type]
           picked == StoredAutoplay(t, type)
           on == [queue EXCEPT !.cur = Follow(@, after)]
           fromUser == Start([queue EXCEPT !.user = Tail(@)], Head(queue.user), after)
           fromCtx == Start([queue EXCEPT !.ctx = Tail(@)], Head(queue.ctx), after)
           played ==
            IF queue.cur # None THEN on
            ELSE IF queue.user # <<>> THEN fromUser
            ELSE IF queue.ctx # <<>> THEN fromCtx
            ELSE IF picked # None THEN Start(queue, Item(picked), after) ELSE queue
<1>1. u = [t EXCEPT !.active = type, !.q[type] = played]
    BY DEF Play
<1>2. /\ Laid(played)
      /\ queue.cur # None => IsItem(played.cur) /\ played.cur.ref = queue.cur.ref
  <2>1. Laid(queue)
      BY DEF Session, Queues
  <2> HIDE DEF queue
  <2>2. ASSUME queue.cur # None
        PROVE  Laid(on) /\ IsItem(on.cur) /\ on.cur.ref = queue.cur.ref
    <3> DEFINE c == Follow(queue.cur, after)
    <3>1. IsItem(c) /\ c.ref = queue.cur.ref
        BY <2>1, <2>2, ItemStays DEF Laid
    <3>2. on = [queue EXCEPT !.cur = c]
        OBVIOUS
    <3> HIDE DEF c
    <3>3. Laid(on) /\ on.cur = c
        BY <2>1, <3>1, <3>2, LaidStays DEF Laid
    <3> QED
        BY <3>1, <3>3
  <2>3. ASSUME queue.user # <<>>
        PROVE  Laid(fromUser)
    <3>1. IsItem(Head(queue.user)) /\ IsLine(Tail(queue.user))
        BY <2>1, <2>3, LineTail DEF Laid
    <3>2. Laid([queue EXCEPT !.user = Tail(@)])
        BY <2>1, <3>1, LaidStays
    <3> QED
        BY <3>1, <3>2, StartIs
  <2>4. ASSUME queue.ctx # <<>>
        PROVE  Laid(fromCtx)
    <3>1. IsItem(Head(queue.ctx)) /\ IsLine(Tail(queue.ctx))
        BY <2>1, <2>4, LineTail DEF Laid
    <3>2. Laid([queue EXCEPT !.ctx = Tail(@)])
        BY <2>1, <3>1, LaidStays
    <3> QED
        BY <3>1, <3>2, StartIs
  <2>5. Laid(Start(queue, Item(picked), after))
      BY <2>1, NewItem, StartIs
  <2> HIDE DEF on, fromUser, fromCtx, picked
  <2> QED
      BY <2>1, <2>2, <2>3, <2>4, <2>5
<1> HIDE DEF u, played
<1>3. /\ Shaped(u) /\ u.q = [t.q EXCEPT ![type] = played] /\ u.history = t.history
      /\ u.digest = t.digest /\ u.saved = t.saved /\ u.active = type /\ u.switch = t.switch
    BY <1>1 DEF Session, Shaped
<1>4. Session(u)
    BY <1>2, <1>3, QueuePut DEF Session
<1>5. Current(u) = played.cur
    BY <1>3 DEF Session, Queues, Current
<1> QED
    BY <1>2, <1>3, <1>4, <1>5 DEF u

(* Next records the item it leaves, at most.                               *)
LEMMA StepNextIs ==
    ASSUME NEW t, Session(t)
    PROVE  LET u == StepNext(t)
           IN  /\ From(t.history, u)
               /\ u.history = t.history \/ (Current(t) # None /\ OneMore(t, u, Current(t).ref))
<1> DEFINE after == RetiredPlay(t, t.active)
           r == Retired(t, t.active)
           walked == WalkNext(r)
           first == Head(r.q[walked].user)
           target == IF t.switch = None THEN t.active ELSE t.switch
           rest == [r EXCEPT !.q[walked].user = Tail(@)]
           open == [r EXCEPT !.switch = None]
<1>1. /\ From(t.history, r)
      /\ r.history = t.history \/ (Current(t) # None /\ OneMore(t, r, Current(t).ref))
      /\ target \in QueueTypes
    BY RetiredIs DEF Current, Session
<1>2. \/ WalkHeads(r) # {} /\ StepNext(t) = Land(rest, walked, first, after)
      \/ StepNext(t) = Play(open, target, after)
    BY DEF StepNext
<1> HIDE DEF r, after
<1>3. ASSUME WalkHeads(r) # {}
      PROVE  Session(rest) /\ rest.history = r.history /\ IsItem(first) /\ walked \in QueueTypes
  <2> DEFINE less == [r.q[walked] EXCEPT !.user = Tail(@)]
  <2>1. Session(r)
      BY <1>1 DEF From
  <2>2. walked \in QueueTypes /\ r.q[walked].user # <<>>
      BY <1>3, <2>1, WalkNextIs DEF WalkHeads
  <2> HIDE DEF walked
  <2>3. Laid(r.q[walked])
      BY <2>1, <2>2 DEF Session, Queues
  <2>4. IsItem(first) /\ IsLine(Tail(r.q[walked].user))
      BY <2>2, <2>3, LineTail DEF Laid
  <2>5. Laid(less)
      BY <2>3, <2>4, LaidStays
  <2>6. /\ Shaped(rest) /\ rest.q = [r.q EXCEPT ![walked] = less]
        /\ rest.history = r.history /\ rest.digest = r.digest /\ rest.saved = r.saved
        /\ rest.active = r.active /\ rest.switch = r.switch
      BY <2>1 DEF Session, Shaped
  <2> HIDE DEF rest, less
  <2>6a. rest.active \in QueueTypes /\ rest.switch \in QueueTypes \cup {None}
      BY <2>1, <2>6 DEF Session
  <2>7. Session(rest)
      BY <2>1, <2>2, <2>5, <2>6, <2>6a, QueuePut
  <2> QED
      BY <2>2, <2>4, <2>6, <2>7
<1>4. Session(open) /\ open.history = r.history
  <2>1. /\ Shaped(open) /\ open.q = r.q
        /\ open.history = r.history /\ open.digest = r.digest /\ open.saved = r.saved
        /\ open.active = r.active /\ open.switch = None
      BY <1>1 DEF From, Session, Shaped
  <2> HIDE DEF open
  <2> QED
      BY <1>1, <2>1 DEF From, Session
<1> HIDE DEF rest, open, target, walked, first
<1>5. Session(StepNext(t)) /\ StepNext(t).history = r.history
    BY <1>1, <1>2, <1>3, <1>4, LandIs, PlayIs
<1> QED
    BY <1>1, <1>5 DEF From, OneMore

(* Back records nothing: what it leaves waits in its queue.                *)
LEMMA StepBackIs ==
    ASSUME NEW t, Session(t)
    PROVE  Session(StepBack(t)) /\ StepBack(t).history = t.history
<1> DEFINE earlier == CHOOSE h \in Range(t.history) : h.seq = BackTo(t)
           left == t.q[t.active]
           place == IF LowestWalk(t) = None THEN 0 ELSE LowestWalk(t) - 1
           parked == [Parked(left) EXCEPT !.walk = place]
           less == [Cleared(left) EXCEPT !.user = <<parked>> \o @]
           put == [t EXCEPT !.q[t.active] = less]
           stepped == IF left.cur = None THEN t ELSE put
           item == [Item(earlier.ref) EXCEPT !.replayOf = earlier.seq]
<1>1. \/ StepBack(t) = t
      \/ BackTo(t) # None /\ StepBack(t) = Land(stepped, earlier.queue, item, None)
    BY DEF StepBack
<1>1a. BackTo(t) # None => earlier.queue \in QueueTypes
  <2>1. SUFFICES ASSUME BackTo(t) # None PROVE earlier.queue \in QueueTypes
      OBVIOUS
  <2>2. BackTo(t) \in Seqs(t)
      BY <2>1 DEF BackTo
  <2>3. PICK n \in DOMAIN t.history : t.history[n].seq = BackTo(t)
      BY <2>2 DEF Seqs
  <2>4. t.history[n] \in Range(t.history)
      BY DEF Range
  <2>5. earlier \in Range(t.history)
      BY <2>3, <2>4
  <2> HIDE DEF earlier
  <2> QED
      BY <2>5 DEF Range, Session, Rising
<1>2. left.cur # None => Laid(less)
  <2>1. SUFFICES ASSUME Laid(left), left.cur # None PROVE Laid(less)
      BY DEF Session, Queues
  <2> HIDE DEF left
  <2>2. place \in Int
      BY LowestIs
  <2> HIDE DEF place
  <2>3. IsItem(parked)
      BY <2>1, <2>2, ParkedIs, ItemStays
  <2> HIDE DEF parked
  <2>4. IsLine(<<parked>> \o left.user)
      BY <2>1, <2>3, LineOfOne, LineJoined DEF Laid
  <2>5. Laid(Cleared(left)) /\ Cleared(left).user = left.user
      BY <2>1, LaidStays DEF Laid, Cleared
  <2> QED
      BY <2>4, <2>5, LaidStays
<1>2a. IsItem(item)
    BY NewItem, ItemStays
<1> HIDE DEF less, earlier, item
<1>3. /\ Shaped(put) /\ put.q = [t.q EXCEPT ![t.active] = less] /\ put.history = t.history
      /\ put.digest = t.digest /\ put.saved = t.saved
      /\ put.active = t.active /\ put.switch = t.switch
    BY DEF Session, Shaped
<1> HIDE DEF put
<1>4. left.cur # None => Session(put)
    BY <1>2, <1>3, QueuePut DEF Session
<1>5. Session(stepped) /\ stepped.history = t.history
    BY <1>3, <1>4
<1> HIDE DEF stepped
<1> DEFINE there == earlier.queue
           landed == Land(stepped, there, item, None)
<1> HIDE DEF there
<1>6. there \in QueueTypes => Session(landed) /\ landed.history = stepped.history
    BY <1>2a, <1>5, LandIs
<1> HIDE DEF landed
<1>7. StepBack(t) = t \/ (there \in QueueTypes /\ StepBack(t) = landed)
    BY <1>1, <1>1a DEF landed, there
<1> QED
    BY <1>5, <1>6, <1>7

(* endWalk records the item Back first left, at most, and leaves what the  *)
(* queues are on.                                                          *)
LEMMA EndWalkIs ==
    ASSUME NEW t, Session(t), NEW into \in QueueTypes \cup {None}
    PROVE  /\ From(t.history, EndWalk(t, into))
           /\ \A type \in QueueTypes : EndWalk(t, into).q[type].cur = t.q[type].cur
           /\ EndWalk(t, into).switch = t.switch
<1> DEFINE v == [t EXCEPT !.q = [type \in QueueTypes |->
                    [t.q[type] EXCEPT !.user = EndedWalk(@, type = into)]]]
           i == CHOOSE i \in FirstLeft(t, into) : TRUE
<1>1. \/ EndWalk(t, into) = v
      \/ into \in QueueTypes /\ EndWalk(t, into) = Recorded(v, into, i, LastPlayed(t))
    BY DEF EndWalk, FirstLeft
<1>2. ASSUME NEW type \in QueueTypes
      PROVE  LET new == [t.q[type] EXCEPT !.user = EndedWalk(@, type = into)]
             IN  Laid(new) /\ new.cur = t.q[type].cur
  <2>1. Laid(t.q[type])
      BY DEF Session, Queues
  <2>2. IsLine(EndedWalk(t.q[type].user, type = into))
      BY <2>1, EndedIs DEF Laid
  <2> QED
      BY <2>1, <2>2, LaidStays DEF Laid
<1>3. /\ Shaped(v) /\ Queues(v.q) /\ v.history = t.history
      /\ v.digest = t.digest /\ v.saved = t.saved /\ v.active = t.active /\ v.switch = t.switch
      /\ \A type \in QueueTypes : v.q[type].cur = t.q[type].cur
    BY <1>2 DEF Session, Shaped, Queues
<1> HIDE DEF v
<1>4. Session(v)
    BY <1>3 DEF Session
<1> QED
    BY <1>1, <1>3, <1>4, RecordedIs, FromItself

(* A switch ends the walk and plays the other queue, on what it was on.    *)
LEMMA SwitchToIs ==
    ASSUME NEW t, Session(t), NEW type \in QueueTypes
    PROVE  LET u == SwitchTo(t, type)
           IN  /\ From(t.history, u)
               /\ t.q[type].cur # None /\ type # t.active =>
                     IsItem(Current(u)) /\ Current(u).ref = t.q[type].cur.ref
<1> DEFINE w == EndWalk(t, None)
           open == [w EXCEPT !.switch = None]
           u == Play(open, type, Followed(t, Current(t)))
<1>1. SwitchTo(t, type) = IF type = t.active THEN t ELSE u
    BY DEF SwitchTo
<1>2. From(t.history, w) /\ \A other \in QueueTypes : w.q[other].cur = t.q[other].cur
    BY EndWalkIs
<1> HIDE DEF w
<1>3. /\ Shaped(open) /\ open.q = w.q /\ open.history = w.history
      /\ open.digest = w.digest /\ open.saved = w.saved
      /\ open.active = w.active /\ open.switch = None
    BY <1>2 DEF From, Session, Shaped
<1> HIDE DEF open
<1>4. Session(open) /\ From(t.history, open)
    BY <1>2, <1>3 DEF From, Session
<1>5. /\ Session(u) /\ u.history = open.history
      /\ open.q[type].cur # None =>
            IsItem(Current(u)) /\ Current(u).ref = open.q[type].cur.ref
    BY <1>4, PlayIs
<1> HIDE DEF u
<1>6. From(t.history, u)
    BY <1>4, <1>5 DEF From
<1>7. CASE type = t.active
    BY <1>1, <1>7, FromItself
<1>8. CASE type # t.active
    BY <1>1, <1>2, <1>3, <1>5, <1>6, <1>8
<1> QED
    BY <1>7, <1>8

(* What is put next waits: nothing is recorded, and what plays plays on.    *)
LEMMA AddNextIs ==
    ASSUME NEW t, Session(t), NEW type \in QueueTypes, NEW items, IsLine(items)
    PROVE  LET u == AddNext(t, type, items)
           IN  Session(u) /\ u.history = t.history /\ Current(u) = Current(t)
<1> DEFINE lowest == LowestWalk(t)
           n == Len(items)
           queue == t.q[type]
           paused == IF queue.cur = None THEN <<>> ELSE <<Parked(queue)>>
           walked == [i \in 1..n |-> [items[i] EXCEPT !.walk = lowest - n + i - 1]]
           placed == [queue EXCEPT !.user = walked \o @]
           aside == [Cleared(queue) EXCEPT !.user = items \o paused \o @]
           front == [queue EXCEPT !.user = items \o @]
<1>1. \/ lowest # None /\ AddNext(t, type, items) = [t EXCEPT !.q[type] = placed]
      \/ type # t.active /\ AddNext(t, type, items) = [t EXCEPT !.q[type] = aside, !.switch = type]
      \/ AddNext(t, type, items) = [t EXCEPT !.q[type] = front]
    BY DEF AddNext
<1>2. Laid(queue)
    BY DEF Session, Queues
<1>3. lowest \in Int \cup {None}
    BY LowestIs
<1>4. n \in Nat /\ DOMAIN items = 1..n /\ \A i \in 1..n : IsItem(items[i])
    BY InLine DEF IsLine
<1> HIDE DEF lowest, n, queue
<1>5. lowest # None => IsLine(walked)
  <2>1. SUFFICES ASSUME lowest \in Int PROVE IsLine(walked)
      BY <1>3
  <2>2. \A i \in 1..n : lowest - n + i - 1 \in Int \cup {None}
      BY <1>4, <2>1
  <2>3. \A i \in 1..n : IsItem([items[i] EXCEPT !.walk = lowest - n + i - 1])
      BY <1>4, <2>2, ItemStays
  <2>4. walked = [i \in 1..n |-> walked[i]] /\ \A i \in 1..n : IsItem(walked[i])
      BY <2>3
  <2> HIDE DEF walked
  <2> QED
      BY <1>4, <2>4, LineMade
<1>6. IsLine(paused)
    BY <1>2, ParkedIs, LineOfOne, EmptyLine
<1> HIDE DEF walked, paused
<1>7. IsLine(queue.user)
    BY <1>2 DEF Laid
<1>8. lowest # None => Laid(placed) /\ placed.cur = queue.cur
  <2>1. lowest # None => IsLine(walked \o queue.user)
      BY <1>5, <1>7, LineJoined
  <2> QED
      BY <1>2, <2>1, LaidStays DEF Laid
<1>9. Laid(aside)
  <2>1. IsLine((items \o paused) \o queue.user)
      BY <1>6, <1>7, LineJoined
  <2>2. Laid(Cleared(queue)) /\ Cleared(queue).user = queue.user
      BY <1>2, LaidStays DEF Laid, Cleared
  <2> QED
      BY <2>1, <2>2, LaidStays
<1>10. Laid(front) /\ front.cur = queue.cur
  <2>1. IsLine(items \o queue.user)
      BY <1>7, LineJoined
  <2> QED
      BY <1>2, <2>1, LaidStays DEF Laid
<1> HIDE DEF placed, aside, front
<1>11. ASSUME NEW u, NEW new, Laid(new), new.cur = queue.cur \/ type # t.active,
              \/ u = [t EXCEPT !.q[type] = new]
              \/ u = [t EXCEPT !.q[type] = new, !.switch = type]
       PROVE  Session(u) /\ u.history = t.history /\ Current(u) = Current(t)
  <2>1. /\ Shaped(u) /\ u.q = [t.q EXCEPT ![type] = new] /\ u.history = t.history
        /\ u.digest = t.digest /\ u.saved = t.saved /\ u.active = t.active
        /\ u.switch \in QueueTypes \cup {None}
      BY <1>11 DEF Session, Shaped
  <2>2. t.active \in QueueTypes /\ t.q = [v \in QueueTypes |-> t.q[v]]
      BY DEF Session, Queues
  <2>3. Session(u)
      BY <1>11, <2>1, <2>2, QueuePut
  <2>4. Current(u) = Current(t)
      BY <1>11, <2>1, <2>2 DEF Current, queue
  <2> QED
      BY <2>1, <2>3, <2>4
<1>12. CASE lowest # None /\ AddNext(t, type, items) = [t EXCEPT !.q[type] = placed]
    BY <1>8, <1>11, <1>12
<1>13. CASE type # t.active /\ AddNext(t, type, items) = [t EXCEPT !.q[type] = aside, !.switch = type]
    BY <1>9, <1>11, <1>13
<1>14. CASE AddNext(t, type, items) = [t EXCEPT !.q[type] = front]
    BY <1>10, <1>11, <1>14
<1> QED
    BY <1>1, <1>12, <1>13, <1>14

(* What plays now ends what played there and the walk.                     *)
LEMMA AddNowIs ==
    ASSUME NEW t, Session(t), NEW type \in QueueTypes, NEW items, IsLine(items), items # <<>>, NEW from
    PROVE  LET u == AddNow(t, type, items, from)
           IN  From(t.history, u) /\ Plays(u, items[1].ref)
<1> DEFINE ended == Retired(t, type)
           after == IF type = t.active THEN RetiredPlay(t, type) ELSE Followed(ended, Current(t))
           recorded == EndWalkPlay(ended, type)
           walked == EndWalk(ended, type)
           into == Start(walked.q[type], items[1], IF recorded = None THEN after ELSE recorded)
           rest == Tail(items)
           ahead == [into EXCEPT !.ctx = rest \o @]
           own == [into EXCEPT !.user = rest \o @, !.ctx = IF from THEN <<>> ELSE @]
           onto == IF type = "music" /\ t.style = "spotify" /\ from THEN ahead ELSE own
           u == [walked EXCEPT !.q[type] = onto, !.active = type,
                               !.switch = IF @ = type THEN None ELSE @]
<1>1. AddNow(t, type, items, from) = u
  <2>1. t.digest = None
      BY DEF Session
  <2> QED
      BY <2>1 DEF AddNow
<1>2. From(t.history, ended)
    BY RetiredIs
<1> HIDE DEF ended
<1>3. From(ended.history, walked) /\ Session(ended)
    BY <1>2, EndWalkIs DEF From
<1>4. From(t.history, walked)
    BY <1>2, <1>3, FromOn
<1> HIDE DEF walked, after, recorded
<1>5. /\ Laid(into) /\ IsItem(into.cur) /\ into.cur.ref = items[1].ref
      /\ IsLine(rest)
  <2>1. Laid(walked.q[type])
      BY <1>4 DEF From, Session, Queues
  <2>2. IsItem(items[1]) /\ IsLine(rest)
      BY LineTail
  <2> QED
      BY <2>1, <2>2, StartIs
<1> HIDE DEF into, rest
<1>6. Laid(ahead) /\ ahead.cur = into.cur
  <2>1. IsLine(rest \o into.ctx)
      BY <1>5, LineJoined DEF Laid
  <2> QED
      BY <1>5, <2>1, LaidStays DEF Laid
<1>7. Laid(own) /\ own.cur = into.cur
  <2>1. IsLine(rest \o into.user) /\ IsLine(IF from THEN <<>> ELSE into.ctx)
      BY <1>5, LineJoined, EmptyLine DEF Laid
  <2>2. PICK x, y : own = [into EXCEPT !.user = x, !.ctx = y] /\ IsLine(x) /\ IsLine(y)
      BY <2>1
  <2> HIDE DEF own
  <2> QED
      BY <1>5, <2>2 DEF Laid
<1>8. Laid(onto) /\ IsItem(onto.cur) /\ onto.cur.ref = items[1].ref
    BY <1>5, <1>6, <1>7
<1> HIDE DEF onto
<1>9. /\ Shaped(u) /\ u.q = [walked.q EXCEPT ![type] = onto] /\ u.history = walked.history
      /\ u.digest = walked.digest /\ u.saved = walked.saved
      /\ u.active = type /\ u.switch \in QueueTypes \cup {None}
    BY <1>4 DEF From, Session, Shaped
<1> HIDE DEF u
<1>10. Session(u)
    BY <1>4, <1>8, <1>9, QueuePut DEF From
<1>11. Current(u) = onto.cur
    BY <1>4, <1>9 DEF From, Session, Queues, Current
<1> QED
    BY <1>1, <1>4, <1>8, <1>9, <1>10, <1>11 DEF From, Plays

(* What a plan or a tap adds has entries.                                  *)
HasEntries(thing) == thing.entries \in Seq(Range(thing.entries)) \ {<<>>}

(* Both ways a plan or a tap adds what it plays.                           *)
LEMMA AddIs ==
    ASSUME NEW t, Session(t), NEW thing, HasEntries(thing), NEW how, how \in {"next", "now"}
    PROVE  LET u == Add(t, thing, how)
           IN  /\ From(t.history, u)
               /\ how = "now" => Plays(u, thing.entries[1])
               /\ how = "next" => u.history = t.history /\ Current(u) = Current(t)
<1> DEFINE type == QueueFor(thing.kind)
           digest == IF type = "spoken" THEN t.digest ELSE None
           Listed(i) == IF DigestHolds(t.q[type], thing.entries[i]) THEN digest ELSE None
           items == [i \in DOMAIN thing.entries |-> [Item(thing.entries[i]) EXCEPT !.list = Listed(i)]]
           n == Len(thing.entries)
<1>1. /\ how = "next" => Add(t, thing, how) = AddNext(t, type, items)
      /\ how = "now" => Add(t, thing, how) = AddNow(t, type, items, thing.from)
  <2>1. how # "default" /\ how # "end" /\ ~(how = "next" /\ how = "now")
      OBVIOUS
  <2> QED
      BY <2>1 DEF Add
<1>2. type \in QueueTypes
    BY DEF QueueFor, QueueTypes
<1>3. n \in Nat /\ DOMAIN thing.entries = 1..n /\ n # 0
    BY LenProperties, EmptySeq DEF HasEntries
<1> HIDE DEF Listed, n, type
<1>4. \A i \in 1..n : IsItem(items[i]) /\ items[i].ref = thing.entries[i]
    BY <1>3, NewItem, ItemStays
<1>5. items = [i \in 1..n |-> items[i]]
    BY <1>3
<1> HIDE DEF items
<1>6. IsLine(items) /\ Len(items) = n
    BY <1>3, <1>4, <1>5, LineMade
<1>7. items # <<>> /\ items[1].ref = thing.entries[1]
    BY <1>3, <1>4, <1>6
<1>8. CASE how = "next"
    BY <1>1, <1>2, <1>6, <1>8, AddNextIs, FromItself DEF From
<1>9. CASE how = "now"
    BY <1>1, <1>2, <1>6, <1>7, <1>9, AddNowIs
<1> QED
    BY <1>8, <1>9

(* A thing played now plays from its start: nothing is saved of it.        *)
LEMMA PlayedNowIs ==
    ASSUME NEW t, Session(t), NEW thing, HasEntries(thing), NEW finished
    PROVE  LET u == PlayedNow(t, thing, finished)
           IN  From(t.history, u) /\ Plays(u, thing.entries[1])
<1> DEFINE refs == Range(thing.entries)
<1>1. t.saved = <<>>
    BY DEF Session
<1>2. Resumable(t, refs) = <<>> /\ ResumableNext(t, refs) = <<>>
    BY <1>1, OnlyOfNone DEF Resumable, ResumableNext
<1>3. PlayedNow(t, thing, finished) = Add(t, thing, "now")
    BY <1>2 DEF PlayedNow
<1> QED
    BY <1>3, AddIs

----------------------------------------------------------------------------
(* Folds over steps                                                        *)

(* What the two folds over a session do next: a step on, or one onto ref.  *)
Took(isPath, x, e) == IF isPath THEN PassEntry(x, e) ELSE StepNext(x)

(* What a fold is of each part of a line, by what it is of those shorter.  *)
Steps(isPath, base, line, g, D) ==
    [A \in SUBSET D |-> IF A = {} THEN base ELSE Took(isPath, g[A \ {Max(A)}], line[Max(A)])]
Fold(isPath, base, line, D) == CHOOSE g : g = Steps(isPath, base, line, g, D)

(* The greatest of a set of places is one of them and above all.           *)
LEMMA GreatestPlace ==
    ASSUME NEW n \in Nat, NEW A \in SUBSET (1..n), A # {}
    PROVE  Max(A) \in A /\ \A y \in A : y <= Max(A)
<1> DEFINE Onto == {k..n : k \in A}
<1>0. \A k \in A : k..n \subseteq 1..n
    OBVIOUS
<1>1. Onto \in SUBSET (SUBSET (1..n)) /\ Onto # {}
    BY <1>0, Zenon
<1>2. IsFiniteSet(1..n)
    BY FS_Interval
<1>3. PICK T \in Onto : \A U \in SUBSET T : U # T => U \notin Onto
    BY <1>1, <1>2, SmallestSubset
<1>4. PICK k \in A : T = k..n
    BY <1>3
<1>5. ASSUME NEW y \in A, y > k
      PROVE  FALSE
  <2>1. y..n \in SUBSET T /\ y..n # T
      BY <1>4, <1>5
  <2> QED
      BY <1>3, <1>5, <2>1
<1>6. \A y \in A : y <= k
    BY <1>5
<1> QED
    BY <1>6 DEF Max

(* Two folds over one line are the same of what both are of.               *)
LEMMA FoldsAgree ==
    ASSUME NEW isPath, NEW base, NEW line, NEW n \in Nat, NEW A, NEW B, NEW g, NEW h,
           g = Steps(isPath, base, line, g, A), h = Steps(isPath, base, line, h, B),
           NEW S \in SUBSET A, S \in SUBSET B, S \subseteq 1..n
    PROVE  g[S] = h[S]
<1> DEFINE Bad == {T \in SUBSET S : g[T] # h[T]}
<1> SUFFICES ASSUME Bad # {} PROVE FALSE
    OBVIOUS
<1>0. IsFiniteSet(S)
  <2>1. IsFiniteSet(1..n)
      BY FS_Interval
  <2> QED
      BY <2>1, FS_Subset
<1>1. PICK T \in Bad : \A U \in SUBSET T : U # T => U \notin Bad
  <2>1. Bad \in SUBSET (SUBSET S) /\ Bad # {}
      OBVIOUS
  <2> HIDE DEF Bad
  <2> QED
      BY <1>0, <2>1, SmallestSubset
<1>2. /\ g[T] = IF T = {} THEN base ELSE Took(isPath, g[T \ {Max(T)}], line[Max(T)])
      /\ h[T] = IF T = {} THEN base ELSE Took(isPath, h[T \ {Max(T)}], line[Max(T)])
    BY DEF Steps
<1>3. T # {}
    BY <1>2
<1>4. Max(T) \in T
    BY <1>3, GreatestPlace
<1>5. g[T \ {Max(T)}] = h[T \ {Max(T)}]
    BY <1>1, <1>4
<1> QED
    BY <1>2, <1>3, <1>5

(* There is a fold over any line.                                          *)
LEMMA FoldExists ==
    ASSUME NEW isPath, NEW base, NEW line, NEW n \in Nat
    PROVE  \E g : g = Steps(isPath, base, line, g, 1..n)
<1> DEFINE F(D) == Fold(isPath, base, line, D)
           Bad == {T \in SUBSET (1..n) : ~\E g : g = Steps(isPath, base, line, g, T)}
<1>1. \A T : (\E g : g = Steps(isPath, base, line, g, T)) =>
                 F(T) = Steps(isPath, base, line, F(T), T)
    BY DEF Fold
<1>2. ASSUME Bad # {}
      PROVE  FALSE
  <2>1. PICK T \in Bad : \A U \in SUBSET T : U # T => U \notin Bad
    <3>1. Bad \in SUBSET (SUBSET (1..n)) /\ Bad # {}
        BY <1>2
    <3>2. IsFiniteSet(1..n)
        BY FS_Interval
    <3> HIDE DEF Bad
    <3> QED
        BY <3>1, <3>2, SmallestSubset
  <2> DEFINE Less(U) == U \ {Max(U)}
             By(U, x) == Took(isPath, x, line[Max(U)])
             g == [U \in SUBSET T |->
                      IF U = {} THEN base
                      ELSE IF U = T THEN By(U, F(Less(T))[Less(T)]) ELSE F(U)[U]]
  <2>2. ASSUME NEW U \in SUBSET T
        PROVE  g[U] = IF U = {} THEN base ELSE By(U, g[Less(U)])
    <3>1. CASE U = {}
        BY <3>1
    <3>2. CASE U # {}
      <4> DEFINE V == Less(U)
      <4>1. V \in SUBSET T /\ V # T /\ V # U /\ V \in SUBSET U /\ V \subseteq 1..n
          BY <3>2, GreatestPlace
      <4>2. F(V) = Steps(isPath, base, line, F(V), V)
          BY <1>1, <2>1, <4>1
      <4>3. g[V] = F(V)[V]
        <5>1. V = {} => F(V)[V] = base
            BY <4>2 DEF Steps
        <5> QED
            BY <4>1, <5>1
      <4>4. CASE U = T
          BY <3>2, <4>3, <4>4
      <4>5. CASE U # T
        <5>1. F(U) = Steps(isPath, base, line, F(U), U)
            BY <1>1, <2>1, <4>5
        <5>2. F(U)[U] = By(U, F(U)[V])
            BY <3>2, <5>1 DEF Steps
        <5>3. F(U)[V] = F(V)[V]
            BY <4>1, <4>2, <5>1, FoldsAgree
        <5> HIDE DEF V, F
        <5>4. g[U] = F(U)[U]
            BY <3>2, <4>5
        <5> QED
            BY <3>2, <4>3, <5>2, <5>3, <5>4 DEF V
      <4> QED
          BY <4>4, <4>5
    <3> QED
        BY <3>1, <3>2
  <2>3. g = Steps(isPath, base, line, g, T)
    <3>1. g = [U \in SUBSET T |-> g[U]]
        OBVIOUS
    <3> HIDE DEF g
    <3> QED
        BY <2>2, <3>1 DEF Steps
  <2> QED
      BY <2>3
<1> QED
    BY <1>2

(* What is so of no place, and of any places if of all but the greatest,   *)
(* is so of all.                                                           *)
LEMMA ByGreatest ==
    ASSUME NEW n \in Nat, NEW Good, {} \in Good,
           \A T \in SUBSET (1..n) : T # {} /\ T \ {Max(T)} \in Good => T \in Good
    PROVE  1..n \in Good
<1> DEFINE Bad == {T \in SUBSET (1..n) : T \notin Good}
<1> SUFFICES ASSUME Bad # {} PROVE FALSE
    OBVIOUS
<1>1. PICK T \in Bad : \A U \in SUBSET T : U # T => U \notin Bad
  <2>1. Bad \in SUBSET (SUBSET (1..n)) /\ Bad # {}
      OBVIOUS
  <2>2. IsFiniteSet(1..n)
      BY FS_Interval
  <2> HIDE DEF Bad
  <2> QED
      BY <2>1, <2>2, SmallestSubset
<1>2. T # {}
    OBVIOUS
<1>3. Max(T) \in T
    BY <1>2, GreatestPlace
<1>4. T \ {Max(T)} \in Good
    BY <1>1, <1>3
<1> QED
    BY <1>2, <1>4

(* Plays with one more: what is before the last, and the last.             *)
LEMMA FrontIs ==
    ASSUME NEW h, Rising(h), NEW p
    PROVE  Front(Append(h, p)) = h /\ Last(Append(h, p)) = p
<1> DEFINE S == Range(h) \cup {p}
           g == Append(h, p)
<1>1. h \in Seq(S) /\ p \in S
    BY SeqMonotonic DEF Rising
<1> HIDE DEF S
<1>2. /\ Len(h) \in Nat /\ DOMAIN h = 1..Len(h) /\ h = [i \in 1..Len(h) |-> h[i]]
      /\ g \in Seq(S) /\ Len(g) = Len(h) + 1
      /\ \A i \in 1..Len(h) : g[i] = h[i]
      /\ g[Len(h) + 1] = p
    BY <1>1, LenProperties, AppendProperties
<1> HIDE DEF g
<1>3. Len(g) - 1 = Len(h)
    BY <1>2
<1>4. Front(g) = [i \in 1..Len(h) |-> g[i]]
    BY <1>2, <1>3 DEF Front
<1>5. Last(g) = p
    BY <1>2 DEF Last
<1> QED
    BY <1>2, <1>4, <1>5 DEF g

(* The session without the play its report just recorded: what plays on.   *)
LEMMA DroppedIs ==
    ASSUME NEW t, Session(t), Current(t) # None, NEW passed, NEW earlier,
           NEW h, Rising(h), Front(t.history) = h
    PROVE  LET u == Dropped(t, passed, earlier)
           IN  Session(u) /\ u.history = h /\ Plays(u, Current(t).ref)
<1> DEFINE u == Dropped(t, passed, earlier)
           cur == t.q[t.active].cur
           after == IF cur.after = passed.seq THEN [cur EXCEPT !.after = earlier] ELSE cur
           new == [t.q[t.active] EXCEPT !.cur = after]
<1>1. u = [t EXCEPT !.history = Front(@), !.q[t.active] = new]
    BY DEF Dropped
<1>2. t.active \in QueueTypes /\ Laid(t.q[t.active]) /\ IsItem(cur) /\ cur = Current(t)
    BY DEF Session, Queues, Laid, Current
<1> HIDE DEF cur
<1>3. IsItem(after) /\ after.ref = cur.ref
    BY <1>2, ItemStays
<1> HIDE DEF after
<1>4. Laid(new) /\ new.cur = after
    BY <1>2, <1>3, LaidStays DEF Laid
<1> HIDE DEF u, new
<1>5. /\ Shaped(u) /\ u.q = [t.q EXCEPT ![t.active] = new] /\ u.history = h
      /\ u.digest = t.digest /\ u.saved = t.saved /\ u.active = t.active /\ u.switch = t.switch
    BY <1>1 DEF Session, Shaped
<1>6. Queues(u.q)
    BY <1>2, <1>4, <1>5 DEF Session, Queues
<1>7. Session(u)
    BY <1>5, <1>6 DEF Session
<1>8. Current(u) = after
    BY <1>2, <1>4, <1>5 DEF Session, Queues, Current
<1> QED
    BY <1>2, <1>3, <1>5, <1>7, <1>8 DEF u, Plays

(* A step through a plan, on plays that go on from h.                      *)
Stepped(h, x) ==
    x \in [t : {x.t}, recorded : {x.recorded}, ok : BOOLEAN] /\ From(h, x.t)

(* What a step records of its play: nothing, or the item it leaves, noted  *)
(* as one not recorded before.                                             *)
Notes(x, y) ==
    \/ y.t.history = x.t.history /\ y.recorded = x.recorded
    \/ \E p : /\ y.t.history = Append(x.t.history, p) /\ p.seq = NextSeq(x.t)
              /\ Current(x.t) # None /\ p.ref = Current(x.t).ref
              /\ x.recorded[p.ref] = None
              /\ y.recorded = [x.recorded EXCEPT ![p.ref] = p.seq]

(* A step through a plan: a play recorded before it is kept.               *)
LEMMA PassEntryIs ==
    ASSUME NEW h, Rising(h), NEW x, Stepped(h, x), NEW ref
    PROVE  LET y == PassEntry(x, ref)
           IN  Stepped(h, y) /\ (y.ok => x.ok /\ Plays(y.t, ref) /\ Notes(x, y))
<1> DEFINE t == StepNext(x.t)
           plays == Len(t.history) > Len(x.t.history)
           passed == Last(t.history)
           earlier == x.recorded[passed.ref]
           lands == Current(t) # None /\ Current(t).ref = ref
           less == Dropped(t, passed, earlier)
           y == PassEntry(x, ref)
<1>1. /\ x \in [t : {x.t}, recorded : {x.recorded}, ok : BOOLEAN]
      /\ From(h, x.t) /\ Session(x.t) /\ Continues(h, x.t.history) /\ Rising(x.t.history)
    BY DEF Stepped, From, Session
<1>2. /\ From(x.t.history, t) /\ Session(t)
      /\ t.history = x.t.history \/ (Current(x.t) # None /\ OneMore(x.t, t, Current(x.t).ref))
    BY <1>1, StepNextIs DEF From
<1>3. From(h, t)
    BY <1>1, <1>2, ContinuesOn DEF From, Session
<1>4. \/ y = [x EXCEPT !.ok = FALSE]
      \/ /\ x.ok /\ lands
         /\ \/ ~plays /\ y = [x EXCEPT !.t = t]
            \/ plays /\ earlier = None /\ y = [x EXCEPT !.t = t, !.recorded = Noted(@, passed)]
            \/ plays /\ earlier # None /\ y = [x EXCEPT !.t = less]
    BY DEF PassEntry
<1> HIDE DEF t, y
<1>5. lands => Plays(t, ref)
    BY <1>2 DEF Session, Queues, Laid, Current, Plays
<1>6. CASE y = [x EXCEPT !.ok = FALSE]
    BY <1>1, <1>6 DEF Stepped, y
<1>7. CASE x.ok /\ lands /\ ~plays /\ y = [x EXCEPT !.t = t]
  <2>1. Len(x.t.history) \in Nat /\ \A p : Len(Append(x.t.history, p)) > Len(x.t.history)
    <3>1. Len(x.t.history) \in Nat
        BY <1>1, LenProperties DEF Rising
    <3>2. \A p : x.t.history \in Seq(Range(x.t.history) \cup {p}) /\ p \in Range(x.t.history) \cup {p}
        BY <1>1, SeqMonotonic DEF Rising
    <3>3. \A p : Len(Append(x.t.history, p)) = Len(x.t.history) + 1
        BY <3>2, AppendProperties
    <3> QED
        BY <3>1, <3>3
  <2>2. t.history = x.t.history
      BY <1>2, <1>7, <2>1 DEF OneMore
  <2>3. y.t = t /\ y.recorded = x.recorded /\ Stepped(h, y)
      BY <1>1, <1>3, <1>7 DEF Stepped
  <2> QED
      BY <1>5, <1>7, <2>2, <2>3 DEF Notes, y
<1>8. CASE x.ok /\ lands /\ plays
  <2>1. t.history # x.t.history
    <3>1. Len(x.t.history) \in Nat
        BY <1>1, LenProperties DEF Rising
    <3> QED
        BY <1>8, <3>1
  <2>2. PICK p : /\ t.history = Append(x.t.history, p) /\ p.seq = NextSeq(x.t)
                 /\ Current(x.t) # None /\ p.ref = Current(x.t).ref
      BY <1>2, <2>1 DEF OneMore
  <2>3. Front(t.history) = x.t.history /\ passed = p
      BY <1>1, <2>2, FrontIs
  <2> HIDE DEF plays, passed
  <2>4. CASE earlier = None /\ y = [x EXCEPT !.t = t, !.recorded = Noted(@, passed)]
    <3>1. /\ y.t = t /\ y.recorded = [x.recorded EXCEPT ![p.ref] = p.seq] /\ x.recorded[p.ref] = None
          /\ Stepped(h, y)
        BY <1>1, <1>3, <2>3, <2>4 DEF Stepped, Noted
    <3> QED
        BY <1>5, <1>8, <2>2, <3>1 DEF Notes, y
  <2>5. CASE y = [x EXCEPT !.t = less]
    <3>1. Session(less) /\ less.history = x.t.history /\ Plays(less, ref)
        BY <1>1, <1>2, <1>8, <2>3, DroppedIs
    <3> HIDE DEF less
    <3>2. From(h, less)
        BY <1>1, <3>1 DEF From
    <3>3. y.t = less /\ y.recorded = x.recorded /\ Stepped(h, y)
        BY <1>1, <2>5, <3>2 DEF Stepped
    <3> QED
        BY <1>8, <3>1, <3>3 DEF Notes, y
  <2> QED
      BY <1>4, <1>6, <1>8, <2>4, <2>5 DEF plays
<1> QED
    BY <1>4, <1>6, <1>7, <1>8

(* The session stepped on is the fold of as many steps.                    *)
Walk(t, D) == CHOOSE g : g = [A \in SUBSET D |-> IF A = {} THEN t ELSE StepNext(g[A \ {Max(A)}])]

(* The session after n steps goes on from its plays.                       *)
LEMMA SteppedOnIs ==
    ASSUME NEW t, Session(t), NEW n \in Nat
    PROVE  From(t.history, SteppedOn(t, n))
<1> DEFINE line == [i \in 1..n |-> i]
           g == Walk(t, DOMAIN line)
           Good == {T \in SUBSET (1..n) : From(t.history, g[T])}
<1>1. SteppedOn(t, n) = g[DOMAIN line]
    BY DEF SteppedOn, FoldLeft, MapThenFoldSet, Walk
<1>2. DOMAIN line = 1..n
    OBVIOUS
<1>3. \A f, D : [A \in SUBSET D |-> IF A = {} THEN t ELSE StepNext(f[A \ {Max(A)}])]
                    = Steps(FALSE, t, line, f, D)
    BY DEF Steps, Took
<1> HIDE DEF line
<1>4. \E f : f = Steps(FALSE, t, line, f, 1..n)
    BY FoldExists
<1>5. g = Steps(FALSE, t, line, g, 1..n)
    BY <1>2, <1>3, <1>4 DEF Walk
<1> HIDE DEF g
<1>6. \A T \in SUBSET (1..n) : g[T] = IF T = {} THEN t ELSE StepNext(g[T \ {Max(T)}])
    BY <1>5 DEF Steps, Took
<1>7. {} \in Good
    BY <1>6, FromItself
<1>8. ASSUME NEW T \in SUBSET (1..n), T # {}, T \ {Max(T)} \in Good
      PROVE  T \in Good
  <2> DEFINE u == g[T \ {Max(T)}]
  <2>1. From(t.history, u) /\ Session(u)
      BY <1>8 DEF From
  <2>2. g[T] = StepNext(u)
      BY <1>6, <1>8
  <2> HIDE DEF u
  <2>3. From(t.history, StepNext(u))
      BY <2>1, StepNextIs, FromOn
  <2> QED
      BY <2>2, <2>3
<1> HIDE DEF Good
<1>9. 1..n \in Good
    BY <1>7, <1>8, ByGreatest
<1> QED
    BY <1>1, <1>2, <1>9 DEF Good

Path(base, path, D) ==
    CHOOSE g : g = [A \in SUBSET D |-> IF A = {} THEN base ELSE PassEntry(g[A \ {Max(A)}], path[Max(A)])]

(* What a play's reports have noted: each play recorded since it began is  *)
(* of an entry of its plan, noted as recorded.                             *)
Noting(refs, since, t, recorded) ==
    /\ since \in Nat /\ since <= NextSeq(t)
    /\ recorded = [r \in refs |-> recorded[r]]
    /\ \A h \in Range(t.history) : h.seq >= since => h.ref \in refs /\ recorded[h.ref] = h.seq

(* A session's plays come before the next one's seq.                       *)
LEMMA SeqsBelow ==
    ASSUME NEW t, Session(t)
    PROVE  NextSeq(t) \in Nat /\ \A h \in Range(t.history) : h.seq \in Nat /\ h.seq < NextSeq(t)
<1> DEFINE g == t.history
<1>1. Rising(g) /\ Len(g) \in Nat /\ DOMAIN g = 1..Len(g)
    BY LenProperties DEF Session, Rising
<1>2. NextSeq(t) = IF g = <<>> THEN 0 ELSE g[Len(g)].seq + 1
    BY DEF NextSeq, Last
<1> HIDE DEF g
<1>3. CASE g = <<>>
    BY <1>1, <1>2, <1>3 DEF Range, g
<1>4. CASE g # <<>>
  <2>1. Len(g) \in DOMAIN g
      BY <1>1, <1>4, EmptySeq DEF Rising
  <2>2. NextSeq(t) \in Nat /\ NextSeq(t) = g[Len(g)].seq + 1 /\ g[Len(g)].seq \in Nat
      BY <1>1, <1>2, <1>4, <2>1 DEF Rising
  <2>3. ASSUME NEW i \in DOMAIN g
        PROVE  g[i].seq \in Nat /\ g[i].seq < NextSeq(t)
    <3>1. g[i].seq \in Nat /\ (i = Len(g) \/ i < Len(g))
        BY <1>1 DEF Rising
    <3>2. i < Len(g) => g[i].seq < g[Len(g)].seq
        BY <1>1, <2>1 DEF Rising
    <3> QED
        BY <2>2, <3>1, <3>2
  <2> QED
      BY <2>2, <2>3 DEF Range, g
<1> QED
    BY <1>3, <1>4

(* A step that notes what it records keeps it so.                          *)
LEMMA NotesKeep ==
    ASSUME NEW refs, NEW since, NEW x, Session(x.t), Noting(refs, since, x.t, x.recorded),
           Current(x.t).ref \in refs, NEW y, Session(y.t), Notes(x, y)
    PROVE  Noting(refs, since, y.t, y.recorded)
<1>1. NextSeq(x.t) \in Nat /\ \A h \in Range(x.t.history) : h.seq \in Nat /\ h.seq < NextSeq(x.t)
    BY SeqsBelow
<1>2. CASE y.t.history = x.t.history /\ y.recorded = x.recorded
    BY <1>2 DEF Noting, NextSeq
<1>3. CASE \E p : /\ y.t.history = Append(x.t.history, p) /\ p.seq = NextSeq(x.t)
                  /\ Current(x.t) # None /\ p.ref = Current(x.t).ref
                  /\ x.recorded[p.ref] = None
                  /\ y.recorded = [x.recorded EXCEPT ![p.ref] = p.seq]
  <2>1. PICK p : /\ y.t.history = Append(x.t.history, p) /\ p.seq = NextSeq(x.t)
                 /\ p.ref \in refs /\ x.recorded[p.ref] = None
                 /\ y.recorded = [x.recorded EXCEPT ![p.ref] = p.seq]
      BY <1>3
  <2>2. Rising(x.t.history)
      BY DEF Session
  <2>3. Range(y.t.history) = Range(x.t.history) \cup {p}
    <3> DEFINE S == Range(x.t.history) \cup {p}
    <3>1. x.t.history \in Seq(S) /\ p \in S
        BY <2>2, SeqMonotonic DEF Rising
    <3> HIDE DEF S
    <3>2. /\ Len(x.t.history) \in Nat /\ DOMAIN x.t.history = 1..Len(x.t.history)
          /\ DOMAIN y.t.history = 1..(Len(x.t.history) + 1)
          /\ \A i \in 1..Len(x.t.history) : y.t.history[i] = x.t.history[i]
          /\ y.t.history[Len(x.t.history) + 1] = p
        BY <2>1, <3>1, LenProperties, AppendProperties
    <3>3. \A i \in 1..(Len(x.t.history) + 1) : i \in 1..Len(x.t.history) \/ i = Len(x.t.history) + 1
        BY <3>2
    <3>4. Len(x.t.history) + 1 \in DOMAIN y.t.history /\ DOMAIN x.t.history \subseteq DOMAIN y.t.history
        BY <3>2
    <3> QED
        BY <3>2, <3>3, <3>4 DEF Range
  <2>4. NextSeq(y.t) = p.seq + 1
    <3>1. Last(y.t.history) = p
        BY <2>1, <2>2, FrontIs
    <3>2. y.t.history # <<>>
        BY <2>3 DEF Range
    <3> QED
        BY <3>1, <3>2 DEF NextSeq
  <2>5. since \in Nat /\ since <= p.seq /\ p.seq \in Nat
      BY <1>1, <2>1 DEF Noting
  <2>6. y.recorded = [r \in refs |-> y.recorded[r]]
        /\ \A r \in refs : y.recorded[r] = IF r = p.ref THEN p.seq ELSE x.recorded[r]
      BY <2>1 DEF Noting
  <2>7. ASSUME NEW h \in Range(x.t.history), h.seq >= since
        PROVE  h.ref \in refs /\ y.recorded[h.ref] = h.seq
    <3>1. h.ref \in refs /\ x.recorded[h.ref] = h.seq /\ h.seq \in Nat
        BY <1>1, <2>7 DEF Noting
    <3>2. h.ref # p.ref
        BY <2>1, <3>1, PlayConstants
    <3> QED
        BY <2>6, <3>1, <3>2
  <2>8. p.ref \in refs /\ y.recorded[p.ref] = p.seq
      BY <2>1, <2>6
  <2>9. since <= NextSeq(y.t)
      BY <2>4, <2>5
  <2> QED
      BY <2>3, <2>5, <2>6, <2>7, <2>8, <2>9 DEF Noting
<1> QED
    BY <1>2, <1>3 DEF Notes

(* What a report comes to, stepping through the entries between: where     *)
(* they end, with what was recorded noted.                                 *)
LEMMA SteppedThroughIs ==
    ASSUME NEW t, Session(t), NEW path, NEW recorded, NEW n \in Nat, n # 0, DOMAIN path = 1..n
    PROVE  LET x == SteppedThrough(t, path, recorded)
           IN  /\ From(t.history, x.t)
               /\ x.ok => Plays(x.t, path[n])
               /\ \A refs, since :
                     /\ x.ok /\ Noting(refs, since, t, recorded)
                     /\ Current(t).ref \in refs /\ \A i \in 1..n : path[i] \in refs
                     => Noting(refs, since, x.t, x.recorded)
<1> DEFINE base == [t |-> t, recorded |-> recorded, ok |-> TRUE]
           g == Path(base, path, DOMAIN path)
           Good == {T \in SUBSET (1..n) :
                        /\ Stepped(t.history, g[T])
                        /\ T # {} /\ g[T].ok => Plays(g[T].t, path[Max(T)])}
<1>1. SteppedThrough(t, path, recorded) = g[DOMAIN path]
    BY DEF SteppedThrough, FoldLeft, MapThenFoldSet, Path
<1>2. Stepped(t.history, base) /\ Rising(t.history) /\ base.t = t /\ base.recorded = recorded
    BY FromItself DEF Stepped, Session
<1> HIDE DEF base
<1>3. \A f, D : [A \in SUBSET D |-> IF A = {} THEN base ELSE PassEntry(f[A \ {Max(A)}], path[Max(A)])]
                    = Steps(TRUE, base, path, f, D)
    BY DEF Steps, Took
<1>4. \E f : f = Steps(TRUE, base, path, f, 1..n)
    BY FoldExists
<1>5. g = Steps(TRUE, base, path, g, 1..n)
    BY <1>3, <1>4 DEF Path
<1> HIDE DEF g
<1>6. \A T \in SUBSET (1..n) : g[T] = IF T = {} THEN base ELSE PassEntry(g[T \ {Max(T)}], path[Max(T)])
    BY <1>5 DEF Steps, Took
<1>7. {} \in Good
    BY <1>2, <1>6
<1>8. ASSUME NEW T \in SUBSET (1..n), T # {}, Stepped(t.history, g[T \ {Max(T)}])
      PROVE  /\ Stepped(t.history, g[T])
             /\ g[T].ok => /\ g[T \ {Max(T)}].ok /\ Plays(g[T].t, path[Max(T)])
                           /\ Notes(g[T \ {Max(T)}], g[T])
  <2>1. g[T] = PassEntry(g[T \ {Max(T)}], path[Max(T)])
      BY <1>6, <1>8
  <2> QED
      BY <1>2, <1>8, <2>1, PassEntryIs
<1>9. \A T \in SUBSET (1..n) : T # {} /\ T \ {Max(T)} \in Good => T \in Good
    BY <1>8
<1> HIDE DEF Good
<1>10. 1..n \in Good
    BY <1>7, <1>9, ByGreatest
<1>11. Max(1..n) = n
  <2>1. 1..n # {} /\ n \in 1..n
      OBVIOUS
  <2>2. Max(1..n) \in 1..n /\ n <= Max(1..n)
      BY <2>1, GreatestPlace
  <2> QED
      BY <2>2
<1>12. From(t.history, g[1..n].t) /\ (g[1..n].ok => Plays(g[1..n].t, path[n]))
    BY <1>10, <1>11 DEF Good, Stepped
<1>13. ASSUME NEW refs, NEW since, Noting(refs, since, t, recorded),
              Current(t).ref \in refs, \A i \in 1..n : path[i] \in refs
       PROVE  g[1..n].ok => Noting(refs, since, g[1..n].t, g[1..n].recorded)
  <2> DEFINE Fine == {T \in SUBSET (1..n) :
                         /\ Stepped(t.history, g[T])
                         /\ g[T].ok => /\ Noting(refs, since, g[T].t, g[T].recorded)
                                       /\ Current(g[T].t).ref \in refs}
  <2>1. {} \in Fine
      BY <1>2, <1>6, <1>13
  <2>2. ASSUME NEW T \in SUBSET (1..n), T # {}, T \ {Max(T)} \in Fine
        PROVE  T \in Fine
    <3> DEFINE x == g[T \ {Max(T)}]
               y == g[T]
    <3>1. /\ Stepped(t.history, x)
          /\ x.ok => Noting(refs, since, x.t, x.recorded) /\ Current(x.t).ref \in refs
        BY <2>2
    <3>2. /\ Stepped(t.history, y)
          /\ y.ok => x.ok /\ Plays(y.t, path[Max(T)]) /\ Notes(x, y)
        BY <1>8, <2>2, <3>1
    <3>3. Max(T) \in 1..n
        BY <2>2, GreatestPlace
    <3> HIDE DEF x, y
    <3>4. Session(x.t) /\ Session(y.t)
        BY <3>1, <3>2 DEF Stepped, From
    <3>5. y.ok => Noting(refs, since, y.t, y.recorded)
        BY <3>1, <3>2, <3>4, NotesKeep
    <3>6. y.ok => Current(y.t).ref \in refs
        BY <1>13, <3>2, <3>3 DEF Plays
    <3> QED
        BY <3>2, <3>5, <3>6 DEF y
  <2> HIDE DEF Fine
  <2>3. 1..n \in Fine
      BY <2>1, <2>2, ByGreatest
  <2> QED
      BY <2>3 DEF Fine
<1> QED
    BY <1>1, <1>12, <1>13

----------------------------------------------------------------------------
(* Plays stored                                                            *)

(* A session's plays once stored: those of h the newest of its plays do    *)
(* not hold are older than all of them.                                    *)
Grown(h, g) ==
    \A i \in DOMAIN h : \/ \E j \in DOMAIN g : g[j] = h[i]
                        \/ g # <<>> /\ h[i].seq < g[1].seq

(* Plays that go on from h hold all of h.                                  *)
LEMMA GrownBy ==
    ASSUME NEW h, NEW g, Rising(h), Rising(g), Continues(h, g)
    PROVE  Grown(h, g)
<1>1. DOMAIN h = 1..Len(h) /\ DOMAIN g = 1..Len(g) /\ Len(h) \in Nat /\ Len(g) \in Nat
    BY LenProperties DEF Rising
<1>2. \A i \in DOMAIN h : i \in DOMAIN g /\ g[i] = h[i]
    BY <1>1 DEF Continues
<1> QED
    BY <1>2 DEF Grown

(* With the oldest pushed out, what is missing is older than the rest.     *)
LEMMA NewestKept ==
    ASSUME NEW h, Rising(h), NEW g, Rising(g), Continues(h, g), Len(g) > Kept
    PROVE  LET k == SubSeq(g, Len(g) - Kept + 1, Len(g))
           IN  Rising(k) /\ Grown(h, k) /\ Range(k) \subseteq Range(g) /\ k # <<>> /\ Last(k) = Last(g)
<1> DEFINE m == Len(g) - Kept + 1
           k == SubSeq(g, m, Len(g))
<1>1. /\ h \in Seq(Range(h)) /\ Len(h) \in Nat /\ DOMAIN h = 1..Len(h)
      /\ g \in Seq(Range(g)) /\ Len(g) \in Nat /\ DOMAIN g = 1..Len(g)
    BY LenProperties DEF Rising
<1>2. m \in 1..Len(g) /\ Kept >= 1 /\ Kept \in Nat
    BY <1>1, EngineConstants
<1>3. \A i \in m..Len(g) : g[i] \in Range(g)
    BY <1>1, <1>2, ElementOfSeq
<1> HIDE DEF m
<1>4. /\ k \in Seq(Range(g)) /\ Len(k) = Len(g) - m + 1
      /\ \A i \in 1..(Len(g) - m + 1) : k[i] = g[m + i - 1]
    BY <1>1, <1>2, <1>3, SubSeqProperties
<1> HIDE DEF k
<1>5. DOMAIN k = 1..Len(k) /\ Len(k) \in Nat /\ Len(k) >= 1
    BY <1>1, <1>2, <1>4, LenProperties
<1>6. ASSUME NEW i \in DOMAIN k
      PROVE  m + i - 1 \in DOMAIN g /\ k[i] = g[m + i - 1]
  <2>1. i \in 1..(Len(g) - m + 1) /\ Len(g) \in Nat /\ m \in 1..Len(g)
      BY <1>1, <1>2, <1>4, <1>5
  <2>2. m + i - 1 \in 1..Len(g)
      BY <2>1
  <2> QED
      BY <1>1, <1>4, <2>1, <2>2
<1>7. k \in Seq(Range(k)) /\ k # <<>>
    BY <1>4, <1>5, SeqOfRange, EmptySeq
<1>8. Rising(k)
  <2>1. \A i \in DOMAIN k : k[i].seq \in Nat /\ k[i].queue \in QueueTypes
      BY <1>6 DEF Rising
  <2>2. ASSUME NEW i \in DOMAIN k, NEW j \in DOMAIN k, i < j
        PROVE  k[i].seq < k[j].seq
    <3>1. m + i - 1 < m + j - 1
        BY <1>2, <1>5, <2>2
    <3> QED
        BY <1>6, <3>1 DEF Rising
  <2> QED
      BY <1>7, <2>1, <2>2 DEF Rising
<1>9. ASSUME NEW i \in DOMAIN h
      PROVE  (\E j \in DOMAIN k : k[j] = h[i]) \/ h[i].seq < k[1].seq
  <2>1. i \in DOMAIN g /\ g[i] = h[i] /\ i \in Nat
      BY <1>1 DEF Continues
  <2>2. CASE i < m
    <3>1. 1 \in DOMAIN k /\ m + 1 - 1 = m /\ m \in DOMAIN g
        BY <1>1, <1>2, <1>5
    <3>2. k[1] = g[m]
        BY <1>6, <3>1
    <3> QED
        BY <2>1, <2>2, <3>1, <3>2 DEF Rising
  <2>3. CASE i >= m
    <3>1. i - m + 1 \in 1..(Len(g) - m + 1) /\ m + (i - m + 1) - 1 = i
        BY <1>1, <1>2, <2>1, <2>3
    <3>2. i - m + 1 \in DOMAIN k /\ k[i - m + 1] = g[i]
        BY <1>4, <1>5, <3>1
    <3> QED
        BY <2>1, <3>2
  <2> QED
      BY <1>2, <2>1, <2>2, <2>3
<1>10. Range(k) \subseteq Range(g)
    BY <1>6 DEF Range
<1>11. Last(k) = Last(g)
  <2>1. Len(k) \in DOMAIN k /\ m + Len(k) - 1 = Len(g)
      BY <1>1, <1>2, <1>4, <1>5
  <2> QED
      BY <1>6, <2>1 DEF Last
<1> QED
    BY <1>7, <1>8, <1>9, <1>10, <1>11 DEF Grown, k, m

(* A session stored: every play recorded is there or pushed out.           *)
LEMMA StoredIs ==
    ASSUME NEW h, Rising(h), NEW t, From(h, t)
    PROVE  LET u == Stored(t)
           IN  /\ Session(u) /\ Grown(h, u.history) /\ Current(u) = Current(t)
               /\ NextSeq(u) = NextSeq(t) /\ Range(u.history) \subseteq Range(t.history)
<1> DEFINE g == t.history
           k == SubSeq(g, Len(g) - Kept + 1, Len(g))
           u == Stored(t)
<1>1. Rising(g) /\ Continues(h, g) /\ Session(t)
    BY DEF From, Session
<1>2. /\ Shaped(u) /\ u.history = (IF Len(g) > Kept THEN k ELSE g)
      /\ u.q = t.q /\ u.digest = t.digest /\ u.saved = t.saved
      /\ u.active = t.active /\ u.switch = t.switch
    BY <1>1 DEF Session, Shaped, Stored
<1> HIDE DEF u
<1>3. Current(u) = Current(t)
    BY <1>2 DEF Current
<1>4. CASE Len(g) > Kept
  <2>1. /\ Rising(k) /\ Grown(h, k) /\ Range(k) \subseteq Range(g) /\ k # <<>> /\ Last(k) = Last(g)
      BY <1>1, <1>4, NewestKept
  <2>2. g # <<>>
    <3>1. Len(g) # 0
        BY <1>4, EngineConstants
    <3> QED
        BY <3>1
  <2> HIDE DEF k, g
  <2>3. NextSeq(u) = NextSeq(t)
      BY <1>2, <1>4, <2>1, <2>2 DEF NextSeq, g
  <2>4. Session(u)
      BY <1>1, <1>2, <1>4, <2>1 DEF Session
  <2> QED
      BY <1>2, <1>3, <1>4, <2>1, <2>3, <2>4 DEF u, g
<1>5. CASE ~(Len(g) > Kept)
  <2>1. u.history = t.history
      BY <1>2, <1>5
  <2>2. Session(u)
      BY <1>1, <1>2, <2>1 DEF Session
  <2>3. Grown(h, u.history)
      BY <1>1, <2>1, GrownBy
  <2> QED
      BY <1>3, <2>1, <2>2, <2>3 DEF u, NextSeq
<1> QED
    BY <1>4, <1>5

(* A session with its position, or a plan's entry, moved.                  *)
LEMMA AtIs ==
    ASSUME NEW t, Session(t), NEW type \in QueueTypes, NEW ref
    PROVE  LET u == At(type, t, ref)
           IN  /\ Session(u) /\ u.history = t.history /\ u.pick = t.pick /\ Current(u) = Current(t)
               /\ \A other \in QueueTypes : FollowedBy(u, other) = FollowedBy(t, other)
<1> DEFINE u == At(type, t, ref)
           new == [t.q[type] EXCEPT !.pos = ref]
<1>1. u = [t EXCEPT !.q[type] = new]
    BY DEF At
<1>2. Laid(new)
    BY LaidStays DEF Session, Queues
<1>3. /\ new.cur = t.q[type].cur /\ new.user = t.q[type].user
      /\ new.ctx = t.q[type].ctx
    BY DEF Session, Queues, Laid
<1> HIDE DEF u, new
<1>4. /\ Shaped(u) /\ u.q = [t.q EXCEPT ![type] = new] /\ u.history = t.history
      /\ u.digest = t.digest /\ u.saved = t.saved /\ u.pick = t.pick
      /\ u.active = t.active /\ u.switch = t.switch
    BY <1>1 DEF Session, Shaped
<1>5. Session(u)
  <2>1. u.active \in QueueTypes /\ u.switch \in QueueTypes \cup {None}
      BY <1>4 DEF Session
  <2> QED
      BY <1>2, <1>4, <2>1, QueuePut
<1>6. \A other \in QueueTypes : /\ u.q[other].cur = t.q[other].cur
                                /\ u.q[other].user = t.q[other].user
                                /\ u.q[other].ctx = t.q[other].ctx
    BY <1>3, <1>4 DEF Session, Queues
<1>7. \A other \in QueueTypes : FollowedBy(u, other) = FollowedBy(t, other)
    BY <1>4, <1>6 DEF FollowedBy, InDigest, NewestOwn
<1>8. Current(u) = Current(t)
    BY <1>4, <1>6 DEF Session, Current
<1> QED
    BY <1>4, <1>5, <1>7, <1>8 DEF u

(* A session with another queue of type, of the same plays.                *)
LEMMA QueueIs ==
    ASSUME NEW t, Session(t), NEW type \in QueueTypes, NEW new, Laid(new)
    PROVE  LET u == [t EXCEPT !.q[type] = new]
           IN  /\ Session(u) /\ u.history = t.history /\ u.active = t.active /\ u.q[type] = new
<1> DEFINE u == [t EXCEPT !.q[type] = new]
<1>1. /\ Shaped(u) /\ u.q = [t.q EXCEPT ![type] = new] /\ u.history = t.history
      /\ u.digest = t.digest /\ u.saved = t.saved
      /\ u.active = t.active /\ u.switch = t.switch
    BY DEF Session, Shaped
<1> HIDE DEF u
<1>2. u.active \in QueueTypes /\ u.switch \in QueueTypes \cup {None} /\ u.q[type] = new
    BY <1>1 DEF Session, Queues
<1> QED
    BY <1>1, <1>2, QueuePut DEF u

(* A seek back: from a later entry of a plan to an earlier.                *)
Back(to, from) == to \in Nat /\ from \in Nat /\ to < from

(* A seek back moves entries and the current item, and no play.            *)
LEMMA MovedBackIs ==
    ASSUME NEW t, Session(t), NEW type \in QueueTypes, NEW entries,
           NEW to, NEW from, Back(to, from)
    PROVE  LET u == MovedBack(t, type, entries, to, from)
           IN  /\ Session(u) /\ u.history = t.history
               /\ type = t.active => Plays(u, entries[to])
<1> USE DEF Back
<1> DEFINE q == t.q[type]
           target == entries[to]
           inCtx == {n \in DOMAIN q.ctx : from < Len(entries) /\ q.ctx[n].ref = entries[from + 1]}
           last == SelectSeq(t.history, LAMBDA h : h.queue = type /\ h.ref = target)
           after == IF last # <<>> THEN Last(last).after
                    ELSE IF q.cur.replayOf # None THEN q.cur.replayOf ELSE q.cur.after
           place == IF inCtx = {} THEN WalkEnd(q.user) ELSE Min(inCtx)
           Put(line) == SubSeq(line, 1, place - 1) \o PutBack(entries, to, from)
                            \o SubSeq(line, place, Len(line))
           cur == [Item(target) EXCEPT !.after = after]
           a == [q EXCEPT !.cur = cur]
           newUser == IF inCtx = {} THEN Put(q.user) ELSE q.user
           newCtx == IF inCtx = {} THEN q.ctx ELSE Put(q.ctx)
           b == [a EXCEPT !.user = newUser]
           c == [b EXCEPT !.ctx = newCtx]
<1>1. MovedBack(t, type, entries, to, from) = [t EXCEPT !.q[type] = c]
  <2> HIDE DEF q, target, last, inCtx, after, place, Put
  <2> DEFINE t1 == [t EXCEPT !.q[type].cur = cur]
             t2 == [t1 EXCEPT !.q[type].user = newUser]
             t3 == [t2 EXCEPT !.q[type].ctx = newCtx]
  <2>0. MovedBack(t, type, entries, to, from)
          = [t EXCEPT !.q[type].cur = cur, !.q[type].user = newUser, !.q[type].ctx = newCtx]
      BY Zenon DEF MovedBack, q, target, last, inCtx, after, place, Put
  <2> HIDE DEF cur, newUser, newCtx
  <2>1. MovedBack(t, type, entries, to, from) = t3
      BY <2>0
  <2>2. /\ t = [t EXCEPT !.q = t.q] /\ t.q = [v \in QueueTypes |-> t.q[v]] /\ q = t.q[type]
        /\ \A x : [t EXCEPT !.q = x].q = x
      BY DEF Session, Queues, Shaped, q
  <2>3. t1 = [t EXCEPT !.q = [t.q EXCEPT ![type] = a]]
      BY <2>2
  <2> HIDE DEF a, t1
  <2>4. t1.q[type] = a
      BY <2>2, <2>3
  <2>5. t2 = [t EXCEPT !.q = [t.q EXCEPT ![type] = b]]
    <3>1. t2 = [t1 EXCEPT !.q = [t1.q EXCEPT ![type] = b]]
        BY <2>4
    <3> HIDE DEF b, t2
    <3> QED
        BY <2>2, <2>3, <3>1
  <2> HIDE DEF b, t2
  <2>6. t2.q[type] = b
      BY <2>2, <2>5
  <2>7. t3 = [t EXCEPT !.q = [t.q EXCEPT ![type] = c]]
    <3>1. t3 = [t2 EXCEPT !.q = [t2.q EXCEPT ![type] = c]]
        BY <2>6
    <3> HIDE DEF c, t3
    <3> QED
        BY <2>2, <2>5, <3>1
  <2> QED
      BY <2>1, <2>7
<1>2. Laid(q)
    BY DEF Session, Queues
<1> HIDE DEF q
<1>3. IsLine(q.user) /\ IsLine(q.ctx)
    BY <1>2 DEF Laid
<1> HIDE DEF target, last, after
<1>4. IsItem(cur) /\ cur.ref = target
    BY NewItem, ItemStays
<1> HIDE DEF cur
<1>5. Laid(a) /\ a.user = q.user /\ a.ctx = q.ctx /\ a.cur = cur
    BY <1>2, <1>4, LaidStays DEF Laid
<1> HIDE DEF a
<1>6. IsLine(PutBack(entries, to, from))
  <2> DEFINE put == PutBack(entries, to, from)
  <2>1. from - to \in Nat
      OBVIOUS
  <2>2. put = [n \in 1..(from - to) |-> put[n]] /\ \A n \in 1..(from - to) : IsItem(put[n])
      BY <2>1, NewItem DEF PutBack
  <2> HIDE DEF put
  <2> QED
      BY <2>1, <2>2, LineMade DEF put
<1>7. ASSUME NEW line, IsLine(line), place \in 1..(Len(line) + 1)
      PROVE  IsLine(Put(line))
  <2>1. Len(line) \in Nat
      BY <1>7, InLine
  <2> HIDE DEF place
  <2>2. /\ place \in Nat /\ place - 1 \in Nat /\ place - 1 <= Len(line) /\ place >= 1
        /\ Len(line) <= Len(line) /\ 1 \in Nat /\ 1 >= 1
      BY <1>7, <2>1
  <2>3. IsLine(SubSeq(line, 1, place - 1)) /\ IsLine(SubSeq(line, place, Len(line)))
      BY <1>7, <2>1, <2>2, LinePart
  <2> QED
      BY <1>6, <2>3, LineJoined
<1>8. inCtx = {} => IsLine(Put(q.user))
  <2>1. inCtx = {} => place \in 1..(Len(q.user) + 1)
      BY <1>3, WalkEndIs
  <2> HIDE DEF place, Put
  <2> QED
      BY <1>3, <1>7, <2>1
<1>9. inCtx # {} => IsLine(Put(q.ctx))
  <2>1. Len(q.ctx) \in Nat /\ DOMAIN q.ctx = 1..Len(q.ctx)
      BY <1>3, InLine
  <2>2. inCtx \in SUBSET Nat /\ inCtx \subseteq 1..Len(q.ctx)
      BY <2>1
  <2>3. inCtx # {} => place \in inCtx
    <3> HIDE DEF inCtx
    <3> QED
        BY <2>2, LeastOfAll
  <2> HIDE DEF inCtx, place
  <2>3a. \A m \in 1..Len(q.ctx) : m \in 1..(Len(q.ctx) + 1)
      BY <2>1
  <2>4. inCtx # {} => place \in 1..(Len(q.ctx) + 1)
      BY <2>2, <2>3, <2>3a, Zenon
  <2> HIDE DEF place, Put
  <2> QED
      BY <1>3, <1>7, <2>4
<1> HIDE DEF inCtx, place, Put
<1>10. Laid(b) /\ b.ctx = q.ctx /\ b.cur = cur
  <2>1. IsLine(newUser)
      BY <1>3, <1>8
  <2> HIDE DEF newUser
  <2> QED
      BY <1>5, <2>1, LaidStays DEF Laid
<1> HIDE DEF b
<1>11. Laid(c) /\ c.cur = cur
  <2>1. IsLine(newCtx)
      BY <1>3, <1>9
  <2> HIDE DEF newCtx
  <2> QED
      BY <1>10, <2>1, LaidStays DEF Laid
<1> HIDE DEF c
<1>12. LET u == [t EXCEPT !.q[type] = c]
       IN  /\ Session(u) /\ u.history = t.history /\ u.active = t.active /\ u.q[type] = c
    BY <1>11, QueueIs
<1> QED
    BY <1>1, <1>4, <1>11, <1>12 DEF Current, Plays, target

(* What has a key of a thing's in the index is of the thing: only a book's *)
(* chapters share one.                                                     *)
LEMMA KeyIsOf ==
    ASSUME NEW thing \in Things, NEW ref, Key(ref) \in Keys(thing)
    PROVE  ref \in Range(thing.entries)
<1> DEFINE Books(r) == {t \in Things : t.kind = "book" /\ r \in Range(t.entries)}
           Of(r) == CHOOSE t \in Books(r) : TRUE
<1>1. \A r : Key(r) = IF Books(r) = {} THEN r ELSE Head(Of(r).entries)
    BY DEF Key
<1>2. thing.kind # "album" /\ \E r \in Range(thing.entries) : Key(ref) = Key(r)
    BY DEF Keys
<1>3. PICK r \in Range(thing.entries) : Key(ref) = Key(r)
    BY <1>2
<1>4. \A x : Books(x) # {} => Of(x) \in Books(x)
    OBVIOUS
<1>5. \A t \in Things : Head(t.entries) \in Range(t.entries)
  <2>1. \A t \in Things : t.entries \in Seq(Range(t.entries)) /\ t.entries # <<>>
      BY PlayConstants
  <2> QED
      BY <2>1, HeadTailProperties
<1>6. \A x, b : b \in Books(x) <=> b \in Things /\ b.kind = "book" /\ x \in Range(b.entries)
    OBVIOUS
<1>7. ASSUME NEW b \in Things, b.kind = "book", NEW x \in Range(b.entries), x \in Range(thing.entries)
      PROVE  b = thing
    BY <1>2, <1>7, PlayConstants
<1> HIDE DEF Of, Books
<1>8. CASE Books(ref) = {} /\ Books(r) = {}
    BY <1>1, <1>3, <1>8
<1>9. CASE Books(ref) = {} /\ Books(r) # {}
  <2>1. Of(r) = thing /\ ref = Head(Of(r).entries)
      BY <1>1, <1>3, <1>4, <1>6, <1>7, <1>9
  <2> QED
      BY <1>5, <2>1
<1>10. CASE Books(ref) # {}
  <2> DEFINE b == Of(ref)
  <2>1. b \in Things /\ b.kind = "book" /\ ref \in Range(b.entries) /\ Key(ref) = Head(b.entries)
      BY <1>1, <1>4, <1>6, <1>10
  <2>2. Head(b.entries) \in Range(b.entries)
      BY <1>5, <2>1
  <2> HIDE DEF b
  <2>3. CASE Books(r) = {}
    <3>1. r \in Range(b.entries)
        BY <1>1, <1>3, <2>1, <2>2, <2>3
    <3> QED
        BY <1>6, <2>1, <2>3, <3>1
  <2>4. CASE Books(r) # {}
    <3>1. Of(r) = thing
        BY <1>4, <1>6, <1>7, <2>4
    <3>2. Head(b.entries) = Head(thing.entries)
        BY <1>1, <1>3, <2>1, <2>4, <3>1
    <3>3. Head(b.entries) \in Range(thing.entries)
        BY <1>5, <3>2
    <3> QED
        BY <1>7, <2>1, <2>2, <3>3
  <2> QED
      BY <2>3, <2>4
<1> QED
    BY <1>8, <1>9, <1>10

(* A plan loaded: a switch, steps on, or its thing played now, and one of  *)
(* its entries plays.                                                      *)
LEMMA PlayedOnIs ==
    ASSUME NEW t, Session(t), NEW thing \in Things, NEW heldBefore
    PROVE  LET u == PlayedOn(t, thing, heldBefore)
           IN  From(t.history, u) /\ \E ref \in Range(thing.entries) : Plays(u, ref)
<1> DEFINE before == {Key(r) : r \in heldBefore} \cup
                     (IF Current(t) = None THEN {} ELSE {Key(Current(t).ref)})
           steps == IF Current(t) = None THEN {} ELSE StepsTo(t, thing, before)
           n == Min(steps)
           held == CHOOSE q \in HeldBy(t, thing) : TRUE
<1>1. PlayedOn(t, thing, heldBefore) =
          IF HeldBy(t, thing) # {} THEN SwitchTo(t, held)
          ELSE IF steps # {} THEN SteppedOn(t, n)
          ELSE PlayedNow(t, thing, TRUE)
    BY DEF PlayedOn
<1>2. CASE HeldBy(t, thing) # {}
  <2>1. held \in HeldBy(t, thing)
      BY <1>2
  <2> HIDE DEF held
  <2>2. /\ held \in QueueTypes /\ t.q[held].cur # None
        /\ t.q[held].cur.ref \in Range(thing.entries)
      BY <2>1 DEF HeldBy
  <2>3. CASE held = t.active
    <3>1. SwitchTo(t, held) = t /\ Plays(t, t.q[held].cur.ref)
        BY <2>2, <2>3 DEF SwitchTo, Plays, Current, Session, Queues, Laid
    <3> QED
        BY <1>1, <1>2, <2>2, <3>1, FromItself
  <2>4. CASE held # t.active
    <3>1. From(t.history, SwitchTo(t, held)) /\ Plays(SwitchTo(t, held), t.q[held].cur.ref)
        BY <2>2, <2>4, SwitchToIs DEF Plays
    <3> QED
        BY <1>1, <1>2, <2>2, <3>1
  <2> QED
      BY <2>3, <2>4
<1>3. CASE HeldBy(t, thing) = {} /\ steps # {}
  <2>1. /\ steps \in SUBSET Nat
        /\ \A k \in steps : /\ Current(SteppedOn(t, k)) # None
                            /\ Key(Current(SteppedOn(t, k)).ref) \in Keys(thing)
      BY PlayConstants DEF StepsTo
  <2> HIDE DEF steps
  <2>2. n \in steps /\ n \in Nat
      BY <1>3, <2>1, LeastOfAll
  <2> DEFINE u == SteppedOn(t, n)
  <2>3. From(t.history, u) /\ Current(u) # None /\ Key(Current(u).ref) \in Keys(thing)
      BY <2>1, <2>2, SteppedOnIs
  <2> HIDE DEF u, n
  <2>4. Plays(u, Current(u).ref)
      BY <2>3 DEF From, Session, Queues, Laid, Current, Plays
  <2>5. Current(u).ref \in Range(thing.entries)
      BY <2>3, KeyIsOf
  <2> QED
      BY <1>1, <1>3, <2>3, <2>4, <2>5 DEF u
<1>4. CASE HeldBy(t, thing) = {} /\ steps = {}
  <2>1. HasEntries(thing) /\ thing.entries[1] \in Range(thing.entries)
    <3>1. thing.entries \in Seq(Range(thing.entries)) /\ thing.entries # <<>>
        BY PlayConstants
    <3> QED
        BY <3>1, HeadTailProperties DEF HasEntries
  <2> QED
      BY <1>1, <1>4, <2>1, PlayedNowIs
<1> QED
    BY <1>2, <1>3, <1>4

----------------------------------------------------------------------------
(* The invariant and the actions that keep it                              *)

(* Runs none of which, on the revision it read, follows anything but what  *)
(* the session's queues are on.                                            *)
AsRead(rs, t) ==
    /\ rs = [n \in Runs |-> rs[n]]
    /\ \A n \in Runs :
          /\ rs[n] \in [tries : {0, 1, 2}, fresh : BOOLEAN, after : {rs[n].after}]
          /\ rs[n].fresh => \A type \in QueueTypes : rs[n].after[type] = FollowedBy(t, type)

(* A device's play is of what a plan plays.                                *)
Opened(p) ==
    p \in [id : {p.id}, thing : Things, since : {p.since}, recorded : {p.recorded}]

(* The plans loading, each of a thing there is.                            *)
Waiting(l) ==
    /\ l = [id \in Ids |-> l[id]]
    /\ \A id \in Ids : l[id] # None => l[id].thing \in Things

(* The invariant: with PicksCurrent, what its steps use.                   *)
IInv ==
    /\ Session(s)
    /\ AsRead(runs, s)
    /\ Waiting(loading)
    /\ play # None => Opened(play)
    /\ PicksCurrent

(* A run just begun follows what the queues are on, and is under way.      *)
LEMMA RefreshedIs ==
    ASSUME NEW rs, NEW t, AsRead(rs, t)
    PROVE  /\ AsRead(Refreshed(rs, t), t)
           /\ Free(rs) # {} => Free(Refreshed(rs, t)) # Runs
<1> DEFINE os == Refreshed(rs, t)
           new == RunOn(t, 1)
<1>1. os = [n \in Runs |-> IF n = Min(Free(rs)) THEN new ELSE rs[n]]
    BY DEF Refreshed, AsRead
<1>2. /\ new \in [tries : {0, 1, 2}, fresh : BOOLEAN, after : {new.after}] /\ new.tries = 1
      /\ \A type \in QueueTypes : new.after[type] = FollowedBy(t, type)
    BY DEF RunOn
<1> HIDE DEF os, new
<1>3. AsRead(os, t)
    BY <1>1, <1>2 DEF AsRead
<1>4. ASSUME Free(rs) # {}
      PROVE  Free(os) # Runs
  <2>1. Free(rs) \in SUBSET Nat /\ Free(rs) \subseteq Runs
      BY PlayConstants DEF Free
  <2>2. Min(Free(rs)) \in Runs
      BY <1>4, <2>1, LeastOfAll
  <2>3. os[Min(Free(rs))].tries = 1
      BY <1>1, <1>2, <2>2
  <2> QED
      BY <2>2, <2>3 DEF Free
<1> QED
    BY <1>3, <1>4 DEF os

(* No run is on the revision a save leaves.                                *)
LEMMA OutdatedIs ==
    ASSUME NEW rs, NEW t, AsRead(rs, t), NEW u
    PROVE  LET os == [n \in Runs |-> Outdated(rs[n])]
           IN  AsRead(os, u) /\ Free(rs) \subseteq Free(os)
<1> DEFINE os == [n \in Runs |-> Outdated(rs[n])]
<1>1. ASSUME NEW n \in Runs
      PROVE  /\ Outdated(rs[n]) \in [tries : {0, 1, 2}, fresh : BOOLEAN, after : {Outdated(rs[n]).after}]
             /\ ~Outdated(rs[n]).fresh
             /\ rs[n].tries = 0 => Outdated(rs[n]).tries = 0
  <2>1. rs[n] \in [tries : {0, 1, 2}, fresh : BOOLEAN, after : {rs[n].after}]
      BY DEF AsRead
  <2>2. CASE rs[n].tries # 1
      BY <2>2 DEF Outdated, NoRun
  <2>3. CASE rs[n].tries = 1
      BY <2>1, <2>3 DEF Outdated
  <2> QED
      BY <2>2, <2>3
<1> QED
    BY <1>1 DEF AsRead, Free

(* A save of what goes on from the session keeps the invariant: its own    *)
(* run is under way, so nothing is asked of the picks.                     *)
LEMMA SaveKeeps ==
    ASSUME IInv, NEW t, From(s.history, t), Save(t), play' # None => Opened(play'), Waiting(loading')
    PROVE  IInv' /\ Grown(s.history, s'.history)
<1> DEFINE os == [n \in Runs |-> Outdated(runs[n])]
<1>1. s' = Stored(t) /\ runs' = Refreshed(os, s') /\ Free(runs) # {}
    BY DEF Save
<1>2. Session(s') /\ Grown(s.history, s'.history)
    BY <1>1, StoredIs DEF IInv, Session
<1>3. AsRead(os, s') /\ Free(os) # {}
    BY <1>1, OutdatedIs DEF IInv
<1> HIDE DEF os
<1>4. AsRead(runs', s') /\ Free(runs') # Runs
    BY <1>1, <1>3, RefreshedIs
<1> QED
    BY <1>2, <1>4 DEF IInv, PicksCurrent

(* A position kept, or nothing of the session changed.                     *)
LEMMA Still ==
    ASSUME IInv, NEW t, s' = t, Session(t), t.history = s.history, t.pick = s.pick,
           \A type \in QueueTypes : FollowedBy(t, type) = FollowedBy(s, type),
           play' # None => Opened(play'), Waiting(loading'),
           \/ UNCHANGED runs
           \/ runs' = Refreshed(runs, t) /\ (Free(runs) = Runs \/ Free(runs) # {})
    PROVE  IInv' /\ Grown(s.history, s'.history)
<1>1. AsRead(runs, s')
    BY DEF IInv, AsRead
<1>2. AsRead(runs', s')
    BY <1>1, RefreshedIs
<1>3. PicksCurrent'
  <2>1. CASE UNCHANGED runs
      BY <2>1 DEF IInv, PicksCurrent
  <2>2. CASE runs' = Refreshed(runs, t) /\ Free(runs) # {}
      BY <1>1, <2>2, RefreshedIs DEF PicksCurrent
  <2>3. CASE Free(runs) = Runs
      BY <2>3 DEF IInv, PicksCurrent
  <2> QED
      BY <2>1, <2>2, <2>3
<1>4. Grown(s.history, s'.history)
    BY ContinuesItself, GrownBy DEF IInv, Session
<1> QED
    BY <1>2, <1>3, <1>4 DEF IInv

(* A play opened leaves session and runs as they are.                      *)
LEMMA OpenPlayKeeps ==
    ASSUME IInv, NEW id \in Ids, NEW thing \in Things, NEW before, OpenPlay(id, thing, before)
    PROVE  IInv' /\ Grown(s.history, s'.history)
<1>1. s' = s /\ runs' = runs /\ Opened(play')
    BY DEF OpenPlay, Opened
<1>2. Waiting(loading')
    BY DEF OpenPlay, IInv, Waiting
<1> QED
    BY <1>1, <1>2, Still DEF IInv

(* A plan loaded saves what it plays on to, or only begins a run.          *)
LEMMA LoadedKeeps ==
    ASSUME IInv, NEW id \in Ids, Loaded(id)
    PROVE  IInv' /\ Grown(s.history, s'.history)
<1>1. play' # None => Opened(play')
  <2>1. \/ play' = None \/ play' = play
        \/ play # None /\ play' = [play EXCEPT !.since = NextSeq(s')]
      BY DEF Loaded
  <2>2. play # None => Opened([play EXCEPT !.since = NextSeq(s')])
      BY DEF IInv, Opened
  <2> QED
      BY <2>1, <2>2 DEF IInv, Opened
<1>2. Waiting(loading') /\ loading[id].thing \in Things
    BY DEF Loaded, IInv, Waiting
<1>3. CASE Free(runs) # {} /\ runs' = Refreshed(runs, s) /\ UNCHANGED s
    BY <1>1, <1>2, <1>3, Still DEF IInv
<1>4. CASE Save(PlayedOn(s, loading[id].thing, loading[id].before))
    BY <1>1, <1>2, <1>4, PlayedOnIs, SaveKeeps DEF IInv
<1> QED
    BY <1>3, <1>4 DEF Loaded

(* Every tap saves.                                                        *)
LEMMA ChangeKeeps ==
    ASSUME IInv, NEW t, From(s.history, t), NEW moves, Change(t, moves)
    PROVE  IInv' /\ Grown(s.history, s'.history)
<1>1. Save(t) /\ (play' # None => Opened(play')) /\ Waiting(loading')
    BY DEF Change, IInv
<1> QED
    BY <1>1, SaveKeeps

(* The line p of n entries of refs, to the last.                           *)
PathTo(p, n, refs, last) ==
    n \in Nat /\ n # 0 /\ DOMAIN p = 1..n /\ (\A i \in 1..n : p[i] \in refs) /\ p[n] = last

(* The entries of a plan after one of them and up to another.              *)
LEMMA PartIs ==
    ASSUME NEW refs, NEW entries \in Seq(refs), NEW from \in 1..Len(entries),
           NEW at \in 1..Len(entries), from < at
    PROVE  PathTo(SubSeq(entries, from + 1, at), at - from, refs, entries[at])
<1> DEFINE p == SubSeq(entries, from + 1, at)
           n == at - from
<1>1. Len(entries) \in Nat
    BY LenProperties
<1>2. n \in Nat /\ n # 0 /\ from + 1 \in Nat /\ at - (from + 1) + 1 = n /\ (from + 1) + n - 1 = at
    BY <1>1
<1>3. \A i \in (from + 1)..at : i \in 1..Len(entries)
    BY <1>1
<1>4. \A i \in (from + 1)..at : entries[i] \in refs
    BY <1>3, ElementOfSeq
<1> HIDE DEF n
<1>5. /\ p \in Seq(refs)
      /\ Len(p) = (IF from + 1 <= at THEN at - (from + 1) + 1 ELSE 0)
      /\ \A i \in 1..(at - (from + 1) + 1) : p[i] = entries[(from + 1) + i - 1]
    BY <1>1, <1>2, <1>4, SubSeqProperties
<1> HIDE DEF p
<1>6. Len(p) = n /\ DOMAIN p = 1..n
    BY <1>1, <1>2, <1>5, LenProperties
<1>7. \A i \in 1..n : p[i] \in refs
    BY <1>5, <1>6, ElementOfSeq
<1>8. p[n] = entries[at]
    BY <1>2, <1>5
<1> QED
    BY <1>2, <1>6, <1>7, <1>8 DEF PathTo, p, n

(* A report keeps a position, or saves: a seek back with no play recorded, *)
(* else what was stepped through, with what it recorded noted.  What is    *)
(* saved plays the entry it reports.                                       *)
LEMMA ReportIs ==
    ASSUME IInv, NEW at, Report(at)
    PROVE  LET entries == play.thing.entries
           IN  /\ play # None /\ play.since # None /\ Opened(play) /\ loading' = loading
               /\ entries[at] \in Range(entries)
               /\ \/ \E t : /\ KeepPosition(t) /\ play' = play
                            /\ Session(t) /\ t.history = s.history /\ t.pick = s.pick
                            /\ Current(t) = Current(s)
                            /\ \A type \in QueueTypes : FollowedBy(t, type) = FollowedBy(s, type)
                  \/ \E t : /\ Save(t) /\ play' = play
                            /\ Session(t) /\ t.history = s.history /\ Plays(t, entries[at])
                  \/ \E t, recorded :
                        /\ Save(t) /\ play' = [play EXCEPT !.recorded = recorded]
                        /\ From(s.history, t) /\ Plays(t, entries[at])
                        /\ \A since : Noting(Range(entries), since, s, play.recorded) =>
                                          Noting(Range(entries), since, t, recorded)
<1> DEFINE entries == play.thing.entries
           refs == Range(entries)
           placed(type) == Min({n \in DOMAIN entries : entries[n] = s.q[type].cur.ref})
           path(type) == SubSeq(entries, placed(type) + 1, at)
           onward(type) == SteppedThrough(s, path(type), play.recorded)
<1>1. /\ play # None /\ play.since # None /\ Opened(play) /\ loading' = loading
      /\ at \in DOMAIN entries /\ entries \in Seq(refs)
      /\ DOMAIN entries = 1..Len(entries) /\ Len(entries) \in Nat
      /\ \A n \in DOMAIN entries : entries[n] \in refs
  <2>1. /\ play # None /\ play.since # None /\ Opened(play) /\ loading' = loading
        /\ at \in DOMAIN entries
      BY DEF Report, IInv
  <2>2. entries \in Seq(refs)
      BY <2>1, PlayConstants DEF Opened
  <2>3. \A n \in DOMAIN entries : entries[n] \in refs
      BY DEF Range
  <2> QED
      BY <2>1, <2>2, <2>3, LenProperties
<1>2. PICK type \in HeldBy(s, play.thing) :
         \/ /\ KeepPosition(IF placed(type) = at THEN At(type, s, entries[at]) ELSE s)
            /\ UNCHANGED play
         \/ /\ placed(type) < at /\ type = s.active /\ onward(type).ok
            /\ Save(At(type, onward(type).t, entries[at]))
            /\ play' = [play EXCEPT !.recorded = onward(type).recorded]
         \/ /\ placed(type) > at /\ type = s.active
            /\ Save(At(type, MovedBack(s, type, entries, at, placed(type)), entries[at]))
            /\ UNCHANGED play
    BY DEF Report
<1>3. /\ type \in QueueTypes /\ placed(type) \in DOMAIN entries
      /\ s.q[type].cur.ref \in refs
  <2> DEFINE A == {n \in DOMAIN entries : entries[n] = s.q[type].cur.ref}
  <2>1. type \in QueueTypes /\ A # {} /\ A \in SUBSET Nat /\ s.q[type].cur.ref \in refs
    <3>1. type \in QueueTypes /\ s.q[type].cur.ref \in refs
        BY <1>2 DEF HeldBy
    <3>2. \E n \in DOMAIN entries : entries[n] = s.q[type].cur.ref
        BY <3>1 DEF Range
    <3>3. DOMAIN entries \subseteq Nat
        BY <1>1
    <3> QED
        BY <3>1, <3>2, <3>3
  <2>2. Min(A) \in A
    <3> HIDE DEF A
    <3> QED
        BY <2>1, LeastOfAll
  <2> QED
      BY <2>1, <2>2
<1>4. Session(s) /\ Rising(s.history)
    BY DEF IInv, Session
<1>5. CASE /\ KeepPosition(IF placed(type) = at THEN At(type, s, entries[at]) ELSE s)
           /\ UNCHANGED play
  <2> DEFINE t == IF placed(type) = at THEN At(type, s, entries[at]) ELSE s
  <2>1. /\ Session(t) /\ t.history = s.history /\ t.pick = s.pick /\ Current(t) = Current(s)
        /\ \A other \in QueueTypes : FollowedBy(t, other) = FollowedBy(s, other)
      BY <1>3, <1>4, AtIs
  <2>2. KeepPosition(t) /\ play' = play
      BY <1>5
  <2> HIDE DEF t
  <2> QED
      BY <1>1, <2>1, <2>2
<1>6. CASE /\ placed(type) < at /\ type = s.active /\ onward(type).ok
           /\ Save(At(type, onward(type).t, entries[at]))
           /\ play' = [play EXCEPT !.recorded = onward(type).recorded]
  <2> DEFINE n == at - placed(type)
             p == path(type)
             x == onward(type)
             t == x.t
             u == At(type, t, entries[at])
  <2>1. placed(type) \in 1..Len(entries) /\ at \in 1..Len(entries) /\ placed(type) < at
      BY <1>1, <1>3, <1>6
  <2>2. Current(s).ref \in refs
      BY <1>3, <1>6 DEF Current
  <2> HIDE DEF placed, refs
  <2>3. /\ n \in Nat /\ n # 0 /\ DOMAIN p = 1..n
        /\ \A i \in 1..n : p[i] \in refs
        /\ p[n] = entries[at]
    <3> DEFINE from == placed(type)
    <3>1. entries \in Seq(refs) /\ from \in 1..Len(entries) /\ at \in 1..Len(entries) /\ from < at
        BY <1>1, <2>1
    <3> HIDE DEF from, entries
    <3>2. PathTo(SubSeq(entries, from + 1, at), at - from, refs, entries[at])
        BY <3>1, PartIs
    <3> QED
        BY <3>2 DEF PathTo, from
  <2> HIDE DEF p, n
  <2>4. /\ From(s.history, t) /\ (x.ok => Plays(t, p[n]))
        /\ \A since :
              /\ x.ok /\ Noting(refs, since, s, play.recorded)
              /\ Current(s).ref \in refs /\ \A i \in 1..n : p[i] \in refs
              => Noting(refs, since, t, x.recorded)
      BY <1>4, <2>3, SteppedThroughIs DEF p
  <2>5. x.ok /\ Save(u) /\ play' = [play EXCEPT !.recorded = x.recorded]
      BY <1>6
  <2> HIDE DEF x
  <2>6. Session(u) /\ u.history = t.history /\ Current(u) = Current(t)
      BY <1>3, <2>4, AtIs DEF From
  <2> HIDE DEF u
  <2>7. From(s.history, u) /\ Plays(u, entries[at])
      BY <2>3, <2>4, <2>5, <2>6 DEF From, Plays
  <2>8. \A since : Noting(refs, since, s, play.recorded) => Noting(refs, since, u, x.recorded)
      BY <2>2, <2>3, <2>4, <2>5, <2>6 DEF Noting, NextSeq
  <2> QED
      BY <1>1, <2>5, <2>7, <2>8 DEF refs
<1>7. CASE /\ placed(type) > at /\ type = s.active
           /\ Save(At(type, MovedBack(s, type, entries, at, placed(type)), entries[at]))
           /\ UNCHANGED play
  <2> DEFINE t == MovedBack(s, type, entries, at, placed(type))
             u == At(type, t, entries[at])
  <2>1. Back(at, placed(type))
      BY <1>1, <1>3, <1>7 DEF Back
  <2>2. Session(t) /\ t.history = s.history /\ Plays(t, entries[at])
    <3> DEFINE from == placed(type)
    <3>1. Session(s) /\ type \in QueueTypes /\ type = s.active /\ Back(at, from)
        BY <1>3, <1>4, <1>7, <2>1
    <3> HIDE DEF from, entries
    <3>2. LET moved == MovedBack(s, type, entries, at, from)
          IN  Session(moved) /\ moved.history = s.history /\ Plays(moved, entries[at])
        BY <3>1, MovedBackIs
    <3> QED
        BY <3>2 DEF from
  <2> HIDE DEF t
  <2>3. Session(u) /\ u.history = s.history /\ Plays(u, entries[at])
      BY <1>3, <2>2, AtIs DEF Plays
  <2>4. Save(u) /\ play' = play
      BY <1>7 DEF t
  <2> HIDE DEF u
  <2> QED
      BY <1>1, <2>3, <2>4
<1> QED
    BY <1>2, <1>5, <1>6, <1>7

(* A report keeps its position or saves what it passed.                    *)
LEMMA ReportKeeps ==
    ASSUME IInv, NEW at, Report(at)
    PROVE  IInv' /\ Grown(s.history, s'.history)
<1> DEFINE entries == play.thing.entries
<1>1. /\ play # None /\ Opened(play) /\ Waiting(loading') /\ Session(s) /\ Rising(s.history)
    BY ReportIs DEF IInv, Session
<1>2. CASE \E t : /\ KeepPosition(t) /\ play' = play
                  /\ Session(t) /\ t.history = s.history /\ t.pick = s.pick
                  /\ Current(t) = Current(s)
                  /\ \A type \in QueueTypes : FollowedBy(t, type) = FollowedBy(s, type)
  <2>1. PICK t : /\ KeepPosition(t) /\ play' = play
                 /\ Session(t) /\ t.history = s.history /\ t.pick = s.pick
                 /\ \A type \in QueueTypes : FollowedBy(t, type) = FollowedBy(s, type)
      BY <1>2
  <2>2. /\ s' = t
        /\ UNCHANGED runs \/ (runs' = Refreshed(runs, t) /\ Free(runs) = Runs)
      BY <2>1 DEF KeepPosition
  <2> QED
      BY <1>1, <2>1, <2>2, Still
<1>3. ASSUME NEW t, Save(t), From(s.history, t), Opened(play')
      PROVE  IInv' /\ Grown(s.history, s'.history)
    BY <1>1, <1>3, SaveKeeps
<1>4. CASE \E t : /\ Save(t) /\ play' = play
                  /\ Session(t) /\ t.history = s.history /\ Plays(t, entries[at])
    BY <1>1, <1>3, <1>4, ContinuesItself DEF From
<1>5. CASE \E t, recorded : /\ Save(t) /\ play' = [play EXCEPT !.recorded = recorded]
                            /\ From(s.history, t)
  <2>1. \A recorded : Opened([play EXCEPT !.recorded = recorded])
      BY <1>1 DEF Opened
  <2> QED
      BY <1>3, <1>5, <2>1
<1> QED
    BY <1>2, <1>4, <1>5, ReportIs

(* A run keeps its picks on the revision it read, which follow what the    *)
(* queues are still on; past it, it reads the session again.               *)
LEMMA RunEndsKeeps ==
    ASSUME IInv, NEW n \in Runs, RunEnds(n)
    PROVE  IInv' /\ Grown(s.history, s'.history)
<1>1. /\ AsRead(runs, s) /\ Session(s) /\ play' = play /\ loading' = loading
      /\ runs[n] \in [tries : {0, 1, 2}, fresh : BOOLEAN, after : {runs[n].after}]
    BY DEF IInv, AsRead, RunEnds
<1>2. CASE runs[n].fresh
  <2>1. PICK music \in Found(runs[n], "music"), spoken \in Found(runs[n], "spoken") :
            s' = [s EXCEPT !.pick = [type \in QueueTypes |->
                            IF type = "music" THEN music ELSE spoken]]
      BY <1>2 DEF RunEnds
  <2>2. runs' = [runs EXCEPT ![n] = NoRun]
      BY <1>2 DEF RunEnds
  <2> DEFINE pick == [type \in QueueTypes |-> IF type = "music" THEN music ELSE spoken]
  <2>3. \A type \in QueueTypes : pick[type] # None => pick[type].after = FollowedBy(s, type)
    <3>1. \A type \in QueueTypes : \A found \in Found(runs[n], type) :
              found # None => found.after = FollowedBy(s, type)
        BY <1>1, <1>2 DEF Found, AsRead
    <3>2. pick["music"] = music /\ pick["spoken"] = spoken /\ QueueTypes = {"music", "spoken"}
        BY DEF QueueTypes
    <3> QED
        BY <2>1, <3>1, <3>2
  <2> HIDE DEF pick
  <2>4. /\ Shaped(s') /\ s'.q = s.q /\ s'.history = s.history /\ s'.pick = pick
        /\ s'.digest = s.digest /\ s'.saved = s.saved
        /\ s'.active = s.active /\ s'.switch = s.switch
      BY <1>1, <2>1 DEF Session, Shaped, pick
  <2>5. Session(s')
      BY <1>1, <2>4 DEF Session
  <2>6. \A type \in QueueTypes : FollowedBy(s', type) = FollowedBy(s, type)
      BY <2>4 DEF FollowedBy, InDigest, NewestOwn
  <2>7. AsRead(runs', s')
      BY <1>1, <2>2, <2>6 DEF AsRead, NoRun
  <2>8. PicksCurrent'
      BY <2>3, <2>4, <2>6 DEF PicksCurrent
  <2>9. Grown(s.history, s'.history)
      BY <1>1, <2>4, ContinuesItself, GrownBy DEF Session
  <2> QED
      BY <1>1, <2>5, <2>7, <2>8, <2>9 DEF IInv
<1>3. CASE ~runs[n].fresh
  <2>1. s' = s /\ runs' = [runs EXCEPT ![n] = RunOn(s, 2)]
      BY <1>3 DEF RunEnds
  <2>2. /\ RunOn(s, 2) \in [tries : {0, 1, 2}, fresh : BOOLEAN, after : {RunOn(s, 2).after}]
        /\ RunOn(s, 2).tries = 2
        /\ \A type \in QueueTypes : RunOn(s, 2).after[type] = FollowedBy(s, type)
      BY DEF RunOn
  <2>3. AsRead(runs', s')
      BY <1>1, <2>1, <2>2 DEF AsRead
  <2>4. runs'[n].tries = 2
      BY <1>1, <2>1, <2>2 DEF AsRead
  <2>5. PicksCurrent'
      BY <2>4 DEF PicksCurrent, Free
  <2>6. Grown(s.history, s'.history)
      BY <1>1, <2>1, ContinuesItself, GrownBy DEF Session
  <2> QED
      BY <1>1, <2>1, <2>3, <2>5, <2>6 DEF IInv
<1> QED
    BY <1>2, <1>3

(* An empty session, no run and no pick.                                   *)
LEMMA InitIs == Init => IInv
<1> SUFFICES ASSUME Init PROVE IInv
    OBVIOUS
<1>1. Session(s)
  <2>1. s = EmptySession
      BY DEF Init
  <2>2. /\ Shaped(s) /\ Queues(s.q) /\ s.digest = None /\ s.saved = <<>> /\ s.history = <<>>
        /\ s.active \in QueueTypes /\ s.switch = None
    <3>1. Laid(EmptyQueue)
        BY EmptyLine DEF EmptyQueue, Laid
    <3>2. /\ Shaped(s) /\ s.digest = None /\ s.saved = <<>> /\ s.history = <<>>
          /\ s.active \in QueueTypes /\ s.switch = None
        BY <2>1 DEF EmptySession, Shaped, QueueTypes
    <3>3. s.q = [type \in QueueTypes |-> EmptyQueue]
        BY <2>1 DEF EmptySession
    <3>4. Queues(s.q)
        BY <3>1, <3>3 DEF Queues
    <3> QED
        BY <3>2, <3>4
  <2>3. Rising(<<>>)
      BY DEF Rising
  <2> QED
      BY <2>2, <2>3 DEF Session
<1>2. AsRead(runs, s)
    BY DEF Init, AsRead, NoRun
<1>3. PicksCurrent
    BY DEF Init, PicksCurrent, EmptySession
<1> QED
    BY <1>1, <1>2, <1>3 DEF Init, IInv, Waiting

(* Every step keeps the invariant and every play not pushed out.           *)
LEMMA StepKeeps ==
    ASSUME IInv, Next
    PROVE  IInv' /\ Grown(s.history, s'.history)
<1>1. Session(s) /\ Rising(s.history)
    BY DEF IInv, Session
<1>2. CASE StepOn
    BY <1>1, <1>2, StepNextIs, ChangeKeeps DEF StepOn
<1>3. CASE StepBackwards
  <2>1. From(s.history, StepBack(s))
      BY <1>1, StepBackIs, ContinuesItself DEF From
  <2> QED
      BY <1>3, <2>1, ChangeKeeps DEF StepBackwards
<1>4. ASSUME NEW type \in QueueTypes, SetActive(type)
      PROVE  IInv' /\ Grown(s.history, s'.history)
    BY <1>1, <1>4, SwitchToIs, ChangeKeeps DEF SetActive
<1>5. ASSUME NEW thing \in Things, PutNext(thing)
      PROVE  IInv' /\ Grown(s.history, s'.history)
    BY <1>1, <1>5, AddIs, ChangeKeeps, PlayConstants DEF PutNext, HasEntries
<1>6. ASSUME NEW thing \in Things, PlayNow(thing)
      PROVE  IInv' /\ Grown(s.history, s'.history)
    BY <1>1, <1>6, PlayedNowIs, ChangeKeeps, PlayConstants DEF PlayNow, HasEntries
<1> QED
    BY <1>2, <1>3, <1>4, <1>5, <1>6, OpenPlayKeeps, LoadedKeeps, ReportKeeps, RunEndsKeeps DEF Next

(* In every reachable state the session is one, every run on its revision  *)
(* follows what its queues are on, and picks are current: refreshAutoplay  *)
(* of server/src/queues/sessions.ts, for any number of runs at once.       *)
THEOREM Invariant == Spec => []IInv
<1>1. IInv /\ UNCHANGED vars => IInv'
    BY DEF IInv, PicksCurrent, vars
<1>2. IInv /\ [Next]_vars => IInv'
    BY <1>1, StepKeeps
<1> QED
    BY <1>2, InitIs, PTL DEF Spec

(* Once no run is under way every pick is of what its queue is on: what a  *)
(* run found for a revision that is past is refused, and each change       *)
(* begins a run of its own (refreshAutoplay,                               *)
(* server/src/queues/sessions.ts).                                         *)
THEOREM PicksAreCurrent == Spec => []PicksCurrent
<1>1. IInv => PicksCurrent
    BY DEF IInv
<1> QED
    BY <1>1, Invariant, PTL

(* A play recorded stays as it was, or is pushed out by later ones: no     *)
(* tap, plan or report rewrites the history, which the store takes only    *)
(* appended to (writeHistory, server/src/store/listening.ts).              *)
THEOREM HistoryGrows == Spec => HistoryOnlyGrows
<1> DEFINE Grows == \A i \in DOMAIN s.history :
                        \/ \E j \in DOMAIN s'.history : s'.history[j] = s.history[i]
                        \/ s'.history # <<>> /\ s.history[i].seq < s'.history[1].seq
<1>1. IInv /\ [Next]_vars => [Grows]_s
  <2>1. IInv /\ Next => Grows
      BY StepKeeps DEF Grown
  <2>2. UNCHANGED vars => UNCHANGED s
      BY DEF vars
  <2> QED
      BY <2>1, <2>2
<1> QED
    BY <1>1, Invariant, PTL DEF Spec, HistoryOnlyGrows

----------------------------------------------------------------------------
(* What a play is of, and what its reports recorded, while one plan loads  *)
(* at a time                                                               *)

(* The run's bound: a second plan is asked for once the first is answered. *)
OnePlan == \A i, j \in Ids : i = j

(* None is no entry and no plan.                                           *)
NoneIsApart == /\ \A i : IsItem(i) => i # None
               /\ \A thing, before : [thing |-> thing, before |-> before] # None

(* The current play, in a session t with plans l loading: while its plan   *)
(* loads it is not answered; with none loading the session plays an entry  *)
(* of it; and since its answer it noted all the session recorded.          *)
Held(t, l, p) ==
    LET refs == Range(p.thing.entries)
    IN  /\ p.recorded = [r \in refs |-> p.recorded[r]]
        /\ \A id \in Ids : l[id] # None => p.since = None /\ p.id = id /\ l[id].thing = p.thing
        /\ (\A id \in Ids : l[id] = None) => \E ref \in refs : Plays(t, ref)
        /\ p.since # None => Noting(refs, p.since, t, p.recorded)

PlayInv == play # None => Held(s, loading, play)

(* What was recorded since a session is at its next seq or after it.       *)
LEMMA RecordedAfter ==
    ASSUME NEW t, Session(t), NEW u, From(t.history, u),
           NEW h \in Range(u.history) \ Range(t.history)
    PROVE  h.seq \in Nat /\ h.seq >= NextSeq(t)
<1> DEFINE f == t.history
           g == u.history
<1>1. Rising(f) /\ Rising(g) /\ Continues(f, g)
    BY DEF From, Session
<1>2. /\ DOMAIN f = 1..Len(f) /\ Len(f) \in Nat /\ DOMAIN g = 1..Len(g) /\ Len(g) \in Nat
    BY <1>1, LenProperties DEF Rising
<1>3. PICK i \in DOMAIN g : g[i] = h
    BY DEF Range
<1>4. NextSeq(t) = IF f = <<>> THEN 0 ELSE f[Len(f)].seq + 1
    BY DEF NextSeq, Last
<1>5. h \notin Range(f)
    OBVIOUS
<1> HIDE DEF f, g
<1>6. i > Len(f)
  <2>1. CASE i \in DOMAIN f
    <3>1. f[i] = h
        BY <1>1, <1>2, <1>3, <2>1 DEF Continues
    <3> QED
        BY <1>5, <2>1, <3>1 DEF Range
  <2> QED
      BY <1>2, <2>1
<1>7. h.seq \in Nat
    BY <1>1, <1>3 DEF Rising
<1>8. CASE f = <<>>
    BY <1>4, <1>7, <1>8
<1>9. CASE f # <<>>
  <2>1. Len(f) \in 1..Len(f)
      BY <1>1, <1>2, <1>9, EmptySeq DEF Rising
  <2>2. Len(f) \in DOMAIN g /\ g[Len(f)] = f[Len(f)]
      BY <1>1, <1>2, <2>1 DEF Continues
  <2>3. f[Len(f)].seq < h.seq /\ f[Len(f)].seq \in Nat
      BY <1>1, <1>2, <1>3, <1>6, <2>1, <2>2 DEF Rising
  <2> QED
      BY <1>4, <1>7, <1>9, <2>3
<1> QED
    BY <1>7, <1>8, <1>9

(* Two plays of one history are one when they are at the same seq.         *)
LEMMA SeqsApart ==
    ASSUME NEW h, Rising(h), NEW a \in Range(h), NEW b \in Range(h), a.seq = b.seq
    PROVE  a = b
<1>1. PICK i \in DOMAIN h : h[i] = a
    BY DEF Range
<1>2. PICK j \in DOMAIN h : h[j] = b
    BY DEF Range
<1>3. DOMAIN h = 1..Len(h) /\ Len(h) \in Nat
    BY LenProperties DEF Rising
<1>4. ~(i < j) /\ ~(j < i)
  <2>1. h[i].seq \in Nat /\ h[i].seq = h[j].seq
      BY <1>1, <1>2 DEF Rising
  <2>2. (i < j => h[i].seq < h[j].seq) /\ (j < i => h[j].seq < h[i].seq)
      BY DEF Rising
  <2> QED
      BY <2>1, <2>2
<1>5. i = j
    BY <1>3, <1>4
<1> QED
    BY <1>1, <1>2, <1>5

(* A play notes no less of a session with fewer of its plays.              *)
LEMMA NotesFewer ==
    ASSUME NEW refs, NEW since, NEW t, NEW u, NEW recorded,
           Noting(refs, since, t, recorded),
           NextSeq(u) = NextSeq(t), Range(u.history) \subseteq Range(t.history)
    PROVE  Noting(refs, since, u, recorded)
  BY DEF Noting

(* A play stays as it was while the session plays the same.                *)
LEMMA Rests ==
    ASSUME IInv, PlayInv, Current(s') = Current(s), NextSeq(s') = NextSeq(s),
           Range(s'.history) \subseteq Range(s.history), loading' = loading, play' = play
    PROVE  PlayInv'
<1> SUFFICES ASSUME play # None
             PROVE  Held(s', loading, play)
    BY DEF PlayInv
<1>1. Held(s, loading, play)
    BY DEF PlayInv
<1>2. \A ref : Plays(s, ref) => Plays(s', ref)
    BY DEF Plays
<1> QED
    BY <1>1, <1>2, NotesFewer DEF Held

(* What a save stores of a session with the same plays.                    *)
LEMMA SavedIs ==
    ASSUME IInv, NEW t, From(s.history, t), Save(t)
    PROVE  /\ Session(s') /\ Current(s') = Current(t) /\ NextSeq(s') = NextSeq(t)
           /\ Range(s'.history) \subseteq Range(t.history)
<1>1. s' = Stored(t) /\ Rising(s.history)
    BY DEF Save, IInv, Session
<1> QED
    BY <1>1, StoredIs

(* A tap leaves no play, or what plays and was recorded as it was.         *)
LEMMA ChangePlays ==
    ASSUME IInv, PlayInv, NEW t, From(s.history, t), NEW moves, Change(t, moves),
           moves \/ (t.history = s.history /\ Current(t) = Current(s))
    PROVE  PlayInv'
<1>1. CASE moves
    BY <1>1 DEF Change, PlayInv
<1>2. CASE ~moves
  <2>1. Save(t) /\ play' = play /\ loading' = loading
      BY <1>2 DEF Change
  <2>2. t.history = s.history /\ NextSeq(t) = NextSeq(s) /\ Current(t) = Current(s)
      BY <1>2 DEF NextSeq
  <2> QED
      BY <2>1, <2>2, SavedIs, Rests
<1> QED
    BY <1>1, <1>2

(* A play just opened waits for its own plan.                              *)
LEMMA OpenPlayPlays ==
    ASSUME OnePlan, NoneIsApart, IInv, NEW id \in Ids, NEW thing \in Things, NEW before,
           OpenPlay(id, thing, before)
    PROVE  PlayInv'
<1> DEFINE refs == Range(thing.entries)
           new == [id |-> id, thing |-> thing, since |-> None, recorded |-> [r \in refs |-> None]]
           plan == [thing |-> thing, before |-> before]
<1>1. play' = new /\ loading' = [loading EXCEPT ![id] = plan]
    BY DEF OpenPlay
<1>2. new.since = None /\ new.id = id /\ new.thing = thing /\ new.recorded = [r \in refs |-> None]
    OBVIOUS
<1>3. plan # None /\ plan.thing = thing
    BY DEF NoneIsApart
<1> HIDE DEF new, plan, refs
<1>4. loading'[id] = plan /\ \A other \in Ids : other = id
    BY <1>1 DEF IInv, Waiting, OnePlan
<1>5. Held(s', loading', new)
    BY <1>2, <1>3, <1>4 DEF Held, refs
<1> QED
    BY <1>1, <1>5 DEF PlayInv

(* A plan answered is of what the session then plays, and nothing was      *)
(* recorded since.                                                         *)
LEMMA LoadedPlays ==
    ASSUME OnePlan, IInv, PlayInv, NEW id \in Ids, Loaded(id)
    PROVE  PlayInv'
<1> DEFINE thing == loading[id].thing
           refs == Range(thing.entries)
           new == [play EXCEPT !.since = NextSeq(s')]
<1>1. CASE play = None
    BY <1>1 DEF Loaded, PlayInv
<1>2. CASE play # None
  <2>1. /\ loading[id] # None /\ play.id = id /\ thing = play.thing
        /\ play.recorded = [r \in refs |-> play.recorded[r]]
        /\ thing \in Things /\ Opened(play)
      BY <1>2 DEF Loaded, PlayInv, Held, IInv, Waiting
  <2>2. play' = new /\ loading' = [loading EXCEPT ![id] = None]
      BY <1>2, <2>1 DEF Loaded
  <2>3. \A other \in Ids : other = id /\ loading'[other] = None
      BY <2>2 DEF OnePlan, IInv, Waiting
  <2>4. Session(s') /\ \E ref \in refs : Plays(s', ref)
    <3>1. CASE s.active \in HeldBy(s, thing) /\ UNCHANGED s
      <4>1. /\ s.q[s.active].cur # None /\ s.q[s.active].cur.ref \in refs
            /\ s.active \in QueueTypes /\ Session(s)
          BY <3>1 DEF HeldBy, IInv, Session
      <4>2. Plays(s, s.q[s.active].cur.ref)
          BY <4>1 DEF Plays, Current, Session, Queues, Laid
      <4> QED
          BY <3>1, <4>1, <4>2
    <3>2. CASE Save(PlayedOn(s, thing, loading[id].before))
      <4> DEFINE t == PlayedOn(s, thing, loading[id].before)
      <4>1. From(s.history, t) /\ \E ref \in refs : Plays(t, ref)
          BY <2>1, PlayedOnIs DEF IInv
      <4>2. Save(t)
          BY <3>2
      <4> HIDE DEF t, refs
      <4>3. Session(s') /\ Current(s') = Current(t)
          BY <4>1, <4>2, SavedIs
      <4> QED
          BY <4>1, <4>3 DEF Plays
    <3> QED
        BY <3>1, <3>2 DEF Loaded
  <2>5. /\ new.since = NextSeq(s') /\ new.thing = thing /\ new.recorded = play.recorded
      BY <2>1 DEF Opened
  <2>6. Noting(refs, NextSeq(s'), s', play.recorded)
      BY <2>1, <2>4, SeqsBelow DEF Noting
  <2> HIDE DEF new
  <2>7. Held(s', loading', new)
      BY <2>1, <2>3, <2>4, <2>5, <2>6 DEF Held
  <2> QED
      BY <2>2, <2>7 DEF PlayInv
<1> QED
    BY <1>1, <1>2

(* A report keeps what plays, or leaves the entry it reports playing with  *)
(* all it recorded noted.                                                  *)
LEMMA ReportPlays ==
    ASSUME IInv, PlayInv, NEW at, Report(at)
    PROVE  PlayInv'
<1> DEFINE entries == play.thing.entries
           refs == Range(entries)
<1>1. /\ play # None /\ play.since # None /\ Opened(play) /\ loading' = loading
      /\ entries[at] \in refs /\ Held(s, loading, play)
    BY ReportIs DEF PlayInv
<1>2. CASE \E t : /\ KeepPosition(t) /\ play' = play
                  /\ Session(t) /\ t.history = s.history /\ t.pick = s.pick
                  /\ Current(t) = Current(s)
                  /\ \A type \in QueueTypes : FollowedBy(t, type) = FollowedBy(s, type)
  <2>1. s'.history = s.history /\ Current(s') = Current(s) /\ play' = play
      BY <1>2 DEF KeepPosition
  <2> QED
      BY <1>1, <2>1, Rests DEF NextSeq
<1>3. ASSUME NEW t, Save(t), From(s.history, t), Plays(t, entries[at]), NEW recorded,
             Noting(refs, play.since, t, recorded), NEW new, play' = new,
             new.thing = play.thing, new.id = play.id, new.since = play.since,
             new.recorded = recorded
      PROVE  PlayInv'
  <2>1. Current(s') = Current(t) /\ Noting(refs, play.since, s', recorded)
      BY <1>3, SavedIs, NotesFewer
  <2>2. Plays(s', entries[at])
      BY <1>3, <2>1 DEF Plays
  <2>3. recorded = [r \in refs |-> recorded[r]]
      BY <1>3 DEF Noting
  <2>4. \A id \in Ids : loading[id] = None
      BY <1>1 DEF Held
  <2>5. Held(s', loading, new)
      BY <1>1, <1>3, <2>1, <2>2, <2>3, <2>4 DEF Held
  <2> QED
      BY <1>1, <1>3, <2>5 DEF PlayInv
<1>4. CASE \E t : /\ Save(t) /\ play' = play
                  /\ Session(t) /\ t.history = s.history /\ Plays(t, entries[at])
  <2>1. PICK t : /\ Save(t) /\ play' = play
                 /\ Session(t) /\ t.history = s.history /\ Plays(t, entries[at])
      BY <1>4
  <2>2. From(s.history, t)
      BY <2>1, FromItself
  <2>3. Noting(refs, play.since, t, play.recorded)
      BY <1>1, <2>1 DEF Held, Noting, NextSeq
  <2> HIDE DEF entries
  <2> QED
      BY <1>3, <2>1, <2>2, <2>3
<1>5. CASE \E t, recorded :
              /\ Save(t) /\ play' = [play EXCEPT !.recorded = recorded]
              /\ From(s.history, t) /\ Plays(t, entries[at])
              /\ \A since : Noting(refs, since, s, play.recorded) =>
                                Noting(refs, since, t, recorded)
  <2>1. PICK t, recorded :
              /\ Save(t) /\ play' = [play EXCEPT !.recorded = recorded]
              /\ From(s.history, t) /\ Plays(t, entries[at])
              /\ \A since : Noting(refs, since, s, play.recorded) =>
                                Noting(refs, since, t, recorded)
      BY <1>5
  <2>2. Noting(refs, play.since, t, recorded)
      BY <1>1, <2>1 DEF Held
  <2> DEFINE new == [play EXCEPT !.recorded = recorded]
  <2>3. /\ new.thing = play.thing /\ new.id = play.id /\ new.since = play.since
        /\ new.recorded = recorded /\ play' = new
      BY <1>1, <2>1 DEF Opened
  <2> HIDE DEF new, entries
  <2> QED
      BY <1>3, <2>1, <2>2, <2>3
<1> QED
    BY <1>2, <1>4, <1>5, ReportIs

(* Every step keeps the play one of what the session plays.                *)
LEMMA StepPlays ==
    ASSUME OnePlan, NoneIsApart, IInv, PlayInv, Next
    PROVE  PlayInv'
<1>1. Session(s) /\ Rising(s.history)
    BY DEF IInv, Session
<1>2. CASE StepOn
  <2> DEFINE t == StepNext(s)
             moves == Current(s) # None \/ Current(t) # None \/ t.active # s.active
  <2>1. From(s.history, t) /\ (t.history = s.history \/ Current(s) # None)
      BY <1>1, StepNextIs
  <2>2. Change(t, moves)
      BY <1>2 DEF StepOn
  <2>3. moves \/ (t.history = s.history /\ Current(t) = Current(s))
      BY <2>1
  <2> HIDE DEF t, moves
  <2> QED
      BY <2>1, <2>2, <2>3, ChangePlays
<1>3. CASE StepBackwards
  <2> DEFINE t == StepBack(s)
             moves == BackTo(s) # None
  <2>1. From(s.history, t) /\ Change(t, moves)
      BY <1>1, <1>3, StepBackIs, ContinuesItself DEF From, StepBackwards
  <2>2. moves \/ t = s
      BY DEF StepBack
  <2> HIDE DEF t, moves
  <2> QED
      BY <2>1, <2>2, ChangePlays
<1>4. ASSUME NEW type \in QueueTypes, SetActive(type)
      PROVE  PlayInv'
    BY <1>1, <1>4, SwitchToIs, ChangePlays DEF SetActive
<1>5. ASSUME NEW thing \in Things, PutNext(thing)
      PROVE  PlayInv'
    BY <1>1, <1>5, AddIs, ChangePlays, PlayConstants DEF PutNext, HasEntries
<1>6. ASSUME NEW thing \in Things, PlayNow(thing)
      PROVE  PlayInv'
    BY <1>1, <1>6, PlayedNowIs, ChangePlays, PlayConstants DEF PlayNow, HasEntries
<1>7. ASSUME NEW n \in Runs, RunEnds(n)
      PROVE  PlayInv'
  <2>1. /\ \/ s' = s
           \/ \E pick : s' = [s EXCEPT !.pick = pick]
        /\ loading' = loading /\ play' = play
      BY <1>7 DEF RunEnds
  <2>2. s'.history = s.history /\ s'.q = s.q /\ s'.active = s.active
      BY <1>1, <2>1 DEF Session, Shaped
  <2> QED
      BY <2>1, <2>2, Rests DEF Current, NextSeq
<1> QED
    BY <1>2, <1>3, <1>4, <1>5, <1>6, <1>7, OpenPlayPlays, LoadedPlays, ReportPlays DEF Next

(* While one plan loads at a time, the play the device has is of what its  *)
(* session plays, and notes all it recorded since it was answered          *)
(* (openPlay and report, server/src/queues/sessions.ts).                   *)
THEOREM PlayInvariant == OnePlan /\ NoneIsApart => (Spec => [](IInv /\ PlayInv))
<1> SUFFICES ASSUME OnePlan /\ NoneIsApart
             PROVE  Spec => [](IInv /\ PlayInv)
    OBVIOUS
<1>1. Init => IInv /\ PlayInv
    BY InitIs DEF Init, PlayInv
<1>2. IInv /\ PlayInv /\ [Next]_vars => (IInv /\ PlayInv)'
  <2>1. IInv /\ PlayInv /\ UNCHANGED vars => (IInv /\ PlayInv)'
      BY DEF IInv, PicksCurrent, PlayInv, Held, vars
  <2>2. IInv /\ PlayInv /\ Next => (IInv /\ PlayInv)'
      BY StepKeeps, StepPlays
  <2> QED
      BY <2>1, <2>2
<1> QED
    BY <1>1, <1>2, PTL DEF Spec

(* Once its plan has its answer, the device's play is of the item that its *)
(* session plays, whatever was tapped and reported meanwhile: while one    *)
(* plan loads at a time (server/src/queues/sessions.ts).                   *)
THEOREM PlayIsOfItem == OnePlan /\ NoneIsApart => (Spec => []PlayIsCurrent)
<1> SUFFICES ASSUME OnePlan /\ NoneIsApart
             PROVE  Spec => []PlayIsCurrent
    OBVIOUS
<1>1. IInv /\ PlayInv => PlayIsCurrent
    BY DEF PlayInv, Held, Plays, PlayIsCurrent, NoneIsApart
<1> QED
    BY <1>1, PlayInvariant, PTL

(* A report records nothing its play recorded before, however far back and *)
(* on its seeks went: while one plan loads at a time (passEntry,           *)
(* server/src/queues/sessions.ts).                                         *)
THEOREM ReportsRecordOnce == OnePlan /\ NoneIsApart => (Spec => RecordedOnce)
<1> DEFINE Once == s'.history # s.history /\ ByReport =>
                       \A h \in Range(s'.history) \ Range(s.history) :
                           \A earlier \in Range(s'.history) :
                               earlier.ref = h.ref /\ earlier.seq >= play.since => earlier = h
<1> SUFFICES ASSUME OnePlan /\ NoneIsApart
             PROVE  Spec => RecordedOnce
    OBVIOUS
<1>1. IInv /\ PlayInv => Once
  <2> SUFFICES ASSUME IInv, PlayInv, s'.history # s.history, ByReport,
                      NEW h \in Range(s'.history) \ Range(s.history),
                      NEW earlier \in Range(s'.history),
                      earlier.ref = h.ref, earlier.seq >= play.since
               PROVE  earlier = h
      OBVIOUS
  <2> DEFINE refs == Range(play.thing.entries)
             since == play.since
  <2>1. PICK at \in DOMAIN play.thing.entries : Report(at)
      BY DEF ByReport
  <2>2. play # None /\ since # None /\ Noting(refs, since, s, play.recorded)
      BY <2>1, ReportIs DEF PlayInv, Held
  <2>3. PICK t, recorded :
            /\ Save(t) /\ From(s.history, t)
            /\ Noting(refs, since, s, play.recorded) => Noting(refs, since, t, recorded)
    <3>1. ASSUME NEW t, KeepPosition(t), t.history = s.history
          PROVE  FALSE
        BY <3>1 DEF KeepPosition
    <3>2. ASSUME NEW t, Save(t), Session(t), t.history = s.history
          PROVE  FALSE
      <4>1. From(s.history, t)
          BY <3>2, FromItself
      <4> QED
          BY <3>2, <4>1, SavedIs
    <3> QED
        BY <2>1, <3>1, <3>2, ReportIs
  <2> HIDE DEF refs, since
  <2>4. /\ Range(s'.history) \subseteq Range(t.history) /\ Noting(refs, since, t, recorded)
      BY <2>2, <2>3, SavedIs
  <2>5. h.seq \in Nat /\ h.seq >= NextSeq(s) /\ since \in Nat /\ since <= NextSeq(s)
        /\ NextSeq(s) \in Nat
      BY <2>2, <2>3, <2>4, RecordedAfter, SeqsBelow DEF IInv, Noting
  <2>6. h.seq >= since /\ earlier.seq >= since
      BY <2>5 DEF since
  <2>7. recorded[h.ref] = h.seq /\ recorded[earlier.ref] = earlier.seq
      BY <2>4, <2>6 DEF Noting
  <2>8. Rising(t.history) /\ h \in Range(t.history) /\ earlier \in Range(t.history)
      BY <2>3, <2>4 DEF From, Session
  <2> QED
      BY <2>7, <2>8, SeqsApart
<1>2. UNCHANGED vars => UNCHANGED s
    BY DEF vars
<1>3. IInv /\ PlayInv /\ [Next]_vars => [Once]_s
    BY <1>1, <1>2
<1> QED
    BY <1>3, PlayInvariant, PTL DEF Spec, RecordedOnce
=============================================================================
