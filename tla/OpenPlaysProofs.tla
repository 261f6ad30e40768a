---------------------------- MODULE OpenPlaysProofs ----------------------------
(***************************************************************************)
(* Proofs about the plays held open: for any devices, plays, listening     *)
(* claimed and order of plans, closes, reports and sweeps, a device holds  *)
(* at most one play (OneHeldPerDevice), no close displaces where later     *)
(* listening left the person (KeepsNewest), and an upstream counts no more *)
(* listening than there was time for, but once more what came with reports *)
(* whose answer was lost (ListenedInTime).                                 *)
(*                                                                         *)
(* The first rests on a device's turns: only the first of them has looked  *)
(* what the device holds, and until its own play is held nothing else comes*)
(* to be.  The second rests on a close being as new as the play's last     *)
(* report, which no play's later opening can disturb: it is opened once.   *)
(* The third counts what reports on their way may yet bring with what is   *)
(* counted: a report taken moves the play's clock by as much as it grants, *)
(* and one taken back leaves the clock it was taken by, by which no more   *)
(* was granted before it (TimeInv); what it brought all the same is lost.  *)
(***************************************************************************)
EXTENDS OpenPlays, SequenceTheorems, FiniteSetTheorems, WellFoundedInduction, TLAPS

----------------------------------------------------------------------------
(* Sums                                                                    *)
(* The sum of a function over a finite set is a recursive function over    *)
(* its subsets. The induction is by inclusion: a set of counterexamples    *)
(* would have a least one (WFMin).                                         *)

Pick(S) == CHOOSE x \in S : TRUE

(* One step of the sum: what it is of each subset, by what it is of those  *)
(* with one element less.                                                  *)
Step(f, g, S) ==
    [T \in SUBSET S |-> IF T = {} THEN 0 ELSE f[Pick(T)] + g[T \ {Pick(T)}]]

Sums(f, S) == CHOOSE g : g = Step(f, g, S)

(* The sum over a set is what the recursive function is of that set.       *)
LEMMA SumIsRecursive ==
    ASSUME NEW f, NEW S
    PROVE  SumFunctionOnSet(f, S) = Sums(f, S)[S]
  BY DEF SumFunctionOnSet, FoldFunctionOnSet, MapThenFoldSet, Sums, Step, Pick

(* A set of subsets of a finite set has a smallest one.                    *)
LEMMA SmallestSubset ==
    ASSUME NEW S, IsFiniteSet(S), NEW Bad \in SUBSET (SUBSET S), Bad # {}
    PROVE  \E T \in Bad : \A U \in SUBSET T : U # T => U \notin Bad
<1>1. FiniteSubsetsOf(S) = SUBSET S
    BY FS_FiniteSubsetsOfFinite
<1>2. IsWellFoundedOn(StrictSubsetOrdering(S), SUBSET S)
    BY <1>1, FS_StrictSubsetOrderingWellFounded
<1>3. PICK T \in Bad : \A U \in Bad : <<U, T>> \notin StrictSubsetOrdering(S)
    BY <1>2, WFMin
<1>4. ASSUME NEW U \in SUBSET T, U # T, U \in Bad
      PROVE  FALSE
  <2>1. <<U, T>> \in (SUBSET S) \X (SUBSET S)
      BY <1>4
  <2>2. <<U, T>> \in StrictSubsetOrdering(S)
      BY <1>4, <2>1 DEF StrictSubsetOrdering
  <2> QED
      BY <1>3, <1>4, <2>2
<1> QED
    BY <1>4

(* What is picked of a set is in it.                                       *)
LEMMA Picked ==
    ASSUME NEW S, S # {}
    PROVE  Pick(S) \in S
  BY DEF Pick

(* Two sums agree wherever both are defined.                               *)
LEMMA SumsAgree ==
    ASSUME NEW f, NEW A, NEW B, NEW g, NEW h, g = Step(f, g, A), h = Step(f, h, B),
           NEW S \in SUBSET A, S \in SUBSET B, IsFiniteSet(S)
    PROVE  g[S] = h[S]
<1> DEFINE Bad == {T \in SUBSET S : g[T] # h[T]}
<1> SUFFICES ASSUME Bad # {} PROVE FALSE
    OBVIOUS
<1>1. PICK T \in Bad : \A U \in SUBSET T : U # T => U \notin Bad
  <2>1. Bad \in SUBSET (SUBSET S) /\ Bad # {}
      OBVIOUS
  <2> HIDE DEF Bad
  <2> QED
      BY <2>1, SmallestSubset
<1>2. /\ g[T] = IF T = {} THEN 0 ELSE f[Pick(T)] + g[T \ {Pick(T)}]
      /\ h[T] = IF T = {} THEN 0 ELSE f[Pick(T)] + h[T \ {Pick(T)}]
    BY DEF Step
<1>3. T # {}
    BY <1>2
<1>4. Pick(T) \in T
    BY <1>3, Picked
<1>5. g[T \ {Pick(T)}] = h[T \ {Pick(T)}]
    BY <1>1, <1>4
<1> QED
    BY <1>2, <1>3, <1>5

(* The sums over the subsets of a finite set exist.                        *)
LEMMA SumsExist ==
    ASSUME NEW f, NEW S, IsFiniteSet(S)
    PROVE  Sums(f, S) = Step(f, Sums(f, S), S)
<1> DEFINE Bad == {T \in SUBSET S : ~\E g : g = Step(f, g, T)}
<1>1. \A T : (\E g : g = Step(f, g, T)) => Sums(f, T) = Step(f, Sums(f, T), T)
    BY DEF Sums
<1>2. ASSUME Bad # {}
      PROVE  FALSE
  <2>1. PICK T \in Bad : \A U \in SUBSET T : U # T => U \notin Bad
    <3>1. Bad \in SUBSET (SUBSET S) /\ Bad # {}
        BY <1>2
    <3> HIDE DEF Bad
    <3> QED
        BY <3>1, SmallestSubset
  <2> DEFINE g == [U \in SUBSET T |->
                      IF U = T /\ T # {} THEN f[Pick(T)] + Sums(f, T \ {Pick(T)})[T \ {Pick(T)}]
                      ELSE IF U = {} THEN 0 ELSE Sums(f, U)[U]]
  <2>2. ASSUME NEW U \in SUBSET T
        PROVE  g[U] = IF U = {} THEN 0 ELSE f[Pick(U)] + g[U \ {Pick(U)}]
    <3>1. CASE U = {}
        BY <3>1
    <3>2. CASE U # {}
      <4> DEFINE V == U \ {Pick(U)}
      <4>1. V \in SUBSET T /\ V # T /\ V # U /\ IsFiniteSet(V) /\ V \in SUBSET U
          BY <3>2, Picked, FS_Subset
      <4>2. Sums(f, V) = Step(f, Sums(f, V), V)
          BY <1>1, <2>1, <4>1
      <4>3. g[V] = Sums(f, V)[V]
        <5>1. V = {} => Sums(f, V)[V] = 0
            BY <4>2 DEF Step
        <5> QED
            BY <4>1, <5>1
      <4>4. CASE U = T
          BY <3>2, <4>3, <4>4
      <4>5. CASE U # T
        <5>1. Sums(f, U) = Step(f, Sums(f, U), U)
            BY <1>1, <2>1, <4>5
        <5>2. Sums(f, U)[U] = f[Pick(U)] + Sums(f, U)[V]
            BY <3>2, <5>1 DEF Step
        <5>3. Sums(f, U)[V] = Sums(f, V)[V]
            BY <4>1, <4>2, <5>1, SumsAgree
        <5> HIDE DEF V
        <5>4. g[U] = Sums(f, U)[U]
            BY <3>2, <4>5
        <5> QED
            BY <3>2, <4>3, <5>2, <5>3, <5>4 DEF V
      <4> QED
          BY <4>4, <4>5
    <3> QED
        BY <3>1, <3>2
  <2>3. g = Step(f, g, T)
    <3>1. g = [U \in SUBSET T |-> g[U]]
        OBVIOUS
    <3> HIDE DEF g
    <3> QED
        BY <2>2, <3>1 DEF Step
  <2> QED
      BY <2>3
<1> QED
    BY <1>1, <1>2

(* The sum over no elements.                                               *)
LEMMA SumOfNone == \A f : SumFunctionOnSet(f, {}) = 0
<1> SUFFICES ASSUME NEW f PROVE SumFunctionOnSet(f, {}) = 0
    OBVIOUS
<1>1. Sums(f, {}) = Step(f, Sums(f, {}), {})
    BY SumsExist, FS_EmptySet
<1> QED
    BY <1>1, SumIsRecursive DEF Step

(* The sum, by the element that is picked.                                 *)
LEMMA SumByPick ==
    ASSUME NEW f, NEW S, IsFiniteSet(S), S # {}
    PROVE  SumFunctionOnSet(f, S) = f[Pick(S)] + SumFunctionOnSet(f, S \ {Pick(S)})
<1> DEFINE T == S \ {Pick(S)}
<1>1. Sums(f, S) = Step(f, Sums(f, S), S) /\ Sums(f, T) = Step(f, Sums(f, T), T) /\ IsFiniteSet(T)
    BY SumsExist, FS_Subset
<1>2. Sums(f, S)[T] = Sums(f, T)[T]
    BY <1>1, SumsAgree
<1>3. Sums(f, S)[S] = f[Pick(S)] + Sums(f, S)[T]
    BY <1>1 DEF Step
<1> QED
    BY <1>2, <1>3, SumIsRecursive

(* A sum of integers is one.                                               *)
LEMMA SumIsInt ==
    ASSUME NEW f, NEW S, IsFiniteSet(S), \A x \in S : f[x] \in Int
    PROVE  SumFunctionOnSet(f, S) \in Int
<1> DEFINE Bad == {T \in SUBSET S : SumFunctionOnSet(f, T) \notin Int}
<1> SUFFICES ASSUME Bad # {} PROVE FALSE
    OBVIOUS
<1>1. PICK T \in Bad : \A U \in SUBSET T : U # T => U \notin Bad
  <2>1. Bad \in SUBSET (SUBSET S) /\ Bad # {}
      OBVIOUS
  <2> HIDE DEF Bad
  <2> QED
      BY <2>1, SmallestSubset
<1>2. T # {}
    BY SumOfNone
<1>3. Pick(T) \in T /\ IsFiniteSet(T)
    BY <1>2, Picked, FS_Subset
<1>4. SumFunctionOnSet(f, T \ {Pick(T)}) \in Int
    BY <1>1, <1>3
<1>5. SumFunctionOnSet(f, T) = f[Pick(T)] + SumFunctionOnSet(f, T \ {Pick(T)})
    BY <1>2, <1>3, SumByPick
<1> QED
    BY <1>3, <1>4, <1>5

(* The sum, by any element.                                                *)
LEMMA SumByAny ==
    ASSUME NEW f, NEW S, IsFiniteSet(S), \A y \in S : f[y] \in Int, NEW x \in S
    PROVE  SumFunctionOnSet(f, S) = f[x] + SumFunctionOnSet(f, S \ {x})
<1> DEFINE Bad == {T \in SUBSET S :
                     \E y \in T : SumFunctionOnSet(f, T) # f[y] + SumFunctionOnSet(f, T \ {y})}
<1> SUFFICES ASSUME Bad # {} PROVE FALSE
    OBVIOUS
<1>1. PICK T \in Bad : \A U \in SUBSET T : U # T => U \notin Bad
  <2>1. Bad \in SUBSET (SUBSET S) /\ Bad # {}
      OBVIOUS
  <2> HIDE DEF Bad
  <2> QED
      BY <2>1, SmallestSubset
<1>2. PICK y \in T : SumFunctionOnSet(f, T) # f[y] + SumFunctionOnSet(f, T \ {y})
    BY <1>1
<1> DEFINE z == Pick(T)
<1>3. z \in T /\ IsFiniteSet(T) /\ SumFunctionOnSet(f, T) = f[z] + SumFunctionOnSet(f, T \ {z})
    BY <1>2, Picked, FS_Subset, SumByPick
<1> HIDE DEF z
<1>4. y # z
    BY <1>2, <1>3
<1>5. SumFunctionOnSet(f, T \ {z}) = f[y] + SumFunctionOnSet(f, (T \ {z}) \ {y})
  <2>1. T \ {z} \in SUBSET S /\ T \ {z} \in SUBSET T /\ T \ {z} # T /\ y \in T \ {z}
      BY <1>2, <1>3, <1>4
  <2> QED
      BY <1>1, <2>1
<1>6. SumFunctionOnSet(f, T \ {y}) = f[z] + SumFunctionOnSet(f, (T \ {y}) \ {z})
  <2>1. T \ {y} \in SUBSET S /\ T \ {y} \in SUBSET T /\ T \ {y} # T /\ z \in T \ {y}
      BY <1>2, <1>3, <1>4
  <2> QED
      BY <1>1, <2>1
<1>7. (T \ {z}) \ {y} = (T \ {y}) \ {z}
    OBVIOUS
<1> DEFINE rest == SumFunctionOnSet(f, (T \ {y}) \ {z})
<1>8. rest \in Int
    BY <1>3, SumIsInt, FS_Subset
<1>9. f[y] \in Int /\ f[z] \in Int
    BY <1>2, <1>3
<1>10. /\ SumFunctionOnSet(f, T) = f[z] + (f[y] + rest)
       /\ SumFunctionOnSet(f, T \ {y}) = f[z] + rest
    BY <1>3, <1>5, <1>6, <1>7
<1> HIDE DEF rest
<1>11. f[z] + (f[y] + rest) = f[y] + (f[z] + rest)
    BY <1>8, <1>9
<1> QED
    BY <1>2, <1>10, <1>11

(* A sum of natural numbers is one.                                        *)
LEMMA SumIsNat ==
    ASSUME NEW f, NEW S, IsFiniteSet(S), \A x \in S : f[x] \in Nat
    PROVE  SumFunctionOnSet(f, S) \in Nat
<1> DEFINE Bad == {T \in SUBSET S : SumFunctionOnSet(f, T) \notin Nat}
<1> SUFFICES ASSUME Bad # {} PROVE FALSE
    OBVIOUS
<1>1. PICK T \in Bad : \A U \in SUBSET T : U # T => U \notin Bad
  <2>1. Bad \in SUBSET (SUBSET S) /\ Bad # {}
      OBVIOUS
  <2> HIDE DEF Bad
  <2> QED
      BY <2>1, SmallestSubset
<1>2. T # {}
    BY SumOfNone
<1>3. Pick(T) \in T /\ IsFiniteSet(T)
    BY <1>2, Picked, FS_Subset
<1>4. SumFunctionOnSet(f, T \ {Pick(T)}) \in Nat
    BY <1>1, <1>3
<1>5. SumFunctionOnSet(f, T) = f[Pick(T)] + SumFunctionOnSet(f, T \ {Pick(T)})
    BY <1>2, <1>3, SumByPick
<1> QED
    BY <1>3, <1>4, <1>5

----------------------------------------------------------------------------
(* Sequences                                                               *)

(* A sequence without its first element.                                   *)
LEMMA FirstRemoved ==
    ASSUME NEW S, NEW s \in Seq(S), 1 \in DOMAIN s
    PROVE  /\ RemoveAt(s, 1) \in Seq(S)
           /\ \A k \in DOMAIN RemoveAt(s, 1) :
                 k >= 1 /\ k + 1 \in DOMAIN s /\ RemoveAt(s, 1)[k] = s[k + 1]
<1>1. Len(s) \in Nat /\ Len(s) >= 1 /\ DOMAIN s = 1..Len(s)
    BY LenProperties
<1>2. SubSeq(s, 1, 0) = <<>>
    BY SubSeqEmpty
<1>3. \A i \in 2..Len(s) : s[i] \in S
    BY <1>1, ElementOfSeq
<1>4. /\ SubSeq(s, 2, Len(s)) \in Seq(S)
      /\ Len(SubSeq(s, 2, Len(s))) = Len(s) - 1
      /\ \A k \in 1..(Len(s) - 1) : SubSeq(s, 2, Len(s))[k] = s[k + 1]
    BY <1>1, <1>3, SubSeqProperties
<1>5. RemoveAt(s, 1) = SubSeq(s, 2, Len(s))
    BY <1>1, <1>2, <1>4, ConcatEmptySeq DEF RemoveAt
<1>6. DOMAIN SubSeq(s, 2, Len(s)) = 1..(Len(s) - 1)
    BY <1>4, LenProperties
<1>7. \A k \in 1..(Len(s) - 1) : k >= 1 /\ k + 1 \in 1..Len(s)
    BY <1>1
<1>8. \A k \in DOMAIN SubSeq(s, 2, Len(s)) :
          k >= 1 /\ k + 1 \in DOMAIN s /\ SubSeq(s, 2, Len(s))[k] = s[k + 1]
    BY <1>1, <1>4, <1>6, <1>7, Zenon
<1> QED
    BY <1>4, <1>5, <1>8, Zenon

----------------------------------------------------------------------------
(* The plays held                                                          *)

(* What a step does that opens no play: none comes to be held, none moves. *)
OpensNone ==
    /\ held' \in [Plays -> OpenPlay \cup {None}]
    /\ \A q \in Plays : held'[q] = None <=> held[q] = None
    /\ \A q \in Plays : Held(q)' => Held(q) /\ held'[q].device = held[q].device

(* Such a step leaves the turns what they are, and one play to a device.   *)
LEMMA OpensNoneKeeps ==
    ASSUME IInv, OpensNone, UNCHANGED turns
    PROVE  OpenedOnce' /\ LooksInTurn' /\ HoldsOne'
<1>1. \A d \in Devices : \A n \in DOMAIN turns[d] : turns[d][n].play \in Plays
  <2> SUFFICES ASSUME NEW d \in Devices, NEW n \in DOMAIN turns[d]
               PROVE  turns[d][n] \in Turns
      BY DEF Turns
  <2>1. turns[d] \in Seq(Turns)
      BY DEF IInv, TypeOK
  <2> QED
      BY <2>1, ElementOfSeq, LenProperties
<1>2. OpenedOnce'
    BY <1>1 DEF IInv, OpenedOnce, OpensNone
<1>3. \A d \in Devices : On(d)' \subseteq On(d)
    BY DEF OpensNone, On
<1>4. LooksInTurn'
    BY <1>3 DEF IInv, LooksInTurn
<1>5. HoldsOne'
    BY DEF IInv, HoldsOne, OpensNone
<1> QED
    BY <1>2, <1>4, <1>5

(* So a change of one play alone, which stays where it is.                 *)
LEMMA OneChanges ==
    ASSUME IInv, NEW p \in Plays, held[p] # None, NEW new \in OpenPlay,
           new.device = held[p].device, new.open => held[p].open,
           held' = [held EXCEPT ![p] = new]
    PROVE  OpensNone /\ \A q \in Plays : q # p => held'[q] = held[q]
<1>1. held \in [Plays -> OpenPlay \cup {None}] /\ new # None
    BY RecordsAreSomething DEF IInv, TypeOK
<1> QED
    BY <1>1 DEF OpensNone, Held

(* A place kept is one of a play there was, and no older than before.      *)
LEMMA KeptIsPlace ==
    ASSUME IInv, NEW place \in Plays \X Nat, NEW at \in Nat
    PROVE  /\ Kept(place, at) \in Places /\ Kept(place, at) # None
           /\ \/ Kept(place, at) = [place |-> place, at |-> at]
              \/ row # None /\ Kept(place, at) = row /\ row.at > at
           /\ Kept(place, at).at >= at
<1>1. row = None \/ row \in Places
    BY DEF IInv, TypeOK
<1> QED
  <2>1. CASE row = None \/ at >= row.at
    <3>1. Kept(place, at) = [place |-> place, at |-> at]
        BY <2>1 DEF Kept
    <3>2. Kept(place, at) \in Places
        BY <3>1 DEF Places
    <3>3. Kept(place, at) # None
        BY <3>2, RecordsAreSomething, Zenon
    <3>4. Kept(place, at).at >= at
        BY <3>1
    <3> QED
        BY <3>1, <3>2, <3>3, <3>4
  <2>2. CASE row # None /\ row.at > at
      BY <1>1, <2>2 DEF Kept, Places
  <2> QED
      BY <1>1, <2>1, <2>2 DEF Places

(* A place kept as new as a play's last report is that, or what was newer. *)
LEMMA KeptAsReported ==
    ASSUME IInv, NEW p \in Plays, held[p] # None, household, OpensNone,
           UNCHANGED <<household, now, flight, listened>>,
           \A q \in Plays : held[q] # None => held'[q].lastReportAt = held[q].lastReportAt,
           NEW position \in Nat, row' = Kept(<<p, position>>, held[p].lastReportAt)
    PROVE  row' \in Places /\ PlaceIsOfPlay' /\ KeepsNewest'
<1>1. row \in Places \cup {None} /\ now \in Nat
    BY DEF IInv, TypeOK
<1>2. held[p].lastReportAt \in Nat /\ held[p].lastReportAt <= now
    BY DEF IInv, TypeOK, OpenPlay, PlaceIsOfPlay
<1>3. row' \in Places /\ row' # None
    BY <1>2, KeptIsPlace
<1>4. row' = row \/ /\ row' = [place |-> <<p, position>>, at |-> held[p].lastReportAt]
                    /\ row = None \/ held[p].lastReportAt >= row.at
    BY DEF Kept
<1>5. CASE row' = row
  <2>1. row.place[1] \in Plays
      BY <1>3, <1>5 DEF Places
  <2>2. PlaceIsOfPlay'
      BY <1>3, <1>5, <2>1 DEF IInv, PlaceIsOfPlay, OpensNone
  <2>3. KeepsNewest'
      BY <1>3, <1>5, <2>1 DEF IInv, KeepsNewest, PlaceIsOfPlay
  <2> QED
      BY <1>3, <2>2, <2>3
<1>6. CASE row' # row
  <2>1. row'.at = held[p].lastReportAt /\ row'.place[1] = p
      BY <1>4, <1>6
  <2>2. PlaceIsOfPlay'
      BY <1>2, <1>3, <2>1 DEF IInv, PlaceIsOfPlay, OpensNone
  <2>3. listened.at <= held[p].lastReportAt
      BY <1>1, <1>2, <1>4, <1>6 DEF IInv, TypeOK, KeepsNewest, PlaceIsOfPlay, Places
  <2>4. KeepsNewest'
      BY <2>1, <2>3 DEF KeepsNewest
  <2> QED
      BY <1>3, <2>2, <2>4
<1> QED
    BY <1>5, <1>6

(* A close nobody else waits for is as new as the play's last report.      *)
LEMMA EndKeeps ==
    ASSUME IInv, NEW p \in Plays, held[p] # None, End(p), UNCHANGED <<household, now>>
    PROVE  /\ OpensNone /\ ~Held(p)' /\ row' \in Places \cup {None}
           /\ PlaceIsOfPlay' /\ KeepsNewest'
<1> DEFINE new == [held[p] EXCEPT !.open = FALSE]
<1>1. held \in [Plays -> OpenPlay \cup {None}] /\ held[p] \in OpenPlay
      /\ row \in Places \cup {None} /\ now \in Nat /\ household \in BOOLEAN
    BY DEF IInv, TypeOK
<1>2. new \in OpenPlay /\ new.device = held[p].device /\ ~new.open
      /\ new.lastReportAt = held[p].lastReportAt
    BY <1>1 DEF OpenPlay
<1>3. held' = [held EXCEPT ![p] = new]
    BY DEF End
<1> HIDE DEF new
<1>4. OpensNone /\ ~Held(p)' /\ \A q \in Plays : held[q] # None => held'[q].lastReportAt = held[q].lastReportAt
    BY <1>1, <1>2, <1>3, OneChanges DEF Held
<1>5. CASE row' = row
  <2>1. PlaceIsOfPlay'
      BY <1>1, <1>4, <1>5 DEF IInv, PlaceIsOfPlay, OpensNone, End, Places
  <2>2. KeepsNewest'
      BY <1>1, <1>4, <1>5 DEF IInv, KeepsNewest, PlaceIsOfPlay, OpensNone, End, Places
  <2> QED
      BY <1>1, <1>4, <1>5, <2>1, <2>2
<1>6. CASE household /\ LastTaken(p) # None /\ row' = Kept(<<p, LastTaken(p)>>, held[p].lastReportAt)
  <2>1. LastTaken(p) \in Nat
      BY <1>1, <1>6 DEF LastTaken, OpenPlay
  <2>2. UNCHANGED <<flight, listened>>
      BY DEF End
  <2>3. row' \in Places /\ PlaceIsOfPlay' /\ KeepsNewest'
      BY <1>4, <1>6, <2>1, <2>2, KeptAsReported
  <2> QED
      BY <1>4, <2>3
<1> QED
    BY <1>5, <1>6 DEF End

----------------------------------------------------------------------------
(* A device's turns                                                        *)

(* The turns are calls of plays there may be.                              *)
LEMMA TurnsTyped ==
    ASSUME IInv, NEW d \in Devices
    PROVE  /\ turns[d] \in Seq(Turns)
           /\ \A n \in DOMAIN turns[d] : turns[d][n] \in Turns
<1>1. turns[d] \in Seq(Turns)
    BY DEF IInv, TypeOK
<1> QED
    BY <1>1, ElementOfSeq, LenProperties

(* A turn that has not looked.                                             *)
LEMMA NewTurn ==
    ASSUME NEW kind \in {"open", "end"}, NEW p \in Plays, NEW turn,
           turn = [kind |-> kind, play |-> p, toClose |-> None]
    PROVE  turn \in Turns /\ turn.kind = kind /\ turn.play = p /\ turn.toClose = None
    BY DEF Turns

(* One more turn at the end, of a device whose turns stay as they are.     *)
LEMMA TurnAdded ==
    ASSUME IInv, NEW d \in Devices, NEW turn \in Turns
    PROVE  /\ Append(turns[d], turn) \in Seq(Turns)
           /\ \A n \in DOMAIN Append(turns[d], turn) :
                 \/ n \in DOMAIN turns[d] /\ Append(turns[d], turn)[n] = turns[d][n]
                 \/ n = Len(turns[d]) + 1 /\ n \notin DOMAIN turns[d] /\ Append(turns[d], turn)[n] = turn
<1> DEFINE s == turns[d]
<1>1. s \in Seq(Turns)
    BY TurnsTyped
<1> HIDE DEF s
<1>2. /\ Append(s, turn) \in Seq(Turns)
      /\ \A n \in DOMAIN Append(s, turn) :
            \/ n \in DOMAIN s /\ Append(s, turn)[n] = s[n]
            \/ n = Len(s) + 1 /\ n \notin DOMAIN s /\ Append(s, turn)[n] = turn
    BY <1>1, AppendProperties, LenProperties
<1> QED
    BY <1>2 DEF s

LEMMA AskPlanKeeps ==
    ASSUME IInv, NEW d \in Devices, NEW p \in Plays, AskPlan(d, p)
    PROVE  IInv'
<1> DEFINE turn == [kind |-> "open", play |-> p, toClose |-> None]
           grown == Append(turns[d], turn)
<1>1. /\ held[p] = None /\ turns' = [turns EXCEPT ![d] = grown]
      /\ \A e \in Devices : \A n \in DOMAIN turns[e] : turns[e][n].play # p
      /\ UNCHANGED <<household, now, held, flight, sweeping, row, counted, lost, listened>>
    BY DEF AskPlan
<1>2. turn \in Turns /\ turn.kind = "open" /\ turn.play = p /\ turn.toClose = None
    BY NewTurn
<1> HIDE DEF turn
<1>3. /\ grown \in Seq(Turns)
      /\ \A n \in DOMAIN grown :
            \/ n \in DOMAIN turns[d] /\ grown[n] = turns[d][n]
            \/ n = Len(turns[d]) + 1 /\ n \notin DOMAIN turns[d] /\ grown[n] = turn
    BY <1>2, TurnAdded
<1> HIDE DEF grown
<1>4. turns \in [Devices -> Seq(Turns)]
    BY DEF IInv, TypeOK
<1>5. TypeOK'
    BY <1>1, <1>3, <1>4 DEF IInv, TypeOK
<1>6. ASSUME NEW e \in Devices, NEW n \in DOMAIN turns'[e]
      PROVE  \/ n \in DOMAIN turns[e] /\ turns'[e][n] = turns[e][n]
             \/ e = d /\ n = Len(turns[d]) + 1 /\ n \notin DOMAIN turns[e] /\ turns'[e][n] = turn
    BY <1>1, <1>3, <1>4
<1>7. WaitsForOpened'
    BY <1>1, <1>2, <1>6 DEF IInv, WaitsForOpened
<1>8. OpenedOnce'
    BY <1>1, <1>2, <1>6 DEF IInv, OpenedOnce
<1>9. LooksInTurn'
    BY <1>1, <1>2, <1>6 DEF IInv, LooksInTurn, On, Held
<1>10. HoldsOne' /\ PlaceIsOfPlay' /\ KeepsNewest'
    BY <1>1 DEF IInv, HoldsOne, Held, PlaceIsOfPlay, KeepsNewest
<1> QED
    BY <1>5, <1>7, <1>8, <1>9, <1>10 DEF IInv

LEMMA CloseHeldKeeps ==
    ASSUME IInv, NEW before, CloseHeld(before)
    PROVE  IInv'
<1> DEFINE old(d) == {p \in On(d) : held[p].openedAt <= before}
           turn(d) == [kind |-> "end", play |-> CHOOSE p \in old(d) : TRUE, toClose |-> None]
<1>1. /\ turns' = [d \in Devices |-> IF old(d) = {} THEN turns[d] ELSE Append(turns[d], turn(d))]
      /\ UNCHANGED <<household, now, held, flight, sweeping, row, counted, lost, listened>>
    BY DEF CloseHeld
<1>2. ASSUME NEW e \in Devices
      PROVE  /\ turns'[e] \in Seq(Turns)
             /\ \A n \in DOMAIN turns'[e] :
                   \/ n \in DOMAIN turns[e] /\ turns'[e][n] = turns[e][n]
                   \/ turns'[e][n].kind = "end" /\ turns'[e][n].toClose = None
  <2>1. CASE old(e) = {}
      BY <1>1, <2>1, TurnsTyped
  <2>2. CASE old(e) # {}
    <3>1. PICK p \in Plays : p = CHOOSE q \in old(e) : TRUE
        BY <2>2 DEF On
    <3>2. turn(e) = [kind |-> "end", play |-> p, toClose |-> None]
        BY <3>1
    <3>3. turns'[e] = Append(turns[e], turn(e))
        BY <1>1, <2>2
    <3> HIDE DEF turn
    <3>4. turn(e) \in Turns /\ turn(e).kind = "end" /\ turn(e).toClose = None
        BY <3>2, NewTurn
    <3> QED
        BY <3>3, <3>4, TurnAdded
  <2> QED
      BY <2>1, <2>2
<1>3. TypeOK'
    BY <1>1, <1>2 DEF IInv, TypeOK
<1>4. WaitsForOpened'
    BY <1>1, <1>2 DEF IInv, WaitsForOpened
<1>5. OpenedOnce'
    BY <1>1, <1>2 DEF IInv, OpenedOnce
<1>6. LooksInTurn'
    BY <1>1, <1>2 DEF IInv, LooksInTurn, On, Held
<1>7. HoldsOne' /\ PlaceIsOfPlay' /\ KeepsNewest'
    BY <1>1 DEF IInv, HoldsOne, Held, PlaceIsOfPlay, KeepsNewest
<1> QED
    BY <1>3, <1>4, <1>5, <1>6, <1>7 DEF IInv

(* A turn looked at or gone on with keeps its kind and its play.           *)
LeftOf(d, n, left) == turns' = [turns EXCEPT ![d][n].toClose = left]
GoesOn(d, n, left) ==
    /\ turns' \in [Devices -> Seq(Turns)]
    /\ \A e \in Devices : DOMAIN turns'[e] = DOMAIN turns[e]
    /\ \A e \in Devices : \A m \in DOMAIN turns[e] :
          /\ turns'[e][m].kind = turns[e][m].kind /\ turns'[e][m].play = turns[e][m].play
          /\ turns'[e][m].toClose = IF e = d /\ m = n THEN left ELSE turns[e][m].toClose

LEMMA TurnGoesOn ==
    ASSUME IInv, NEW d \in Devices, NEW n \in DOMAIN turns[d], NEW left \in SUBSET Plays,
           LeftOf(d, n, left)
    PROVE  GoesOn(d, n, left)
<1> DEFINE turn == [turns[d][n] EXCEPT !.toClose = left]
           s == [turns[d] EXCEPT ![n] = turn]
<1>1. turns \in [Devices -> Seq(Turns)] /\ turns[d] \in Seq(Turns) /\ turns[d][n] \in Turns
    BY TurnsTyped DEF IInv, TypeOK
<1>2. turns' = [turns EXCEPT ![d] = s]
    BY DEF LeftOf
<1>3. turn \in Turns /\ turn.kind = turns[d][n].kind /\ turn.play = turns[d][n].play /\ turn.toClose = left
    BY <1>1 DEF Turns
<1> HIDE DEF turn
<1>4. s \in Seq(Turns) /\ DOMAIN s = DOMAIN turns[d]
      /\ \A m \in DOMAIN turns[d] : s[m] = IF m = n THEN turn ELSE turns[d][m]
    BY <1>1, <1>3, ExceptSeq, LenProperties
<1> HIDE DEF s
<1> QED
    BY <1>1, <1>2, <1>3, <1>4 DEF GoesOn

----------------------------------------------------------------------------
(* What holds of each part of a state makes the invariant                  *)

(* A step that opens no play and leaves the turns, typed and with a place  *)
(* kept as it is to be, keeps the invariant.                               *)
LEMMA QuietKeeps ==
    ASSUME IInv, OpensNone, UNCHANGED turns, TypeOK', PlaceIsOfPlay', KeepsNewest',
           \A f \in flight' : held[f.play] # None,
           sweeping' # None => \A p \in sweeping'.plays : held[p] # None
    PROVE  IInv'
<1>1. WaitsForOpened'
  <2>1. \A f \in flight' : f.play \in Plays
      BY DEF TypeOK, InFlight
  <2>2. sweeping' # None => sweeping'.plays \subseteq Plays
      BY DEF TypeOK
  <2>3. \A d \in Devices : \A n \in DOMAIN turns[d] :
            turns[d][n].toClose # None => turns[d][n].toClose \subseteq Plays
      BY TurnsTyped DEF Turns
  <2> QED
      BY <2>1, <2>2, <2>3 DEF IInv, WaitsForOpened, OpensNone
<1> QED
    BY <1>1, OpensNoneKeeps DEF IInv

(* The place kept stands while no play's last report moves.                *)
LEMMA PlaceStands ==
    ASSUME IInv, OpensNone, UNCHANGED <<household, now, row, listened>>,
           household => flight' = {},
           household => \A q \in Plays : held[q] # None => held'[q].lastReportAt = held[q].lastReportAt
    PROVE  PlaceIsOfPlay' /\ KeepsNewest'
<1>1. row # None => row.place[1] \in Plays
    BY DEF IInv, TypeOK, Places
<1>2. PlaceIsOfPlay'
    BY <1>1 DEF IInv, PlaceIsOfPlay, OpensNone
<1>3. KeepsNewest'
    BY <1>1 DEF IInv, KeepsNewest, PlaceIsOfPlay
<1> QED
    BY <1>2, <1>3

LEMMA PlanLooksKeeps ==
    ASSUME IInv, NEW d \in Devices, NEW n \in UnderWay(d), PlanLooks(d, n)
    PROVE  IInv'
<1>1. n = 1 /\ n \in DOMAIN turns[d]
    BY DEF UnderWay
<1>2. /\ turns' = [turns EXCEPT ![d][n].toClose = On(d)] /\ On(d) \in SUBSET Plays
      /\ UNCHANGED <<household, now, held, flight, sweeping, row, counted, lost, listened>>
    BY DEF PlanLooks, On
<1>3. \A p \in On(d) : held[p] # None
    BY DEF On, Held
<1>4. \A e \in Devices : On(e)' = On(e)
    BY <1>2 DEF On, Held
<1>5. GoesOn(d, n, On(d))
  <2>1. LeftOf(d, n, On(d))
      BY <1>2 DEF LeftOf
  <2> QED
      BY <1>1, <1>2, <2>1, TurnGoesOn
<1>6. TypeOK'
    BY <1>2, <1>5 DEF IInv, TypeOK, GoesOn
<1>7. WaitsForOpened'
    BY <1>2, <1>3, <1>5 DEF IInv, WaitsForOpened, GoesOn
<1>8. OpenedOnce'
    BY <1>2, <1>5 DEF IInv, OpenedOnce, GoesOn
<1>9. LooksInTurn'
    BY <1>1, <1>4, <1>5 DEF IInv, LooksInTurn, GoesOn
<1>10. HoldsOne' /\ PlaceIsOfPlay' /\ KeepsNewest'
    BY <1>2 DEF IInv, HoldsOne, Held, PlaceIsOfPlay, KeepsNewest
<1> QED
    BY <1>6, <1>7, <1>8, <1>9, <1>10 DEF IInv

LEMMA PlanClosesKeeps ==
    ASSUME IInv, NEW d \in Devices, NEW n \in UnderWay(d), PlanCloses(d, n)
    PROVE  IInv'
<1>1. n \in DOMAIN turns[d]
    BY DEF UnderWay
<1>2. turns[d][n].toClose # None
    BY DEF PlanCloses
<1>3. turns[d][n].toClose \subseteq Plays
    BY <1>1, <1>2, TurnsTyped DEF Turns
<1>4. PICK p \in turns[d][n].toClose :
          End(p) /\ turns' = [turns EXCEPT ![d][n].toClose = @ \ {p}]
    BY DEF PlanCloses
<1> DEFINE left == turns[d][n].toClose \ {p}
<1>5. turns' = [turns EXCEPT ![d][n].toClose = left] /\ left \in SUBSET Plays
    BY <1>3, <1>4
<1>6. held[p] # None /\ p \in Plays
    BY <1>1, <1>2, <1>3 DEF IInv, WaitsForOpened
<1>7. UNCHANGED <<household, now, sweeping>> /\ UNCHANGED <<flight, counted, lost, listened>>
    BY <1>4 DEF PlanCloses, End
<1>8. OpensNone /\ ~Held(p)' /\ row' \in Places \cup {None} /\ PlaceIsOfPlay' /\ KeepsNewest'
    BY <1>4, <1>6, <1>7, EndKeeps
<1>9. GoesOn(d, n, left)
  <2>1. LeftOf(d, n, left)
      BY <1>5 DEF LeftOf
  <2> HIDE DEF left
  <2> QED
      BY <1>1, <1>5, <2>1, TurnGoesOn
<1> HIDE DEF left
<1>10. TypeOK'
    BY <1>7, <1>8, <1>9 DEF IInv, TypeOK, OpensNone, GoesOn
<1>11. \A e \in Devices : \A m \in DOMAIN turns[e] : turns[e][m].toClose # None =>
           turns[e][m].toClose \subseteq Plays
    BY TurnsTyped DEF Turns
<1>12. WaitsForOpened'
  <2>1. \A f \in flight' : held'[f.play] # None
      BY <1>7, <1>8 DEF IInv, WaitsForOpened, OpensNone, TypeOK, InFlight
  <2>2. sweeping' # None => \A q \in sweeping'.plays : held'[q] # None
      BY <1>7, <1>8 DEF IInv, WaitsForOpened, OpensNone, TypeOK
  <2>3. ASSUME NEW e \in Devices, NEW m \in DOMAIN turns'[e], turns'[e][m].toClose # None,
               NEW q \in turns'[e][m].toClose
        PROVE  held'[q] # None
    <3>1. m \in DOMAIN turns[e] /\ turns[e][m].toClose # None /\ q \in turns[e][m].toClose
        BY <1>2, <1>9, <2>3 DEF left, GoesOn
    <3> QED
        BY <1>8, <1>11, <3>1 DEF IInv, WaitsForOpened, OpensNone
  <2> QED
      BY <2>1, <2>2, <2>3 DEF WaitsForOpened
<1>13. OpenedOnce'
  <2>1. \A e \in Devices : \A m \in DOMAIN turns[e] : turns[e][m].play \in Plays
      BY TurnsTyped DEF Turns
  <2>2. \A q \in Plays : held'[q] = None <=> held[q] = None
      BY <1>8 DEF OpensNone
  <2>3. \A e \in Devices : \A m \in DOMAIN turns'[e] :
            m \in DOMAIN turns[e] /\ turns'[e][m].kind = turns[e][m].kind
                                  /\ turns'[e][m].play = turns[e][m].play
      BY <1>9 DEF GoesOn
  <2> QED
      BY <2>1, <2>2, <2>3 DEF IInv, OpenedOnce
<1>14. \A e \in Devices : On(e)' \subseteq On(e) /\ p \notin On(e)'
    BY <1>8 DEF OpensNone, On
<1>15. LooksInTurn'
    BY <1>1, <1>2, <1>9, <1>14 DEF IInv, LooksInTurn, left, GoesOn
<1>16. HoldsOne'
    BY <1>8 DEF IInv, HoldsOne, OpensNone
<1> QED
    BY <1>8, <1>10, <1>12, <1>13, <1>15, <1>16 DEF IInv

(* A device's first turn is over: those left are what they were, none has  *)
(* looked.                                                                 *)
LEMMA TurnOver ==
    ASSUME IInv, NEW d \in Devices, 1 \in DOMAIN turns[d],
           turns' = [turns EXCEPT ![d] = RemoveAt(@, 1)]
    PROVE  /\ turns' \in [Devices -> Seq(Turns)]
           /\ \A e \in Devices : \A m \in DOMAIN turns'[e] : e # d =>
                 m \in DOMAIN turns[e] /\ turns'[e][m] = turns[e][m]
           /\ \A m \in DOMAIN turns'[d] :
                 /\ m + 1 \in DOMAIN turns[d] /\ m + 1 # 1 /\ turns'[d][m] = turns[d][m + 1]
                 /\ turns'[d][m].toClose = None
<1> DEFINE s == turns[d]
           rest == RemoveAt(turns[d], 1)
<1>1. turns \in [Devices -> Seq(Turns)] /\ s \in Seq(Turns) /\ DOMAIN s \subseteq Nat
    BY TurnsTyped, LenProperties DEF IInv, TypeOK
<1>2. turns' = [turns EXCEPT ![d] = rest]
    OBVIOUS
<1>3. rest \in Seq(Turns) /\ \A k \in DOMAIN rest : k >= 1 /\ k + 1 \in DOMAIN s /\ rest[k] = s[k + 1]
    BY <1>1, FirstRemoved
<1>4. DOMAIN rest \subseteq Nat
    BY <1>3, LenProperties
<1> HIDE DEF rest
<1>5. \A m \in DOMAIN rest : m + 1 \in DOMAIN turns[d] /\ m + 1 # 1 /\ rest[m] = turns[d][m + 1]
    BY <1>3, <1>4
<1>6. \A m \in DOMAIN rest : rest[m].toClose = None
    BY <1>5 DEF IInv, LooksInTurn
<1> QED
    BY <1>1, <1>2, <1>3, <1>5, <1>6

(* What waits stays opened, and is opened once, as a first turn is over    *)
(* and no play comes to be held but for that turn's own.                   *)
LEMMA OverKeeps ==
    ASSUME IInv, NEW d \in Devices, 1 \in DOMAIN turns[d],
           turns' = [turns EXCEPT ![d] = RemoveAt(@, 1)],
           \A q \in Plays : held[q] # None => held'[q] # None,
           \A q \in Plays : held'[q] # None =>
               held[q] # None \/ (turns[d][1].kind = "open" /\ q = turns[d][1].play),
           \A e \in Devices : e # d => On(e)' \subseteq On(e),
           UNCHANGED <<flight, sweeping>>
    PROVE  WaitsForOpened' /\ OpenedOnce' /\ LooksInTurn'
<1>1. /\ \A e \in Devices : \A m \in DOMAIN turns'[e] : e # d =>
            m \in DOMAIN turns[e] /\ turns'[e][m] = turns[e][m]
      /\ \A m \in DOMAIN turns'[d] :
            /\ m + 1 \in DOMAIN turns[d] /\ m + 1 # 1 /\ turns'[d][m] = turns[d][m + 1]
            /\ turns'[d][m].toClose = None
    BY TurnOver
<1>2. \A e \in Devices : \A m \in DOMAIN turns[e] :
          turns[e][m].play \in Plays /\ (turns[e][m].toClose # None => turns[e][m].toClose \subseteq Plays)
    BY TurnsTyped DEF Turns
<1>3. WaitsForOpened'
  <2>1. \A f \in flight : f.play \in Plays
      BY DEF IInv, TypeOK, InFlight
  <2>2. sweeping # None => sweeping.plays \subseteq Plays
      BY DEF IInv, TypeOK
  <2>3. ASSUME NEW e \in Devices, NEW m \in DOMAIN turns'[e], turns'[e][m].toClose # None
        PROVE  m \in DOMAIN turns[e] /\ turns'[e][m] = turns[e][m]
      BY <1>1, <2>3
  <2>4. ASSUME NEW e \in Devices, NEW m \in DOMAIN turns'[e], turns'[e][m].toClose # None,
               NEW q \in turns'[e][m].toClose
        PROVE  held'[q] # None
    <3>1. m \in DOMAIN turns[e] /\ turns[e][m].toClose # None /\ q \in turns[e][m].toClose
        BY <2>3, <2>4
    <3> QED
        BY <1>2, <3>1 DEF IInv, WaitsForOpened
  <2> QED
      BY <2>1, <2>2, <2>4 DEF IInv, WaitsForOpened
<1>4. \A e \in Devices : \A m \in DOMAIN turns'[e] :
          \E k \in DOMAIN turns[e] : turns'[e][m] = turns[e][k] /\ (e = d => k = m + 1 /\ k # 1)
                                                               /\ (e # d => k = m)
    BY <1>1
<1>5. OpenedOnce'
  <2> SUFFICES ASSUME NEW e \in Devices, NEW m \in DOMAIN turns'[e], turns'[e][m].kind = "open"
               PROVE  /\ held'[turns'[e][m].play] = None
                      /\ \A g \in Devices : \A l \in DOMAIN turns'[g] :
                            turns'[g][l].kind = "open" /\ turns'[g][l].play = turns'[e][m].play
                                => e = g /\ m = l
      BY DEF OpenedOnce
  <2>1. PICK k \in DOMAIN turns[e] :
            turns'[e][m] = turns[e][k] /\ (e = d => k = m + 1 /\ k # 1) /\ (e # d => k = m)
      BY <1>4
  <2>2. /\ held[turns[e][k].play] = None
        /\ \A g \in Devices : \A l \in DOMAIN turns[g] :
              turns[g][l].kind = "open" /\ turns[g][l].play = turns[e][k].play => e = g /\ k = l
      BY <2>1 DEF IInv, OpenedOnce
  <2>3. held'[turns[e][k].play] = None
    <3>1. turns[d][1].kind = "open" => turns[e][k].play # turns[d][1].play
        BY <2>1, <2>2
    <3> QED
        BY <1>2, <2>2, <3>1
  <2>4. ASSUME NEW g \in Devices, NEW l \in DOMAIN turns'[g], turns'[g][l].kind = "open",
               turns'[g][l].play = turns'[e][m].play
        PROVE  e = g /\ m = l
    <3>1. PICK j \in DOMAIN turns[g] :
              turns'[g][l] = turns[g][j] /\ (g = d => j = l + 1) /\ (g # d => j = l)
        BY <1>4
    <3>2. e = g /\ k = j
        BY <2>1, <2>2, <2>4, <3>1
    <3>3. m \in Int /\ l \in Int
      <4>1. turns'[e] \in Seq(Turns) /\ turns'[g] \in Seq(Turns)
          BY TurnOver
      <4> QED
          BY <4>1, LenProperties
    <3> QED
        BY <2>1, <3>1, <3>2, <3>3
  <2> QED
      BY <2>1, <2>3, <2>4
<1>6. LooksInTurn'
    BY <1>1 DEF IInv, LooksInTurn
<1> QED
    BY <1>3, <1>5, <1>6

LEMMA PlanHoldsKeeps ==
    ASSUME IInv, NEW d \in Devices, NEW n \in UnderWay(d), PlanHolds(d, n)
    PROVE  IInv'
<1> DEFINE p == turns[d][1].play
           new == [device |-> d, open |-> TRUE,
                   openedAt |-> now, lastSeen |-> now, lastReportAt |-> now,
                   lastPosition |-> None, lastSeq |-> None, ahead |-> 0]
<1>1. n = 1 /\ 1 \in DOMAIN turns[d]
    BY DEF UnderWay
<1>2. /\ turns[d][1].kind = "open" /\ turns[d][1].toClose = {}
      /\ turns' = [turns EXCEPT ![d] = RemoveAt(@, 1)]
      /\ held' = [held EXCEPT ![p] = new]
      /\ UNCHANGED <<household, now, flight, sweeping, row, counted, lost, listened>>
    BY <1>1 DEF PlanHolds
<1>3. held \in [Plays -> OpenPlay \cup {None}] /\ now \in Nat
    BY DEF IInv, TypeOK
<1>4. p \in Plays /\ held[p] = None
    BY <1>1, <1>2, TurnsTyped DEF IInv, OpenedOnce, Turns
<1>5. new \in OpenPlay /\ new.open /\ new.device = d /\ new.lastReportAt = now
    BY <1>3 DEF OpenPlay
<1>6. new # None
    BY <1>5, RecordsAreSomething
<1> HIDE DEF p, new
<1>7. held' \in [Plays -> OpenPlay \cup {None}] /\ held'[p] = new
      /\ \A q \in Plays : q # p => held'[q] = held[q]
    BY <1>2, <1>3, <1>4, <1>5
<1>8. On(d) = {}
  <2>1. {} # None
      BY RecordsAreSomething
  <2> QED
      BY <1>1, <1>2, <2>1 DEF IInv, LooksInTurn
<1>9. \A e \in Devices : e # d => On(e)' \subseteq On(e)
    BY <1>5, <1>7 DEF On, Held
<1>10. WaitsForOpened' /\ OpenedOnce' /\ LooksInTurn'
  <2>1. \A q \in Plays : held[q] # None => held'[q] # None
      BY <1>6, <1>7
  <2>2. \A q \in Plays : held'[q] # None =>
            held[q] # None \/ (turns[d][1].kind = "open" /\ q = turns[d][1].play)
      BY <1>2, <1>7 DEF p
  <2>3. turns' = [turns EXCEPT ![d] = RemoveAt(@, 1)] /\ UNCHANGED <<flight, sweeping>>
      BY <1>2
  <2> QED
      BY <1>1, <1>9, <2>1, <2>2, <2>3, OverKeeps
<1>11. HoldsOne'
  <2>1. \A q \in Plays : Held(q) => held[q].device # d
      BY <1>8 DEF On
  <2> QED
      BY <1>5, <1>7, <2>1 DEF IInv, HoldsOne, Held
<1>12. turns' \in [Devices -> Seq(Turns)]
    BY <1>1, <1>2, TurnOver
<1>13. TypeOK'
    BY <1>2, <1>7, <1>12 DEF IInv, TypeOK
<1>14. row # None => row.place[1] \in Plays
    BY DEF IInv, TypeOK, Places
<1>15. PlaceIsOfPlay'
    BY <1>2, <1>3, <1>5, <1>6, <1>7, <1>14 DEF IInv, PlaceIsOfPlay
<1>16. KeepsNewest'
  <2>1. row # None => household /\ row.place[1] # p
      BY <1>4 DEF IInv, PlaceIsOfPlay
  <2> QED
      BY <1>2, <1>7, <1>14, <2>1 DEF IInv, KeepsNewest
<1> QED
    BY <1>10, <1>11, <1>13, <1>15, <1>16 DEF IInv

LEMMA TurnEndsKeeps ==
    ASSUME IInv, NEW d \in Devices, NEW n \in UnderWay(d), TurnEnds(d, n)
    PROVE  IInv'
<1> DEFINE p == turns[d][1].play
<1>1. n = 1 /\ 1 \in DOMAIN turns[d]
    BY DEF UnderWay
<1>2. turns' = [turns EXCEPT ![d] = RemoveAt(@, 1)] /\ UNCHANGED <<household, now, sweeping>>
    BY <1>1 DEF TurnEnds
<1>3. p \in Plays
    BY <1>1, TurnsTyped DEF Turns
<1>6. OpensNone /\ row' \in Places \cup {None} /\ PlaceIsOfPlay' /\ KeepsNewest'
      /\ UNCHANGED <<flight, counted, lost, listened>>
  <2>1. CASE Held(p)
    <3>1. End(p) /\ held[p] # None
        BY <1>1, <2>1 DEF TurnEnds, Held
    <3> QED
        BY <1>2, <1>3, <3>1, EndKeeps DEF End
  <2>2. CASE ~Held(p)
    <3>1. UNCHANGED <<held, row, flight, counted, lost, listened>>
        BY <1>1, <2>2 DEF TurnEnds
    <3>2. OpensNone /\ row' \in Places \cup {None}
        BY <3>1 DEF IInv, TypeOK, OpensNone, Held
    <3> QED
        BY <1>2, <3>1, <3>2 DEF IInv, PlaceIsOfPlay, KeepsNewest
  <2> QED
      BY <2>1, <2>2
<1>7. \A e \in Devices : On(e)' \subseteq On(e)
    BY <1>6 DEF OpensNone, On
<1>8. WaitsForOpened' /\ OpenedOnce' /\ LooksInTurn'
    BY <1>1, <1>2, <1>6, <1>7, OverKeeps DEF OpensNone
<1>9. HoldsOne'
    BY <1>6 DEF IInv, HoldsOne, OpensNone
<1>10. turns' \in [Devices -> Seq(Turns)]
    BY <1>1, <1>2, TurnOver
<1>11. TypeOK'
    BY <1>2, <1>6, <1>10 DEF IInv, TypeOK, OpensNone
<1> QED
    BY <1>6, <1>8, <1>9, <1>11 DEF IInv

----------------------------------------------------------------------------
(* Reports, touches and sweeps                                             *)

(* The listening a report may claim of a play is some, and what is left of *)
(* the slack after it.                                                     *)
LEMMA Measured ==
    ASSUME NEW p \in Plays, held[p] \in OpenPlay, now \in Nat, NEW claim \in Claims
    PROVE  Bounded(p, claim) \in Nat /\ Ahead(p, claim) \in Nat
<1>1. /\ held[p].lastReportAt \in Nat /\ held[p].ahead \in Nat
      /\ claim \in Nat /\ Slack \in Nat
    BY OpenPlaysConstants DEF OpenPlay
<1>2. Elapsed(p) \in Nat
    BY <1>1 DEF Elapsed, Higher
<1>3. Higher(0, Elapsed(p) + Slack - held[p].ahead) \in Nat
    BY <1>1, <1>2 DEF Higher
<1>4. Bounded(p, claim) \in Nat
    BY <1>1, <1>3 DEF Bounded, Lower
<1>5. Ahead(p, claim) \in Nat
    BY <1>1, <1>2, <1>4 DEF Ahead, Higher
<1> QED
    BY <1>4, <1>5

(* What a play held is, and the state it is held in.                       *)
LEMMA HeldIsPlay ==
    ASSUME IInv
    PROVE  /\ held \in [Plays -> OpenPlay \cup {None}] /\ now \in Nat /\ household \in BOOLEAN
           /\ \A p \in Plays : held[p] # None => held[p] \in OpenPlay
    BY DEF IInv, TypeOK

(* A play touched, or reported on late, is seen now and no more.           *)
LEMMA SeenKeeps ==
    ASSUME IInv, NEW p \in Plays, Held(p),
           held' = [held EXCEPT ![p].lastSeen = now],
           UNCHANGED <<household, now, turns, flight, sweeping, row, counted, lost, listened>>
    PROVE  IInv'
<1> DEFINE new == [held[p] EXCEPT !.lastSeen = now]
<1>1. held[p] \in OpenPlay /\ held[p] # None /\ now \in Nat
    BY HeldIsPlay DEF Held
<1>2. new \in OpenPlay /\ new.device = held[p].device /\ (new.open => held[p].open)
      /\ new.lastReportAt = held[p].lastReportAt
    BY <1>1 DEF OpenPlay
<1>3. held' = [held EXCEPT ![p] = new]
    OBVIOUS
<1> HIDE DEF new
<1>4. OpensNone /\ \A q \in Plays : q # p => held'[q] = held[q]
    BY <1>1, <1>2, <1>3, OneChanges
<1>5. held'[p] = new
    BY <1>3 DEF IInv, TypeOK
<1>6. PlaceIsOfPlay' /\ KeepsNewest'
  <2>1. \A q \in Plays : held[q] # None => held'[q].lastReportAt = held[q].lastReportAt
      BY <1>2, <1>4, <1>5
  <2>2. household => flight' = {}
      BY DEF IInv, PlaceIsOfPlay
  <2> QED
      BY <1>4, <2>1, <2>2, PlaceStands
<1>7. TypeOK'
    BY <1>4 DEF IInv, TypeOK, OpensNone
<1>8. /\ \A f \in flight' : held[f.play] # None
      /\ sweeping' # None => \A q \in sweeping'.plays : held[q] # None
    BY DEF IInv, WaitsForOpened
<1> QED
    BY <1>4, <1>6, <1>7, <1>8, QuietKeeps

LEMMA ReportKeeps ==
    ASSUME IInv, NEW p \in Plays, NEW seq \in Nat, NEW claim \in Claims, Report(p, seq, claim)
    PROVE  IInv'
<1>1. CASE Stale(p, seq)
    BY <1>1, SeenKeeps DEF Report
<1>2. CASE ~Stale(p, seq)
  <2> DEFINE taken == [held[p] EXCEPT !.lastSeen = now, !.lastSeq = seq,
                                      !.lastReportAt = now, !.ahead = Ahead(p, claim)]
             new == IF household THEN [taken EXCEPT !.lastPosition = seq] ELSE taken
  <2>1. held[p] \in OpenPlay /\ held[p] # None /\ now \in Nat /\ household \in BOOLEAN
      BY HeldIsPlay DEF Report, Held
  <2>2. Bounded(p, claim) \in Nat /\ Ahead(p, claim) \in Nat
      BY <2>1, Measured
  <2>3. taken \in OpenPlay /\ taken.device = held[p].device /\ taken.open = held[p].open
        /\ taken.lastReportAt = now
      BY <2>1, <2>2 DEF OpenPlay
  <2>4. /\ UNCHANGED <<household, now, turns, sweeping, counted, lost>>
        /\ held' = [held EXCEPT ![p] = new]
        /\ household => Listened(p, seq) /\ UNCHANGED flight
        /\ ~household =>
              /\ flight' = flight \cup
                   {[play |-> p, seq |-> seq, listened |-> Bounded(p, claim),
                     lastSeq |-> held[p].lastSeq, ahead |-> held[p].ahead,
                     lastReportAt |-> held[p].lastReportAt]}
              /\ UNCHANGED <<row, listened>>
      BY <1>2, <2>1 DEF Report
  <2> HIDE DEF taken
  <2>5. new \in OpenPlay /\ new.device = held[p].device /\ new.open = held[p].open
        /\ new.lastReportAt = now
      BY <2>1, <2>3 DEF OpenPlay
  <2> HIDE DEF new
  <2>6. OpensNone /\ \A q \in Plays : q # p => held'[q] = held[q]
      BY <2>1, <2>4, <2>5, OneChanges
  <2>7. held'[p] = new
      BY <2>4 DEF IInv, TypeOK
  <2>8. sweeping' # None => \A q \in sweeping'.plays : held[q] # None
      BY <2>4 DEF IInv, WaitsForOpened
  <2>9. CASE household
    <3>1. row' = [place |-> <<p, seq>>, at |-> now] /\ listened' = [place |-> <<p, seq>>, at |-> now]
      <4>1. row = None \/ now >= row.at
          BY <2>9 DEF IInv, PlaceIsOfPlay
      <4> QED
          BY <2>4, <2>9, <4>1 DEF Listened, Kept
    <3>2. row' \in Places /\ row' # None
      <4>1. row' \in Places
          BY <2>1, <3>1 DEF Places
      <4> QED
          BY <4>1, RecordsAreSomething
    <3>3. TypeOK'
        BY <2>1, <2>4, <2>6, <2>9, <3>1, <3>2 DEF IInv, TypeOK, OpensNone
    <3>4. PlaceIsOfPlay'
      <4>1. \A q \in Plays : held'[q] # None => held'[q].lastReportAt <= now
          BY <2>1, <2>5, <2>6, <2>7, <2>9 DEF IInv, PlaceIsOfPlay
      <4>2. held'[row'.place[1]] # None
          BY <2>1, <2>6, <3>1 DEF OpensNone
      <4> QED
          BY <2>1, <2>4, <2>9, <3>1, <3>2, <4>1, <4>2 DEF IInv, PlaceIsOfPlay
    <3>5. KeepsNewest'
        BY <2>1, <3>1 DEF KeepsNewest
    <3>6. \A f \in flight' : held[f.play] # None
        BY <2>4, <2>9 DEF IInv, WaitsForOpened
    <3> QED
        BY <2>4, <2>6, <2>8, <3>3, <3>4, <3>5, <3>6, QuietKeeps
  <2>10. CASE ~household
    <3> DEFINE f == [play |-> p, seq |-> seq, listened |-> Bounded(p, claim),
                     lastSeq |-> held[p].lastSeq, ahead |-> held[p].ahead,
                     lastReportAt |-> held[p].lastReportAt]
    <3>1. f \in InFlight /\ f.play = p
        BY <2>1, <2>2 DEF InFlight, OpenPlay
    <3>2. flight' = flight \cup {f} /\ UNCHANGED <<row, listened>>
        BY <2>4, <2>10
    <3> HIDE DEF f
    <3>3. TypeOK'
        BY <2>4, <2>6, <3>1, <3>2 DEF IInv, TypeOK, OpensNone
    <3>4. PlaceIsOfPlay' /\ KeepsNewest'
        BY <2>4, <2>6, <2>10, <3>2, PlaceStands
    <3>5. \A g \in flight' : held[g.play] # None
        BY <2>1, <3>1, <3>2 DEF IInv, WaitsForOpened
    <3> QED
        BY <2>4, <2>6, <2>8, <3>3, <3>4, <3>5, QuietKeeps
  <2> QED
      BY <2>9, <2>10
<1> QED
    BY <1>1, <1>2

(* What an upstream answers moves no place kept: it is not a household's.  *)
LEMMA AnswerKeeps ==
    ASSUME IInv, NEW f \in flight, Answered(f) \/ Failed(f) \/ AnswerLost(f)
    PROVE  IInv'
<1>1. f \in InFlight /\ held[f.play] # None /\ ~household
    BY DEF IInv, TypeOK, WaitsForOpened, PlaceIsOfPlay
<1>2. held[f.play] \in OpenPlay /\ f.play \in Plays
    BY <1>1, HeldIsPlay DEF InFlight
<1>3. PICK new \in OpenPlay :
          /\ new.device = held[f.play].device /\ new.open = held[f.play].open
          /\ held' = [held EXCEPT ![f.play] = new] \/ held' = held
  <2>1. [held[f.play] EXCEPT !.lastPosition = f.seq] \in OpenPlay
        /\ [held[f.play] EXCEPT !.lastPosition = f.seq].device = held[f.play].device
        /\ [held[f.play] EXCEPT !.lastPosition = f.seq].open = held[f.play].open
      BY <1>1, <1>2 DEF OpenPlay, InFlight
  <2>2. [held[f.play] EXCEPT !.lastSeq = f.lastSeq, !.ahead = f.ahead,
                             !.lastReportAt = f.lastReportAt] \in OpenPlay
        /\ [held[f.play] EXCEPT !.lastSeq = f.lastSeq, !.ahead = f.ahead,
                                !.lastReportAt = f.lastReportAt].device = held[f.play].device
        /\ [held[f.play] EXCEPT !.lastSeq = f.lastSeq, !.ahead = f.ahead,
                                !.lastReportAt = f.lastReportAt].open = held[f.play].open
      BY <1>1, <1>2 DEF OpenPlay, InFlight
  <2>3. CASE Answered(f)
      BY <2>1, <2>3 DEF Answered
  <2>4. CASE TakenBack(f)
      BY <2>2, <2>4 DEF TakenBack
  <2> QED
      BY <2>3, <2>4 DEF Failed, AnswerLost
<1>4. OpensNone
  <2>1. CASE held' = held
      BY <2>1 DEF IInv, TypeOK, OpensNone, Held
  <2>2. CASE held' = [held EXCEPT ![f.play] = new]
    <3>1. PICK p \in Plays : p = f.play
        BY <1>2
    <3> QED
        BY <1>1, <1>3, <2>2, <3>1, OneChanges
  <2> QED
      BY <1>3, <2>1, <2>2
<1>5. /\ UNCHANGED <<household, now, turns, sweeping, row, listened>> /\ flight' \subseteq flight
      /\ counted' = counted \/ counted' = [counted EXCEPT ![f.play] = @ + f.listened]
      /\ lost' = lost \/ lost' = [lost EXCEPT ![f.play] = @ + f.listened]
    BY DEF Answered, Failed, AnswerLost
<1>6. counted' \in [Plays -> Nat] /\ lost' \in [Plays -> Nat]
  <2>1. counted \in [Plays -> Nat] /\ lost \in [Plays -> Nat] /\ f.listened \in Nat
      BY <1>1 DEF IInv, TypeOK, InFlight
  <2> QED
      BY <1>5, <2>1
<1>7. TypeOK'
    BY <1>4, <1>5, <1>6 DEF IInv, TypeOK, OpensNone
<1>8. PlaceIsOfPlay' /\ KeepsNewest'
    BY <1>1, <1>4, <1>5, PlaceStands
<1>9. /\ \A g \in flight' : held[g.play] # None
      /\ sweeping' # None => \A q \in sweeping'.plays : held[q] # None
    BY <1>5 DEF IInv, WaitsForOpened
<1> QED
    BY <1>4, <1>5, <1>7, <1>8, <1>9, QuietKeeps

LEMMA FinishKeeps ==
    ASSUME IInv, NEW p \in Plays, NEW seq, seq = None \/ seq \in Nat, NEW claim \in Claims,
           Finish(p, seq, claim)
    PROVE  IInv'
<1> DEFINE new == [held[p] EXCEPT !.open = FALSE]
           nothing == seq = None \/ Stale(p, IF seq = None THEN 0 ELSE seq)
<1>1. held[p] \in OpenPlay /\ held[p] # None /\ now \in Nat /\ household \in BOOLEAN
    BY HeldIsPlay DEF Finish, Held
<1>2. Bounded(p, claim) \in Nat
    BY <1>1, Measured
<1>3. new \in OpenPlay /\ new.device = held[p].device /\ ~new.open
      /\ new.lastReportAt = held[p].lastReportAt
    BY <1>1 DEF OpenPlay
<1>4. held' = [held EXCEPT ![p] = new] /\ UNCHANGED <<household, now, turns, flight, sweeping, lost>>
    BY DEF Finish
<1> HIDE DEF new
<1>5. OpensNone /\ \A q \in Plays : q # p => held'[q] = held[q]
    BY <1>1, <1>3, <1>4, OneChanges
<1>6. held'[p] = new
    BY <1>4 DEF IInv, TypeOK
<1>7. \A q \in Plays : held[q] # None => held'[q].lastReportAt = held[q].lastReportAt
    BY <1>3, <1>5, <1>6
<1>8. household => flight' = {}
    BY <1>4 DEF IInv, PlaceIsOfPlay
<1>9. row \in Places \cup {None} /\ listened \in [place : (Plays \X Nat) \cup {None}, at : Nat]
      /\ counted \in [Plays -> Nat]
    BY DEF IInv, TypeOK
<1>10. /\ row' \in Places \cup {None} /\ PlaceIsOfPlay' /\ KeepsNewest'
       /\ listened' \in [place : (Plays \X Nat) \cup {None}, at : Nat]
       /\ counted' \in [Plays -> Nat]
  <2>1. CASE nothing
    <3>1. UNCHANGED <<counted, lost, listened>>
        BY <2>1 DEF Finish
    <3>2. CASE seq # None /\ LastTaken(p) # None /\ household
      <4>1. LastTaken(p) \in Nat
          BY <1>1, <3>2 DEF LastTaken, OpenPlay
      <4>2. row' = Kept(<<p, LastTaken(p)>>, held[p].lastReportAt)
          BY <2>1, <3>2 DEF Finish
      <4>3. row' \in Places /\ PlaceIsOfPlay' /\ KeepsNewest'
          BY <1>1, <1>4, <1>5, <1>7, <3>1, <3>2, <4>1, <4>2, KeptAsReported
      <4> QED
          BY <1>9, <3>1, <4>3
    <3>3. CASE ~(seq # None /\ LastTaken(p) # None /\ household)
      <4>1. row' = row
          BY <2>1, <3>3 DEF Finish
      <4> QED
          BY <1>4, <1>5, <1>7, <1>8, <1>9, <3>1, <4>1, PlaceStands
    <3> QED
        BY <3>2, <3>3
  <2>2. CASE ~nothing /\ ~household
    <3>1. UNCHANGED <<row, listened>> /\ counted' = [counted EXCEPT ![p] = @ + Bounded(p, claim)]
        BY <2>2 DEF Finish
    <3>2. counted' \in [Plays -> Nat]
        BY <1>2, <1>9, <3>1
    <3> QED
        BY <1>4, <1>5, <1>7, <1>8, <1>9, <3>1, <3>2, PlaceStands
  <2>3. CASE ~nothing /\ household /\ Bounded(p, claim) > 0
    <3>1. seq \in Nat
        BY <2>3
    <3>2. Listened(p, seq) /\ UNCHANGED counted
        BY <2>3 DEF Finish
    <3>3. row' = [place |-> <<p, seq>>, at |-> now] /\ listened' = [place |-> <<p, seq>>, at |-> now]
      <4>1. row = None \/ now >= row.at
          BY <2>3 DEF IInv, PlaceIsOfPlay
      <4> QED
          BY <3>2, <4>1 DEF Listened, Kept
    <3>4. row' \in Places
        BY <1>1, <3>1, <3>3 DEF Places
    <3>5. row' # None
        BY <3>4, RecordsAreSomething
    <3>6. PlaceIsOfPlay'
      <4>1. held'[row'.place[1]] # None
          BY <1>1, <1>5, <3>3 DEF OpensNone
      <4> QED
          BY <1>1, <1>4, <1>5, <1>7, <2>3, <3>3, <3>5, <4>1 DEF IInv, PlaceIsOfPlay, OpensNone
    <3>7. KeepsNewest'
        BY <1>1, <3>3 DEF KeepsNewest
    <3>8. listened' \in [place : (Plays \X Nat) \cup {None}, at : Nat]
        BY <1>1, <3>1, <3>3
    <3> QED
        BY <1>9, <3>2, <3>4, <3>6, <3>7, <3>8
  <2>4. CASE ~nothing /\ household /\ ~(Bounded(p, claim) > 0)
    <3>1. seq \in Nat
        BY <2>4
    <3>2. row' = Kept(<<p, seq>>, held[p].lastReportAt) /\ UNCHANGED <<counted, lost, listened>>
        BY <2>4 DEF Finish
    <3>3. row' \in Places /\ PlaceIsOfPlay' /\ KeepsNewest'
        BY <1>1, <1>4, <1>5, <1>7, <2>4, <3>1, <3>2, KeptAsReported
    <3> QED
        BY <1>9, <3>2, <3>3
  <2> QED
      BY <2>1, <2>2, <2>3, <2>4
<1>11. TypeOK'
    BY <1>4, <1>5, <1>10 DEF IInv, TypeOK, OpensNone
<1>12. /\ \A f \in flight' : held[f.play] # None
       /\ sweeping' # None => \A q \in sweeping'.plays : held[q] # None
    BY <1>4 DEF IInv, WaitsForOpened
<1> QED
    BY <1>4, <1>5, <1>10, <1>11, <1>12, QuietKeeps

LEMMA SweepKeeps ==
    ASSUME IInv, Sweep
    PROVE  IInv'
<1> DEFINE idle == {p \in Plays : Held(p) /\ IdleAt(now, p)}
<1>1. sweeping' = [at |-> now, plays |-> idle]
      /\ UNCHANGED <<household, now, held, turns, flight, row, counted, lost, listened>>
    BY DEF Sweep
<1>2. idle \subseteq Plays /\ \A p \in idle : held[p] # None
    BY DEF Held
<1> HIDE DEF idle
<1>3. TypeOK'
    BY <1>1, <1>2 DEF IInv, TypeOK
<1>4. OpensNone /\ PlaceIsOfPlay' /\ KeepsNewest'
    BY <1>1 DEF IInv, TypeOK, OpensNone, Held, PlaceIsOfPlay, KeepsNewest
<1>5. /\ \A f \in flight' : held[f.play] # None
      /\ sweeping' # None => \A p \in sweeping'.plays : held[p] # None
    BY <1>1, <1>2 DEF IInv, WaitsForOpened
<1> QED
    BY <1>1, <1>3, <1>4, <1>5, QuietKeeps

LEMMA SweepLooksKeeps ==
    ASSUME IInv, SweepLooks
    PROVE  IInv'
<1>1. sweeping # None /\ sweeping \in [at : Nat, plays : SUBSET Plays]
      /\ \A q \in sweeping.plays : held[q] # None
    BY DEF SweepLooks, IInv, TypeOK, WaitsForOpened
<1>2. PICK p \in sweeping.plays :
          /\ sweeping' = IF sweeping.plays = {p} THEN None
                         ELSE [sweeping EXCEPT !.plays = @ \ {p}]
          /\ IF IdleAt(sweeping.at, p) THEN End(p)
             ELSE UNCHANGED <<held, row, flight, counted, lost, listened>>
    BY DEF SweepLooks
<1>3. p \in Plays /\ held[p] # None /\ UNCHANGED <<household, now, turns>>
    BY <1>1 DEF SweepLooks
<1>4. /\ sweeping' \in [at : Nat, plays : SUBSET Plays] \cup {None}
      /\ sweeping' # None => sweeping'.plays \subseteq sweeping.plays
    BY <1>1, <1>2
<1>5. /\ OpensNone /\ row' \in Places \cup {None} /\ PlaceIsOfPlay' /\ KeepsNewest'
      /\ UNCHANGED <<flight, counted, lost, listened>>
  <2>1. CASE End(p)
      BY <1>3, <2>1, EndKeeps DEF End
  <2>2. CASE UNCHANGED <<held, row, flight, counted, lost, listened>>
      BY <1>3, <2>2 DEF IInv, TypeOK, OpensNone, Held, PlaceIsOfPlay, KeepsNewest
  <2> QED
      BY <1>2, <2>1, <2>2
<1>6. TypeOK'
    BY <1>3, <1>4, <1>5 DEF IInv, TypeOK, OpensNone
<1>7. /\ \A f \in flight' : held[f.play] # None
      /\ sweeping' # None => \A q \in sweeping'.plays : held[q] # None
    BY <1>1, <1>4, <1>5 DEF IInv, WaitsForOpened
<1> QED
    BY <1>3, <1>5, <1>6, <1>7, QuietKeeps

LEMMA TickKeeps ==
    ASSUME IInv, Tick
    PROVE  IInv'
<1>1. now' = now + 1 /\ now \in Nat
      /\ UNCHANGED <<household, held, turns, flight, sweeping, row, counted, lost, listened>>
    BY DEF Tick, IInv, TypeOK
<1>2. TypeOK'
    BY <1>1 DEF IInv, TypeOK
<1>3. OpensNone /\ KeepsNewest'
    BY <1>1 DEF IInv, TypeOK, OpensNone, Held, KeepsNewest
<1>4. PlaceIsOfPlay'
  <2>1. \A p \in Plays : held[p] # None => held[p].lastReportAt \in Nat
      BY DEF IInv, TypeOK, OpenPlay
  <2>2. row # None => row.at \in Nat
      BY DEF IInv, TypeOK, Places
  <2> QED
      BY <1>1, <2>1, <2>2 DEF IInv, PlaceIsOfPlay
<1>5. /\ \A f \in flight' : held[f.play] # None
      /\ sweeping' # None => \A q \in sweeping'.plays : held[q] # None
    BY <1>1 DEF IInv, WaitsForOpened
<1> QED
    BY <1>1, <1>2, <1>3, <1>4, <1>5, QuietKeeps

----------------------------------------------------------------------------
(* The invariant, and what follows from it                                 *)

LEMMA InitHolds == Init => IInv
<1> SUFFICES ASSUME Init PROVE IInv
    OBVIOUS
<1>1. \A p \in Plays : held[p] = None
    BY DEF Init
<1>2. \A d \in Devices : turns[d] = <<>> /\ DOMAIN turns[d] = {}
    BY DEF Init
<1>3. TypeOK
  <2>1. <<>> \in Seq(Turns)
      BY EmptySeq
  <2> QED
      BY <2>1 DEF Init, TypeOK
<1>4. WaitsForOpened /\ OpenedOnce /\ LooksInTurn
    BY <1>2 DEF Init, WaitsForOpened, OpenedOnce, LooksInTurn
<1>5. HoldsOne /\ PlaceIsOfPlay /\ KeepsNewest
    BY <1>1 DEF Init, HoldsOne, Held, PlaceIsOfPlay, KeepsNewest
<1> QED
    BY <1>3, <1>4, <1>5 DEF IInv

LEMMA NextHolds == IInv /\ [Next]_vars => IInv'
<1> SUFFICES ASSUME IInv, [Next]_vars PROVE IInv'
    OBVIOUS
<1>1. \A seq \in 0..MaxSeq : seq \in Nat
    OBVIOUS
<1>2. CASE \E d \in Devices, p \in Plays : AskPlan(d, p)
    BY <1>2, AskPlanKeeps
<1>3. CASE \E before \in 0..now : CloseHeld(before)
    BY <1>3, CloseHeldKeeps
<1>4. CASE \E d \in Devices : \E n \in UnderWay(d) : PlanLooks(d, n)
    BY <1>4, PlanLooksKeeps
<1>5. CASE \E d \in Devices : \E n \in UnderWay(d) : PlanCloses(d, n)
    BY <1>5, PlanClosesKeeps
<1>6. CASE \E d \in Devices : \E n \in UnderWay(d) : PlanHolds(d, n)
    BY <1>6, PlanHoldsKeeps
<1>7. CASE \E d \in Devices : \E n \in UnderWay(d) : TurnEnds(d, n)
    BY <1>7, TurnEndsKeeps
<1>8. CASE \E p \in Plays : Touch(p)
    BY <1>8, SeenKeeps DEF Touch
<1>9. CASE \E p \in Plays : \E claim \in Claims : \E seq \in 0..MaxSeq : Report(p, seq, claim)
    BY <1>1, <1>9, ReportKeeps
<1>10. CASE \E p \in Plays : \E claim \in Claims :
           \E seq \in (0..MaxSeq) \cup {None} : Finish(p, seq, claim)
  <2>1. PICK p \in Plays, claim \in Claims, seq \in (0..MaxSeq) \cup {None} : Finish(p, seq, claim)
      BY <1>10
  <2>2. seq = None \/ seq \in Nat
      BY <1>1
  <2> QED
      BY <2>1, <2>2, FinishKeeps
<1>11. CASE \E f \in flight : Answered(f) \/ Failed(f) \/ AnswerLost(f)
    BY <1>11, AnswerKeeps
<1>12. CASE Sweep
    BY <1>12, SweepKeeps
<1>13. CASE SweepLooks
    BY <1>13, SweepLooksKeeps
<1>14. CASE Tick
    BY <1>14, TickKeeps
<1>15. CASE UNCHANGED vars
    BY <1>15 DEF IInv, TypeOK, WaitsForOpened, OpenedOnce, LooksInTurn, On, HoldsOne, Held,
                 PlaceIsOfPlay, KeepsNewest, vars
<1> QED
    BY <1>2, <1>3, <1>4, <1>5, <1>6, <1>7, <1>8, <1>9, <1>10, <1>11, <1>12, <1>13, <1>14, <1>15
       DEF Next

(* Whatever waits is of a play opened once, only the first of a device's   *)
(* turns has looked, and the place kept is a play's (openPlays.ts).        *)
THEOREM Invariant == Spec => []IInv
<1>1. Init => IInv
    BY InitHolds
<1>2. IInv /\ [Next]_vars => IInv'
    BY NextHolds
<1> QED
    BY <1>1, <1>2, PTL DEF Spec

(* However many plays a device asks for at once, and whatever closes them, *)
(* it holds one at most (openPlays.ts planOn).                             *)
THEOREM HoldsAtMostOne == Spec => []OneHeldPerDevice
<1>1. IInv => OneHeldPerDevice
  <2> SUFFICES ASSUME IInv, NEW d \in Devices PROVE Cardinality(On(d)) <= 1
      BY DEF OneHeldPerDevice
  <2>1. CASE On(d) = {}
      BY <2>1, FS_EmptySet
  <2>2. CASE On(d) # {}
    <3>1. PICK p \in On(d) : TRUE
        BY <2>2
    <3>2. On(d) = {p}
        BY <3>1 DEF IInv, HoldsOne, On
    <3>3. Cardinality({p}) = 1
        BY FS_Singleton
    <3> QED
        BY <3>2, <3>3
  <2> QED
      BY <2>1, <2>2
<1> QED
    BY <1>1, Invariant, PTL

(* The place a household play leaves is the newest listening's, or as new, *)
(* whichever of its plays closes last (store/heldProgress.ts keepHeld).    *)
THEOREM NewestPlaceKept == Spec => []KeepsNewest
<1>1. IInv => KeepsNewest
    BY DEF IInv
<1> QED
    BY <1>1, Invariant, PTL

----------------------------------------------------------------------------
(* The listening granted                                                   *)

(* What a play held and a report on its way are made of.                   *)
LEMMA NumbersOf ==
    ASSUME TypeOK
    PROVE  /\ now \in Nat
           /\ \A p \in Plays : held[p] # None =>
                 /\ held[p] \in OpenPlay
                 /\ held[p].openedAt \in Nat /\ held[p].lastReportAt \in Nat
                 /\ held[p].ahead \in Nat /\ held[p].lastSeq \in Nat \cup {None}
           /\ \A f \in flight :
                 /\ f \in InFlight /\ f.play \in Plays /\ f.seq \in Nat /\ f.listened \in Nat
                 /\ f.lastSeq \in Nat \cup {None} /\ f.ahead \in Nat /\ f.lastReportAt \in Nat
<1>1. \A p \in Plays : held[p] # None => held[p] \in OpenPlay
    BY DEF TypeOK
<1>2. flight \subseteq InFlight /\ now \in Nat
    BY DEF TypeOK
<1> QED
    BY <1>1, <1>2 DEF OpenPlay, InFlight

(* What is granted of a play is some.                                      *)
LEMMA GrantedIsNat ==
    ASSUME TypeOK, IsFiniteSet(flight), Once \in [Plays -> Nat], NEW p \in Plays
    PROVE  /\ ReportsOf(p) \subseteq flight /\ IsFiniteSet(ReportsOf(p))
           /\ \A f \in flight : Brought[f] = f.listened /\ Brought[f] \in Nat
           /\ SumFunctionOnSet(Brought, ReportsOf(p)) \in Nat
           /\ Granted(p) \in Nat
<1>1. ReportsOf(p) \subseteq flight /\ IsFiniteSet(ReportsOf(p))
    BY FS_Subset DEF ReportsOf
<1>2. \A f \in flight : Brought[f] = f.listened /\ Brought[f] \in Nat
    BY NumbersOf DEF Brought
<1>3. SumFunctionOnSet(Brought, ReportsOf(p)) \in Nat
    BY <1>1, <1>2, SumIsNat
<1>4. Once[p] \in Nat
    OBVIOUS
<1> QED
    BY <1>1, <1>2, <1>3, <1>4 DEF Granted

(* A report on its way is a part of what is granted of its play.           *)
LEMMA ReportIsPart ==
    ASSUME NEW S, IsFiniteSet(S), S \subseteq InFlight, NEW f \in S
    PROVE  /\ SumFunctionOnSet(Brought, S) = f.listened + SumFunctionOnSet(Brought, S \ {f})
           /\ SumFunctionOnSet(Brought, S \ {f}) \in Nat /\ f.listened \in Nat
<1>1. \A g \in S : Brought[g] = g.listened /\ Brought[g] \in Nat
    BY DEF Brought, InFlight
<1>2. IsFiniteSet(S \ {f})
    BY FS_Subset
<1>3. SumFunctionOnSet(Brought, S \ {f}) \in Nat
    BY <1>1, <1>2, SumIsNat
<1>4. SumFunctionOnSet(Brought, S) = Brought[f] + SumFunctionOnSet(Brought, S \ {f})
    BY <1>1, SumByAny
<1> QED
    BY <1>1, <1>3, <1>4

(* What is counted of reports not taken back, as what is counted stands.   *)
LEMMA OnceStands ==
    ASSUME UNCHANGED <<counted, lost>>
    PROVE  UNCHANGED Once
  BY DEF Once

(* With no report taken or answered, as much is granted.                   *)
LEMMA GrantedStays ==
    ASSUME NEW p, UNCHANGED <<flight, Once>>
    PROVE  Granted(p)' = Granted(p)
  BY DEF Granted, ReportsOf

(* What a report may claim: within the time, and what is left of the slack.*)
LEMMA Allowed ==
    ASSUME NEW p \in Plays, held[p] \in OpenPlay, now \in Nat, NEW claim \in Claims,
           held[p].lastReportAt <= now, held[p].ahead <= Slack
    PROVE  /\ Bounded(p, claim) \in Nat /\ Ahead(p, claim) \in Nat /\ Ahead(p, claim) <= Slack
           /\ held[p].lastReportAt + held[p].ahead + Bounded(p, claim) <= now + Ahead(p, claim)
           /\ held[p].lastReportAt + held[p].ahead + Bounded(p, claim) <= now + Slack
<1> DEFINE last == held[p].lastReportAt
           ahead == held[p].ahead
           elapsed == Elapsed(p)
           left == Higher(0, elapsed + Slack - ahead)
           bounded == Bounded(p, claim)
<1>1. last \in Nat /\ ahead \in Nat /\ claim \in Nat /\ Slack \in Nat
    BY OpenPlaysConstants DEF OpenPlay
<1>2. last <= now /\ ahead <= Slack
    OBVIOUS
<1>3. elapsed = Higher(0, now - last)
    BY DEF Elapsed
<1>4. bounded = Lower(claim, left)
    BY DEF Bounded
<1>5. Ahead(p, claim) = Higher(0, ahead + bounded - elapsed)
    BY DEF Ahead
<1> HIDE DEF last, ahead, elapsed, bounded
<1>6. elapsed = now - last /\ elapsed \in Nat
    BY <1>1, <1>2, <1>3 DEF Higher
<1>7. left = elapsed + Slack - ahead /\ left \in Nat
    BY <1>1, <1>2, <1>6 DEF Higher
<1> HIDE DEF left
<1>8. bounded \in Nat /\ bounded <= left
    BY <1>1, <1>4, <1>7 DEF Lower
<1>9. Ahead(p, claim) \in Nat /\ Ahead(p, claim) >= ahead + bounded - elapsed
      /\ Ahead(p, claim) <= Slack
    BY <1>1, <1>5, <1>6, <1>7, <1>8 DEF Higher
<1>10. last + ahead + bounded <= now + Ahead(p, claim)
    BY <1>1, <1>6, <1>8, <1>9
<1>11. last + ahead + bounded <= now + Slack
    BY <1>1, <1>6, <1>7, <1>8
<1> QED
    BY <1>8, <1>9, <1>10, <1>11 DEF last, ahead, bounded

----------------------------------------------------------------------------
(* Steps that grant nothing                                                *)

(* A play's clock goes no further back, and reports on their way keep the  *)
(* number they are told from.                                              *)
ClockGoesOn(p) ==
    \/ held[p] = None /\ held'[p] = None
    \/ /\ held[p] # None /\ held'[p] # None
       /\ held'[p].openedAt = held[p].openedAt
       /\ held'[p].lastReportAt <= now' /\ held'[p].ahead <= Slack
       /\ held[p].lastReportAt + held[p].ahead <= held'[p].lastReportAt + held'[p].ahead
       /\ Held(p)' => Held(p)
       /\ flight = {} \/ held'[p].lastSeq = held[p].lastSeq

(* A play as it is, or closed, goes on as it was.                          *)
LEMMA ClockStands ==
    ASSUME IInv, TimeInv, NEW p \in Plays, now <= now', now' \in Nat,
           \/ held'[p] = held[p]
           \/ /\ held[p] # None /\ held'[p] # None
              /\ held'[p].openedAt = held[p].openedAt
              /\ held'[p].lastReportAt = held[p].lastReportAt /\ held'[p].ahead = held[p].ahead
              /\ held'[p].lastSeq = held[p].lastSeq
              /\ Held(p)' => Held(p)
    PROVE  ClockGoesOn(p)
<1>1. CASE held[p] = None
    BY <1>1 DEF ClockGoesOn
<1>2. CASE held[p] # None
  <2>1. /\ held[p].lastReportAt \in Nat /\ held[p].ahead \in Nat /\ now \in Nat
        /\ held[p].lastReportAt <= now /\ held[p].ahead <= Slack
      BY <1>2, NumbersOf DEF IInv, TimeInv, ClocksFit
  <2> QED
      BY <1>2, <2>1 DEF ClockGoesOn, Held
<1> QED
    BY <1>1, <1>2

(* With nothing granted and every clock going on, all stays in time.       *)
LEMMA QuietInTime ==
    ASSUME IInv, TimeInv, TypeOK', UNCHANGED <<flight, Once>>, now <= now',
           \A p \in Plays : ClockGoesOn(p)
    PROVE  TimeInv'
<1>1. PICK before \in [flight -> 0..(now + Slack)] : GrantedInTime(before)
    BY DEF TimeInv
<1>2. now \in Nat /\ now' \in Nat /\ Slack \in Nat
    BY OpenPlaysConstants DEF IInv, TypeOK
<1>3. \A f \in flight : /\ f.play \in Plays /\ held[f.play] # None
                        /\ f.lastReportAt \in Nat /\ f.ahead \in Nat
    BY NumbersOf DEF IInv, WaitsForOpened
<1>4. ClocksFit'
  <2>1. \A p \in Plays : held'[p] = None => Once'[p] = 0
      BY DEF TimeInv, ClocksFit, ClockGoesOn
  <2>2. \A p \in Plays : held'[p] # None => held'[p].lastReportAt <= now' /\ held'[p].ahead <= Slack
      BY DEF ClockGoesOn
  <2>3. \A f \in flight : f.lastReportAt <= now' /\ f.ahead <= Slack
    <3>1. \A f \in flight : f.lastReportAt <= now /\ f.ahead <= Slack
        BY DEF TimeInv, ClocksFit
    <3> QED
        BY <1>2, <1>3, <3>1
  <2>4. IsFiniteSet(flight) /\ Once \in [Plays -> Nat]
      BY DEF TimeInv, ClocksFit
  <2> QED
      BY <2>1, <2>2, <2>3, <2>4 DEF ClocksFit
<1>5. ReportsInOrder'
  <2> SUFFICES ASSUME NEW f \in flight, Held(f.play)'
               PROVE  held'[f.play].lastSeq # None /\ f.seq <= held'[f.play].lastSeq
      BY DEF ReportsInOrder, TimeInv
  <2>1. PICK p \in Plays : p = f.play
      BY <1>3
  <2>2. held'[p].lastSeq = held[p].lastSeq /\ Held(p)
      BY <1>3, <2>1 DEF ClockGoesOn
  <2> QED
      BY <2>1, <2>2 DEF TimeInv, ReportsInOrder
<1>6. before \in [flight' -> 0..(now' + Slack)]
    BY <1>2
<1>7. GrantedInTime(before)'
  <2>1. ASSUME NEW p \in Plays, held'[p] # None
        PROVE  /\ Granted(p)' <= now' - held'[p].openedAt + Slack
               /\ Held(p)' => Granted(p)' <= Due(p, held[p].lastReportAt, held[p].ahead)'
    <3>1. /\ Granted(p)' = Granted(p) /\ Granted(p) \in Nat
      <4>1. IsFiniteSet(flight) /\ Once \in [Plays -> Nat] /\ TypeOK
          BY DEF TimeInv, ClocksFit, IInv
      <4> QED
          BY <4>1, GrantedStays, GrantedIsNat
    <3>2. /\ held[p] # None /\ held'[p].openedAt = held[p].openedAt
          /\ held[p].lastReportAt + held[p].ahead <= held'[p].lastReportAt + held'[p].ahead
          /\ Held(p)' => Held(p)
        BY <2>1 DEF ClockGoesOn
    <3>3. /\ held[p].lastReportAt \in Nat /\ held[p].ahead \in Nat /\ held[p].openedAt \in Nat
        BY <3>2, NumbersOf DEF IInv
    <3>4. held'[p].lastReportAt \in Nat /\ held'[p].ahead \in Nat
      <4>1. held'[p] \in OpenPlay
          BY <2>1 DEF TypeOK
      <4> QED
          BY <4>1 DEF OpenPlay
    <3>5. /\ Granted(p) <= now - held[p].openedAt + Slack
          /\ Held(p) => Granted(p) <= held[p].lastReportAt - held[p].openedAt + held[p].ahead
        BY <1>1, <3>2 DEF GrantedInTime, Due
    <3>6. Granted(p)' <= now' - held'[p].openedAt + Slack
        BY <1>2, <3>1, <3>2, <3>3, <3>5
    <3>7. ASSUME Held(p)'
          PROVE  Granted(p)' <= held'[p].lastReportAt - held'[p].openedAt + held'[p].ahead
        BY <3>1, <3>2, <3>3, <3>4, <3>5, <3>7
    <3> QED
        BY <3>6, <3>7 DEF Due
  <2>2. ASSUME NEW f \in flight
        PROVE  /\ before[f] <= Due(f.play, f.lastReportAt, f.ahead)'
               /\ (Held(f.play) /\ held[f.play].lastSeq = f.seq)' =>
                     Granted(f.play)' <= before[f] + f.listened
               /\ \A g \in flight : g.play = f.play /\ g.lastSeq = f.seq =>
                     before[g] <= before[f] + f.listened
    <3>1. PICK p \in Plays : p = f.play
        BY <1>3
    <3>2. held[p] # None
        BY <1>3, <3>1
    <3>3. held'[p].openedAt = held[p].openedAt /\ held'[p].lastSeq = held[p].lastSeq
          /\ (Held(p)' => Held(p))
        BY <3>2 DEF ClockGoesOn
    <3>4. /\ before[f] <= f.lastReportAt - held[p].openedAt + f.ahead
          /\ Held(p) /\ held[p].lastSeq = f.seq => Granted(p) <= before[f] + f.listened
          /\ \A g \in flight : g.play = p /\ g.lastSeq = f.seq => before[g] <= before[f] + f.listened
        BY <1>1, <3>1 DEF GrantedInTime, Due
    <3>5. Granted(p)' = Granted(p)
        BY GrantedStays
    <3> QED
        BY <3>1, <3>3, <3>4, <3>5 DEF Due
  <2> QED
      BY <2>1, <2>2 DEF GrantedInTime
<1> QED
    BY <1>4, <1>5, <1>6, <1>7 DEF TimeInv

(* A play that is held from now on has been granted nothing.               *)
LEMMA PlanHoldsInTime ==
    ASSUME IInv, TimeInv, TypeOK', NEW d \in Devices, NEW n \in UnderWay(d), PlanHolds(d, n)
    PROVE  TimeInv'
<1> DEFINE p == turns[d][n].play
           new == [device |-> d, open |-> TRUE,
                   openedAt |-> now, lastSeen |-> now, lastReportAt |-> now,
                   lastPosition |-> None, lastSeq |-> None, ahead |-> 0]
<1>1. /\ turns[d][n].kind = "open" /\ held' = [held EXCEPT ![p] = new]
      /\ UNCHANGED <<now, flight, Once>>
    BY OnceStands DEF PlanHolds
<1>2. n = 1 /\ 1 \in DOMAIN turns[d]
    BY DEF UnderWay
<1>3. p \in Plays /\ held[p] = None
    BY <1>1, <1>2, TurnsTyped DEF IInv, OpenedOnce, Turns
<1>4. new \in OpenPlay /\ new # None /\ new.openedAt = now /\ new.lastReportAt = now /\ new.ahead = 0
  <2>1. new \in OpenPlay
      BY DEF OpenPlay, IInv, TypeOK
  <2> QED
      BY <2>1, RecordsAreSomething
<1> HIDE DEF p, new
<1>5. held'[p] = new /\ \A q \in Plays : q # p => held'[q] = held[q]
    BY <1>1, <1>3 DEF IInv, TypeOK
<1>6. PICK before \in [flight -> 0..(now + Slack)] : GrantedInTime(before)
    BY DEF TimeInv
<1>7. now \in Nat /\ Slack \in Nat /\ IsFiniteSet(flight)
    BY OpenPlaysConstants DEF IInv, TypeOK, TimeInv, ClocksFit
<1>8. \A f \in flight : f.play \in Plays /\ f.play # p
    BY <1>3, NumbersOf DEF IInv, WaitsForOpened
<1>9. ClocksFit'
    BY <1>1, <1>4, <1>5, <1>7 DEF TimeInv, ClocksFit
<1>10. ReportsInOrder'
    BY <1>1, <1>5, <1>8 DEF TimeInv, ReportsInOrder, Held
<1>11. Granted(p) = 0
  <2>1. ReportsOf(p) = {}
      BY <1>8 DEF ReportsOf
  <2>2. Once[p] = 0
      BY <1>3 DEF TimeInv, ClocksFit
  <2> QED
      BY <2>1, <2>2, SumOfNone DEF Granted
<1>12. GrantedInTime(before)'
  <2>1. ASSUME NEW q \in Plays, held'[q] # None
        PROVE  /\ Granted(q)' <= now' - held'[q].openedAt + Slack
               /\ Held(q)' => Granted(q)' <= Due(q, held[q].lastReportAt, held[q].ahead)'
    <3>1. Granted(q)' = Granted(q)
        BY <1>1, GrantedStays
    <3>2. CASE q = p
        BY <1>1, <1>4, <1>5, <1>7, <1>11, <3>1, <3>2 DEF Due
    <3>3. CASE q # p
      <4>1. held'[q] = held[q]
          BY <1>5, <3>3
      <4> QED
          BY <1>1, <1>6, <2>1, <3>1, <4>1 DEF GrantedInTime, Due, Held
    <3> QED
        BY <3>2, <3>3
  <2>2. ASSUME NEW f \in flight
        PROVE  /\ before[f] <= Due(f.play, f.lastReportAt, f.ahead)'
               /\ (Held(f.play) /\ held[f.play].lastSeq = f.seq)' =>
                     Granted(f.play)' <= before[f] + f.listened
               /\ \A g \in flight : g.play = f.play /\ g.lastSeq = f.seq =>
                     before[g] <= before[f] + f.listened
    <3>1. PICK q \in Plays : q = f.play
        BY <1>8
    <3>2. held'[q] = held[q] /\ Granted(q)' = Granted(q)
        BY <1>1, <1>5, <1>8, <3>1, GrantedStays
    <3> QED
        BY <1>6, <3>1, <3>2 DEF GrantedInTime, Due, Held
  <2> QED
      BY <1>1, <2>1, <2>2 DEF GrantedInTime
<1> QED
    BY <1>1, <1>6, <1>9, <1>10, <1>12 DEF TimeInv

----------------------------------------------------------------------------
(* Reports                                                                 *)

(* A report taken grants what it brings, and what is due grows by as much. *)
LEMMA TakenInTime ==
    ASSUME IInv, TimeInv, TypeOK', NEW p \in Plays, NEW seq \in Nat, NEW claim \in Claims,
           Held(p), ~Stale(p, seq), NEW new, NEW f,
           new = [held[p] EXCEPT !.lastSeen = now, !.lastSeq = seq,
                                 !.lastReportAt = now, !.ahead = Ahead(p, claim)],
           f = [play |-> p, seq |-> seq, listened |-> Bounded(p, claim),
                lastSeq |-> held[p].lastSeq, ahead |-> held[p].ahead,
                lastReportAt |-> held[p].lastReportAt],
           held' = [held EXCEPT ![p] = new], flight' = flight \cup {f},
           UNCHANGED <<now, Once>>
    PROVE  TimeInv'
<1>1. /\ now \in Nat /\ Slack \in Nat /\ IsFiniteSet(flight) /\ flight \subseteq InFlight
      /\ Once \in [Plays -> Nat]
    BY OpenPlaysConstants DEF IInv, TypeOK, TimeInv, ClocksFit
<1>2. /\ held[p] # None /\ held[p] \in OpenPlay
      /\ held[p].openedAt \in Nat /\ held[p].lastReportAt \in Nat
      /\ held[p].ahead \in Nat /\ held[p].lastSeq \in Nat \cup {None}
      /\ held[p].lastReportAt <= now /\ held[p].ahead <= Slack
    BY NumbersOf DEF Held, IInv, TimeInv, ClocksFit
<1> DEFINE bounded == Bounded(p, claim)
           ahead == Ahead(p, claim)
<1>3. /\ bounded \in Nat /\ ahead \in Nat /\ ahead <= Slack
      /\ held[p].lastReportAt + held[p].ahead + bounded <= now + ahead
    BY <1>1, <1>2, Allowed
<1>4. /\ f \in InFlight /\ f.play = p /\ f.seq = seq /\ f.listened = bounded
      /\ f.lastSeq = held[p].lastSeq /\ f.ahead = held[p].ahead
      /\ f.lastReportAt = held[p].lastReportAt
    BY <1>2, <1>3 DEF InFlight
<1>5. /\ new.openedAt = held[p].openedAt /\ new.lastSeq = seq /\ new.lastReportAt = now
      /\ new.ahead = ahead /\ new.open = held[p].open /\ new \in OpenPlay
    BY <1>1, <1>2, <1>3 DEF OpenPlay
<1>6. new # None
    BY <1>5, RecordsAreSomething
<1> HIDE DEF bounded, ahead
<1>7. held'[p] = new /\ \A q \in Plays : q # p => held'[q] = held[q]
    BY DEF IInv, TypeOK
<1>8. \A g \in flight :
          /\ g.play \in Plays /\ held[g.play] # None /\ g.seq \in Nat /\ g.listened \in Nat
          /\ g.lastSeq \in Nat \cup {None}
    BY NumbersOf DEF IInv, WaitsForOpened
<1>9. \A g \in flight : g.play = p =>
          /\ held[p].lastSeq # None /\ g.seq <= held[p].lastSeq /\ g.seq < seq
  <2> SUFFICES ASSUME NEW g \in flight, g.play = p
               PROVE  held[p].lastSeq # None /\ g.seq <= held[p].lastSeq /\ g.seq < seq
      OBVIOUS
  <2>1. held[p].lastSeq # None /\ g.seq <= held[p].lastSeq
      BY DEF TimeInv, ReportsInOrder
  <2>2. seq > held[p].lastSeq
      BY <1>2, <2>1 DEF Stale
  <2> QED
      BY <1>2, <1>8, <2>1, <2>2
<1>10. held[p].lastSeq # None => held[p].lastSeq < seq
    BY <1>2 DEF Stale
<1>11. f \notin flight
    BY <1>4, <1>9
<1>12. ClocksFit'
  <2>1. IsFiniteSet(flight')
      BY <1>1, FS_AddElement
  <2> QED
      BY <1>1, <1>2, <1>3, <1>4, <1>5, <1>6, <1>7, <2>1 DEF TimeInv, ClocksFit
<1>13. ReportsInOrder'
  <2>1. ASSUME NEW g \in flight
        PROVE  /\ Held(g.play)' => held'[g.play].lastSeq # None /\ g.seq <= held'[g.play].lastSeq
               /\ g.lastSeq # None => g.lastSeq < g.seq
               /\ \A h \in flight \ {g} : h.play = g.play =>
                     /\ h.seq # g.seq
                     /\ g.seq < h.seq => h.lastSeq # None /\ g.seq <= h.lastSeq
               /\ f.play = g.play =>
                     /\ f.seq # g.seq
                     /\ g.seq < f.seq => f.lastSeq # None /\ g.seq <= f.lastSeq
               /\ f.play = g.play => g.seq # f.seq /\ ~(f.seq < g.seq)
    <3>1. /\ g.lastSeq # None => g.lastSeq < g.seq
          /\ \A h \in flight \ {g} : h.play = g.play =>
                /\ h.seq # g.seq
                /\ g.seq < h.seq => h.lastSeq # None /\ g.seq <= h.lastSeq
        BY DEF TimeInv, ReportsInOrder
    <3>2. g.play = p => held[p].lastSeq # None /\ g.seq <= held[p].lastSeq /\ g.seq < seq
        BY <1>9
    <3>3. seq # None
        BY RecordsAreSomething
    <3>4. Held(g.play)' => held'[g.play].lastSeq # None /\ g.seq <= held'[g.play].lastSeq
      <4>1. CASE g.play = p
          BY <1>5, <1>7, <1>8, <3>2, <3>3, <4>1
      <4>2. CASE g.play # p
          BY <1>7, <1>8, <4>2 DEF TimeInv, ReportsInOrder, Held
      <4> QED
          BY <4>1, <4>2
    <3>5. f.play = g.play =>
             /\ f.seq # g.seq /\ f.lastSeq # None /\ g.seq <= f.lastSeq /\ ~(f.seq < g.seq)
        BY <1>4, <1>8, <3>2
    <3> QED
        BY <3>1, <3>4, <3>5
  <2>2. /\ held'[f.play].lastSeq # None /\ f.seq <= held'[f.play].lastSeq
        /\ f.lastSeq # None => f.lastSeq < f.seq
    <3>1. held'[f.play] = new /\ seq # None
        BY <1>4, <1>7, RecordsAreSomething
    <3>2. held'[f.play].lastSeq # None /\ f.seq <= held'[f.play].lastSeq
      <4>1. new.lastSeq = seq /\ f.seq = seq /\ seq <= seq
          BY <1>4, <1>5
      <4> QED
          BY <3>1, <4>1, Zenon
    <3> QED
        BY <1>4, <1>10, <3>2
  <2>3. flight' = flight \cup {f}
      OBVIOUS
  <2> QED
      BY <2>1, <2>2, <2>3 DEF ReportsInOrder
<1>14. /\ Granted(p) \in Nat /\ Granted(p)' = Granted(p) + bounded
       /\ \A q \in Plays : q # p => Granted(q)' = Granted(q)
  <2>1. /\ IsFiniteSet(ReportsOf(p)) /\ ReportsOf(p) \subseteq flight
        /\ SumFunctionOnSet(Brought, ReportsOf(p)) \in Nat /\ Granted(p) \in Nat
      BY <1>1, GrantedIsNat DEF IInv
  <2>2. ReportsOf(p)' = ReportsOf(p) \cup {f}
      BY <1>4 DEF ReportsOf
  <2>3. \A q \in Plays : q # p => ReportsOf(q)' = ReportsOf(q)
      BY <1>4 DEF ReportsOf
  <2> DEFINE S == ReportsOf(p) \cup {f}
  <2>4. IsFiniteSet(S) /\ S \subseteq InFlight /\ f \in S
      BY <1>1, <1>4, <2>1, FS_AddElement
  <2>5. S \ {f} = ReportsOf(p)
      BY <1>11, <2>1
  <2> HIDE DEF S
  <2>6. SumFunctionOnSet(Brought, S) = bounded + SumFunctionOnSet(Brought, ReportsOf(p))
      BY <1>4, <2>4, <2>5, ReportIsPart
  <2>7. SumFunctionOnSet(Brought, ReportsOf(p)') = bounded + SumFunctionOnSet(Brought, ReportsOf(p))
      BY <2>2, <2>6 DEF S
  <2>8. Once[p] \in Nat /\ Once' = Once
      BY <1>1
  <2>9. Granted(p)' = Once[p] + (bounded + SumFunctionOnSet(Brought, ReportsOf(p)))
      BY <2>7, <2>8 DEF Granted
  <2>10. Granted(p)' = Granted(p) + bounded
      BY <1>3, <2>1, <2>8, <2>9 DEF Granted
  <2>11. \A q \in Plays : q # p => Granted(q)' = Granted(q)
      BY <2>3, <2>8 DEF Granted
  <2> QED
      BY <2>1, <2>10, <2>11
<1>15. PICK before \in [flight -> 0..(now + Slack)] : GrantedInTime(before)
    BY DEF TimeInv
<1>16. /\ Granted(p) <= now - held[p].openedAt + Slack
       /\ Granted(p) <= held[p].lastReportAt - held[p].openedAt + held[p].ahead
    BY <1>2, <1>15 DEF GrantedInTime, Due
<1>17. PICK after \in [flight' -> 0..(now' + Slack)] :
           after[f] = Granted(p) /\ \A g \in flight : after[g] = before[g]
  <2> DEFINE grown == [g \in flight' |-> IF g = f THEN Granted(p) ELSE before[g]]
  <2>1. Granted(p) \in 0..(now + Slack)
      BY <1>1, <1>2, <1>14, <1>16
  <2>2. grown \in [flight' -> 0..(now' + Slack)]
      BY <1>11, <1>15, <2>1
  <2>3. grown[f] = Granted(p) /\ \A g \in flight : grown[g] = before[g]
      BY <1>11
  <2> QED
      BY <2>2, <2>3
<1>18. ASSUME NEW q \in Plays, held'[q] # None
       PROVE  /\ Granted(q)' <= now' - held'[q].openedAt + Slack
              /\ Held(q)' => Granted(q)' <= Due(q, held[q].lastReportAt, held[q].ahead)'
  <2>1. CASE q = p
    <3>1. Granted(p) + bounded <= now - held[p].openedAt + ahead
        BY <1>1, <1>2, <1>3, <1>14, <1>16
    <3>2. Granted(p) + bounded <= now - held[p].openedAt + Slack
        BY <1>1, <1>2, <1>3, <1>14, <3>1
    <3> QED
        BY <1>5, <1>7, <1>14, <2>1, <3>1, <3>2 DEF Due
  <2>2. CASE q # p
    <3>1. held'[q] = held[q] /\ Granted(q)' = Granted(q)
        BY <1>7, <1>14, <2>2
    <3> QED
        BY <1>15, <1>18, <3>1 DEF GrantedInTime, Due, Held
  <2> QED
      BY <2>1, <2>2
<1>19. ASSUME NEW g \in flight
       PROVE  /\ before[g] <= Due(g.play, g.lastReportAt, g.ahead)'
              /\ (Held(g.play) /\ held[g.play].lastSeq = g.seq)' =>
                    Granted(g.play)' <= before[g] + g.listened
              /\ \A h \in flight : h.play = g.play /\ h.lastSeq = g.seq =>
                    before[h] <= before[g] + g.listened
              /\ f.play = g.play /\ f.lastSeq = g.seq => after[f] <= before[g] + g.listened
  <2>1. PICK q \in Plays : q = g.play
      BY <1>8
  <2>2. held'[q].openedAt = held[q].openedAt
      BY <1>5, <1>7
  <2>3. /\ before[g] <= g.lastReportAt - held[q].openedAt + g.ahead
        /\ Held(q) /\ held[q].lastSeq = g.seq => Granted(q) <= before[g] + g.listened
        /\ \A h \in flight : h.play = q /\ h.lastSeq = g.seq => before[h] <= before[g] + g.listened
      BY <1>15, <2>1 DEF GrantedInTime, Due
  <2>4. CASE q = p
    <3>1. held'[q].lastSeq # g.seq
      <4>1. g.seq < seq /\ g.seq \in Nat
          BY <1>8, <1>9, <2>1, <2>4
      <4>2. held'[q].lastSeq = seq
          BY <1>5, <1>7, <2>4
      <4> QED
          BY <4>1, <4>2
    <3>2. f.lastSeq = g.seq => after[f] <= before[g] + g.listened
        BY <1>4, <1>17, <2>3, <2>4
    <3> QED
        BY <2>1, <2>2, <2>3, <3>1, <3>2 DEF Due
  <2>5. CASE q # p
    <3>1. held'[q] = held[q] /\ Granted(q)' = Granted(q)
        BY <1>7, <1>14, <2>5
    <3> QED
        BY <1>4, <2>1, <2>3, <2>5, <3>1 DEF Due, Held
  <2> QED
      BY <2>4, <2>5
<1>20. /\ after[f] <= Due(f.play, f.lastReportAt, f.ahead)'
       /\ Granted(f.play)' <= after[f] + f.listened
       /\ \A h \in flight \cup {f} : ~(h.play = f.play /\ h.lastSeq = f.seq)
  <2>1. after[f] <= Due(f.play, f.lastReportAt, f.ahead)'
      BY <1>4, <1>5, <1>7, <1>16, <1>17 DEF Due
  <2>2. Granted(f.play)' <= after[f] + f.listened
    <3>1. Granted(f.play)' = Granted(p)'
        BY <1>4 DEF Granted, ReportsOf
    <3> QED
        BY <1>3, <1>4, <1>14, <1>17, <3>1
  <2>3. ASSUME NEW h \in flight, h.play = f.play, h.lastSeq = f.seq
        PROVE  FALSE
    <3>1. h.lastSeq < h.seq
      <4>1. h.lastSeq # None
          BY <1>4, <2>3, RecordsAreSomething
      <4> QED
          BY <4>1 DEF TimeInv, ReportsInOrder
    <3>2. h.seq < seq
        BY <1>4, <1>9, <2>3
    <3> QED
        BY <1>4, <1>8, <2>3, <3>1, <3>2
  <2>4. f.lastSeq # f.seq
      BY <1>2, <1>4, <1>10, RecordsAreSomething
  <2> QED
      BY <2>1, <2>2, <2>3, <2>4
<1>21. ASSUME NEW g \in flight'
       PROVE  /\ after[g] <= Due(g.play, g.lastReportAt, g.ahead)'
              /\ (Held(g.play) /\ held[g.play].lastSeq = g.seq)' =>
                    Granted(g.play)' <= after[g] + g.listened
              /\ \A h \in flight' : h.play = g.play /\ h.lastSeq = g.seq =>
                    after[h] <= after[g] + g.listened
  <2>1. CASE g = f
      BY <1>20, <2>1
  <2>2. CASE g \in flight
      BY <1>17, <1>19, <2>2
  <2> QED
      BY <2>1, <2>2
<1>22. GrantedInTime(after)'
    BY <1>18, <1>21 DEF GrantedInTime
<1> QED
    BY <1>12, <1>13, <1>17, <1>22 DEF TimeInv

(* A household report grants nothing, and none waits for an upstream.      *)
LEMMA HeardInTime ==
    ASSUME IInv, TimeInv, TypeOK', NEW p \in Plays, NEW seq \in Nat, NEW claim \in Claims,
           Held(p), household, ~Stale(p, seq), Report(p, seq, claim)
    PROVE  TimeInv'
<1> DEFINE new == [[held[p] EXCEPT !.lastSeen = now, !.lastSeq = seq,
                                   !.lastReportAt = now, !.ahead = Ahead(p, claim)]
                      EXCEPT !.lastPosition = seq]
<1>1. held' = [held EXCEPT ![p] = new] /\ UNCHANGED <<now, flight, Once>>
    BY OnceStands DEF Report
<1>2. /\ held[p] # None /\ held[p] \in OpenPlay /\ now \in Nat
      /\ held[p].lastReportAt \in Nat /\ held[p].ahead \in Nat
      /\ held[p].lastReportAt <= now /\ held[p].ahead <= Slack
    BY NumbersOf DEF Held, IInv, TimeInv, ClocksFit
<1>3. /\ Bounded(p, claim) \in Nat /\ Ahead(p, claim) \in Nat /\ Ahead(p, claim) <= Slack
      /\ held[p].lastReportAt + held[p].ahead + Bounded(p, claim) <= now + Ahead(p, claim)
    BY <1>2, Allowed
<1>4. /\ new.openedAt = held[p].openedAt /\ new.lastReportAt = now
      /\ new.ahead = Ahead(p, claim) /\ new \in OpenPlay
    BY <1>2, <1>3 DEF OpenPlay
<1> HIDE DEF new
<1>5. held'[p] = new /\ new # None /\ \A q \in Plays : q # p => held'[q] = held[q]
  <2>1. new # None
      BY <1>4, RecordsAreSomething
  <2> QED
      BY <1>1, <2>1 DEF IInv, TypeOK
<1>6. held[p].lastReportAt + held[p].ahead <= now + Ahead(p, claim)
    BY <1>2, <1>3
<1>7. ClockGoesOn(p)
  <2>1. flight = {}
      BY DEF IInv, PlaceIsOfPlay
  <2> QED
      BY <1>1, <1>2, <1>3, <1>4, <1>5, <1>6, <2>1 DEF ClockGoesOn
<1>8. \A q \in Plays : ClockGoesOn(q)
  <2> SUFFICES ASSUME NEW q \in Plays, q # p PROVE ClockGoesOn(q)
      BY <1>7
  <2> QED
      BY <1>1, <1>2, <1>5, ClockStands
<1> QED
    BY <1>1, <1>2, <1>8, QuietInTime

(* A play touched, or reported on late, is granted nothing.                *)
LEMMA SeenInTime ==
    ASSUME IInv, TimeInv, TypeOK', NEW p \in Plays, Held(p),
           held' = [held EXCEPT ![p].lastSeen = now], UNCHANGED <<now, flight, Once>>
    PROVE  TimeInv'
<1> DEFINE new == [held[p] EXCEPT !.lastSeen = now]
<1>1. held[p] # None /\ held[p] \in OpenPlay /\ now \in Nat
    BY HeldIsPlay DEF Held
<1>2. /\ new \in OpenPlay /\ new.openedAt = held[p].openedAt /\ new.open = held[p].open
      /\ new.lastReportAt = held[p].lastReportAt /\ new.ahead = held[p].ahead
      /\ new.lastSeq = held[p].lastSeq
    BY <1>1 DEF OpenPlay
<1>3. held' = [held EXCEPT ![p] = new]
    OBVIOUS
<1> HIDE DEF new
<1>4. held'[p] = new /\ new # None /\ \A q \in Plays : q # p => held'[q] = held[q]
    BY <1>2, <1>3, RecordsAreSomething DEF IInv, TypeOK
<1>5. Held(p)' => Held(p)
    BY <1>2, <1>4 DEF Held
<1>6. ASSUME NEW q \in Plays PROVE ClockGoesOn(q)
    BY <1>1, <1>2, <1>4, <1>5, ClockStands
<1> QED
    BY <1>1, <1>6, QuietInTime

(* So is a play that is closed with no report.                             *)
LEMMA ClosedInTime ==
    ASSUME IInv, TimeInv, TypeOK', NEW p \in Plays, held[p] # None,
           held' = [held EXCEPT ![p].open = FALSE], UNCHANGED <<now, flight, Once>>
    PROVE  TimeInv'
<1> DEFINE new == [held[p] EXCEPT !.open = FALSE]
<1>1. held[p] \in OpenPlay /\ now \in Nat
    BY HeldIsPlay
<1>2. /\ new \in OpenPlay /\ new.openedAt = held[p].openedAt /\ ~new.open
      /\ new.lastReportAt = held[p].lastReportAt /\ new.ahead = held[p].ahead
      /\ new.lastSeq = held[p].lastSeq
    BY <1>1 DEF OpenPlay
<1>3. held' = [held EXCEPT ![p] = new]
    OBVIOUS
<1> HIDE DEF new
<1>4. held'[p] = new /\ new # None /\ \A q \in Plays : q # p => held'[q] = held[q]
    BY <1>2, <1>3, RecordsAreSomething DEF IInv, TypeOK
<1>5. ~Held(p)'
    BY <1>2, <1>4 DEF Held
<1>6. now' \in Nat /\ now <= now'
    BY <1>1
<1>7. ClockGoesOn(p)
    BY <1>2, <1>4, <1>5, <1>6, ClockStands
<1>8. ASSUME NEW q \in Plays, q # p PROVE ClockGoesOn(q)
    BY <1>4, <1>6, <1>8, ClockStands
<1> QED
    BY <1>6, <1>7, <1>8, QuietInTime

----------------------------------------------------------------------------
(* Answers                                                                 *)

(* A report that is answered, or fails, is no longer a part of what is     *)
(* granted but in what its upstream counts.                                *)
LEMMA PartLeaves ==
    ASSUME IInv, TimeInv, NEW f \in flight, flight' = flight \ {f}
    PROVE  /\ f.play \in Plays /\ f.listened \in Nat /\ Once \in [Plays -> Nat]
           /\ Granted(f.play) \in Nat
           /\ SumFunctionOnSet(Brought, ReportsOf(f.play)') \in Nat
           /\ Once[f.play] + SumFunctionOnSet(Brought, ReportsOf(f.play)') = Granted(f.play) - f.listened
           /\ \A q \in Plays : q # f.play => ReportsOf(q)' = ReportsOf(q)
<1> DEFINE p == f.play
<1>1. IsFiniteSet(flight) /\ flight \subseteq InFlight
    BY DEF IInv, TypeOK, TimeInv, ClocksFit
<1>2. p \in Plays /\ f.listened \in Nat
    BY NumbersOf DEF IInv
<1>3. Once \in [Plays -> Nat]
    BY DEF TimeInv, ClocksFit
<1> HIDE DEF p
<1>4. /\ IsFiniteSet(ReportsOf(p)) /\ ReportsOf(p) \subseteq flight /\ Granted(p) \in Nat
    BY <1>1, <1>2, <1>3, GrantedIsNat DEF IInv
<1>5. f \in ReportsOf(p) /\ ReportsOf(p)' = ReportsOf(p) \ {f}
    BY DEF ReportsOf, p
<1>6. \A q \in Plays : q # p => ReportsOf(q)' = ReportsOf(q)
    BY DEF ReportsOf, p
<1> DEFINE S == ReportsOf(p)
<1>7. IsFiniteSet(S) /\ S \subseteq InFlight /\ f \in S
    BY <1>1, <1>4, <1>5
<1>8. S \ {f} = ReportsOf(p)'
    BY <1>5
<1> HIDE DEF S
<1>9. /\ SumFunctionOnSet(Brought, S) = f.listened + SumFunctionOnSet(Brought, S \ {f})
      /\ SumFunctionOnSet(Brought, S \ {f}) \in Nat
    BY <1>7, ReportIsPart
<1>10. Granted(p) = Once[p] + SumFunctionOnSet(Brought, S)
    BY DEF Granted, S
<1>11. Once[p] \in Nat
    BY <1>2, <1>3
<1>12. Once[p] + SumFunctionOnSet(Brought, S \ {f}) = Granted(p) - f.listened
    BY <1>2, <1>9, <1>10, <1>11
<1>13. /\ Once[p] + SumFunctionOnSet(Brought, ReportsOf(p)') = Granted(p) - f.listened
       /\ SumFunctionOnSet(Brought, ReportsOf(p)') \in Nat
    BY <1>8, <1>9, <1>12
<1> QED
    BY <1>2, <1>3, <1>4, <1>6, <1>13 DEF p

(* A report its upstream counts: as much is granted as before.             *)
LEMMA CountedInTime ==
    ASSUME IInv, TimeInv, TypeOK', NEW f \in flight, flight' = flight \ {f}, UNCHANGED now,
           Once' = [Once EXCEPT ![f.play] = @ + f.listened],
           held' = held \/ held' = [held EXCEPT ![f.play].lastPosition = f.seq]
    PROVE  TimeInv'
<1> DEFINE p == f.play
           new == IF held' = held THEN held[p] ELSE [held[p] EXCEPT !.lastPosition = f.seq]
<1>1. /\ flight' = flight \ {f} /\ UNCHANGED now
      /\ Once' = [Once EXCEPT ![p] = @ + f.listened]
    OBVIOUS
<1>2. /\ p \in Plays /\ f.listened \in Nat /\ Once \in [Plays -> Nat] /\ Granted(p) \in Nat
      /\ SumFunctionOnSet(Brought, ReportsOf(p)') \in Nat
      /\ Once[p] + SumFunctionOnSet(Brought, ReportsOf(p)') = Granted(p) - f.listened
      /\ \A q \in Plays : q # p => ReportsOf(q)' = ReportsOf(q)
    BY <1>1, PartLeaves
<1>3. held[p] # None /\ held[p] \in OpenPlay /\ held \in [Plays -> OpenPlay \cup {None}] /\ f.seq \in Nat
    BY <1>2, HeldIsPlay, NumbersOf DEF IInv, WaitsForOpened
<1>4. held' = [held EXCEPT ![p] = new]
  <2>1. CASE held' = held
      BY <1>2, <1>3, <2>1
  <2>2. CASE held' # held
      BY <2>2
  <2> QED
      BY <2>1, <2>2
<1>5. /\ new \in OpenPlay /\ new.openedAt = held[p].openedAt /\ new.open = held[p].open
      /\ new.lastReportAt = held[p].lastReportAt /\ new.ahead = held[p].ahead
      /\ new.lastSeq = held[p].lastSeq
    BY <1>3 DEF OpenPlay
<1> HIDE DEF new
<1>6. held'[p] = new /\ new # None /\ \A q \in Plays : q # p => held'[q] = held[q]
    BY <1>2, <1>3, <1>4, <1>5, RecordsAreSomething
<1>7. \A q \in Plays :
          IF held[q] = None THEN held'[q] = None
          ELSE /\ held'[q] # None
               /\ held'[q].openedAt = held[q].openedAt /\ (Held(q)' <=> Held(q))
               /\ held'[q].lastReportAt = held[q].lastReportAt /\ held'[q].ahead = held[q].ahead
               /\ held'[q].lastSeq = held[q].lastSeq
  <2> SUFFICES ASSUME NEW q \in Plays
               PROVE  IF held[q] = None THEN held'[q] = None
                      ELSE /\ held'[q] # None
                           /\ held'[q].openedAt = held[q].openedAt /\ (Held(q)' <=> Held(q))
                           /\ held'[q].lastReportAt = held[q].lastReportAt /\ held'[q].ahead = held[q].ahead
                           /\ held'[q].lastSeq = held[q].lastSeq
      OBVIOUS
  <2>1. CASE q = p
    <3>1. Held(q)' <=> Held(q)
        BY <1>3, <1>5, <1>6, <2>1 DEF Held
    <3> QED
        BY <1>3, <1>5, <1>6, <2>1, <3>1
  <2>2. CASE q # p
      BY <1>6, <2>2 DEF Held
  <2> QED
      BY <2>1, <2>2
<1> HIDE DEF p
<1>8. \A q \in Plays : Granted(q)' = Granted(q)
  <2>1. Granted(p)' = Granted(p)
    <3>1. Once'[p] = Once[p] + f.listened
        BY <1>1, <1>2
    <3>3. Granted(p)' = Once'[p] + SumFunctionOnSet(Brought, ReportsOf(p)')
        BY DEF Granted
    <3>4. Once[p] \in Nat
        BY <1>2
    <3> QED
        BY <1>2, <3>1, <3>3, <3>4
  <2>2. ASSUME NEW q \in Plays, q # p PROVE Granted(q)' = Granted(q)
    <3>1. Once'[q] = Once[q] /\ ReportsOf(q)' = ReportsOf(q)
        BY <1>1, <1>2, <2>2
    <3> QED
        BY <3>1 DEF Granted
  <2> QED
      BY <2>1, <2>2
<1>9. ClocksFit'
  <2>1. \A q \in Plays : held'[q] = None => Once'[q] = 0
      BY <1>1, <1>2, <1>3, <1>7 DEF TimeInv, ClocksFit
  <2>2. \A q \in Plays : held'[q] # None => held'[q].lastReportAt <= now' /\ held'[q].ahead <= Slack
      BY <1>1, <1>7 DEF TimeInv, ClocksFit
  <2>3. IsFiniteSet(flight') /\ Once' \in [Plays -> Nat]
    <3>1. Once[p] + f.listened \in Nat
        BY <1>2
    <3>2. Once' = [Once EXCEPT ![p] = Once[p] + f.listened]
        BY <1>1
    <3>3. Once' \in [Plays -> Nat]
        BY <1>2, <3>1, <3>2
    <3> QED
        BY <1>1, <3>3, FS_Subset DEF TimeInv, ClocksFit
  <2> QED
      BY <1>1, <2>1, <2>2, <2>3 DEF TimeInv, ClocksFit
<1>10. \A g \in flight : g.play \in Plays /\ held[g.play] # None
    BY NumbersOf DEF IInv, WaitsForOpened
<1>11. ReportsInOrder'
    BY <1>1, <1>7, <1>10 DEF TimeInv, ReportsInOrder
<1>12. PICK before \in [flight -> 0..(now + Slack)] : GrantedInTime(before)
    BY DEF TimeInv
<1>13. PICK after \in [flight' -> 0..(now' + Slack)] : \A g \in flight' : after[g] = before[g]
  <2> DEFINE less == [g \in flight' |-> before[g]]
  <2>1. less \in [flight' -> 0..(now' + Slack)] /\ \A g \in flight' : less[g] = before[g]
      BY <1>1
  <2> QED
      BY <2>1
<1>14. ASSUME NEW q \in Plays, held'[q] # None
       PROVE  /\ Granted(q)' <= now' - held'[q].openedAt + Slack
              /\ Held(q)' => Granted(q)' <= Due(q, held[q].lastReportAt, held[q].ahead)'
    BY <1>1, <1>7, <1>8, <1>12, <1>14 DEF GrantedInTime, Due
<1>15. ASSUME NEW g \in flight'
       PROVE  /\ after[g] <= Due(g.play, g.lastReportAt, g.ahead)'
              /\ (Held(g.play) /\ held[g.play].lastSeq = g.seq)' =>
                    Granted(g.play)' <= after[g] + g.listened
              /\ \A h \in flight' : h.play = g.play /\ h.lastSeq = g.seq =>
                    after[h] <= after[g] + g.listened
  <2>1. PICK q \in Plays : q = g.play
      BY <1>1, <1>10
  <2>2. held[q] # None /\ g \in flight /\ flight' \subseteq flight
      BY <1>1, <1>10, <2>1
  <2>3. /\ before[g] <= g.lastReportAt - held[q].openedAt + g.ahead
        /\ Held(q) /\ held[q].lastSeq = g.seq => Granted(q) <= before[g] + g.listened
        /\ \A h \in flight : h.play = q /\ h.lastSeq = g.seq => before[h] <= before[g] + g.listened
      BY <1>12, <2>1, <2>2 DEF GrantedInTime, Due
  <2>4. /\ held'[q].openedAt = held[q].openedAt /\ (Held(q)' <=> Held(q))
        /\ held'[q].lastSeq = held[q].lastSeq /\ Granted(q)' = Granted(q)
      BY <1>7, <1>8, <2>2
  <2> QED
      BY <1>13, <2>1, <2>2, <2>3, <2>4 DEF Due
<1>16. GrantedInTime(after)'
    BY <1>14, <1>15 DEF GrantedInTime
<1> QED
    BY <1>9, <1>11, <1>13, <1>16 DEF TimeInv

(* What an upstream counts of a report taken back is not what it counts    *)
(* once; of one that a newer one keeps from being taken back, it is.       *)
LEMMA LostCounts ==
    ASSUME IInv, TimeInv, NEW f \in flight, AnswerLost(f)
    PROVE  IF held[f.play].lastSeq = f.seq THEN Once' = Once
           ELSE Once' = [Once EXCEPT ![f.play] = @ + f.listened]
<1> DEFINE p == f.play
<1>1. /\ counted \in [Plays -> Nat] /\ lost \in [Plays -> Nat] /\ f.listened \in Nat
      /\ p \in Plays
    BY NumbersOf DEF IInv, TypeOK
<1>2. /\ counted' = [counted EXCEPT ![p] = @ + f.listened]
      /\ lost' = IF held[p].lastSeq = f.seq THEN [lost EXCEPT ![p] = @ + f.listened] ELSE lost
    BY DEF AnswerLost
<1> HIDE DEF p
<1>3. CASE held[p].lastSeq = f.seq
  <2>1. \A q \in Plays : counted'[q] - lost'[q] = counted[q] - lost[q]
      BY <1>1, <1>2, <1>3
  <2>2. Once' = Once
      BY <2>1 DEF Once
  <2> QED
      BY <1>3, <2>2 DEF p
<1>4. CASE held[p].lastSeq # f.seq
  <2>1. \A q \in Plays : counted'[q] - lost'[q] =
            IF q = p THEN (counted[p] - lost[p]) + f.listened ELSE counted[q] - lost[q]
      BY <1>1, <1>2, <1>4
  <2>2. Once' = [Once EXCEPT ![p] = @ + f.listened]
      BY <1>1, <2>1 DEF Once
  <2> QED
      BY <1>4, <2>2 DEF p
<1> QED
    BY <1>3, <1>4

(* A report that fails is taken back: what was granted before it is due by *)
(* the clock it leaves, as before it was taken.                            *)
LEMMA TakenBackInTime ==
    ASSUME IInv, TimeInv, TypeOK', NEW f \in flight, TakenBack(f), flight' = flight \ {f},
           UNCHANGED <<now, Once>>
    PROVE  TimeInv'
<1> DEFINE p == f.play
           last == held[p].lastSeq = f.seq
           new == IF last THEN [held[p] EXCEPT !.lastSeq = f.lastSeq, !.ahead = f.ahead,
                                               !.lastReportAt = f.lastReportAt]
                  ELSE held[p]
<1>1. flight' = flight \ {f} /\ UNCHANGED <<now, Once>>
    OBVIOUS
<1>2. /\ p \in Plays /\ f.listened \in Nat /\ Once \in [Plays -> Nat] /\ Granted(p) \in Nat
      /\ SumFunctionOnSet(Brought, ReportsOf(p)') \in Nat
      /\ Once[p] + SumFunctionOnSet(Brought, ReportsOf(p)') = Granted(p) - f.listened
      /\ \A q \in Plays : q # p => ReportsOf(q)' = ReportsOf(q)
    BY <1>1, PartLeaves
<1>3. /\ held[p] # None /\ held[p] \in OpenPlay /\ held \in [Plays -> OpenPlay \cup {None}]
      /\ f.seq \in Nat /\ f.lastSeq \in Nat \cup {None} /\ f.ahead \in Nat /\ f.lastReportAt \in Nat
      /\ held[p].openedAt \in Nat
    BY <1>2, HeldIsPlay, NumbersOf DEF IInv, WaitsForOpened
<1>4. held' = [held EXCEPT ![p] = new]
  <2>1. CASE last
      BY <2>1 DEF TakenBack
  <2>2. CASE ~last
    <3>1. held' = held
        BY <2>2 DEF TakenBack
    <3> QED
        BY <1>2, <1>3, <2>2, <3>1
  <2> QED
      BY <2>1, <2>2
<1>5. /\ new \in OpenPlay /\ new.openedAt = held[p].openedAt /\ new.open = held[p].open
      /\ IF last THEN new.lastSeq = f.lastSeq /\ new.ahead = f.ahead /\ new.lastReportAt = f.lastReportAt
         ELSE new = held[p]
    BY <1>3 DEF OpenPlay
<1> HIDE DEF new
<1>6. held'[p] = new /\ new # None /\ \A q \in Plays : q # p => held'[q] = held[q]
    BY <1>2, <1>3, <1>4, <1>5, RecordsAreSomething
<1>7. (Held(p)' <=> Held(p)) /\ \A q \in Plays : q # p => (Held(q)' <=> Held(q))
    BY <1>3, <1>5, <1>6 DEF Held
<1> HIDE DEF p
<1>8. /\ Granted(p)' \in Nat /\ Granted(p)' = Granted(p) - f.listened
      /\ \A q \in Plays : q # p => Granted(q)' = Granted(q)
  <2>1. Granted(p)' = Once[p] + SumFunctionOnSet(Brought, ReportsOf(p)')
      BY <1>1 DEF Granted
  <2>2. Once[p] \in Nat
      BY <1>2
  <2>3. \A q \in Plays : q # p => Granted(q)' = Granted(q)
      BY <1>1, <1>2 DEF Granted
  <2> QED
      BY <1>2, <2>1, <2>2, <2>3
<1>9. now \in Nat /\ Slack \in Nat /\ IsFiniteSet(flight)
    BY OpenPlaysConstants DEF IInv, TypeOK, TimeInv, ClocksFit
<1>10. \A g \in flight : /\ g.play \in Plays /\ held[g.play] # None /\ g.seq \in Nat
                         /\ g.listened \in Nat
    BY NumbersOf DEF IInv, WaitsForOpened
<1>11. ClocksFit'
  <2>1. \A q \in Plays : held'[q] = None => Once'[q] = 0
      BY <1>1, <1>6 DEF TimeInv, ClocksFit
  <2>2. new.lastReportAt <= now /\ new.ahead <= Slack
      BY <1>2, <1>3, <1>5 DEF TimeInv, ClocksFit
  <2>3. \A q \in Plays : held'[q] # None => held'[q].lastReportAt <= now' /\ held'[q].ahead <= Slack
      BY <1>1, <1>6, <2>2 DEF TimeInv, ClocksFit
  <2>4. IsFiniteSet(flight') /\ Once' \in [Plays -> Nat]
      BY <1>1, <1>2, <1>9, FS_Subset
  <2> QED
      BY <1>1, <2>1, <2>3, <2>4 DEF TimeInv, ClocksFit
<1>12. ASSUME NEW g \in flight', g.play = p, Held(p), last
       PROVE  f.lastSeq # None /\ g.seq <= f.lastSeq
  <2>1. g.seq <= held[p].lastSeq /\ g.seq # f.seq
      BY <1>1, <1>12 DEF TimeInv, ReportsInOrder, p
  <2>2. g.seq < f.seq
      BY <1>1, <1>3, <1>10, <1>12, <2>1
  <2> QED
      BY <1>1, <1>12, <2>2 DEF TimeInv, ReportsInOrder, p
<1>13. ReportsInOrder'
  <2>1. ASSUME NEW g \in flight', Held(g.play)'
        PROVE  held'[g.play].lastSeq # None /\ g.seq <= held'[g.play].lastSeq
    <3>1. CASE g.play = p /\ last
        BY <1>5, <1>6, <1>7, <1>12, <2>1, <3>1
    <3>2. CASE g.play = p /\ ~last
      <4>1. held'[p] = held[p] /\ Held(p)
          BY <1>5, <1>6, <1>7, <2>1, <3>2
      <4> QED
          BY <1>1, <3>2, <4>1 DEF TimeInv, ReportsInOrder
    <3>3. CASE g.play # p
      <4>1. held'[g.play] = held[g.play] /\ Held(g.play)
          BY <1>1, <1>6, <1>7, <1>10, <2>1, <3>3
      <4> QED
          BY <1>1, <4>1 DEF TimeInv, ReportsInOrder
    <3> QED
        BY <3>1, <3>2, <3>3
  <2>2. \A g \in flight' :
            /\ g.lastSeq # None => g.lastSeq < g.seq
            /\ \A h \in flight' \ {g} : h.play = g.play =>
                  /\ h.seq # g.seq
                  /\ g.seq < h.seq => h.lastSeq # None /\ g.seq <= h.lastSeq
      BY <1>1 DEF TimeInv, ReportsInOrder
  <2> QED
      BY <2>1, <2>2 DEF ReportsInOrder
<1>14. PICK before \in [flight -> 0..(now + Slack)] : GrantedInTime(before)
    BY DEF TimeInv
<1>15. PICK after \in [flight' -> 0..(now' + Slack)] : \A g \in flight' : after[g] = before[g]
  <2> DEFINE less == [g \in flight' |-> before[g]]
  <2>1. less \in [flight' -> 0..(now' + Slack)] /\ \A g \in flight' : less[g] = before[g]
      BY <1>1
  <2> QED
      BY <2>1
<1>16. \A g \in flight : before[g] \in Nat
    BY <1>9
<1>17. /\ before[f] <= f.lastReportAt - held[p].openedAt + f.ahead
       /\ Held(p) /\ last => Granted(p) <= before[f] + f.listened
       /\ \A g \in flight : g.play = p /\ f.lastSeq = g.seq => before[f] <= before[g] + g.listened
  <2>1. /\ before[f] <= Due(p, f.lastReportAt, f.ahead)
        /\ Held(p) /\ held[p].lastSeq = f.seq => Granted(p) <= before[f] + f.listened
      BY <1>14 DEF GrantedInTime, p
  <2>2. \A g \in flight : g.play = p /\ f.lastSeq = g.seq => before[f] <= before[g] + g.listened
      BY <1>14 DEF GrantedInTime, p
  <2> QED
      BY <2>1, <2>2 DEF Due
<1>18. Held(p) /\ last => Granted(p)' <= before[f]
  <2>1. before[f] \in Nat
      BY <1>16
  <2> QED
      BY <1>2, <1>8, <1>17, <2>1
<1>19. Granted(p)' <= Granted(p)
    BY <1>2, <1>8
<1>20. ASSUME NEW q \in Plays, held'[q] # None
       PROVE  /\ Granted(q)' <= now' - held'[q].openedAt + Slack
              /\ Held(q)' => Granted(q)' <= Due(q, held[q].lastReportAt, held[q].ahead)'
  <2>1. CASE q = p
    <3>1. /\ Granted(p) <= now - held[p].openedAt + Slack
          /\ Held(p) => Granted(p) <= held[p].lastReportAt - held[p].openedAt + held[p].ahead
        BY <1>2, <1>3, <1>14 DEF GrantedInTime, Due
    <3>2. Granted(p)' <= now' - held'[p].openedAt + Slack
      <4>1. Granted(p)' <= now - held[p].openedAt + Slack
          BY <1>2, <1>3, <1>8, <1>9, <1>19, <3>1
      <4> QED
          BY <1>1, <1>5, <1>6, <4>1
    <3>3. ASSUME Held(p)', last
          PROVE  Granted(p)' <= new.lastReportAt - new.openedAt + new.ahead
      <4>1. Granted(p)' <= before[f] /\ before[f] \in Nat
          BY <1>7, <1>16, <1>18, <3>3
      <4>2. Granted(p)' <= f.lastReportAt - held[p].openedAt + f.ahead
          BY <1>3, <1>8, <1>17, <4>1
      <4> QED
          BY <1>5, <3>3, <4>2
    <3>4. ASSUME Held(p)', ~last
          PROVE  Granted(p)' <= new.lastReportAt - new.openedAt + new.ahead
      <4>1. held[p].lastReportAt \in Nat /\ held[p].ahead \in Nat
          BY <1>3 DEF OpenPlay
      <4>2. Granted(p)' <= held[p].lastReportAt - held[p].openedAt + held[p].ahead
          BY <1>2, <1>3, <1>7, <1>8, <1>19, <3>1, <3>4, <4>1
      <4> QED
          BY <1>5, <3>4, <4>2
    <3> QED
        BY <1>6, <2>1, <3>2, <3>3, <3>4 DEF Due
  <2>2. CASE q # p
    <3>1. held'[q] = held[q] /\ Granted(q)' = Granted(q) /\ (Held(q)' <=> Held(q))
        BY <1>6, <1>7, <1>8, <2>2
    <3> QED
        BY <1>1, <1>14, <1>20, <3>1 DEF GrantedInTime, Due
  <2> QED
      BY <2>1, <2>2
<1>21. ASSUME NEW g \in flight'
       PROVE  /\ after[g] <= Due(g.play, g.lastReportAt, g.ahead)'
              /\ (Held(g.play) /\ held[g.play].lastSeq = g.seq)' =>
                    Granted(g.play)' <= after[g] + g.listened
              /\ \A h \in flight' : h.play = g.play /\ h.lastSeq = g.seq =>
                    after[h] <= after[g] + g.listened
  <2>1. PICK q \in Plays : q = g.play
      BY <1>1, <1>10
  <2>2. /\ g \in flight /\ flight' \subseteq flight /\ after[g] = before[g]
        /\ before[g] \in Nat /\ g.listened \in Nat
      BY <1>1, <1>10, <1>15, <1>16
  <2>3. /\ before[g] <= g.lastReportAt - held[q].openedAt + g.ahead
        /\ Held(q) /\ held[q].lastSeq = g.seq => Granted(q) <= before[g] + g.listened
        /\ \A h \in flight : h.play = q /\ h.lastSeq = g.seq => before[h] <= before[g] + g.listened
      BY <1>14, <2>1, <2>2 DEF GrantedInTime, Due
  <2>4. held'[q].openedAt = held[q].openedAt
      BY <1>5, <1>6
  <2>5. ASSUME Held(q)', held'[q].lastSeq = g.seq
        PROVE  Granted(q)' <= before[g] + g.listened
    <3>1. CASE q = p /\ last
      <4>1. f.lastSeq = g.seq
          BY <1>5, <1>6, <2>5, <3>1
      <4>2. before[f] <= before[g] + g.listened /\ before[f] \in Nat
          BY <1>16, <1>17, <2>1, <2>2, <3>1, <4>1
      <4>3. Granted(p)' <= before[f]
          BY <1>7, <1>18, <2>5, <3>1
      <4> QED
          BY <1>8, <2>2, <3>1, <4>2, <4>3
    <3>2. CASE q = p /\ ~last
      <4>1. held'[q] = held[q] /\ Held(q)
          BY <1>5, <1>6, <1>7, <2>5, <3>2
      <4>2. Granted(p) <= before[g] + g.listened
          BY <2>3, <2>5, <3>2, <4>1
      <4> QED
          BY <1>2, <1>8, <1>19, <2>2, <3>2, <4>2
    <3>3. CASE q # p
      <4>1. held'[q] = held[q] /\ Granted(q)' = Granted(q) /\ Held(q)
          BY <1>6, <1>7, <1>8, <2>5, <3>3
      <4> QED
          BY <2>3, <2>5, <4>1
    <3> QED
        BY <3>1, <3>2, <3>3
  <2>6. \A h \in flight' : h.play = q /\ h.lastSeq = g.seq => after[h] <= after[g] + g.listened
      BY <1>15, <2>2, <2>3
  <2> QED
      BY <2>1, <2>2, <2>3, <2>4, <2>5, <2>6 DEF Due
<1>22. GrantedInTime(after)'
    BY <1>20, <1>21 DEF GrantedInTime
<1> QED
    BY <1>11, <1>13, <1>15, <1>22 DEF TimeInv

(* An answer counts its report; a failure takes it back; and an answer     *)
(* lost does the one or the other to what is counted once.                 *)
LEMMA AnsweredInTime ==
    ASSUME IInv, TimeInv, TypeOK', NEW f \in flight, Answered(f) \/ Failed(f) \/ AnswerLost(f)
    PROVE  TimeInv'
<1>1. CASE Answered(f)
  <2>1. /\ counted \in [Plays -> Nat] /\ lost \in [Plays -> Nat]
        /\ f.listened \in Nat /\ f.play \in Plays
      BY NumbersOf DEF IInv, TypeOK
  <2>2. \A q \in Plays : counted'[q] - lost'[q] =
            IF q = f.play THEN (counted[q] - lost[q]) + f.listened ELSE counted[q] - lost[q]
      BY <1>1, <2>1 DEF Answered
  <2>3. Once' = [Once EXCEPT ![f.play] = @ + f.listened]
      BY <2>1, <2>2 DEF Once
  <2> QED
      BY <1>1, <2>3, CountedInTime DEF Answered
<1>2. CASE Failed(f)
    BY <1>2, OnceStands, TakenBackInTime DEF Failed
<1>3. CASE AnswerLost(f) /\ held[f.play].lastSeq = f.seq
    BY <1>3, LostCounts, TakenBackInTime DEF AnswerLost
<1>4. CASE AnswerLost(f) /\ held[f.play].lastSeq # f.seq
    BY <1>4, LostCounts, CountedInTime DEF AnswerLost, TakenBack
<1> QED
    BY <1>1, <1>2, <1>3, <1>4

(* A last report is granted with the close, and nothing of its play after. *)
LEMMA FinishedInTime ==
    ASSUME IInv, TimeInv, TypeOK', NEW p \in Plays, NEW seq, NEW claim \in Claims,
           Finish(p, seq, claim)
    PROVE  TimeInv'
<1>1. /\ held[p] # None /\ held[p] \in OpenPlay /\ held \in [Plays -> OpenPlay \cup {None}]
      /\ held' = [held EXCEPT ![p].open = FALSE] /\ UNCHANGED <<now, flight>>
    BY HeldIsPlay DEF Finish, Held
<1>2. CASE counted' = counted
  <2>1. UNCHANGED Once
      BY <1>2, OnceStands DEF Finish
  <2> QED
      BY <1>1, <2>1, ClosedInTime
<1>3. CASE counted' = [counted EXCEPT ![p] = @ + Bounded(p, claim)]
  <2> DEFINE new == [held[p] EXCEPT !.open = FALSE]
             bounded == Bounded(p, claim)
  <2>1. /\ now \in Nat /\ Slack \in Nat /\ IsFiniteSet(flight) /\ Once \in [Plays -> Nat]
        /\ held[p].lastReportAt <= now /\ held[p].ahead <= Slack
        /\ held[p].openedAt \in Nat /\ held[p].lastReportAt \in Nat /\ held[p].ahead \in Nat
      BY <1>1, OpenPlaysConstants, NumbersOf DEF IInv, TypeOK, TimeInv, ClocksFit
  <2>2. bounded \in Nat /\ held[p].lastReportAt + held[p].ahead + bounded <= now + Slack
      BY <1>1, <2>1, Allowed
  <2> HIDE DEF bounded
  <2>3. /\ new \in OpenPlay /\ new.openedAt = held[p].openedAt /\ ~new.open
        /\ new.lastReportAt = held[p].lastReportAt /\ new.ahead = held[p].ahead
        /\ new.lastSeq = held[p].lastSeq
      BY <1>1 DEF OpenPlay
  <2>4. held' = [held EXCEPT ![p] = new]
      BY <1>1
  <2> HIDE DEF new
  <2>5. held'[p] = new /\ new # None /\ \A q \in Plays : q # p => held'[q] = held[q]
      BY <1>1, <2>3, <2>4, RecordsAreSomething
  <2>6. ~Held(p)' /\ Held(p) /\ \A q \in Plays : q # p => (Held(q)' <=> Held(q))
      BY <2>3, <2>5 DEF Held, Finish
  <2>7. Once' = [Once EXCEPT ![p] = @ + bounded]
    <3>1. counted \in [Plays -> Nat] /\ lost \in [Plays -> Nat]
        BY DEF IInv, TypeOK
    <3>2. counted' = [counted EXCEPT ![p] = @ + bounded] /\ lost' = lost
        BY <1>3 DEF bounded, Finish
    <3>3. \A q \in Plays : counted'[q] - lost'[q] =
              IF q = p THEN (counted[q] - lost[q]) + bounded ELSE counted[q] - lost[q]
        BY <2>2, <3>1, <3>2
    <3> QED
        BY <3>3 DEF Once
  <2>8. /\ Granted(p) \in Nat /\ Granted(p)' = Granted(p) + bounded
        /\ \A q \in Plays : q # p => Granted(q)' = Granted(q)
    <3>1. /\ Granted(p) \in Nat /\ SumFunctionOnSet(Brought, ReportsOf(p)) \in Nat
        BY <2>1, GrantedIsNat DEF IInv
    <3>2. \A q \in Plays : Granted(q)' = Once'[q] + SumFunctionOnSet(Brought, ReportsOf(q))
        BY <1>1 DEF Granted, ReportsOf
    <3>3. Once'[p] = Once[p] + bounded /\ Once[p] \in Nat
          /\ \A q \in Plays : q # p => Once'[q] = Once[q]
        BY <2>1, <2>7
    <3>4. Granted(p)' = Granted(p) + bounded
        BY <2>2, <3>1, <3>2, <3>3 DEF Granted
    <3>5. \A q \in Plays : q # p => Granted(q)' = Granted(q)
        BY <3>2, <3>3 DEF Granted
    <3> QED
        BY <3>1, <3>4, <3>5
  <2>9. \A g \in flight : g.play \in Plays /\ held[g.play] # None
      BY NumbersOf DEF IInv, WaitsForOpened
  <2>10. ClocksFit'
    <3>1. \A q \in Plays : held'[q] = None => Once'[q] = 0
        BY <2>1, <2>5, <2>7 DEF TimeInv, ClocksFit
    <3>2. \A q \in Plays : held'[q] # None => held'[q].lastReportAt <= now' /\ held'[q].ahead <= Slack
        BY <1>1, <2>1, <2>3, <2>5 DEF TimeInv, ClocksFit
    <3>3. Once' \in [Plays -> Nat]
        BY <2>1, <2>2, <2>7
    <3> QED
        BY <1>1, <3>1, <3>2, <3>3 DEF TimeInv, ClocksFit
  <2>11. ReportsInOrder'
    <3>1. ASSUME NEW g \in flight, Held(g.play)'
          PROVE  held'[g.play].lastSeq # None /\ g.seq <= held'[g.play].lastSeq
      <4>1. held'[g.play] = held[g.play] /\ Held(g.play)
          BY <2>5, <2>6, <2>9, <3>1
      <4> QED
          BY <4>1 DEF TimeInv, ReportsInOrder
    <3> QED
        BY <1>1, <3>1 DEF TimeInv, ReportsInOrder
  <2>12. PICK before \in [flight -> 0..(now + Slack)] : GrantedInTime(before)
      BY DEF TimeInv
  <2>13. ASSUME NEW q \in Plays, held'[q] # None
         PROVE  /\ Granted(q)' <= now' - held'[q].openedAt + Slack
                /\ Held(q)' => Granted(q)' <= Due(q, held[q].lastReportAt, held[q].ahead)'
    <3>1. CASE q = p
      <4>1. Granted(p) <= held[p].lastReportAt - held[p].openedAt + held[p].ahead
          BY <1>1, <2>6, <2>12 DEF GrantedInTime, Due
      <4>2. Granted(p)' <= now - held[p].openedAt + Slack
          BY <2>1, <2>2, <2>8, <4>1
      <4> QED
          BY <1>1, <2>3, <2>5, <2>6, <3>1, <4>2
    <3>2. CASE q # p
      <4>1. held'[q] = held[q] /\ Granted(q)' = Granted(q) /\ (Held(q)' <=> Held(q))
          BY <2>5, <2>6, <2>8, <3>2
      <4> QED
          BY <1>1, <2>12, <2>13, <4>1 DEF GrantedInTime, Due
    <3> QED
        BY <3>1, <3>2
  <2>14. ASSUME NEW g \in flight
         PROVE  /\ before[g] <= Due(g.play, g.lastReportAt, g.ahead)'
                /\ (Held(g.play) /\ held[g.play].lastSeq = g.seq)' =>
                      Granted(g.play)' <= before[g] + g.listened
                /\ \A h \in flight : h.play = g.play /\ h.lastSeq = g.seq =>
                      before[h] <= before[g] + g.listened
    <3>1. PICK q \in Plays : q = g.play
        BY <2>9
    <3>2. /\ before[g] <= g.lastReportAt - held[q].openedAt + g.ahead
          /\ Held(q) /\ held[q].lastSeq = g.seq => Granted(q) <= before[g] + g.listened
          /\ \A h \in flight : h.play = q /\ h.lastSeq = g.seq => before[h] <= before[g] + g.listened
        BY <2>12, <3>1 DEF GrantedInTime, Due
    <3>3. held'[q].openedAt = held[q].openedAt
        BY <2>3, <2>5
    <3>4. Held(q)' => q # p /\ held'[q] = held[q] /\ Held(q) /\ Granted(q)' = Granted(q)
        BY <2>5, <2>6, <2>8
    <3> QED
        BY <3>1, <3>2, <3>3, <3>4 DEF Due
  <2>15. GrantedInTime(before)'
      BY <1>1, <2>13, <2>14 DEF GrantedInTime
  <2>16. before \in [flight' -> 0..(now' + Slack)]
      BY <1>1, <2>12
  <2> QED
      BY <2>10, <2>11, <2>15, <2>16 DEF TimeInv
<1> QED
    BY <1>2, <1>3 DEF Finish

----------------------------------------------------------------------------
(* Steps of the rest, and what follows                                     *)

(* A step that leaves the plays and what is counted only lets time pass.   *)
LEMMA PassedInTime ==
    ASSUME IInv, TimeInv, TypeOK', UNCHANGED <<held, flight, Once>>, now <= now'
    PROVE  TimeInv'
<1>1. now' \in Nat
    BY DEF TypeOK
<1>2. ASSUME NEW p \in Plays PROVE ClockGoesOn(p)
    BY <1>1, ClockStands
<1> QED
    BY <1>2, QuietInTime

(* A report: late, of a household play, or one its upstream is to answer.  *)
LEMMA ReportInTime ==
    ASSUME IInv, TimeInv, TypeOK', NEW p \in Plays, NEW seq \in Nat, NEW claim \in Claims,
           Report(p, seq, claim)
    PROVE  TimeInv'
<1>1. Held(p) /\ UNCHANGED now
    BY DEF Report
<1>2. CASE Stale(p, seq)
  <2>1. held' = [held EXCEPT ![p].lastSeen = now] /\ UNCHANGED <<flight, Once>>
      BY <1>2, OnceStands DEF Report
  <2> QED
      BY <1>1, <2>1, SeenInTime
<1>3. CASE ~Stale(p, seq) /\ household
    BY <1>1, <1>3, HeardInTime
<1>4. CASE ~Stale(p, seq) /\ ~household
  <2> DEFINE new == [held[p] EXCEPT !.lastSeen = now, !.lastSeq = seq,
                                    !.lastReportAt = now, !.ahead = Ahead(p, claim)]
             f == [play |-> p, seq |-> seq, listened |-> Bounded(p, claim),
                   lastSeq |-> held[p].lastSeq, ahead |-> held[p].ahead,
                   lastReportAt |-> held[p].lastReportAt]
  <2>1. held' = [held EXCEPT ![p] = new] /\ flight' = flight \cup {f} /\ UNCHANGED Once
      BY <1>4, OnceStands DEF Report
  <2> QED
      BY <1>1, <1>4, <2>1, TakenInTime
<1> QED
    BY <1>2, <1>3, <1>4

(* Every step keeps what is granted in time.                               *)
LEMMA NextInTime == IInv /\ TimeInv /\ TypeOK' /\ [Next]_vars => TimeInv'
<1> SUFFICES ASSUME IInv, TimeInv, TypeOK', [Next]_vars PROVE TimeInv'
    OBVIOUS
<1>1. now \in Nat
    BY DEF IInv, TypeOK
<1>2. \A seq \in 0..MaxSeq : seq \in Nat
    OBVIOUS
<1>3. ASSUME NEW p \in Plays, held[p] # None, End(p), UNCHANGED now
      PROVE  TimeInv'
    BY <1>3, OnceStands, ClosedInTime DEF End
<1>4. CASE \/ \E d \in Devices, p \in Plays : AskPlan(d, p)
           \/ \E before \in 0..now : CloseHeld(before)
           \/ \E d \in Devices : \E n \in UnderWay(d) : PlanLooks(d, n)
           \/ Sweep \/ Tick \/ UNCHANGED vars
  <2>1. UNCHANGED <<held, flight, Once>>
    <3>1. (\E before \in 0..now : CloseHeld(before)) => UNCHANGED <<held, flight, counted, lost>>
        BY DEF CloseHeld
    <3>2. UNCHANGED <<held, flight, counted, lost>>
        BY <1>4, <3>1 DEF AskPlan, PlanLooks, Sweep, Tick, vars
    <3> QED
        BY <3>2, OnceStands
  <2>2. now' = now \/ now' = now + 1
    <3>1. (\E before \in 0..now : CloseHeld(before)) => now' = now
        BY DEF CloseHeld
    <3> QED
        BY <1>4, <3>1 DEF AskPlan, PlanLooks, Sweep, Tick, vars
  <2>3. now <= now'
      BY <1>1, <2>2
  <2> QED
      BY <2>1, <2>3, PassedInTime
<1>5. CASE \E d \in Devices : \E n \in UnderWay(d) : PlanCloses(d, n)
  <2>0. PICK d \in Devices : \E n \in UnderWay(d) : PlanCloses(d, n)
      BY <1>5
  <2>1. PICK n \in UnderWay(d) : PlanCloses(d, n)
      BY <2>0
  <2>2. n \in DOMAIN turns[d] /\ turns[d][n].toClose # None /\ UNCHANGED now
      BY <2>1 DEF UnderWay, PlanCloses
  <2>3. turns[d][n].toClose \subseteq Plays
      BY <2>2, TurnsTyped DEF Turns
  <2>4. PICK p \in turns[d][n].toClose : End(p)
      BY <2>1 DEF PlanCloses
  <2>5. held[p] # None
      BY <2>2 DEF IInv, WaitsForOpened
  <2> QED
      BY <1>3, <2>2, <2>3, <2>4, <2>5
<1>6. CASE \E d \in Devices : \E n \in UnderWay(d) : PlanHolds(d, n)
    BY <1>6, PlanHoldsInTime
<1>7. CASE \E d \in Devices : \E n \in UnderWay(d) : TurnEnds(d, n)
  <2>0. PICK d \in Devices : \E n \in UnderWay(d) : TurnEnds(d, n)
      BY <1>7
  <2>1. PICK n \in UnderWay(d) : TurnEnds(d, n)
      BY <2>0
  <2>2. turns[d][n].play \in Plays
      BY TurnsTyped DEF UnderWay, Turns
  <2>3. CASE Held(turns[d][n].play)
      BY <1>3, <2>1, <2>2, <2>3 DEF TurnEnds, Held
  <2>4. CASE ~Held(turns[d][n].play)
    <3>1. UNCHANGED <<held, flight, Once>> /\ now <= now'
        BY <1>1, <2>1, <2>4, OnceStands DEF TurnEnds
    <3> QED
        BY <3>1, PassedInTime
  <2> QED
      BY <2>3, <2>4
<1>8. CASE \E p \in Plays : Touch(p)
    BY <1>8, OnceStands, SeenInTime DEF Touch
<1>9. CASE \E p \in Plays : \E claim \in Claims : \E seq \in 0..MaxSeq : Report(p, seq, claim)
    BY <1>2, <1>9, ReportInTime
<1>10. CASE \E p \in Plays : \E claim \in Claims :
           \E seq \in (0..MaxSeq) \cup {None} : Finish(p, seq, claim)
    BY <1>10, FinishedInTime
<1>11. CASE \E f \in flight : Answered(f) \/ Failed(f) \/ AnswerLost(f)
    BY <1>11, AnsweredInTime
<1>12. CASE SweepLooks
  <2>1. PICK p \in sweeping.plays : IF IdleAt(sweeping.at, p) THEN End(p)
                                    ELSE UNCHANGED <<held, row, flight, counted, lost, listened>>
      BY <1>12 DEF SweepLooks
  <2>2. p \in Plays /\ held[p] # None /\ UNCHANGED now
      BY <1>12 DEF SweepLooks, IInv, TypeOK, WaitsForOpened
  <2>3. CASE End(p)
      BY <1>3, <2>2, <2>3
  <2>4. CASE UNCHANGED <<held, row, flight, counted, lost, listened>>
    <3>1. UNCHANGED <<held, flight, Once>> /\ now <= now'
        BY <1>1, <2>2, <2>4, OnceStands
    <3> QED
        BY <3>1, PassedInTime
  <2> QED
      BY <2>1, <2>3, <2>4
<1> QED
    BY <1>4, <1>5, <1>6, <1>7, <1>8, <1>9, <1>10, <1>11, <1>12 DEF Next

(* Nothing is granted of plays not opened.                                 *)
LEMMA InitInTime == Init => TimeInv
<1> SUFFICES ASSUME Init PROVE TimeInv
    OBVIOUS
<1>1. flight = {} /\ now = 0 /\ \A p \in Plays : held[p] = None /\ Once[p] = 0
    BY DEF Init, Once
<1>2. ClocksFit /\ ReportsInOrder
  <2>1. Once \in [Plays -> Nat]
      BY DEF Init, Once
  <2> QED
      BY <1>1, <2>1, FS_EmptySet DEF ClocksFit, ReportsInOrder
<1>3. PICK before \in [flight -> 0..(now + Slack)] : TRUE
  <2> DEFINE none == [f \in flight |-> 0]
  <2>1. none \in [flight -> 0..(now + Slack)]
      BY <1>1
  <2> QED
      BY <2>1
<1>4. GrantedInTime(before)
    BY <1>1 DEF GrantedInTime
<1> QED
    BY <1>2, <1>3, <1>4 DEF TimeInv

(* Over all the reports of a play, answered in any order, failed and sent  *)
(* again, its upstream never counts more listening than there was time for *)
(* and the slack once, and what was counted of reports whose answer was    *)
(* lost once more (openPlays.ts report, finish).                           *)
THEOREM ListeningInTime == Spec => []ListenedInTime
<1>1. Init => IInv /\ TimeInv
    BY InitHolds, InitInTime
<1>2. IInv /\ TimeInv /\ [Next]_vars => IInv' /\ TimeInv'
  <2>1. IInv /\ [Next]_vars => IInv' /\ TypeOK'
      BY NextHolds DEF IInv
  <2> QED
      BY <2>1, NextInTime
<1>3. IInv /\ TimeInv => ListenedInTime
  <2> SUFFICES ASSUME IInv, TimeInv, NEW p \in Plays, held[p] # None
               PROVE  counted[p] <= now - held[p].openedAt + Slack + lost[p]
      BY DEF ListenedInTime
  <2>1. Granted(p) <= now - held[p].openedAt + Slack
      BY DEF TimeInv, GrantedInTime
  <2>2. SumFunctionOnSet(Brought, ReportsOf(p)) \in Nat
      BY GrantedIsNat DEF IInv, TimeInv, ClocksFit
  <2>3. /\ counted[p] \in Nat /\ lost[p] \in Nat /\ Once[p] = counted[p] - lost[p]
        /\ now \in Nat /\ Slack \in Nat /\ held[p].openedAt \in Nat
      BY NumbersOf, OpenPlaysConstants DEF IInv, TypeOK, Once
  <2>4. counted[p] - lost[p] <= now - held[p].openedAt + Slack
      BY <2>1, <2>2, <2>3 DEF Granted
  <2> QED
      BY <2>3, <2>4
<1> QED
    BY <1>1, <1>2, <1>3, PTL DEF Spec
=============================================================================
