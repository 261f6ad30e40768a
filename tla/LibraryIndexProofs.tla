-------------------------- MODULE LibraryIndexProofs --------------------------
(***************************************************************************)
(* Proofs about the index job: for any libraries, items, pages and number  *)
(* of failures and crashes, no item still on its shelf loses its row       *)
(* (WhatIsThereStays), and no mark gets ahead of the row it vouches for    *)
(* but by a crash between the two (MarkedWasRead).                         *)
(*                                                                         *)
(* The first rests on what a pass over Jellyfin has listed: libraries only *)
(* ever go, so a row outside the libraries it went through is of one that  *)
(* is gone.  The second rests on markers only growing: what a pass listed  *)
(* is no newer than what it then reads.                                    *)
(***************************************************************************)
EXTENDS LibraryIndex, SequenceTheorems, FiniteSetTheorems, TLAPS

USE IndexConstants

----------------------------------------------------------------------------
(* Sequences                                                               *)

(* A finite set's elements as a sequence.                                  *)
LEMMA SetToSeqType ==
    ASSUME NEW S, IsFiniteSet(S)
    PROVE  SetToSeq(S) \in Seq(S) /\ (S # {} => SetToSeq(S) # <<>>)
<1>1. Cardinality(S) \in Nat /\ ExistsBijection(1..Cardinality(S), S)
    BY FS_CardinalityType
<1>2. \E f \in [1..Cardinality(S) -> S] : IsInjective(f)
    BY <1>1 DEF ExistsBijection, Bijection, Injection
<1>3. SetToSeq(S) \in [1..Cardinality(S) -> S]
    BY <1>2 DEF SetToSeq
<1>4. S # {} => Cardinality(S) # 0
    BY FS_EmptySet
<1> QED
    BY <1>1, <1>3, <1>4

(* What is left of a sequence without one of its elements.                 *)
LEMMA RemoveAtType ==
    ASSUME NEW S, NEW s \in Seq(S), NEW n \in DOMAIN s
    PROVE  RemoveAt(s, n) \in Seq(S)
<1>1. n \in 1..Len(s) /\ Len(s) \in Nat
    BY LenProperties
<1>2. SubSeq(s, 1, n - 1) \in Seq(S) /\ SubSeq(s, n + 1, Len(s)) \in Seq(S)
    BY <1>1, SubSeqProperties
<1> QED
    BY <1>2, ConcatProperties DEF RemoveAt

----------------------------------------------------------------------------
(* What a shelf holds is of a library that is listed.                      *)
LEMMA OnShelfIsListed ==
    ASSUME IInv, NEW i \in Items, OnShelf(i)
    PROVE  LibraryOf[i] \in listed
<1>1. SUFFICES ASSUME LibraryOf[i] \notin listed PROVE FALSE
    OBVIOUS
<1>2. shelf[LibraryOf[i]] = <<>>
    BY <1>1 DEF IInv, UnlistedIsEmpty
<1> QED
    BY <1>2 DEF OnShelf, Contains

(* A pass begins with nothing listed, and ages every full answer.          *)
LEMMA PassStarts ==
    ASSUME IInv, NEW source \in Sources, StartPass(source)
    PROVE  /\ pass' \in Passes /\ pass'.phase = "libraries"
           /\ pass'.left = <<>> /\ pass'.reading = None
           /\ sync' \in [Items -> [marker : Int, age : Int] \cup {None}]
           /\ \A i \in Items : sync[i] = None => sync'[i] = None
           /\ \A i \in Items : sync'[i] # None => sync[i] # None /\ sync'[i].marker = sync[i].marker
<1>1. pass' \in Passes /\ pass'.phase = "libraries" /\ pass'.left = <<>> /\ pass'.reading = None
    BY EmptySeq DEF StartPass, Passes
<1>2. sync \in [Items -> [marker : Int, age : Int] \cup {None}]
    BY DEF IInv, TypeOK
<1>3. sync' = [i \in Items |->
          IF sync[i] = None \/ SourceOf(i) # source \/ sync[i].age = RefreshAfter THEN sync[i]
          ELSE [sync[i] EXCEPT !.age = @ + 1]]
    BY DEF StartPass
<1>4. ASSUME NEW i \in Items
      PROVE  /\ sync'[i] \in [marker : Int, age : Int] \cup {None}
             /\ sync[i] = None => sync'[i] = None
             /\ sync'[i] # None => sync[i] # None /\ sync'[i].marker = sync[i].marker
    BY <1>2, <1>3
<1> QED
    BY <1>1, <1>3, <1>4

(* So does going on to the other source, or the run's end.                 *)
LEMMA SourceIsOver ==
    ASSUME IInv, SourceOver
    PROVE  /\ pass' \in Passes \cup {None}
           /\ pass' # None => pass'.phase = "libraries" /\ pass'.left = <<>> /\ pass'.reading = None
           /\ sync' \in [Items -> [marker : Int, age : Int] \cup {None}]
           /\ \A i \in Items : sync[i] = None => sync'[i] = None
           /\ \A i \in Items : sync'[i] # None => sync[i] # None /\ sync'[i].marker = sync[i].marker
<1>1. CASE pass.source = "abs"
    BY <1>1, PassStarts DEF SourceOver, Sources
<1>2. CASE pass.source # "abs"
    BY <1>2 DEF SourceOver, IInv, TypeOK
<1> QED
    BY <1>1, <1>2

(* A pass over a source, or none, over rows and shelves that stand still.  *)
LEMMA SourceOverKeeps ==
    ASSUME IInv, SourceOver, UNCHANGED <<upstream, rows, importing>>
    PROVE  IInv'
<1>1. TypeOK'
    BY SourceIsOver DEF IInv, TypeOK, upstream
<1>2. UnlistedIsEmpty' /\ PassCovers' /\ ListedBefore'
    BY SourceIsOver DEF IInv, UnlistedIsEmpty, PassCovers, ListedBefore, upstream
<1>3. UnknownUnread'
    BY SourceIsOver DEF IInv, UnknownUnread
<1> QED
    BY <1>1, <1>2, <1>3 DEF IInv

(* Rows that go take their marks with them.                                *)
LEMMA RemovedKeeps ==
    ASSUME IInv, NEW gone, Removed(gone)
    PROVE  /\ rows' \in [Items -> IndexRows \cup {None}]
           /\ sync' \in [Items -> [marker : Int, age : Int] \cup {None}]
           /\ UnknownUnread' /\ (Marked => Marked')
           /\ \A i \in Items : i \notin gone => rows'[i] = rows[i]
<1>1. rows \in [Items -> IndexRows \cup {None}]
      /\ sync \in [Items -> [marker : Int, age : Int] \cup {None}]
    BY DEF IInv, TypeOK
<1>2. \A i \in Items : IF i \in gone THEN rows'[i] = None /\ sync'[i] = None
                       ELSE rows'[i] = rows[i] /\ sync'[i] = sync[i]
    BY DEF Removed
<1>3. rows' \in [Items -> IndexRows \cup {None}]
      /\ sync' \in [Items -> [marker : Int, age : Int] \cup {None}]
    BY <1>1 DEF Removed
<1>4. UnknownUnread'
    BY <1>2 DEF IInv, UnknownUnread
<1>5. Marked => Marked'
    BY <1>2 DEF Marked
<1> QED
    BY <1>2, <1>3, <1>4, <1>5

----------------------------------------------------------------------------
(* The upstreams' changes                                                  *)

(* An item's content moves on, its shelf may get or lose an item.          *)
LEMMA ChangesKeep ==
    ASSUME IInv, UNCHANGED <<rows, sync, pass, importing>>,
           listed' \subseteq listed,
           shelf' \in [Libraries -> Seq(Items)],
           content' \in [Items -> Contents],
           \A l \in Libraries \ listed' : shelf'[l] = <<>>,
           \A i \in Items : content[i].marker <= content'[i].marker
    PROVE  IInv'
<1>1. TypeOK'
    BY DEF IInv, TypeOK
<1>2. UnlistedIsEmpty' /\ PassCovers' /\ UnknownUnread'
    BY DEF IInv, UnlistedIsEmpty, PassCovers, UnknownUnread
<1>3. ListedBefore'
  <2>1. SUFFICES ASSUME pass # None, NEW n \in DOMAIN pass.left
                 PROVE  pass.left[n].marker <= content'[pass.left[n].item].marker
      BY DEF IInv, ListedBefore
  <2>2. pass.left[n] \in [item : Items, marker : Int]
    <3>1. pass.left \in Seq([item : Items, marker : Int])
        BY <2>1 DEF IInv, TypeOK, Passes
    <3>2. n \in 1..Len(pass.left)
        BY <2>1, <3>1
    <3> QED
        BY <3>1, <3>2, ElementOfSeq, Zenon
  <2>3. pass.left[n].marker <= content[pass.left[n].item].marker
      BY <2>1 DEF IInv, ListedBefore
  <2>4. content[pass.left[n].item] \in Contents /\ content'[pass.left[n].item] \in Contents
      BY <2>2 DEF IInv, TypeOK
  <2> QED
      BY <2>2, <2>3, <2>4 DEF Contents
<1> QED
    BY <1>1, <1>2, <1>3 DEF IInv

LEMMA AddedKeeps ==
    ASSUME IInv, NEW i \in Items, Added(i)
    PROVE  IInv'
<1> USE DEF Added, Changes, Contents
<1>1. LibraryOf[i] \in listed /\ LibraryOf[i] \in Libraries
      /\ content' = [content EXCEPT ![i].marker = 1]
      /\ shelf' = [shelf EXCEPT ![LibraryOf[i]] = Append(@, i)]
      /\ content \in [Items -> Contents] /\ content[i].marker = 0
      /\ shelf \in [Libraries -> Seq(Items)]
    BY DEF IInv, TypeOK
<1>2. Append(shelf[LibraryOf[i]], i) \in Seq(Items)
    BY <1>1, AppendProperties
<1>3. shelf' \in [Libraries -> Seq(Items)] /\ content' \in [Items -> Contents]
    BY <1>1, <1>2
<1>4. \A l \in Libraries \ listed' : shelf'[l] = <<>>
    BY <1>1 DEF IInv, UnlistedIsEmpty
<1>5. \A j \in Items : content[j].marker <= content'[j].marker
    BY <1>1
<1> QED
    BY <1>3, <1>4, <1>5, ChangesKeep

LEMMA DeletedKeeps ==
    ASSUME IInv, NEW i \in Items, Deleted(i)
    PROVE  IInv'
<1>1. PICK n \in DOMAIN shelf[LibraryOf[i]] :
          shelf' = [shelf EXCEPT ![LibraryOf[i]] = RemoveAt(@, n)]
    BY DEF Deleted
<1>2. LibraryOf[i] \in Libraries /\ shelf \in [Libraries -> Seq(Items)]
      /\ content \in [Items -> Contents]
    BY DEF IInv, TypeOK
<1>3. shelf' \in [Libraries -> Seq(Items)]
    BY <1>1, <1>2, RemoveAtType
<1>4. LibraryOf[i] \in listed
    BY <1>1, <1>2 DEF IInv, UnlistedIsEmpty
<1>5. \A l \in Libraries \ listed' : shelf'[l] = <<>>
    BY <1>1, <1>2, <1>4 DEF Deleted, IInv, UnlistedIsEmpty
<1>6. \A j \in Items : content[j].marker <= content'[j].marker
    BY <1>2 DEF Deleted, Contents
<1> QED
    BY <1>2, <1>3, <1>5, <1>6, ChangesKeep DEF Deleted, Changes

LEMMA EditedKeeps ==
    ASSUME IInv, NEW i \in Items, Edited(i) \/ EpisodeEdited(i)
    PROVE  IInv'
<1>1. shelf \in [Libraries -> Seq(Items)] /\ content \in [Items -> Contents]
    BY DEF IInv, TypeOK
<1>2. content' \in [Items -> Contents] /\ \A j \in Items : content[j].marker <= content'[j].marker
  <2>1. CASE Edited(i)
      BY <1>1, <2>1 DEF Edited, Contents
  <2>2. CASE EpisodeEdited(i)
      BY <1>1, <2>2 DEF EpisodeEdited, Contents
  <2> QED
      BY <2>1, <2>2
<1>3. \A l \in Libraries \ listed' : shelf'[l] = <<>>
    BY DEF Edited, EpisodeEdited, IInv, UnlistedIsEmpty
<1>4. listed' \subseteq listed /\ shelf' = shelf /\ UNCHANGED <<rows, sync, pass, importing>>
    BY DEF Edited, EpisodeEdited, Changes
<1> QED
    BY <1>1, <1>2, <1>3, <1>4, ChangesKeep

LEMMA LibraryGoesKeeps ==
    ASSUME IInv, NEW l \in Libraries, LibraryGoes(l)
    PROVE  IInv'
<1>1. shelf \in [Libraries -> Seq(Items)] /\ content \in [Items -> Contents]
    BY DEF IInv, TypeOK
<1>2. shelf' \in [Libraries -> Seq(Items)]
    BY <1>1, EmptySeq DEF LibraryGoes
<1>3. \A m \in Libraries \ listed' : shelf'[m] = <<>>
    BY <1>1 DEF LibraryGoes, IInv, UnlistedIsEmpty
<1>4. \A j \in Items : content[j].marker <= content'[j].marker
    BY <1>1 DEF LibraryGoes, Contents
<1> QED
    BY <1>1, <1>2, <1>3, <1>4, ChangesKeep DEF LibraryGoes, Changes

----------------------------------------------------------------------------
(* A run's steps                                                           *)

(* A pass goes on with what it listed, the index as it is.                 *)
LEMMA PassGoesOn ==
    ASSUME IInv, pass # None, UNCHANGED <<upstream, rows, sync, importing>>,
           pass' \in Passes \cup {None}, PassCovers', ListedBefore'
    PROVE  IInv'
    BY DEF IInv, TypeOK, UnlistedIsEmpty, UnknownUnread, upstream

LEMMA RunStartsKeeps ==
    ASSUME IInv, RunStarts
    PROVE  IInv'
<1>1. TypeOK'
    BY PassStarts DEF RunStarts, Sources, upstream, IInv, TypeOK
<1>2. UnlistedIsEmpty' /\ PassCovers' /\ ListedBefore' /\ UnknownUnread'
    BY PassStarts DEF RunStarts, Sources, upstream, IInv,
       UnlistedIsEmpty, PassCovers, ListedBefore, UnknownUnread
<1> QED
    BY <1>1, <1>2 DEF IInv

LEMMA LibrariesListedKeeps ==
    ASSUME IInv, NEW answer \in SUBSET Libraries, LibrariesListed(answer)
    PROVE  IInv'
<1>1. CASE answer = {}
    BY <1>1, SourceOverKeeps DEF LibrariesListed
<1>2. CASE answer # {}
  <2>1. /\ pass \in Passes /\ pass # None /\ pass.phase = "libraries"
        /\ answer = listed \cap LibrariesOf(pass.source)
        /\ pass' = [pass EXCEPT !.phase = "page", !.of = answer, !.todo = SetToSeq(answer)]
        /\ UNCHANGED <<upstream, rows, sync, importing>>
      BY <1>2 DEF LibrariesListed, IInv, TypeOK
  <2>2. SetToSeq(answer) \in Seq(Libraries)
    <3>1. IsFiniteSet(answer)
        BY FS_Subset
    <3>2. SetToSeq(answer) \in Seq(answer)
        BY <3>1, SetToSeqType
    <3> QED
        BY <3>2, SeqDef
  <2>3. pass' \in Passes
      BY <2>1, <2>2 DEF Passes
  <2>4. SetToSeq(answer) # <<>>
      BY <1>2, FS_Subset, SetToSeqType
  <2>5. PassCovers'
      BY <2>1, <2>4 DEF PassCovers, LibrariesOf, upstream, Passes
  <2>6. ListedBefore'
      BY <2>1 DEF IInv, ListedBefore, upstream, Passes
  <2> QED
      BY <2>1, <2>3, <2>5, <2>6, PassGoesOn
<1> QED
    BY <1>1, <1>2

LEMMA PageListedKeeps ==
    ASSUME IInv, PageListed
    PROVE  IInv'
<1> DEFINE all == shelf[Head(pass.todo)]
           before == pass.page * Size
           upto == (pass.page + 1) * Size
           from == before + 1
           to == IF Len(all) < upto THEN Len(all) ELSE upto
           on == SubSeq(all, from, to)
           lst == [n \in DOMAIN on |-> [item |-> on[n], marker |-> content[on[n]].marker]]
           ends == on = <<>> \/ upto >= Len(all)
<1>1. /\ pass \in Passes /\ pass # None /\ pass.phase = "page" /\ pass.todo # <<>>
      /\ UNCHANGED <<upstream, rows, sync, importing>>
    BY DEF PageListed, IInv, TypeOK, PassCovers
<1>2. pass' = [pass EXCEPT !.phase = "items", !.left = lst, !.seen = @ \cup ToSet(on), !.last = ends]
    BY DEF PageListed
<1>3. all \in Seq(Items)
  <2>1. pass.todo \in Seq(Libraries)
      BY <1>1 DEF Passes
  <2>2. Head(pass.todo) \in Libraries
      BY <1>1, <2>1, HeadTailProperties
  <2> QED
      BY <2>2 DEF IInv, TypeOK
<1>4. on \in Seq(Items)
  <2>1. pass.page \in Nat /\ Len(all) \in Nat /\ Size \in Nat
      BY <1>1, <1>3, LenProperties DEF Passes
  <2>2. before \in Nat /\ upto \in Nat
      BY <2>1
  <2> HIDE DEF all, before, upto
  <2>3. from \in Nat /\ from >= 1 /\ to \in Nat /\ to <= Len(all)
      BY <2>1, <2>2
  <2>4. \A i \in from..to : i \in 1..Len(all)
      BY <2>1, <2>3
  <2>5. \A i \in from..to : all[i] \in Items
      BY <1>3, <2>4, ElementOfSeq
  <2>6. from \in Int /\ to \in Int
      BY <2>3
  <2> HIDE DEF from, to
  <2> QED
      BY <2>5, <2>6, SubSeqProperties, Zenon
<1> HIDE DEF on, ends
<1>5. content \in [Items -> Contents]
    BY DEF IInv, TypeOK
<1>6. \A n \in DOMAIN on : on[n] \in Items
    BY <1>4
<1>7. lst \in Seq([item : Items, marker : Int])
  <2>1. \A n \in DOMAIN on : [item |-> on[n], marker |-> content[on[n]].marker] \in [item : Items, marker : Int]
      BY <1>5, <1>6 DEF Contents
  <2>2. DOMAIN on = 1..Len(on) /\ Len(on) \in Nat
      BY <1>4, LenProperties
  <2> QED
      BY <2>1, <2>2
<1>8. ends \in BOOLEAN /\ ToSet(on) \in SUBSET Items
    BY <1>6 DEF ends, ToSet
<1>9. \A n \in DOMAIN lst : lst[n].marker <= content[lst[n].item].marker
    BY <1>5, <1>6 DEF Contents
<1> HIDE DEF lst
<1>10. pass' \in Passes /\ pass'.left = lst /\ pass'.reading = pass.reading
       /\ pass'.phase = "items" /\ pass'.todo = pass.todo /\ pass'.of = pass.of
       /\ pass'.source = pass.source
    BY <1>1, <1>2, <1>7, <1>8 DEF Passes
<1>11. PassCovers'
    BY <1>1, <1>10 DEF PassCovers, IInv, upstream
<1>12. ListedBefore'
    BY <1>1, <1>9, <1>10 DEF IInv, ListedBefore, upstream
<1> QED
    BY <1>1, <1>10, <1>11, <1>12, PassGoesOn

(* The item at hand is one there is.                                       *)
LEMMA ItemAtHand ==
    ASSUME IInv, pass # None, pass.left # <<>>
    PROVE  /\ Head(pass.left) \in [item : Items, marker : Int]
           /\ Tail(pass.left) \in Seq([item : Items, marker : Int])
           /\ \A n \in DOMAIN Tail(pass.left) :
                 n + 1 \in DOMAIN pass.left /\ Tail(pass.left)[n] = pass.left[n + 1]
           /\ Head(pass.left) = pass.left[1] /\ 1 \in DOMAIN pass.left
<1> DEFINE s == pass.left
<1>1. s \in Seq([item : Items, marker : Int]) /\ s # <<>>
    BY DEF IInv, TypeOK, Passes
<1> HIDE DEF s
<1>2. Head(s) \in [item : Items, marker : Int] /\ Tail(s) \in Seq([item : Items, marker : Int])
    BY <1>1, HeadTailProperties
<1>3. Head(s) = s[1] /\ 1 \in DOMAIN s
    BY <1>1, EmptySeq, LenProperties
<1>4. \A n \in DOMAIN Tail(s) : n + 1 \in DOMAIN s /\ Tail(s)[n] = s[n + 1]
    BY <1>1, HeadTailProperties, LenProperties
<1> QED
    BY <1>2, <1>3, <1>4 DEF s

(* With the item at hand looked at, the rest is as old as it was.          *)
LEMMA RestListedBefore ==
    ASSUME IInv, pass # None, pass.left # <<>>, UNCHANGED content,
           pass'.left = Tail(pass.left), pass'.reading = None
    PROVE  ListedBefore'
<1>1. ASSUME NEW n \in DOMAIN Tail(pass.left)
      PROVE  Tail(pass.left)[n].marker <= content[Tail(pass.left)[n].item].marker
    BY ItemAtHand DEF IInv, ListedBefore
<1> QED
    BY <1>1 DEF ListedBefore

LEMMA PassOverKeeps ==
    ASSUME IInv, PassOver
    PROVE  IInv'
<1>1. /\ pass \in Passes /\ pass # None /\ pass.left # <<>> /\ pass.reading = None
      /\ pass' = [pass EXCEPT !.left = Tail(pass.left)]
      /\ UNCHANGED <<upstream, rows, sync, importing>>
    BY DEF PassOver, InItems, IInv, TypeOK
<1>2. pass' \in Passes /\ pass'.left = Tail(pass.left) /\ pass'.reading = None
    BY <1>1, ItemAtHand DEF Passes
<1>3. PassCovers'
    BY <1>1 DEF IInv, PassCovers, upstream, Passes
<1>4. ListedBefore'
    BY <1>1, <1>2, RestListedBefore DEF upstream
<1> QED
    BY <1>1, <1>2, <1>3, <1>4, PassGoesOn

LEMMA ReadItemKeeps ==
    ASSUME IInv, ReadItem
    PROVE  IInv'
<1> DEFINE i == Head(pass.left).item
<1>1. /\ pass \in Passes /\ pass # None /\ pass.left # <<>> /\ pass.reading = None
      /\ pass.phase = "items" /\ UNCHANGED <<upstream, rows, importing>>
    BY DEF ReadItem, NextStale, InItems, IInv, TypeOK
<1>2. CASE OnShelf(i) \/ pass.source = "jellyfin"
  <2> DEFINE read == IF OnShelf(i) THEN content[i] ELSE [content[i] EXCEPT !.edits = -1]
  <2>1. pass' = [pass EXCEPT !.reading = read] /\ UNCHANGED sync
      BY <1>2 DEF ReadItem
  <2>2. content[i] \in Contents
      BY <1>1, ItemAtHand DEF IInv, TypeOK
  <2>3. read \in Contents /\ read.marker = content[i].marker
      BY <2>2 DEF Contents
  <2>4. Head(pass.left).marker <= read.marker
      BY <1>1, <2>3, ItemAtHand DEF IInv, ListedBefore
  <2> HIDE DEF read
  <2>5. /\ pass' \in Passes /\ pass'.left = pass.left /\ pass'.reading = read
        /\ pass'.phase = "items" /\ pass'.todo = pass.todo /\ pass'.of = pass.of
        /\ pass'.source = pass.source
      BY <1>1, <2>1, <2>3 DEF Passes
  <2>6. PassCovers'
      BY <1>1, <2>5 DEF IInv, PassCovers, upstream
  <2>7. ListedBefore'
      BY <1>1, <2>4, <2>5 DEF IInv, ListedBefore, upstream
  <2> QED
      BY <1>1, <2>1, <2>5, <2>6, <2>7, PassGoesOn
<1>3. CASE ~(OnShelf(i) \/ pass.source = "jellyfin")
    BY <1>1, <1>3, SourceOverKeeps DEF ReadItem
<1> QED
    BY <1>2, <1>3

(* The item read is stored with what was read, no older than its mark; one *)
(* stored without an order had neither an order nor a mark.                *)
LEMMA StoreItemKeeps ==
    ASSUME IInv, NEW feedAnswers \in BOOLEAN, StoreItem(feedAnswers)
    PROVE  IInv' /\ (Marked => Marked') /\ \A i \in Items : rows[i] # None => rows'[i] # None
<1> DEFINE i == Head(pass.left).item
           marker == Head(pass.left).marker
           order == Order(i, feedAnswers)
           row == Row(pass.reading, order)
<1>1. /\ pass \in Passes /\ pass # None /\ pass.reading # None /\ pass.phase = "items"
      /\ UNCHANGED <<upstream, importing>>
      /\ pass' = [pass EXCEPT !.left = Tail(pass.left), !.reading = None]
      /\ rows' = [rows EXCEPT ![i] = row]
    BY DEF StoreItem, InItems, IInv, TypeOK
<1>2. pass.left # <<>> /\ marker <= pass.reading.marker
    BY <1>1 DEF IInv, ListedBefore
<1>3. i \in Items /\ marker \in Int /\ pass.reading \in Contents
    BY <1>1, <1>2, ItemAtHand DEF Passes
<1>4. rows \in [Items -> IndexRows \cup {None}]
      /\ sync \in [Items -> [marker : Int, age : Int] \cup {None}]
    BY DEF IInv, TypeOK
<1>5. order \in {None, "read", "unknown"}
    BY <1>3, <1>4 DEF Order, IndexRows
<1>6. row \in IndexRows /\ row # None /\ row.marker = pass.reading.marker /\ row.order = order
    BY <1>3, <1>5, RowsAreSomething DEF Row, Contents, IndexRows
<1>7. order = "unknown" => i \in Shows /\ sync' = sync /\ sync[i] = None
    BY <1>1 DEF StoreItem, Order, IInv, UnknownUnread
<1>8. order # "unknown" => sync' = [sync EXCEPT ![i] = [marker |-> marker, age |-> 0]]
    BY <1>1 DEF StoreItem, MarkRead
<1> HIDE DEF row, order, i, marker
<1>9. /\ rows' \in [Items -> IndexRows \cup {None}]
      /\ sync' \in [Items -> [marker : Int, age : Int] \cup {None}]
    BY <1>1, <1>3, <1>4, <1>6, <1>7, <1>8
<1>10. pass' \in Passes /\ pass'.left = Tail(pass.left) /\ pass'.reading = None
       /\ pass'.phase = "items" /\ pass'.todo = pass.todo /\ pass'.of = pass.of
       /\ pass'.source = pass.source
    BY <1>1, <1>2, ItemAtHand DEF Passes
<1>11. TypeOK'
    BY <1>1, <1>9, <1>10 DEF IInv, TypeOK, upstream
<1>12. UnlistedIsEmpty' /\ PassCovers'
    BY <1>1, <1>10 DEF IInv, UnlistedIsEmpty, PassCovers, upstream
<1>13. ListedBefore'
    BY <1>1, <1>2, <1>10, RestListedBefore DEF upstream
<1>14. UnknownUnread'
    BY <1>1, <1>3, <1>4, <1>6, <1>7, <1>8 DEF IInv, UnknownUnread
<1>15. Marked => Marked'
    BY <1>1, <1>2, <1>3, <1>4, <1>6, <1>7, <1>8 DEF Marked
<1>16. \A j \in Items : rows[j] # None => rows'[j] # None
    BY <1>1, <1>3, <1>4, <1>6
<1> QED
    BY <1>11, <1>12, <1>13, <1>14, <1>15, <1>16 DEF IInv

LEMMA PageEndsKeeps ==
    ASSUME IInv, PageEnds
    PROVE  IInv'
<1>1. /\ pass \in Passes /\ pass # None /\ pass.phase = "items" /\ pass.left = <<>>
      /\ UNCHANGED <<upstream, rows, sync, importing>>
    BY DEF PageEnds, InItems, IInv, TypeOK
<1>2. pass.reading = None
    BY <1>1 DEF IInv, ListedBefore
<1>3. Unseen \in SUBSET Items
    BY DEF Unseen
<1>4. /\ pass' \in Passes /\ pass'.left = pass.left /\ pass'.reading = None
      /\ pass'.phase # "libraries" /\ pass'.todo = pass.todo /\ pass'.of = pass.of
      /\ pass'.source = pass.source
  <2>1. CASE pass.last
      BY <1>1, <1>2, <1>3, <2>1 DEF PageEnds, Passes
  <2>2. CASE ~pass.last
    <3>1. pass' = [pass EXCEPT !.phase = "page", !.page = @ + 1]
        BY <2>2 DEF PageEnds
    <3>2. pass.page + 1 \in Nat
        BY <1>1 DEF Passes
    <3> QED
        BY <1>1, <1>2, <3>1, <3>2 DEF Passes
  <2> QED
      BY <2>1, <2>2
<1>5. PassCovers'
    BY <1>1, <1>4 DEF IInv, PassCovers, upstream
<1>6. ListedBefore'
    BY <1>1, <1>4 DEF ListedBefore
<1> QED
    BY <1>1, <1>4, <1>5, <1>6, PassGoesOn

LEMMA AskIfGoneKeeps ==
    ASSUME IInv, AskIfGone
    PROVE  IInv' /\ (Marked => Marked')
           /\ \A j \in Items : rows[j] # None /\ OnShelf(j) => rows'[j] # None
<1>1. PICK i \in pass.unseen :
          Removed(Confirmed(i)) /\ pass' = [pass EXCEPT !.unseen = @ \ {i}]
    BY DEF AskIfGone
<1>2. /\ pass \in Passes /\ pass # None /\ pass.phase = "gone"
      /\ UNCHANGED <<upstream, importing>>
    BY DEF AskIfGone, IInv, TypeOK
<1>3. /\ pass' \in Passes /\ pass'.left = pass.left /\ pass'.reading = pass.reading
      /\ pass'.phase = "gone" /\ pass'.todo = pass.todo /\ pass'.of = pass.of
      /\ pass'.source = pass.source
    BY <1>1, <1>2 DEF Passes
<1>4. TypeOK'
    BY <1>1, <1>2, <1>3, RemovedKeeps DEF IInv, TypeOK, upstream
<1>5. UnlistedIsEmpty' /\ PassCovers' /\ ListedBefore'
    BY <1>2, <1>3 DEF IInv, UnlistedIsEmpty, PassCovers, ListedBefore, upstream
<1>6. UnknownUnread' /\ (Marked => Marked')
    BY <1>1, RemovedKeeps
<1>7. \A j \in Items : OnShelf(j) => j \notin Confirmed(i)
    BY DEF Confirmed
<1>8. \A j \in Items : rows[j] # None /\ OnShelf(j) => rows'[j] # None
    BY <1>1, <1>7, RemovedKeeps
<1> QED
    BY <1>4, <1>5, <1>6, <1>8 DEF IInv

(* What sits outside the libraries a Jellyfin pass went through is gone:   *)
(* no library has come to be listed since.                                 *)
LEMMA LibraryEndsKeeps ==
    ASSUME IInv, LibraryEnds
    PROVE  IInv' /\ (Marked => Marked')
           /\ \A j \in Items : rows[j] # None /\ OnShelf(j) => rows'[j] # None
<1>1. /\ pass \in Passes /\ pass # None /\ pass.phase = "gone"
      /\ UNCHANGED <<upstream, importing>>
    BY DEF LibraryEnds, IInv, TypeOK
<1>2. CASE Len(pass.todo) > 1
  <2>1. /\ pass' = [pass EXCEPT !.phase = "page", !.todo = Tail(@), !.page = 0, !.seen = {}]
        /\ UNCHANGED <<rows, sync>>
      BY <1>2 DEF LibraryEnds
  <2>2. Tail(pass.todo) \in Seq(Libraries) /\ Tail(pass.todo) # <<>>
    <3> DEFINE s == pass.todo
    <3>1. s \in Seq(Libraries) /\ s # <<>> /\ Len(s) > 1
        BY <1>1, <1>2 DEF Passes, IInv, PassCovers
    <3> HIDE DEF s
    <3>2. Tail(s) \in Seq(Libraries) /\ Len(Tail(s)) = Len(s) - 1
        BY <3>1, HeadTailProperties
    <3>3. Len(s) \in Nat
        BY <3>1, LenProperties
    <3>4. Len(Tail(s)) # 0
        BY <3>1, <3>2, <3>3
    <3>5. Tail(s) # <<>>
        BY <3>4, EmptySeq, Zenon
    <3> QED
        BY <3>2, <3>5 DEF s
  <2>3. /\ pass' \in Passes /\ pass'.left = pass.left /\ pass'.reading = pass.reading
        /\ pass'.todo # <<>> /\ pass'.of = pass.of /\ pass'.source = pass.source
      BY <1>1, <2>1, <2>2 DEF Passes
  <2>4. PassCovers' /\ ListedBefore'
      BY <1>1, <2>3 DEF IInv, PassCovers, ListedBefore, upstream
  <2>5. IInv'
      BY <1>1, <2>1, <2>3, <2>4, PassGoesOn
  <2> QED
      BY <2>1, <2>5 DEF Marked
<1>3. CASE ~(Len(pass.todo) > 1) /\ pass.source = "jellyfin"
  <2>1. Removed(Outside) /\ pass' = None
      BY <1>3 DEF LibraryEnds
  <2>2. TypeOK' /\ UnknownUnread' /\ (Marked => Marked')
      BY <1>1, <2>1, RemovedKeeps DEF IInv, TypeOK, upstream
  <2>3. UnlistedIsEmpty' /\ PassCovers' /\ ListedBefore'
      BY <1>1, <2>1 DEF IInv, UnlistedIsEmpty, PassCovers, ListedBefore, upstream
  <2>4. ASSUME NEW j \in Items, OnShelf(j) PROVE j \notin Outside
    <3>1. LibraryOf[j] \in listed
        BY <2>4, OnShelfIsListed
    <3>2. SourceOf(j) = "jellyfin" => LibraryOf[j] \in MusicLibraries
        BY DEF SourceOf, Libraries
    <3> QED
        BY <1>1, <1>3, <3>1, <3>2 DEF Outside, IInv, PassCovers
  <2>5. \A j \in Items : rows[j] # None /\ OnShelf(j) => rows'[j] # None
      BY <2>1, <2>4, RemovedKeeps
  <2> QED
      BY <2>2, <2>3, <2>5 DEF IInv
<1>4. CASE ~(Len(pass.todo) > 1) /\ pass.source # "jellyfin"
  <2>1. SourceOver /\ UNCHANGED rows
      BY <1>4 DEF LibraryEnds
  <2>2. IInv'
      BY <1>1, <2>1, SourceOverKeeps
  <2>3. Marked => Marked'
      BY <2>1, SourceIsOver DEF Marked
  <2> QED
      BY <2>1, <2>2, <2>3
<1> QED
    BY <1>2, <1>3, <1>4

LEMMA UpstreamFailsKeeps ==
    ASSUME IInv, UpstreamFails
    PROVE  IInv'
    BY SourceOverKeeps DEF UpstreamFails

----------------------------------------------------------------------------
(* Imports and crashes                                                     *)

LEMMA ImportReadsKeeps ==
    ASSUME IInv, NEW i \in Items, ImportReads(i)
    PROVE  IInv'
<1>1. TypeOK'
    BY DEF ImportReads, IInv, TypeOK, upstream
<1> QED
    BY <1>1 DEF ImportReads, IInv, UnlistedIsEmpty, PassCovers, ListedBefore, UnknownUnread, upstream

(* An import stores and marks what it read.                                *)
LEMMA ImportStoresKeeps ==
    ASSUME IInv, ImportStores
    PROVE  IInv' /\ (Marked => Marked') /\ \A j \in Items : rows[j] # None => rows'[j] # None
<1> DEFINE i == importing.item
           read == importing.read
           row == Row(read, None)
<1>1. /\ i \in Items /\ i \notin Shows /\ read \in Contents
      /\ rows' = [rows EXCEPT ![i] = row]
      /\ sync' = [sync EXCEPT ![i] = [marker |-> read.marker, age |-> 0]]
      /\ importing' = None /\ UNCHANGED <<upstream, pass>>
    BY DEF ImportStores, ImportMarker, IInv, TypeOK
<1>2. row \in IndexRows /\ row # None /\ row.marker = read.marker
    BY <1>1, RowsAreSomething DEF Row, Contents, IndexRows
<1>3. rows \in [Items -> IndexRows \cup {None}]
      /\ sync \in [Items -> [marker : Int, age : Int] \cup {None}]
    BY DEF IInv, TypeOK
<1>4. read.marker \in Int
    BY <1>1 DEF Contents
<1> HIDE DEF row, read, i
<1>5. /\ rows' \in [Items -> IndexRows \cup {None}]
      /\ sync' \in [Items -> [marker : Int, age : Int] \cup {None}]
    BY <1>1, <1>2, <1>3, <1>4
<1>6. TypeOK'
    BY <1>1, <1>5 DEF IInv, TypeOK, upstream
<1>7. UnlistedIsEmpty' /\ PassCovers' /\ ListedBefore'
    BY <1>1 DEF IInv, UnlistedIsEmpty, PassCovers, ListedBefore, upstream
<1>8. UnknownUnread'
    BY <1>1, <1>3 DEF IInv, UnknownUnread
<1>9. Marked => Marked'
    BY <1>1, <1>2, <1>3, <1>4 DEF Marked
<1>10. \A j \in Items : rows[j] # None => rows'[j] # None
    BY <1>1, <1>2, <1>3
<1> QED
    BY <1>6, <1>7, <1>8, <1>9, <1>10 DEF IInv

(* A crash may leave an item stored and not marked, never one unstored.    *)
LEMMA CrashKeeps ==
    ASSUME IInv, NEW stored \in BOOLEAN, Crash(stored)
    PROVE  IInv' /\ \A j \in Items : rows[j] # None => rows'[j] # None
<1> DEFINE i == Head(pass.left).item
           order == Order(i, TRUE)
           row == Row(pass.reading, order)
<1>1. pass' = None /\ importing' = None /\ UNCHANGED <<upstream, sync>>
    BY DEF Crash
<1>2. rows \in [Items -> IndexRows \cup {None}]
      /\ sync \in [Items -> [marker : Int, age : Int] \cup {None}]
    BY DEF IInv, TypeOK
<1>3. /\ rows' \in [Items -> IndexRows \cup {None}] /\ UnknownUnread'
      /\ \A j \in Items : rows[j] # None => rows'[j] # None
  <2>1. CASE ~stored
      BY <1>1, <1>2, <2>1 DEF Crash, IInv, UnknownUnread
  <2>2. CASE stored
    <3>1. /\ pass \in Passes /\ pass # None /\ pass.reading # None
          /\ rows' = [rows EXCEPT ![i] = row]
        BY <2>2 DEF Crash, InItems, IInv, TypeOK
    <3>2. pass.left # <<>> /\ pass.reading \in Contents
        BY <3>1 DEF IInv, ListedBefore, Passes
    <3>3. i \in Items
        BY <3>1, <3>2, ItemAtHand
    <3>4. order \in {None, "read"} /\ order # "unknown"
        BY DEF Order
    <3> HIDE DEF order, i
    <3>5. row \in IndexRows /\ row # None /\ row.order # "unknown"
        BY <3>2, <3>4, RowsAreSomething DEF Row, Contents, IndexRows
    <3> HIDE DEF row
    <3> QED
        BY <1>1, <1>2, <3>1, <3>3, <3>5 DEF IInv, UnknownUnread
  <2> QED
      BY <2>1, <2>2
<1>4. TypeOK'
    BY <1>1, <1>3 DEF IInv, TypeOK, upstream
<1>5. UnlistedIsEmpty' /\ PassCovers' /\ ListedBefore'
    BY <1>1 DEF IInv, UnlistedIsEmpty, PassCovers, ListedBefore, upstream
<1> QED
    BY <1>3, <1>4, <1>5 DEF IInv

----------------------------------------------------------------------------
(* The theorems                                                            *)

LEMMA InitHolds == Init => IInv
<1> SUFFICES ASSUME Init PROVE IInv
    OBVIOUS
<1>1. PICK source \in Sources :
          LET there == {i \in Items : SourceOf(i) = source}
          IN  /\ shelf = [l \in Libraries |-> SetToSeq({i \in there : LibraryOf[i] = l})]
              /\ content = [i \in Items |-> [marker |-> IF i \in there THEN 1 ELSE 0, edits |-> 0]]
    BY DEF Init
<1> DEFINE there == {i \in Items : SourceOf(i) = source}
           put(l) == {i \in there : LibraryOf[i] = l}
<1>2. \A l \in Libraries : SetToSeq(put(l)) \in Seq(Items)
  <2> SUFFICES ASSUME NEW l \in Libraries PROVE SetToSeq(put(l)) \in Seq(Items)
      OBVIOUS
  <2>1. put(l) \subseteq Items
      OBVIOUS
  <2>2. IsFiniteSet(put(l))
      BY <2>1, FS_Subset
  <2>3. SetToSeq(put(l)) \in Seq(put(l))
      BY <2>2, SetToSeqType
  <2> QED
      BY <2>1, <2>3, SeqDef
<1>3. shelf \in [Libraries -> Seq(Items)] /\ content \in [Items -> Contents]
    BY <1>1, <1>2 DEF Contents
<1>4. TypeOK
    BY <1>3 DEF Init, TypeOK
<1> QED
    BY <1>4 DEF Init, IInv, UnlistedIsEmpty, PassCovers, ListedBefore, UnknownUnread

(* Every step keeps the invariant.                                         *)
LEMMA NextHolds == IInv /\ [Next]_vars => IInv'
<1> SUFFICES ASSUME IInv, [Next]_vars PROVE IInv'
    OBVIOUS
<1>1. CASE \E i \in Items : Added(i) \/ Deleted(i) \/ Edited(i) \/ EpisodeEdited(i) \/ ImportReads(i)
    BY <1>1, AddedKeeps, DeletedKeeps, EditedKeeps, ImportReadsKeeps
<1>2. CASE \E l \in Libraries : LibraryGoes(l)
    BY <1>2, LibraryGoesKeeps
<1>3. CASE RunStep
    BY <1>3, RunStartsKeeps, LibrariesListedKeeps, PageListedKeeps, PassOverKeeps, ReadItemKeeps,
       StoreItemKeeps, PageEndsKeeps, AskIfGoneKeeps, LibraryEndsKeeps, UpstreamFailsKeeps DEF RunStep
<1>4. CASE ImportStores
    BY <1>4, ImportStoresKeeps
<1>5. CASE \E stored \in BOOLEAN : Crash(stored)
    BY <1>5, CrashKeeps
<1>6. CASE UNCHANGED vars
    BY <1>6 DEF vars, upstream, IInv, TypeOK, UnlistedIsEmpty, PassCovers, ListedBefore, UnknownUnread
<1> QED
    BY <1>1, <1>2, <1>3, <1>4, <1>5, <1>6 DEF Next

(* Every behaviour of the index job, whatever its upstreams do and fail    *)
(* (libraryIndex/job.ts), keeps the inductive invariant, and so its types. *)
THEOREM Invariant == Spec => []IInv
    BY InitHolds, NextHolds, PTL DEF Spec

(* No step of a run, an import or a crash takes the row of an item that is *)
(* still on its shelf (removeGone, itemsOutside).                          *)
THEOREM NothingThereGoes == Spec => WhatIsThereStays
<1>1. IInv /\ [Next]_vars => [\A i \in Items : rows[i] # None /\ OnShelf(i) => rows'[i] # None]_vars
  <2> SUFFICES ASSUME IInv, Next
               PROVE  \A i \in Items : rows[i] # None /\ OnShelf(i) => rows'[i] # None
      OBVIOUS
  <2>1. CASE UNCHANGED rows
      BY <2>1
  <2>2. CASE RunStep
      BY <2>1, <2>2, StoreItemKeeps, AskIfGoneKeeps, LibraryEndsKeeps
         DEF RunStep, RunStarts, LibrariesListed, PageListed, PassOver, ReadItem, PageEnds, UpstreamFails
  <2>3. CASE ImportStores \/ \E stored \in BOOLEAN : Crash(stored)
      BY <2>3, ImportStoresKeeps, CrashKeeps
  <2> QED
      BY <2>1, <2>2, <2>3 DEF Next, Added, Deleted, Edited, EpisodeEdited, LibraryGoes, Changes, ImportReads
<1> QED
    BY <1>1, Invariant, PTL DEF Spec, WhatIsThereStays

(* Whichever of a pass and an import reads an item first and stores it     *)
(* last (markRead, indexOneAbsItem), no mark gets ahead of its row but by  *)
(* a crash between storing and marking.                                    *)
THEOREM MarksFollowRows == Spec => MarkedWasRead
<1>1. IInv /\ [Next]_vars => [Marked => Marked' \/ \E stored \in BOOLEAN : Crash(stored)]_vars
  <2> SUFFICES ASSUME IInv, Next, Marked
               PROVE  Marked' \/ \E stored \in BOOLEAN : Crash(stored)
      OBVIOUS
  <2>1. CASE UNCHANGED <<rows, sync>>
      BY <2>1 DEF Marked
  <2>2. CASE UNCHANGED rows /\ SourceOver
      BY <2>2, SourceIsOver DEF Marked
  <2>3. CASE RunStarts
      BY <2>3, PassStarts DEF RunStarts, Marked, Sources
  <2>4. CASE RunStep
      BY <2>1, <2>2, <2>3, <2>4, StoreItemKeeps, AskIfGoneKeeps, LibraryEndsKeeps
         DEF RunStep, LibrariesListed, PageListed, PassOver, ReadItem, PageEnds, UpstreamFails
  <2>5. CASE ImportStores
      BY <2>5, ImportStoresKeeps
  <2> QED
      BY <2>1, <2>4, <2>5 DEF Next, Added, Deleted, Edited, EpisodeEdited, LibraryGoes, Changes, ImportReads
<1> QED
    BY <1>1, Invariant, PTL DEF Spec, MarkedWasRead
=============================================================================
