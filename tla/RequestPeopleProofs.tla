-------------------------- MODULE RequestPeopleProofs --------------------------
(***************************************************************************)
(* Proofs about the people of the requests: for any requests, people and   *)
(* catalogue ids, and whichever rows can no longer be read, the ids find   *)
(* what they should (FoundByItsKeys), whoever is on what has arrived has   *)
(* the claim (ArrivedIsClaimed), claims go to those on a request of an     *)
(* indexed item (ClaimedByThoseOnIt), and nobody loses their place but by  *)
(* leaving (PlacesAreKept).                                                *)
(***************************************************************************)
EXTENDS RequestPeople, FiniteSetTheorems, TLAPS

USE PeopleConstants, RowsAreSomething

----------------------------------------------------------------------------
(* What the tables answer                                                  *)

(* A stored row is a row.                                                  *)
LEMMA StoredRows ==
    ASSUME TypeOK, NEW id \in Ids, Stored(id)
    PROVE  /\ rows[id] \in Rows /\ rows[id].people \subseteq People
           /\ On(id) = rows[id].people
<1>1. rows[id] \in Rows
    BY DEF TypeOK, Stored
<1> QED
    BY <1>1 DEF Rows, On

(* The ids of rows that go find nothing.                                   *)
LEMMA KeysLeft ==
    ASSUME TypeOK, NEW ids
    PROVE  /\ WithoutKeys(ids) \in [Catalogue -> Ids \cup {None}]
           /\ \A key \in Catalogue :
                 WithoutKeys(ids)[key] = IF liveKeys[key] \in ids THEN None ELSE liveKeys[key]
    BY DEF TypeOK, WithoutKeys

(* What matches an ask is there and live.  It joins one that can be read,  *)
(* and only when there is none does it find none.                          *)
LEMMA LiveFound ==
    ASSUME IInv, NEW keys \in SUBSET Catalogue
    PROVE  /\ \A id \in Matches(keys) :
                 id \in Ids /\ Stored(id) /\ rows[id].status # "inLibrary"
           /\ LiveRequest(keys) # None =>
                 LiveRequest(keys) \in Matches(keys) /\ Readable(LiveRequest(keys))
           /\ LiveRequest(keys) = None => \A id \in Matches(keys) : ~Readable(id)
<1> DEFINE readable == {id \in Matches(keys) : Readable(id)}
<1>1. \A id \in Matches(keys) : id \in Ids /\ Stored(id) /\ rows[id].status # "inLibrary"
    BY DEF Matches, IInv, FoundByItsKeys
<1>2. LiveRequest(keys) = IF readable = {} THEN None ELSE Oldest(readable)
    BY DEF LiveRequest
<1>3. readable # {} => Oldest(readable) \in readable
  <2> SUFFICES ASSUME readable # {} PROVE Oldest(readable) \in readable
      OBVIOUS
  <2>1. readable \in SUBSET {id \in Ids : Stored(id)}
      BY <1>1
  <2>2. FirstOf(readable)
      BY <2>1 DEF IInv, MadeInTurn
  <2> HIDE DEF readable
  <2> QED
      BY <2>2 DEF FirstOf, Oldest
<1>4. None \notin Matches(keys)
    BY <1>1
<1> QED
    BY <1>1, <1>2, <1>3, <1>4

(* Some of those there still have one that was made first, and what is made*)
(* last comes after them.                                                  *)
LEMMA FewerInTurn ==
    ASSUME IInv, before' \subseteq before,
           \A pair \in before' : Stored(pair[1])' /\ Stored(pair[2])',
           \A id \in Ids : Stored(id)' => Stored(id)
    PROVE  MadeInTurn'
<1> SUFFICES ASSUME NEW ids \in SUBSET {id \in Ids : Stored(id)'}, ids # {}
             PROVE  FirstOf(ids)'
    BY DEF MadeInTurn
<1>1. FirstOf(ids)
    BY DEF IInv, MadeInTurn
<1> QED
    BY <1>1 DEF FirstOf

LEMMA SameInTurn ==
    ASSUME IInv, before' = before, \A id \in Ids : Stored(id)' <=> Stored(id)
    PROVE  MadeInTurn'
<1>1. \A pair \in before : pair[1] \in Ids /\ pair[2] \in Ids
    BY DEF IInv, TypeOK
<1> QED
    BY <1>1, FewerInTurn DEF IInv, MadeInTurn

----------------------------------------------------------------------------
(* Each step                                                               *)

(* A row that stays where it was in the tables but for its people, status  *)
(* or whether it reads.                                                    *)
LEMMA RowChanges ==
    ASSUME IInv, NEW id \in Ids, Stored(id), NEW row \in Rows,
           rows' = [rows EXCEPT ![id] = row]
    PROVE  /\ rows' \in [Ids -> Rows \cup {None}]
           /\ rows'[id] = row
           /\ \A other \in Ids : Stored(other)' <=> Stored(other)
           /\ \A other \in Ids : other # id => rows'[other] = rows[other]
    BY DEF IInv, TypeOK, Stored

LEMMA JoinArrivedKeeps ==
    ASSUME IInv, NEW person \in People, NEW keys \in SUBSET Catalogue, JoinArrived(person, keys)
    PROVE  /\ IInv'
           /\ \A pair \in claims' \ claims : pair[1] \in On(pair[2])' /\ pair[2] \in index
           /\ \A id \in Ids : Stored(id) => rows'[id] # None
<1>1. PICK id \in ArrivedRequests(keys) :
          /\ arrived' = arrived \cup (keys \X {id})
          /\ rows' = [rows EXCEPT ![id].people = @ \cup {person}]
          /\ claims' = claims \cup {<<person, id>>}
          /\ UNCHANGED <<before, liveKeys, index>>
    BY DEF JoinArrived
<1>2. /\ id \in Ids /\ id \in index /\ Stored(id) /\ rows[id] \in Rows
      /\ rows[id].status = "inLibrary"
  <2>1. PICK key \in keys : <<key, id>> \in arrived
      BY <1>1 DEF ArrivedRequests
  <2>2. id \in index /\ Stored(id)
      BY <1>1 DEF ArrivedRequests, Readable
  <2>3. id \in Ids
      BY <2>2 DEF IInv, TypeOK
  <2>4. rows[id].status = "inLibrary"
      BY <2>1 DEF IInv, FoundByItsKeys
  <2> QED
      BY <2>2, <2>3, <2>4, StoredRows DEF IInv
<1> DEFINE row == [rows[id] EXCEPT !.people = rows[id].people \cup {person}]
<1>3. /\ row \in Rows /\ row.status = "inLibrary"
      /\ row.people = rows[id].people \cup {person}
    BY <1>2 DEF Rows
<1>4. rows' = [rows EXCEPT ![id] = row]
    BY <1>1
<1> HIDE DEF row
<1>5. /\ rows' \in [Ids -> Rows \cup {None}] /\ rows'[id] = row
      /\ \A other \in Ids : Stored(other)' <=> Stored(other)
      /\ \A other \in Ids : other # id => rows'[other] = rows[other]
    BY <1>2, <1>3, <1>4, RowChanges
<1>6. TypeOK'
    BY <1>1, <1>2, <1>5 DEF IInv, TypeOK
<1>7. MadeInTurn'
    BY <1>1, <1>5, SameInTurn
<1>8. FoundByItsKeys'
  <2>1. \A other \in Ids : Stored(other) => rows'[other].status = rows[other].status
      BY <1>2, <1>3, <1>5
  <2>2. \A key \in Catalogue : liveKeys[key] # None =>
            liveKeys[key] \in Ids /\ Stored(liveKeys[key]) /\ rows[liveKeys[key]].status # "inLibrary"
      BY DEF IInv, TypeOK, FoundByItsKeys
  <2>3. \A pair \in arrived' : pair[2] \in Ids /\ Stored(pair[2]) /\ rows[pair[2]].status = "inLibrary"
    <3>1. \A pair \in arrived : pair[2] \in Ids
        BY DEF IInv, TypeOK
    <3> QED
        BY <1>1, <1>2, <3>1 DEF IInv, FoundByItsKeys
  <2>4. \A other \in Ids : Stored(other) =>
            IF rows[other].status = "inLibrary"
            THEN \E key \in Catalogue : <<key, other>> \in arrived'
            ELSE \E key \in Catalogue : liveKeys[key] = other
      BY <1>1 DEF IInv, FoundByItsKeys
  <2> QED
      BY <1>1, <1>5, <2>1, <2>2, <2>3, <2>4 DEF FoundByItsKeys
<1>9. ArrivedIsClaimed'
    BY <1>1, <1>2, <1>3, <1>5 DEF IInv, ArrivedIsClaimed
<1>10. \A pair \in claims' \ claims : pair = <<person, id>>
    BY <1>1
<1>11. person \in On(id)'
    BY <1>2, <1>3, <1>5 DEF On
<1> QED
    BY <1>2, <1>5, <1>6, <1>7, <1>8, <1>9, <1>10, <1>11 DEF IInv, Stored

(* An ask that joins a live request or makes one.                          *)
LEMMA CreateKeeps ==
    ASSUME IInv, NEW person \in People, NEW keys \in SUBSET Catalogue, keys # {},
           CreateRequest(person, keys)
    PROVE  /\ IInv'
           /\ claims' \subseteq claims
           /\ \A id \in Ids : Stored(id) /\ rows'[id] = None =>
                 \E other \in Ids : rows[id].people \subseteq On(other)'
<1> DEFINE live   == LiveRequest(keys)
           spoilt == {other \in Matches(keys) : ~Readable(other)}
           moved  == PeopleMoved(person, spoilt)
           older  == {other \in Ids \ spoilt : Stored(other)}
           left   == WithoutKeys(spoilt)
<1>1. PICK id \in Ids :
          /\ IF live = None THEN ~Stored(id) ELSE id = live
          /\ rows' = [[other \in Ids |-> IF other \in spoilt THEN None ELSE rows[other]]
                EXCEPT ![id] = IF live = None
                    THEN [status |-> "working", people |-> moved, readable |-> TRUE]
                    ELSE [rows[id] EXCEPT !.people = @ \cup moved, !.status = "working"]]
          /\ before' = Without(spoilt) \cup IF live = None THEN older \X {id} ELSE {}
          /\ liveKeys' = [key \in Catalogue |->
                IF key \in keys /\ left[key] = None THEN id ELSE left[key]]
          /\ arrived' = WithoutArrived(spoilt)
          /\ index' = IF live = None THEN index \ {id} ELSE index
          /\ claims' = IF live = None THEN {pair \in claims : pair[2] # id} ELSE claims
    BY DEF CreateRequest
<1>2. /\ \A other \in Matches(keys) : other \in Ids /\ Stored(other) /\ rows[other].status # "inLibrary"
      /\ live # None => live \in Matches(keys) /\ Readable(live)
      /\ live = None => \A other \in Matches(keys) : ~Readable(other)
    BY LiveFound
<1>3. \A other \in spoilt : other \in Ids /\ Stored(other) /\ rows[other].status # "inLibrary"
    BY <1>2
<1>4. /\ id \notin spoilt
      /\ live = None => ~Stored(id)
      /\ live # None => id = live /\ Stored(id) /\ rows[id].status # "inLibrary"
    BY <1>1, <1>2 DEF Readable
<1>5. /\ moved \in SUBSET People
      /\ \A other \in spoilt : rows[other].people \subseteq moved
  <2>1. \A other \in spoilt : rows[other].people \subseteq People
      BY <1>3, StoredRows DEF IInv
  <2> QED
      BY <2>1 DEF PeopleMoved
<1>6. live = None => \A key \in keys : left[key] = None
  <2> SUFFICES ASSUME live = None, NEW key \in keys PROVE left[key] = None
      OBVIOUS
  <2>1. liveKeys[key] # None => liveKeys[key] \in Matches(keys)
      BY DEF Matches, IInv, TypeOK
  <2>2. liveKeys[key] # None => liveKeys[key] \in spoilt
      BY <1>2, <2>1
  <2> QED
      BY <2>2, KeysLeft DEF IInv
<1>7. /\ left \in [Catalogue -> Ids \cup {None}]
      /\ \A key \in Catalogue : left[key] = IF liveKeys[key] \in spoilt THEN None ELSE liveKeys[key]
    BY KeysLeft DEF IInv
<1> HIDE DEF live, spoilt, moved, left
<1> DEFINE fresh  == [status |-> "working", people |-> moved, readable |-> TRUE]
           joined == [rows[id] EXCEPT !.people = @ \cup moved, !.status = "working"]
<1>8. /\ rows'[id] = IF live = None THEN fresh ELSE joined
      /\ \A other \in Ids : other # id =>
             rows'[other] = IF other \in spoilt THEN None ELSE rows[other]
  <2>1. rows' = [[other \in Ids |-> IF other \in spoilt THEN None ELSE rows[other]]
                    EXCEPT ![id] = IF live = None THEN fresh ELSE joined]
      BY <1>1
  <2> HIDE DEF fresh, joined
  <2> QED
      BY <2>1
<1>9. /\ rows'[id] \in Rows /\ rows'[id].status = "working" /\ moved \subseteq rows'[id].people
  <2>1. CASE live = None
      BY <1>5, <1>8, <2>1 DEF Rows
  <2>2. CASE live # None
    <3>1. rows[id] \in Rows
        BY <1>4, <2>2, StoredRows DEF IInv
    <3>2. rows[id].people \cup moved \in SUBSET People
        BY <1>5, <3>1 DEF Rows
    <3>3. joined \in Rows /\ joined.status = "working" /\ joined.people = rows[id].people \cup moved
        BY <3>1, <3>2 DEF Rows
    <3> HIDE DEF joined
    <3> QED
        BY <1>8, <2>2, <3>3
  <2> QED
      BY <2>1, <2>2
<1>10. \A other \in Ids : other # id =>
          rows'[other] = IF other \in spoilt THEN None ELSE rows[other]
    BY <1>8
<1>11. \A other \in Ids : Stored(other)' <=> other = id \/ (Stored(other) /\ other \notin spoilt)
    BY <1>9, <1>10 DEF Stored
<1>12. rows' \in [Ids -> Rows \cup {None}]
  <2>1. \A other \in Ids : rows'[other] \in Rows \cup {None}
      BY <1>9, <1>10 DEF IInv, TypeOK
  <2>2. rows' = [other \in Ids |-> rows'[other]]
      BY <1>1
  <2> QED
      BY <2>1, <2>2
<1>13. TypeOK'
  <2>1. before' \subseteq Ids \X Ids
      BY <1>1 DEF IInv, TypeOK, Without
  <2>2. liveKeys' \in [Catalogue -> Ids \cup {None}]
      BY <1>1, <1>7
  <2>3. arrived' \subseteq arrived
      BY <1>1 DEF WithoutArrived
  <2>4. claims' \subseteq claims /\ index' \subseteq index
      BY <1>1
  <2> QED
      BY <1>12, <2>1, <2>2, <2>3, <2>4 DEF IInv, TypeOK
<1>14. MadeInTurn'
  <2>1. \A pair \in before' :
            \/ pair \in before /\ pair[1] \notin spoilt /\ pair[2] \notin spoilt
            \/ live = None /\ pair[1] \in older /\ pair[2] = id
    <3>1. ASSUME NEW pair \in before', pair \notin Without(spoilt)
          PROVE  live = None /\ pair \in older \X {id}
      <4> HIDE DEF older
      <4> QED
          BY <1>1, <3>1
    <3>2. \A pair \in Without(spoilt) :
              pair \in before /\ pair[1] \notin spoilt /\ pair[2] \notin spoilt
        BY DEF Without
    <3>3. \A pair \in older \X {id} : pair[1] \in older /\ pair[2] = id
      <4> HIDE DEF older
      <4> QED
          OBVIOUS
    <3> HIDE DEF older
    <3> QED
        BY <3>1, <3>2, <3>3
  <2>2. \A pair \in before : pair[1] \in Ids /\ pair[2] \in Ids /\ Stored(pair[1]) /\ Stored(pair[2])
      BY DEF IInv, TypeOK, MadeInTurn
  <2>3. \A pair \in before' : Stored(pair[1])' /\ Stored(pair[2])'
      BY <1>11, <2>1, <2>2
  <2>4. ASSUME NEW ids \in SUBSET {other \in Ids : Stored(other)'}, ids # {}
        PROVE  FirstOf(ids)'
    <3>1. CASE live = None
      <4>1. \A other : <<id, other>> \notin before'
        <5> SUFFICES ASSUME NEW other, <<id, other>> \in before' PROVE FALSE
            OBVIOUS
        <5>1. Stored(id)
            BY <2>1, <2>2
        <5> QED
            BY <1>4, <3>1, <5>1
      <4>2. CASE ids \subseteq {id}
          BY <2>4, <4>1, <4>2 DEF FirstOf
      <4>3. CASE ~(ids \subseteq {id})
        <5>1. ids \ {id} # {} /\ ids \ {id} \in SUBSET {other \in Ids : Stored(other)}
            BY <1>11, <4>3
        <5>2. PICK first \in ids \ {id} : \A other \in ids \ {id} : <<other, first>> \notin before
            BY <5>1 DEF IInv, MadeInTurn, FirstOf
        <5>3. \A other \in ids : <<other, first>> \notin before'
            BY <2>1, <4>1, <5>2
        <5> QED
            BY <5>2, <5>3 DEF FirstOf
      <4> QED
          BY <4>2, <4>3
    <3>2. CASE live # None
      <4>1. ids \in SUBSET {other \in Ids : Stored(other)}
          BY <1>4, <1>11, <3>2
      <4>2. FirstOf(ids)
          BY <2>4, <4>1 DEF IInv, MadeInTurn
      <4> QED
          BY <2>1, <3>2, <4>2 DEF FirstOf
    <3> QED
        BY <3>1, <3>2
  <2> QED
      BY <2>3, <2>4 DEF MadeInTurn
<1>15. \A pair \in arrived' : pair \in arrived /\ pair[2] \in Ids /\ pair[2] \notin spoilt /\ pair[2] # id
  <2>1. \A pair \in arrived' : pair \in arrived /\ pair[2] \in Ids /\ pair[2] \notin spoilt
      BY <1>1 DEF WithoutArrived, IInv, TypeOK
  <2>2. \A pair \in arrived : Stored(pair[2]) /\ rows[pair[2]].status = "inLibrary"
      BY DEF IInv, FoundByItsKeys
  <2> QED
      BY <1>4, <2>1, <2>2
<1>16. FoundByItsKeys'
  <2>1. \A key \in Catalogue : liveKeys'[key] # None =>
            Stored(liveKeys[key])' /\ rows'[liveKeys'[key]].status # "inLibrary"
    <3> SUFFICES ASSUME NEW key \in Catalogue, liveKeys'[key] # None
                 PROVE  Stored(liveKeys[key])' /\ rows'[liveKeys'[key]].status # "inLibrary"
        OBVIOUS
    <3>1. CASE liveKeys'[key] = id
        BY <1>9, <1>11, <3>1
    <3>2. CASE liveKeys'[key] # id
      <4>1. liveKeys'[key] = liveKeys[key] /\ liveKeys[key] \in Ids \ spoilt
          BY <1>1, <1>7, <3>2 DEF IInv, TypeOK
      <4>2. Stored(liveKeys[key]) /\ rows[liveKeys[key]].status # "inLibrary"
          BY <4>1 DEF IInv, FoundByItsKeys
      <4>3. PICK found \in Ids \ spoilt : found = liveKeys[key] /\ found = liveKeys'[key]
          BY <4>1
      <4>4. Stored(found)' /\ rows'[found].status # "inLibrary"
          BY <1>10, <1>11, <3>2, <4>2, <4>3
      <4> QED
          BY <4>3, <4>4
    <3> QED
        BY <3>1, <3>2
  <2>2. \A pair \in arrived' : Stored(pair[2])' /\ rows'[pair[2]].status = "inLibrary"
      BY <1>10, <1>11, <1>15 DEF IInv, FoundByItsKeys
  <2>3. ASSUME NEW other \in Ids, Stored(other)', other # id
        PROVE  IF rows'[other].status = "inLibrary"
               THEN \E key \in Catalogue : <<key, other>> \in arrived'
               ELSE \E key \in Catalogue : liveKeys'[key] = other
    <3>1. Stored(other) /\ other \notin spoilt /\ rows'[other] = rows[other]
        BY <1>10, <1>11, <2>3
    <3>2. CASE rows[other].status = "inLibrary"
      <4>1. PICK key \in Catalogue : <<key, other>> \in arrived
          BY <3>1, <3>2 DEF IInv, FoundByItsKeys
      <4> QED
          BY <1>1, <3>1, <3>2, <4>1 DEF WithoutArrived
    <3>3. CASE rows[other].status # "inLibrary"
      <4>1. PICK key \in Catalogue : liveKeys[key] = other
          BY <3>1, <3>3 DEF IInv, FoundByItsKeys
      <4>2. left[key] = other /\ other # None
          BY <1>7, <3>1, <4>1
      <4> QED
          BY <1>1, <3>1, <3>3, <4>2
    <3> QED
        BY <3>2, <3>3
  <2>4. \E key \in Catalogue : liveKeys'[key] = id
    <3>1. CASE live = None
        BY <1>1, <1>6, <3>1
    <3>2. CASE live # None
      <4>1. PICK key \in Catalogue : liveKeys[key] = id
          BY <1>4, <3>2 DEF IInv, FoundByItsKeys
      <4>2. left[key] = id /\ id # None
          BY <1>4, <1>7, <4>1
      <4> QED
          BY <1>1, <4>2
    <3> QED
        BY <3>1, <3>2
  <2>5. \A other \in Ids : Stored(other)' =>
            IF rows'[other].status = "inLibrary"
            THEN \E key \in Catalogue : <<key, other>> \in arrived'
            ELSE \E key \in Catalogue : liveKeys'[key] = other
    <3> SUFFICES ASSUME NEW other \in Ids, Stored(other)'
                 PROVE  IF rows'[other].status = "inLibrary"
                        THEN \E key \in Catalogue : <<key, other>> \in arrived'
                        ELSE \E key \in Catalogue : liveKeys'[key] = other
        OBVIOUS
    <3>1. CASE other = id
        BY <1>9, <2>4, <3>1
    <3>2. CASE other # id
        BY <2>3, <3>2
    <3> QED
        BY <3>1, <3>2
  <2> QED
      BY <2>1, <2>2, <2>5 DEF FoundByItsKeys
<1>17. ArrivedIsClaimed'
  <2> SUFFICES ASSUME NEW other \in Ids, Stored(other)', rows'[other].status = "inLibrary"
               PROVE  rows'[other].people \X {other} \subseteq claims'
      BY DEF ArrivedIsClaimed
  <2>1. other # id /\ Stored(other) /\ rows'[other] = rows[other]
      BY <1>9, <1>10, <1>11
  <2>2. rows[other].people \X {other} \subseteq claims
      BY <2>1 DEF IInv, ArrivedIsClaimed
  <2> QED
      BY <1>1, <2>1, <2>2
<1>18. ASSUME NEW other \in Ids, Stored(other), rows'[other] = None
       PROVE  rows[other].people \subseteq On(id)'
  <2>1. other # id /\ other \in spoilt
      BY <1>9, <1>10, <1>18 DEF Stored
  <2>2. On(id)' = rows'[id].people
      BY <1>11 DEF On
  <2> QED
      BY <1>5, <1>9, <1>18, <2>1, <2>2
<1> QED
    BY <1>1, <1>13, <1>14, <1>16, <1>17, <1>18 DEF IInv

(* A live row that stays live, an arrived one that stays arrived, with no  *)
(* one new on it.                                                          *)
LEMMA SameTablesKeep ==
    ASSUME IInv, NEW id \in Ids, Stored(id), NEW row \in Rows,
           rows' = [rows EXCEPT ![id] = row], row.people \subseteq rows[id].people,
           row.status = "inLibrary" <=> rows[id].status = "inLibrary",
           UNCHANGED <<before, liveKeys, arrived, claims, index>>
    PROVE  IInv' /\ \A other \in Ids : Stored(other) => rows'[other] # None
<1>1. /\ rows' \in [Ids -> Rows \cup {None}] /\ rows'[id] = row
      /\ \A other \in Ids : Stored(other)' <=> Stored(other)
      /\ \A other \in Ids : other # id => rows'[other] = rows[other]
    BY RowChanges
<1>2. \A other \in Ids : rows'[other].status = "inLibrary" <=> rows[other].status = "inLibrary"
    BY <1>1
<1>3. TypeOK'
    BY <1>1 DEF IInv, TypeOK
<1>4. MadeInTurn'
    BY <1>1, SameInTurn
<1>5. FoundByItsKeys'
  <2>1. \A key \in Catalogue : liveKeys[key] # None => liveKeys[key] \in Ids
      BY DEF IInv, TypeOK
  <2>2. \A pair \in arrived : pair[2] \in Ids
      BY DEF IInv, TypeOK
  <2> QED
      BY <1>1, <1>2, <2>1, <2>2 DEF IInv, FoundByItsKeys
<1>6. ArrivedIsClaimed'
    BY <1>1, <1>2 DEF IInv, ArrivedIsClaimed
<1> QED
    BY <1>1, <1>3, <1>4, <1>5, <1>6 DEF IInv, Stored

LEMMA CancelKeeps ==
    ASSUME IInv, NEW id \in Ids, NEW person \in People, CancelRequest(id, person)
    PROVE  /\ IInv' /\ claims' = claims
           /\ \A other \in Ids : Stored(other) /\ rows'[other] = None =>
                 Readable(other) /\ \E left \in People : rows[other].people = {left}
<1>1. /\ Stored(id) /\ Readable(id) /\ rows[id].status # "inLibrary"
      /\ claims' = claims /\ index' = index
      /\ rows[id] \in Rows
    BY StoredRows DEF CancelRequest, Readable, IInv
<1>2. CASE rows[id].people = {person}
  <2>1. DeleteRequest(id)
      BY <1>2 DEF CancelRequest
  <2>2. /\ rows' = [rows EXCEPT ![id] = None] /\ before' = Without({id})
        /\ liveKeys' = WithoutKeys({id}) /\ arrived' = WithoutArrived({id})
      BY <2>1 DEF DeleteRequest
  <2>3. /\ rows' \in [Ids -> Rows \cup {None}] /\ rows'[id] = None
        /\ \A other \in Ids : other # id => rows'[other] = rows[other]
        /\ \A other \in Ids : Stored(other)' <=> Stored(other) /\ other # id
      BY <2>2 DEF IInv, TypeOK, Stored
  <2>4. /\ liveKeys' \in [Catalogue -> Ids \cup {None}]
        /\ \A key \in Catalogue :
              liveKeys'[key] = IF liveKeys[key] = id THEN None ELSE liveKeys[key]
      BY <2>2, KeysLeft DEF IInv
  <2>5. \A pair \in arrived' : pair \in arrived /\ pair[2] \in Ids /\ pair[2] # id
      BY <2>2 DEF WithoutArrived, IInv, TypeOK
  <2>6. TypeOK'
      BY <1>1, <2>2, <2>3, <2>4, <2>5 DEF IInv, TypeOK, Without
  <2>7. MadeInTurn'
    <3>1. \A pair \in before' : pair \in before /\ pair[1] # id /\ pair[2] # id
        BY <2>2 DEF Without
    <3>2. \A pair \in before : pair[1] \in Ids /\ pair[2] \in Ids /\ Stored(pair[1]) /\ Stored(pair[2])
        BY DEF IInv, TypeOK, MadeInTurn
    <3> QED
        BY <2>3, <3>1, <3>2, FewerInTurn
  <2>8. FoundByItsKeys'
    <3>1. \A key \in Catalogue : liveKeys'[key] # None =>
              /\ liveKeys'[key] = liveKeys[key] /\ liveKeys[key] \in Ids /\ liveKeys[key] # id
              /\ Stored(liveKeys[key]) /\ rows[liveKeys[key]].status # "inLibrary"
        BY <2>4 DEF IInv, TypeOK, FoundByItsKeys
    <3>2. \A key \in Catalogue : liveKeys'[key] # None =>
              rows'[liveKeys'[key]] # None /\ rows'[liveKeys'[key]].status # "inLibrary"
        BY <2>3, <3>1 DEF Stored
    <3>3. \A pair \in arrived' : Stored(pair[2])' /\ rows'[pair[2]].status = "inLibrary"
        BY <2>3, <2>5 DEF IInv, FoundByItsKeys
    <3>4. \A other \in Ids : Stored(other)' =>
              IF rows'[other].status = "inLibrary"
              THEN \E key \in Catalogue : <<key, other>> \in arrived'
              ELSE \E key \in Catalogue : liveKeys'[key] = other
      <4> SUFFICES ASSUME NEW other \in Ids, Stored(other)'
                   PROVE  IF rows'[other].status = "inLibrary"
                          THEN \E key \in Catalogue : <<key, other>> \in arrived'
                          ELSE \E key \in Catalogue : liveKeys'[key] = other
          OBVIOUS
      <4>1. Stored(other) /\ other # id /\ rows'[other] = rows[other]
          BY <2>3
      <4>2. CASE rows[other].status = "inLibrary"
        <5>1. PICK key \in Catalogue : <<key, other>> \in arrived
            BY <4>1, <4>2 DEF IInv, FoundByItsKeys
        <5> QED
            BY <2>2, <4>1, <4>2, <5>1 DEF WithoutArrived
      <4>3. CASE rows[other].status # "inLibrary"
        <5>1. PICK key \in Catalogue : liveKeys[key] = other
            BY <4>1, <4>3 DEF IInv, FoundByItsKeys
        <5> QED
            BY <2>4, <4>1, <4>3, <5>1
      <4> QED
          BY <4>2, <4>3
    <3> QED
        BY <3>2, <3>3, <3>4 DEF FoundByItsKeys, Stored
  <2>9. ArrivedIsClaimed'
      BY <1>1, <2>3 DEF IInv, ArrivedIsClaimed
  <2> QED
      BY <1>1, <1>2, <2>3, <2>6, <2>7, <2>8, <2>9 DEF IInv, Stored
<1>3. CASE rows[id].people # {person}
  <2> DEFINE row == [rows[id] EXCEPT !.people = @ \ {person}]
  <2>1. /\ rows' = [rows EXCEPT ![id] = row]
        /\ UNCHANGED <<before, liveKeys, arrived, claims, index>>
      BY <1>3 DEF CancelRequest
  <2>2. row \in Rows /\ row.people \subseteq rows[id].people /\ row.status = rows[id].status
      BY <1>1 DEF Rows
  <2> HIDE DEF row
  <2> QED
      BY <1>1, <2>1, <2>2, SameTablesKeep
<1> QED
    BY <1>2, <1>3

(* What the job, a retry or a spoilt row does to a row.                    *)
LEMMA RowStepKeeps ==
    ASSUME IInv, NEW id \in Ids, StepFails(id) \/ RetryRequest(id) \/ Spoil(id)
    PROVE  IInv' /\ claims' = claims /\ \A other \in Ids : Stored(other) => rows'[other] # None
<1>1. Stored(id) /\ rows[id] \in Rows
    BY StoredRows DEF StepFails, RetryRequest, Spoil, Readable, IInv
<1>2. UNCHANGED <<before, liveKeys, arrived, claims, index>>
    BY DEF StepFails, RetryRequest, Spoil
<1>3. PICK row \in Rows :
          /\ rows' = [rows EXCEPT ![id] = row] /\ row.people = rows[id].people
          /\ row.status = "inLibrary" <=> rows[id].status = "inLibrary"
  <2>1. CASE StepFails(id)
    <3> DEFINE row == [rows[id] EXCEPT !.status = "failed"]
    <3>1. row \in Rows /\ row.people = rows[id].people /\ row.status = "failed"
        BY <1>1 DEF Rows
    <3>2. rows' = [rows EXCEPT ![id] = row] /\ rows[id].status = "working"
        BY <2>1 DEF StepFails
    <3> QED
        BY <3>1, <3>2
  <2>2. CASE RetryRequest(id)
    <3> DEFINE row == [rows[id] EXCEPT !.status = "working"]
    <3>1. row \in Rows /\ row.people = rows[id].people /\ row.status = "working"
        BY <1>1 DEF Rows
    <3>2. rows' = [rows EXCEPT ![id] = row] /\ rows[id].status = "failed"
        BY <2>2 DEF RetryRequest
    <3> QED
        BY <3>1, <3>2
  <2>3. CASE Spoil(id)
    <3> DEFINE row == [rows[id] EXCEPT !.readable = FALSE]
    <3>1. row \in Rows /\ row.people = rows[id].people /\ row.status = rows[id].status
        BY <1>1 DEF Rows
    <3>2. rows' = [rows EXCEPT ![id] = row]
        BY <2>3 DEF Spoil
    <3> QED
        BY <3>1, <3>2
  <2> QED
      BY <2>1, <2>2, <2>3
<1> QED
    BY <1>1, <1>2, <1>3, SameTablesKeep

(* A request arrives: it was live, so ids found it, and those find it now  *)
(* as one that arrived.                                                    *)
LEMMA ArriveKeeps ==
    ASSUME IInv, NEW id \in Ids, Arrive(id)
    PROVE  /\ IInv'
           /\ \A pair \in claims' \ claims : pair[1] \in On(pair[2])' /\ pair[2] \in index
           /\ \A other \in Ids : Stored(other) => rows'[other] # None
<1>1. /\ Stored(id) /\ rows[id] \in Rows /\ rows[id].status = "working" /\ id \in index
      /\ before' = before /\ index' = index
      /\ claims' = claims \cup (rows[id].people \X {id})
      /\ arrived' = arrived \cup {<<key, id>> : key \in {k \in Catalogue : liveKeys[k] = id}}
      /\ liveKeys' = WithoutKeys({id})
    BY StoredRows DEF Arrive, Readable, Claimants, KeysAfterArrival, IInv
<1> DEFINE row == [rows[id] EXCEPT !.status = "inLibrary"]
<1>2. row \in Rows /\ row.status = "inLibrary" /\ row.people = rows[id].people
    BY <1>1 DEF Rows
<1>3. rows' = [rows EXCEPT ![id] = row]
    BY DEF Arrive
<1> HIDE DEF row
<1>4. /\ rows' \in [Ids -> Rows \cup {None}] /\ rows'[id] = row
      /\ \A other \in Ids : Stored(other)' <=> Stored(other)
      /\ \A other \in Ids : other # id => rows'[other] = rows[other]
    BY <1>1, <1>2, <1>3, RowChanges
<1>5. /\ liveKeys' \in [Catalogue -> Ids \cup {None}]
      /\ \A key \in Catalogue :
            liveKeys'[key] = IF liveKeys[key] = id THEN None ELSE liveKeys[key]
    BY <1>1, KeysLeft DEF IInv
<1>6. rows[id].people \subseteq People
    BY <1>1 DEF Rows
<1>7. TypeOK'
  <2>1. arrived' \subseteq Catalogue \X Ids
      BY <1>1 DEF IInv, TypeOK
  <2>2. claims' \subseteq People \X Ids
      BY <1>1, <1>6 DEF IInv, TypeOK
  <2> QED
      BY <1>1, <1>4, <1>5, <2>1, <2>2 DEF IInv, TypeOK
<1>8. MadeInTurn'
    BY <1>1, <1>4, SameInTurn
<1>9. FoundByItsKeys'
  <2>1. \A key \in Catalogue : liveKeys'[key] # None =>
            /\ liveKeys'[key] = liveKeys[key] /\ liveKeys[key] \in Ids /\ liveKeys[key] # id
            /\ Stored(liveKeys[key]) /\ rows[liveKeys[key]].status # "inLibrary"
      BY <1>5 DEF IInv, TypeOK, FoundByItsKeys
  <2>2. \A key \in Catalogue : liveKeys'[key] # None =>
            rows'[liveKeys'[key]] # None /\ rows'[liveKeys'[key]].status # "inLibrary"
      BY <1>4, <2>1 DEF Stored
  <2>3. \A pair \in arrived' : Stored(pair[2])' /\ rows'[pair[2]].status = "inLibrary"
    <3> SUFFICES ASSUME NEW pair \in arrived'
                 PROVE  Stored(pair[2])' /\ rows'[pair[2]].status = "inLibrary"
        OBVIOUS
    <3>1. CASE pair[2] = id
        BY <1>1, <1>2, <1>4, <3>1
    <3>2. CASE pair[2] # id
      <4>1. pair \in arrived
          BY <1>1, <3>2
      <4>2. pair[2] \in Ids /\ Stored(pair[2]) /\ rows[pair[2]].status = "inLibrary"
          BY <4>1 DEF IInv, TypeOK, FoundByItsKeys
      <4> QED
          BY <1>4, <3>2, <4>2
    <3> QED
        BY <3>1, <3>2
  <2>4. \A other \in Ids : Stored(other)' =>
            IF rows'[other].status = "inLibrary"
            THEN \E key \in Catalogue : <<key, other>> \in arrived'
            ELSE \E key \in Catalogue : liveKeys'[key] = other
    <3> SUFFICES ASSUME NEW other \in Ids, Stored(other)'
                 PROVE  IF rows'[other].status = "inLibrary"
                        THEN \E key \in Catalogue : <<key, other>> \in arrived'
                        ELSE \E key \in Catalogue : liveKeys'[key] = other
        OBVIOUS
    <3>1. CASE other = id
      <4>1. PICK key \in Catalogue : liveKeys[key] = id
          BY <1>1 DEF IInv, FoundByItsKeys
      <4> QED
          BY <1>1, <1>2, <1>4, <3>1, <4>1
    <3>2. CASE other # id
      <4>1. Stored(other) /\ rows'[other] = rows[other]
          BY <1>4, <3>2
      <4>2. CASE rows[other].status = "inLibrary"
          BY <1>1, <4>1, <4>2 DEF IInv, FoundByItsKeys
      <4>3. CASE rows[other].status # "inLibrary"
        <5>1. PICK key \in Catalogue : liveKeys[key] = other
            BY <4>1, <4>3 DEF IInv, FoundByItsKeys
        <5> QED
            BY <1>5, <3>2, <4>1, <4>3, <5>1
      <4> QED
          BY <4>2, <4>3
    <3> QED
        BY <3>1, <3>2
  <2> QED
      BY <2>2, <2>3, <2>4 DEF FoundByItsKeys, Stored
<1>10. ArrivedIsClaimed'
    BY <1>1, <1>2, <1>4 DEF IInv, ArrivedIsClaimed
<1>11. \A pair \in claims' \ claims : pair[1] \in rows[id].people /\ pair[2] = id
    BY <1>1
<1>12. On(id)' = rows[id].people
    BY <1>1, <1>2, <1>4 DEF On
<1> QED
    BY <1>1, <1>4, <1>7, <1>8, <1>9, <1>10, <1>11, <1>12 DEF IInv, Stored

LEMMA IndexKeeps ==
    ASSUME IInv, NEW id \in Ids, IndexChanges(id)
    PROVE  IInv' /\ claims' = claims /\ rows' = rows
<1>1. UNCHANGED <<rows, before, liveKeys, arrived, claims>> /\ index' \subseteq Ids
    BY DEF IndexChanges, IInv, TypeOK
<1> QED
    BY <1>1 DEF IInv, TypeOK, MadeInTurn, FirstOf, FoundByItsKeys, ArrivedIsClaimed, Stored

----------------------------------------------------------------------------
(* The theorems                                                            *)

(* What a step does to the claims and to everyone's place.                 *)
ClaimsFit == \A pair \in claims' \ claims : pair[1] \in On(pair[2])' /\ pair[2] \in index

PlacesFit ==
    \A id \in Ids : Stored(id) /\ rows'[id] = None =>
        \/ Cardinality(rows[id].people) = 1 /\ Readable(id)
        \/ \E other \in Ids : rows[id].people \subseteq On(other)'

LEMMA StepFits ==
    ASSUME IInv, [Next]_vars
    PROVE  IInv' /\ ClaimsFit /\ PlacesFit
<1>1. ASSUME NEW person \in People, NEW keys \in (SUBSET Catalogue) \ {{}}, Ask(person, keys)
      PROVE  IInv' /\ ClaimsFit /\ PlacesFit
  <2>1. CASE JoinArrived(person, keys)
      BY <2>1, JoinArrivedKeeps DEF ClaimsFit, PlacesFit
  <2>2. CASE CreateRequest(person, keys)
    <3>1. keys \in SUBSET Catalogue /\ keys # {}
        BY <1>1
    <3>2. /\ IInv' /\ claims' \subseteq claims
          /\ \A id \in Ids : Stored(id) /\ rows'[id] = None =>
                \E other \in Ids : rows[id].people \subseteq On(other)'
        BY <2>2, <3>1, CreateKeeps
    <3>3. ClaimsFit
        BY <3>2 DEF ClaimsFit
    <3> QED
        BY <3>2, <3>3 DEF PlacesFit
  <2> QED
      BY <1>1, <2>1, <2>2 DEF Ask
<1>2. ASSUME NEW id \in Ids, NEW person \in People, CancelRequest(id, person)
      PROVE  IInv' /\ ClaimsFit /\ PlacesFit
  <2>1. \A one : Cardinality({one}) = 1
      BY FS_Singleton
  <2> QED
      BY <1>2, <2>1, CancelKeeps DEF ClaimsFit, PlacesFit
<1>3. ASSUME NEW id \in Ids, StepFails(id) \/ RetryRequest(id) \/ Spoil(id)
      PROVE  IInv' /\ ClaimsFit /\ PlacesFit
    BY <1>3, RowStepKeeps DEF ClaimsFit, PlacesFit
<1>4. ASSUME NEW id \in Ids, Arrive(id)
      PROVE  IInv' /\ ClaimsFit /\ PlacesFit
    BY <1>4, ArriveKeeps DEF ClaimsFit, PlacesFit
<1>5. ASSUME NEW id \in Ids, IndexChanges(id)
      PROVE  IInv' /\ ClaimsFit /\ PlacesFit
    BY <1>5, IndexKeeps DEF ClaimsFit, PlacesFit, Stored
<1>6. CASE UNCHANGED vars
  <2>1. UNCHANGED <<rows, before, liveKeys, arrived, claims, index>>
      BY <1>6 DEF vars
  <2> QED
      BY <2>1 DEF IInv, TypeOK, MadeInTurn, FirstOf, FoundByItsKeys, ArrivedIsClaimed, Stored,
                  ClaimsFit, PlacesFit
<1> QED
    BY <1>1, <1>2, <1>3, <1>4, <1>5, <1>6 DEF Next

LEMMA InitFits == Init => IInv
    BY DEF Init, IInv, TypeOK, MadeInTurn, FirstOf, FoundByItsKeys, ArrivedIsClaimed, Stored

(* Every behaviour of the tables keeps the invariant.                      *)
THEOREM Invariant == Spec => []IInv
<1> QED
    BY InitFits, StepFits, PTL DEF Spec

(* The catalogue ids find what they should (request_keys, arrived_keys and *)
(* their triggers).                                                        *)
THEOREM KeysFind == Spec => []FoundByItsKeys
<1>1. IInv => FoundByItsKeys
    BY DEF IInv
<1> QED
    BY <1>1, Invariant, PTL

(* Whoever is on what has arrived has the claim, however they came to be   *)
(* on it (arrive, joinArrivedRequest).                                     *)
THEOREM ArrivalsClaimed == Spec => []ArrivedIsClaimed
<1>1. IInv => ArrivedIsClaimed
    BY DEF IInv
<1> QED
    BY <1>1, Invariant, PTL

(* A claim is made for somebody on the request of an indexed item, not for *)
(* one who left before it arrived (arrive, joinArrivedRequest).            *)
THEOREM ClaimsOfThoseOnIt == Spec => ClaimedByThoseOnIt
<1>1. IInv /\ [Next]_vars =>
          [\A pair \in claims' \ claims : pair[1] \in On(pair[2])' /\ pair[2] \in index]_vars
    BY StepFits DEF ClaimsFit
<1> QED
    BY <1>1, Invariant, PTL DEF Spec, ClaimedByThoseOnIt

(* Nobody loses their place but by leaving, the people of rows that can no *)
(* longer be read included (createRequest, cancelRequest).                 *)
THEOREM NobodyLosesPlace == Spec => PlacesAreKept
<1>1. IInv /\ [Next]_vars =>
          [\A id \in Ids : Stored(id) /\ rows'[id] = None =>
              \/ Cardinality(rows[id].people) = 1 /\ Readable(id)
              \/ \E other \in Ids : rows[id].people \subseteq On(other)']_vars
    BY StepFits DEF PlacesFit
<1> QED
    BY <1>1, Invariant, PTL DEF Spec, PlacesAreKept
=============================================================================
