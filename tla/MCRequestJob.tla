---------------------------- MODULE MCRequestJob ----------------------------
(* The symmetries of RequestJob's runs, and what tells its states apart.   *)
EXTENDS RequestJob, TLC
LOCAL INSTANCE SequencesExt

ReleaseSymmetry == Permutations(Releases)

IdSymmetry == Permutations(Ids)

(* The keys the calls, a row that can be read or the client still name, in *)
(* an order that does not depend on the keys.                              *)
KeyOf(handle) == IF handle = None THEN None ELSE handle.key

KeysInUse ==
    LET live == SetToSeq({id \in Ids : Live(id)})
    IN  [i \in DOMAIN turn |-> turn[i].key]
          \o [i \in DOMAIN live |-> rows[live[i]].stepKey]
          \o [i \in DOMAIN live |-> KeyOf(rows[live[i]].handle)]
          \o SetToSeq({call.key : call \in late})
          \o LET hashes == SetToSeq(Releases)
             IN  [i \in DOMAIN hashes |-> torrents[hashes[i]]]

(* A view for one person and one request.  Keys are told apart, and nothing*)
(* else: each is told by where it is used first.  What was asked of a key, *)
(* or held by a lost row, matters only while the key is in use, for one    *)
(* out of use comes back as a new key alone, and what was asked of that is *)
(* forgotten.  A lost row that holds no such key only adds the one who     *)
(* asks to the row it gives way to.                                        *)
ByKeysInUse ==
    LET inUse == KeysInUse
        used == Keys \cap {inUse[i] : i \in DOMAIN inUse}
        place == [key \in used |->
                    CHOOSE i \in DOMAIN inUse : inUse[i] = key /\ \A j \in 1..(i - 1) : inUse[j] # key]
        Told(key) == IF key \in used THEN place[key] ELSE IF key \in Keys THEN 0 ELSE key
        Of(row) == IF row = None THEN None
                   ELSE [row EXCEPT !.stepKey = Told(@),
                                    !.handle = IF @ = None THEN None ELSE [@ EXCEPT !.key = Told(@)]]
        AllOf(keys) == {place[key] : key \in keys \cap used}
    IN  <<[h \in Releases |-> Told(torrents[h])],
          [i \in DOMAIN turn |-> [turn[i] EXCEPT !.key = Told(@)]],
          {[call EXCEPT !.key = Told(@)] : call \in late},
          [id \in Ids |-> Of(rows[id])], [job EXCEPT !.snap = Of(@)], crashes,
          AllOf(asked), AllOf(left),
          {lost \in {[row EXCEPT !.keys = AllOf(@)] : row \in unreadable} : lost.keys # {}}>>
=============================================================================
