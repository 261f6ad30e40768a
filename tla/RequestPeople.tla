---------------------------- MODULE RequestPeople ----------------------------
(***************************************************************************)
(* Who is on which request, the catalogue ids that find it, and the claims *)
(* its arrival makes (server/src/store/requests.ts with the triggers of    *)
(* server/src/store/migrations.ts, server/src/store/claims.ts, and the     *)
(* create and cancel routes of server/src/routes/requests.ts).             *)
(*                                                                         *)
(* Every handler here runs between two awaits, so it is one action.  The   *)
(* job's steps are only what they are to people: still working, failed, or *)
(* arrived.  A request's item is named by the request's own id.            *)
(***************************************************************************)
EXTENDS Naturals, FiniteSets

CONSTANTS
    None,
    Ids,        \* request ids
    People,
    Catalogue,  \* catalogue ids of one medium, in the form the join compares
    MaxLive     \* live requests one person may be on

ASSUME PeopleConstants ==
    /\ None \notin Ids
    /\ MaxLive \in Nat \ {0}

VARIABLES
    rows,       \* the requests table with request_people: a row, or None
    before,     \* pairs of requests there are, the one made first before the other
    liveKeys,   \* request_keys: the live request each catalogue id finds
    arrived,    \* arrived_keys: catalogue ids with the requests they find
    claims,     \* library_claims: people with the items that are their own
    index       \* the items the library index holds

vars == <<rows, before, liveKeys, arrived, claims, index>>

Stored(id) == rows[id] # None

Readable(id) == Stored(id) /\ rows[id].readable

On(id) == IF Stored(id) THEN rows[id].people ELSE {}

(* requestsOf, and how many of them are live: a failed one is.             *)
LiveCount(person) ==
    Cardinality({id \in Ids :
        Readable(id) /\ person \in rows[id].people /\ rows[id].status # "inLibrary"})

(* Every stored live request sharing a catalogue id.                       *)
Matches(keys) == {id \in Ids : \E key \in keys : liveKeys[key] = id}

Oldest(ids) == CHOOSE id \in ids : \A other \in ids : <<other, id>> \notin before

(* The live request an ask joins: the oldest that can be read.             *)
LiveRequest(keys) ==
    LET readable == {id \in Matches(keys) : Readable(id)}
    IN  IF readable = {} THEN None ELSE Oldest(readable)

(* Mutant: what the index has lost is still joined.                        *)
ArrivedRequests_NotIndexed(keys) ==
    {id \in Ids : Readable(id) /\ \E key \in keys : <<key, id>> \in arrived}

(* The requests for the same thing that are in the library, and still in   *)
(* the index.                                                              *)
ArrivedRequests(keys) ==
    {id \in index : Readable(id) /\ \E key \in keys : <<key, id>> \in arrived}

(* A row's deletion takes its catalogue ids and everyone's place with it.  *)
WithoutKeys(ids) == [key \in Catalogue |-> IF liveKeys[key] \in ids THEN None ELSE liveKeys[key]]

WithoutArrived(ids) == {pair \in arrived : pair[2] \notin ids}

Without(ids) == {pair \in before : pair[1] \notin ids /\ pair[2] \notin ids}

DeleteRequest(id) ==
    /\ rows' = [rows EXCEPT ![id] = None]
    /\ before' = Without({id})
    /\ liveKeys' = WithoutKeys({id})
    /\ arrived' = WithoutArrived({id})

----------------------------------------------------------------------------
(* Asking                                                                  *)

(* What has arrived takes the person on at once, with a claim; the ids     *)
(* they brought find it from now on.                                       *)
JoinArrived(person, keys) ==
    \E id \in ArrivedRequests(keys) :
        /\ arrived' = arrived \cup (keys \X {id})
        /\ rows' = [rows EXCEPT ![id].people = @ \cup {person}]
        /\ claims' = claims \cup {<<person, id>>}
        /\ UNCHANGED <<before, liveKeys, index>>

(* Mutant: the people of a request that cannot be read go with it.         *)
PeopleMoved_AskerOnly(person, spoilt) == {person}

(* Who is put on the request asked for: its asker, and everyone on the     *)
(* requests it replaces.                                                   *)
PeopleMoved(person, spoilt) == {person} \cup UNION {rows[id].people : id \in spoilt}

(* Joins the oldest live request that can be read, or makes one.  Those    *)
(* that cannot be read give up their people and their ids to it and go.    *)
(* One that had failed is retried.                                         *)
CreateRequest(person, keys) ==
    LET live  == LiveRequest(keys)
        spoilt == {id \in Matches(keys) : ~Readable(id)}
        moved == PeopleMoved(person, spoilt)
        older == {other \in Ids \ spoilt : Stored(other)}
    IN  \E id \in Ids :
          /\ IF live = None THEN ~Stored(id) ELSE id = live
          /\ rows' = [[other \in Ids |-> IF other \in spoilt THEN None ELSE rows[other]]
                EXCEPT ![id] = IF live = None
                    THEN [status |-> "working", people |-> moved, readable |-> TRUE]
                    ELSE [rows[id] EXCEPT !.people = @ \cup moved, !.status = "working"]]
          /\ before' = Without(spoilt) \cup IF live = None THEN older \X {id} ELSE {}
          /\ liveKeys' = [key \in Catalogue |->
                IF key \in keys /\ WithoutKeys(spoilt)[key] = None
                THEN id ELSE WithoutKeys(spoilt)[key]]
          /\ arrived' = WithoutArrived(spoilt)
          /\ index' = IF live = None THEN index \ {id} ELSE index
          /\ claims' = IF live = None THEN {pair \in claims : pair[2] # id} ELSE claims

(* A person at the limit only gets what they are already on.               *)
MayAsk(person, keys) ==
    \/ LiveRequest(keys) # None /\ person \in On(LiveRequest(keys))
    \/ LiveCount(person) < MaxLive

Ask(person, keys) ==
    IF ArrivedRequests(keys) # {}
    THEN JoinArrived(person, keys)
    ELSE MayAsk(person, keys) /\ CreateRequest(person, keys)

(* A person leaves.  The last one's leaving deletes the request.           *)
CancelRequest(id, person) ==
    /\ Readable(id) /\ person \in rows[id].people /\ rows[id].status # "inLibrary"
    /\ IF rows[id].people = {person}
       THEN DeleteRequest(id)
       ELSE /\ rows' = [rows EXCEPT ![id].people = @ \ {person}]
            /\ UNCHANGED <<before, liveKeys, arrived>>
    /\ UNCHANGED <<claims, index>>

----------------------------------------------------------------------------
(* What the job does                                                       *)

StepFails(id) ==
    /\ Readable(id) /\ rows[id].status = "working"
    /\ rows' = [rows EXCEPT ![id].status = "failed"]
    /\ UNCHANGED <<before, liveKeys, arrived, claims, index>>

RetryRequest(id) ==
    /\ Readable(id) /\ rows[id].status = "failed"
    /\ rows' = [rows EXCEPT ![id].status = "working"]
    /\ UNCHANGED <<before, liveKeys, arrived, claims, index>>

(* Mutant: only whoever made the request gets the claim.                   *)
Claimants_First(id) == {CHOOSE person \in rows[id].people : TRUE}

(* Whoever is on a request when it arrives.                                *)
Claimants(id) == rows[id].people

(* Mutant: what has arrived keeps its live ids.                            *)
KeysAfterArrival_Kept(id) == liveKeys

(* The trigger: what has arrived lets go of its ids, so a new ask does not *)
(* join it.                                                                *)
KeysAfterArrival(id) == WithoutKeys({id})

(* A request arrives and its item is claimed, in one transaction.          *)
Arrive(id) ==
    /\ Readable(id) /\ rows[id].status = "working" /\ id \in index
    /\ rows' = [rows EXCEPT ![id].status = "inLibrary"]
    /\ claims' = claims \cup (Claimants(id) \X {id})
    /\ arrived' = arrived \cup {<<key, id>> : key \in {k \in Catalogue : liveKeys[k] = id}}
    /\ liveKeys' = KeysAfterArrival(id)
    /\ UNCHANGED <<before, index>>

----------------------------------------------------------------------------
(* A stored row turns into one that no longer parses.                      *)
Spoil(id) ==
    /\ Readable(id)
    /\ rows' = [rows EXCEPT ![id].readable = FALSE]
    /\ UNCHANGED <<before, liveKeys, arrived, claims, index>>

(* The library gains the item of a request, or loses it.                   *)
IndexChanges(id) ==
    /\ Stored(id)
    /\ index' = IF id \in index THEN index \ {id} ELSE index \cup {id}
    /\ UNCHANGED <<rows, before, liveKeys, arrived, claims>>

Init ==
    /\ rows = [id \in Ids |-> None]
    /\ before = {}
    /\ liveKeys = [key \in Catalogue |-> None]
    /\ arrived = {}
    /\ claims = {}
    /\ index = {}

Next ==
    \/ \E person \in People, keys \in (SUBSET Catalogue) \ {{}} : Ask(person, keys)
    \/ \E id \in Ids :
          \/ \E person \in People : CancelRequest(id, person)
          \/ StepFails(id) \/ RetryRequest(id) \/ Arrive(id) \/ Spoil(id) \/ IndexChanges(id)

Spec == Init /\ [][Next]_vars
----------------------------------------------------------------------------
(* Ids find what they should: a live one a live request, an arrived one a  *)
(* request in the library, and every live request is found by one at       *)
(* least, so that asking again never makes it twice.                       *)
FoundByItsKeys ==
    /\ \A key \in Catalogue : liveKeys[key] # None =>
          Stored(liveKeys[key]) /\ rows[liveKeys[key]].status # "inLibrary"
    /\ \A pair \in arrived : Stored(pair[2]) /\ rows[pair[2]].status = "inLibrary"
    /\ \A id \in Ids : Stored(id) =>
          IF rows[id].status = "inLibrary"
          THEN \E key \in Catalogue : <<key, id>> \in arrived
          ELSE \E key \in Catalogue : liveKeys[key] = id

(* Everyone on a request that arrived has the claim, whenever and however  *)
(* they came to be on it.                                                  *)
ArrivedIsClaimed ==
    \A id \in Ids : Stored(id) /\ rows[id].status = "inLibrary" =>
        rows[id].people \X {id} \subseteq claims

(* A claim is made only for somebody on the request of an indexed item, so *)
(* not for one who left before it arrived.                                 *)
ClaimedByThoseOnIt ==
    [][\A pair \in claims' \ claims : pair[1] \in On(pair[2])' /\ pair[2] \in index]_vars

(* Nobody loses their place but by leaving: when a request goes that       *)
(* others were on, they are on another.                                    *)
PlacesAreKept ==
    [][\A id \in Ids : Stored(id) /\ rows'[id] = None =>
          \/ Cardinality(rows[id].people) = 1 /\ Readable(id)
          \/ \E other \in Ids : rows[id].people \subseteq On(other)']_vars

----------------------------------------------------------------------------
(* The inductive invariant                                                 *)

Rows == [status : {"working", "failed", "inLibrary"}, people : SUBSET People, readable : BOOLEAN]

ASSUME RowsAreSomething == None \notin Rows

TypeOK ==
    /\ rows \in [Ids -> Rows \cup {None}]
    /\ before \subseteq Ids \X Ids
    /\ liveKeys \in [Catalogue -> Ids \cup {None}]
    /\ arrived \subseteq Catalogue \X Ids
    /\ claims \subseteq People \X Ids
    /\ index \subseteq Ids

(* What an ask finds has one that was made first.                          *)
FirstOf(ids) == \E id \in ids : \A other \in ids : <<other, id>> \notin before

MadeInTurn ==
    /\ \A pair \in before : Stored(pair[1]) /\ Stored(pair[2])
    /\ \A ids \in SUBSET {id \in Ids : Stored(id)} : ids # {} => FirstOf(ids)

IInv == TypeOK /\ MadeInTurn /\ FoundByItsKeys /\ ArrivedIsClaimed
=============================================================================
