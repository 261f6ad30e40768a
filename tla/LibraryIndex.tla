----------------------------- MODULE LibraryIndex -----------------------------
(***************************************************************************)
(* The index job (server/src/libraryIndex/job.ts): runs that mirror        *)
(* Audiobookshelf's and Jellyfin's libraries into the index tables         *)
(* (libraryIndex/store.ts), page by page, while the upstreams change, fail *)
(* or lose the process, and while an import indexes the one item it placed *)
(* (indexOneAbsItem).                                                      *)
(*                                                                         *)
(* An item's content is its change marker and the edits since that moved   *)
(* no marker.  A row stands for its children too: one answer is taken to   *)
(* give both, where Jellyfin gives an album's row and its tracks in two.   *)
(* An answer is used as it comes, but where an import's writes could come  *)
(* between: an item's own, which is read and then stored.                  *)
(***************************************************************************)
EXTENDS Integers, SequencesExt

CONSTANTS
    None,
    AbsLibraries,
    MusicLibraries,
    LibraryOf,      \* each item's library
    Shows,          \* the Audiobookshelf items that are shows
    Size,           \* items to a page
    RefreshAfter,   \* how many runs a full answer stays trusted
    MaxEvents       \* bound: changes upstream, crashes, and failed answers of an upstream not down

Items == DOMAIN LibraryOf
Libraries == AbsLibraries \cup MusicLibraries
Sources == {"abs", "jellyfin"}
LibrariesOf(source) == IF source = "abs" THEN AbsLibraries ELSE MusicLibraries
SourceOf(i) == IF LibraryOf[i] \in AbsLibraries THEN "abs" ELSE "jellyfin"

ASSUME IndexConstants ==
    /\ AbsLibraries \cap MusicLibraries = {}
    /\ \A i \in Items : LibraryOf[i] \in Libraries
    /\ \A i \in Shows : i \in Items /\ SourceOf(i) = "abs"
    /\ Size \in Nat \ {0} /\ RefreshAfter \in Nat \ {0}
    /\ IsFiniteSet(Items) /\ IsFiniteSet(Libraries)
    /\ None \notin {"read", "unknown"}

VARIABLES
    listed,     \* the libraries the upstreams list
    shelf,      \* each library's items, oldest added first
    content,    \* each item's change marker and its edits since
    rows,       \* index_items: the content each item was stored with, and a show's order
    sync,       \* index_sync: the marker an item was read at, and how many runs ago
    pass,       \* the run's pass over one source, or None between runs
    importing,  \* an item an import has read and is to store, or None
    down,       \* the sources whose upstream may fail for ever
    events

upstream == <<listed, shelf, content>>
vars == <<listed, shelf, content, rows, sync, pass, importing, down, events>>

Contents == [marker : Int, edits : Int]
IndexRows == [marker : Int, edits : Int, order : {None, "read", "unknown"}]
Passes ==
    [source : Sources, phase : {"libraries", "page", "items", "gone"},
     of : SUBSET Libraries, todo : Seq(Libraries), page : Nat, last : BOOLEAN,
     left : Seq([item : Items, marker : Int]), reading : Contents \cup {None},
     seen : SUBSET Items, unseen : SUBSET Items]

ASSUME RowsAreSomething == None \notin IndexRows

TypeOK ==
    /\ listed \subseteq Libraries
    /\ shelf \in [Libraries -> Seq(Items)]
    /\ content \in [Items -> Contents]
    /\ rows \in [Items -> IndexRows \cup {None}]
    /\ sync \in [Items -> [marker : Int, age : Int] \cup {None}]
    /\ pass \in Passes \cup {None}
    /\ importing \in [item : Items \ Shows, read : Contents] \cup {None}

OnShelf(i) == Contains(shelf[LibraryOf[i]], i)

Happens == events < MaxEvents /\ events' = events + 1

(* ------------------------------- Upstreams ------------------------------- *)
Changes ==
    /\ Happens
    /\ UNCHANGED <<rows, sync, pass, importing, down>>

Added(i) ==
    /\ Changes
    /\ content[i].marker = 0 /\ LibraryOf[i] \in listed
    /\ content' = [content EXCEPT ![i].marker = 1]
    /\ shelf' = [shelf EXCEPT ![LibraryOf[i]] = Append(@, i)]
    /\ UNCHANGED listed

Deleted(i) ==
    /\ Changes
    /\ \E n \in DOMAIN shelf[LibraryOf[i]] :
          /\ shelf[LibraryOf[i]][n] = i
          /\ shelf' = [shelf EXCEPT ![LibraryOf[i]] = RemoveAt(@, n)]
    /\ UNCHANGED <<listed, content>>

Edited(i) ==
    /\ Changes
    /\ OnShelf(i)
    /\ content' = [content EXCEPT ![i] = [marker |-> @.marker + 1, edits |-> 0]]
    /\ UNCHANGED <<listed, shelf>>

(* Audiobookshelf edits an episode without moving its show's marker.       *)
EpisodeEdited(i) ==
    /\ Changes
    /\ OnShelf(i) /\ i \in Shows
    /\ content' = [content EXCEPT ![i].edits = @ + 1]
    /\ UNCHANGED <<listed, shelf>>

LibraryGoes(l) ==
    /\ Changes
    /\ l \in listed
    /\ listed' = listed \ {l}
    /\ shelf' = [shelf EXCEPT ![l] = <<>>]
    /\ UNCHANGED content

(* ------------------------------ The tables ------------------------------- *)
(* A bug: an item is read again only when its marker moves.                 *)
Trusted_ByMarker(i, marker) == sync[i] # None /\ sync[i].marker = marker

(* A full answer is trusted while its marker stands still, for so long.    *)
Trusted(i, marker) ==
    sync[i] # None /\ sync[i].marker = marker /\ sync[i].age < RefreshAfter

Row(read, order) == [marker |-> read.marker, edits |-> read.edits, order |-> order]

MarkRead(i, marker) == sync' = [sync EXCEPT ![i] = [marker |-> marker, age |-> 0]]

(* A show's order: its feed's, else what the index holds, else unknown.    *)
Order(i, feedAnswers) ==
    IF i \notin Shows THEN None
    ELSE IF feedAnswers THEN "read"
    ELSE IF rows[i] # None THEN rows[i].order ELSE "unknown"

Removed(gone) ==
    /\ rows' = [i \in Items |-> IF i \in gone THEN None ELSE rows[i]]
    /\ sync' = [i \in Items |-> IF i \in gone THEN None ELSE sync[i]]

(* --------------------------------- A run --------------------------------- *)
(* A pass over a source: its libraries to go through, the page asked for,  *)
(* the items listed on it still to look at, those seen, and, at a          *)
(* library's end, those unseen.  Every full answer is then a run older.    *)
StartPass(source) ==
    /\ pass' = [source |-> source, phase |-> "libraries", of |-> {}, todo |-> <<>>,
                page |-> 0, last |-> FALSE, left |-> <<>>, reading |-> None,
                seen |-> {}, unseen |-> {}]
    /\ sync' = [i \in Items |->
          IF sync[i] = None \/ SourceOf(i) # source \/ sync[i].age = RefreshAfter THEN sync[i]
          ELSE [sync[i] EXCEPT !.age = @ + 1]]

(* A source done with, or failed, leaves the other to run.                 *)
SourceOver ==
    IF pass.source = "abs" THEN StartPass("jellyfin") ELSE pass' = None /\ UNCHANGED sync

RunStarts ==
    /\ pass = None
    /\ StartPass("abs")
    /\ UNCHANGED <<upstream, rows, importing, down, events>>

(* No library listed is more likely a fault than every one gone.           *)
LibrariesListed(answer) ==
    /\ pass # None /\ pass.phase = "libraries"
    /\ \/ answer = listed \cap LibrariesOf(pass.source) /\ UNCHANGED events
       \/ answer = {} /\ Happens
    /\ IF answer = {} THEN SourceOver
       ELSE /\ pass' = [pass EXCEPT !.phase = "page", !.of = answer, !.todo = SetToSeq(answer)]
            /\ UNCHANGED sync
    /\ UNCHANGED <<upstream, rows, importing, down>>

PageListed ==
    /\ pass # None /\ pass.phase = "page"
    /\ LET all == shelf[Head(pass.todo)]
           on  == SubSeq(all, pass.page * Size + 1,
                         IF Len(all) < (pass.page + 1) * Size THEN Len(all) ELSE (pass.page + 1) * Size)
       IN  pass' = [pass EXCEPT
              !.phase = "items",
              !.left = [n \in DOMAIN on |-> [item |-> on[n], marker |-> content[on[n]].marker]],
              !.seen = @ \cup ToSet(on),
              !.last = on = <<>> \/ (pass.page + 1) * Size >= Len(all)]
    /\ UNCHANGED <<upstream, rows, sync, importing, down, events>>

InItems == pass # None /\ pass.phase = "items"
NextStale == InItems /\ pass.left # <<>> /\ pass.reading = None
             /\ ~Trusted(Head(pass.left).item, Head(pass.left).marker)

PassOver ==
    /\ InItems /\ pass.left # <<>> /\ ~NextStale /\ pass.reading = None
    /\ pass' = [pass EXCEPT !.left = Tail(@)]
    /\ UNCHANGED <<upstream, rows, sync, importing, down, events>>

(* Audiobookshelf fails the pass for an item gone since it was listed;     *)
(* Jellyfin answers that an album gone has no tracks.                      *)
ReadItem ==
    /\ NextStale
    /\ LET i == Head(pass.left).item
       IN  IF OnShelf(i) \/ pass.source = "jellyfin"
           THEN /\ pass' = [pass EXCEPT !.reading =
                      IF OnShelf(i) THEN content[i] ELSE [content[i] EXCEPT !.edits = -1]]
                /\ UNCHANGED sync
           ELSE SourceOver
    /\ UNCHANGED <<upstream, rows, importing, down, events>>

(* A show's feed may fail.  An order still unknown leaves the item unread. *)
StoreItem(feedAnswers) ==
    /\ InItems /\ pass.reading # None
    /\ LET i == Head(pass.left).item
       IN  /\ \/ feedAnswers /\ UNCHANGED events
              \/ ~feedAnswers /\ i \in Shows /\ Happens
           /\ rows' = [rows EXCEPT ![i] = Row(pass.reading, Order(i, feedAnswers))]
           /\ IF Order(i, feedAnswers) = "unknown" THEN UNCHANGED sync
              ELSE MarkRead(i, Head(pass.left).marker)
    /\ pass' = [pass EXCEPT !.left = Tail(@), !.reading = None]
    /\ UNCHANGED <<upstream, importing, down>>

Unseen == {i \in Items : LibraryOf[i] = Head(pass.todo) /\ rows[i] # None /\ i \notin pass.seen}

PageEnds ==
    /\ InItems /\ pass.left = <<>>
    /\ pass' = IF pass.last THEN [pass EXCEPT !.phase = "gone", !.unseen = Unseen]
               ELSE [pass EXCEPT !.phase = "page", !.page = @ + 1]
    /\ UNCHANGED <<upstream, rows, sync, importing, down, events>>

(* A bug: an item the pass did not see is gone.                             *)
Confirmed_Unasked(i) == {i}

(* An unseen item is asked after, and removed only if gone.                *)
Confirmed(i) == {i} \ {j \in Items : OnShelf(j)}

AskIfGone ==
    /\ pass # None /\ pass.phase = "gone"
    /\ \E i \in pass.unseen :
          /\ Removed(Confirmed(i))
          /\ pass' = [pass EXCEPT !.unseen = @ \ {i}]
    /\ UNCHANGED <<upstream, importing, down, events>>

(* Jellyfin's pass over, what sits in no library it lists is removed.      *)
Outside == {i \in Items : SourceOf(i) = "jellyfin" /\ LibraryOf[i] \notin pass.of}

LibraryEnds ==
    /\ pass # None /\ pass.phase = "gone" /\ pass.unseen = {}
    /\ IF Len(pass.todo) > 1
       THEN /\ pass' = [pass EXCEPT !.phase = "page", !.todo = Tail(@), !.page = 0, !.seen = {}]
            /\ UNCHANGED <<rows, sync>>
       ELSE IF pass.source = "jellyfin" THEN Removed(Outside) /\ pass' = None
       ELSE SourceOver /\ UNCHANGED rows
    /\ UNCHANGED <<upstream, importing, down, events>>

(* An upstream fails where its answer is awaited: what is stored stays.    *)
Awaiting ==
    /\ pass # None
    /\ \/ pass.phase \in {"libraries", "page"}
       \/ pass.phase = "gone" /\ pass.unseen # {}
       \/ NextStale

UpstreamFails ==
    /\ Awaiting
    /\ \/ pass.source \in down /\ UNCHANGED events
       \/ Happens
    /\ SourceOver
    /\ UNCHANGED <<upstream, rows, importing, down>>

(* ------------------------------- An import ------------------------------- *)
ImportReads(i) ==
    /\ importing = None
    /\ SourceOf(i) = "abs" /\ i \notin Shows /\ OnShelf(i)
    /\ importing' = [item |-> i, read |-> content[i]]
    /\ UNCHANGED <<upstream, rows, sync, pass, down, events>>

(* A bug: an import marks its item with the marker it has by then.          *)
ImportMarker_Now == content[importing.item].marker

ImportMarker == importing.read.marker

ImportStores ==
    /\ importing # None
    /\ rows' = [rows EXCEPT ![importing.item] = Row(importing.read, None)]
    /\ sync' = [sync EXCEPT ![importing.item] = [marker |-> ImportMarker, age |-> 0]]
    /\ importing' = None
    /\ UNCHANGED <<upstream, pass, down, events>>

(* -------------------------------- A crash -------------------------------- *)
(* An item is stored and marked read in a transaction each.                *)
Crash(stored) ==
    /\ Happens
    /\ IF stored THEN /\ InItems /\ pass.reading # None
                      /\ rows' = [rows EXCEPT ![Head(pass.left).item] =
                            Row(pass.reading, Order(Head(pass.left).item, TRUE))]
       ELSE UNCHANGED rows
    /\ pass' = None /\ importing' = None
    /\ UNCHANGED <<upstream, sync, down>>

(* One upstream starts empty.                                             *)
Init ==
    /\ listed = Libraries
    /\ \E source \in Sources : LET there == {i \in Items : SourceOf(i) = source} IN
          /\ shelf = [l \in Libraries |-> SetToSeq({i \in there : LibraryOf[i] = l})]
          /\ content = [i \in Items |-> [marker |-> IF i \in there THEN 1 ELSE 0, edits |-> 0]]
    /\ rows = [i \in Items |-> None]
    /\ sync = [i \in Items |-> None]
    /\ pass = None /\ importing = None
    /\ down \in SUBSET Sources
    /\ events = 0

RunStep ==
    \/ RunStarts \/ (\E answer \in SUBSET Libraries : LibrariesListed(answer))
    \/ PageListed \/ PassOver \/ ReadItem \/ (\E feedAnswers \in BOOLEAN : StoreItem(feedAnswers))
    \/ PageEnds \/ AskIfGone \/ LibraryEnds \/ UpstreamFails

Next ==
    \/ \E i \in Items : Added(i) \/ Deleted(i) \/ Edited(i) \/ EpisodeEdited(i) \/ ImportReads(i)
    \/ \E l \in Libraries : LibraryGoes(l)
    \/ RunStep \/ ImportStores
    \/ \E stored \in BOOLEAN : Crash(stored)

Spec == Init /\ [][Next]_vars

(* The timer starts the runs, and every upstream answers or fails in time. *)
FairSpec == Spec /\ WF_vars(RunStep) /\ WF_vars(ImportStores)

(* ------------------------------ Properties ------------------------------- *)
(* No item still on its shelf loses its row: neither one a deletion moved  *)
(* past the pages, nor one of an upstream that failed.                     *)
WhatIsThereStays ==
    [][\A i \in Items : rows[i] # None /\ OnShelf(i) => rows'[i] # None]_vars

(* What an item is marked read at, its row was stored with, or with newer. *)
Marked == \A i \in Items : sync[i] # None => rows[i] # None /\ rows[i].marker >= sync[i].marker

(* Whichever of a pass and an import reads an item first and stores it     *)
(* last, no mark is newer than its row: only a crash between storing and   *)
(* marking leaves that.                                                    *)
MarkedWasRead == [][Marked => Marked' \/ \E stored \in BOOLEAN : Crash(stored)]_vars

(* A source's rows are its items as they are, each show in its feed's      *)
(* order.  The rows of an Audiobookshelf library no longer listed stay, as *)
(* do all of Jellyfin's once it lists no music library.                    *)
Mirrored(source) ==
    \A i \in Items : SourceOf(i) = source =>
        \/ rows[i] = IF OnShelf(i) THEN Row(content[i], Order(i, TRUE)) ELSE None
        \/ source = "abs" /\ LibraryOf[i] \notin listed
        \/ source = "jellyfin" /\ MusicLibraries \cap listed = {}

(* Once an upstream stands still and answers, its libraries are mirrored,  *)
(* whatever the other does.                                                *)
SourceMirrored == \A source \in Sources : <>[](source \in down \/ Mirrored(source))

(* ------------------------ The inductive invariant ------------------------ *)
(* A library no longer listed answers no item, and a pass that lists       *)
(* Jellyfin's libraries goes through all that are listed since.            *)
UnlistedIsEmpty == \A l \in Libraries \ listed : shelf[l] = <<>>

PassCovers ==
    pass # None /\ pass.phase # "libraries" =>
        /\ pass.todo # <<>>
        /\ pass.source = "jellyfin" => listed \cap MusicLibraries \subseteq pass.of

(* What a pass listed is no newer than the item by now, and what it read   *)
(* of the item at hand no older than what it listed.                       *)
ListedBefore ==
    pass # None =>
        /\ \A n \in DOMAIN pass.left : pass.left[n].marker <= content[pass.left[n].item].marker
        /\ pass.reading # None =>
              /\ pass.phase = "items" /\ pass.left # <<>>
              /\ Head(pass.left).marker <= pass.reading.marker

(* A show whose order is unknown is not marked read.                       *)
UnknownUnread ==
    \A i \in Shows : rows[i] = None \/ rows[i].order = "unknown" => sync[i] = None

IInv == TypeOK /\ UnlistedIsEmpty /\ PassCovers /\ ListedBefore /\ UnknownUnread
=============================================================================
