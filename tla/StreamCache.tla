------------------------------ MODULE StreamCache ------------------------------
(***************************************************************************)
(* The capped disk cache that streamed songs are played through            *)
(* (server/src/music/streamCache.ts).                                      *)
(*                                                                         *)
(* A client opens a track and takes its chunks in order, each from disk    *)
(* when its bit is set, else from the one fetch of it that all clients     *)
(* share, which keeps it on disk when there is room.  A client may leave   *)
(* at any await; what it awaited goes on without it.  A format stands for  *)
(* an itag with its size, and has a file of its own.  Left out: hosts,     *)
(* redirects and the second try inside one fetch, which answers or fails.  *)
(***************************************************************************)
EXTENDS Integers, FiniteSetsExt

CONSTANTS
    None,
    Tracks,
    Formats,
    Chunks,        \* chunk numbers
    Length,        \* the bytes of each chunk of each format
    CapBytes,
    Clients,       \* bound: opens under way at once, with those that left
    Writers,       \* bound: writes under way at once
    WritesFail     \* whether a write may fail, as on a full disk

ASSUME CacheConstants ==
    /\ None \notin Formats
    /\ Chunks \subseteq Nat
    /\ Length \in [Formats -> [Chunks -> Nat \ {0}]]
    /\ CapBytes \in Nat
    /\ WritesFail \in BOOLEAN

ASSUME CacheIsFinite == IsFiniteSet(Tracks) /\ IsFiniteSet(Chunks) /\ IsFiniteSet(Writers)

VARIABLES
    rows,      \* the stream_cache table, by track
    used,      \* pairs of tracks with a row, the one less recently used first
    files,     \* the chunks in a track's file of each format, None for no file
    clients,   \* each open
    flights,   \* the shared fetch of each chunk of each track
    writes,    \* the writes under way
    changed    \* tracks to start afresh once nobody plays them

vars == <<rows, used, files, clients, flights, writes, changed>>

(* A row has its format, the chunks it holds, their bytes by its count, and*)
(* whether it is pinned.  A client's pc is "naming" while it awaits the    *)
(* row, "reading" a held chunk, "waiting" on a fetch, "served" with its    *)
(* chunk; "leftNaming" and "leftReading" once it left and still awaits.  A *)
(* flight is asking or keeping.  A write opens its file, then lands in it; *)
(* it is `linked` while that file is the one at its path, `current` until  *)
(* its track is forgotten (the code compares counts), `shared` while its   *)
(* fetch can be joined.                                                    *)

Held(id) == rows[id] # None

NewRow(format) == [format |-> format, chunks |-> {}, bytes |-> 0, pinned |-> FALSE]

(* The opens that count as uses of a track.                                *)
Playing(c) == clients[c] # None /\ clients[c].pc \notin {"leftNaming", "leftReading"}

Players(id) == {c \in Clients : Playing(c) /\ clients[c].id = id}

Among(ids) == {pair \in used : pair[1] \in ids /\ pair[2] \in ids}

(* A track is used now: all others were before it.                         *)
Touched(id) ==
    Among(Tracks \ {id}) \cup ({other \in Tracks \ {id} : Held(other)} \X {id})

----------------------------------------------------------------------------
(* Forgetting                                                              *)

RowsWithout(ids) == [id \in Tracks |-> IF id \in ids THEN None ELSE rows[id]]

(* A track's row goes with the file of its format.                         *)
Forget(ids) ==
    /\ rows' = RowsWithout(ids)
    /\ used' = Among(Tracks \ ids)
    /\ files' = [id \in Tracks |-> IF id \in ids
                                   THEN [files[id] EXCEPT ![rows[id].format] = None]
                                   ELSE files[id]]

(* A write whose file goes with its track's row.                           *)
Unlinked(write) == [write EXCEPT !.linked = @ /\ write.format # rows[write.id].format]

(* Mutant: a write begun before its track was forgotten counts after.      *)
WritesAfter_Count(ids) ==
    [w \in Writers |->
        IF writes[w] # None /\ writes[w].id \in ids THEN Unlinked(writes[w]) ELSE writes[w]]

(* A write begun before its track was forgotten does not count after.      *)
WritesAfter(ids) ==
    [w \in Writers |->
        IF writes[w] # None /\ writes[w].id \in ids
        THEN [Unlinked(writes[w]) EXCEPT !.current = FALSE]
        ELSE writes[w]]

(* Mutant: a track that changed goes with the first to leave it.           *)
Outdated_AtOnce(id, leaving, marked) == {id} \cap marked

(* The track, when it is marked as changed and its last player leaves.     *)
Outdated(id, leaving, marked) == IF Players(id) \subseteq leaving THEN {id} \cap marked ELSE {}

(* Players leave a track; `marked` are the tracks to start afresh.         *)
Release(id, leaving, marked) ==
    LET gone == Outdated(id, leaving, marked)
    IN  /\ Forget(gone)
        /\ writes' = WritesAfter(gone)
        /\ changed' = marked \ gone

----------------------------------------------------------------------------
(* Room                                                                    *)

RowBytes(id) == IF Held(id) THEN rows[id].bytes ELSE 0

HeldBytes(ids) == SumFunctionOnSet([id \in Tracks |-> RowBytes(id)], ids)

WriteBytes(write) == IF write = None THEN 0 ELSE Length[write.format][write.n]

WritingBytes == SumFunctionOnSet([w \in Writers |-> WriteBytes(writes[w])], Writers)

(* What may be evicted.                                                    *)
Evictable == {id \in Tracks : Held(id) /\ ~rows[id].pinned /\ Players(id) = {}}

(* Mutant: bytes being written take no room.                               *)
Fits_HeldOnly(length, gone) == HeldBytes(Tracks \ gone) + length <= CapBytes

Fits(length, gone) == HeldBytes(Tracks \ gone) + WritingBytes + length <= CapBytes

(* What goes to make room: of the least recently used as few as will do,   *)
(* or all that may when even that will not.                                *)
Evicted(length) ==
    LET enough == {gone \in SUBSET Evictable :
            /\ \A pair \in used : pair[2] \in gone /\ pair[1] \in Evictable => pair[1] \in gone
            /\ Fits(length, gone)}
    IN  {id \in Evictable : \A gone \in enough : id \in gone}

----------------------------------------------------------------------------
(* Opening a track                                                         *)

Awaiting(pc, id, format, n) == [pc |-> pc, id |-> id, format |-> format, n |-> n]

Joined(flight, c, format) ==
    IF flight = None THEN [format |-> format, stage |-> "asking", waiters |-> {c}]
                     ELSE [flight EXCEPT !.waiters = @ \cup {c}]

(* A client joins the chunk's fetch, or begins it.                         *)
Join(c, id, format, n) ==
    /\ clients' = [clients EXCEPT ![c] = Awaiting("waiting", id, format, n)]
    /\ flights' = [flights EXCEPT ![id][n] = Joined(@, c, format)]

Chunk(c, id, row, n) ==
    IF n \in row.chunks
    THEN /\ clients' = [clients EXCEPT ![c] = Awaiting("reading", id, row.format, n)]
         /\ UNCHANGED flights
    ELSE Join(c, id, row.format, n)

Open(c, id, n) ==
    /\ clients[c] = None
    /\ IF Held(id)
       THEN Chunk(c, id, rows[id], n) /\ used' = Touched(id)
       ELSE /\ clients' = [clients EXCEPT ![c] = Awaiting("naming", id, None, n)]
            /\ UNCHANGED <<flights, used>>
    /\ UNCHANGED <<rows, files, writes, changed>>

(* The first resolve of a track says its format, unless another open has   *)
(* made the row meanwhile.  It does so with its client gone, too.          *)
Named(c, format) ==
    /\ clients[c] # None /\ clients[c].pc \in {"naming", "leftNaming"}
    /\ LET id  == clients[c].id
           row == IF Held(id) THEN rows[id] ELSE NewRow(format)
       IN  /\ rows' = [rows EXCEPT ![id] = row]
           /\ IF Playing(c)
              THEN Chunk(c, id, row, clients[c].n) /\ used' = Touched(id)
              ELSE /\ clients' = [clients EXCEPT ![c] = None]
                   /\ used' = IF Held(id) THEN used ELSE Touched(id)
                   /\ UNCHANGED flights
    /\ UNCHANGED <<files, writes, changed>>

NamingFails(c) ==
    /\ clients[c] # None /\ clients[c].pc \in {"naming", "leftNaming"}
    /\ Release(clients[c].id, {c}, changed)
    /\ clients' = [clients EXCEPT ![c] = None]
    /\ UNCHANGED flights

----------------------------------------------------------------------------
(* Reading a chunk that is held                                            *)

ReadAnswers(c) ==
    /\ clients[c] # None /\ clients[c].pc \in {"reading", "leftReading"}
    /\ clients' = [clients EXCEPT ![c] =
          IF Playing(c) THEN [@ EXCEPT !.pc = "served"] ELSE None]
    /\ UNCHANGED <<rows, used, files, flights, writes, changed>>

Cleared(row, n, length) == [row EXCEPT !.chunks = @ \ {n}, !.bytes = @ - length]

(* A read that fails or comes up short clears the bit of the row there is  *)
(* now, by the length it read for, and fetches the chunk.                  *)
ReadFails(c) ==
    /\ clients[c] # None /\ clients[c].pc \in {"reading", "leftReading"}
    /\ LET id == clients[c].id
           n  == clients[c].n
       IN  /\ rows' = IF Held(id) /\ n \in rows[id].chunks
                      THEN [rows EXCEPT ![id] = Cleared(@, n, Length[clients[c].format][n])]
                      ELSE rows
           /\ IF Playing(c)
              THEN Join(c, id, rows[id].format, n)
              ELSE clients' = [clients EXCEPT ![c] = None] /\ UNCHANGED flights
    /\ UNCHANGED <<used, files, writes, changed>>

----------------------------------------------------------------------------
(* The shared fetch                                                        *)

(* Those who waited have their chunk.                                      *)
Serve(waiters) ==
    clients' = [c \in Clients |->
        IF c \in waiters THEN [clients[c] EXCEPT !.pc = "served"] ELSE clients[c]]

Asking(id, n) == flights[id][n] # None /\ flights[id][n].stage = "asking"

(* The bytes are there, and room is made for them: the write begins.       *)
FetchKeeps(id, n, w) ==
    /\ Asking(id, n) /\ writes[w] = None
    /\ LET format == flights[id][n].format
           gone   == Evicted(Length[format][n])
       IN  /\ Fits(Length[format][n], gone)
           /\ Forget(gone)
           /\ writes' = [WritesAfter(gone) EXCEPT ![w] =
                 [id |-> id, format |-> format, n |-> n, stage |-> "opening",
                  linked |-> FALSE, current |-> TRUE, shared |-> TRUE]]
    /\ flights' = [flights EXCEPT ![id][n].stage = "keeping"]
    /\ UNCHANGED <<clients, changed>>

(* No room: what could go has gone, and the chunk is served, not kept.     *)
FetchServes(id, n) ==
    /\ Asking(id, n)
    /\ LET length == Length[flights[id][n].format][n]
           gone   == Evicted(length)
       IN  /\ ~Fits(length, gone)
           /\ Forget(gone)
           /\ writes' = WritesAfter(gone)
    /\ Serve(flights[id][n].waiters)
    /\ flights' = [flights EXCEPT ![id][n] = None]
    /\ UNCHANGED changed

(* The fetch fails, and everyone waiting on it with it; it may have found  *)
(* another format or size than the one held.                               *)
FetchFails(id, n) ==
    /\ Asking(id, n)
    /\ \E marked \in {changed, changed \cup {id}} : Release(id, flights[id][n].waiters, marked)
    /\ clients' = [c \in Clients |-> IF c \in flights[id][n].waiters THEN None ELSE clients[c]]
    /\ flights' = [flights EXCEPT ![id][n] = None]

(* What a write that ends does for those waiting on its fetch.             *)
Settles(w) ==
    LET write == writes[w]
    IN  IF write.shared
        THEN /\ Serve(flights[write.id][write.n].waiters)
             /\ flights' = [flights EXCEPT ![write.id][write.n] = None]
        ELSE UNCHANGED <<clients, flights>>

Opened(write) == IF files[write.id][write.format] = None THEN {} ELSE files[write.id][write.format]

WriteOpens(w) ==
    /\ writes[w] # None /\ writes[w].stage = "opening"
    /\ files' = [files EXCEPT ![writes[w].id][writes[w].format] = Opened(writes[w])]
    /\ writes' = [writes EXCEPT ![w].stage = "open", ![w].linked = TRUE]
    /\ UNCHANGED <<rows, used, clients, flights, changed>>

(* Mutant: a chunk that has its bit already is counted again.              *)
Uncounted_Any(write) == Held(write.id)

(* A chunk whose bit is to be set, and its bytes counted.                  *)
Uncounted(write) == Held(write.id) /\ write.n \notin rows[write.id].chunks

(* Mutant: what lands after its track was evicted is left there.           *)
Stray_Left(write) == FALSE

(* Whether a file belongs to no row that there is.                         *)
Stray(write) == ~Held(write.id) \/ rows[write.id].format # write.format

Counted(row, n, length) == [row EXCEPT !.chunks = @ \cup {n}, !.bytes = @ + length]

(* A write has landed.  One whose track was forgotten meanwhile sets no    *)
(* bit, and leaves no file but one the track's new row has.                *)
WriteLands(w) ==
    /\ writes[w] # None /\ writes[w].stage = "open"
    /\ LET write == writes[w]
           path  == <<write.id, write.format>>
           landed == IF write.linked
                     THEN [files EXCEPT ![write.id][write.format] = @ \cup {write.n}]
                     ELSE files
       IN  IF write.current
           THEN /\ files' = landed
                /\ IF Uncounted(write)
                   THEN /\ rows' = [rows EXCEPT ![write.id] =
                                     Counted(@, write.n, Length[write.format][write.n])]
                        /\ used' = Touched(write.id)
                   ELSE UNCHANGED <<rows, used>>
                /\ writes' = [writes EXCEPT ![w] = None]
           ELSE IF Stray(write)
           THEN /\ files' = [files EXCEPT ![write.id][write.format] = None]
                /\ writes' = [v \in Writers |->
                       IF v = w THEN None
                       ELSE IF writes[v] # None /\ <<writes[v].id, writes[v].format>> = path
                       THEN [writes[v] EXCEPT !.linked = FALSE]
                       ELSE writes[v]]
                /\ UNCHANGED <<rows, used>>
           ELSE /\ files' = landed
                /\ writes' = [writes EXCEPT ![w] = None]
                /\ UNCHANGED <<rows, used>>
    /\ Settles(w)
    /\ UNCHANGED changed

(* A write fails, which only costs the keeping.                            *)
WriteFails(w) ==
    /\ WritesFail /\ writes[w] # None
    /\ writes' = [writes EXCEPT ![w] = None]
    /\ Settles(w)
    /\ UNCHANGED <<rows, used, files, changed>>

----------------------------------------------------------------------------
(* The client                                                              *)

(* It takes the chunk after the one it has.                                *)
Pull(c) ==
    /\ clients[c] # None /\ clients[c].pc = "served" /\ clients[c].n + 1 \in Chunks
    /\ Chunk(c, clients[c].id, rows[clients[c].id], clients[c].n + 1)
    /\ UNCHANGED <<rows, used, files, writes, changed>>

(* Mutant: a fetch stops when anyone waiting on it leaves.                 *)
FlightLeft_Stopped(c) == None

(* What is left of the fetch a client waited on: none to join once the     *)
(* last has left.                                                          *)
FlightLeft(c) ==
    LET flight == flights[clients[c].id][clients[c].n]
        others == flight.waiters \ {c}
    IN  IF others = {} THEN None ELSE [flight EXCEPT !.waiters = others]

(* What is left of an open when its client leaves: what it still awaits.   *)
Left(client) ==
    IF client.pc \in {"naming", "reading"}
    THEN [client EXCEPT !.pc = IF @ = "naming" THEN "leftNaming" ELSE "leftReading"]
    ELSE None

(* A client leaves, or has all it asked for.  A fetch nobody waits on      *)
(* stops, but a write it has begun goes on.                                *)
Leave(c) ==
    /\ Playing(c)
    /\ LET id   == clients[c].id
           n    == clients[c].n
           gone == Outdated(id, {c}, changed)
       IN  /\ clients' = [clients EXCEPT ![c] = Left(@)]
           /\ flights' = IF clients[c].pc = "waiting"
                         THEN [flights EXCEPT ![id][n] = FlightLeft(c)]
                         ELSE flights
           /\ Forget(gone)
           /\ changed' = changed \ gone
           /\ writes' = [w \in Writers |->
                 IF writes[w] # None /\ <<writes[w].id, writes[w].n>> = <<id, n>>
                    /\ flights'[id][n] = None
                 THEN [WritesAfter(gone)[w] EXCEPT !.shared = FALSE]
                 ELSE WritesAfter(gone)[w]]

Pin(id) ==
    /\ Held(id)
    /\ \E pinned \in BOOLEAN : rows' = [rows EXCEPT ![id].pinned = pinned]
    /\ UNCHANGED <<used, files, clients, flights, writes, changed>>

----------------------------------------------------------------------------
(* The server restarts, and the cache is prepared: a file with no row      *)
(* goes, and so does a row with no file.                                   *)
Restart ==
    LET fileless == {id \in Tracks : Held(id) /\ files[id][rows[id].format] = None}
    IN  /\ rows' = RowsWithout(fileless)
        /\ used' = Among(Tracks \ fileless)
        /\ files' = [id \in Tracks |-> [f \in Formats |->
              IF Held(id) /\ rows[id].format = f THEN files[id][f] ELSE None]]
        /\ clients' = [c \in Clients |-> None]
        /\ flights' = [id \in Tracks |-> [n \in Chunks |-> None]]
        /\ writes' = [w \in Writers |-> None]
        /\ changed' = {}

Init ==
    /\ rows = [id \in Tracks |-> None]
    /\ used = {}
    /\ files = [id \in Tracks |-> [f \in Formats |-> None]]
    /\ clients = [c \in Clients |-> None]
    /\ flights = [id \in Tracks |-> [n \in Chunks |-> None]]
    /\ writes = [w \in Writers |-> None]
    /\ changed = {}

FetchEnds(id, n) ==
    FetchServes(id, n) \/ FetchFails(id, n) \/ \E w \in Writers : FetchKeeps(id, n, w)

WriteGoesOn(w) == WriteOpens(w) \/ WriteLands(w) \/ WriteFails(w)

Next ==
    \/ \E c \in Clients :
          \/ \E id \in Tracks, n \in Chunks : Open(c, id, n)
          \/ \E format \in Formats : Named(c, format)
          \/ NamingFails(c) \/ ReadAnswers(c) \/ ReadFails(c) \/ Pull(c) \/ Leave(c)
    \/ \E id \in Tracks, n \in Chunks : FetchEnds(id, n)
    \/ \E w \in Writers : WriteGoesOn(w)
    \/ \E id \in Tracks : Pin(id)
    \/ Restart

Spec == Init /\ [][Next]_vars

(* A fetch answers or passes its limit, and the disk answers.  Nothing is  *)
(* assumed of the clients.                                                 *)
FairSpec ==
    /\ Spec
    /\ \A id \in Tracks, n \in Chunks : WF_vars(FetchEnds(id, n))
    /\ \A w \in Writers : WF_vars(WriteGoesOn(w))
----------------------------------------------------------------------------
(* Held bytes, by the table's count, plus bytes being written never pass   *)
(* the cap, with writes, evictions and restarts in any order.              *)
CapHolds == HeldBytes(Tracks) + WritingBytes <= CapBytes

(* A set bit has its bytes in the file of its row's format, whatever       *)
(* writes are under way for rows that were evicted: nothing but a failing  *)
(* disk makes a held read come up short.                                   *)
BitHasBytes ==
    \A id \in Tracks : Held(id) =>
        \A n \in rows[id].chunks :
            files[id][rows[id].format] # None /\ n \in files[id][rows[id].format]

(* The row a client reads from stays, in the format it began with, until   *)
(* it leaves: what it plays is never stitched from two files, and `chunk`  *)
(* never throws `changed`.                                                 *)
RowStays ==
    \A c \in Clients : Playing(c) /\ clients[c].pc # "naming" =>
        Held(clients[c].id) /\ rows[clients[c].id].format = clients[c].format

(* A file the table does not count has a write under way that removes it.  *)
NoStrayFile ==
    \A id \in Tracks, f \in Formats : files[id][f] # None =>
        \/ Held(id) /\ rows[id].format = f
        \/ \E w \in Writers : writes[w] # None /\ writes[w].id = id /\ writes[w].format = f

(* `bytes` counts the set chunks, as the table's migration says.           *)
BytesAreCounted ==
    \A id \in Tracks : Held(id) =>
        rows[id].bytes = SumFunctionOnSet(Length[rows[id].format], rows[id].chunks)

(* A client that waits on a shared fetch is not left waiting, whoever else *)
(* joins it or leaves it.                                                  *)
ClientsAnswered ==
    \A c \in Clients :
        (clients[c] # None /\ clients[c].pc = "waiting")
            ~> ~(clients[c] # None /\ clients[c].pc = "waiting")
----------------------------------------------------------------------------
(* What a state is made of, and what every step keeps of it                *)

NamingPcs == {"naming", "leftNaming"}

CacheRow == [format : Formats, chunks : SUBSET Chunks, bytes : Int, pinned : BOOLEAN]
OpenClient ==
    {client \in [pc : {"naming", "reading", "waiting", "served", "leftNaming", "leftReading"},
                 id : Tracks, format : Formats \cup {None}, n : Chunks] :
        client.pc \notin NamingPcs => client.format \in Formats}
Flight == [format : Formats, stage : {"asking", "keeping"}, waiters : SUBSET Clients]
Write ==
    [id : Tracks, format : Formats, n : Chunks, stage : {"opening", "open"},
     linked : BOOLEAN, current : BOOLEAN, shared : BOOLEAN]

ASSUME StatesAreSomething ==
    /\ None \notin CacheRow /\ None \notin OpenClient /\ None \notin Flight /\ None \notin Write
    /\ \A held \in SUBSET Chunks : held # None

TypeOK ==
    /\ rows \in [Tracks -> CacheRow \cup {None}]
    /\ used \subseteq Tracks \X Tracks
    /\ files \in [Tracks -> [Formats -> (SUBSET Chunks) \cup {None}]]
    /\ clients \in [Clients -> OpenClient \cup {None}]
    /\ flights \in [Tracks -> [Chunks -> Flight \cup {None}]]
    /\ writes \in [Writers -> Write \cup {None}]
    /\ changed \subseteq Tracks

Flies(id, n) == flights[id][n] # None

Waits(c, id, n) ==
    clients[c] # None /\ clients[c].pc = "waiting" /\ clients[c].id = id /\ clients[c].n = n

(* Those who wait on a fetch are its waiters, and it is of their format.   *)
FlightsAwaited ==
    \A id \in Tracks, n \in Chunks :
        /\ Flies(id, n) => /\ flights[id][n].waiters # {}
                           /\ \A c \in flights[id][n].waiters :
                                 Waits(c, id, n) /\ clients[c].format = flights[id][n].format
        /\ \A c \in Clients : Waits(c, id, n) => Flies(id, n) /\ c \in flights[id][n].waiters

(* A shared write is of a fetch that is keeping, and is its only one.      *)
SharedFlies ==
    \A w \in Writers : writes[w] # None /\ writes[w].shared =>
        /\ Flies(writes[w].id, writes[w].n)
        /\ flights[writes[w].id][writes[w].n].stage = "keeping"
        /\ \A v \in Writers \ {w} : writes[v] # None /\ writes[v].shared =>
              writes[v].id # writes[w].id \/ writes[v].n # writes[w].n

(* A current write is of the row there is, into the file at its path.      *)
CurrentFits ==
    \A w \in Writers : writes[w] # None /\ writes[w].current =>
        /\ Held(writes[w].id) /\ rows[writes[w].id].format = writes[w].format
        /\ writes[w].stage = "open" => writes[w].linked

LinkedHasFile ==
    \A w \in Writers : writes[w] # None /\ writes[w].linked =>
        files[writes[w].id][writes[w].format] # None

WritesFit == CurrentFits /\ LinkedHasFile /\ BitHasBytes /\ (~WritesFail => NoStrayFile)

IInv == TypeOK /\ FlightsAwaited /\ RowStays /\ SharedFlies /\ WritesFit
=============================================================================
