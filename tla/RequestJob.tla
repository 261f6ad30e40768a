------------------------------ MODULE RequestJob ------------------------------
(***************************************************************************)
(* The advance job and what a person does to a request                     *)
(* (server/src/requests/job.ts, server/src/store/requests.ts and           *)
(* server/src/routes/requests.ts), over the turns of one medium.           *)
(*                                                                         *)
(* The server is one Node process, so what runs between two awaits is one  *)
(* action.  The job is one process: it holds the row it read (`job.snap`)  *)
(* across every await, while people's taps and the client move on.         *)
(*                                                                         *)
(* Left out, and modelled in DownloadClock: the clocks that decide a       *)
(* stall, a hold and `notIndexed`.  Here each may have run out or not.     *)
(***************************************************************************)
EXTENDS DownloadTurns

CONSTANTS
    Medium,          \* the medium of every request
    People,          \* who can be on a request
    Versions,        \* stand-ins for a row's save count, told apart only
    FirstVersion,    \* the version of a row that no one has to tell apart
    MaxAutoStarts,   \* MAX_AUTO_STARTS
    MaxCrashes       \* bound: how often the server restarts

ASSUME JobConstants ==
    /\ Medium \in {"book", "album", "song"}
    /\ FirstVersion \in Versions
    /\ \A a, b \in Versions : \E c \in Versions : c # a /\ c # b
    /\ MaxAutoStarts \in Nat /\ MaxCrashes \in Nat
    /\ None \notin People

VARIABLES
    rows,         \* the requests table: a row for each id, or None
    unreadable,   \* what the rows in it hold that can no longer be read
    job,          \* the advance job: where it waits, what is left, what it read
    asked,        \* history: keys whose download somebody asked to drop
    left,         \* history: keys whose download was left to the client with its row
    crashes       \* how often the server restarted

rowsLost == <<unreadable, left>>
vars == <<turnVars, rows, job, asked, crashes, rowsLost>>

Handles == [hash : Releases, key : Keys]

(* What a drop names: a handle, or a key alone.                            *)
Targets == [hash : Releases \cup {None}, key : Keys]

Rows ==
    [status     : Statuses,
     failedStep : WorkingStatuses \cup {None},
     reason     : Reasons \cup {None},
     release    : Releases \cup {None},
     candidates : SUBSET Releases,
     handle     : Handles \cup {None},
     stepKey    : Keys \cup {None},
     result     : Releases \cup {None},
     autoStarts : Nat,
     version    : Versions,
     people     : SUBSET People]

(* Where a request can stand.                                              *)
States ==
    [status : Statuses, failedStep : WorkingStatuses \cup {None}, reason : Reasons \cup {None}]

(* No row is null, nor where one stands, nor what a drop names.            *)
ASSUME RowsAreSomething == None \notin Rows /\ None \notin States /\ None \notin Targets

Jobs ==
    [pc   : {"idle", "run", "search", "start", "poll", "import", "dropLost", "dropStalled"},
     todo : SUBSET Ids,
     id   : Ids \cup {None},
     snap : Rows \cup {None}]

Idle == [pc |-> "idle", todo |-> {}, id |-> None, snap |-> None]

----------------------------------------------------------------------------
(* The store                                                               *)

Live(id) == rows[id] # None

(* The statuses the job's run lists.                                       *)
Working(row) == row.status \notin {"inLibrary", "failed"}

StateOf(row) == [status |-> row.status, failedStep |-> row.failedStep, reason |-> row.reason]

(* A row taken to where an event leads.                                    *)
After(row, event) ==
    LET state == NextState(Medium, StateOf(row), event)
    IN  [row EXCEPT !.status = state.status,
                    !.failedStep = state.failedStep,
                    !.reason = state.reason]

Takes(row, event) == Allowed(Medium, StateOf(row), event)

(* A row's next version.  The code counts saves; only the job, across a    *)
(* wait, compares with the count it read, so only then is a save told from *)
(* the one read and the one before it.                                     *)
NextVersion(id) ==
    IF job.id = id
    THEN CHOOSE v \in Versions : v # rows[id].version /\ v # job.snap.version
    ELSE FirstVersion

Saved(id, row) == [row EXCEPT !.version = NextVersion(id)]

Save(id, row) == rows' = [rows EXCEPT ![id] = Saved(id, row)]

NewRow(people) ==
    [status |-> "requested", failedStep |-> None, reason |-> None, release |-> None,
     candidates |-> {}, handle |-> None, stepKey |-> None, result |-> None,
     autoStarts |-> 0, version |-> FirstVersion, people |-> people]

(* The keys anything still names.  A new one is none of them; the least is *)
(* as good as any, a UUID telling nothing but itself.                      *)
KeysNamed ==
    {rows[id].stepKey : id \in {i \in Ids : Live(i)}}
      \cup {rows[id].handle.key : id \in {i \in Ids : Live(i) /\ rows[i].handle # None}}
      \cup {call.key : call \in late \cup {turn[i] : i \in DOMAIN turn}}
      \cup {torrents[h] : h \in Releases}
      \cup UNION {row.keys : row \in unreadable}

(* Mutant: every attempt goes by the same key.                             *)
NewKey_Constant(key) == key = 1

NewKey(key) ==
    /\ key \in Keys \ KeysNamed
    /\ \A other \in Keys \ KeysNamed : key <= other

----------------------------------------------------------------------------
(* Dropping a download                                                     *)

AtImport(row) ==
    row.status = "importing" \/ (row.status = "failed" /\ row.failedStep = "importing")

(* A row counts on a key while its handle, or its unanswered start, names  *)
(* it.                                                                     *)
CountsOn(row, key) ==
    \/ row.handle # None /\ row.handle.key = key
    \/ ~AtImport(row) /\ row.stepKey = key

(* What a row no code can read still holds: its people, the keys it counts *)
(* on, and, until it has arrived, the ids an ask finds it by.              *)
Lost == [people : SUBSET People, keys : SUBSET Keys, arrived : BOOLEAN]

Unread(row) ==
    [people |-> row.people, keys |-> {key \in Keys : CountsOn(row, key)},
     arrived |-> row.status = "inLibrary"]

(* Mutant: a start whose answer was lost is not dropped by its key.        *)
DropTarget_HandleOnly(row) == row.handle

(* A key kept at a download step names what a start whose answer was never *)
(* saved has made; otherwise the handle does.                              *)
DropTarget(row) ==
    IF ~AtImport(row) /\ row.stepKey # None /\ row.release # None
    THEN [key |-> row.stepKey, hash |-> None]
    ELSE row.handle

(* Takes a cancel's turn at once; none to take when nothing is named.      *)
AskDrop(id, target, by, pick) ==
    IF target = None
    THEN UNCHANGED <<turn, asked>>
    ELSE /\ turn' = Append(turn, CancelCall(id, target, by, pick))
         /\ asked' = asked \cup {target.key}

RoomInTurn == Len(turn) < MaxTurn

(* The other releases a failed request can go on to.                       *)
OtherReleases(row) ==
    IF Takes(row, PickAnother) THEN row.candidates \ {row.release} ELSE {}

(* Mutants: the handle, or what an import named, outlives its release.     *)
BackToChoice_KeepsHandle(row) ==
    [After(row, PickAnother) EXCEPT !.candidates = OtherReleases(row),
                                    !.release = None, !.stepKey = None, !.result = None]

BackToChoice_KeepsResult(row) ==
    [After(row, PickAnother) EXCEPT !.candidates = OtherReleases(row),
                                    !.release = None, !.handle = None, !.stepKey = None]

(* Back to the choice, keeping nothing of the release that failed.         *)
BackToChoice(row) ==
    [After(row, PickAnother) EXCEPT !.candidates = OtherReleases(row),
                                    !.release = None, !.handle = None,
                                    !.stepKey = None, !.result = None]

(* Mutant: a choice is taken wherever the request stands.                  *)
Choosable_Anywhere(id, release) ==
    Live(id) /\ release \in rows[id].candidates

(* A choice of a release that is offered, once the row takes one.          *)
Choosable(id, release) ==
    Live(id) /\ Takes(rows[id], Chose) /\ release \in rows[id].candidates

WithChoice(row, release, autoStarts) ==
    [After(row, Chose) EXCEPT !.release = release, !.autoStarts = autoStarts]

----------------------------------------------------------------------------
(* What a person does                                                      *)

(* Rows of the same thing that cannot be read give way to an ask, as       *)
(* nothing can ever move them: they are deleted, and a download one had is *)
(* left to its client.                                                     *)
GiveWay(replaced) ==
    /\ unreadable' = unreadable \ replaced
    /\ left' = left \cup UNION {row.keys : row \in replaced}

(* What may give way.  What has arrived is not found by an ask.            *)
MayGiveWay == {row \in unreadable : ~row.arrived}

(* Everyone on what gave way is on the request asked for.                  *)
Asking(person, replaced) == {person} \cup UNION {row.people : row \in replaced}

(* A new request, under an id nothing has named before.                    *)
Create(id, person, replaced) ==
    /\ ~Live(id)
    /\ id \notin job.todo \cup {job.id}
    /\ \A i \in DOMAIN turn : turn[i].id # id
    /\ \A call \in late : call.id # id
    /\ rows' = [rows EXCEPT ![id] = NewRow(Asking(person, replaced))]
    /\ GiveWay(replaced)
    /\ UNCHANGED <<turnVars, job, asked, crashes>>

(* The row a retry saves, and the download it drops.  One that stalled is  *)
(* still in the client and is followed again.                              *)
Restarts(row) == row.failedStep \in {"queued", "downloading"}

FollowsAgain(row) == Restarts(row) /\ row.reason = "downloadStalled" /\ row.handle # None

(* Mutant: a restarted download keeps the old handle.                      *)
Retried_KeepsHandle(row) == After(row, Retry)

Retried(row) ==
    IF FollowsAgain(row) \/ ~Restarts(row)
    THEN After(row, Retry)
    ELSE [After(row, Retry) EXCEPT !.handle = None]

(* Mutant: a restarted download leaves the old one.                        *)
RetryDrops_Nothing(row) == None

RetryDrops(row) == IF Restarts(row) /\ ~FollowsAgain(row) THEN row.handle ELSE None

RetryRequest(id) ==
    /\ Live(id) /\ Takes(rows[id], Retry) /\ RoomInTurn
    /\ Save(id, Retried(rows[id]))
    /\ AskDrop(id, RetryDrops(rows[id]), "person", None)
    /\ UNCHANGED <<torrents, late, job, crashes, rowsLost>>

(* A person asks for the same thing: they are on the request, and one that *)
(* failed is retried.                                                      *)
Join(id, person, replaced) ==
    /\ Live(id) /\ rows[id].status # "inLibrary"
    /\ RoomInTurn
    /\ LET joined == [rows[id] EXCEPT !.people = @ \cup Asking(person, replaced)]
       IN  IF joined.status = "failed"
           THEN /\ Save(id, Retried(joined))
                /\ AskDrop(id, RetryDrops(joined), "person", None)
           ELSE /\ rows' = [rows EXCEPT ![id] = joined]
                /\ UNCHANGED <<turn, asked>>
    /\ GiveWay(replaced)
    /\ UNCHANGED <<torrents, late, job, crashes>>

(* A person picks a candidate the request waits for a choice of.           *)
ChooseRelease(id, release) ==
    /\ Choosable(id, release)
    /\ Save(id, WithChoice(rows[id], release, rows[id].autoStarts))
    /\ UNCHANGED <<turnVars, job, asked, crashes, rowsLost>>

(* One tap on another release from a failed row: back to the choice, the   *)
(* old download dropped, and the choice once that has answered.            *)
ChooseAnother(id, release) ==
    /\ Live(id) /\ rows[id].status = "failed" /\ release \in OtherReleases(rows[id])
    /\ RoomInTurn
    /\ LET row == rows[id]
       IN  /\ Save(id, IF DropTarget(row) = None
                       THEN WithChoice(BackToChoice(row), release, row.autoStarts)
                       ELSE BackToChoice(row))
           /\ AskDrop(id, DropTarget(row), "person", release)
    /\ UNCHANGED <<torrents, late, job, crashes, rowsLost>>

(* Mutant: what has arrived can be cancelled too.                          *)
CancelRequest_Anywhere(id, person) ==
    /\ Live(id) /\ person \in rows[id].people /\ RoomInTurn
    /\ rows' = [rows EXCEPT ![id] = None]
    /\ AskDrop(id, DropTarget(rows[id]), "person", None)
    /\ UNCHANGED <<torrents, late, job, crashes, rowsLost>>

(* A person leaves.  The last to leave deletes the request and asks to     *)
(* drop its download.                                                      *)
CancelRequest(id, person) ==
    /\ Live(id) /\ rows[id].status # "inLibrary" /\ person \in rows[id].people
    /\ RoomInTurn
    /\ IF rows[id].people # {person}
       THEN /\ rows' = [rows EXCEPT ![id].people = @ \ {person}]
            /\ UNCHANGED <<turn, asked>>
       ELSE /\ rows' = [rows EXCEPT ![id] = None]
            /\ AskDrop(id, DropTarget(rows[id]), "person", None)
    /\ UNCHANGED <<torrents, late, job, crashes, rowsLost>>

(* A person's drop answers, is refused or passes its limit: the same to    *)
(* its asker, who makes the choice it was for if the row still takes it.   *)
PersonDropEnds ==
    /\ turn # <<>> /\ SentCall.kind = "cancel" /\ SentCall.by = "person"
    /\ \/ Sent("done") /\ UNCHANGED late
       \/ Unanswered
    /\ turn' = NextInTurn
    /\ LET id == SentCall.id
       IN  IF SentCall.pick # None /\ Choosable(id, SentCall.pick)
           THEN Save(id, WithChoice(rows[id], SentCall.pick, rows[id].autoStarts))
           ELSE UNCHANGED rows
    /\ UNCHANGED <<torrents, job, asked, crashes, rowsLost>>

----------------------------------------------------------------------------
(* The advance job                                                         *)

(* Where the job goes once a request's step is over.                       *)
StepOver == [job EXCEPT !.pc = "run", !.id = None, !.snap = None]

(* Whether the row is still at the version the job read.                   *)
Current == Live(job.id) /\ rows[job.id].version = job.snap.version

(* A save naming the version the job read, which loses to a newer one.     *)
SaveIfCurrent(row) == IF Current THEN Save(job.id, row) ELSE UNCHANGED rows

(* A step moved its request by an event, with what else it keeps in `row`. *)
Apply(row, event) == SaveIfCurrent(After(row, event))

MyRow == rows[job.id]

(* recordThrown: by status alone, on the row as it now is.                 *)
RecordThrown ==
    IF Live(job.id) /\ MyRow.status = job.snap.status
    THEN Save(job.id, After(MyRow, Failed("other")))
    ELSE UNCHANGED rows

(* A step that throws fails its request.  One held by an upstream it could *)
(* not reach stays where it stands, unless that has lasted too long.       *)
StepThrows == RecordThrown \/ UNCHANGED rows

(* A run lists every working request.                                      *)
BeginRun ==
    /\ job.pc = "idle"
    /\ job' = [Idle EXCEPT !.pc = "run", !.todo = {id \in Ids : Live(id) /\ Working(rows[id])}]
    /\ UNCHANGED <<turnVars, rows, asked, crashes, rowsLost>>

EndRun ==
    /\ job.pc = "run" /\ job.todo = {}
    /\ job' = Idle
    /\ UNCHANGED <<turnVars, rows, asked, crashes, rowsLost>>

Turning(id) == job.pc = "run" /\ id \in job.todo

(* The job with the row it read, waiting at a step.                        *)
Waits(pc, id, row) == [pc |-> pc, todo |-> job.todo \ {id}, id |-> id, snap |-> row]

(* Reads a request again: it is gone, or stands where no step moves it, or *)
(* its import has been answered and the index still has not found it.      *)
PassOver(id) ==
    /\ Turning(id)
    /\ Live(id) => \/ rows[id].status \in {"needsChoice", "inLibrary", "failed"}
                   \/ rows[id].status = "importing" /\ rows[id].result # None
    /\ job' = [job EXCEPT !.todo = @ \ {id}]
    /\ UNCHANGED <<turnVars, rows, asked, crashes, rowsLost>>

StepFrom(id, status) == Turning(id) /\ Live(id) /\ rows[id].status = status

BeginSearching(id) ==
    /\ StepFrom(id, "requested")
    /\ Save(id, After(rows[id], Moved("searching")))
    /\ job' = [job EXCEPT !.todo = @ \ {id}]
    /\ UNCHANGED <<turnVars, asked, crashes, rowsLost>>

AskSearch(id) ==
    /\ StepFrom(id, "searching")
    /\ job' = Waits("search", id, rows[id])
    /\ UNCHANGED <<turnVars, rows, asked, crashes, rowsLost>>

(* What an import named: the index has found it, or not in time.           *)
IndexAnswers(id) ==
    /\ StepFrom(id, "importing") /\ rows[id].result # None
    /\ \/ Save(id, After(rows[id], Moved("inLibrary")))
       \/ Save(id, After(rows[id], Failed("other")))
    /\ job' = [job EXCEPT !.todo = @ \ {id}]
    /\ UNCHANGED <<turnVars, asked, crashes, rowsLost>>

(* The row with the key of its next step saved on it, reusing one that is  *)
(* there already.                                                          *)
Keyed(id, key) ==
    IF rows[id].stepKey = None
    THEN /\ NewKey(key) /\ Save(id, [rows[id] EXCEPT !.stepKey = key])
         /\ asked' = asked \ {key} /\ left' = left \ {key}
    ELSE key = rows[id].stepKey /\ UNCHANGED <<rows, asked, left>>

AskStart(id, key) ==
    /\ Turning(id) /\ Live(id)
    /\ rows[id].status \in {"queued", "downloading"} /\ rows[id].handle = None
    /\ Keyed(id, key)
    /\ turn' = Append(turn, StartCall(id, rows[id].release, key))
    /\ job' = Waits("start", id, rows'[id])
    /\ UNCHANGED <<torrents, late, crashes, unreadable>>

AskPoll(id) ==
    /\ Turning(id) /\ Live(id)
    /\ rows[id].status \in {"queued", "downloading"} /\ rows[id].handle # None
    /\ job' = Waits("poll", id, rows[id])
    /\ UNCHANGED <<turnVars, rows, asked, crashes, rowsLost>>

AskImport(id, key) ==
    /\ StepFrom(id, "importing") /\ rows[id].result = None
    /\ Keyed(id, key)
    /\ job' = Waits("import", id, rows'[id])
    /\ UNCHANGED <<turnVars, crashes, unreadable>>

Waiting(pc) == job.pc = pc

(* A search picks a release keeping the others, offers a choice, or finds  *)
(* none.                                                                   *)
SearchAnswers ==
    /\ Waiting("search")
    /\ \/ \E release \in Releases, others \in SUBSET Releases :
             /\ release \notin others
             /\ Apply([MyRow EXCEPT !.release = release, !.candidates = others],
                      Moved(AfterPicked(Medium)))
       \/ \E candidates \in (SUBSET Releases) \ {{}} :
             /\ OnPath(Medium, "needsChoice")
             /\ Apply([MyRow EXCEPT !.candidates = candidates], Moved("needsChoice"))
       \/ Apply(MyRow, Failed("other"))
    /\ job' = StepOver
    /\ UNCHANGED <<turnVars, asked, crashes, rowsLost>>

(* A start answers: its handle is saved, or, when the row has moved on,    *)
(* its download is dropped, which the job waits for.                       *)
StartAnswers ==
    /\ Waiting("start") /\ Sent("done") /\ SentCall.kind = "start"
    /\ LET handle == [hash |-> SentCall.hash, key |-> SentCall.key]
       IN  IF Current
           THEN /\ Save(job.id, [MyRow EXCEPT !.handle = handle, !.stepKey = None])
                /\ turn' = NextInTurn /\ job' = StepOver /\ UNCHANGED asked
           ELSE /\ turn' = Append(NextInTurn, CancelCall(job.id, handle, "job", None))
                /\ asked' = asked \cup {handle.key}
                /\ job' = [job EXCEPT !.pc = "dropLost"]
                /\ UNCHANGED rows
    /\ UNCHANGED <<torrents, late, crashes, rowsLost>>

StartThrows ==
    /\ Waiting("start") /\ turn # <<>> /\ SentCall.kind = "start"
    /\ Unanswered
    /\ turn' = NextInTurn
    /\ StepThrows
    /\ job' = StepOver
    /\ UNCHANGED <<torrents, asked, crashes, rowsLost>>

(* The drop of a download whose row was gone ends, however it does.        *)
LostDropEnds ==
    /\ Waiting("dropLost") /\ turn # <<>> /\ SentCall.kind = "cancel" /\ SentCall.by = "job"
    /\ \/ Sent("done") /\ UNCHANGED <<late, rows>>
       \/ Unanswered /\ StepThrows
    /\ turn' = NextInTurn
    /\ job' = StepOver
    /\ UNCHANGED <<torrents, asked, crashes, rowsLost>>

(* A poll answers.  A torrent that is not there waits out a grace, then    *)
(* counts as cancelled upstream.  A queued answer saves only the clocks.   *)
PollAnswers ==
    /\ Waiting("poll")
    /\ LET there == torrents[job.snap.handle.hash] # None
       IN  \/ SaveIfCurrent(MyRow)
           \/ there /\ Apply(MyRow, Moved("downloading"))
           \/ there /\ Apply(MyRow, Moved(IF job.snap.status = "queued" THEN "downloading"
                                                                        ELSE "importing"))
           \/ Apply(MyRow, Failed("other"))
    /\ job' = StepOver
    /\ UNCHANGED <<turnVars, asked, crashes, rowsLost>>

Stalled(row) == After(row, Failed("downloadStalled"))

(* Mutant: one start too many.                                             *)
MayStartAnother_OneMore(row) ==
    row.autoStarts <= MaxAutoStarts /\ OtherReleases(row) # {}

(* Whether the job may start another release by itself.                    *)
MayStartAnother(row) ==
    row.autoStarts < MaxAutoStarts /\ OtherReleases(row) # {}

(* Bytes stood still: the download fails, and with another release left    *)
(* and starts to spare the job drops it and waits to start that one.       *)
PollStalls ==
    /\ Waiting("poll")
    /\ torrents[job.snap.handle.hash] # None /\ job.snap.status = "downloading"
    /\ LET failed == Stalled(MyRow)
       IN  IF Current /\ MayStartAnother(failed)
           THEN \E following \in OtherReleases(failed) :
                   /\ Save(job.id, BackToChoice(failed))
                   /\ AskDrop(job.id, DropTarget(failed), "job", following)
                   /\ job' = [job EXCEPT !.pc = "dropStalled"]
           ELSE /\ SaveIfCurrent(failed)
                /\ job' = StepOver
                /\ UNCHANGED <<turn, asked>>
    /\ UNCHANGED <<torrents, late, crashes, rowsLost>>

(* The drop of a stalled download ends: the next release is chosen, unless *)
(* the row takes no choice any more.                                       *)
StalledDropEnds ==
    /\ Waiting("dropStalled") /\ turn # <<>> /\ SentCall.kind = "cancel" /\ SentCall.by = "job"
    /\ \/ Sent("done") /\ UNCHANGED late
       \/ Unanswered
    /\ turn' = NextInTurn
    /\ IF Choosable(job.id, SentCall.pick)
       THEN Save(job.id, WithChoice(MyRow, SentCall.pick, job.snap.autoStarts + 1))
       ELSE UNCHANGED rows
    /\ job' = StepOver
    /\ UNCHANGED <<torrents, asked, crashes, rowsLost>>

(* An import names its item, made of the release it was given; or waits,   *)
(* which saves nothing unless it has waited too long.                      *)
ImportAnswers ==
    /\ Waiting("import")
    /\ \/ SaveIfCurrent([MyRow EXCEPT !.result = job.snap.release, !.stepKey = None])
       \/ UNCHANGED rows
       \/ Apply(MyRow, Failed("other"))
    /\ job' = StepOver
    /\ UNCHANGED <<turnVars, asked, crashes, rowsLost>>

(* A search, a poll or an import throws or passes its limit.               *)
StepFails ==
    /\ job.pc \in {"search", "poll", "import"}
    /\ StepThrows
    /\ job' = StepOver
    /\ UNCHANGED <<turnVars, asked, crashes, rowsLost>>

----------------------------------------------------------------------------
(* A restart keeps the rows alone.  A call that was writing may still land.*)
(* Where it is another version that starts, any of the rows may be such as *)
(* it cannot read.                                                         *)
Crash ==
    /\ crashes < MaxCrashes
    /\ crashes' = crashes + 1
    /\ job' = Idle
    /\ turn' = <<>>
    /\ \/ late' = {call \in late : call.stage = "writing"}
       \/ /\ Sent("writing") /\ Cardinality(late) < MaxLate
          /\ late' = {call \in late : call.stage = "writing"} \cup {SentCall}
    /\ \E spoilt \in SUBSET {id \in Ids : Live(id)} :
          /\ rows' = [id \in Ids |-> IF id \in spoilt THEN None ELSE rows[id]]
          /\ unreadable' = unreadable \cup {Unread(rows[id]) : id \in spoilt}
    /\ UNCHANGED <<torrents, asked, left>>

Client == ClientStep /\ UNCHANGED <<rows, job, asked, crashes, rowsLost>>

PersonActs ==
    \/ \E id \in Ids, person \in People :
          \/ CancelRequest(id, person)
          \/ \E replaced \in SUBSET MayGiveWay :
                Create(id, person, replaced) \/ Join(id, person, replaced)
    \/ \E id \in Ids : RetryRequest(id)
    \/ \E id \in Ids, release \in Releases :
          ChooseRelease(id, release) \/ ChooseAnother(id, release)
    \/ PersonDropEnds

JobActs ==
    \/ BeginRun \/ EndRun
    \/ \E id \in Ids :
          \/ PassOver(id) \/ BeginSearching(id) \/ AskSearch(id)
          \/ IndexAnswers(id) \/ AskPoll(id)
          \/ \E key \in Keys : AskStart(id, key) \/ AskImport(id, key)
    \/ SearchAnswers \/ StartAnswers \/ StartThrows \/ LostDropEnds
    \/ PollAnswers \/ PollStalls \/ StalledDropEnds \/ ImportAnswers \/ StepFails

Init ==
    /\ torrents \in [Releases -> {None, ByHand}]
    /\ \A h \in Releases \ Handled : torrents[h] = None
    /\ turn = <<>>
    /\ late = {}
    /\ rows = [id \in Ids |-> None]
    /\ job = Idle
    /\ unreadable = {} /\ left = {}
    /\ asked = {}
    /\ crashes = 0

Next == PersonActs \/ JobActs \/ Client \/ Crash

Spec == Init /\ [][Next]_vars

(* A run that is due begins, and what the job or a person waits for goes   *)
(* on once its call answers or its limit passes.  Nothing is assumed of    *)
(* the client: it may hang for ever.                                       *)
Fairness == WF_vars(JobActs) /\ WF_vars(PersonDropEnds)

FairSpec == Spec /\ Fairness
----------------------------------------------------------------------------
TypeOK ==
    /\ TurnTypeOK
    /\ rows \in [Ids -> Rows \cup {None}]
    /\ unreadable \subseteq Lost
    /\ job \in Jobs
    /\ asked \in SUBSET Keys /\ left \subseteq Keys
    /\ crashes \in Nat

(* Where a row's step is or failed.                                        *)
StepOf(row) == IF row.status = "failed" THEN row.failedStep ELSE row.status

(* What a row keeps, by where its step is or failed.                       *)
Fitting(row) ==
    /\ StepOf(row) \in {"queued", "downloading"} =>
          /\ row.release # None /\ row.result = None
          /\ row.handle = None \/ row.stepKey = None
    /\ StepOf(row) \in {"importing", "inLibrary"} =>
          row.release # None /\ row.handle # None
    /\ StepOf(row) \in {"requested", "searching", "needsChoice"} =>
          row.release = None /\ row.handle = None /\ row.stepKey = None /\ row.result = None

(* What a row keeps fits where it stands: a release is named from the      *)
(* download on (the code throws `a download with no release` otherwise), a *)
(* start's key and a handle are never both there to drop by, and a row     *)
(* before its download keeps nothing of an earlier release.                *)
KeepsWhatFits == \A id \in Ids : Live(id) => Fitting(rows[id])

(* While the job waits for a step's answer, the row it read has not moved: *)
(* it is as it was read, or gone.  So recordThrown, which looks at nothing *)
(* but the status, never fails a newer attempt, and a download whose       *)
(* handle could not be saved belongs to nobody.                            *)
SnapshotCurrent ==
    /\ job.pc \in {"search", "start", "poll", "import"} /\ Live(job.id) =>
          [rows[job.id] EXCEPT !.people = {}] = [job.snap EXCEPT !.people = {}]
    /\ job.pc = "dropLost" => ~Live(job.id)

(* What an import named is of the release the request stands by, whatever  *)
(* was chosen while imports and starts were out.                           *)
ResultIsOfRelease ==
    \A id \in Ids : Live(id) /\ rows[id].result # None =>
        rows[id].result = rows[id].release

RowCountsOn(key) == \E id \in Ids : Live(id) /\ CountsOn(rows[id], key)

(* Every download Auralis started is one a request can still name, or one  *)
(* somebody has asked to drop, or one whose row could no longer be read    *)
(* ("Any download it had is left to its client", createRequest): across    *)
(* restarts, answers that are lost and starts that land past their limit.  *)
NamedOrDropped ==
    \A h \in Releases : torrents[h] \in Keys =>
        \/ RowCountsOn(torrents[h])
        \/ torrents[h] \in asked
        \/ torrents[h] \in left \/ \E row \in unreadable : torrents[h] \in row.keys
        \/ \E i \in DOMAIN turn : turn[i].kind = "start" /\ turn[i].key = torrents[h]

(* With every call answered inside its limit, none refused and no restart, *)
(* every download Auralis started is one a request names or one whose drop *)
(* is in turn: what follows a move never leaves two (job.ts, dropDownload).*)
NothingLeft ==
    \A h \in Releases : torrents[h] \in Keys =>
        \/ RowCountsOn(torrents[h])
        \/ \E call \in late \cup {turn[i] : i \in DOMAIN turn} : call.key = torrents[h]

(* What a cancel removes from the client is a torrent Auralis started, and *)
(* under a key no request counts on: a cancel still on its way never drops *)
(* what was started after it, nor what another request started.  A request *)
(* whose start found the torrent there goes by a key of its own, and loses *)
(* it when the request that started it is cancelled.                       *)
DropsOnlyItsOwn ==
    [][\A h \in Releases :
          /\ torrents[h] # None /\ torrents'[h] = None
          /\ <<turn, late>>' # <<turn, late>>
          => torrents[h] \in Keys /\ ~RowCountsOn(torrents[h])]_vars

(* Of two taps only one goes on to drop a download.                        *)
OneDropPerDownload ==
    \A i, j \in DOMAIN turn :
        /\ i # j /\ turn[i].kind = "cancel" /\ turn[j].kind = "cancel"
        /\ turn[i].by = turn[j].by
        => turn[i].key # turn[j].key

(* The job starts no more releases by itself than its cap.                 *)
AutoStartsCapped == \A id \in Ids : Live(id) => rows[id].autoStarts <= MaxAutoStarts

(* Where every request stands, as its lifecycle has it.                    *)
RequestStates == [id \in Ids |-> IF Live(id) THEN StateOf(rows[id]) ELSE None]

Lifecycle == INSTANCE RequestLifecycle WITH states <- RequestStates, restarts <- crashes

(* The job and the taps together keep the machine's promise: no move the   *)
(* machine refuses is ever made, so the throw in `apply` is never reached. *)
FollowsLifecycle == Lifecycle!Spec

(* A run always ends, however many calls hang and whatever people do       *)
(* meanwhile: the job's next turn comes.                                   *)
RunEnds == job.pc # "idle" ~> job.pc = "idle"
----------------------------------------------------------------------------
(* The inductive invariant: every row fits, the job holds what its wait    *)
(* needs of the row it read, and that row has not moved.                   *)
RowFits(row) ==
    /\ row \in Rows
    /\ row.status = "failed" => row.failedStep \in WorkingStatuses
    /\ Fitting(row)
    /\ row.result # None => row.result = row.release
    /\ row.autoStarts <= MaxAutoStarts

RowsFit ==
    /\ rows \in [Ids -> Rows \cup {None}]
    /\ \A id \in Ids : Live(id) => RowFits(rows[id])

JobWaits ==
    /\ job.pc \in {"idle", "run"} => job.id = None /\ job.snap = None
    /\ job.pc \notin {"idle", "run"} => job.id \in Ids /\ job.snap \in Rows
    /\ job.pc = "search" => job.snap.status = "searching"
    /\ job.pc \in {"start", "poll"} => job.snap.status \in {"queued", "downloading"}
    /\ job.pc = "poll" => job.snap.handle # None
    /\ job.pc = "import" => job.snap.status = "importing"
    /\ job.pc = "dropStalled" => job.snap.autoStarts < MaxAutoStarts

JobFits == job \in Jobs /\ JobWaits /\ SnapshotCurrent

NamedCalls == {call \in Calls : call.kind = "start" => call.hash # None}

TurnFits ==
    /\ torrents \in [Releases -> Keys \cup {None, ByHand}]
    /\ turn \in Seq(NamedCalls)
    /\ late \in SUBSET Calls

(* What has become of the rows that could not be read.                     *)
LostFits == unreadable \subseteq Lost /\ left \subseteq Keys

IInv == RowsFit /\ JobFits /\ TurnFits /\ asked \in SUBSET Keys /\ crashes \in Nat
=============================================================================
