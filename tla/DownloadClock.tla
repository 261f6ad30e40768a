---------------------------- MODULE DownloadClock ----------------------------
(***************************************************************************)
(* The clocks of one request's download: when the advance job takes bytes  *)
(* that stand still for a stall, and an upstream that is away for a        *)
(* failure (server/src/requests/job.ts: download, stallClock, stalled,     *)
(* recordHeld, advanceRequests; server/src/store/requests.ts: saveRequest, *)
(* markHeld, clearHeld).                                                   *)
(*                                                                         *)
(* A stored time is modelled by its age, `now() - time`, which every tick  *)
(* adds one to; ages past Cap are not told apart.  The next release a      *)
(* stall goes on to is in RequestJob; here a stall stays failed.           *)
(***************************************************************************)
EXTENDS RequestMachine

CONSTANTS
    Medium,       \* the request's medium
    StallAfter,   \* stallAfterMs, in ticks
    HoldAfter,    \* holdAfterMs, in ticks
    Whole,        \* the bytes of a whole download
    ChecksLose,   \* whether a check in the client may find fewer bytes
    MaxGap,       \* bound: ticks from one look of the job to the next
    Cap           \* bound: the age past which ages are not told apart

ASSUME ClockConstants ==
    /\ Medium \in {"book", "album", "song"}
    /\ {StallAfter, HoldAfter, Whole, MaxGap, Cap} \subseteq Nat \ {0}
    /\ ChecksLose \in BOOLEAN
    /\ StallAfter < Cap /\ HoldAfter < Cap /\ MaxGap <= Cap
    /\ None \notin Nat

VARIABLES
    row,        \* the request's row
    client,     \* the download client: its torrent, and whether it answers
    gap,        \* ticks since the job last looked
    \* What happened, whatever the row says of it:
    still,      \* ticks since the bytes last rose or began
    broken,     \* ticks since a look went unanswered, or came a limit late
    answered    \* ticks since a look was last answered, or a person retried

vars == <<row, client, gap, still, broken, answered>>

Older(age) == IF age = None THEN None ELSE IF age < Cap THEN age + 1 ELSE Cap

----------------------------------------------------------------------------
(* The row                                                                 *)

Downloading == row.status \in {"queued", "downloading"}

StateOf(r) == [status |-> r.status, failedStep |-> r.failedStep, reason |-> r.reason]

(* The row taken to where an event leads, with a download's progress.      *)
After(event, progress) ==
    LET state == NextState(Medium, StateOf(row), event)
    IN  [row EXCEPT !.status = state.status,
                    !.failedStep = state.failedStep,
                    !.reason = state.reason,
                    !.progress = IF state.status = "downloading" THEN progress ELSE 0]

(* Mutant: a save leaves the hold running.                                 *)
Save_KeepsHold(changed) == row' = [changed EXCEPT !.updatedAt = 0]

(* Any save is an update now and ends a hold.                              *)
Save(changed) == row' = [changed EXCEPT !.updatedAt = 0, !.heldSince = None]

(* Mutants: an outage or a late look is not looked at, or bytes that stand *)
(* still count as a rise.                                                  *)
StallClock_NoOutage(progress) ==
    LET before == IF row.status = "downloading" THEN row.progress ELSE 0
    IN  IF progress > before \/ row.progressAt = None THEN 0 ELSE row.progressAt

StallClock_SameIsRise(progress) ==
    IF progress >= row.progress \/ row.progressAt = None THEN 0 ELSE row.progressAt

(* When the bytes last moved, as of a look that finds them at `progress`.  *)
StallClock(progress) ==
    LET before == IF row.status = "downloading" THEN row.progress ELSE 0
        unseen == row.heldSince # None \/ row.updatedAt >= StallAfter
    IN  IF progress > before \/ unseen \/ row.progressAt = None THEN 0 ELSE row.progressAt

(* What the job's look does besides: it was answered, in an unbroken run   *)
(* of looks unless the one before was a full limit ago.                    *)
Answered ==
    /\ client.up
    /\ gap' = 0
    /\ answered' = 0
    /\ broken' = IF gap >= StallAfter THEN 0 ELSE broken
    /\ UNCHANGED still

----------------------------------------------------------------------------
(* The job looks                                                           *)

(* A start answers with a handle: the torrent is in the client.            *)
Start ==
    /\ Downloading /\ ~row.handle
    /\ Answered
    /\ client' = IF client.torrent = "none"
                 THEN [client EXCEPT !.torrent = "queued", !.bytes = 0]
                 ELSE client
    /\ Save([row EXCEPT !.handle = TRUE, !.progressAt = 0])

Polls(torrent) ==
    /\ Downloading /\ row.handle
    /\ client.torrent \in torrent
    /\ Answered
    /\ UNCHANGED client

PollQueued ==
    /\ Polls({"queued"})
    /\ Save([row EXCEPT !.progressAt = 0])

StandsStill(progressAt) == row.status = "downloading" /\ progressAt >= StallAfter

PollDownloading ==
    /\ Polls({"active", "dead"}) /\ client.bytes < Whole
    /\ ~StandsStill(StallClock(client.bytes))
    /\ Save([After(Moved("downloading"), client.bytes)
                EXCEPT !.progressAt = StallClock(client.bytes)])

PollStalls ==
    /\ Polls({"active", "dead"}) /\ client.bytes < Whole
    /\ StandsStill(StallClock(client.bytes))
    /\ Save(After(Failed("downloadStalled"), 0))

PollDone ==
    /\ Polls({"active"}) /\ client.bytes = Whole
    /\ IF row.status = "queued"
       THEN Save(After(Moved("downloading"), Whole))
       ELSE Save(After(Moved("importing"), 0))

(* The torrent is not there, past its grace; or a step throws outright.    *)
LookFails ==
    /\ Downloading
    /\ Answered
    /\ Save(After(Failed("other"), 0))
    /\ UNCHANGED client

(* The upstream cannot be reached: the request is held where it stands,    *)
(* and fails once that has lasted the limit.                               *)
Held ==
    /\ Downloading /\ ~client.up
    /\ gap' = 0 /\ broken' = 0
    /\ UNCHANGED <<client, still, answered>>

LookIsHeld ==
    /\ Held
    /\ row.heldSince # None => row.heldSince < HoldAfter
    /\ row' = [row EXCEPT !.heldSince = IF @ = None THEN 0 ELSE @]

HoldRunsOut ==
    /\ Held
    /\ row.heldSince # None /\ row.heldSince >= HoldAfter
    /\ Save(After(Failed("other"), 0))

Look ==
    \/ Start \/ PollQueued \/ PollDownloading \/ PollStalls \/ PollDone
    \/ LookIsHeld \/ HoldRunsOut

----------------------------------------------------------------------------
(* A person retries: a stalled download is followed again, any other is    *)
(* dropped and starts afresh.                                              *)
RetryRequest ==
    /\ row.status = "failed"
    /\ IF row.reason = "downloadStalled" /\ row.handle
       THEN /\ Save([After(Retry, 0) EXCEPT !.progressAt = 0])
            /\ UNCHANGED <<client, still>>
       ELSE /\ Save([After(Retry, 0) EXCEPT !.handle = FALSE])
            /\ \/ client' = [client EXCEPT !.torrent = "none", !.bytes = 0] /\ still' = 0
               \/ UNCHANGED <<client, still>>
    /\ answered' = 0 /\ broken' = 0
    /\ UNCHANGED gap

----------------------------------------------------------------------------
(* The client                                                              *)

Only(changed) ==
    /\ client' = changed
    /\ UNCHANGED <<row, gap, broken, answered>>

BytesRise ==
    /\ client.torrent = "active" /\ client.bytes < Whole
    /\ Only([client EXCEPT !.bytes = @ + 1])
    /\ still' = 0

(* It waits in the client's queue, or is checked, and comes back; a check  *)
(* may find less than was counted.                                         *)
Queues ==
    /\ client.torrent = "active"
    /\ \E bytes \in 0..client.bytes :
          /\ ChecksLose \/ bytes = client.bytes
          /\ Only([client EXCEPT !.torrent = "queued", !.bytes = bytes])
    /\ UNCHANGED still

Resumes ==
    /\ client.torrent = "queued"
    /\ Only([client EXCEPT !.torrent = "active"])
    /\ UNCHANGED still

(* Nobody has the rest of it, while the client answers for good.           *)
Dies ==
    /\ client.torrent = "active" /\ client.bytes < Whole
    /\ Only([client EXCEPT !.torrent = "dead", !.up = TRUE])
    /\ UNCHANGED still

GoesAway ==
    /\ client.up /\ client.torrent # "dead"
    /\ Only([client EXCEPT !.up = FALSE])
    /\ UNCHANGED still

ComesBack ==
    /\ ~client.up
    /\ Only([client EXCEPT !.up = TRUE])
    /\ UNCHANGED still

Tick ==
    /\ gap < MaxGap \/ ~Downloading
    /\ gap' = IF Downloading THEN gap + 1 ELSE gap
    /\ row' = [row EXCEPT !.progressAt = Older(@), !.heldSince = Older(@), !.updatedAt = Older(@)]
    /\ still' = Older(still) /\ broken' = Older(broken) /\ answered' = Older(answered)
    /\ UNCHANGED client

Init ==
    /\ row = [status |-> AfterPicked(Medium), failedStep |-> None, reason |-> None,
              progress |-> 0, handle |-> FALSE, progressAt |-> None, heldSince |-> None,
              updatedAt |-> 0]
    /\ client = [torrent |-> "none", bytes |-> 0, up |-> TRUE]
    /\ gap = 0 /\ still = 0 /\ broken = 0 /\ answered = 0

ClientActs == BytesRise \/ Queues \/ Resumes \/ Dies \/ GoesAway \/ ComesBack

Next == Look \/ LookFails \/ RetryRequest \/ ClientActs \/ Tick

Spec == Init /\ [][Next]_vars

(* Time passes, and the job looks once it is due.                          *)
FairSpec == Spec /\ WF_vars(Tick) /\ WF_vars(Look)
----------------------------------------------------------------------------
Fails(reason) == row.status # "failed" /\ row'.status = "failed" /\ row'.reason = reason

(* A request fails as stalled only when its bytes truly stood still for    *)
(* the whole limit and every look in it was answered: no outage, of any    *)
(* length, and no looks a limit apart pass for a stall.  As long as no     *)
(* check takes back bytes between two looks.                               *)
StallIsReal ==
    [][Fails("downloadStalled") => still >= StallAfter /\ broken >= StallAfter]_vars

(* An upstream that is away fails a request only after it has given no     *)
(* answer for the whole hold, and any answer or retry gives a new hold.    *)
HoldIsWhole == [][Fails("other") /\ ~client.up => answered >= HoldAfter]_vars

(* A download nobody has the rest of does not wait for ever, once the job  *)
(* looks more often than the limit: it fails.                              *)
DeadEndsFailed ==
    <>[](gap < StallAfter) => (client.torrent = "dead" /\ Downloading ~> ~Downloading)

----------------------------------------------------------------------------
(* The inductive invariant of the first two                                *)

Ages == 0..Cap

TypeOK ==
    /\ row \in [status : Statuses, failedStep : Statuses \cup {None},
                reason : Reasons \cup {None}, progress : 0..Whole, handle : BOOLEAN,
                progressAt : Ages \cup {None}, heldSince : Ages \cup {None}, updatedAt : Ages]
    /\ row.status = "failed" => row.failedStep \in {"queued", "downloading"}
    /\ client \in [torrent : {"none", "queued", "active", "dead"}, bytes : 0..Whole, up : BOOLEAN]
    /\ client.torrent = "none" => client.bytes = 0
    /\ gap \in 0..MaxGap
    /\ {still, broken, answered} \subseteq Ages

(* Every look but one that is held saves the row, and none is due while    *)
(* nothing downloads.                                                      *)
LooksSave == gap <= row.updatedAt /\ (~Downloading => gap = 0)

Followed == Downloading /\ row.handle /\ client.bytes < Whole /\ row.progressAt # None

(* What a look found is there, while no check takes it back.               *)
FoundIsThere == row.status = "downloading" => row.progress <= client.bytes

(* The bytes stood still for as long as the clock says, but for a rise no  *)
(* look has found yet.                                                     *)
StillSince ==
    Followed => \/ client.bytes > IF row.status = "downloading" THEN row.progress ELSE 0
                \/ row.progressAt <= still

(* No outage or late look came since, but for one no look has ended yet.   *)
SeenSince == Followed /\ row.heldSince = None => row.progressAt <= broken

HeldNoLonger == row.heldSince # None => row.heldSince <= answered

IInv ==
    /\ TypeOK /\ LooksSave /\ HeldNoLonger
    /\ ~ChecksLose => FoundIsThere /\ StillSince /\ SeenSince
=============================================================================
