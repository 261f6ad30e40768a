--------------------------- MODULE RequestJobProofs ---------------------------
(***************************************************************************)
(* Proofs about the advance job: for any requests, people, releases, time  *)
(* limits passed and restarts, its rows and what it waits for are well     *)
(* typed (TypeOK), each row keeps what fits where it stands                *)
(* (KeepsWhatFits), a result is of its release (ResultIsOfRelease), the    *)
(* job starts no more releases than its cap (AutoStartsCapped), and the    *)
(* row it waits on has not moved (SnapshotCurrent).  Every step is one of  *)
(* the request's lifecycle (FollowsLifecycle).  No download is dropped     *)
(* twice (OneDropPerDownload), none is lost sight of but with its row      *)
(* (NamedOrDropped), and with every call answered inside its limit a       *)
(* cancel deletes only what was started under its key (DropsOnlyItsOwn);   *)
(* with none refused and no restart either, nothing is left in the client  *)
(* that no request names and no drop in turn is for (NothingLeft).         *)
(*                                                                         *)
(* None of these is inductive alone.  IInv joins them: a person moves only *)
(* rows that failed or wait for a choice (PersonsEvents), the job waits    *)
(* only on rows that do neither (JobWaits), so no tap touches the row the  *)
(* job holds, and what the job saves is made of the row it read.           *)
(* LostFits types what rows that can no longer be read hold.  KeyInv adds  *)
(* whose each key is: one request's or that of a drop, never both.         *)
(* Accounted and OwnFound say what becomes of what calls under way may yet *)
(* start and have already found.  DropInv adds that the drop of a key in   *)
(* use stands in turn behind its starts, and that a key is in use for one  *)
(* hash only, so what the drop finds is all there is.                      *)
(***************************************************************************)
EXTENDS RequestJob, SequenceTheorems, FiniteSetTheorems, TLAPS

----------------------------------------------------------------------------
(* The request machine: where each event leads, and from where it is taken *)

(* A download begins in the client's queue, or at once on a route with no  *)
(* queue, whatever the choice that led to it.                              *)
LEMMA PickedDownloads ==
    ASSUME NEW medium \in {"book", "album", "song"}
    PROVE  /\ AfterPicked(medium) = IF medium = "song" THEN "downloading" ELSE "queued"
           /\ AfterPicked(medium) \in {"queued", "downloading"}
<1> DEFINE route == ROUTES[medium]
           at    == CHOOSE i \in DOMAIN route : route[i] = "searching"
<1>1. \A i \in DOMAIN route : route[i] = "searching" => i = 2
    BY DEF ROUTES
<1>2. 2 \in DOMAIN route /\ route[2] = "searching"
    BY DEF ROUTES
<1>3. at = 2
    BY <1>1, <1>2
<1>4. AfterPicked(medium) =
        IF route[at + 1] = "needsChoice" THEN route[at + 2] ELSE route[at + 1]
    BY Zenon DEF AfterPicked
<1>5. medium = "song" => route[3] = "downloading"
    BY DEF ROUTES
<1>6. medium # "song" => route[3] = "needsChoice" /\ route[4] = "queued"
    BY DEF ROUTES
<1> HIDE DEF at, route
<1> QED
    BY <1>3, <1>4, <1>5, <1>6

(* Where each event leads.                                                 *)
LEMMA NextStates ==
    ASSUME NEW medium, NEW state, NEW to, NEW reason
    PROVE  /\ NextState(medium, state, Moved(to)) = Enter(to)
           /\ NextState(medium, state, Failed(reason)) =
                 [status |-> "failed", failedStep |-> state.status, reason |-> reason]
           /\ NextState(medium, state, Retry) = Enter(state.failedStep)
           /\ NextState(medium, state, Chose) = Enter(AfterPicked(medium))
           /\ NextState(medium, state, PickAnother) = Enter("needsChoice")
    BY DEF NextState, Moved, Failed, Retry, Chose, PickAnother

(* A person's events are each taken from one place only: what the advance  *)
(* job moves, no person does.                                              *)
LEMMA PersonsEvents ==
    ASSUME NEW medium, NEW state
    PROVE  /\ Allowed(medium, state, Retry) => state.status = "failed"
           /\ Allowed(medium, state, Chose) => state.status = "needsChoice"
           /\ Allowed(medium, state, PickAnother) =>
                 state.status = "failed" /\ state.failedStep \in PICK_ANOTHER_AFTER
    BY DEF Allowed, FromFailedAllowed, Retry, Chose, PickAnother

----------------------------------------------------------------------------
(* Sequences                                                               *)

(* Replacing the head of a sequence.                                       *)
LEMMA HeadReplaced ==
    ASSUME NEW S, NEW s \in Seq(S), s # <<>>, NEW x \in S
    PROVE  [s EXCEPT ![1] = x] \in Seq(S)
<1>1. 1 \in 1..Len(s)
    BY EmptySeq, LenProperties
<1> QED
    BY <1>1, ExceptSeq

(* A sent call is a call, and the turn goes on without it.                 *)
LEMMA TurnGoesOn ==
    ASSUME TurnFits, turn # <<>>
    PROVE  SentCall \in NamedCalls /\ SentCall \in Calls /\ NextInTurn \in Seq(NamedCalls)
    BY HeadTailProperties DEF TurnFits, SentCall, NextInTurn, NamedCalls

(* One more call joins the turn.                                           *)
LEMMA TurnGrows ==
    ASSUME NEW s \in Seq(NamedCalls), NEW call \in NamedCalls
    PROVE  Append(s, call) \in Seq(NamedCalls)
    BY AppendProperties

----------------------------------------------------------------------------
(* Rows                                                                    *)

(* A row moved on a step.                                                  *)
LEMMA AfterMove ==
    ASSUME NEW row, NEW to
    PROVE  After(row, Moved(to)) =
              [row EXCEPT !.status = to, !.failedStep = None, !.reason = None]
<1> DEFINE st == NextState(Medium, StateOf(row), Moved(to))
<1>1. st.status = to /\ st.failedStep = None /\ st.reason = None
    BY NextStates DEF Enter
<1>2. After(row, Moved(to)) =
        [row EXCEPT !.status = st.status, !.failedStep = st.failedStep, !.reason = st.reason]
    BY Zenon DEF After
<1> QED
    BY <1>1, <1>2, Zenon

(* A row after a failure, and after each event of a person.                *)
LEMMA AfterEvents ==
    ASSUME NEW row \in Rows, NEW reason
    PROVE  /\ After(row, Failed(reason)) =
                [row EXCEPT !.status = "failed", !.failedStep = row.status, !.reason = reason]
           /\ After(row, Retry) =
                [row EXCEPT !.status = row.failedStep, !.failedStep = None, !.reason = None]
           /\ After(row, Chose) =
                [row EXCEPT !.status = AfterPicked(Medium), !.failedStep = None, !.reason = None]
           /\ After(row, PickAnother) =
                [row EXCEPT !.status = "needsChoice", !.failedStep = None, !.reason = None]
<1> DEFINE st(event) == NextState(Medium, StateOf(row), event)
           ledTo(event) ==
              [row EXCEPT !.status = st(event).status,
                          !.failedStep = st(event).failedStep,
                          !.reason = st(event).reason]
<1>1. After(row, Failed(reason)) =
        [row EXCEPT !.status = "failed", !.failedStep = row.status, !.reason = reason]
    <2>1. /\ st(Failed(reason)).status = "failed"
          /\ st(Failed(reason)).failedStep = row.status
          /\ st(Failed(reason)).reason = reason
        BY NextStates DEF StateOf
    <2>2. After(row, Failed(reason)) = ledTo(Failed(reason))
        BY Zenon DEF After
    <2> QED
        BY <2>1, <2>2, Zenon
<1>2. After(row, Retry) =
        [row EXCEPT !.status = row.failedStep, !.failedStep = None, !.reason = None]
    <2>1. /\ st(Retry).status = row.failedStep
          /\ st(Retry).failedStep = None
          /\ st(Retry).reason = None
        BY NextStates DEF Enter, StateOf
    <2>2. After(row, Retry) = ledTo(Retry)
        BY Zenon DEF After
    <2> QED
        BY <2>1, <2>2, Zenon
<1>3. After(row, Chose) =
        [row EXCEPT !.status = AfterPicked(Medium), !.failedStep = None, !.reason = None]
    <2>1. /\ st(Chose).status = AfterPicked(Medium)
          /\ st(Chose).failedStep = None
          /\ st(Chose).reason = None
        BY NextStates DEF Enter
    <2>2. After(row, Chose) = ledTo(Chose)
        BY Zenon DEF After
    <2> QED
        BY <2>1, <2>2, Zenon
<1>4. After(row, PickAnother) =
        [row EXCEPT !.status = "needsChoice", !.failedStep = None, !.reason = None]
    <2>1. /\ st(PickAnother).status = "needsChoice"
          /\ st(PickAnother).failedStep = None
          /\ st(PickAnother).reason = None
        BY NextStates DEF Enter
    <2>2. After(row, PickAnother) = ledTo(PickAnother)
        BY Zenon DEF After
    <2> QED
        BY <2>1, <2>2, Zenon
<1> QED
    BY <1>1, <1>2, <1>3, <1>4

(* A person's events are taken from a failure or a choice alone.           *)
LEMMA TakenFrom ==
    ASSUME NEW row \in Rows
    PROVE  /\ Takes(row, Retry) => row.status = "failed"
           /\ Takes(row, Chose) => row.status = "needsChoice"
           /\ Takes(row, PickAnother) =>
                 row.status = "failed" /\ row.failedStep \in PICK_ANOTHER_AFTER
    BY PersonsEvents DEF Takes, StateOf

(* A step that fails keeps what it had.                                    *)
LEMMA FailureFits ==
    ASSUME NEW row, RowFits(row), row.status \in WorkingStatuses, NEW reason \in Reasons
    PROVE  RowFits(After(row, Failed(reason)))
<1> row \in Rows
    BY DEF RowFits
<1>1. After(row, Failed(reason)) =
        [row EXCEPT !.status = "failed", !.failedStep = row.status, !.reason = reason]
    BY AfterEvents
<1>2. After(row, Failed(reason)) \in Rows
    BY <1>1 DEF Rows, Statuses
<1> QED
    BY <1>1, <1>2 DEF RowFits, Fitting, StepOf, Rows, WorkingStatuses

(* A retry keeps what it had, but for the handle of a download that starts *)
(* again.                                                                  *)
LEMMA RetriedFits ==
    ASSUME NEW row, RowFits(row), row.status = "failed"
    PROVE  RowFits(Retried(row))
<1> row \in Rows
    BY DEF RowFits
<1>1. After(row, Retry) =
        [row EXCEPT !.status = row.failedStep, !.failedStep = None, !.reason = None]
    BY AfterEvents
<1>2. After(row, Retry) \in Rows
    BY <1>1 DEF Rows, Statuses, RowFits
<1>3. RowFits(After(row, Retry))
    BY <1>1, <1>2 DEF RowFits, Fitting, StepOf, Rows, WorkingStatuses
<1>4. CASE FollowsAgain(row) \/ ~Restarts(row)
    BY <1>3, <1>4 DEF Retried
<1>5. CASE ~(FollowsAgain(row) \/ ~Restarts(row))
    <2>1. Retried(row) = [After(row, Retry) EXCEPT !.handle = None]
        BY <1>5 DEF Retried
    <2>2. row.failedStep \in {"queued", "downloading"}
        BY <1>5 DEF Restarts
    <2>3. Retried(row) =
            [row EXCEPT !.status = row.failedStep, !.failedStep = None,
                        !.reason = None, !.handle = None]
        BY <1>1, <2>1 DEF Rows
    <2> QED
        BY <2>2, <2>3 DEF RowFits, Fitting, StepOf, Rows, WorkingStatuses, Statuses
<1> QED
    BY <1>4, <1>5

(* The way back to the choice keeps nothing.                               *)
LEMMA BackToChoiceFits ==
    ASSUME NEW row, RowFits(row)
    PROVE  RowFits(BackToChoice(row)) /\ BackToChoice(row).status = "needsChoice"
<1> row \in Rows
    BY DEF RowFits
<1>1. After(row, PickAnother) =
        [row EXCEPT !.status = "needsChoice", !.failedStep = None, !.reason = None]
    BY AfterEvents
<1>2. OtherReleases(row) \in SUBSET Releases
    BY DEF OtherReleases, Rows
<1> QED
    BY <1>1, <1>2 DEF BackToChoice, RowFits, Fitting, StepOf, Rows, Statuses, WorkingStatuses

(* A choice starts with the release alone.                                 *)
LEMMA ChoiceFits ==
    ASSUME NEW row, RowFits(row), row.status = "needsChoice",
           NEW release \in Releases, NEW n \in Nat, n <= MaxAutoStarts
    PROVE  RowFits(WithChoice(row, release, n))
<1> row \in Rows
    BY DEF RowFits
<1>1. After(row, Chose) =
        [row EXCEPT !.status = AfterPicked(Medium), !.failedStep = None, !.reason = None]
    BY AfterEvents
<1>2. AfterPicked(Medium) \in {"queued", "downloading"}
    BY PickedDownloads, JobConstants
<1>3. release # None
    BY TurnConstants
<1> QED
    BY <1>1, <1>2, <1>3
    DEF WithChoice, RowFits, Fitting, StepOf, Rows, Statuses, WorkingStatuses

----------------------------------------------------------------------------
(* Saving                                                                  *)

(* A saved row is the row given with a version of its own.                 *)
LEMMA SavedFits ==
    ASSUME RowsFit, JobFits, NEW id \in Ids, Live(id), NEW row, RowFits(row)
    PROVE  RowFits(Saved(id, row)) /\ Saved(id, row) = [row EXCEPT !.version = NextVersion(id)]
<1>1. NextVersion(id) \in Versions
    <2>1. CASE job.id = id
        <3>1. rows[id] \in Rows /\ job.snap \in Rows
            BY <2>1, TurnConstants DEF RowsFit, RowFits, JobFits, JobWaits
        <3>2. \E v \in Versions : v # rows[id].version /\ v # job.snap.version
            BY <3>1, JobConstants DEF Rows
        <3> QED
            BY <2>1, <3>2 DEF NextVersion
    <2>2. CASE job.id # id
        BY <2>2, JobConstants DEF NextVersion
    <2> QED
        BY <2>1, <2>2
<1>2. Saved(id, row) \in Rows
    BY <1>1 DEF Saved, RowFits, Rows
<1> QED
    BY <1>2 DEF Saved, RowFits, Rows, Fitting, StepOf

(* A row that fits may be saved for a request.                             *)
LEMMA SaveKeepsRows ==
    ASSUME RowsFit, JobFits, NEW id \in Ids, Live(id), NEW row, RowFits(row), Save(id, row)
    PROVE  RowsFit'
<1>1. RowFits(Saved(id, row)) /\ Saved(id, row) \in Rows
    BY SavedFits DEF RowFits
<1>2. rows' \in [Ids -> Rows \cup {None}]
    BY <1>1 DEF Save, RowsFit
<1>3. ASSUME NEW other \in Ids, rows'[other] # None
      PROVE  RowFits(rows'[other])
    BY <1>1, <1>3 DEF Save, RowsFit, Live
<1> QED
    BY <1>2, <1>3 DEF RowsFit, Live

(* A request may go.                                                       *)
LEMMA GoneKeepsRows ==
    ASSUME RowsFit, NEW id \in Ids, rows' = [rows EXCEPT ![id] = None]
    PROVE  RowsFit'
    BY DEF RowsFit, Live

(* The row the job waits on is the one it read, but for who is on it.      *)
LEMMA MyRowIsSnap ==
    ASSUME RowsFit, JobFits, job.pc \in {"search", "start", "poll", "import"}, Live(job.id)
    PROVE  /\ job.id \in Ids /\ RowFits(MyRow) /\ job.snap \in Rows
           /\ MyRow.status = job.snap.status /\ MyRow.handle = job.snap.handle
           /\ MyRow.release = job.snap.release /\ MyRow.version = job.snap.version
           /\ MyRow.autoStarts = job.snap.autoStarts
           /\ Current
<1>1. job.id \in Ids /\ job.snap \in Rows
    BY DEF JobFits, JobWaits
<1>2. RowFits(MyRow) /\ MyRow \in Rows
    BY <1>1 DEF RowsFit, MyRow, RowFits
<1>3. [MyRow EXCEPT !.people = {}] = [job.snap EXCEPT !.people = {}]
    BY DEF JobFits, SnapshotCurrent, MyRow
<1> DEFINE one == [MyRow EXCEPT !.people = {}]
           two == [job.snap EXCEPT !.people = {}]
<1>4. /\ one.status = MyRow.status /\ one.handle = MyRow.handle /\ one.release = MyRow.release
      /\ one.version = MyRow.version /\ one.autoStarts = MyRow.autoStarts
    BY <1>2 DEF Rows
<1>5. /\ two.status = job.snap.status /\ two.handle = job.snap.handle
      /\ two.release = job.snap.release /\ two.version = job.snap.version
      /\ two.autoStarts = job.snap.autoStarts
    BY <1>1 DEF Rows
<1> HIDE DEF one, two
<1>6. one = two
    BY <1>3 DEF one, two
<1> QED
    BY <1>1, <1>2, <1>4, <1>5, <1>6 DEF Current, MyRow

(* A request that failed or waits for a choice is not the one the job      *)
(* waits on, so saving it leaves that row as the job read it.              *)
LEMMA PersonsSave ==
    ASSUME RowsFit, JobFits, NEW id \in Ids, Live(id),
           rows[id].status \in {"failed", "needsChoice"},
           NEW row, RowFits(row), Save(id, row), UNCHANGED job
    PROVE  RowsFit' /\ JobFits'
<1>1. RowsFit'
    BY SaveKeepsRows
<1>2. job.pc \in {"search", "start", "poll", "import"} /\ Live(job.id) => job.id # id
    BY MyRowIsSnap DEF MyRow, JobFits, JobWaits
<1>3. job.pc = "dropLost" => job.id # id
    BY DEF JobFits, SnapshotCurrent
<1>4. \A other \in Ids : other # id => rows'[other] = rows[other]
    BY DEF Save, RowsFit
<1>5. job.pc \notin {"idle", "run"} => job.id \in Ids
    BY DEF JobFits, JobWaits
<1>6. SnapshotCurrent'
    <2>1. ASSUME job.pc \in {"search", "start", "poll", "import"}, rows'[job.id] # None
          PROVE  job.id # id
        BY <2>1, <1>2, <1>4, <1>5 DEF Live
    <2> QED
        BY <1>3, <1>4, <1>5, <2>1 DEF SnapshotCurrent, Live, JobFits
<1>7. JobWaits' /\ (job \in Jobs)'
    BY DEF JobFits, JobWaits, Jobs
<1> QED
    BY <1>1, <1>6, <1>7 DEF JobFits

(* A step over, the job holds nothing.                                     *)
LEMMA StepOverFits ==
    ASSUME JobFits, job' = StepOver
    PROVE  JobFits'
<1>1. job' \in Jobs /\ job'.pc = "run" /\ job'.id = None /\ job'.snap = None
    BY DEF JobFits, Jobs, StepOver
<1> QED
    BY <1>1 DEF JobFits, JobWaits, SnapshotCurrent

(* A run's turns past a request change nothing but what is left.           *)
LEMMA PassFits ==
    ASSUME JobFits, job.pc = "run", NEW id, job' = [job EXCEPT !.todo = @ \ {id}]
    PROVE  JobFits'
<1>1. job' \in Jobs /\ job'.pc = "run" /\ job'.id = None /\ job'.snap = None
    BY DEF JobFits, Jobs, JobWaits
<1> QED
    BY <1>1 DEF JobFits, JobWaits, SnapshotCurrent

(* Where the job waits with the row it has just read, that row is current. *)
LEMMA WaitsFits ==
    ASSUME JobFits, job.pc = "run", NEW id \in Ids, RowsFit', Live(id)',
           NEW pc \in {"search", "start", "poll", "import"},
           job' = Waits(pc, id, rows'[id]),
           pc = "search" => rows'[id].status = "searching",
           pc \in {"start", "poll"} => rows'[id].status \in {"queued", "downloading"},
           pc = "poll" => rows'[id].handle # None,
           pc = "import" => rows'[id].status = "importing"
    PROVE  JobFits'
<1>1. rows'[id] \in Rows
    BY DEF RowsFit, Live, RowFits
<1>2. /\ job'.pc = pc /\ job'.id = id /\ job'.snap = rows'[id]
      /\ job' \in Jobs
    BY <1>1 DEF Waits, Jobs, JobFits
<1> QED
    BY <1>1, <1>2 DEF JobFits, JobWaits, SnapshotCurrent

----------------------------------------------------------------------------
(* Dropping                                                                *)

(* What a cancel or a retry drops is named by a key.                       *)
LEMMA TargetsNamed ==
    ASSUME NEW row, RowFits(row)
    PROVE  /\ DropTarget(row) \in Targets \cup {None}
           /\ RetryDrops(row) \in Targets \cup {None}
<1>1. row.handle \in Targets \cup {None}
    BY DEF RowFits, Rows, Handles, Targets
<1>2. row.stepKey # None => row.stepKey \in Keys
    BY DEF RowFits, Rows
<1> QED
    BY <1>1, <1>2 DEF DropTarget, RetryDrops, Targets

(* A drop asked for takes a turn of its own and records the key it names.  *)
LEMMA DropAsked ==
    ASSUME TurnFits, asked \in SUBSET Keys, UNCHANGED <<torrents, late>>,
           NEW id \in Ids, NEW target \in Targets \cup {None},
           NEW by \in {"job", "person"}, NEW pick \in Releases \cup {None},
           AskDrop(id, target, by, pick)
    PROVE  TurnFits' /\ (asked \in SUBSET Keys)'
<1>1. CASE target = None
    BY <1>1 DEF AskDrop, TurnFits
<1>2. CASE target # None
    <2>1. CancelCall(id, target, by, pick) \in NamedCalls
        BY <1>2 DEF CancelCall, NamedCalls, Calls, Targets
    <2>2. turn' \in Seq(NamedCalls)
        BY <1>2, <2>1, TurnGrows DEF AskDrop, TurnFits
    <2> QED
        BY <1>2, <2>2 DEF AskDrop, TurnFits, Targets
<1> QED
    BY <1>1, <1>2

----------------------------------------------------------------------------
(* What a person does                                                      *)

(* Who is on rows that give way are people.                                *)
LEMMA AskingPeople ==
    ASSUME LostFits, NEW person \in People, NEW replaced \in SUBSET MayGiveWay
    PROVE  Asking(person, replaced) \in SUBSET People
  BY DEF LostFits, Lost, MayGiveWay, Asking

(* A new request is none the job holds, and keeps nothing.                 *)
LEMMA CreateStep ==
    ASSUME IInv, LostFits, NEW id \in Ids, NEW person \in People,
           NEW replaced \in SUBSET MayGiveWay, Create(id, person, replaced)
    PROVE  IInv'
<1> DEFINE people == Asking(person, replaced)
<1>0. people \in SUBSET People
    BY AskingPeople
<1> HIDE DEF people
<1>1. RowFits(NewRow(people)) /\ NewRow(people) \in Rows
  <2>1. NewRow(people) \in Rows
      BY <1>0, JobConstants DEF NewRow, Rows, Statuses, WorkingStatuses
  <2>2. Fitting(NewRow(people))
      BY DEF NewRow, Fitting, StepOf
  <2>3. NewRow(people).autoStarts <= MaxAutoStarts
      BY JobConstants DEF NewRow
  <2> QED
      BY <2>1, <2>2, <2>3 DEF RowFits, NewRow
<1>2. RowsFit'
  <2>1. rows' = [rows EXCEPT ![id] = NewRow(people)]
      BY DEF Create, people
  <2> QED
      BY <1>1, <2>1 DEF IInv, RowsFit, Live
<1>3. id # job.id
    BY DEF Create
<1>4. SnapshotCurrent'
    BY <1>3 DEF Create, SnapshotCurrent, Live, IInv, RowsFit, JobFits, JobWaits
<1> QED
    BY <1>2, <1>4 DEF IInv, Create, JobFits, JobWaits, TurnFits, turnVars

(* A retry moves a row that failed, which the job does not hold.           *)
LEMMA RetryStep ==
    ASSUME IInv, NEW id \in Ids, RetryRequest(id)
    PROVE  IInv'
<1>1. RowFits(rows[id]) /\ rows[id] \in Rows
    BY DEF IInv, RowsFit, RetryRequest, RowFits
<1>2. rows[id].status = "failed"
    BY <1>1, TakenFrom DEF RetryRequest
<1>3. RowFits(Retried(rows[id]))
    BY <1>1, <1>2, RetriedFits
<1>4. RowsFit' /\ JobFits'
    BY <1>2, <1>3, PersonsSave DEF IInv, RetryRequest
<1>5. TurnFits' /\ (asked \in SUBSET Keys)'
    BY <1>1, TargetsNamed, DropAsked DEF IInv, RetryRequest
<1> QED
    BY <1>4, <1>5 DEF IInv, RetryRequest

(* Who is on a row is nothing to the job.                                  *)
LEMMA PeopleChange ==
    ASSUME IInv, NEW id \in Ids, Live(id), NEW people \in SUBSET People, UNCHANGED job,
           rows' = [rows EXCEPT ![id] = [rows[id] EXCEPT !.people = people]]
    PROVE  RowsFit' /\ JobFits'
<1> DEFINE row == [rows[id] EXCEPT !.people = people]
<1>1. RowFits(rows[id]) /\ rows[id] \in Rows
    BY DEF IInv, RowsFit, RowFits
<1>2. RowFits(row) /\ row \in Rows
    BY <1>1 DEF RowFits, Rows, Fitting, StepOf
<1>3. RowsFit'
    BY <1>2 DEF IInv, RowsFit, Live
<1>4. [row EXCEPT !.people = {}] = [rows[id] EXCEPT !.people = {}]
    BY <1>1 DEF Rows
<1>5. SnapshotCurrent'
    BY <1>4 DEF SnapshotCurrent, IInv, JobFits, JobWaits, RowsFit, Live
<1> QED
    BY <1>3, <1>5 DEF IInv, JobFits, JobWaits

(* A person who joins is all that changes, or retries what failed.         *)
LEMMA JoinStep ==
    ASSUME IInv, LostFits, NEW id \in Ids, NEW person \in People,
           NEW replaced \in SUBSET MayGiveWay, Join(id, person, replaced)
    PROVE  IInv'
<1> DEFINE people == Asking(person, replaced)
           joined == [rows[id] EXCEPT !.people = @ \cup people]
<1>0. people \in SUBSET People
    BY AskingPeople
<1>1. RowFits(rows[id]) /\ rows[id] \in Rows
    BY DEF IInv, RowsFit, Join, RowFits
<1>2. RowFits(joined) /\ joined.status = rows[id].status
  <2> HIDE DEF people
  <2> QED
    BY <1>0, <1>1 DEF RowFits, Rows, Fitting, StepOf
<1>3. CASE joined.status = "failed"
    <2>1. Save(id, Retried(joined)) /\ AskDrop(id, RetryDrops(joined), "person", None)
        BY <1>3 DEF Join
    <2>2. RowFits(Retried(joined))
        BY <1>2, <1>3, RetriedFits
    <2>3. RowsFit' /\ JobFits'
        BY <1>2, <1>3, <2>1, <2>2, PersonsSave DEF IInv, Join
    <2>4. TurnFits' /\ (asked \in SUBSET Keys)'
        BY <1>2, <2>1, TargetsNamed, DropAsked DEF IInv, Join
    <2> QED
        BY <2>3, <2>4 DEF IInv, Join
<1>4. CASE joined.status # "failed"
    <2>1. rows' = [rows EXCEPT ![id] = joined] /\ UNCHANGED <<turn, asked>>
        BY <1>4 DEF Join
    <2>2. rows[id].people \cup people \in SUBSET People
        BY <1>0, <1>1 DEF Rows
    <2>3. Live(id) /\ UNCHANGED job
        BY DEF Join
    <2>4. RowsFit' /\ JobFits'
        BY <2>1, <2>2, <2>3, PeopleChange
    <2> QED
        BY <2>1, <2>4 DEF IInv, Join, TurnFits
<1> QED
    BY <1>3, <1>4

(* What may be chosen waits for a choice, and was offered.                 *)
LEMMA ChosenFits ==
    ASSUME RowsFit, NEW id \in Ids, NEW release, Choosable(id, release),
           NEW n \in Nat, n <= MaxAutoStarts
    PROVE  /\ Live(id) /\ rows[id].status = "needsChoice"
           /\ RowFits(WithChoice(rows[id], release, n))
<1>1. RowFits(rows[id]) /\ rows[id] \in Rows /\ Live(id)
    BY DEF RowsFit, Choosable, RowFits
<1>2. rows[id].status = "needsChoice" /\ release \in Releases
    BY <1>1, TakenFrom DEF Choosable, Rows
<1> QED
    BY <1>1, <1>2, ChoiceFits

(* A choice moves a row that waits for one, which the job does not hold.   *)
LEMMA ChooseReleaseStep ==
    ASSUME IInv, NEW id \in Ids, NEW release \in Releases, ChooseRelease(id, release)
    PROVE  IInv'
<1>1. Choosable(id, release) /\ RowsFit /\ Live(id)
    BY DEF ChooseRelease, IInv, Choosable
<1>2. rows[id].autoStarts \in Nat /\ rows[id].autoStarts <= MaxAutoStarts
    BY <1>1 DEF RowsFit, RowFits, Rows
<1>3. RowsFit' /\ JobFits'
    BY <1>1, <1>2, ChosenFits, PersonsSave DEF IInv, ChooseRelease
<1> QED
    BY <1>3 DEF IInv, ChooseRelease, TurnFits, turnVars

(* A tap on another release moves a row that failed, to its choice or on.  *)
LEMMA ChooseAnotherStep ==
    ASSUME IInv, NEW id \in Ids, NEW release \in Releases, ChooseAnother(id, release)
    PROVE  IInv'
<1> DEFINE row  == rows[id]
           back == BackToChoice(row)
           new  == IF DropTarget(row) = None
                   THEN WithChoice(back, release, row.autoStarts) ELSE back
<1>1. RowFits(row) /\ Live(id) /\ row.status = "failed"
    BY DEF IInv, RowsFit, ChooseAnother
<1>2. RowFits(back) /\ back.status = "needsChoice"
    BY <1>1, BackToChoiceFits
<1>3. row.autoStarts \in Nat /\ row.autoStarts <= MaxAutoStarts
    BY <1>1 DEF RowFits, Rows
<1>4. RowFits(new)
    BY <1>2, <1>3, ChoiceFits
<1>5. Save(id, new)
    BY DEF ChooseAnother
<1>6. RowsFit' /\ JobFits'
    <2> HIDE DEF new
    <2> QED
        BY <1>1, <1>4, <1>5, PersonsSave DEF IInv, ChooseAnother
<1>7. TurnFits' /\ (asked \in SUBSET Keys)'
    BY <1>1, TargetsNamed, DropAsked DEF IInv, ChooseAnother
<1> QED
    BY <1>6, <1>7 DEF IInv, ChooseAnother

(* A request gone leaves the job's row as it was, or gone.                 *)
LEMMA GoneKeepsJob ==
    ASSUME RowsFit, JobFits, NEW id \in Ids, rows' = [rows EXCEPT ![id] = None], UNCHANGED job
    PROVE  JobFits'
<1>1. SnapshotCurrent'
    BY DEF JobFits, SnapshotCurrent, JobWaits, RowsFit, Live
<1> QED
    BY <1>1 DEF JobFits, JobWaits

(* A person who leaves is all that changes, or the request goes.           *)
LEMMA CancelStep ==
    ASSUME IInv, NEW id \in Ids, NEW person \in People, CancelRequest(id, person)
    PROVE  IInv'
<1>1. RowFits(rows[id]) /\ rows[id] \in Rows /\ Live(id)
    BY DEF IInv, RowsFit, CancelRequest, RowFits
<1>2. CASE rows[id].people # {person}
    <2>1. /\ rows' = [rows EXCEPT ![id] = [rows[id] EXCEPT !.people = rows[id].people \ {person}]]
          /\ UNCHANGED <<turn, asked>>
        BY <1>1, <1>2 DEF CancelRequest, IInv, RowsFit
    <2>2. rows[id].people \ {person} \in SUBSET People
        BY <1>1 DEF Rows
    <2>3. UNCHANGED job
        BY DEF CancelRequest
    <2>4. RowsFit' /\ JobFits'
        BY <1>1, <2>1, <2>2, <2>3, PeopleChange
    <2> QED
        BY <2>1, <2>4 DEF IInv, CancelRequest, TurnFits
<1>3. CASE rows[id].people = {person}
    <2>1. rows' = [rows EXCEPT ![id] = None] /\ AskDrop(id, DropTarget(rows[id]), "person", None)
        BY <1>3 DEF CancelRequest
    <2>2. RowsFit' /\ JobFits'
        BY <2>1, GoneKeepsRows, GoneKeepsJob DEF IInv, CancelRequest
    <2>3. TurnFits' /\ (asked \in SUBSET Keys)'
        BY <1>1, <2>1, TargetsNamed, DropAsked DEF IInv, CancelRequest
    <2> QED
        BY <2>2, <2>3 DEF IInv, CancelRequest
<1> QED
    BY <1>2, <1>3

(* The sent call out of the turn leaves a turn of calls.                   *)
LEMMA CallLeaves ==
    ASSUME TurnFits, turn # <<>>, turn' = NextInTurn, UNCHANGED torrents,
           UNCHANGED late \/ Unanswered
    PROVE  TurnFits'
<1>1. SentCall \in Calls /\ NextInTurn \in Seq(NamedCalls)
    BY TurnGoesOn
<1>2. (late \in SUBSET Calls)'
    BY <1>1 DEF TurnFits, Unanswered
<1> QED
    BY <1>1, <1>2 DEF TurnFits

(* A person's drop that ends makes the choice it was for, or none.         *)
LEMMA PersonDropStep ==
    ASSUME IInv, PersonDropEnds
    PROVE  IInv'
<1> DEFINE id   == SentCall.id
           pick == SentCall.pick
<1>1. TurnFits'
    BY CallLeaves DEF IInv, PersonDropEnds
<1>2. SentCall \in Calls
    BY TurnGoesOn DEF IInv, PersonDropEnds
<1>3. id \in Ids
    BY <1>2 DEF Calls
<1>4. CASE Choosable(id, pick) /\ Save(id, WithChoice(rows[id], pick, rows[id].autoStarts))
    <2>1. RowsFit /\ JobFits /\ UNCHANGED job
        BY DEF IInv, PersonDropEnds
    <2>2. rows[id].autoStarts \in Nat /\ rows[id].autoStarts <= MaxAutoStarts
        BY <1>3, <1>4 DEF IInv, RowsFit, RowFits, Rows, Choosable
    <2>3. /\ Live(id) /\ rows[id].status = "needsChoice"
          /\ RowFits(WithChoice(rows[id], pick, rows[id].autoStarts))
        BY <1>3, <1>4, <2>1, <2>2, ChosenFits
    <2>4. RowsFit' /\ JobFits'
        BY <1>3, <1>4, <2>1, <2>3, PersonsSave
    <2> QED
        BY <1>1, <2>4 DEF IInv, PersonDropEnds
<1>5. CASE UNCHANGED rows
    BY <1>1, <1>5 DEF IInv, PersonDropEnds, RowsFit, JobFits, JobWaits, SnapshotCurrent, Live
<1> QED
    BY <1>4, <1>5 DEF PersonDropEnds

----------------------------------------------------------------------------
(* What the job saves                                                      *)

(* A save that loses to a newer row keeps the rows fitting, when what it   *)
(* saves over the row it read fits.                                        *)
LEMMA SaveIfCurrentFits ==
    ASSUME RowsFit, JobFits, job.id \in Ids, NEW row,
           Current => RowFits(row), SaveIfCurrent(row)
    PROVE  RowsFit'
<1>1. CASE Current
    BY <1>1, SaveKeepsRows DEF SaveIfCurrent, Current
<1>2. CASE ~Current
    BY <1>2 DEF SaveIfCurrent, RowsFit, Live
<1> QED
    BY <1>1, <1>2

(* A step that throws fails only the row it read, which was at a step; one *)
(* whose row is gone fails none.                                           *)
LEMMA ThrowFits ==
    ASSUME RowsFit, JobFits, job.pc \in {"search", "start", "poll", "import", "dropLost"},
           StepThrows
    PROVE  RowsFit'
<1>1. CASE UNCHANGED rows
    BY <1>1 DEF RowsFit, Live
<1>2. CASE RecordThrown /\ Live(job.id)
    <2>1. job.pc \in {"search", "start", "poll", "import"}
        BY <1>2 DEF JobFits, SnapshotCurrent
    <2>2. RowFits(MyRow) /\ MyRow.status = job.snap.status /\ job.id \in Ids
        BY <1>2, <2>1, MyRowIsSnap
    <2>3. MyRow.status \in WorkingStatuses
        BY <2>1, <2>2 DEF JobFits, JobWaits, WorkingStatuses
    <2>4. RowFits(After(MyRow, Failed("other")))
        BY <2>2, <2>3, FailureFits DEF Reasons
    <2>5. Save(job.id, After(MyRow, Failed("other")))
        BY <1>2, <2>2 DEF RecordThrown
    <2> HIDE DEF MyRow
    <2> QED
        BY <1>2, <2>2, <2>4, <2>5, SaveKeepsRows
<1>3. CASE RecordThrown /\ ~Live(job.id)
    BY <1>3 DEF RecordThrown, RowsFit, Live
<1> QED
    BY <1>1, <1>2, <1>3 DEF StepThrows

(* A row moved on a step keeps what the step it goes to needs.             *)
LEMMA MovedFits ==
    ASSUME NEW row, RowFits(row), NEW to \in Statuses,
           \/ row.status = "requested" /\ to = "searching"
           \/ row.status = "searching" /\ to = "needsChoice"
           \/ row.status \in {"queued", "downloading"} /\ to = "downloading"
           \/ /\ row.status \in {"queued", "downloading"} /\ to = "importing"
              /\ row.handle # None
           \/ row.status = "importing" /\ to = "inLibrary"
    PROVE  RowFits(After(row, Moved(to)))
<1> row \in Rows
    BY DEF RowFits
<1>1. After(row, Moved(to)) =
        [row EXCEPT !.status = to, !.failedStep = None, !.reason = None]
    BY AfterMove
<1>2. After(row, Moved(to)) \in Rows
    BY <1>1 DEF Rows, Statuses, WorkingStatuses
<1> QED
    BY <1>1, <1>2 DEF RowFits, Fitting, StepOf, Rows, WorkingStatuses

----------------------------------------------------------------------------
(* The job's steps                                                         *)

(* A run begins with nothing read, and ends so.                            *)
LEMMA RunSteps ==
    ASSUME IInv, BeginRun \/ EndRun
    PROVE  IInv'
<1> DEFINE listed == {id \in Ids : Live(id) /\ Working(rows[id])}
<1>1. job' \in Jobs /\ job'.pc \in {"idle", "run"} /\ job'.id = None /\ job'.snap = None
    <2>1. Idle \in Jobs /\ Idle.pc = "idle" /\ Idle.id = None /\ Idle.snap = None
        BY DEF Idle, Jobs
    <2>2. CASE EndRun
        BY <2>1, <2>2 DEF EndRun
    <2>3. CASE BeginRun
        <3>1. listed \in SUBSET Ids
            OBVIOUS
        <3>2. job' = [pc |-> "run", todo |-> listed, id |-> None, snap |-> None]
            BY <2>3 DEF BeginRun, Idle
        <3> HIDE DEF listed
        <3> QED
            BY <3>1, <3>2 DEF Jobs
    <2> QED
        BY <2>2, <2>3
<1>2. JobFits'
    BY <1>1 DEF JobFits, JobWaits, SnapshotCurrent
<1>3. UNCHANGED <<turnVars, rows, asked, crashes>>
    BY DEF BeginRun, EndRun
<1> QED
    BY <1>2, <1>3 DEF IInv, RowsFit, TurnFits, Live, turnVars

(* A request passed over stays as it is.                                   *)
LEMMA PassOverStep ==
    ASSUME IInv, NEW id \in Ids, PassOver(id)
    PROVE  IInv'
<1>1. JobFits'
    BY PassFits DEF IInv, PassOver, Turning
<1> QED
    BY <1>1 DEF IInv, PassOver, RowsFit, TurnFits, Live, turnVars

(* A requested row goes on to its search.                                  *)
LEMMA BeginSearchingStep ==
    ASSUME IInv, NEW id \in Ids, BeginSearching(id)
    PROVE  IInv'
<1>1. Live(id) /\ RowFits(rows[id]) /\ rows[id].status = "requested"
    BY DEF IInv, RowsFit, BeginSearching, StepFrom
<1>2. RowFits(After(rows[id], Moved("searching")))
    BY <1>1, MovedFits DEF Statuses, WorkingStatuses
<1>3. RowsFit'
    BY <1>1, <1>2, SaveKeepsRows DEF IInv, BeginSearching
<1>4. JobFits'
    BY PassFits DEF IInv, BeginSearching, StepFrom, Turning
<1> QED
    BY <1>3, <1>4 DEF IInv, BeginSearching, TurnFits, turnVars

(* The index's answer to an import moves the row to the library or fails   *)
(* it.                                                                     *)
LEMMA IndexAnswersStep ==
    ASSUME IInv, NEW id \in Ids, IndexAnswers(id)
    PROVE  IInv'
<1>1. Live(id) /\ RowFits(rows[id]) /\ rows[id].status = "importing"
    BY DEF IInv, RowsFit, IndexAnswers, StepFrom
<1>2. RowFits(After(rows[id], Moved("inLibrary")))
    BY <1>1, MovedFits DEF Statuses
<1>3. RowFits(After(rows[id], Failed("other")))
    BY <1>1, FailureFits DEF WorkingStatuses, Reasons
<1>4. RowsFit'
    BY <1>1, <1>2, <1>3, SaveKeepsRows DEF IInv, IndexAnswers
<1>5. JobFits'
    BY PassFits DEF IInv, IndexAnswers, StepFrom, Turning
<1> QED
    BY <1>4, <1>5 DEF IInv, IndexAnswers, TurnFits, turnVars

(* A row read and not saved is the one the job waits with.                 *)
LEMMA AskSearchStep ==
    ASSUME IInv, NEW id \in Ids, AskSearch(id)
    PROVE  IInv'
<1>1. RowsFit' /\ Live(id)' /\ UNCHANGED rows
    BY DEF IInv, RowsFit, AskSearch, StepFrom, Live
<1>2. JobFits /\ job.pc = "run" /\ job' = Waits("search", id, rows'[id])
      /\ rows'[id].status = "searching"
    BY <1>1 DEF IInv, AskSearch, StepFrom, Turning
<1>3. JobFits'
    BY <1>1, <1>2, WaitsFits
<1> QED
    BY <1>1, <1>3 DEF IInv, AskSearch, TurnFits, turnVars

(* A poll waits with a row that has a handle.                              *)
LEMMA AskPollStep ==
    ASSUME IInv, NEW id \in Ids, AskPoll(id)
    PROVE  IInv'
<1>1. RowsFit' /\ Live(id)' /\ UNCHANGED rows
    BY DEF IInv, RowsFit, AskPoll, Live
<1>2. JobFits /\ job.pc = "run" /\ job' = Waits("poll", id, rows'[id])
      /\ rows'[id].status \in {"queued", "downloading"} /\ rows'[id].handle # None
    BY <1>1 DEF IInv, AskPoll, Turning
<1>3. JobFits'
    BY <1>1, <1>2, WaitsFits
<1> QED
    BY <1>1, <1>3 DEF IInv, AskPoll, TurnFits, turnVars

(* A row with its next step's key on it still fits: a download with no     *)
(* handle, or an import.                                                   *)
LEMMA KeyedFits ==
    ASSUME RowsFit, JobFits, asked \in SUBSET Keys, NEW id \in Ids, NEW key \in Keys,
           Live(id), Keyed(id, key),
           \/ rows[id].status \in {"queued", "downloading"} /\ rows[id].handle = None
           \/ rows[id].status = "importing"
    PROVE  /\ RowsFit' /\ Live(id)' /\ (asked \in SUBSET Keys)'
           /\ rows'[id].status = rows[id].status
<1>1. RowFits(rows[id]) /\ rows[id] \in Rows
    BY DEF RowsFit, RowFits
<1>2. CASE rows[id].stepKey # None
    BY <1>2 DEF Keyed, RowsFit, Live
<1>3. CASE rows[id].stepKey = None
    <2> DEFINE keyed == [rows[id] EXCEPT !.stepKey = key]
    <2>1. Save(id, keyed) /\ asked' = asked \ {key}
        BY <1>3 DEF Keyed
    <2>2. RowFits(keyed)
        BY <1>1 DEF RowFits, Rows, Fitting, StepOf
    <2>3. RowsFit'
        BY <2>1, <2>2, SaveKeepsRows
    <2>4. Saved(id, keyed) = [keyed EXCEPT !.version = NextVersion(id)] /\ RowFits(Saved(id, keyed))
        BY <2>2, SavedFits
    <2>5. rows'[id] = Saved(id, keyed)
        BY <2>1 DEF Save, RowsFit
    <2>6. rows'[id].status = rows[id].status
        BY <1>1, <2>4, <2>5 DEF Rows
    <2>7. rows'[id] # None
        BY <2>4, <2>5, RowsAreSomething DEF RowFits
    <2> QED
        BY <2>1, <2>3, <2>6, <2>7 DEF Live
<1> QED
    BY <1>2, <1>3

(* A start waits with a keyed row, its call of the row's release.          *)
LEMMA AskStartStep ==
    ASSUME IInv, NEW id \in Ids, NEW key \in Keys, AskStart(id, key)
    PROVE  IInv'
<1>1. RowsFit /\ JobFits /\ asked \in SUBSET Keys /\ Live(id) /\ Keyed(id, key)
    BY DEF IInv, AskStart
<1>2. rows[id].status \in {"queued", "downloading"} /\ rows[id].handle = None
    BY DEF AskStart
<1>3. /\ RowsFit' /\ Live(id)' /\ (asked \in SUBSET Keys)'
      /\ rows'[id].status = rows[id].status
    BY <1>1, <1>2, KeyedFits
<1>4. job.pc = "run" /\ job' = Waits("start", id, rows'[id])
    BY DEF AskStart, Turning
<1>5. JobFits'
    BY <1>1, <1>2, <1>3, <1>4, WaitsFits
<1>6. rows[id].release \in Releases
    BY <1>1, <1>2 DEF RowsFit, RowFits, Rows, Fitting, StepOf
<1>7. StartCall(id, rows[id].release, key) \in NamedCalls
    BY <1>6, TurnConstants DEF StartCall, NamedCalls, Calls
<1>8. TurnFits'
    BY <1>7, TurnGrows DEF AskStart, IInv, TurnFits
<1> QED
    BY <1>3, <1>5, <1>8 DEF IInv, AskStart

(* An import waits with a keyed row.                                       *)
LEMMA AskImportStep ==
    ASSUME IInv, NEW id \in Ids, NEW key \in Keys, AskImport(id, key)
    PROVE  IInv'
<1>1. RowsFit /\ JobFits /\ asked \in SUBSET Keys /\ Live(id) /\ Keyed(id, key)
    BY DEF IInv, AskImport, StepFrom
<1>2. rows[id].status = "importing"
    BY DEF AskImport, StepFrom
<1>3. /\ RowsFit' /\ Live(id)' /\ (asked \in SUBSET Keys)'
      /\ rows'[id].status = rows[id].status
    BY <1>1, <1>2, KeyedFits
<1>4. job.pc = "run" /\ job' = Waits("import", id, rows'[id])
    BY DEF AskImport, StepFrom, Turning
<1>5. JobFits'
    BY <1>1, <1>2, <1>3, <1>4, WaitsFits
<1> QED
    BY <1>3, <1>5 DEF IInv, AskImport, TurnFits, turnVars

----------------------------------------------------------------------------
(* The answers                                                             *)

(* An answer that saves over the row the job read, and takes no call.      *)
LEMMA AnswerSaves ==
    ASSUME IInv, job.pc \in {"search", "start", "poll", "import"}, NEW row,
           Live(job.id) => RowFits(row), SaveIfCurrent(row), job' = StepOver
    PROVE  RowsFit' /\ JobFits'
<1>1. job.id \in Ids
    BY DEF IInv, JobFits, JobWaits
<1>2. Current => RowFits(row)
    BY DEF Current
<1>3. RowsFit'
    BY <1>1, <1>2, SaveIfCurrentFits DEF IInv
<1> QED
    BY <1>3, StepOverFits DEF IInv

(* A search's pick starts a download of the release it picked.             *)
LEMMA PickFits ==
    ASSUME NEW row, RowFits(row), row.status = "searching",
           NEW release \in Releases, NEW others \in SUBSET Releases
    PROVE  RowFits(After([row EXCEPT !.release = release, !.candidates = others],
                         Moved(AfterPicked(Medium))))
<1> DEFINE picked == [row EXCEPT !.release = release, !.candidates = others]
           to     == AfterPicked(Medium)
<1>1. row \in Rows
    BY DEF RowFits
<1>2. to \in {"queued", "downloading"}
    BY PickedDownloads, JobConstants
<1>3. After(picked, Moved(to)) =
        [picked EXCEPT !.status = to, !.failedStep = None, !.reason = None]
    BY AfterMove
<1> HIDE DEF to
<1>4. After(picked, Moved(to)) =
        [row EXCEPT !.release = release, !.candidates = others,
                    !.status = to, !.failedStep = None, !.reason = None]
    BY <1>1, <1>3 DEF Rows
<1> DEFINE moved == After(picked, Moved(to))
<1>5. /\ release # None
      /\ row.handle = None /\ row.stepKey = None /\ row.result = None
      /\ row.autoStarts <= MaxAutoStarts
    BY TurnConstants DEF RowFits, Fitting, StepOf
<1>6. moved = [row EXCEPT !.release = release, !.candidates = others,
                          !.status = to, !.failedStep = None, !.reason = None]
    BY <1>4
<1> HIDE DEF moved, picked
<1>7. /\ moved \in Rows /\ moved.status = to /\ moved.release # None
      /\ moved.handle = None /\ moved.stepKey = None /\ moved.result = None
      /\ moved.autoStarts <= MaxAutoStarts
    BY <1>1, <1>2, <1>5, <1>6 DEF Rows, Statuses, WorkingStatuses
<1>8. RowFits(moved)
    BY <1>2, <1>7 DEF RowFits, Fitting, StepOf
<1> QED
    BY <1>8 DEF moved, picked, to

(* A search answers with what its row, still searching, can take.          *)
LEMMA SearchAnswersStep ==
    ASSUME IInv, SearchAnswers
    PROVE  IInv'
<1>1. job.pc = "search" /\ job' = StepOver
    BY DEF SearchAnswers, Waiting
<1>2. Live(job.id) => RowFits(MyRow) /\ MyRow.status = "searching"
    BY <1>1, MyRowIsSnap DEF IInv, JobFits, JobWaits
<1>3. ASSUME NEW release \in Releases, NEW others \in SUBSET Releases,
             Apply([MyRow EXCEPT !.release = release, !.candidates = others],
                   Moved(AfterPicked(Medium)))
      PROVE  RowsFit' /\ JobFits'
    <2> DEFINE row == After([MyRow EXCEPT !.release = release, !.candidates = others],
                            Moved(AfterPicked(Medium)))
    <2>1. Live(job.id) => RowFits(row)
        BY <1>2, PickFits
    <2>2. SaveIfCurrent(row)
        BY <1>3 DEF Apply
    <2> HIDE DEF row
    <2> QED
        BY <1>1, <2>1, <2>2, AnswerSaves
<1>4. ASSUME NEW candidates \in SUBSET Releases,
             Apply([MyRow EXCEPT !.candidates = candidates], Moved("needsChoice"))
      PROVE  RowsFit' /\ JobFits'
    <2> DEFINE offered == [MyRow EXCEPT !.candidates = candidates]
               row     == After(offered, Moved("needsChoice"))
    <2>1. Live(job.id) => RowFits(offered) /\ offered.status = "searching"
        BY <1>2 DEF RowFits, Rows, Fitting, StepOf
    <2>2. Live(job.id) => RowFits(row)
        BY <2>1, MovedFits DEF Statuses, WorkingStatuses
    <2>3. SaveIfCurrent(row)
        BY <1>4 DEF Apply
    <2> HIDE DEF row
    <2> QED
        BY <1>1, <2>2, <2>3, AnswerSaves
<1>5. ASSUME Apply(MyRow, Failed("other"))
      PROVE  RowsFit' /\ JobFits'
    <2>1. Live(job.id) => RowFits(After(MyRow, Failed("other")))
        BY <1>2, FailureFits DEF Reasons, WorkingStatuses
    <2> QED
        BY <1>1, <1>5, <2>1, AnswerSaves DEF Apply
<1>6. RowsFit' /\ JobFits'
    BY <1>3, <1>4, <1>5 DEF SearchAnswers
<1> QED
    BY <1>6 DEF IInv, SearchAnswers, TurnFits, turnVars

(* A start's answer gives its row a handle; for a row that is gone the job *)
(* waits for its drop.                                                     *)
LEMMA StartAnswersStep ==
    ASSUME IInv, StartAnswers
    PROVE  IInv'
<1> DEFINE handle == [hash |-> SentCall.hash, key |-> SentCall.key]
<1>1. /\ job.pc = "start" /\ turn # <<>> /\ SentCall.kind = "start"
      /\ UNCHANGED <<torrents, late, crashes>>
    BY DEF StartAnswers, Waiting, Sent
<1>2. /\ SentCall \in NamedCalls /\ NextInTurn \in Seq(NamedCalls)
      /\ RowsFit /\ JobFits /\ TurnFits
    BY <1>1, TurnGoesOn DEF IInv
<1>3. SentCall.hash \in Releases /\ SentCall.key \in Keys
    BY <1>1, <1>2 DEF NamedCalls, Calls
<1>4. handle \in Handles /\ handle.key \in Keys /\ handle.hash \in Releases
    BY <1>3 DEF Handles
<1>5. job.id \in Ids /\ job.snap \in Rows
    BY <1>1, <1>2 DEF JobFits, JobWaits
<1> HIDE DEF handle
<1>6. CASE Current
    <2> DEFINE row == [MyRow EXCEPT !.handle = handle, !.stepKey = None]
    <2>1. Save(job.id, row) /\ turn' = NextInTurn /\ job' = StepOver /\ UNCHANGED asked
        BY <1>6 DEF StartAnswers, handle
    <2>2. /\ RowFits(MyRow) /\ MyRow.status \in {"queued", "downloading"}
        BY <1>1, <1>2, <1>6, MyRowIsSnap DEF Current, JobFits, JobWaits
    <2>3. RowFits(row)
        BY <1>4, <2>2 DEF RowFits, Rows, Fitting, StepOf
    <2>4. RowsFit'
        <3> HIDE DEF row
        <3> QED
            BY <1>2, <1>5, <1>6, <2>1, <2>3, SaveKeepsRows DEF Current
    <2>5. JobFits'
        BY <1>2, <2>1, StepOverFits
    <2> QED
        BY <1>1, <1>2, <2>1, <2>4, <2>5 DEF IInv, TurnFits
<1>7. CASE ~Current
    <2> DEFINE drop == CancelCall(job.id, handle, "job", None)
    <2>1. /\ turn' = Append(NextInTurn, drop) /\ asked' = asked \cup {handle.key}
          /\ job' = [job EXCEPT !.pc = "dropLost"] /\ UNCHANGED rows
        BY <1>7 DEF StartAnswers, handle
    <2>2. ~Live(job.id)
        BY <1>1, <1>2, <1>7, MyRowIsSnap
    <2>3. /\ job' \in Jobs /\ job'.pc = "dropLost"
          /\ job'.id = job.id /\ job'.snap = job.snap
        BY <1>2, <2>1 DEF JobFits, Jobs
    <2>4. JobFits'
        BY <1>5, <2>1, <2>2, <2>3 DEF JobFits, JobWaits, SnapshotCurrent, Live
    <2>5. drop \in NamedCalls
        BY <1>4, <1>5 DEF CancelCall, NamedCalls, Calls
    <2>6. turn' \in Seq(NamedCalls)
        BY <1>2, <2>1, <2>5, TurnGrows
    <2> QED
        BY <1>1, <1>2, <1>4, <2>1, <2>4, <2>6 DEF IInv, TurnFits, RowsFit, Live
<1> QED
    BY <1>6, <1>7

(* A start that gives no answer fails its row, or leaves it.               *)
LEMMA StartThrowsStep ==
    ASSUME IInv, StartThrows
    PROVE  IInv'
<1>1. TurnFits'
    <2>1. UNCHANGED late \/ Unanswered
        BY DEF StartThrows
    <2> QED
        BY <2>1, CallLeaves DEF IInv, StartThrows
<1>2. RowsFit'
    BY ThrowFits DEF IInv, StartThrows, Waiting
<1>3. JobFits'
    BY StepOverFits DEF IInv, StartThrows
<1> QED
    BY <1>1, <1>2, <1>3 DEF IInv, StartThrows

(* The drop of a download that belongs to nobody ends.                     *)
LEMMA LostDropStep ==
    ASSUME IInv, LostDropEnds
    PROVE  IInv'
<1>1. TurnFits'
    <2>1. UNCHANGED late \/ Unanswered
        BY DEF LostDropEnds
    <2> QED
        BY <2>1, CallLeaves DEF IInv, LostDropEnds
<1>2. RowsFit'
    <2>1. CASE UNCHANGED rows
        BY <2>1 DEF IInv, RowsFit, Live
    <2>2. CASE StepThrows
        BY <2>2, ThrowFits DEF IInv, LostDropEnds, Waiting
    <2> QED
        BY <2>1, <2>2 DEF LostDropEnds
<1>3. JobFits'
    BY StepOverFits DEF IInv, LostDropEnds
<1> QED
    BY <1>1, <1>2, <1>3 DEF IInv, LostDropEnds

(* A step that throws with no call out.                                    *)
LEMMA StepFailsStep ==
    ASSUME IInv, StepFails
    PROVE  IInv'
<1>1. RowsFit'
    BY ThrowFits DEF IInv, StepFails
<1>2. JobFits'
    BY StepOverFits DEF IInv, StepFails
<1> QED
    BY <1>1, <1>2 DEF IInv, StepFails, TurnFits, turnVars

(* A poll's answer keeps the row's handle, wherever it moves it.           *)
LEMMA PollAnswersStep ==
    ASSUME IInv, PollAnswers
    PROVE  IInv'
<1>1. job.pc = "poll" /\ job' = StepOver
    BY DEF PollAnswers, Waiting
<1>2. job.snap.status \in {"queued", "downloading"} /\ job.snap.handle # None
    BY <1>1 DEF IInv, JobFits, JobWaits
<1>3. Live(job.id) =>
        /\ RowFits(MyRow) /\ MyRow.status \in {"queued", "downloading"}
        /\ MyRow.status = job.snap.status /\ MyRow.handle # None
    BY <1>1, <1>2, MyRowIsSnap DEF IInv
<1>4. ASSUME NEW to \in {"downloading", "importing"}, Apply(MyRow, Moved(to))
      PROVE  RowsFit' /\ JobFits'
    <2>1. Live(job.id) => RowFits(After(MyRow, Moved(to)))
        BY <1>3, MovedFits DEF Statuses, WorkingStatuses
    <2> QED
        BY <1>1, <1>4, <2>1, AnswerSaves DEF Apply
<1>5. ASSUME Apply(MyRow, Failed("other"))
      PROVE  RowsFit' /\ JobFits'
    <2>1. Live(job.id) => RowFits(After(MyRow, Failed("other")))
        BY <1>3, FailureFits DEF Reasons, WorkingStatuses
    <2> QED
        BY <1>1, <1>5, <2>1, AnswerSaves DEF Apply
<1>6. ASSUME SaveIfCurrent(MyRow)
      PROVE  RowsFit' /\ JobFits'
    BY <1>1, <1>3, <1>6, AnswerSaves
<1>7. RowsFit' /\ JobFits'
    BY <1>4, <1>5, <1>6 DEF PollAnswers
<1> QED
    BY <1>7 DEF IInv, PollAnswers, TurnFits, turnVars

(* A stall fails the row; a row that may go on to another release goes     *)
(* back to its choice while the job waits for the drop.                    *)
LEMMA PollStallsStep ==
    ASSUME IInv, PollStalls
    PROVE  IInv'
<1> DEFINE failed == Stalled(MyRow)
<1>1. job.pc = "poll" /\ job.snap.status = "downloading"
    BY DEF PollStalls, Waiting
<1>2. RowsFit /\ JobFits /\ TurnFits /\ job.id \in Ids /\ job.snap \in Rows
    BY <1>1 DEF IInv, JobFits, JobWaits
<1>3. Live(job.id) => /\ RowFits(MyRow) /\ MyRow.status = "downloading"
                      /\ MyRow.autoStarts = job.snap.autoStarts
    BY <1>1, <1>2, MyRowIsSnap
<1>4. Live(job.id) => RowFits(failed)
    BY <1>3, FailureFits DEF Stalled, Reasons, WorkingStatuses
<1>5. CASE Current /\ MayStartAnother(failed)
    <2>1. PICK following \in OtherReleases(failed) :
              /\ Save(job.id, BackToChoice(failed))
              /\ AskDrop(job.id, DropTarget(failed), "job", following)
              /\ job' = [job EXCEPT !.pc = "dropStalled"]
        BY <1>5 DEF PollStalls
    <2>2. Live(job.id) /\ RowFits(failed) /\ failed \in Rows
        BY <1>4, <1>5 DEF Current, RowFits
    <2>3. RowFits(BackToChoice(failed))
        BY <2>2, BackToChoiceFits
    <2>4. RowsFit'
        BY <1>2, <2>1, <2>2, <2>3, SaveKeepsRows
    <2>5. following \in Releases
        BY <2>2 DEF OtherReleases, Rows
    <2>6. TurnFits' /\ (asked \in SUBSET Keys)'
        <3>1. DropTarget(failed) \in Targets \cup {None}
            BY <2>2, TargetsNamed
        <3>2. UNCHANGED <<torrents, late>> /\ asked \in SUBSET Keys
            BY DEF IInv, PollStalls
        <3> QED
            BY <1>2, <2>1, <2>5, <3>1, <3>2, DropAsked
    <2>7. failed.autoStarts = MyRow.autoStarts
        <3>1. failed = [MyRow EXCEPT !.status = "failed", !.failedStep = MyRow.status,
                                     !.reason = "downloadStalled"]
            BY <1>3, <2>2, AfterEvents DEF Stalled, RowFits
        <3> QED
            BY <1>3, <2>2, <3>1 DEF RowFits, Rows
    <2>8. job.snap.autoStarts < MaxAutoStarts
        BY <1>3, <1>5, <2>2, <2>7 DEF MayStartAnother
    <2>9. /\ job' \in Jobs /\ job'.pc = "dropStalled"
          /\ job'.id = job.id /\ job'.snap = job.snap
        BY <1>2, <2>1 DEF JobFits, Jobs
    <2>10. JobFits'
        BY <1>2, <2>8, <2>9 DEF JobFits, JobWaits, SnapshotCurrent
    <2> QED
        BY <2>4, <2>6, <2>10 DEF IInv, PollStalls
<1>6. CASE ~(Current /\ MayStartAnother(failed))
    <2>1. SaveIfCurrent(failed) /\ job' = StepOver /\ UNCHANGED <<turn, asked>>
        BY <1>6 DEF PollStalls
    <2>2. RowsFit' /\ JobFits'
        <3> HIDE DEF failed
        <3> QED
            BY <1>1, <1>4, <2>1, AnswerSaves
    <2> QED
        BY <2>1, <2>2 DEF IInv, PollStalls, TurnFits
<1> QED
    BY <1>5, <1>6

(* The next release is chosen inside the cap: the job read fewer starts.   *)
LEMMA StalledDropStep ==
    ASSUME IInv, StalledDropEnds
    PROVE  IInv'
<1> DEFINE pick == SentCall.pick
           n    == job.snap.autoStarts + 1
<1>1. TurnFits'
    <2>1. UNCHANGED late \/ Unanswered
        BY DEF StalledDropEnds
    <2> QED
        BY <2>1, CallLeaves DEF IInv, StalledDropEnds
<1>2. RowsFit /\ JobFits /\ job.id \in Ids /\ n \in Nat /\ n <= MaxAutoStarts
    <2>1. job.id \in Ids /\ job.snap \in Rows /\ job.snap.autoStarts < MaxAutoStarts
        BY DEF IInv, StalledDropEnds, Waiting, JobFits, JobWaits
    <2>2. job.snap.autoStarts \in Nat
        BY <2>1 DEF Rows
    <2>3. \A x \in Nat : x < MaxAutoStarts => x + 1 \in Nat /\ x + 1 <= MaxAutoStarts
        BY JobConstants
    <2>4. n \in Nat /\ n <= MaxAutoStarts
        BY ONLY <2>1, <2>2, <2>3, Zenon
    <2> QED
        BY <2>1, <2>4 DEF IInv
<1> HIDE DEF n
<1>3. RowsFit'
    <2>1. CASE Choosable(job.id, pick) /\ Save(job.id, WithChoice(MyRow, pick, n))
        BY <1>2, <2>1, ChosenFits, SaveKeepsRows DEF MyRow
    <2>2. CASE UNCHANGED rows
        BY <1>2, <2>2 DEF RowsFit, Live
    <2> QED
        BY <2>1, <2>2 DEF StalledDropEnds, n
<1>4. JobFits'
    BY <1>2, StepOverFits DEF StalledDropEnds
<1> QED
    BY <1>1, <1>3, <1>4 DEF IInv, StalledDropEnds

(* An import names what it made of the release its row stands by.          *)
LEMMA ImportAnswersStep ==
    ASSUME IInv, ImportAnswers
    PROVE  IInv'
<1> DEFINE named == [MyRow EXCEPT !.result = job.snap.release, !.stepKey = None]
<1>1. job.pc = "import" /\ job' = StepOver
    BY DEF ImportAnswers, Waiting
<1>2. Live(job.id) => /\ RowFits(MyRow) /\ MyRow.status = "importing"
                      /\ MyRow.release = job.snap.release
    BY <1>1, MyRowIsSnap DEF IInv, JobFits, JobWaits
<1>3. Live(job.id) => RowFits(named)
    BY <1>2 DEF RowFits, Rows, Fitting, StepOf
<1>4. Live(job.id) => RowFits(After(MyRow, Failed("other")))
    BY <1>2, FailureFits DEF Reasons, WorkingStatuses
<1> HIDE DEF named
<1>5. ASSUME SaveIfCurrent(named)
      PROVE  RowsFit' /\ JobFits'
    BY <1>1, <1>3, <1>5, AnswerSaves
<1>6. ASSUME Apply(MyRow, Failed("other"))
      PROVE  RowsFit' /\ JobFits'
    BY <1>1, <1>4, <1>6, AnswerSaves DEF Apply
<1>7. ASSUME UNCHANGED rows
      PROVE  RowsFit' /\ JobFits'
    BY <1>1, <1>7, StepOverFits DEF IInv, RowsFit, Live
<1>8. RowsFit' /\ JobFits'
    BY <1>5, <1>6, <1>7 DEF ImportAnswers, named
<1> QED
    BY <1>8 DEF IInv, ImportAnswers, TurnFits, turnVars

----------------------------------------------------------------------------
(* The client and the restart                                              *)

(* The reads and writes of a call keep the turn a turn of calls.           *)
LEMMA ClientKeepsTurn ==
    ASSUME TurnFits, ClientStep
    PROVE  TurnFits'
<1>1. \A call \in Calls : AfterRead(call) \in Calls
    <2> SUFFICES ASSUME NEW call \in Calls PROVE AfterRead(call) \in Calls
        OBVIOUS
    <2> DEFINE found == Deletable(call)
               stage == IF found = {} THEN "done" ELSE "writing"
    <2>1. CASE call.kind = "start"
        BY <2>1 DEF AfterRead, Calls
    <2>2. CASE call.kind # "start"
        <3>1. found \in SUBSET Releases /\ stage \in {"writing", "done"}
            BY DEF Deletable
        <3>2. AfterRead(call) = [call EXCEPT !.found = found, !.stage = stage]
            BY <2>2 DEF AfterRead
        <3> HIDE DEF found, stage
        <3> QED
            BY <3>1, <3>2 DEF Calls
    <2> QED
        BY <2>1, <2>2
<1>2. \A call \in NamedCalls : AfterRead(call) \in NamedCalls
    <2> SUFFICES ASSUME NEW call \in NamedCalls PROVE AfterRead(call) \in NamedCalls
        OBVIOUS
    <2>1. call \in Calls /\ AfterRead(call) \in Calls
        BY <1>1 DEF NamedCalls
    <2>2. AfterRead(call).kind = call.kind /\ AfterRead(call).hash = call.hash
        <3>1. CASE call.kind = "start"
            BY <2>1, <3>1 DEF AfterRead, Calls
        <3>2. CASE call.kind # "start"
            BY <2>1, <3>2 DEF AfterRead, Calls
        <3> QED
            BY <3>1, <3>2
    <2> QED
        BY <2>1, <2>2 DEF NamedCalls
<1>3. \A call \in Calls : AfterWrite(call) \in [Releases -> Keys \cup {None, ByHand}]
    BY DEF AfterWrite, TurnFits, Calls
<1>4. CASE TurnReads
    <2>1. AfterRead(SentCall) \in NamedCalls /\ turn # <<>> /\ turn \in Seq(NamedCalls)
        BY <1>2, <1>4, TurnGoesOn DEF TurnReads, Sent, TurnFits
    <2>2. (turn \in Seq(NamedCalls))'
        BY <1>4, <2>1, HeadReplaced DEF TurnReads
    <2> QED
        BY <1>4, <2>2 DEF TurnReads, TurnFits
<1>5. CASE TurnWrites
    <2>1. SentCall \in NamedCalls /\ SentCall \in Calls /\ turn # <<>> /\ turn \in Seq(NamedCalls)
        BY <1>5, TurnGoesOn DEF TurnWrites, Sent, TurnFits
    <2>2. SentCall = turn[1] /\ 1 \in DOMAIN turn
        BY <2>1, HeadTailProperties, EmptySeq, LenProperties DEF SentCall
    <2>3. [SentCall EXCEPT !.stage = "done"] \in NamedCalls
        BY <2>1 DEF NamedCalls, Calls
    <2>4. turn' = [turn EXCEPT ![1] = [SentCall EXCEPT !.stage = "done"]]
        BY <1>5, <2>2 DEF TurnWrites
    <2>5. (turn \in Seq(NamedCalls))'
        BY <2>1, <2>3, <2>4, HeadReplaced
    <2> QED
        BY <1>3, <1>5, <2>1, <2>5 DEF TurnWrites, TurnFits
<1>6. ASSUME NEW call \in late, LateReads(call) \/ LateWrites(call) \/ LateLost(call)
      PROVE  TurnFits'
    <2>1. call \in Calls
        BY <1>6 DEF TurnFits
    <2>2. AfterRead(call) \in Calls
        BY <1>1, <2>1
    <2>3. AfterWrite(call) \in [Releases -> Keys \cup {None, ByHand}]
        BY <1>3, <2>1
    <2> QED
        BY <1>6, <2>2, <2>3 DEF LateReads, LateWrites, LateLost, TurnFits
<1>7. ASSUME NEW h \in Releases, RemovedByHand(h) \/ AddedByHand(h)
      PROVE  TurnFits'
    BY <1>7 DEF RemovedByHand, AddedByHand, TurnFits
<1> QED
    BY <1>4, <1>5, <1>6, <1>7 DEF ClientStep

(* What the client does is nothing to the rows or the job.                 *)
LEMMA ClientActs ==
    ASSUME IInv, Client
    PROVE  IInv'
<1>1. TurnFits'
    BY ClientKeepsTurn DEF IInv, Client
<1> QED
    BY <1>1 DEF IInv, Client, RowsFit, JobFits, JobWaits, SnapshotCurrent, Live

(* A restart forgets the turn and what the job read.                       *)
LEMMA CrashStep ==
    ASSUME IInv, Crash
    PROVE  IInv'
<1>1. JobFits'
    BY DEF Crash, Idle, JobFits, JobWaits, Jobs, SnapshotCurrent
<1>2. (late \in SUBSET Calls)'
    <2>1. turn # <<>> => SentCall \in Calls
        BY TurnGoesOn DEF IInv
    <2> QED
        BY <2>1 DEF Crash, Sent, IInv, TurnFits
<1>3. (turn \in Seq(NamedCalls))'
    BY EmptySeq DEF Crash
<1>4. RowsFit'
    BY DEF Crash, IInv, RowsFit, Live
<1> QED
    BY <1>1, <1>2, <1>3, <1>4 DEF Crash, IInv, TurnFits

(* What the job does loses no row, and no key but for a new one.           *)
LEMMA JobLoses ==
    ASSUME JobActs
    PROVE  \/ UNCHANGED rowsLost
           \/ \E id \in Ids, key \in Keys : AskStart(id, key) \/ AskImport(id, key)
<1>1. ASSUME NEW id \in Ids,
             \/ PassOver(id) \/ BeginSearching(id) \/ AskSearch(id)
             \/ IndexAnswers(id) \/ AskPoll(id)
      PROVE  UNCHANGED rowsLost
    BY <1>1 DEF PassOver, BeginSearching, AskSearch, IndexAnswers, AskPoll
<1>2. ASSUME \/ BeginRun \/ EndRun
             \/ SearchAnswers \/ StartAnswers \/ StartThrows \/ LostDropEnds
             \/ PollAnswers \/ PollStalls \/ StalledDropEnds \/ ImportAnswers \/ StepFails
      PROVE  UNCHANGED rowsLost
    BY <1>2 DEF BeginRun, EndRun, SearchAnswers, StartAnswers, StartThrows, LostDropEnds,
       PollAnswers, PollStalls, StalledDropEnds, ImportAnswers, StepFails
<1> QED
    BY <1>1, <1>2 DEF JobActs

(* What is lost is of rows that fit.                                       *)
LEMMA StepLoses ==
    ASSUME IInv, LostFits, [Next]_vars
    PROVE  LostFits'
<1>1. CASE UNCHANGED rowsLost
    BY <1>1 DEF rowsLost, LostFits
<1>2. ASSUME NEW id, NEW person, NEW replaced \in SUBSET MayGiveWay,
             Create(id, person, replaced) \/ Join(id, person, replaced)
      PROVE  LostFits'
  <2>1. GiveWay(replaced)
      BY <1>2 DEF Create, Join
  <2> QED
      BY <2>1 DEF GiveWay, MayGiveWay, LostFits, Lost
<1>3. ASSUME NEW id \in Ids, NEW key \in Keys, AskStart(id, key) \/ AskImport(id, key)
      PROVE  LostFits'
  <2>1. unreadable' = unreadable /\ Keyed(id, key)
      BY <1>3 DEF AskStart, AskImport
  <2> QED
      BY <2>1 DEF Keyed, LostFits
<1>4. CASE Crash
  <2>1. \A id \in Ids : Live(id) => Unread(rows[id]) \in Lost
      BY DEF IInv, RowsFit, Rows, Live, Unread, Lost
  <2> QED
      BY <1>4, <2>1 DEF Crash, LostFits
<1>5. CASE PersonActs
  <2>1. ASSUME NEW id, NEW person, CancelRequest(id, person)
        PROVE  UNCHANGED rowsLost
      BY <2>1 DEF CancelRequest
  <2>2. ASSUME NEW id, RetryRequest(id)
        PROVE  UNCHANGED rowsLost
      BY <2>2 DEF RetryRequest
  <2>3. ASSUME NEW id, NEW release, ChooseRelease(id, release) \/ ChooseAnother(id, release)
        PROVE  UNCHANGED rowsLost
      BY <2>3 DEF ChooseRelease, ChooseAnother
  <2> QED
      BY <1>1, <1>2, <1>5, <2>1, <2>2, <2>3 DEF PersonActs, PersonDropEnds
<1>6. CASE JobActs
    BY <1>1, <1>3, <1>6, JobLoses
<1> QED
    BY <1>1, <1>4, <1>5, <1>6 DEF Next, Client, vars

----------------------------------------------------------------------------
(* The invariant                                                           *)

(* IInv holds at the start.                                                *)
LEMMA InitFits == Init => IInv /\ LostFits
<1> SUFFICES ASSUME Init PROVE IInv /\ LostFits
    OBVIOUS
<1>1. RowsFit
    BY DEF Init, RowsFit, Live
<1>2. JobFits
    BY DEF Init, Idle, JobFits, JobWaits, Jobs, SnapshotCurrent
<1>3. TurnFits
    BY EmptySeq DEF Init, TurnFits
<1> QED
    BY <1>1, <1>2, <1>3 DEF Init, IInv, LostFits

(* Every step keeps IInv.                                                  *)
LEMMA StepFits == IInv /\ LostFits /\ [Next]_vars => IInv'
<1> SUFFICES ASSUME IInv, LostFits, [Next]_vars PROVE IInv'
    OBVIOUS
<1>1. CASE PersonActs
    <2>0. ASSUME NEW id \in Ids, NEW person \in People, NEW replaced \in SUBSET MayGiveWay,
                 Create(id, person, replaced) \/ Join(id, person, replaced)
          PROVE  IInv'
        BY <2>0, CreateStep, JoinStep
    <2>1. ASSUME NEW id \in Ids, NEW person \in People, CancelRequest(id, person)
          PROVE  IInv'
        BY <2>1, CancelStep
    <2>2. ASSUME NEW id \in Ids, RetryRequest(id)
          PROVE  IInv'
        BY <2>2, RetryStep
    <2>3. ASSUME NEW id \in Ids, NEW release \in Releases,
                 ChooseRelease(id, release) \/ ChooseAnother(id, release)
          PROVE  IInv'
        BY <2>3, ChooseReleaseStep, ChooseAnotherStep
    <2> QED
        BY <1>1, <2>0, <2>1, <2>2, <2>3, PersonDropStep DEF PersonActs
<1>2. CASE JobActs
    <2>1. ASSUME NEW id \in Ids,
                 \/ PassOver(id) \/ BeginSearching(id) \/ AskSearch(id)
                 \/ IndexAnswers(id) \/ AskPoll(id)
          PROVE  IInv'
        BY <2>1, PassOverStep, BeginSearchingStep, AskSearchStep, IndexAnswersStep, AskPollStep
    <2>2. ASSUME NEW id \in Ids, NEW key \in Keys, AskStart(id, key) \/ AskImport(id, key)
          PROVE  IInv'
        BY <2>2, AskStartStep, AskImportStep
    <2>3. ASSUME \/ SearchAnswers \/ StartAnswers \/ StartThrows \/ LostDropEnds
                 \/ PollAnswers \/ PollStalls \/ StalledDropEnds \/ ImportAnswers \/ StepFails
          PROVE  IInv'
        BY <2>3, SearchAnswersStep, StartAnswersStep, StartThrowsStep, LostDropStep,
           PollAnswersStep, PollStallsStep, StalledDropStep, ImportAnswersStep, StepFailsStep
    <2> QED
        BY <1>2, <2>1, <2>2, <2>3, RunSteps DEF JobActs
<1>3. CASE Client \/ Crash
    BY <1>3, ClientActs, CrashStep
<1>4. CASE UNCHANGED vars
    BY <1>4 DEF vars, turnVars, IInv, RowsFit, JobFits, JobWaits, SnapshotCurrent, TurnFits, Live
<1> QED
    BY <1>1, <1>2, <1>3, <1>4 DEF Next

(* IInv holds in every state of the job and the taps, and what rows that   *)
(* can no longer be read hold is of its type.                              *)
THEOREM Invariant == Spec => []IInv /\ []LostFits
<1>1. IInv /\ LostFits /\ [Next]_vars => (IInv /\ LostFits)'
    BY StepFits, StepLoses
<1> QED
    BY <1>1, InitFits, PTL DEF Spec

(* The state of the job, the rows and the turn keeps its types.            *)
THEOREM Typed == Spec => []TypeOK
<1>1. IInv /\ LostFits => TypeOK
    <2>1. NamedCalls \subseteq Calls
        BY DEF NamedCalls
    <2>2. Seq(NamedCalls) \subseteq Seq(Calls)
        BY <2>1
    <2> QED
        BY <2>2 DEF IInv, RowsFit, JobFits, TurnFits, TypeOK, TurnTypeOK, LostFits
<1> QED
    BY <1>1, Invariant, PTL

(* Every row keeps what fits where it stands: a release and at most one    *)
(* thing to drop it by in a download, nothing of a release before one.     *)
THEOREM KeepsFitting == Spec => []KeepsWhatFits
<1>1. IInv => KeepsWhatFits
    BY DEF IInv, RowsFit, RowFits, KeepsWhatFits
<1> QED
    BY <1>1, Invariant, PTL

(* No tap moves the row whose step the job waits for.                      *)
THEOREM SnapshotStays == Spec => []SnapshotCurrent
<1>1. IInv => SnapshotCurrent
    BY DEF IInv, JobFits
<1> QED
    BY <1>1, Invariant, PTL

(* What an import named is of the release its request stands by.           *)
THEOREM ResultOfRelease == Spec => []ResultIsOfRelease
<1>1. IInv => ResultIsOfRelease
    BY DEF IInv, RowsFit, RowFits, ResultIsOfRelease
<1> QED
    BY <1>1, Invariant, PTL

(* The job starts no more releases by itself than MAX_AUTO_STARTS.         *)
THEOREM StartsCapped == Spec => []AutoStartsCapped
<1>1. IInv => AutoStartsCapped
    BY DEF IInv, RowsFit, RowFits, AutoStartsCapped
<1> QED
    BY <1>1, Invariant, PTL

----------------------------------------------------------------------------
(* The refinement: the machine, as the lifecycle instantiates it           *)

(* The lifecycle's machine is the job's.                                   *)
LEMMA SameEvents ==
    /\ \A to : Lifecycle!Moved(to) = Moved(to)
    /\ \A reason : Lifecycle!Failed(reason) = Failed(reason)
    /\ Lifecycle!Retry = Retry /\ Lifecycle!Chose = Chose
    /\ Lifecycle!PickAnother = PickAnother
    /\ \A status : Lifecycle!Enter(status) = Enter(status)
    /\ Lifecycle!Statuses = Statuses /\ Lifecycle!Reasons = Reasons
  BY DEF Lifecycle!Moved, Moved, Lifecycle!Failed, Failed, Lifecycle!Retry, Retry,
     Lifecycle!Chose, Chose, Lifecycle!PickAnother, PickAnother, Lifecycle!Enter, Enter,
     Lifecycle!Statuses, Statuses, Lifecycle!Reasons, Reasons, Lifecycle!WorkingStatuses,
     WorkingStatuses

(* The lifecycle's routes are the job's.                                   *)
LEMMA SameRoutes ==
    /\ \A status : Lifecycle!OnPath(Medium, status) <=> OnPath(Medium, status)
    /\ \A state : Lifecycle!OnRoute(Medium, state) <=> OnRoute(Medium, state)
    /\ \A status : Lifecycle!MovesFrom(Medium, status) = MovesFrom(Medium, status)
    /\ Lifecycle!AfterPicked(Medium) = AfterPicked(Medium)
<1>1. Lifecycle!ROUTES = ROUTES
    BY DEF Lifecycle!ROUTES, ROUTES
<1>2. \A status : Lifecycle!OnPath(Medium, status) <=> OnPath(Medium, status)
    BY <1>1 DEF Lifecycle!OnPath, OnPath
<1>3. \A status : Lifecycle!MovesFrom(Medium, status) = MovesFrom(Medium, status)
    BY <1>1, SameEvents, Zenon DEF Lifecycle!MovesFrom, MovesFrom
<1>4. Lifecycle!AfterPicked(Medium) = AfterPicked(Medium)
    BY Zenon DEF Lifecycle!AfterPicked, AfterPicked, Lifecycle!ROUTES, ROUTES
<1>5. \A state : Lifecycle!OnRoute(Medium, state) <=> OnRoute(Medium, state)
    BY <1>2, Zenon DEF Lifecycle!OnRoute, OnRoute
<1> QED
    BY <1>2, <1>3, <1>4, <1>5

(* The lifecycle's machine takes what the job's does, and leads where it   *)
(* does.                                                                   *)
LEMMA SameMachine ==
    ASSUME NEW state, NEW event
    PROVE  /\ Lifecycle!Allowed(Medium, state, event) <=> Allowed(Medium, state, event)
           /\ Lifecycle!NextState(Medium, state, event) = NextState(Medium, state, event)
<1>1. Lifecycle!Allowed(Medium, state, event) <=> Allowed(Medium, state, event)
    BY SameEvents, SameRoutes DEF Lifecycle!Allowed, Allowed,
       Lifecycle!FromFailedAllowed, FromFailedAllowed, Lifecycle!PICK_ANOTHER_AFTER, PICK_ANOTHER_AFTER
<1>2. Lifecycle!NextState(Medium, state, event) = NextState(Medium, state, event)
    BY SameEvents, SameRoutes, Zenon DEF Lifecycle!NextState, NextState
<1> QED
    BY <1>1, <1>2

----------------------------------------------------------------------------
(* Every request stands on its medium's route.                             *)
OnRoutes == \A id \in Ids : Live(id) => OnRoute(Medium, StateOf(rows[id]))

(* A step from one status of the route to one it reaches.                  *)
LEMMA RouteStep ==
    ASSUME NEW i \in DOMAIN ROUTES[Medium], NEW j \in DOMAIN ROUTES[Medium],
           ROUTES[Medium][i] # "needsChoice", ROUTES[Medium][j] \in Statuses,
           \/ j = i + 1
           \/ j = i + 2 /\ ROUTES[Medium][i + 1] = "needsChoice"
           \/ j = i /\ ROUTES[Medium][i] = "downloading"
    PROVE  ROUTES[Medium][j] \in MovesFrom(Medium, ROUTES[Medium][i])
  BY DEF MovesFrom

(* The route of the medium, status by status.                              *)
LEMMA RouteIs ==
    /\ Medium = "song" =>
          /\ DOMAIN ROUTES[Medium] = 1..5
          /\ ROUTES[Medium][1] = "requested" /\ ROUTES[Medium][2] = "searching"
          /\ ROUTES[Medium][3] = "downloading" /\ ROUTES[Medium][4] = "importing"
          /\ ROUTES[Medium][5] = "inLibrary"
    /\ Medium # "song" =>
          /\ DOMAIN ROUTES[Medium] = 1..7
          /\ ROUTES[Medium][1] = "requested" /\ ROUTES[Medium][2] = "searching"
          /\ ROUTES[Medium][3] = "needsChoice" /\ ROUTES[Medium][4] = "queued"
          /\ ROUTES[Medium][5] = "downloading" /\ ROUTES[Medium][6] = "importing"
          /\ ROUTES[Medium][7] = "inLibrary"
<1>1. /\ ROUTES["song"] = <<"requested", "searching", "downloading", "importing", "inLibrary">>
      /\ \A medium \in {"book", "album"} :
            ROUTES[medium] = <<"requested", "searching", "needsChoice", "queued",
                               "downloading", "importing", "inLibrary">>
    BY DEF ROUTES
<1>2. Medium # "song" => Medium \in {"book", "album"}
    BY JobConstants
<1> QED
    BY <1>1, <1>2

(* What the job does of a row is a move the machine takes.                 *)
LEMMA JobsMoves ==
           /\ "searching" \in MovesFrom(Medium, "requested")
           /\ AfterPicked(Medium) \in MovesFrom(Medium, "searching")
           /\ OnPath(Medium, "needsChoice") => "needsChoice" \in MovesFrom(Medium, "searching")
           /\ OnPath(Medium, "queued") => "downloading" \in MovesFrom(Medium, "queued")
           /\ "downloading" \in MovesFrom(Medium, "downloading")
           /\ "importing" \in MovesFrom(Medium, "downloading")
           /\ "inLibrary" \in MovesFrom(Medium, "importing")
<1>0. Medium \in {"book", "album", "song"}
    BY JobConstants
<1> USE DEF Statuses, WorkingStatuses
<1>1. CASE Medium = "song"
    <2> DEFINE route == ROUTES[Medium]
    <2>1. /\ DOMAIN route = 1..5
          /\ route[1] = "requested" /\ route[2] = "searching" /\ route[3] = "downloading"
          /\ route[4] = "importing" /\ route[5] = "inLibrary"
        BY <1>1, RouteIs
    <2>2. \A i \in 1..5 : ROUTES[Medium][i] \in Statuses
        BY <2>1
    <2>5. /\ route[2] \in MovesFrom(Medium, route[1])
          /\ route[3] \in MovesFrom(Medium, route[2])
          /\ route[3] \in MovesFrom(Medium, route[3])
          /\ route[4] \in MovesFrom(Medium, route[3])
          /\ route[5] \in MovesFrom(Medium, route[4])
      <3>1. route[2] \in MovesFrom(Medium, route[1])
          BY <2>1, <2>2, 1 + 1 = 2, RouteStep
      <3>2. route[3] \in MovesFrom(Medium, route[2])
          BY <2>1, <2>2, 2 + 1 = 3, RouteStep
      <3>3. route[3] \in MovesFrom(Medium, route[3])
          BY <2>1, <2>2, RouteStep
      <3>4. route[4] \in MovesFrom(Medium, route[3])
          BY <2>1, <2>2, 3 + 1 = 4, RouteStep
      <3>5. route[5] \in MovesFrom(Medium, route[4])
          BY <2>1, <2>2, 4 + 1 = 5, RouteStep
      <3> QED
          BY <3>1, <3>2, <3>3, <3>4, <3>5
    <2> HIDE DEF route
    <2>3. AfterPicked(Medium) = "downloading"
        BY <1>1, PickedDownloads
    <2>4. ~OnPath(Medium, "needsChoice") /\ ~OnPath(Medium, "queued")
        BY <2>1 DEF OnPath, route
    <2> QED
        BY <2>1, <2>3, <2>4, <2>5
<1>2. CASE Medium # "song"
    <2> DEFINE route == ROUTES[Medium]
    <2>1. /\ DOMAIN route = 1..7
          /\ route[1] = "requested" /\ route[2] = "searching" /\ route[3] = "needsChoice"
          /\ route[4] = "queued" /\ route[5] = "downloading"
          /\ route[6] = "importing" /\ route[7] = "inLibrary"
        BY <1>2, RouteIs
    <2>2. \A i \in 1..7 : ROUTES[Medium][i] \in Statuses
        BY <2>1
    <2>5. /\ route[2] \in MovesFrom(Medium, route[1])
          /\ route[3] \in MovesFrom(Medium, route[2])
          /\ route[4] \in MovesFrom(Medium, route[2])
          /\ route[5] \in MovesFrom(Medium, route[4])
          /\ route[5] \in MovesFrom(Medium, route[5])
          /\ route[6] \in MovesFrom(Medium, route[5])
          /\ route[7] \in MovesFrom(Medium, route[6])
      <3>1. route[2] \in MovesFrom(Medium, route[1])
          BY <2>1, <2>2, 1 + 1 = 2, RouteStep
      <3>2. route[3] \in MovesFrom(Medium, route[2])
          BY <2>1, <2>2, 2 + 1 = 3, RouteStep
      <3>3. route[4] \in MovesFrom(Medium, route[2])
          BY <2>1, <2>2, 2 + 1 = 3, 2 + 2 = 4, RouteStep
      <3>4. route[5] \in MovesFrom(Medium, route[4])
          BY <2>1, <2>2, 4 + 1 = 5, RouteStep
      <3>5. route[5] \in MovesFrom(Medium, route[5])
          BY <2>1, <2>2, RouteStep
      <3>6. route[6] \in MovesFrom(Medium, route[5])
          BY <2>1, <2>2, 5 + 1 = 6, RouteStep
      <3>7. route[7] \in MovesFrom(Medium, route[6])
          BY <2>1, <2>2, 6 + 1 = 7, RouteStep
      <3> QED
          BY <3>1, <3>2, <3>3, <3>4, <3>5, <3>6, <3>7
    <2> HIDE DEF route
    <2>3. AfterPicked(Medium) = "queued"
        BY <1>0, <1>2, PickedDownloads
    <2> QED
        BY <2>1, <2>3, <2>5
<1> QED
    BY <1>1, <1>2

(* The events the machine knows.                                           *)
Events ==
    {Moved(to) : to \in Statuses} \cup {Failed(reason) : reason \in Reasons}
      \cup {Retry, Chose, PickAnother}

(* Where an event takes a row is where the machine leads.                  *)
LEMMA EventState ==
    ASSUME NEW row \in Rows, NEW event \in Events
    PROVE  StateOf(After(row, event)) = NextState(Medium, StateOf(row), event)
<1>1. ASSUME NEW to, event = Moved(to)
      PROVE  StateOf(After(row, event)) = NextState(Medium, StateOf(row), event)
    <2>1. After(row, event) = [row EXCEPT !.status = to, !.failedStep = None, !.reason = None]
        BY <1>1, AfterMove
    <2>2. NextState(Medium, StateOf(row), event) = Enter(to)
        BY <1>1, NextStates
    <2> QED
        BY <2>1, <2>2 DEF StateOf, Enter, Rows
<1>2. ASSUME NEW reason, event = Failed(reason)
      PROVE  StateOf(After(row, event)) = NextState(Medium, StateOf(row), event)
    <2>1. After(row, event) =
            [row EXCEPT !.status = "failed", !.failedStep = row.status, !.reason = reason]
        BY <1>2, AfterEvents
    <2>2. NextState(Medium, StateOf(row), event) =
            [status |-> "failed", failedStep |-> StateOf(row).status, reason |-> reason]
        BY <1>2, NextStates
    <2> QED
        BY <2>1, <2>2 DEF StateOf, Rows
<1>3. CASE event = Retry
    <2>1. After(row, event) =
            [row EXCEPT !.status = row.failedStep, !.failedStep = None, !.reason = None]
        BY <1>3, AfterEvents
    <2>2. NextState(Medium, StateOf(row), event) = Enter(StateOf(row).failedStep)
        BY <1>3, NextStates
    <2> QED
        BY <2>1, <2>2 DEF StateOf, Enter, Rows
<1>4. CASE event = Chose
    <2>1. After(row, event) =
            [row EXCEPT !.status = AfterPicked(Medium), !.failedStep = None, !.reason = None]
        BY <1>4, AfterEvents
    <2>2. NextState(Medium, StateOf(row), event) = Enter(AfterPicked(Medium))
        BY <1>4, NextStates
    <2> QED
        BY <2>1, <2>2 DEF StateOf, Enter, Rows
<1>5. CASE event = PickAnother
    <2>1. After(row, event) =
            [row EXCEPT !.status = "needsChoice", !.failedStep = None, !.reason = None]
        BY <1>5, AfterEvents
    <2>2. NextState(Medium, StateOf(row), event) = Enter("needsChoice")
        BY <1>5, NextStates
    <2> QED
        BY <2>1, <2>2 DEF StateOf, Enter, Rows
<1> QED
    BY <1>1, <1>2, <1>3, <1>4, <1>5 DEF Events

(* An event keeps a state on its route.                                    *)
LEMMA EventStaysOnRoute ==
    ASSUME NEW state, NEW event \in Events, Allowed(Medium, state, event),
           state.status = "failed" => state.failedStep \in WorkingStatuses
    PROVE  OnRoute(Medium, NextState(Medium, state, event))
<1>0. OnRoute(Medium, state)
    BY DEF Allowed
<1>1. ASSUME NEW to \in Statuses, event = Moved(to)
      PROVE  OnRoute(Medium, NextState(Medium, state, event))
    <2>1. NextState(Medium, state, event) = Enter(to)
        BY <1>1, NextStates
    <2>2. event.type = "moved" /\ event.to = to
        BY <1>1 DEF Moved
    <2>3. to \in MovesFrom(Medium, state.status)
        BY <1>1, <2>2 DEF Allowed, FromFailedAllowed, Moved, Retry, PickAnother
    <2>4. OnPath(Medium, to)
        BY <2>3 DEF MovesFrom, OnPath
    <2>5. to # "failed"
        BY <2>4, RouteIs DEF OnPath
    <2> QED
        BY <2>1, <2>4, <2>5 DEF OnRoute, Enter
<1>2. ASSUME NEW reason, event = Failed(reason)
      PROVE  OnRoute(Medium, NextState(Medium, state, event))
    <2>1. NextState(Medium, state, event) =
            [status |-> "failed", failedStep |-> state.status, reason |-> reason]
        BY <1>2, NextStates
    <2>2. state.status # "failed"
        BY <1>2 DEF Allowed, FromFailedAllowed, Failed, Retry, PickAnother
    <2> QED
        BY <1>0, <2>1, <2>2 DEF OnRoute
<1>3. CASE event = Retry
    <2>1. state.status = "failed"
        BY <1>3, PersonsEvents
    <2>2. NextState(Medium, state, event) = Enter(state.failedStep)
        BY <1>3, NextStates
    <2> QED
        BY <1>0, <2>1, <2>2 DEF OnRoute, Enter, WorkingStatuses
<1>4. CASE event = Chose
    <2>1. NextState(Medium, state, event) = Enter(AfterPicked(Medium))
        BY <1>4, NextStates
    <2>2. AfterPicked(Medium) \in MovesFrom(Medium, "searching")
        BY JobsMoves
    <2>3. OnPath(Medium, AfterPicked(Medium))
        BY <2>2 DEF MovesFrom, OnPath
    <2>4. AfterPicked(Medium) # "failed"
        BY PickedDownloads, JobConstants
    <2> QED
        BY <2>1, <2>3, <2>4 DEF OnRoute, Enter
<1>5. CASE event = PickAnother
    <2>1. NextState(Medium, state, event) = Enter("needsChoice")
        BY <1>5, NextStates
    <2>2. OnPath(Medium, "needsChoice")
        BY <1>5 DEF Allowed, FromFailedAllowed, PickAnother, Retry
    <2> QED
        BY <2>1, <2>2 DEF OnRoute, Enter
<1> QED
    BY <1>1, <1>2, <1>3, <1>4, <1>5 DEF Events

----------------------------------------------------------------------------
(* The steps, as the lifecycle has them                                    *)

(* A step is one of the lifecycle's, or none of its concern, and keeps     *)
(* every request on its route.                                             *)
Follows == [Lifecycle!Moves]_RequestStates /\ OnRoutes'

(* A step that moves no request.                                           *)
LEMMA StandsStill ==
    ASSUME OnRoutes,
           \A id \in Ids : /\ Live(id)' <=> Live(id)
                           /\ Live(id) => StateOf(rows'[id]) = StateOf(rows[id])
    PROVE  Follows
<1>1. RequestStates' = RequestStates
    BY DEF RequestStates
<1>2. OnRoutes'
    BY DEF OnRoutes
<1> QED
    BY <1>1, <1>2 DEF Follows

(* A saved row stands where it was saved.                                  *)
LEMMA SavedStands ==
    ASSUME IInv, NEW id \in Ids, Live(id), NEW row \in Rows, Save(id, row)
    PROVE  /\ Live(id)' /\ StateOf(rows'[id]) = StateOf(row)
           /\ \A other \in Ids : other # id => rows'[other] = rows[other]
           /\ rows' \in [Ids -> Rows \cup {None}]
           /\ RequestStates' = [RequestStates EXCEPT ![id] = StateOf(row)]
           /\ RequestStates[id] = StateOf(rows[id])
           /\ RequestStates[id] # None
<1>1. /\ rows \in [Ids -> Rows \cup {None}]
      /\ rows[id] \in Rows /\ rows[id].status \in Statuses
      /\ rows[id].failedStep \in WorkingStatuses \cup {None}
      /\ rows[id].reason \in Reasons \cup {None}
    BY DEF IInv, RowsFit, Live, Rows
<1>2. NextVersion(id) \in Versions
  <2>1. CASE job.id = id
      <3>1. job.snap \in Rows
          BY <2>1, TurnConstants DEF IInv, JobFits, JobWaits
      <3>2. \E v \in Versions : v # rows[id].version /\ v # job.snap.version
          BY <1>1, <3>1, JobConstants DEF Rows
      <3> QED
          BY <2>1, <3>2 DEF NextVersion
  <2>2. CASE job.id # id
      BY <2>2, JobConstants DEF NextVersion
  <2> QED
      BY <2>1, <2>2
<1>3. Saved(id, row) \in Rows /\ StateOf(Saved(id, row)) = StateOf(row)
    BY <1>2 DEF Saved, Rows, StateOf
<1>4. rows' = [rows EXCEPT ![id] = Saved(id, row)]
    BY DEF Save
<1>5. Live(id)' /\ StateOf(rows'[id]) = StateOf(row)
    BY <1>1, <1>3, <1>4, RowsAreSomething DEF Live
<1>6. /\ \A other \in Ids : other # id => rows'[other] = rows[other]
      /\ rows' \in [Ids -> Rows \cup {None}]
    BY <1>1, <1>3, <1>4
<1>7. RequestStates' = [RequestStates EXCEPT ![id] = StateOf(row)]
    BY <1>5, <1>6 DEF RequestStates, Live
<1>8. RequestStates[id] = StateOf(rows[id])
    BY DEF RequestStates
<1>9. StateOf(rows[id]) \in States
    BY <1>1 DEF StateOf, States
<1> QED
    BY <1>5, <1>6, <1>7, <1>8, <1>9, RowsAreSomething

(* A save that moves its request nowhere.                                  *)
LEMMA SavedStill ==
    ASSUME IInv, OnRoutes, NEW id \in Ids, Live(id), NEW row \in Rows, Save(id, row),
           StateOf(row) = StateOf(rows[id])
    PROVE  Follows
<1>1. /\ Live(id)' /\ StateOf(rows'[id]) = StateOf(rows[id])
      /\ \A other \in Ids : other # id => rows'[other] = rows[other]
    BY SavedStands
<1> QED
    BY <1>1, StandsStill DEF Live

(* One request is saved on its route: the others stay on theirs.           *)
LEMMA OthersStay ==
    ASSUME IInv, OnRoutes, NEW id \in Ids, Live(id), NEW row \in Rows, Save(id, row),
           OnRoute(Medium, StateOf(row))
    PROVE  OnRoutes'
<1>1. /\ Live(id)' /\ StateOf(rows'[id]) = StateOf(row)
      /\ \A other \in Ids : other # id => rows'[other] = rows[other]
    BY SavedStands
<1> QED
    BY <1>1 DEF OnRoutes, Live

(* A row that failed names the step it failed in.                          *)
LEMMA FailedStepKnown ==
    ASSUME IInv, NEW id \in Ids, Live(id)
    PROVE  /\ rows[id] \in Rows /\ RowFits(rows[id])
           /\ StateOf(rows[id]).status = "failed" =>
                  StateOf(rows[id]).failedStep \in WorkingStatuses
    BY DEF IInv, RowsFit, RowFits, StateOf

(* A save that moves its request by an event the machine takes.            *)
LEMMA EventSaved ==
    ASSUME IInv, OnRoutes, NEW id \in Ids, Live(id), NEW event \in Events,
           Takes(rows[id], event), NEW row \in Rows, Save(id, row),
           StateOf(row) = NextState(Medium, StateOf(rows[id]), event)
    PROVE  Follows
<1>1. Allowed(Medium, StateOf(rows[id]), event)
    BY DEF Takes
<1>2. OnRoute(Medium, StateOf(row))
    BY <1>1, FailedStepKnown, EventStaysOnRoute
<1>3. OnRoutes'
    BY <1>2, OthersStay
<1>4. Lifecycle!Takes(id, event)
    BY <1>1, SavedStands, SameMachine DEF Lifecycle!Takes
<1>5. event \in Lifecycle!Events
    BY SameEvents DEF Events, Lifecycle!Events
<1>6. Lifecycle!Moves
    BY <1>4, <1>5 DEF Lifecycle!Moves
<1> QED
    BY <1>3, <1>6 DEF Follows

(* A save that moves its request by two events in one turn.                *)
LEMMA TwoEventsSaved ==
    ASSUME IInv, OnRoutes, NEW id \in Ids, Live(id), NEW first, NEW second,
           \/ first = Failed("downloadStalled") /\ second = PickAnother
           \/ first = PickAnother /\ second = Chose,
           Takes(rows[id], first),
           NEW between \in States,
           between = NextState(Medium, StateOf(rows[id]), first),
           between.status = "failed" => between.failedStep \in WorkingStatuses,
           Allowed(Medium, between, second),
           NEW row \in Rows, Save(id, row),
           StateOf(row) = NextState(Medium, between, second)
    PROVE  Follows
<1>1. Allowed(Medium, StateOf(rows[id]), first)
    BY DEF Takes
<1>2. first \in Events /\ second \in Events
    BY DEF Events, Reasons
<1>3. OnRoute(Medium, StateOf(row))
    BY <1>2, EventStaysOnRoute
<1>4. OnRoutes'
    BY <1>3, OthersStay
<1>5. Lifecycle!TakesBoth(id, first, second)
  <2>1. /\ RequestStates[id] # None
        /\ Lifecycle!Allowed(Medium, RequestStates[id], first)
        /\ Lifecycle!NextState(Medium, RequestStates[id], first) = between
        /\ Lifecycle!Allowed(Medium, between, second)
        /\ RequestStates' = [RequestStates EXCEPT
                ![id] = Lifecycle!NextState(Medium, between, second)]
      BY <1>1, SavedStands, SameMachine
  <2> QED
      BY <2>1, Zenon DEF Lifecycle!TakesBoth
<1>6. \/ Lifecycle!TakesBoth(id, Lifecycle!Failed("downloadStalled"), Lifecycle!PickAnother)
      \/ Lifecycle!TakesBoth(id, Lifecycle!PickAnother, Lifecycle!Chose)
    BY <1>5, SameEvents
<1>7. Lifecycle!Moves
    BY <1>6 DEF Lifecycle!Moves
<1> QED
    BY <1>4, <1>7 DEF Follows

----------------------------------------------------------------------------
(* What the machine takes of a row on its route.                           *)

(* A working row fails, and moves where its route goes on.                 *)
LEMMA JobsEventsTaken ==
    ASSUME NEW row \in Rows, OnRoute(Medium, StateOf(row)), row.status # "failed"
    PROVE  /\ \A to \in MovesFrom(Medium, row.status) :
                  Takes(row, Moved(to)) /\ Moved(to) \in Events
           /\ row.status # "inLibrary" =>
                  \A reason \in Reasons : Takes(row, Failed(reason)) /\ Failed(reason) \in Events
<1>1. StateOf(row).status = row.status
    BY DEF StateOf
<1>2. \A to \in MovesFrom(Medium, row.status) : to \in Statuses
    BY DEF MovesFrom
<1> QED
    BY <1>1, <1>2 DEF Takes, Allowed, Moved, Failed, Events

(* A failed row is retried.                                                *)
LEMMA RetryTaken ==
    ASSUME NEW row \in Rows, OnRoute(Medium, StateOf(row)), row.status = "failed"
    PROVE  Takes(row, Retry) /\ Retry \in Events
  BY DEF Takes, Allowed, FromFailedAllowed, StateOf, Events

(* A row saved by an event it takes, whatever else it is saved with.       *)
LEMMA RowMoved ==
    ASSUME IInv, OnRoutes, NEW id \in Ids, Live(id), NEW event \in Events,
           Takes(rows[id], event), NEW row \in Rows, Save(id, row),
           StateOf(row) = StateOf(After(rows[id], event))
    PROVE  Follows
<1>1. rows[id] \in Rows
    BY FailedStepKnown
<1>2. StateOf(row) = NextState(Medium, StateOf(rows[id]), event)
    BY <1>1, EventState
<1> QED
    BY <1>2, EventSaved

(* A row saved by an event it takes, from a row that stands where it does. *)
LEMMA StandInMoved ==
    ASSUME IInv, OnRoutes, NEW id \in Ids, Live(id), NEW event \in Events,
           NEW standIn \in Rows, StateOf(standIn) = StateOf(rows[id]),
           Takes(rows[id], event), NEW row \in Rows, Save(id, row),
           StateOf(row) = StateOf(After(standIn, event))
    PROVE  Follows
<1>1. StateOf(row) = NextState(Medium, StateOf(standIn), event)
    BY EventState
<1> QED
    BY <1>1, EventSaved

----------------------------------------------------------------------------
(* What a person does                                                      *)

(* A new request is made where the lifecycle makes one.                    *)
LEMMA CreateFollows ==
    ASSUME IInv, LostFits, OnRoutes, NEW id \in Ids, NEW person \in People,
           NEW replaced \in SUBSET MayGiveWay, Create(id, person, replaced)
    PROVE  Follows
<1> DEFINE row == NewRow(Asking(person, replaced))
<1>1. StateOf(row) = Enter("requested") /\ row # None
  <2>1. row \in Rows
      BY AskingPeople, JobConstants DEF NewRow, Rows, Statuses, WorkingStatuses
  <2> QED
      BY <2>1, RowsAreSomething DEF NewRow, StateOf, Enter
<1>2. /\ rows \in [Ids -> Rows \cup {None}] /\ rows' = [rows EXCEPT ![id] = row] /\ ~Live(id)
    BY DEF IInv, RowsFit, Create
<1>3. rows'[id] = row /\ \A other \in Ids : other # id => rows'[other] = rows[other]
    BY <1>2
<1> HIDE DEF row
<1>4. RequestStates' = [RequestStates EXCEPT ![id] = Enter("requested")] /\ RequestStates[id] = None
    BY <1>1, <1>2, <1>3 DEF RequestStates, Live
<1>5. OnRoute(Medium, Enter("requested"))
  <2>1. OnPath(Medium, "requested")
      BY RouteIs DEF OnPath
  <2> QED
      BY <2>1 DEF OnRoute, Enter
<1>6. OnRoutes'
    BY <1>1, <1>3, <1>5 DEF OnRoutes, Live
<1>7. Lifecycle!Make(id)
    BY <1>4, SameEvents DEF Lifecycle!Make
<1> QED
    BY <1>6, <1>7 DEF Follows, Lifecycle!Moves

(* A retried row stands where its retry leads.                             *)
LEMMA RetriedStands ==
    ASSUME NEW row, RowFits(row), row.status = "failed"
    PROVE  Retried(row) \in Rows /\ StateOf(Retried(row)) = StateOf(After(row, Retry))
<1>1. row \in Rows /\ Retried(row) \in Rows
    BY RetriedFits DEF RowFits
<1>2. After(row, Retry) =
        [row EXCEPT !.status = row.failedStep, !.failedStep = None, !.reason = None]
    BY <1>1, AfterEvents
<1> QED
    BY <1>1, <1>2 DEF Retried, StateOf, Rows

(* A retry is the machine's.                                               *)
LEMMA RetryFollows ==
    ASSUME IInv, OnRoutes, NEW id \in Ids, RetryRequest(id)
    PROVE  Follows
<1>1. /\ Live(id) /\ Takes(rows[id], Retry) /\ Save(id, Retried(rows[id]))
      /\ RowFits(rows[id]) /\ rows[id] \in Rows
    BY FailedStepKnown DEF RetryRequest
<1>2. rows[id].status = "failed"
    BY <1>1, TakenFrom
<1>3. Retried(rows[id]) \in Rows /\ StateOf(Retried(rows[id])) = StateOf(After(rows[id], Retry))
    BY <1>1, <1>2, RetriedStands
<1>4. Retry \in Events
    BY DEF Events
<1> QED
    BY <1>1, <1>3, <1>4, RowMoved

(* A person who joins moves no request, or retries one that failed.        *)
LEMMA JoinFollows ==
    ASSUME IInv, LostFits, OnRoutes, NEW id \in Ids, NEW person \in People,
           NEW replaced \in SUBSET MayGiveWay, Join(id, person, replaced)
    PROVE  Follows
<1> DEFINE joined == [rows[id] EXCEPT !.people = @ \cup Asking(person, replaced)]
<1>1. Live(id) /\ RowFits(rows[id]) /\ rows[id] \in Rows
    BY FailedStepKnown DEF Join
<1>2. /\ joined \in Rows /\ RowFits(joined) /\ joined.status = rows[id].status
      /\ StateOf(joined) = StateOf(rows[id])
    BY <1>1, AskingPeople DEF RowFits, Rows, Fitting, StepOf, StateOf
<1>3. CASE joined.status = "failed"
    <2>1. Save(id, Retried(joined))
        BY <1>3 DEF Join
    <2>2. Retried(joined) \in Rows /\ StateOf(Retried(joined)) = StateOf(After(joined, Retry))
        BY <1>2, <1>3, RetriedStands
    <2>3. Takes(rows[id], Retry) /\ Retry \in Events
        BY <1>1, <1>2, <1>3, RetryTaken DEF OnRoutes
    <2> HIDE DEF joined
    <2> QED
        BY <1>1, <1>2, <2>1, <2>2, <2>3, StandInMoved
<1>4. CASE joined.status # "failed"
    <2>1. rows' = [rows EXCEPT ![id] = joined]
        BY <1>4 DEF Join
    <2> HIDE DEF joined
    <2>2. /\ rows'[id] = joined /\ joined # None
          /\ \A other \in Ids : other # id => rows'[other] = rows[other]
        BY <1>2, <2>1, RowsAreSomething DEF IInv, RowsFit
    <2> QED
        BY <1>1, <1>2, <2>2, StandsStill DEF Live
<1> QED
    BY <1>3, <1>4

(* A choice stands where the machine's choice leads.                       *)
LEMMA ChoiceStands ==
    ASSUME NEW row \in Rows, NEW release, NEW n
    PROVE  StateOf(WithChoice(row, release, n)) = StateOf(After(row, Chose))
<1>1. After(row, Chose) =
        [row EXCEPT !.status = AfterPicked(Medium), !.failedStep = None, !.reason = None]
    BY AfterEvents
<1> QED
    BY <1>1 DEF WithChoice, StateOf, Rows

(* A release that may be chosen is, by the machine's choice.               *)
LEMMA ChosenFollows ==
    ASSUME IInv, OnRoutes, NEW id \in Ids, NEW release, Choosable(id, release),
           NEW n \in Nat, n <= MaxAutoStarts, Save(id, WithChoice(rows[id], release, n))
    PROVE  Follows
<1>1. Live(id) /\ Takes(rows[id], Chose) /\ rows[id] \in Rows
    BY FailedStepKnown DEF Choosable
<1>2. WithChoice(rows[id], release, n) \in Rows
    BY ChosenFits DEF IInv, RowFits
<1>3. StateOf(WithChoice(rows[id], release, n)) = StateOf(After(rows[id], Chose))
    BY <1>1, ChoiceStands
<1>4. Chose \in Events
    BY DEF Events
<1> QED
    BY <1>1, <1>2, <1>3, <1>4, RowMoved

(* A person's choice is the machine's.                                     *)
LEMMA ChooseReleaseFollows ==
    ASSUME IInv, OnRoutes, NEW id \in Ids, NEW release \in Releases, ChooseRelease(id, release)
    PROVE  Follows
<1>1. Choosable(id, release) /\ Save(id, WithChoice(rows[id], release, rows[id].autoStarts))
    BY DEF ChooseRelease
<1>2. rows[id].autoStarts \in Nat /\ rows[id].autoStarts <= MaxAutoStarts
    BY <1>1, FailedStepKnown DEF Choosable, RowFits, Rows
<1> QED
    BY <1>1, <1>2, ChosenFollows

(* The way back to the choice stands where the machine's leads, and takes  *)
(* a choice.                                                               *)
LEMMA BackStands ==
    ASSUME NEW row, RowFits(row), Takes(row, PickAnother)
    PROVE  /\ BackToChoice(row) \in Rows
           /\ StateOf(BackToChoice(row)) = NextState(Medium, StateOf(row), PickAnother)
           /\ StateOf(BackToChoice(row)) \in States
           /\ StateOf(BackToChoice(row)).status = "needsChoice"
           /\ Takes(BackToChoice(row), Chose)
<1>1. row \in Rows /\ BackToChoice(row) \in Rows
    BY BackToChoiceFits DEF RowFits
<1>2. After(row, PickAnother) =
        [row EXCEPT !.status = "needsChoice", !.failedStep = None, !.reason = None]
    BY <1>1, AfterEvents
<1>3. StateOf(BackToChoice(row)) = StateOf(After(row, PickAnother))
    BY <1>1, <1>2 DEF BackToChoice, StateOf, Rows
<1>4. StateOf(BackToChoice(row)) = NextState(Medium, StateOf(row), PickAnother)
    BY <1>1, <1>3, EventState DEF Events
<1>5. StateOf(BackToChoice(row)) = Enter("needsChoice")
    BY <1>4, NextStates
<1>6. OnPath(Medium, "needsChoice")
    BY DEF Takes, Allowed, FromFailedAllowed, PickAnother, Retry
<1>7. Takes(BackToChoice(row), Chose)
    BY <1>5, <1>6 DEF Takes, Allowed, OnRoute, Enter, Chose
<1> QED
    BY <1>1, <1>4, <1>5, <1>7 DEF Enter, States, Statuses, WorkingStatuses

(* A tap on another release goes back to the choice, and makes it at once  *)
(* when there is nothing to drop.                                          *)
LEMMA ChooseAnotherFollows ==
    ASSUME IInv, OnRoutes, NEW id \in Ids, NEW release \in Releases, ChooseAnother(id, release)
    PROVE  Follows
<1> DEFINE row    == rows[id]
           back   == BackToChoice(row)
           chosen == WithChoice(back, release, row.autoStarts)
<1>1. /\ Live(id) /\ RowFits(row) /\ row \in Rows
      /\ release \in OtherReleases(row)
    BY FailedStepKnown DEF ChooseAnother
<1>2. Takes(row, PickAnother)
    BY <1>1 DEF OtherReleases
<1>3. /\ back \in Rows /\ RowFits(back) /\ back.status = "needsChoice"
      /\ StateOf(back) = NextState(Medium, StateOf(row), PickAnother)
      /\ StateOf(back) \in States /\ StateOf(back).status = "needsChoice"
      /\ Takes(back, Chose)
    BY <1>1, <1>2, BackStands, BackToChoiceFits
<1>4. PickAnother \in Events /\ Chose \in Events
    BY DEF Events
<1>5. CASE DropTarget(row) = None
    <2>1. Save(id, chosen)
        BY <1>5 DEF ChooseAnother
    <2>2. row.autoStarts \in Nat /\ row.autoStarts <= MaxAutoStarts
        BY <1>1 DEF RowFits, Rows
    <2>3. chosen \in Rows
        BY <1>3, <2>2, ChoiceFits DEF RowFits
    <2>4. StateOf(chosen) = NextState(Medium, StateOf(back), Chose)
        BY <1>3, <1>4, ChoiceStands, EventState
    <2>5. Allowed(Medium, StateOf(back), Chose)
        BY <1>3 DEF Takes
    <2> HIDE DEF chosen, back
    <2> QED
        BY <1>1, <1>2, <1>3, <2>1, <2>3, <2>4, <2>5, TwoEventsSaved
<1>6. CASE DropTarget(row) # None
    <2>1. Save(id, back)
        BY <1>6 DEF ChooseAnother
    <2> HIDE DEF back
    <2> QED
        BY <1>1, <1>2, <1>3, <1>4, <2>1, EventSaved
<1> QED
    BY <1>5, <1>6

(* The last to leave cancels the request, which is not in the library.     *)
LEMMA CancelFollows ==
    ASSUME IInv, OnRoutes, NEW id \in Ids, NEW person \in People, CancelRequest(id, person)
    PROVE  Follows
<1>1. /\ Live(id) /\ rows[id] \in Rows /\ rows \in [Ids -> Rows \cup {None}]
      /\ rows[id].status # "inLibrary"
    BY FailedStepKnown DEF CancelRequest, IInv, RowsFit
<1>2. CASE rows[id].people # {person}
    <2>1. rows' = [rows EXCEPT ![id].people = @ \ {person}]
        BY <1>2 DEF CancelRequest
    <2>2. /\ rows'[id] = [rows[id] EXCEPT !.people = @ \ {person}]
          /\ \A other \in Ids : other # id => rows'[other] = rows[other]
        BY <1>1, <2>1
    <2>3. rows'[id] \in Rows /\ StateOf(rows'[id]) = StateOf(rows[id])
        BY <1>1, <2>2 DEF Rows, StateOf
    <2> QED
        BY <1>1, <2>2, <2>3, RowsAreSomething, StandsStill DEF Live
<1>3. CASE rows[id].people = {person}
    <2>1. rows' = [rows EXCEPT ![id] = None]
        BY <1>3 DEF CancelRequest
    <2>2. rows'[id] = None /\ \A other \in Ids : other # id => rows'[other] = rows[other]
        BY <1>1, <2>1
    <2>3. RequestStates' = [RequestStates EXCEPT ![id] = None]
        BY <2>2 DEF RequestStates, Live
    <2>4. RequestStates[id] # None /\ RequestStates[id].status # "inLibrary"
      <3>1. StateOf(rows[id]) \in States /\ StateOf(rows[id]).status = rows[id].status
          BY <1>1 DEF StateOf, States, Rows
      <3>2. RequestStates[id] = StateOf(rows[id])
          BY <1>1 DEF RequestStates
      <3> QED
          BY <1>1, <3>1, <3>2, RowsAreSomething
    <2>5. OnRoutes'
        BY <2>2 DEF OnRoutes, Live
    <2>6. Lifecycle!Cancel(id)
        BY <2>3, <2>4 DEF Lifecycle!Cancel
    <2> QED
        BY <2>5, <2>6 DEF Follows, Lifecycle!Moves
<1> QED
    BY <1>2, <1>3

(* A person's drop that ends makes a choice the row takes, or none.        *)
LEMMA PersonDropFollows ==
    ASSUME IInv, OnRoutes, PersonDropEnds
    PROVE  Follows
<1> DEFINE id   == SentCall.id
           pick == SentCall.pick
<1>1. id \in Ids
    BY TurnGoesOn DEF IInv, PersonDropEnds, Calls
<1>2. CASE Choosable(id, pick) /\ Save(id, WithChoice(rows[id], pick, rows[id].autoStarts))
    <2>1. rows[id].autoStarts \in Nat /\ rows[id].autoStarts <= MaxAutoStarts
        BY <1>1, <1>2, FailedStepKnown DEF Choosable, RowFits, Rows
    <2> QED
        BY <1>1, <1>2, <2>1, ChosenFollows
<1>3. CASE UNCHANGED rows
    BY <1>3, StandsStill DEF Live
<1> QED
    BY <1>2, <1>3 DEF PersonDropEnds

----------------------------------------------------------------------------
(* The job's steps                                                         *)

(* A row moved on its route, whatever else of it is saved.                 *)
LEMMA MovedFollows ==
    ASSUME IInv, OnRoutes, NEW id \in Ids, Live(id),
           rows[id].status # "failed", NEW to \in MovesFrom(Medium, rows[id].status),
           NEW standIn \in Rows, StateOf(standIn) = StateOf(rows[id]),
           RowFits(After(standIn, Moved(to))), Save(id, After(standIn, Moved(to)))
    PROVE  Follows
<1>1. rows[id] \in Rows /\ OnRoute(Medium, StateOf(rows[id]))
    BY FailedStepKnown DEF OnRoutes
<1>2. Takes(rows[id], Moved(to)) /\ Moved(to) \in Events
    BY <1>1, JobsEventsTaken
<1>3. After(standIn, Moved(to)) \in Rows
    BY DEF RowFits
<1> QED
    BY <1>2, <1>3, StandInMoved

(* A working row fails.                                                    *)
LEMMA FailureFollows ==
    ASSUME IInv, OnRoutes, NEW id \in Ids, Live(id), rows[id].status \in WorkingStatuses,
           NEW reason \in Reasons, Save(id, After(rows[id], Failed(reason)))
    PROVE  Follows
<1>1. RowFits(rows[id]) /\ rows[id] \in Rows /\ OnRoute(Medium, StateOf(rows[id]))
    BY FailedStepKnown DEF OnRoutes
<1>2. Takes(rows[id], Failed(reason)) /\ Failed(reason) \in Events
    BY <1>1, JobsEventsTaken DEF WorkingStatuses
<1>3. After(rows[id], Failed(reason)) \in Rows
    BY <1>1, FailureFits DEF RowFits
<1> QED
    BY <1>2, <1>3, RowMoved

(* A step that throws fails the row it read, or moves none.                *)
LEMMA ThrowFollows ==
    ASSUME IInv, OnRoutes, job.pc \in {"search", "start", "poll", "import", "dropLost"},
           StepThrows
    PROVE  Follows
<1>1. CASE UNCHANGED rows
    BY <1>1, StandsStill DEF Live
<1>2. CASE RecordThrown /\ Live(job.id) /\ MyRow.status = job.snap.status
    <2>1. job.pc \in {"search", "start", "poll", "import"}
        BY <1>2 DEF IInv, JobFits, SnapshotCurrent
    <2>2. MyRow.status \in WorkingStatuses /\ job.id \in Ids
        BY <1>2, <2>1, MyRowIsSnap DEF IInv, JobFits, JobWaits, WorkingStatuses
    <2>3. Save(job.id, After(rows[job.id], Failed("other")))
        BY <1>2 DEF RecordThrown, MyRow
    <2> QED
        BY <1>2, <2>2, <2>3, FailureFollows DEF Reasons, MyRow
<1>3. CASE RecordThrown /\ ~(Live(job.id) /\ MyRow.status = job.snap.status)
    BY <1>3, StandsStill DEF RecordThrown, Live
<1> QED
    BY <1>1, <1>2, <1>3 DEF StepThrows

(* A request goes on to its search.                                        *)
LEMMA BeginSearchingFollows ==
    ASSUME IInv, OnRoutes, NEW id \in Ids, BeginSearching(id)
    PROVE  Follows
<1>1. /\ Live(id) /\ RowFits(rows[id]) /\ rows[id] \in Rows /\ rows[id].status = "requested"
      /\ Save(id, After(rows[id], Moved("searching")))
    BY FailedStepKnown DEF BeginSearching, StepFrom
<1>2. RowFits(After(rows[id], Moved("searching")))
    BY <1>1, MovedFits DEF Statuses, WorkingStatuses
<1>3. "searching" \in MovesFrom(Medium, rows[id].status)
    BY <1>1, JobsMoves
<1> QED
    BY <1>1, <1>2, <1>3, MovedFollows

(* The index's answer moves an import to the library or fails it.          *)
LEMMA IndexAnswersFollows ==
    ASSUME IInv, OnRoutes, NEW id \in Ids, IndexAnswers(id)
    PROVE  Follows
<1>1. Live(id) /\ RowFits(rows[id]) /\ rows[id] \in Rows /\ rows[id].status = "importing"
    BY FailedStepKnown DEF IndexAnswers, StepFrom
<1>2. CASE Save(id, After(rows[id], Moved("inLibrary")))
    <2>1. RowFits(After(rows[id], Moved("inLibrary")))
        BY <1>1, MovedFits DEF Statuses
    <2>2. "inLibrary" \in MovesFrom(Medium, rows[id].status)
        BY <1>1, JobsMoves
    <2> QED
        BY <1>1, <1>2, <2>1, <2>2, MovedFollows
<1>3. CASE Save(id, After(rows[id], Failed("other")))
    BY <1>1, <1>3, FailureFollows DEF WorkingStatuses, Reasons
<1> QED
    BY <1>2, <1>3 DEF IndexAnswers

(* A key saved on a row moves it nowhere.                                  *)
LEMMA KeyedFollows ==
    ASSUME IInv, OnRoutes, NEW id \in Ids, Live(id), NEW key \in Keys, Keyed(id, key)
    PROVE  Follows
<1>1. rows[id] \in Rows
    BY FailedStepKnown
<1>2. CASE rows[id].stepKey = None
    <2> DEFINE row == [rows[id] EXCEPT !.stepKey = key]
    <2>1. Save(id, row)
        BY <1>2 DEF Keyed
    <2>2. row \in Rows /\ StateOf(row) = StateOf(rows[id])
        BY <1>1 DEF Rows, StateOf
    <2> HIDE DEF row
    <2> QED
        BY <2>1, <2>2, SavedStill
<1>3. CASE rows[id].stepKey # None
    BY <1>3, StandsStill DEF Keyed, Live
<1> QED
    BY <1>2, <1>3

(* An answer saved over the row the job read, which still stands there.    *)
LEMMA AnswerFollows ==
    ASSUME IInv, OnRoutes, job.pc \in {"search", "start", "poll", "import"},
           NEW standIn, NEW to \in Statuses, Apply(standIn, Moved(to)),
           Live(job.id) => /\ standIn \in Rows /\ StateOf(standIn) = StateOf(MyRow)
                           /\ MyRow.status # "failed"
                           /\ to \in MovesFrom(Medium, MyRow.status)
                           /\ RowFits(After(standIn, Moved(to)))
    PROVE  Follows
<1>1. job.id \in Ids
    BY DEF IInv, JobFits, JobWaits
<1>2. CASE Current
    BY <1>1, <1>2, MovedFollows DEF Apply, SaveIfCurrent, Current, MyRow
<1>3. CASE ~Current
    BY <1>3, StandsStill DEF Apply, SaveIfCurrent, Live
<1> QED
    BY <1>2, <1>3

(* An answer that fails the row the job read, or moves none.               *)
LEMMA AnswerFails ==
    ASSUME IInv, OnRoutes, job.pc \in {"search", "start", "poll", "import"},
           NEW reason \in Reasons, Apply(MyRow, Failed(reason)),
           Live(job.id) => MyRow.status \in WorkingStatuses
    PROVE  Follows
<1>1. job.id \in Ids
    BY DEF IInv, JobFits, JobWaits
<1>2. CASE Current
    BY <1>1, <1>2, FailureFollows DEF Apply, SaveIfCurrent, Current, MyRow
<1>3. CASE ~Current
    BY <1>3, StandsStill DEF Apply, SaveIfCurrent, Live
<1> QED
    BY <1>2, <1>3

(* An answer saved over the row the job read that moves it nowhere.        *)
LEMMA AnswerStays ==
    ASSUME IInv, OnRoutes, job.pc \in {"search", "start", "poll", "import"},
           NEW row, SaveIfCurrent(row),
           Live(job.id) => row \in Rows /\ StateOf(row) = StateOf(MyRow)
    PROVE  Follows
<1>1. job.id \in Ids
    BY DEF IInv, JobFits, JobWaits
<1>2. CASE Current
    BY <1>1, <1>2, SavedStill DEF SaveIfCurrent, Current, MyRow
<1>3. CASE ~Current
    BY <1>3, StandsStill DEF SaveIfCurrent, Live
<1> QED
    BY <1>2, <1>3

(* A search's answer moves its row to a download or a choice, or fails it. *)
LEMMA SearchAnswersFollows ==
    ASSUME IInv, OnRoutes, SearchAnswers
    PROVE  Follows
<1>1. job.pc = "search"
    BY DEF SearchAnswers, Waiting
<1>2. Live(job.id) => RowFits(MyRow) /\ MyRow \in Rows /\ MyRow.status = "searching"
    BY <1>1, MyRowIsSnap DEF IInv, JobFits, JobWaits, RowFits
<1>3. ASSUME NEW release \in Releases, NEW others \in SUBSET Releases,
             Apply([MyRow EXCEPT !.release = release, !.candidates = others],
                   Moved(AfterPicked(Medium)))
      PROVE  Follows
    <2> DEFINE picked == [MyRow EXCEPT !.release = release, !.candidates = others]
    <2>1. AfterPicked(Medium) \in Statuses
        BY PickedDownloads, JobConstants DEF Statuses, WorkingStatuses
    <2>2. Live(job.id) => /\ picked \in Rows /\ StateOf(picked) = StateOf(MyRow)
                          /\ MyRow.status # "failed"
                          /\ AfterPicked(Medium) \in MovesFrom(Medium, MyRow.status)
        BY <1>2, JobsMoves DEF Rows, StateOf
    <2>3. Live(job.id) => RowFits(After(picked, Moved(AfterPicked(Medium))))
        BY <1>2, PickFits
    <2>4. Apply(picked, Moved(AfterPicked(Medium)))
        BY <1>3
    <2> HIDE DEF picked
    <2> QED
        BY <1>1, <2>1, <2>2, <2>3, <2>4, AnswerFollows
<1>4. ASSUME NEW candidates \in SUBSET Releases, OnPath(Medium, "needsChoice"),
             Apply([MyRow EXCEPT !.candidates = candidates], Moved("needsChoice"))
      PROVE  Follows
    <2> DEFINE offered == [MyRow EXCEPT !.candidates = candidates]
    <2>1. Live(job.id) => /\ offered \in Rows /\ StateOf(offered) = StateOf(MyRow)
                          /\ RowFits(offered) /\ offered.status = "searching"
                          /\ MyRow.status # "failed"
        BY <1>2 DEF RowFits, Rows, Fitting, StepOf, StateOf
    <2>2. Live(job.id) => "needsChoice" \in MovesFrom(Medium, MyRow.status)
        BY <1>2, <1>4, JobsMoves
    <2>3. "needsChoice" \in Statuses
        BY DEF Statuses, WorkingStatuses
    <2>4. Live(job.id) => RowFits(After(offered, Moved("needsChoice")))
        BY <2>1, <2>3, MovedFits
    <2>5. Apply(offered, Moved("needsChoice"))
        BY <1>4
    <2> HIDE DEF offered
    <2> QED
        BY <1>1, <2>1, <2>2, <2>3, <2>4, <2>5, AnswerFollows
<1>5. ASSUME Apply(MyRow, Failed("other"))
      PROVE  Follows
    BY <1>1, <1>2, <1>5, AnswerFails DEF Reasons, WorkingStatuses
<1> QED
    BY <1>3, <1>4, <1>5 DEF SearchAnswers

(* A start's answer moves no request.                                      *)
LEMMA StartAnswersFollows ==
    ASSUME IInv, OnRoutes, StartAnswers
    PROVE  Follows
<1> DEFINE handle == [hash |-> SentCall.hash, key |-> SentCall.key]
<1>1. job.pc = "start" /\ turn # <<>> /\ SentCall.kind = "start"
    BY DEF StartAnswers, Waiting, Sent
<1>2. handle \in Handles
    BY <1>1, TurnGoesOn DEF IInv, NamedCalls, Calls, Handles
<1> HIDE DEF handle
<1>3. CASE Current
    <2> DEFINE row == [MyRow EXCEPT !.handle = handle, !.stepKey = None]
    <2>1. SaveIfCurrent(row)
        BY <1>3 DEF StartAnswers, SaveIfCurrent, handle
    <2>2. Live(job.id) => MyRow \in Rows
        BY <1>1, MyRowIsSnap DEF IInv, RowFits
    <2>3. Live(job.id) => row \in Rows /\ StateOf(row) = StateOf(MyRow)
        BY <1>2, <2>2 DEF Rows, StateOf
    <2> HIDE DEF row
    <2> QED
        BY <1>1, <2>1, <2>3, AnswerStays
<1>4. CASE ~Current
    BY <1>4, StandsStill DEF StartAnswers, Live
<1> QED
    BY <1>3, <1>4

(* A poll's answer moves its row on, fails it or leaves it.                *)
LEMMA PollAnswersFollows ==
    ASSUME IInv, OnRoutes, PollAnswers
    PROVE  Follows
<1>1. job.pc = "poll"
    BY DEF PollAnswers, Waiting
<1>2. Live(job.id) =>
        /\ RowFits(MyRow) /\ MyRow \in Rows /\ MyRow.status \in {"queued", "downloading"}
        /\ MyRow.status = job.snap.status /\ MyRow.handle # None
    BY <1>1, MyRowIsSnap DEF IInv, JobFits, JobWaits, RowFits
<1>3. Live(job.id) => (MyRow.status = "queued" => OnPath(Medium, "queued"))
    BY <1>1, <1>2 DEF OnRoutes, OnRoute, StateOf, MyRow, IInv, JobFits, JobWaits
<1>4. ASSUME NEW to \in {"downloading", "importing"}, Apply(MyRow, Moved(to)),
             to = "importing" => job.snap.status # "queued"
      PROVE  Follows
    <2>1. Live(job.id) => to \in MovesFrom(Medium, MyRow.status)
        BY <1>2, <1>3, <1>4, JobsMoves
    <2>2. to \in Statuses
        BY DEF Statuses, WorkingStatuses
    <2>3. Live(job.id) => RowFits(After(MyRow, Moved(to)))
        BY <1>2, <2>2, MovedFits
    <2> QED
        BY <1>1, <1>2, <1>4, <2>1, <2>2, <2>3, AnswerFollows
<1>5. CASE Apply(MyRow, Moved(IF job.snap.status = "queued" THEN "downloading" ELSE "importing"))
    BY <1>4, <1>5
<1>6. ASSUME Apply(MyRow, Failed("other"))
      PROVE  Follows
    BY <1>1, <1>2, <1>6, AnswerFails DEF Reasons, WorkingStatuses
<1>7. ASSUME SaveIfCurrent(MyRow)
      PROVE  Follows
    BY <1>1, <1>2, <1>7, AnswerStays
<1> QED
    BY <1>4, <1>5, <1>6, <1>7 DEF PollAnswers

(* A stall fails its row, and may take it back to its choice in the same   *)
(* turn.                                                                   *)
LEMMA PollStallsFollows ==
    ASSUME IInv, OnRoutes, PollStalls
    PROVE  Follows
<1> DEFINE failed == Stalled(MyRow)
           back   == BackToChoice(failed)
<1>1. job.pc = "poll" /\ job.snap.status = "downloading" /\ job.id \in Ids
    BY DEF PollStalls, Waiting, IInv, JobFits, JobWaits
<1>2. Live(job.id) => RowFits(MyRow) /\ MyRow \in Rows /\ MyRow.status = "downloading"
    BY <1>1, MyRowIsSnap DEF IInv, RowFits
<1>3. CASE Current /\ MayStartAnother(failed)
    <2>1. Save(job.id, back) /\ Live(job.id)
        BY <1>3 DEF PollStalls, Current
    <2>2. RowFits(failed) /\ failed \in Rows
        BY <1>2, <2>1, FailureFits DEF Stalled, Reasons, WorkingStatuses, RowFits
    <2>3. Takes(failed, PickAnother)
        BY <1>3 DEF MayStartAnother, OtherReleases
    <2>4. StateOf(failed) = NextState(Medium, StateOf(MyRow), Failed("downloadStalled"))
        BY <1>2, <2>1, EventState DEF Stalled, Events, Reasons
    <2>5. Takes(MyRow, Failed("downloadStalled"))
        BY <1>1, <1>2, <2>1, JobsEventsTaken DEF Reasons, OnRoutes, MyRow
    <2>6. /\ back \in Rows
          /\ StateOf(back) = NextState(Medium, StateOf(failed), PickAnother)
        BY <2>2, <2>3, BackStands
    <2>7. /\ StateOf(failed) \in States
          /\ StateOf(failed).status = "failed" => StateOf(failed).failedStep \in WorkingStatuses
        BY <2>2 DEF StateOf, States, Rows, RowFits
    <2>8. Allowed(Medium, StateOf(failed), PickAnother)
        BY <2>3 DEF Takes
    <2>9. MyRow = rows[job.id]
        BY DEF MyRow
    <2> HIDE DEF failed, back
    <2> DEFINE between == StateOf(failed)
    <2>10. /\ between \in States
           /\ between = NextState(Medium, StateOf(rows[job.id]), Failed("downloadStalled"))
           /\ between.status = "failed" => between.failedStep \in WorkingStatuses
           /\ Allowed(Medium, between, PickAnother)
           /\ Takes(rows[job.id], Failed("downloadStalled"))
           /\ StateOf(back) = NextState(Medium, between, PickAnother)
        BY <2>4, <2>5, <2>6, <2>7, <2>8, <2>9
    <2> HIDE DEF between
    <2> QED
        BY <1>1, <2>1, <2>6, <2>10, TwoEventsSaved
<1>4. CASE ~(Current /\ MayStartAnother(failed))
    <2>1. Apply(MyRow, Failed("downloadStalled"))
        BY <1>4 DEF PollStalls, Apply, Stalled
    <2> QED
        BY <1>1, <1>2, <2>1, AnswerFails DEF Reasons, WorkingStatuses
<1> QED
    BY <1>3, <1>4

(* The next release is chosen when the row still takes a choice.           *)
LEMMA StalledDropFollows ==
    ASSUME IInv, OnRoutes, StalledDropEnds
    PROVE  Follows
<1> DEFINE n == job.snap.autoStarts + 1
<1>1. job.id \in Ids /\ job.snap \in Rows /\ job.snap.autoStarts < MaxAutoStarts
    BY DEF IInv, StalledDropEnds, Waiting, JobFits, JobWaits
<1>2. n \in Nat /\ n <= MaxAutoStarts
  <2>1. job.snap.autoStarts \in Nat
      BY <1>1 DEF Rows
  <2>2. \A x \in Nat : x < MaxAutoStarts => x + 1 \in Nat /\ x + 1 <= MaxAutoStarts
      BY JobConstants
  <2> QED
      BY ONLY <1>1, <2>1, <2>2, Zenon
<1> HIDE DEF n
<1>3. CASE Choosable(job.id, SentCall.pick) /\ Save(job.id, WithChoice(MyRow, SentCall.pick, n))
    BY <1>1, <1>2, <1>3, ChosenFollows DEF MyRow
<1>4. CASE UNCHANGED rows
    BY <1>4, StandsStill DEF Live
<1> QED
    BY <1>3, <1>4 DEF StalledDropEnds, n

(* An import's answer names its item, fails its row or leaves it.          *)
LEMMA ImportAnswersFollows ==
    ASSUME IInv, OnRoutes, ImportAnswers
    PROVE  Follows
<1> DEFINE named == [MyRow EXCEPT !.result = job.snap.release, !.stepKey = None]
<1>1. job.pc = "import"
    BY DEF ImportAnswers, Waiting
<1>2. /\ job.snap \in Rows
      /\ Live(job.id) => MyRow \in Rows /\ MyRow.status = "importing"
    BY <1>1, MyRowIsSnap DEF IInv, JobFits, JobWaits, RowFits
<1>3. Live(job.id) => named \in Rows /\ StateOf(named) = StateOf(MyRow)
    BY <1>2 DEF Rows, StateOf
<1> HIDE DEF named
<1>4. ASSUME SaveIfCurrent(named)
      PROVE  Follows
    BY <1>1, <1>3, <1>4, AnswerStays
<1>5. ASSUME Apply(MyRow, Failed("other"))
      PROVE  Follows
    BY <1>1, <1>2, <1>5, AnswerFails DEF Reasons, WorkingStatuses
<1>6. ASSUME UNCHANGED rows
      PROVE  Follows
    BY <1>6, StandsStill DEF Live
<1> QED
    BY <1>4, <1>5, <1>6 DEF ImportAnswers, named

----------------------------------------------------------------------------
(* The refinement                                                          *)

(* There is no request at the start.                                       *)
LEMMA InitFollows == Init => Lifecycle!Init /\ OnRoutes
  BY DEF Init, Lifecycle!Init, RequestStates, OnRoutes, Live

(* Every step but a restart is one of the lifecycle's moves, or moves no   *)
(* request.                                                                *)
LEMMA StepFollows ==
    ASSUME IInv, LostFits, OnRoutes, PersonActs \/ JobActs \/ Client \/ UNCHANGED vars
    PROVE  Follows
<1>1. CASE PersonActs
    <2>0. ASSUME NEW id \in Ids, NEW person \in People, NEW replaced \in SUBSET MayGiveWay,
                 Create(id, person, replaced) \/ Join(id, person, replaced)
          PROVE  Follows
        BY <2>0, CreateFollows, JoinFollows
    <2>1. ASSUME NEW id \in Ids, NEW person \in People, CancelRequest(id, person)
          PROVE  Follows
        BY <2>1, CancelFollows
    <2>2. ASSUME NEW id \in Ids, RetryRequest(id)
          PROVE  Follows
        BY <2>2, RetryFollows
    <2>3. ASSUME NEW id \in Ids, NEW release \in Releases,
                 ChooseRelease(id, release) \/ ChooseAnother(id, release)
          PROVE  Follows
        BY <2>3, ChooseReleaseFollows, ChooseAnotherFollows
    <2> QED
        BY <1>1, <2>0, <2>1, <2>2, <2>3, PersonDropFollows DEF PersonActs
<1>2. CASE JobActs
    <2>1. ASSUME NEW id \in Ids, BeginSearching(id) \/ IndexAnswers(id)
          PROVE  Follows
        BY <2>1, BeginSearchingFollows, IndexAnswersFollows
    <2>2. ASSUME NEW id \in Ids, NEW key \in Keys, AskStart(id, key) \/ AskImport(id, key)
          PROVE  Follows
        BY <2>2, KeyedFollows DEF AskStart, AskImport, StepFrom
    <2>3. ASSUME NEW id \in Ids, PassOver(id) \/ AskSearch(id) \/ AskPoll(id)
          PROVE  Follows
        BY <2>3, StandsStill DEF PassOver, AskSearch, AskPoll, Live
    <2>4. CASE BeginRun \/ EndRun
        BY <2>4, StandsStill DEF BeginRun, EndRun, Live
    <2>5. CASE StartThrows \/ StepFails
        BY <2>5, ThrowFollows DEF StartThrows, StepFails, Waiting
    <2>6. CASE LostDropEnds
        <3>1. CASE StepThrows
            BY <2>6, <3>1, ThrowFollows DEF LostDropEnds, Waiting
        <3>2. CASE UNCHANGED rows
            BY <3>2, StandsStill DEF Live
        <3> QED
            BY <2>6, <3>1, <3>2 DEF LostDropEnds
    <2>7. CASE \/ SearchAnswers \/ StartAnswers \/ PollAnswers \/ PollStalls
               \/ StalledDropEnds \/ ImportAnswers
        BY <2>7, SearchAnswersFollows, StartAnswersFollows, PollAnswersFollows,
           PollStallsFollows, StalledDropFollows, ImportAnswersFollows
    <2> QED
        BY <1>2, <2>1, <2>2, <2>3, <2>4, <2>5, <2>6, <2>7 DEF JobActs
<1>3. CASE Client \/ UNCHANGED vars
    BY <1>3, StandsStill DEF Client, vars, Live
<1> QED
    BY <1>1, <1>2, <1>3

(* Nothing but a restart counts as one.                                    *)
LEMMA RestartsCounted ==
    ASSUME PersonActs \/ JobActs \/ Client \/ UNCHANGED vars
    PROVE  UNCHANGED crashes
<1>1. CASE PersonActs
    <2>1. ASSUME NEW id, NEW person, NEW replaced,
                 \/ Create(id, person, replaced) \/ Join(id, person, replaced)
                 \/ CancelRequest(id, person)
          PROVE  UNCHANGED crashes
        BY <2>1 DEF Create, Join, CancelRequest
    <2>2. ASSUME NEW id, RetryRequest(id)
          PROVE  UNCHANGED crashes
        BY <2>2 DEF RetryRequest
    <2>3. ASSUME NEW id, NEW release, ChooseRelease(id, release) \/ ChooseAnother(id, release)
          PROVE  UNCHANGED crashes
        BY <2>3 DEF ChooseRelease, ChooseAnother
    <2> QED
        BY <1>1, <2>1, <2>2, <2>3 DEF PersonActs, PersonDropEnds
<1>2. CASE JobActs
    <2>1. ASSUME NEW id,
                 \/ PassOver(id) \/ BeginSearching(id) \/ AskSearch(id)
                 \/ IndexAnswers(id) \/ AskPoll(id)
          PROVE  UNCHANGED crashes
        BY <2>1 DEF PassOver, BeginSearching, AskSearch, IndexAnswers, AskPoll
    <2>2. ASSUME NEW id, NEW key, AskStart(id, key) \/ AskImport(id, key)
          PROVE  UNCHANGED crashes
        BY <2>2 DEF AskStart, AskImport
    <2>3. ASSUME \/ BeginRun \/ EndRun
                 \/ SearchAnswers \/ StartAnswers \/ StartThrows \/ LostDropEnds
                 \/ PollAnswers \/ PollStalls \/ StalledDropEnds \/ ImportAnswers \/ StepFails
          PROVE  UNCHANGED crashes
        BY <2>3 DEF BeginRun, EndRun, SearchAnswers, StartAnswers, StartThrows, LostDropEnds,
           PollAnswers, PollStalls, StalledDropEnds, ImportAnswers, StepFails
    <2> QED
        BY <1>2, <2>1, <2>2, <2>3 DEF JobActs
<1> QED
    BY <1>1, <1>2 DEF Client, vars

(* A restart is the lifecycle's, and loses the requests it cannot read.    *)
LEMMA CrashFollows ==
    ASSUME IInv, OnRoutes, Crash
    PROVE  Lifecycle!Restart /\ OnRoutes'
<1>1. PICK spoilt \in SUBSET {id \in Ids : Live(id)} :
            rows' = [id \in Ids |-> IF id \in spoilt THEN None ELSE rows[id]]
    BY DEF Crash
<1>2. RequestStates' = [id \in Ids |-> IF id \in spoilt THEN None ELSE RequestStates[id]]
    BY <1>1 DEF RequestStates, Live
<1>3. crashes' = crashes + 1 /\ spoilt \in SUBSET Ids
    BY DEF Crash
<1>4. OnRoutes'
    BY <1>1 DEF OnRoutes, Live
<1> QED
    BY <1>2, <1>3, <1>4 DEF Lifecycle!Restart

(* The job and the taps together keep the machine's promise: no move the   *)
(* machine refuses is ever made, so the throw in `apply` is never reached. *)
THEOREM Refines == Spec => FollowsLifecycle
<1>1. IInv /\ LostFits /\ OnRoutes /\ [Next]_vars =>
          [Lifecycle!Next]_<<RequestStates, crashes>> /\ OnRoutes'
  <2> SUFFICES ASSUME IInv, LostFits, OnRoutes, [Next]_vars
               PROVE  [Lifecycle!Next]_<<RequestStates, crashes>> /\ OnRoutes'
      OBVIOUS
  <2>1. CASE Crash
      BY <2>1, CrashFollows DEF Lifecycle!Next
  <2>2. CASE PersonActs \/ JobActs \/ Client \/ UNCHANGED vars
      <3>1. Follows /\ UNCHANGED crashes
          BY <2>2, StepFollows, RestartsCounted
      <3> QED
          BY <3>1 DEF Follows, Lifecycle!Next
  <2> QED
      BY <2>1, <2>2 DEF Next
<1> QED
    BY <1>1, InitFollows, Invariant, PTL DEF Spec, FollowsLifecycle, Lifecycle!Spec

----------------------------------------------------------------------------
(* Keys and calls                                                          *)

(* The keys a row has, whether it counts on them or not.                   *)
Names(row, key) == row.stepKey = key \/ (row.handle # None /\ row.handle.key = key)

CallsOf(calls) == {calls[i] : i \in DOMAIN calls}

(* No two requests share a key.                                            *)
OwnKeys ==
    \A i, j \in Ids : \A key \in Keys :
        Live(i) /\ Live(j) /\ Names(rows[i], key) /\ Names(rows[j], key) => i = j

(* What is asked to be dropped is nobody's any more.                       *)
DropsUnnamed ==
    \A call \in late \cup CallsOf(turn) : call.kind = "cancel" =>
        \A id \in Ids : Live(id) => ~Names(rows[id], call.key)

(* The job has one call in turn at most, and no person drops a key twice.  *)
Alone(calls) ==
    \A i, j \in DOMAIN calls : i # j =>
        /\ ~(calls[i].by = "job" /\ calls[j].by = "job")
        /\ calls[i].kind = "cancel" /\ calls[j].kind = "cancel" /\ calls[i].by = calls[j].by
              => calls[i].key # calls[j].key

(* A start in turn is the one the job waits for, and so is its cancel.     *)
JobsCalls ==
    \A call \in CallsOf(turn) :
        /\ call.kind = "start" => /\ call.by = "job" /\ job.pc = "start"
                                  /\ call.key = job.snap.stepKey
        /\ call.by = "job" => job.pc \in {"start", "dropLost", "dropStalled"}

(* The key of a start is its own request's.                                *)
StartsKey ==
    job.pc = "start" =>
        /\ job.snap.stepKey \in Keys
        /\ \A id \in Ids : Live(id) /\ Names(rows[id], job.snap.stepKey) => id = job.id

KeyInv == OwnKeys /\ DropsUnnamed /\ Alone(turn) /\ JobsCalls /\ StartsKey

(* A step gives no row a key.                                              *)
NoNewNames ==
    \A id \in Ids : \A key \in Keys :
        Live(id)' /\ Names(rows'[id], key) => Live(id) /\ Names(rows[id], key)

(* The same call, however far it has got.                                  *)
Like(call, other) ==
    /\ call.kind = other.kind /\ call.by = other.by /\ call.key = other.key

TurnFrom == \A call \in CallsOf(turn)' : \E other \in CallsOf(turn) : Like(call, other)

LateFrom == \A call \in late' : \E other \in late \cup CallsOf(turn) : Like(call, other)

----------------------------------------------------------------------------
(* The calls in turn.                                                      *)
LEMMA CallsInTurn ==
    ASSUME NEW S, NEW calls \in Seq(S)
    PROVE  /\ DOMAIN calls = 1..Len(calls) /\ CallsOf(calls) \subseteq S
           /\ \A i \in 1..Len(calls) : calls[i] \in CallsOf(calls)
  BY LenProperties DEF CallsOf

(* The head of the turn leaves.                                            *)
LEMMA HeadLeaves ==
    ASSUME NEW S, NEW calls \in Seq(S), calls # <<>>, Alone(calls)
    PROVE  /\ Alone(Tail(calls)) /\ CallsOf(Tail(calls)) \subseteq CallsOf(calls)
           /\ Head(calls) \in CallsOf(calls)
           /\ Head(calls).by = "job" => \A call \in CallsOf(Tail(calls)) : call.by # "job"
<1>1. /\ Tail(calls) \in Seq(S) /\ Len(Tail(calls)) = Len(calls) - 1 /\ Len(calls) \in Nat
      /\ \A i \in 1..Len(Tail(calls)) : Tail(calls)[i] = calls[i + 1]
      /\ Head(calls) = calls[1] /\ Len(calls) # 0
    BY HeadTailProperties, LenProperties, EmptySeq
<1>2. DOMAIN Tail(calls) = 1..Len(Tail(calls)) /\ DOMAIN calls = 1..Len(calls)
    BY <1>1, CallsInTurn
<1>3. \A i \in DOMAIN Tail(calls) :
          i + 1 \in DOMAIN calls /\ i + 1 # 1 /\ Tail(calls)[i] = calls[i + 1]
    BY <1>1, <1>2
<1>4. 1 \in DOMAIN calls
    BY <1>1, <1>2
<1>5. Alone(Tail(calls))
  <2>1. ASSUME NEW i \in DOMAIN Tail(calls), NEW j \in DOMAIN Tail(calls), i # j
        PROVE  i + 1 # j + 1
      BY <1>1, <1>2, <2>1
  <2> QED
      BY <1>3, <2>1 DEF Alone
<1> QED
    BY <1>1, <1>3, <1>4, <1>5 DEF Alone, CallsOf

(* One more call joins.                                                    *)
LEMMA CallJoins ==
    ASSUME NEW S, NEW calls \in Seq(S), NEW call \in S, Alone(calls),
           call.by = "job" => \A other \in CallsOf(calls) : other.by # "job",
           call.kind = "cancel" /\ call.by # "job" =>
               \A other \in CallsOf(calls) : other.kind = "cancel" => other.key # call.key
    PROVE  Alone(Append(calls, call)) /\ CallsOf(Append(calls, call)) = CallsOf(calls) \cup {call}
<1> DEFINE more == Append(calls, call)
           n    == Len(calls) + 1
<1>1. /\ more \in Seq(S) /\ Len(more) = n /\ Len(calls) \in Nat
      /\ \A i \in 1..Len(calls) : more[i] = calls[i]
      /\ more[n] = call
    BY AppendProperties, LenProperties
<1>2. DOMAIN more = 1..n /\ DOMAIN calls = 1..Len(calls)
    BY <1>1, CallsInTurn
<1>3. \A i \in DOMAIN more : i = n \/ i \in DOMAIN calls
    BY <1>1, <1>2
<1>4. n \in DOMAIN more /\ \A i \in DOMAIN calls : i \in DOMAIN more /\ i # n /\ more[i] = calls[i]
    BY <1>1, <1>2
<1> HIDE DEF more, n
<1>5. CallsOf(more) = CallsOf(calls) \cup {call}
    BY <1>1, <1>3, <1>4 DEF CallsOf
<1>6. Alone(more)
    BY <1>1, <1>3, <1>4 DEF Alone, CallsOf
<1> QED
    BY <1>5, <1>6 DEF more

(* The head gets on.                                                       *)
LEMMA HeadGetsOn ==
    ASSUME NEW S, NEW calls \in Seq(S), calls # <<>>, Alone(calls),
           NEW call, Like(call, Head(calls))
    PROVE  /\ Alone([calls EXCEPT ![1] = call])
           /\ \A new \in CallsOf([calls EXCEPT ![1] = call]) :
                  \E other \in CallsOf(calls) : Like(new, other)
<1>1. DOMAIN calls = 1..Len(calls) /\ Head(calls) = calls[1] /\ 1 \in DOMAIN calls
    BY HeadTailProperties, LenProperties, EmptySeq
<1> DEFINE more == [calls EXCEPT ![1] = call]
<1>2. DOMAIN more = DOMAIN calls /\ more[1] = call /\ \A i \in DOMAIN calls : i # 1 => more[i] = calls[i]
    BY <1>1
<1>3. \A i \in DOMAIN more : Like(more[i], calls[i])
    BY <1>1, <1>2 DEF Like
<1> HIDE DEF more
<1>4. Alone(more)
    BY <1>2, <1>3 DEF Alone, Like
<1>5. \A new \in CallsOf(more) : \E other \in CallsOf(calls) : Like(new, other)
    BY <1>2, <1>3 DEF CallsOf
<1> QED
    BY <1>4, <1>5 DEF more

----------------------------------------------------------------------------
(* Where no row gets a key and no call joins, keys stay whose they are.    *)
LEMMA KeysStay ==
    ASSUME IInv, KeyInv, NoNewNames,
           \A call \in late' \cup CallsOf(turn)' :
               call.kind = "cancel" => \/ \A id \in Ids : Live(id)' => ~Names(rows'[id], call.key)
                                       \/ \E other \in late \cup CallsOf(turn) : Like(call, other)
    PROVE  OwnKeys' /\ DropsUnnamed'
<1>1. OwnKeys'
    BY DEF KeyInv, OwnKeys, NoNewNames
<1>2. \A call \in late \cup CallsOf(turn) : call.key \in Keys
    BY CallsInTurn DEF IInv, TurnFits, NamedCalls, Calls
<1>3. DropsUnnamed'
    BY <1>2 DEF KeyInv, DropsUnnamed, NoNewNames, Like
<1> QED
    BY <1>1, <1>3

(* A step that leaves the job where it was.                                *)
LEMMA JobStays ==
    ASSUME IInv, KeyInv, NoNewNames, TurnFrom, LateFrom, Alone(turn)', UNCHANGED job
    PROVE  KeyInv'
<1>1. OwnKeys' /\ DropsUnnamed'
    BY KeysStay DEF TurnFrom, LateFrom
<1>2. JobsCalls'
    BY DEF KeyInv, JobsCalls, TurnFrom, Like
<1>3. StartsKey'
    BY DEF KeyInv, StartsKey, NoNewNames
<1> QED
    BY <1>1, <1>2, <1>3 DEF KeyInv

(* A step that takes the job to where it waits for no call.                *)
LEMMA JobMoves ==
    ASSUME IInv, KeyInv, NoNewNames, TurnFrom, LateFrom, Alone(turn)', job'.pc # "start",
           \A call \in CallsOf(turn)' : call.by # "job"
    PROVE  KeyInv'
<1>1. OwnKeys' /\ DropsUnnamed'
    BY KeysStay DEF TurnFrom, LateFrom
<1>2. JobsCalls'
    BY DEF KeyInv, JobsCalls, TurnFrom, Like
<1>3. StartsKey'
    BY DEF StartsKey
<1> QED
    BY <1>1, <1>2, <1>3 DEF KeyInv

(* The turn as it was.                                                     *)
LEMMA TurnStands ==
    ASSUME KeyInv, UNCHANGED <<turn, late>>
    PROVE  TurnFrom /\ LateFrom /\ Alone(turn)' /\ CallsOf(turn)' = CallsOf(turn)
  BY DEF KeyInv, TurnFrom, LateFrom, Like, CallsOf, Alone

(* While the job waits for no call of its own there is none in turn.       *)
LEMMA NoneInTurn ==
    ASSUME KeyInv, job.pc \notin {"start", "dropLost", "dropStalled"}
    PROVE  \A call \in CallsOf(turn) : call.by # "job"
  BY DEF KeyInv, JobsCalls

(* The sent call leaves the turn, done or late.                            *)
LEMMA SentLeaves ==
    ASSUME IInv, KeyInv, turn # <<>>, turn' = NextInTurn, UNCHANGED late \/ Unanswered
    PROVE  /\ TurnFrom /\ LateFrom /\ Alone(turn)'
           /\ SentCall.by = "job" => \A call \in CallsOf(turn)' : call.by # "job"
<1>1. /\ Alone(Tail(turn)) /\ CallsOf(Tail(turn)) \subseteq CallsOf(turn)
      /\ SentCall \in CallsOf(turn)
      /\ SentCall.by = "job" => \A call \in CallsOf(Tail(turn)) : call.by # "job"
    BY HeadLeaves DEF IInv, TurnFits, KeyInv, SentCall
<1>2. CallsOf(turn)' = CallsOf(Tail(turn)) /\ (Alone(turn)' <=> Alone(Tail(turn)))
    BY DEF NextInTurn, CallsOf, Alone
<1>3. late' \subseteq late \cup CallsOf(turn)
    BY <1>1 DEF Unanswered
<1> QED
    BY <1>1, <1>2, <1>3 DEF TurnFrom, LateFrom, Like

----------------------------------------------------------------------------
(* What rows name                                                          *)

(* An event changes no key.                                                *)
LEMMA EventKeeps ==
    ASSUME NEW row, NEW event
    PROVE  /\ After(row, event).stepKey = row.stepKey /\ After(row, event).handle = row.handle
           /\ \A key : Names(After(row, event), key) <=> Names(row, key)
<1>1. After(row, event).stepKey = row.stepKey /\ After(row, event).handle = row.handle
    BY DEF After
<1> QED
    BY <1>1 DEF Names

(* A request saved with no key it did not have.                            *)
LEMMA SaveNames ==
    ASSUME IInv, NEW id \in Ids, Live(id), NEW row \in Rows, Save(id, row),
           \A key \in Keys : Names(row, key) => Names(rows[id], key)
    PROVE  /\ NoNewNames
           /\ \A key : Live(id)' /\ Names(rows'[id], key) <=> Names(row, key)
<1>1. rows' = [rows EXCEPT ![id] = Saved(id, row)] /\ rows \in [Ids -> Rows \cup {None}]
    BY DEF Save, IInv, RowsFit
<1>2. /\ rows'[id] = Saved(id, row)
      /\ \A other \in Ids : other # id => rows'[other] = rows[other]
    BY <1>1
<1>3. Live(id)'
    BY SavedStands
<1>4. Saved(id, row).stepKey = row.stepKey /\ Saved(id, row).handle = row.handle
    BY DEF Saved, Rows
<1>5. \A key : Names(rows'[id], key) <=> Names(row, key)
    BY <1>2, <1>4 DEF Names
<1>6. NoNewNames
    BY <1>2, <1>5 DEF NoNewNames, Live
<1> QED
    BY <1>3, <1>5, <1>6

(* Rows that stay name nothing new.                                        *)
LEMMA RowsStand ==
    ASSUME UNCHANGED rows
    PROVE  NoNewNames
  BY DEF NoNewNames, Live

(* A request gone names nothing.                                           *)
LEMMA GoneNames ==
    ASSUME IInv, NEW id \in Ids, rows' = [rows EXCEPT ![id] = None]
    PROVE  NoNewNames /\ ~Live(id)'
  BY DEF NoNewNames, Live, IInv, RowsFit

(* What a row's drop is named by is one of its keys.                       *)
LEMMA DropsOwnKey ==
    ASSUME NEW row, RowFits(row)
    PROVE  /\ DropTarget(row) # None => Names(row, DropTarget(row).key)
           /\ RetryDrops(row) # None => Names(row, RetryDrops(row).key)
  BY DEF DropTarget, RetryDrops, Names

(* A person drops a key the row had and no longer has.                     *)
LEMMA PersonDrops ==
    ASSUME IInv, KeyInv, NoNewNames, UNCHANGED <<late, job>>, NEW id \in Ids,
           NEW target \in Targets \cup {None}, NEW pick \in Releases \cup {None},
           AskDrop(id, target, "person", pick), Live(id),
           target # None => /\ Names(rows[id], target.key)
                            /\ ~(Live(id)' /\ Names(rows'[id], target.key))
    PROVE  KeyInv'
<1>1. CASE target = None
    BY <1>1, TurnStands, JobStays DEF AskDrop
<1>2. CASE target # None
    <2> DEFINE call == CancelCall(id, target, "person", pick)
    <2>1. /\ call \in NamedCalls /\ call.kind = "cancel" /\ call.by = "person"
          /\ call.key = target.key /\ target.key \in Keys
        BY <1>2 DEF CancelCall, NamedCalls, Calls, Targets
    <2>2. turn' = Append(turn, call) /\ turn \in Seq(NamedCalls)
        BY <1>2 DEF AskDrop, IInv, TurnFits
    <2>3. \A other \in CallsOf(turn) : other.kind = "cancel" => other.key # target.key
        BY <1>2 DEF KeyInv, DropsUnnamed
    <2> HIDE DEF call
    <2>4. Alone(Append(turn, call)) /\ CallsOf(Append(turn, call)) = CallsOf(turn) \cup {call}
        BY <2>1, <2>2, <2>3, CallJoins DEF KeyInv
    <2>5. Alone(turn)' /\ CallsOf(turn)' = CallsOf(turn) \cup {call}
        BY <2>2, <2>4 DEF Alone, CallsOf
    <2>6. \A other \in Ids : Live(other)' => ~Names(rows'[other], target.key)
        BY <1>2, <2>1 DEF KeyInv, OwnKeys, NoNewNames
    <2>7. OwnKeys' /\ DropsUnnamed'
        BY <2>1, <2>5, <2>6, KeysStay DEF Like
    <2>8. JobsCalls'
        BY <2>1, <2>5 DEF KeyInv, JobsCalls
    <2>9. StartsKey'
        BY DEF KeyInv, StartsKey, NoNewNames
    <2> QED
        BY <2>5, <2>7, <2>8, <2>9 DEF KeyInv
<1> QED
    BY <1>1, <1>2

----------------------------------------------------------------------------
(* What a person does, with the keys                                       *)

(* A new request has no key yet.                                           *)
LEMMA CreateKeys ==
    ASSUME IInv, KeyInv, NEW id \in Ids, NEW person \in People,
           NEW replaced \in SUBSET MayGiveWay, Create(id, person, replaced)
    PROVE  KeyInv'
<1>1. NoNewNames
  <2>1. \A key \in Keys : ~Names(NewRow(Asking(person, replaced)), key)
      BY TurnConstants DEF Names, NewRow
  <2>2. /\ rows' = [rows EXCEPT ![id] = NewRow(Asking(person, replaced))]
        /\ rows \in [Ids -> Rows \cup {None}]
      BY DEF Create, IInv, RowsFit
  <2> QED
      BY <2>1, <2>2 DEF NoNewNames, Live
<1> QED
    BY <1>1, TurnStands, JobStays DEF Create, turnVars

(* A retried row names nothing but what it keeps.                          *)
LEMMA RetriedNames ==
    ASSUME NEW row, RowFits(row), row.status = "failed"
    PROVE  /\ \A key : Names(Retried(row), key) => Names(row, key)
           /\ RetryDrops(row) # None => ~Names(Retried(row), RetryDrops(row).key)
<1>1. row \in Rows /\ Retried(row) \in Rows
    BY RetriedFits DEF RowFits
<1>2. /\ After(row, Retry).stepKey = row.stepKey /\ After(row, Retry).handle = row.handle
    BY EventKeeps
<1>3. After(row, Retry) =
        [row EXCEPT !.status = row.failedStep, !.failedStep = None, !.reason = None]
    BY <1>1, AfterEvents
<1>4. CASE FollowsAgain(row) \/ ~Restarts(row)
    BY <1>2, <1>4 DEF Retried, RetryDrops, Names
<1>5. CASE ~(FollowsAgain(row) \/ ~Restarts(row))
    <2>1. Retried(row) = [After(row, Retry) EXCEPT !.handle = None]
        BY <1>5 DEF Retried
    <2>2. Retried(row).stepKey = row.stepKey /\ Retried(row).handle = None
        BY <1>1, <1>3, <2>1 DEF Rows
    <2>3. row.handle # None => row.stepKey = None /\ row.handle.key # None
        BY <1>5, TurnConstants DEF Restarts, RowFits, Fitting, StepOf, Rows, Handles
    <2> QED
        BY <2>2, <2>3 DEF RetryDrops, Names
<1> QED
    BY <1>4, <1>5

(* A retry asks for a drop only of the key its row gives up.               *)
LEMMA RetryKeys ==
    ASSUME IInv, KeyInv, NEW id \in Ids, RetryRequest(id)
    PROVE  KeyInv'
<1>1. Live(id) /\ RowFits(rows[id]) /\ rows[id] \in Rows
    BY FailedStepKnown DEF RetryRequest
<1>2. rows[id].status = "failed"
    BY <1>1, TakenFrom DEF RetryRequest
<1>3. Retried(rows[id]) \in Rows
    BY <1>1, <1>2, RetriedFits DEF RowFits
<1>4. /\ NoNewNames
      /\ \A key : Live(id)' /\ Names(rows'[id], key) <=> Names(Retried(rows[id]), key)
    BY <1>1, <1>2, <1>3, RetriedNames, SaveNames DEF RetryRequest
<1>5. RetryDrops(rows[id]) \in Targets \cup {None}
    BY <1>1, TargetsNamed
<1>6. RetryDrops(rows[id]) # None =>
          /\ Names(rows[id], RetryDrops(rows[id]).key)
          /\ ~(Live(id)' /\ Names(rows'[id], RetryDrops(rows[id]).key))
    BY <1>1, <1>2, <1>4, DropsOwnKey, RetriedNames
<1> QED
    BY <1>1, <1>4, <1>5, <1>6, PersonDrops DEF RetryRequest

(* Asked for again, a request is retried, joined or left as it is.         *)
LEMMA JoinKeys ==
    ASSUME IInv, LostFits, KeyInv, NEW id \in Ids, NEW person \in People,
           NEW replaced \in SUBSET MayGiveWay, Join(id, person, replaced)
    PROVE  KeyInv'
<1> DEFINE joined == [rows[id] EXCEPT !.people = @ \cup Asking(person, replaced)]
<1>1. Live(id) /\ RowFits(rows[id]) /\ rows[id] \in Rows /\ rows \in [Ids -> Rows \cup {None}]
    BY FailedStepKnown DEF Join, IInv, RowsFit
<1>2. /\ joined \in Rows /\ RowFits(joined)
      /\ joined.stepKey = rows[id].stepKey /\ joined.handle = rows[id].handle
    BY <1>1, AskingPeople DEF RowFits, Rows, Fitting, StepOf
<1>3. \A key : Names(joined, key) <=> Names(rows[id], key)
    BY <1>2 DEF Names
<1>4. CASE joined.status = "failed"
    <2>1. Save(id, Retried(joined)) /\ AskDrop(id, RetryDrops(joined), "person", None)
        BY <1>4 DEF Join
    <2> HIDE DEF joined
    <2>2. Retried(joined) \in Rows
        BY <1>2, <1>4, RetriedFits DEF RowFits
    <2>3. /\ NoNewNames
          /\ \A key : Live(id)' /\ Names(rows'[id], key) <=> Names(Retried(joined), key)
        BY <1>1, <1>2, <1>3, <1>4, <2>1, <2>2, RetriedNames, SaveNames
    <2>4. RetryDrops(joined) \in Targets \cup {None}
        BY <1>2, TargetsNamed
    <2>5. RetryDrops(joined) # None =>
              /\ Names(rows[id], RetryDrops(joined).key)
              /\ ~(Live(id)' /\ Names(rows'[id], RetryDrops(joined).key))
        BY <1>2, <1>3, <1>4, <2>3, DropsOwnKey, RetriedNames
    <2> QED
        BY <1>1, <2>1, <2>3, <2>4, <2>5, PersonDrops DEF Join
<1>5. CASE joined.status # "failed"
    <2>1. rows' = [rows EXCEPT ![id] = joined] /\ UNCHANGED <<turn, late, job>>
        BY <1>5 DEF Join
    <2> HIDE DEF joined
    <2>2. NoNewNames
        BY <1>1, <1>3, <2>1 DEF NoNewNames, Live
    <2> QED
        BY <2>1, <2>2, TurnStands, JobStays
<1> QED
    BY <1>4, <1>5

(* A choice names nothing new, made once or over the job's turn.           *)
LEMMA ChoiceNames ==
    ASSUME IInv, NEW id \in Ids, NEW release, Choosable(id, release),
           NEW n \in Nat, n <= MaxAutoStarts, Save(id, WithChoice(rows[id], release, n))
    PROVE  NoNewNames
<1> DEFINE row == WithChoice(rows[id], release, n)
<1>1. Live(id) /\ row \in Rows /\ rows[id] \in Rows
    BY ChosenFits, FailedStepKnown DEF IInv, RowFits, Choosable
<1>2. row.stepKey = rows[id].stepKey /\ row.handle = rows[id].handle
    BY EventKeeps DEF WithChoice
<1>3. \A key \in Keys : Names(row, key) => Names(rows[id], key)
    BY <1>2 DEF Names
<1> HIDE DEF row
<1>4. Save(id, row)
    BY DEF row
<1> QED
    BY <1>1, <1>3, <1>4, SaveNames

(* A release chosen takes the row on with the keys it has.                 *)
LEMMA ChooseReleaseKeys ==
    ASSUME IInv, KeyInv, NEW id \in Ids, NEW release \in Releases, ChooseRelease(id, release)
    PROVE  KeyInv'
<1>1. Choosable(id, release) /\ Save(id, WithChoice(rows[id], release, rows[id].autoStarts))
    BY DEF ChooseRelease
<1>2. rows[id].autoStarts \in Nat /\ rows[id].autoStarts <= MaxAutoStarts
    BY <1>1, FailedStepKnown DEF Choosable, RowFits, Rows
<1>3. NoNewNames
    BY <1>1, <1>2, ChoiceNames
<1> QED
    BY <1>3, TurnStands, JobStays DEF ChooseRelease, turnVars

(* The way back to the choice names nothing.                               *)
LEMMA BackNames ==
    ASSUME NEW row \in Rows, NEW release, NEW n, NEW key \in Keys
    PROVE  ~Names(BackToChoice(row), key) /\ ~Names(WithChoice(BackToChoice(row), release, n), key)
<1>1. /\ After(row, PickAnother).stepKey = row.stepKey /\ After(row, PickAnother).handle = row.handle
      /\ After(row, PickAnother) =
          [row EXCEPT !.status = "needsChoice", !.failedStep = None, !.reason = None]
    BY EventKeeps, AfterEvents
<1>2. BackToChoice(row).stepKey = None /\ BackToChoice(row).handle = None
    BY <1>1 DEF BackToChoice, Rows
<1>3. /\ WithChoice(BackToChoice(row), release, n).stepKey = None
      /\ WithChoice(BackToChoice(row), release, n).handle = None
    BY <1>2, EventKeeps DEF WithChoice
<1> QED
    BY <1>2, <1>3, TurnConstants DEF Names

(* Choosing another release gives up the row's key, and asks for its drop. *)
LEMMA ChooseAnotherKeys ==
    ASSUME IInv, KeyInv, NEW id \in Ids, NEW release \in Releases, ChooseAnother(id, release)
    PROVE  KeyInv'
<1> DEFINE row  == rows[id]
           back == BackToChoice(row)
           new  == IF DropTarget(row) = None
                   THEN WithChoice(back, release, row.autoStarts) ELSE back
<1>1. Live(id) /\ RowFits(row) /\ row \in Rows
    BY FailedStepKnown DEF ChooseAnother
<1>2. RowFits(back) /\ back.status = "needsChoice"
    BY <1>1, BackToChoiceFits
<1>3. row.autoStarts \in Nat /\ row.autoStarts <= MaxAutoStarts
    BY <1>1 DEF RowFits, Rows
<1>4. new \in Rows
    BY <1>2, <1>3, ChoiceFits DEF RowFits
<1>5. Save(id, new) /\ AskDrop(id, DropTarget(row), "person", release) /\ UNCHANGED <<late, job>>
    BY DEF ChooseAnother
<1>6. \A key \in Keys : ~Names(new, key)
    BY <1>1, BackNames
<1> HIDE DEF new
<1>7. NoNewNames /\ \A key : Live(id)' /\ Names(rows'[id], key) <=> Names(new, key)
    BY <1>1, <1>4, <1>5, <1>6, SaveNames
<1>8. DropTarget(row) \in Targets \cup {None}
    BY <1>1, TargetsNamed
<1>9. DropTarget(row) # None => /\ Names(row, DropTarget(row).key)
                                /\ ~(Live(id)' /\ Names(rows'[id], DropTarget(row).key))
    BY <1>1, <1>6, <1>7, <1>8, DropsOwnKey DEF Targets
<1> QED
    BY <1>1, <1>5, <1>7, <1>8, <1>9, PersonDrops

(* A request that goes asks for the drop of what its row named.            *)
LEMMA CancelKeys ==
    ASSUME IInv, KeyInv, NEW id \in Ids, NEW person \in People, CancelRequest(id, person)
    PROVE  KeyInv'
<1>1. Live(id) /\ RowFits(rows[id]) /\ rows[id] \in Rows /\ rows \in [Ids -> Rows \cup {None}]
    BY FailedStepKnown DEF CancelRequest, IInv, RowsFit
<1>2. CASE rows[id].people # {person}
    <2>1. rows' = [rows EXCEPT ![id].people = @ \ {person}] /\ UNCHANGED <<turn, late, job>>
        BY <1>2 DEF CancelRequest
    <2>2. /\ rows'[id] = [rows[id] EXCEPT !.people = @ \ {person}]
          /\ \A other \in Ids : other # id => rows'[other] = rows[other]
        BY <1>1, <2>1
    <2>3. rows'[id].stepKey = rows[id].stepKey /\ rows'[id].handle = rows[id].handle
        BY <1>1, <2>2 DEF Rows
    <2>4. NoNewNames
        BY <1>1, <2>2, <2>3 DEF NoNewNames, Live, Names
    <2> QED
        BY <2>1, <2>4, TurnStands, JobStays
<1>3. CASE rows[id].people = {person}
    <2>1. /\ rows' = [rows EXCEPT ![id] = None] /\ UNCHANGED <<late, job>>
          /\ AskDrop(id, DropTarget(rows[id]), "person", None)
        BY <1>3 DEF CancelRequest
    <2>2. NoNewNames /\ ~Live(id)'
        BY <2>1, GoneNames
    <2>3. DropTarget(rows[id]) \in Targets \cup {None}
        BY <1>1, TargetsNamed
    <2> QED
        BY <1>1, <2>1, <2>2, <2>3, DropsOwnKey, PersonDrops
<1> QED
    BY <1>2, <1>3

(* What follows a person's drop names nothing new.                         *)
LEMMA PersonDropKeys ==
    ASSUME IInv, KeyInv, PersonDropEnds
    PROVE  KeyInv'
<1> DEFINE id   == SentCall.id
           pick == SentCall.pick
<1>1. id \in Ids
    BY TurnGoesOn DEF IInv, PersonDropEnds, Calls
<1>2. TurnFrom /\ LateFrom /\ Alone(turn)'
    BY SentLeaves DEF PersonDropEnds
<1>3. CASE Choosable(id, pick) /\ Save(id, WithChoice(rows[id], pick, rows[id].autoStarts))
    <2>1. rows[id].autoStarts \in Nat /\ rows[id].autoStarts <= MaxAutoStarts
        BY <1>1, <1>3, FailedStepKnown DEF Choosable, RowFits, Rows
    <2>2. NoNewNames
        BY <1>1, <1>3, <2>1, ChoiceNames
    <2> QED
        BY <1>2, <2>2, JobStays DEF PersonDropEnds
<1>4. CASE UNCHANGED rows
    BY <1>2, <1>4, RowsStand, JobStays DEF PersonDropEnds
<1> QED
    BY <1>3, <1>4 DEF PersonDropEnds

----------------------------------------------------------------------------
(* The advance job, with the keys                                          *)

(* A request saved with its keys, or without one of them.                  *)
LEMMA SaveKeepsKeys ==
    ASSUME IInv, NEW id \in Ids, Live(id), NEW row, Save(id, row),
           row.stepKey = rows[id].stepKey \/ row.stepKey = None,
           row.handle = rows[id].handle \/ row.handle = None
    PROVE  NoNewNames
<1>1. /\ rows'[id] = Saved(id, row)
      /\ \A other \in Ids : other # id => rows'[other] = rows[other]
    BY DEF Save, IInv, RowsFit
<1>2. Saved(id, row).stepKey = row.stepKey /\ Saved(id, row).handle = row.handle
    BY DEF Saved
<1>3. \A key \in Keys : Names(rows'[id], key) => Names(rows[id], key)
    BY <1>1, <1>2, TurnConstants DEF Names
<1> QED
    BY <1>1, <1>3 DEF NoNewNames, Live

(* An answer saved with its row's keys, or without one of them.            *)
LEMMA AnswerNames ==
    ASSUME IInv, job.id \in Ids, NEW row, SaveIfCurrent(row),
           row.stepKey = MyRow.stepKey \/ row.stepKey = None,
           row.handle = MyRow.handle \/ row.handle = None
    PROVE  NoNewNames
<1>1. CASE Current
    BY <1>1, SaveKeepsKeys DEF SaveIfCurrent, Current, MyRow
<1>2. CASE ~Current
    BY <1>2, RowsStand DEF SaveIfCurrent
<1> QED
    BY <1>1, <1>2

(* An event applied keeps its row's keys.                                  *)
LEMMA ApplyNames ==
    ASSUME IInv, job.id \in Ids, NEW row, NEW event, Apply(row, event),
           row.stepKey = MyRow.stepKey, row.handle = MyRow.handle
    PROVE  NoNewNames
<1>1. After(row, event).stepKey = row.stepKey /\ After(row, event).handle = row.handle
    BY EventKeeps
<1> QED
    BY <1>1, AnswerNames DEF Apply

(* A step that throws names nothing new.                                   *)
LEMMA ThrowNames ==
    ASSUME IInv, job.id \in Ids, StepThrows
    PROVE  NoNewNames
<1>1. CASE UNCHANGED rows
    BY <1>1, RowsStand
<1>2. CASE Live(job.id) /\ Save(job.id, After(MyRow, Failed("other")))
  <2>1. /\ After(MyRow, Failed("other")).stepKey = MyRow.stepKey
        /\ After(MyRow, Failed("other")).handle = MyRow.handle
      BY EventKeeps
  <2> QED
      BY <1>2, <2>1, SaveKeepsKeys DEF MyRow
<1> QED
    BY <1>1, <1>2 DEF StepThrows, RecordThrown

(* A step with no call of its own ends, or begins.                         *)
LEMMA QuietMoves ==
    ASSUME IInv, KeyInv, NoNewNames, UNCHANGED <<turn, late>>, job'.pc # "start",
           job.pc \notin {"start", "dropLost", "dropStalled"}
    PROVE  KeyInv'
<1>1. \A call \in CallsOf(turn) : call.by # "job"
    BY NoneInTurn
<1> QED
    BY <1>1, TurnStands, JobMoves

(* A run begins and ends with the keys as they are.                        *)
LEMMA RunKeys ==
    ASSUME IInv, KeyInv, BeginRun \/ EndRun
    PROVE  KeyInv'
<1>1. Idle \in Jobs /\ Idle.pc = "idle"
    BY DEF Idle, Jobs
<1>2. job'.pc \in {"run", "idle"} /\ job.pc \in {"run", "idle"}
    BY <1>1 DEF BeginRun, EndRun, Jobs
<1> QED
    BY <1>2, RowsStand, QuietMoves DEF BeginRun, EndRun, turnVars

(* A request passed over keeps its keys.                                   *)
LEMMA PassOverKeys ==
    ASSUME IInv, KeyInv, NEW id \in Ids, PassOver(id)
    PROVE  KeyInv'
<1>1. job.pc = "run" /\ job'.pc = "run"
    BY DEF PassOver, Turning, IInv, JobFits, Jobs
<1> QED
    BY <1>1, RowsStand, QuietMoves DEF PassOver, turnVars

(* Asking a search or a poll gives no key.                                 *)
LEMMA AskKeys ==
    ASSUME IInv, KeyInv, NEW id \in Ids, AskSearch(id) \/ AskPoll(id)
    PROVE  KeyInv'
<1>1. job.pc = "run" /\ job'.pc \in {"search", "poll"}
    BY DEF AskSearch, AskPoll, StepFrom, Turning, Waits
<1> QED
    BY <1>1, RowsStand, QuietMoves DEF AskSearch, AskPoll, turnVars

(* A search begun changes no key.                                          *)
LEMMA BeginSearchingKeys ==
    ASSUME IInv, KeyInv, NEW id \in Ids, BeginSearching(id)
    PROVE  KeyInv'
<1>1. job.pc = "run" /\ job'.pc = "run"
    BY DEF BeginSearching, StepFrom, Turning, IInv, JobFits, Jobs
<1>2. NoNewNames
    BY EventKeeps, SaveKeepsKeys DEF BeginSearching, StepFrom
<1> QED
    BY <1>1, <1>2, QuietMoves DEF BeginSearching, turnVars

(* An import answered from the index changes no key.                       *)
LEMMA IndexAnswersKeys ==
    ASSUME IInv, KeyInv, NEW id \in Ids, IndexAnswers(id)
    PROVE  KeyInv'
<1>1. job.pc = "run" /\ job'.pc = "run"
    BY DEF IndexAnswers, StepFrom, Turning, IInv, JobFits, Jobs
<1>2. NoNewNames
    BY EventKeeps, SaveKeepsKeys DEF IndexAnswers, StepFrom
<1> QED
    BY <1>1, <1>2, QuietMoves DEF IndexAnswers, turnVars

(* The job waits on a request of its own, and goes on to the run.          *)
LEMMA StepEnds ==
    ASSUME IInv
    PROVE  /\ job.pc \notin {"idle", "run"} => job.id \in Ids
           /\ job' = StepOver => job'.pc = "run"
  BY DEF IInv, JobFits, JobWaits, StepOver, Jobs

(* A search's answer changes no key.                                       *)
LEMMA SearchAnswersKeys ==
    ASSUME IInv, KeyInv, SearchAnswers
    PROVE  KeyInv'
<1>1. job.pc = "search" /\ job.id \in Ids /\ job'.pc = "run"
    BY StepEnds DEF SearchAnswers, Waiting
<1>2. ASSUME NEW release, NEW others,
             Apply([MyRow EXCEPT !.release = release, !.candidates = others],
                   Moved(AfterPicked(Medium)))
      PROVE  NoNewNames
  <2> DEFINE picked == [MyRow EXCEPT !.release = release, !.candidates = others]
  <2>1. picked.stepKey = MyRow.stepKey /\ picked.handle = MyRow.handle
      OBVIOUS
  <2> HIDE DEF picked
  <2>2. Apply(picked, Moved(AfterPicked(Medium)))
      BY <1>2 DEF picked
  <2> QED
      BY <1>1, <2>1, <2>2, ApplyNames
<1>3. ASSUME NEW candidates,
             Apply([MyRow EXCEPT !.candidates = candidates], Moved("needsChoice"))
      PROVE  NoNewNames
  <2> DEFINE offered == [MyRow EXCEPT !.candidates = candidates]
  <2>1. offered.stepKey = MyRow.stepKey /\ offered.handle = MyRow.handle
      OBVIOUS
  <2> HIDE DEF offered
  <2>2. Apply(offered, Moved("needsChoice"))
      BY <1>3 DEF offered
  <2> QED
      BY <1>1, <2>1, <2>2, ApplyNames
<1>4. ASSUME Apply(MyRow, Failed("other"))
      PROVE  NoNewNames
    BY <1>1, <1>4, ApplyNames
<1>5. NoNewNames
    BY <1>2, <1>3, <1>4 DEF SearchAnswers
<1> QED
    BY <1>1, <1>5, QuietMoves DEF SearchAnswers, turnVars

(* A poll's answer changes no key.                                         *)
LEMMA PollAnswersKeys ==
    ASSUME IInv, KeyInv, PollAnswers
    PROVE  KeyInv'
<1>1. job.pc = "poll" /\ job.id \in Ids /\ job'.pc = "run"
    BY StepEnds DEF PollAnswers, Waiting
<1>2. ASSUME NEW event, Apply(MyRow, event)
      PROVE  NoNewNames
    BY <1>1, <1>2, ApplyNames
<1>3. ASSUME SaveIfCurrent(MyRow)
      PROVE  NoNewNames
    BY <1>1, <1>3, AnswerNames
<1>4. NoNewNames
    BY <1>2, <1>3 DEF PollAnswers
<1> QED
    BY <1>1, <1>4, QuietMoves DEF PollAnswers, turnVars

(* An import's answer gives up the key of its step, or keeps it.           *)
LEMMA ImportAnswersKeys ==
    ASSUME IInv, KeyInv, ImportAnswers
    PROVE  KeyInv'
<1>1. job.pc = "import" /\ job.id \in Ids /\ job'.pc = "run"
    BY StepEnds DEF ImportAnswers, Waiting
<1>2. ASSUME SaveIfCurrent([MyRow EXCEPT !.result = job.snap.release, !.stepKey = None])
      PROVE  NoNewNames
  <2> DEFINE row == [MyRow EXCEPT !.result = job.snap.release, !.stepKey = None]
  <2>1. row.handle = MyRow.handle
      OBVIOUS
  <2>2. row.stepKey = MyRow.stepKey \/ row.stepKey = None
      OBVIOUS
  <2> HIDE DEF row
  <2>3. SaveIfCurrent(row)
      BY <1>2 DEF row
  <2> QED
      BY <1>1, <2>1, <2>2, <2>3, AnswerNames
<1>3. ASSUME Apply(MyRow, Failed("other"))
      PROVE  NoNewNames
    BY <1>1, <1>3, ApplyNames
<1>4. NoNewNames
    BY <1>2, <1>3, RowsStand DEF ImportAnswers
<1> QED
    BY <1>1, <1>4, QuietMoves DEF ImportAnswers, turnVars

(* A step that fails changes no key.                                       *)
LEMMA StepFailsKeys ==
    ASSUME IInv, KeyInv, StepFails
    PROVE  KeyInv'
<1>1. job.pc \in {"search", "poll", "import"} /\ job.id \in Ids /\ job'.pc = "run"
    BY StepEnds DEF StepFails
<1>2. NoNewNames
    BY <1>1, ThrowNames DEF StepFails
<1> QED
    BY <1>1, <1>2, QuietMoves DEF StepFails, turnVars

(* A new key is nobody's.                                                  *)
LEMMA NewIsNobodys ==
    ASSUME NEW key, NewKey(key)
    PROVE  /\ \A id \in Ids : Live(id) => ~Names(rows[id], key)
           /\ \A call \in late \cup CallsOf(turn) : call.key # key
           /\ \A h \in Releases : torrents[h] # key
<1>1. key \notin KeysNamed
    BY DEF NewKey
<1>2. /\ key \notin {rows[id].stepKey : id \in {i \in Ids : Live(i)}}
      /\ key \notin {rows[id].handle.key : id \in {i \in Ids : Live(i) /\ rows[i].handle # None}}
      /\ key \notin {call.key : call \in late \cup {turn[i] : i \in DOMAIN turn}}
      /\ key \notin {torrents[h] : h \in Releases}
    BY <1>1 DEF KeysNamed
<1> QED
    BY <1>2 DEF Names, CallsOf

(* The key of a request's step is its own, and nobody drops it.            *)
LEMMA KeyedNames ==
    ASSUME IInv, KeyInv, NEW id \in Ids, NEW key \in Keys, Live(id), Keyed(id, key)
    PROVE  /\ Live(id)' /\ rows'[id].stepKey = key /\ rows'[id].handle = rows[id].handle
           /\ \A other \in Ids : other # id => rows'[other] = rows[other]
           /\ OwnKeys'
           /\ \A other \in Ids : Live(other)' /\ Names(rows'[other], key) => other = id
           /\ \A call \in late \cup CallsOf(turn) : call.kind = "cancel" =>
                  \A other \in Ids : Live(other)' => ~Names(rows'[other], call.key)
<1>1. CASE rows[id].stepKey = None
  <2> DEFINE row == [rows[id] EXCEPT !.stepKey = key]
  <2>1. row \in Rows /\ row.stepKey = key /\ row.handle = rows[id].handle
      BY FailedStepKnown DEF Rows
  <2>2. NewKey(key) /\ Save(id, row)
      BY <1>1 DEF Keyed
  <2> HIDE DEF row
  <2>3. /\ Live(id)' /\ rows'[id] = Saved(id, row)
        /\ \A other \in Ids : other # id => rows'[other] = rows[other]
      BY <2>1, <2>2, SavedStands DEF Save, IInv, RowsFit
  <2>4. rows'[id].stepKey = key /\ rows'[id].handle = rows[id].handle
      BY <2>1, <2>3 DEF Saved, Rows
  <2>5. \A k \in Keys : Names(rows'[id], k) => k = key \/ Names(rows[id], k)
      BY <2>4 DEF Names
  <2>6. \A other \in Ids : Live(other) => ~Names(rows[other], key)
      BY <2>2, NewIsNobodys
  <2>7. \A call \in late \cup CallsOf(turn) : call.key # key /\ call.key \in Keys
      BY <2>2, NewIsNobodys, CallsInTurn DEF IInv, TurnFits, NamedCalls, Calls
  <2>8. OwnKeys'
      BY <2>3, <2>5, <2>6 DEF KeyInv, OwnKeys, Live
  <2>9. \A other \in Ids : Live(other)' /\ Names(rows'[other], key) => other = id
      BY <2>3, <2>6 DEF Live
  <2>10. \A call \in late \cup CallsOf(turn) : call.kind = "cancel" =>
             \A other \in Ids : Live(other)' => ~Names(rows'[other], call.key)
      BY <2>3, <2>5, <2>7 DEF KeyInv, DropsUnnamed, Live
  <2> QED
      BY <2>3, <2>4, <2>8, <2>9, <2>10
<1>2. CASE rows[id].stepKey # None
  <2>1. key = rows[id].stepKey /\ UNCHANGED rows
      BY <1>2 DEF Keyed
  <2>2. Names(rows[id], key)
      BY <2>1 DEF Names
  <2> QED
      BY <2>1, <2>2 DEF KeyInv, OwnKeys, DropsUnnamed, Live
<1> QED
    BY <1>1, <1>2

(* A start is asked for under a key of its own.                            *)
LEMMA AskStartKeys ==
    ASSUME IInv, KeyInv, NEW id \in Ids, NEW key \in Keys, AskStart(id, key)
    PROVE  KeyInv'
<1> DEFINE call == StartCall(id, rows[id].release, key)
<1>1. /\ Live(id) /\ Keyed(id, key) /\ job.pc = "run" /\ UNCHANGED late
      /\ turn' = Append(turn, call)
    BY DEF AskStart, Turning
<1>2. job'.pc = "start" /\ job'.id = id /\ job'.snap = rows'[id]
    BY DEF AskStart, Waits
<1>3. /\ call \in NamedCalls /\ call.kind = "start" /\ call.by = "job" /\ call.key = key
      /\ turn \in Seq(NamedCalls)
  <2>1. RowFits(rows[id]) /\ rows[id] \in Rows /\ rows[id].status \in {"queued", "downloading"}
      BY FailedStepKnown DEF AskStart
  <2>2. rows[id].release \in Releases
      BY <2>1 DEF RowFits, Fitting, StepOf, Rows
  <2>3. call \in Calls /\ call.kind = "start" /\ call.by = "job" /\ call.key = key /\ call.hash # None
      BY <2>2, TurnConstants DEF StartCall, Calls
  <2> HIDE DEF call
  <2> QED
      BY <2>3 DEF NamedCalls, IInv, TurnFits
<1> HIDE DEF call
<1>4. \A other \in CallsOf(turn) : other.by # "job"
    BY <1>1, NoneInTurn
<1>5. Alone(Append(turn, call)) /\ CallsOf(Append(turn, call)) = CallsOf(turn) \cup {call}
    BY <1>3, <1>4, CallJoins DEF KeyInv
<1>6. Alone(turn)' /\ CallsOf(turn)' = CallsOf(turn) \cup {call}
    BY <1>1, <1>5 DEF Alone, CallsOf
<1>7. /\ rows'[id].stepKey = key /\ OwnKeys'
      /\ \A other \in Ids : Live(other)' /\ Names(rows'[other], key) => other = id
      /\ \A other \in late \cup CallsOf(turn) : other.kind = "cancel" =>
             \A i \in Ids : Live(i)' => ~Names(rows'[i], other.key)
    BY <1>1, KeyedNames
<1>8. DropsUnnamed'
    BY <1>1, <1>3, <1>6, <1>7 DEF DropsUnnamed
<1>9. JobsCalls'
  <2>1. \A other \in CallsOf(turn) : other.kind # "start"
      BY <1>1 DEF KeyInv, JobsCalls
  <2> QED
      BY <1>2, <1>3, <1>4, <1>6, <1>7, <2>1 DEF JobsCalls
<1>10. StartsKey'
    BY <1>2, <1>7 DEF StartsKey
<1> QED
    BY <1>6, <1>7, <1>8, <1>9, <1>10 DEF KeyInv

(* An import is asked for under a key of its own.                          *)
LEMMA AskImportKeys ==
    ASSUME IInv, KeyInv, NEW id \in Ids, NEW key \in Keys, AskImport(id, key)
    PROVE  KeyInv'
<1>1. /\ Live(id) /\ Keyed(id, key) /\ job.pc = "run" /\ UNCHANGED <<turn, late>>
      /\ job'.pc = "import"
    BY DEF AskImport, StepFrom, Turning, Waits, turnVars
<1>2. /\ OwnKeys'
      /\ \A other \in late \cup CallsOf(turn) : other.kind = "cancel" =>
             \A i \in Ids : Live(i)' => ~Names(rows'[i], other.key)
    BY <1>1, KeyedNames
<1>3. \A call \in CallsOf(turn) : call.by # "job" /\ call.kind # "start"
    BY <1>1, NoneInTurn DEF KeyInv, JobsCalls
<1>4. Alone(turn)' /\ CallsOf(turn)' = CallsOf(turn)
    BY <1>1, TurnStands
<1>5. DropsUnnamed' /\ JobsCalls' /\ StartsKey'
    BY <1>1, <1>2, <1>3, <1>4 DEF DropsUnnamed, JobsCalls, StartsKey
<1> QED
    BY <1>2, <1>4, <1>5 DEF KeyInv

(* The row the job waits on has the key it was read with.                  *)
LEMMA MyKeyIsSnaps ==
    ASSUME IInv, job.pc \in {"search", "start", "poll", "import"}, Live(job.id)
    PROVE  MyRow.stepKey = job.snap.stepKey
<1>1. MyRow \in Rows /\ job.snap \in Rows
    BY MyRowIsSnap DEF IInv, RowFits
<1> DEFINE one == [MyRow EXCEPT !.people = {}]
           two == [job.snap EXCEPT !.people = {}]
<1>2. one.stepKey = MyRow.stepKey /\ two.stepKey = job.snap.stepKey
    BY <1>1 DEF Rows
<1>3. one = two
    BY DEF IInv, JobFits, SnapshotCurrent, MyRow
<1> HIDE DEF one, two
<1> QED
    BY <1>2, <1>3

(* A start that answers hands its key to its row, or to the drop that      *)
(* follows.                                                                *)
LEMMA StartAnswersKeys ==
    ASSUME IInv, KeyInv, StartAnswers
    PROVE  KeyInv'
<1> DEFINE handle == [hash |-> SentCall.hash, key |-> SentCall.key]
<1>1. /\ job.pc = "start" /\ job.id \in Ids /\ turn # <<>> /\ SentCall.kind = "start"
      /\ UNCHANGED late
    BY StepEnds DEF StartAnswers, Waiting, Sent
<1>2. /\ Alone(Tail(turn)) /\ CallsOf(Tail(turn)) \subseteq CallsOf(turn)
      /\ SentCall \in CallsOf(turn) /\ SentCall.by = "job" /\ SentCall.key = job.snap.stepKey
      /\ \A call \in CallsOf(Tail(turn)) : call.by # "job" /\ call.kind # "start"
    BY <1>1, HeadLeaves DEF IInv, TurnFits, KeyInv, SentCall, JobsCalls
<1>3. SentCall \in NamedCalls /\ NextInTurn \in Seq(NamedCalls)
    BY <1>1, TurnGoesOn DEF IInv
<1>4. handle.key = job.snap.stepKey /\ handle.key \in Keys /\ handle \in Targets
    BY <1>2, <1>3 DEF NamedCalls, Calls, Targets
<1> HIDE DEF handle
<1>5. CASE Current
  <2> DEFINE row == [MyRow EXCEPT !.handle = handle, !.stepKey = None]
  <2>1. Save(job.id, row) /\ turn' = NextInTurn /\ job' = StepOver
      BY <1>5 DEF StartAnswers, handle
  <2>2. Live(job.id) /\ MyRow.stepKey = job.snap.stepKey /\ RowFits(MyRow) /\ MyRow \in Rows
      BY <1>1, <1>5, MyKeyIsSnaps, MyRowIsSnap DEF Current, IInv, RowFits
  <2>3. handle \in Handles
      BY <1>1, <1>3 DEF NamedCalls, Calls, Handles, handle
  <2>4. row \in Rows /\ row.stepKey = None /\ row.handle = handle
      BY <2>2, <2>3 DEF Rows
  <2> HIDE DEF row
  <2>5. \A key \in Keys : Names(row, key) => Names(rows[job.id], key)
      BY <1>4, <2>2, <2>4, TurnConstants DEF Names, MyRow
  <2>6. NoNewNames
      BY <1>1, <2>1, <2>2, <2>4, <2>5, SaveNames
  <2>7. TurnFrom /\ LateFrom /\ Alone(turn)' /\ \A call \in CallsOf(turn)' : call.by # "job"
      BY <1>1, <1>2, <2>1, SentLeaves
  <2>8. job'.pc # "start"
      BY <2>1, StepEnds
  <2> QED
      BY <2>6, <2>7, <2>8, JobMoves
<1>6. CASE ~Current
  <2> DEFINE drop == CancelCall(job.id, handle, "job", None)
  <2>1. /\ turn' = Append(NextInTurn, drop) /\ job' = [job EXCEPT !.pc = "dropLost"]
        /\ UNCHANGED rows
      BY <1>6 DEF StartAnswers, handle
  <2>2. job'.pc = "dropLost"
      BY <2>1 DEF IInv, JobFits, Jobs
  <2>3. ~Live(job.id)
      BY <1>1, <1>6, MyRowIsSnap DEF IInv
  <2>4. drop \in NamedCalls /\ drop.kind = "cancel" /\ drop.by = "job" /\ drop.key = handle.key
      BY <1>1, <1>4 DEF CancelCall, NamedCalls, Calls, Targets
  <2> HIDE DEF drop
  <2>5. Alone(Append(NextInTurn, drop))
        /\ CallsOf(Append(NextInTurn, drop)) = CallsOf(NextInTurn) \cup {drop}
    <3>1. Alone(NextInTurn) /\ \A call \in CallsOf(NextInTurn) : call.by # "job"
        BY <1>2 DEF NextInTurn
    <3> QED
        BY <1>3, <2>4, <3>1, CallJoins
  <2>6. Alone(turn)' /\ CallsOf(turn)' = CallsOf(NextInTurn) \cup {drop}
      BY <2>1, <2>5 DEF Alone, CallsOf
  <2>7. \A id \in Ids : Live(id)' => ~Names(rows'[id], drop.key)
      BY <1>1, <1>4, <2>1, <2>3, <2>4 DEF KeyInv, StartsKey, Live
  <2>8. OwnKeys' /\ DropsUnnamed'
      BY <1>1, <1>2, <2>1, <2>6, <2>7, RowsStand, KeysStay DEF Like, NextInTurn
  <2>9. JobsCalls' /\ StartsKey'
      BY <1>2, <2>2, <2>4, <2>6 DEF JobsCalls, StartsKey, NextInTurn
  <2> QED
      BY <2>6, <2>8, <2>9 DEF KeyInv
<1> QED
    BY <1>5, <1>6

(* A start that throws leaves its key with its row.                        *)
LEMMA StartThrowsKeys ==
    ASSUME IInv, KeyInv, StartThrows
    PROVE  KeyInv'
<1>1. /\ job.id \in Ids /\ job'.pc = "run" /\ turn # <<>> /\ turn' = NextInTurn /\ Unanswered
      /\ StepThrows /\ SentCall.kind = "start"
    BY StepEnds DEF StartThrows, Waiting
<1>2. SentCall.by = "job"
    BY <1>1, HeadLeaves DEF IInv, TurnFits, KeyInv, JobsCalls, SentCall
<1>3. TurnFrom /\ LateFrom /\ Alone(turn)' /\ \A call \in CallsOf(turn)' : call.by # "job"
    BY <1>1, <1>2, SentLeaves
<1>4. NoNewNames
    BY <1>1, ThrowNames
<1> QED
    BY <1>1, <1>3, <1>4, JobMoves

(* The drop of a start that came too late, when it ends, names nothing.    *)
LEMMA LostDropKeys ==
    ASSUME IInv, KeyInv, LostDropEnds
    PROVE  KeyInv'
<1>1. /\ job.id \in Ids /\ job'.pc = "run" /\ turn # <<>> /\ turn' = NextInTurn
      /\ SentCall.by = "job"
      /\ UNCHANGED late \/ Unanswered
      /\ UNCHANGED rows \/ StepThrows
    BY StepEnds DEF LostDropEnds, Waiting
<1>2. TurnFrom /\ LateFrom /\ Alone(turn)' /\ \A call \in CallsOf(turn)' : call.by # "job"
    BY <1>1, SentLeaves
<1>3. NoNewNames
    BY <1>1, ThrowNames, RowsStand
<1> QED
    BY <1>1, <1>2, <1>3, JobMoves

(* A stalled download dropped, the next release is started.                *)
LEMMA StalledDropKeys ==
    ASSUME IInv, KeyInv, StalledDropEnds
    PROVE  KeyInv'
<1> DEFINE n == job.snap.autoStarts + 1
<1>1. /\ job.id \in Ids /\ job'.pc = "run" /\ turn # <<>> /\ turn' = NextInTurn
      /\ SentCall.by = "job"
      /\ UNCHANGED late \/ Unanswered
    BY StepEnds DEF StalledDropEnds, Waiting
<1>2. TurnFrom /\ LateFrom /\ Alone(turn)' /\ \A call \in CallsOf(turn)' : call.by # "job"
    BY <1>1, SentLeaves
<1>3. ASSUME Live(job.id), Save(job.id, WithChoice(MyRow, SentCall.pick, n))
      PROVE  NoNewNames
  <2> DEFINE row == WithChoice(MyRow, SentCall.pick, n)
  <2>1. row.stepKey = MyRow.stepKey /\ row.handle = MyRow.handle
      BY EventKeeps DEF WithChoice
  <2> HIDE DEF row
  <2>2. Save(job.id, row)
      BY <1>3 DEF row
  <2> QED
      BY <1>1, <1>3, <2>1, <2>2, SaveKeepsKeys DEF MyRow
<1>4. NoNewNames
    BY <1>3, RowsStand DEF StalledDropEnds, Choosable
<1> QED
    BY <1>1, <1>2, <1>4, JobMoves

(* A stalled download is dropped by the key its request gives up.          *)
LEMMA PollStallsKeys ==
    ASSUME IInv, KeyInv, PollStalls
    PROVE  KeyInv'
<1> DEFINE failed == Stalled(MyRow)
           target == DropTarget(failed)
<1>1. job.pc = "poll" /\ job.id \in Ids /\ UNCHANGED late
    BY StepEnds DEF PollStalls, Waiting
<1>2. \A call \in CallsOf(turn) : call.by # "job"
    BY <1>1, NoneInTurn
<1>3. failed.stepKey = MyRow.stepKey /\ failed.handle = MyRow.handle
    BY EventKeeps DEF Stalled
<1>4. CASE Current /\ MayStartAnother(failed)
  <2>1. PICK following \in OtherReleases(failed) :
            /\ Save(job.id, BackToChoice(failed))
            /\ AskDrop(job.id, target, "job", following)
            /\ job' = [job EXCEPT !.pc = "dropStalled"]
      BY <1>4 DEF PollStalls
  <2>2. Live(job.id) /\ RowFits(MyRow) /\ MyRow.status = "downloading"
      BY <1>1, <1>4, MyRowIsSnap DEF Current, IInv, PollStalls
  <2>3. RowFits(failed) /\ failed \in Rows
      BY <2>2, FailureFits DEF Stalled, Reasons, WorkingStatuses, RowFits
  <2>4. BackToChoice(failed) \in Rows /\ \A key \in Keys : ~Names(BackToChoice(failed), key)
      BY <2>3, BackToChoiceFits, BackNames DEF RowFits
  <2>0. PICK id \in Ids : id = job.id
      BY <1>1
  <2>5. NoNewNames /\ \A key \in Keys : ~(Live(id)' /\ Names(rows'[id], key))
      BY <2>0, <2>1, <2>2, <2>4, SaveNames
  <2>6. /\ target \in Targets \cup {None}
        /\ target # None => Names(rows[job.id], target.key)
      BY <1>3, <2>3, TargetsNamed, DropsOwnKey DEF Names, MyRow
  <2>7. following \in Releases
      BY <2>3 DEF OtherReleases, Rows
  <2>8. job'.pc = "dropStalled"
      BY <2>1 DEF IInv, JobFits, Jobs
  <2> HIDE DEF failed, target
  <2>9. CASE target = None
      BY <1>1, <1>2, <2>1, <2>5, <2>8, <2>9, TurnStands, JobMoves DEF AskDrop
  <2>10. CASE target # None
    <3> DEFINE call == CancelCall(job.id, target, "job", following)
    <3>1. /\ call \in NamedCalls /\ call.kind = "cancel" /\ call.by = "job"
          /\ call.key = target.key /\ target.key \in Keys
        BY <1>1, <2>6, <2>7, <2>10 DEF CancelCall, NamedCalls, Calls, Targets
    <3>2. turn' = Append(turn, call) /\ turn \in Seq(NamedCalls)
        BY <2>1, <2>10 DEF AskDrop, IInv, TurnFits
    <3> HIDE DEF call
    <3>3. Alone(Append(turn, call)) /\ CallsOf(Append(turn, call)) = CallsOf(turn) \cup {call}
        BY <1>2, <3>1, <3>2, CallJoins DEF KeyInv
    <3>4. Alone(turn)' /\ CallsOf(turn)' = CallsOf(turn) \cup {call}
        BY <3>2, <3>3 DEF Alone, CallsOf
    <3>5. \A other \in Ids : Live(other)' => ~Names(rows'[other], target.key)
        BY <2>0, <2>2, <2>5, <2>6, <2>10, <3>1 DEF KeyInv, OwnKeys, NoNewNames
    <3>6. OwnKeys' /\ DropsUnnamed'
        BY <1>1, <2>5, <3>1, <3>4, <3>5, KeysStay DEF Like
    <3>7. JobsCalls' /\ StartsKey'
        BY <1>1, <2>8, <3>1, <3>4 DEF KeyInv, JobsCalls, StartsKey
    <3> QED
        BY <3>4, <3>6, <3>7 DEF KeyInv
  <2> QED
      BY <2>9, <2>10
<1>5. CASE ~(Current /\ MayStartAnother(failed))
  <2>1. SaveIfCurrent(failed) /\ job' = StepOver /\ UNCHANGED turn
      BY <1>5 DEF PollStalls
  <2> HIDE DEF failed
  <2>2. NoNewNames
      BY <1>1, <1>3, <2>1, AnswerNames
  <2> QED
      BY <1>1, <2>1, <2>2, StepEnds, QuietMoves
<1> QED
    BY <1>4, <1>5

(* A restart keeps the rows and forgets every call.                        *)
LEMMA CrashKeys ==
    ASSUME IInv, KeyInv, Crash
    PROVE  KeyInv'
<1>1. turn' = <<>> /\ job'.pc = "idle"
    BY DEF Crash, Idle
<1>2. CallsOf(turn)' = {} /\ Alone(turn)'
    BY <1>1 DEF CallsOf, Alone
<1>5. NoNewNames
    BY DEF Crash, NoNewNames, Live
<1>3. turn # <<>> => SentCall \in CallsOf(turn)
    BY HeadLeaves DEF IInv, TurnFits, KeyInv, SentCall
<1>4. \A call \in late' : call \in late \cup CallsOf(turn)
    BY <1>3 DEF Crash, Sent
<1> QED
    BY <1>1, <1>2, <1>4, <1>5, JobMoves DEF TurnFrom, LateFrom, Like

(* The client's own steps change no row and no key of a call.              *)
LEMMA ClientKeys ==
    ASSUME IInv, KeyInv, Client
    PROVE  KeyInv'
<1>1. UNCHANGED <<rows, job>> /\ ClientStep
    BY DEF Client
<1>2. \A call : Like(AfterRead(call), call)
    BY DEF AfterRead, Like
<1>3. CASE TurnReads \/ TurnWrites
  <2>1. turn # <<>> /\ turn \in Seq(NamedCalls) /\ UNCHANGED late
      BY <1>3 DEF TurnReads, TurnWrites, Sent, IInv, TurnFits
  <2>2. PICK call : Like(call, Head(turn)) /\ turn' = [turn EXCEPT ![1] = call]
    <3>1. CASE TurnReads
        BY <1>2, <3>1 DEF TurnReads, SentCall
    <3>2. CASE TurnWrites
      <4> DEFINE call == [turn[1] EXCEPT !.stage = "done"]
      <4>1. Head(turn) = turn[1]
          BY <2>1, HeadTailProperties
      <4>2. Like(call, Head(turn))
          BY <4>1 DEF Like
      <4>3. turn' = [turn EXCEPT ![1] = call]
          BY <3>2 DEF TurnWrites
      <4> QED
          BY <4>2, <4>3
    <3> QED
        BY <1>3, <3>1, <3>2
  <2>3. /\ Alone([turn EXCEPT ![1] = call])
        /\ \A new \in CallsOf([turn EXCEPT ![1] = call]) :
               \E other \in CallsOf(turn) : Like(new, other)
      BY <2>1, <2>2, HeadGetsOn DEF KeyInv
  <2>4. Alone(turn)' /\ TurnFrom /\ LateFrom
      BY <2>1, <2>2, <2>3 DEF Alone, TurnFrom, LateFrom, Like, CallsOf
  <2> QED
      BY <1>1, <2>4, RowsStand, JobStays
<1>4. ASSUME NEW call \in late, LateReads(call) \/ LateWrites(call) \/ LateLost(call)
      PROVE  KeyInv'
  <2>1. UNCHANGED turn
      BY <1>4 DEF LateReads, LateWrites, LateLost
  <2>2. \A other \in late' : other \in late \/ other = AfterRead(call)
      BY <1>4 DEF LateReads, LateWrites, LateLost
  <2>3. Alone(turn)' /\ TurnFrom /\ LateFrom
      BY <1>2, <1>4, <2>1, <2>2 DEF KeyInv, Alone, TurnFrom, LateFrom, Like, CallsOf
  <2> QED
      BY <1>1, <2>3, RowsStand, JobStays
<1>5. CASE \E h \in Releases : RemovedByHand(h) \/ AddedByHand(h)
  <2>1. UNCHANGED <<turn, late>>
      BY <1>5 DEF RemovedByHand, AddedByHand
  <2> QED
      BY <1>1, <2>1, TurnStands, RowsStand, JobStays
<1> QED
    BY <1>1, <1>3, <1>4, <1>5 DEF ClientStep

----------------------------------------------------------------------------
(* At first there is nothing to name.                                      *)
LEMMA InitKeys == Init => KeyInv
  BY DEF Init, Idle, KeyInv, OwnKeys, DropsUnnamed, Alone, JobsCalls, StartsKey, Live, CallsOf

(* Every step keeps KeyInv.                                                *)
LEMMA StepKeys == IInv /\ LostFits /\ KeyInv /\ [Next]_vars => KeyInv'
<1> SUFFICES ASSUME IInv, LostFits, KeyInv, [Next]_vars PROVE KeyInv'
    OBVIOUS
<1>1. CASE PersonActs
    <2>0. ASSUME NEW id \in Ids, NEW person \in People, NEW replaced \in SUBSET MayGiveWay,
                 Create(id, person, replaced) \/ Join(id, person, replaced)
          PROVE  KeyInv'
        BY <2>0, CreateKeys, JoinKeys
    <2>1. ASSUME NEW id \in Ids, NEW person \in People, CancelRequest(id, person)
          PROVE  KeyInv'
        BY <2>1, CancelKeys
    <2>2. ASSUME NEW id \in Ids, RetryRequest(id)
          PROVE  KeyInv'
        BY <2>2, RetryKeys
    <2>3. ASSUME NEW id \in Ids, NEW release \in Releases,
                 ChooseRelease(id, release) \/ ChooseAnother(id, release)
          PROVE  KeyInv'
        BY <2>3, ChooseReleaseKeys, ChooseAnotherKeys
    <2> QED
        BY <1>1, <2>0, <2>1, <2>2, <2>3, PersonDropKeys DEF PersonActs
<1>2. CASE JobActs
    <2>1. ASSUME NEW id \in Ids,
                 \/ PassOver(id) \/ BeginSearching(id) \/ AskSearch(id)
                 \/ IndexAnswers(id) \/ AskPoll(id)
          PROVE  KeyInv'
        BY <2>1, PassOverKeys, BeginSearchingKeys, AskKeys, IndexAnswersKeys
    <2>2. ASSUME NEW id \in Ids, NEW key \in Keys, AskStart(id, key) \/ AskImport(id, key)
          PROVE  KeyInv'
        BY <2>2, AskStartKeys, AskImportKeys
    <2>3. ASSUME \/ SearchAnswers \/ StartAnswers \/ StartThrows \/ LostDropEnds
                 \/ PollAnswers \/ PollStalls \/ StalledDropEnds \/ ImportAnswers \/ StepFails
          PROVE  KeyInv'
        BY <2>3, SearchAnswersKeys, StartAnswersKeys, StartThrowsKeys, LostDropKeys,
           PollAnswersKeys, PollStallsKeys, StalledDropKeys, ImportAnswersKeys, StepFailsKeys
    <2> QED
        BY <1>2, <2>1, <2>2, <2>3, RunKeys DEF JobActs
<1>3. CASE Client \/ Crash
    BY <1>3, ClientKeys, CrashKeys
<1>4. CASE UNCHANGED vars
  <2>1. UNCHANGED <<turn, late, rows, job>>
      BY <1>4 DEF vars, turnVars
  <2> QED
      BY <2>1, TurnStands, RowsStand, JobStays
<1> QED
    BY <1>1, <1>2, <1>3, <1>4 DEF Next

(* No key is two requests', and what is asked to be dropped is nobody's.   *)
THEOREM KeysAreOwn == Spec => []KeyInv
    BY InitKeys, StepKeys, Invariant, PTL DEF Spec

(* Of two taps only one goes on to drop a download.                        *)
THEOREM OneDrop == Spec => []OneDropPerDownload
<1>1. KeyInv => OneDropPerDownload
    BY DEF KeyInv, Alone, OneDropPerDownload
<1> QED
    BY <1>1, KeysAreOwn, PTL

----------------------------------------------------------------------------
(* What Auralis started is accounted for                                   *)

(* A key a torrent carries, or a start that may yet land.                  *)
InUse(key) ==
    \/ \E h \in Releases : torrents[h] = key
    \/ \E call \in late \cup CallsOf(turn) : call.kind = "start" /\ call.key = key

Named(key) == RowCountsOn(key) \/ key \in asked

(* A key some row that can no longer be read counts on, or did.            *)
LetGo(key) == key \in left \/ \E row \in unreadable : key \in row.keys

(* Whatever is in use, or may yet land, is named, asked to be dropped, or  *)
(* of a row that could no longer be read.                                  *)
Accounted == \A key \in Keys : InUse(key) => Named(key) \/ LetGo(key)

(* Every key in use is named after a step, unless it was in use before and *)
(* was not.                                                                *)
Accounts == \A key \in Keys : InUse(key)' => Named(key)' \/ (InUse(key) /\ ~Named(key))

(* A step sends no start that was not out.                                 *)
NoNewStarts ==
    \A call \in late' \cup CallsOf(turn)' : call.kind = "start" =>
        \E other \in late \cup CallsOf(turn) : Like(call, other)

(* A step forgets no key in use.                                           *)
NamedKept == \A key \in Keys : InUse(key) /\ Named(key) => Named(key)'

(* Where nothing new is in use, what was named stays accounted for.        *)
LEMMA AccountsStay ==
    ASSUME NoNewStarts, NamedKept, UNCHANGED torrents
    PROVE  Accounts
<1>1. \A key \in Keys : InUse(key)' => InUse(key)
    BY DEF InUse, NoNewStarts, Like
<1> QED
    BY <1>1 DEF Accounts, NamedKept

(* Drops that join the turn are no starts.                                 *)
LEMMA DropsStartNothing ==
    ASSUME IInv, KeyInv, UNCHANGED late, NEW id, NEW target, NEW by, NEW pick,
           AskDrop(id, target, by, pick)
    PROVE  /\ NoNewStarts /\ asked \subseteq asked'
           /\ target # None => target.key \in asked'
<1>1. CASE target = None
    BY <1>1 DEF AskDrop, NoNewStarts, Like, CallsOf
<1>2. CASE target # None
  <2> DEFINE call == CancelCall(id, target, by, pick)
  <2>1. call.kind = "cancel"
      BY DEF CancelCall
  <2>2. turn' = Append(turn, call) /\ asked' = asked \cup {target.key}
      BY <1>2 DEF AskDrop
  <2> HIDE DEF call
  <2>3. DOMAIN turn = 1..Len(turn) /\ Len(turn) \in Nat /\ turn \in Seq(NamedCalls)
      BY CallsInTurn, LenProperties DEF IInv, TurnFits
  <2>4. \A i \in DOMAIN Append(turn, call) :
            \/ i \in DOMAIN turn /\ Append(turn, call)[i] = turn[i]
            \/ Append(turn, call)[i] = call
      BY <2>3
  <2>5. \A other \in CallsOf(turn)' : other \in CallsOf(turn) \/ other = call
      BY <2>2, <2>4 DEF CallsOf
  <2> QED
      BY <2>1, <2>2, <2>5 DEF NoNewStarts, Like
<1> QED
    BY <1>1, <1>2

(* Calls that only go on start nothing.                                    *)
LEMMA TurnStartsNothing ==
    ASSUME TurnFrom, LateFrom
    PROVE  NoNewStarts
  BY DEF TurnFrom, LateFrom, NoNewStarts

(* Rows that stay name what they named.                                    *)
LEMMA StandingNames ==
    ASSUME UNCHANGED rows, asked \subseteq asked'
    PROVE  NamedKept
  BY DEF NamedKept, Named, RowCountsOn, Live

(* A row saved with what it counts on, but for what is asked to be dropped.*)
LEMMA SavedCounts ==
    ASSUME IInv, NEW id \in Ids, Live(id), NEW row \in Rows, Save(id, row),
           asked \subseteq asked',
           \A key \in Keys : CountsOn(rows[id], key) => CountsOn(row, key) \/ key \in asked'
    PROVE  NamedKept
<1>1. /\ Live(id)' /\ rows'[id] = Saved(id, row)
      /\ \A other \in Ids : other # id => rows'[other] = rows[other]
    BY SavedStands DEF Save, IInv, RowsFit
<1>2. /\ Saved(id, row).stepKey = row.stepKey /\ Saved(id, row).handle = row.handle
      /\ Saved(id, row).status = row.status /\ Saved(id, row).failedStep = row.failedStep
    BY DEF Saved, Rows
<1>3. \A key : CountsOn(rows'[id], key) <=> CountsOn(row, key)
    BY <1>1, <1>2 DEF CountsOn, AtImport
<1> QED
    BY <1>1, <1>3 DEF NamedKept, Named, RowCountsOn, Live

(* A request gone, with what it counted on asked to be dropped.            *)
LEMMA GoneCounts ==
    ASSUME IInv, NEW id \in Ids, rows' = [rows EXCEPT ![id] = None],
           asked \subseteq asked',
           \A key \in Keys : CountsOn(rows[id], key) => key \in asked'
    PROVE  NamedKept
<1>1. \A other \in Ids : other # id => rows'[other] = rows[other]
    BY DEF IInv, RowsFit
<1> QED
    BY <1>1 DEF NamedKept, Named, RowCountsOn, Live

(* A drop names all that its row counts on.                                *)
LEMMA DropNamesAll ==
    ASSUME NEW row, RowFits(row), row.status # "inLibrary", NEW key \in Keys, CountsOn(row, key)
    PROVE  DropTarget(row) # None /\ DropTarget(row).key = key
<1>1. StepOf(row) # "inLibrary" /\ StepOf(row) \in WorkingStatuses
    BY DEF RowFits, StepOf, Rows, Statuses, WorkingStatuses
<1>2. key # None
    BY TurnConstants
<1>3. row.stepKey # None => row.release # None
    BY <1>1 DEF RowFits, Fitting, WorkingStatuses
<1>4. ~AtImport(row) => row.handle = None \/ row.stepKey = None
    BY <1>1 DEF RowFits, Fitting, WorkingStatuses, AtImport, StepOf
<1>5. CASE ~AtImport(row) /\ row.stepKey # None
  <2>1. DropTarget(row) = [key |-> key, hash |-> None]
      BY <1>3, <1>4, <1>5 DEF CountsOn, DropTarget
  <2> QED
      BY <2>1, RowsAreSomething DEF Targets
<1>6. CASE AtImport(row) \/ row.stepKey = None
    BY <1>2, <1>6 DEF CountsOn, DropTarget
<1> QED
    BY <1>5, <1>6

(* An event that keeps a row at its step, or takes it to its import or on  *)
(* from it, counts on what the row counted on.                             *)
LEMMA EventCounts ==
    ASSUME NEW row, RowFits(row), NEW key \in Keys, CountsOn(row, key)
    PROVE  /\ row.status \in WorkingStatuses =>
                  \A reason : CountsOn(After(row, Failed(reason)), key)
           /\ row.status = "failed" => CountsOn(After(row, Retry), key)
           /\ \A to \in Statuses :
                  \/ row.status \in {"requested", "searching", "needsChoice", "queued", "downloading"}
                     /\ to \notin {"importing", "failed"}
                  \/ to = "importing" /\ row.handle # None /\ row.status = "downloading"
                  \/ to = "inLibrary"
                  => CountsOn(After(row, Moved(to)), key)
<1>1. row \in Rows /\ key # None
    BY TurnConstants DEF RowFits
<1>2. ASSUME NEW reason, row.status \in WorkingStatuses
      PROVE  CountsOn(After(row, Failed(reason)), key)
  <2>1. After(row, Failed(reason)) =
          [row EXCEPT !.status = "failed", !.failedStep = row.status, !.reason = reason]
      BY <1>1, AfterEvents
  <2> QED
      BY <1>1, <1>2, <2>1 DEF CountsOn, AtImport, Rows, WorkingStatuses
<1>3. ASSUME row.status = "failed"
      PROVE  CountsOn(After(row, Retry), key)
  <2>1. After(row, Retry) =
          [row EXCEPT !.status = row.failedStep, !.failedStep = None, !.reason = None]
      BY <1>1, AfterEvents
  <2> QED
      BY <1>1, <1>3, <2>1 DEF CountsOn, AtImport, Rows, RowFits, WorkingStatuses
<1>4. ASSUME NEW to \in Statuses,
             \/ row.status \in {"requested", "searching", "needsChoice", "queued", "downloading"}
                /\ to \notin {"importing", "failed"}
             \/ to = "importing" /\ row.handle # None /\ row.status = "downloading"
             \/ to = "inLibrary"
      PROVE  CountsOn(After(row, Moved(to)), key)
  <2>1. After(row, Moved(to)) = [row EXCEPT !.status = to, !.failedStep = None, !.reason = None]
      BY AfterMove
  <2>2. to = "importing" => row.stepKey = None
      BY <1>4 DEF RowFits, Fitting, StepOf
  <2> QED
      BY <1>1, <1>4, <2>1, <2>2 DEF CountsOn, AtImport, Rows
<1> QED
    BY <1>2, <1>3, <1>4

(* What people do, with what is accounted for                              *)

(* A request made forgets nothing.                                         *)
LEMMA CreateAccounts ==
    ASSUME IInv, KeyInv, NEW id \in Ids, NEW person \in People,
           NEW replaced \in SUBSET MayGiveWay, Create(id, person, replaced)
    PROVE  Accounts
<1>1. /\ ~Live(id) /\ rows' = [rows EXCEPT ![id] = NewRow(Asking(person, replaced))]
      /\ UNCHANGED <<turnVars, asked>>
    BY DEF Create
<1>2. \A other \in Ids : Live(other) => other # id /\ rows'[other] = rows[other]
    BY <1>1 DEF IInv, RowsFit, Live
<1>3. NamedKept
    BY <1>1, <1>2 DEF NamedKept, Named, RowCountsOn, Live
<1> QED
    BY <1>1, <1>3, TurnStands, TurnStartsNothing, AccountsStay DEF turnVars

(* A retry drops what the row it leaves no longer counts on.               *)
LEMMA RetriedCounts ==
    ASSUME NEW row, RowFits(row), row.status = "failed", NEW key \in Keys, CountsOn(row, key)
    PROVE  \/ CountsOn(Retried(row), key)
           \/ RetryDrops(row) # None /\ RetryDrops(row).key = key
<1>1. row \in Rows /\ key # None
    BY TurnConstants DEF RowFits
<1>2. CountsOn(After(row, Retry), key)
    BY EventCounts
<1>3. CASE FollowsAgain(row) \/ ~Restarts(row)
    BY <1>2, <1>3 DEF Retried
<1>4. CASE ~(FollowsAgain(row) \/ ~Restarts(row))
  <2>1. /\ Retried(row) = [After(row, Retry) EXCEPT !.handle = None]
        /\ RetryDrops(row) = row.handle
      BY <1>4 DEF Retried, RetryDrops
  <2>2. After(row, Retry) =
          [row EXCEPT !.status = row.failedStep, !.failedStep = None, !.reason = None]
      BY <1>1, AfterEvents
  <2>3. CASE row.handle # None /\ row.handle.key = key
      BY <2>1, <2>3
  <2>4. CASE ~AtImport(row) /\ row.stepKey = key
      BY <1>1, <1>4, <2>1, <2>2, <2>4 DEF CountsOn, AtImport, Restarts, Rows
  <2> QED
      BY <2>3, <2>4 DEF CountsOn
<1> QED
    BY <1>3, <1>4

(* A retry asks for the drop of what its row no longer counts on.          *)
LEMMA RetryAccounts ==
    ASSUME IInv, KeyInv, NEW id \in Ids, RetryRequest(id)
    PROVE  Accounts
<1>1. Live(id) /\ RowFits(rows[id]) /\ rows[id].status = "failed"
    BY FailedStepKnown, TakenFrom DEF RetryRequest
<1>2. /\ Save(id, Retried(rows[id])) /\ AskDrop(id, RetryDrops(rows[id]), "person", None)
      /\ UNCHANGED <<torrents, late>>
    BY DEF RetryRequest
<1>3. /\ NoNewStarts /\ asked \subseteq asked'
      /\ RetryDrops(rows[id]) # None => RetryDrops(rows[id]).key \in asked'
    BY <1>2, DropsStartNothing
<1>4. Retried(rows[id]) \in Rows
    BY <1>1, RetriedFits DEF RowFits
<1>5. NamedKept
    BY <1>1, <1>2, <1>3, <1>4, RetriedCounts, SavedCounts
<1> QED
    BY <1>2, <1>3, <1>5, AccountsStay

(* Asked for again, a request forgets nothing it does not drop.            *)
LEMMA JoinAccounts ==
    ASSUME IInv, LostFits, KeyInv, NEW id \in Ids, NEW person \in People,
           NEW replaced \in SUBSET MayGiveWay, Join(id, person, replaced)
    PROVE  Accounts
<1> DEFINE joined == [rows[id] EXCEPT !.people = @ \cup Asking(person, replaced)]
<1>1. Live(id) /\ RowFits(rows[id]) /\ rows[id] \in Rows /\ rows \in [Ids -> Rows \cup {None}]
    BY FailedStepKnown DEF Join, IInv, RowsFit
<1>2. /\ joined \in Rows /\ RowFits(joined)
      /\ \A key \in Keys : CountsOn(rows[id], key) <=> CountsOn(joined, key)
    BY <1>1, AskingPeople DEF RowFits, Rows, Fitting, StepOf, CountsOn, AtImport
<1>3. UNCHANGED <<torrents, late>>
    BY DEF Join
<1>4. CASE joined.status = "failed"
    <2>1. Save(id, Retried(joined)) /\ AskDrop(id, RetryDrops(joined), "person", None)
        BY <1>4 DEF Join
    <2> HIDE DEF joined
    <2>2. Retried(joined) \in Rows
        BY <1>2, <1>4, RetriedFits DEF RowFits
    <2>3. /\ NoNewStarts /\ asked \subseteq asked'
          /\ RetryDrops(joined) # None => RetryDrops(joined).key \in asked'
        BY <1>3, <2>1, DropsStartNothing
    <2>4. NamedKept
        BY <1>1, <1>2, <1>4, <2>1, <2>2, <2>3, RetriedCounts, SavedCounts
    <2> QED
        BY <1>3, <2>3, <2>4, AccountsStay
<1>5. CASE joined.status # "failed"
    <2>1. rows' = [rows EXCEPT ![id] = joined] /\ UNCHANGED <<turn, asked>>
        BY <1>5 DEF Join
    <2>2. joined # None
        BY <1>2, RowsAreSomething
    <2> HIDE DEF joined
    <2>3. NamedKept
        BY <1>1, <1>2, <2>1, <2>2 DEF NamedKept, Named, RowCountsOn, Live
    <2> QED
        BY <1>3, <2>1, <2>3, TurnStands, TurnStartsNothing, AccountsStay
<1> QED
    BY <1>4, <1>5

(* A choice counts on what its row did.                                    *)
LEMMA ChoiceCounts ==
    ASSUME NEW row, RowFits(row), row.status = "needsChoice",
           NEW key \in Keys
    PROVE  ~CountsOn(row, key)
  BY TurnConstants DEF RowFits, Fitting, StepOf, CountsOn

(* A row with a release chosen counts on what it did.                      *)
LEMMA ChosenAccounts ==
    ASSUME IInv, NEW id \in Ids, NEW release, Choosable(id, release),
           NEW n \in Nat, n <= MaxAutoStarts, Save(id, WithChoice(rows[id], release, n)),
           UNCHANGED asked
    PROVE  NamedKept
<1> DEFINE row == WithChoice(rows[id], release, n)
<1>1. Live(id) /\ row \in Rows /\ RowFits(rows[id]) /\ rows[id].status = "needsChoice"
    BY ChosenFits, FailedStepKnown DEF IInv, RowFits, Choosable
<1>2. \A key \in Keys : ~CountsOn(rows[id], key)
    BY <1>1, ChoiceCounts
<1>3. Save(id, row)
    OBVIOUS
<1> HIDE DEF row
<1> QED
    BY <1>1, <1>2, <1>3, SavedCounts

(* A release chosen forgets nothing.                                       *)
LEMMA ChooseReleaseAccounts ==
    ASSUME IInv, KeyInv, NEW id \in Ids, NEW release \in Releases,
           ChooseRelease(id, release)
    PROVE  Accounts
<1>1. /\ Choosable(id, release) /\ Save(id, WithChoice(rows[id], release, rows[id].autoStarts))
      /\ UNCHANGED <<turnVars, asked>>
    BY DEF ChooseRelease
<1>2. rows[id].autoStarts \in Nat /\ rows[id].autoStarts <= MaxAutoStarts
    BY <1>1, FailedStepKnown DEF Choosable, RowFits, Rows
<1>3. NamedKept
    BY <1>1, <1>2, ChosenAccounts
<1> QED
    BY <1>1, <1>3, TurnStands, TurnStartsNothing, AccountsStay DEF turnVars

(* Choosing another release asks for the drop of the one before.           *)
LEMMA ChooseAnotherAccounts ==
    ASSUME IInv, KeyInv, NEW id \in Ids, NEW release \in Releases,
           ChooseAnother(id, release)
    PROVE  Accounts
<1> DEFINE row  == rows[id]
           back == BackToChoice(row)
           new  == IF DropTarget(row) = None
                   THEN WithChoice(back, release, row.autoStarts) ELSE back
<1>1. Live(id) /\ RowFits(row) /\ row \in Rows /\ row.status = "failed"
    BY FailedStepKnown DEF ChooseAnother
<1>2. RowFits(back) /\ back.status = "needsChoice"
    BY <1>1, BackToChoiceFits
<1>3. row.autoStarts \in Nat /\ row.autoStarts <= MaxAutoStarts
    BY <1>1 DEF RowFits, Rows
<1>4. new \in Rows
    BY <1>2, <1>3, ChoiceFits DEF RowFits
<1>5. Save(id, new) /\ AskDrop(id, DropTarget(row), "person", release) /\ UNCHANGED <<torrents, late>>
    BY DEF ChooseAnother
<1> HIDE DEF new
<1>6. /\ NoNewStarts /\ asked \subseteq asked'
      /\ DropTarget(row) # None => DropTarget(row).key \in asked'
    BY <1>5, DropsStartNothing
<1>7. NamedKept
    BY <1>1, <1>4, <1>5, <1>6, DropNamesAll, SavedCounts
<1> QED
    BY <1>5, <1>6, <1>7, AccountsStay

(* A request that goes asks for the drop of all it counted on.             *)
LEMMA CancelAccounts ==
    ASSUME IInv, KeyInv, NEW id \in Ids, NEW person \in People,
           CancelRequest(id, person)
    PROVE  Accounts
<1>1. /\ Live(id) /\ RowFits(rows[id]) /\ rows[id] \in Rows /\ rows \in [Ids -> Rows \cup {None}]
      /\ rows[id].status # "inLibrary" /\ UNCHANGED <<torrents, late>>
    BY FailedStepKnown DEF CancelRequest, IInv, RowsFit
<1>2. CASE rows[id].people # {person}
    <2>1. rows' = [rows EXCEPT ![id].people = @ \ {person}] /\ UNCHANGED <<turn, asked>>
        BY <1>2 DEF CancelRequest
    <2>2. /\ rows'[id] = [rows[id] EXCEPT !.people = @ \ {person}]
          /\ \A other \in Ids : other # id => rows'[other] = rows[other]
        BY <1>1, <2>1
    <2>3. rows'[id] \in Rows /\ \A key \in Keys : CountsOn(rows[id], key) <=> CountsOn(rows'[id], key)
        BY <1>1, <2>2 DEF Rows, CountsOn, AtImport
    <2>4. NamedKept
        BY <2>1, <2>2, <2>3, RowsAreSomething DEF NamedKept, Named, RowCountsOn, Live
    <2> QED
        BY <1>1, <2>1, <2>4, TurnStands, TurnStartsNothing, AccountsStay
<1>3. CASE rows[id].people = {person}
    <2>1. /\ rows' = [rows EXCEPT ![id] = None]
          /\ AskDrop(id, DropTarget(rows[id]), "person", None)
        BY <1>3 DEF CancelRequest
    <2>2. /\ NoNewStarts /\ asked \subseteq asked'
          /\ DropTarget(rows[id]) # None => DropTarget(rows[id]).key \in asked'
        BY <1>1, <2>1, DropsStartNothing
    <2>3. NamedKept
        BY <1>1, <2>1, <2>2, DropNamesAll, GoneCounts
    <2> QED
        BY <1>1, <2>2, <2>3, AccountsStay
<1> QED
    BY <1>2, <1>3

(* What follows a person's drop forgets nothing.                           *)
LEMMA PersonDropAccounts ==
    ASSUME IInv, KeyInv, PersonDropEnds
    PROVE  Accounts
<1> DEFINE id   == SentCall.id
           pick == SentCall.pick
<1>1. id \in Ids /\ UNCHANGED <<torrents, asked>>
    BY TurnGoesOn DEF IInv, PersonDropEnds, Calls
<1>2. NoNewStarts
    BY SentLeaves, TurnStartsNothing DEF PersonDropEnds
<1>3. ASSUME Choosable(id, pick), Save(id, WithChoice(rows[id], pick, rows[id].autoStarts))
      PROVE  NamedKept
  <2>1. rows[id].autoStarts \in Nat /\ rows[id].autoStarts <= MaxAutoStarts
      BY <1>1, <1>3, FailedStepKnown DEF Choosable, RowFits, Rows
  <2> QED
      BY <1>1, <1>3, <2>1, ChosenAccounts
<1>4. NamedKept
    BY <1>1, <1>3, StandingNames DEF PersonDropEnds
<1> QED
    BY <1>1, <1>2, <1>4, AccountsStay

----------------------------------------------------------------------------
(* What the job does, with what is accounted for                           *)

(* A step of the job that asks nothing of the client.                      *)
LEMMA QuietAccounts ==
    ASSUME KeyInv, NamedKept, UNCHANGED <<torrents, turn, late>>
    PROVE  Accounts
  BY TurnStands, TurnStartsNothing, AccountsStay

(* An answer saved with what its row counts on.                            *)
LEMMA AnswerCounts ==
    ASSUME IInv, job.id \in Ids, NEW row, SaveIfCurrent(row), UNCHANGED asked,
           Live(job.id) => /\ row \in Rows
                           /\ \A key \in Keys : CountsOn(MyRow, key) => CountsOn(row, key)
    PROVE  NamedKept
<1>1. CASE Current
    BY <1>1, SavedCounts DEF SaveIfCurrent, Current, MyRow
<1>2. CASE ~Current
    BY <1>2, StandingNames DEF SaveIfCurrent
<1> QED
    BY <1>1, <1>2

(* A request that fails counts on what it did.                             *)
LEMMA FailureCounts ==
    ASSUME NEW row, RowFits(row), row.status \in WorkingStatuses, NEW reason \in Reasons
    PROVE  /\ After(row, Failed(reason)) \in Rows
           /\ \A key \in Keys : CountsOn(row, key) => CountsOn(After(row, Failed(reason)), key)
  BY FailureFits, EventCounts DEF RowFits

(* A step that throws leaves its row counting on what it did.              *)
LEMMA ThrowCounts ==
    ASSUME IInv, job.pc \in {"search", "start", "poll", "import", "dropLost"}, StepThrows,
           UNCHANGED asked
    PROVE  NamedKept
<1>1. CASE UNCHANGED rows
    BY <1>1, StandingNames
<1>2. CASE /\ Live(job.id) /\ MyRow.status = job.snap.status
           /\ Save(job.id, After(MyRow, Failed("other")))
  <2>1. job.pc # "dropLost" /\ job.id \in Ids
      BY <1>2, StepEnds DEF IInv, JobFits, SnapshotCurrent
  <2>2. RowFits(MyRow) /\ MyRow.status \in WorkingStatuses
      BY <1>2, <2>1, MyRowIsSnap DEF IInv, JobFits, JobWaits, WorkingStatuses
  <2> QED
      BY <1>2, <2>1, <2>2, FailureCounts, SavedCounts DEF MyRow, Reasons
<1> QED
    BY <1>1, <1>2 DEF StepThrows, RecordThrown

(* Steps of the job that save no row forget nothing.                       *)
LEMMA StandingAccounts ==
    ASSUME IInv, KeyInv,
           \/ BeginRun \/ EndRun
           \/ \E id \in Ids : PassOver(id) \/ AskSearch(id) \/ AskPoll(id)
    PROVE  Accounts
<1>1. UNCHANGED <<turnVars, rows, asked>>
    BY DEF BeginRun, EndRun, PassOver, AskSearch, AskPoll
<1> QED
    BY <1>1, StandingNames, QuietAccounts DEF turnVars

(* A search begun counts on what the request did.                          *)
LEMMA BeginSearchingAccounts ==
    ASSUME IInv, KeyInv, NEW id \in Ids, BeginSearching(id)
    PROVE  Accounts
<1>1. /\ Live(id) /\ RowFits(rows[id]) /\ rows[id].status = "requested"
      /\ Save(id, After(rows[id], Moved("searching"))) /\ UNCHANGED <<turnVars, asked>>
    BY FailedStepKnown DEF BeginSearching, StepFrom
<1>2. After(rows[id], Moved("searching")) \in Rows
    BY <1>1, MovedFits DEF Statuses, WorkingStatuses, RowFits
<1>3. \A key \in Keys : ~CountsOn(rows[id], key)
    BY <1>1, TurnConstants DEF RowFits, Fitting, StepOf, CountsOn
<1> QED
    BY <1>1, <1>2, <1>3, SavedCounts, QuietAccounts DEF turnVars

(* An import answered from the index keeps what its row counts on.         *)
LEMMA IndexAnswersAccounts ==
    ASSUME IInv, KeyInv, NEW id \in Ids, IndexAnswers(id)
    PROVE  Accounts
<1>1. /\ Live(id) /\ RowFits(rows[id]) /\ rows[id].status = "importing"
      /\ UNCHANGED <<turnVars, asked>>
    BY FailedStepKnown DEF IndexAnswers, StepFrom
<1>2. ASSUME Save(id, After(rows[id], Moved("inLibrary")))
      PROVE  NamedKept
  <2>1. After(rows[id], Moved("inLibrary")) \in Rows
      BY <1>1, MovedFits DEF Statuses, RowFits
  <2>2. \A key \in Keys : CountsOn(rows[id], key) => CountsOn(After(rows[id], Moved("inLibrary")), key)
      BY <1>1, EventCounts DEF Statuses
  <2> QED
      BY <1>1, <1>2, <2>1, <2>2, SavedCounts
<1>3. ASSUME Save(id, After(rows[id], Failed("other")))
      PROVE  NamedKept
    BY <1>1, <1>3, FailureCounts, SavedCounts DEF WorkingStatuses, Reasons
<1> QED
    BY <1>1, <1>2, <1>3, QuietAccounts DEF IndexAnswers, turnVars

(* The key of a step is a new one, or one its row has already.             *)
LEMMA KeyedCounts ==
    ASSUME IInv, KeyInv, NEW id \in Ids, NEW key \in Keys, Live(id), Keyed(id, key)
    PROVE  NamedKept
<1>1. CASE rows[id].stepKey = None
  <2> DEFINE row == [rows[id] EXCEPT !.stepKey = key]
  <2>1. /\ row \in Rows /\ row.handle = rows[id].handle /\ row.stepKey = key
        /\ (AtImport(row) <=> AtImport(rows[id]))
      BY FailedStepKnown DEF Rows, AtImport
  <2>2. NewKey(key) /\ Save(id, row) /\ asked' = asked \ {key}
      BY <1>1 DEF Keyed
  <2> HIDE DEF row
  <2>3. ~InUse(key)
      BY <2>2, NewIsNobodys DEF InUse
  <2>4. /\ Live(id)' /\ rows'[id] = Saved(id, row)
        /\ \A other \in Ids : other # id => rows'[other] = rows[other]
      BY <2>1, <2>2, SavedStands DEF Save, IInv, RowsFit
  <2>5. /\ Saved(id, row).stepKey = row.stepKey /\ Saved(id, row).handle = row.handle
        /\ Saved(id, row).status = row.status /\ Saved(id, row).failedStep = row.failedStep
      BY <2>1 DEF Saved, Rows
  <2>6. \A k \in Keys : CountsOn(rows[id], k) => CountsOn(rows'[id], k)
      BY <1>1, <2>1, <2>4, <2>5, TurnConstants DEF CountsOn, AtImport
  <2> QED
      BY <2>2, <2>3, <2>4, <2>6 DEF NamedKept, Named, RowCountsOn, Live
<1>2. CASE rows[id].stepKey # None
    BY <1>2, StandingNames DEF Keyed
<1> QED
    BY <1>1, <1>2

(* An import is asked for with its download still named.                   *)
LEMMA AskImportAccounts ==
    ASSUME IInv, KeyInv, NEW id \in Ids, NEW key \in Keys, AskImport(id, key)
    PROVE  Accounts
<1>1. Live(id) /\ Keyed(id, key) /\ UNCHANGED turnVars
    BY DEF AskImport, StepFrom
<1> QED
    BY <1>1, KeyedCounts, QuietAccounts DEF turnVars

(* A start is asked for under a key its row names from then on.            *)
LEMMA AskStartAccounts ==
    ASSUME IInv, KeyInv, NEW id \in Ids, NEW key \in Keys, AskStart(id, key)
    PROVE  Accounts
<1> DEFINE call == StartCall(id, rows[id].release, key)
<1>1. /\ Live(id) /\ Keyed(id, key) /\ UNCHANGED <<torrents, late>>
      /\ turn' = Append(turn, call) /\ rows[id].status \in {"queued", "downloading"}
    BY DEF AskStart
<1>2. NamedKept
    BY <1>1, KeyedCounts
<1>3. RowCountsOn(key)'
  <2>1. Live(id)' /\ rows'[id].stepKey = key
      BY <1>1, KeyedNames
  <2>2. RowsFit /\ JobFits /\ asked \in SUBSET Keys /\ rows[id].handle = None
      BY DEF IInv, AskStart
  <2>3. rows'[id].status = rows[id].status
      BY <1>1, <2>2, KeyedFits
  <2> QED
      BY <1>1, <2>1, <2>3 DEF RowCountsOn, CountsOn, AtImport
<1>4. call.key = key
    BY DEF StartCall
<1> HIDE DEF call
<1>5. \A i \in DOMAIN Append(turn, call) :
          \/ i \in DOMAIN turn /\ Append(turn, call)[i] = turn[i]
          \/ Append(turn, call)[i] = call
    BY CallsInTurn, LenProperties DEF IInv, TurnFits
<1>6. \A other \in CallsOf(turn)' : other \in CallsOf(turn) \/ other = call
    BY <1>1, <1>5 DEF CallsOf
<1>7. \A k \in Keys : InUse(k)' => InUse(k) \/ k = key
    BY <1>1, <1>4, <1>6 DEF InUse
<1> QED
    BY <1>2, <1>3, <1>7 DEF Accounts, NamedKept, Named

(* A search's answer is saved on a row that has nothing in use.            *)
LEMMA SearchAnswersAccounts ==
    ASSUME IInv, KeyInv, SearchAnswers
    PROVE  Accounts
<1>1. job.pc = "search" /\ job.id \in Ids /\ UNCHANGED <<turnVars, asked>>
    BY StepEnds DEF SearchAnswers, Waiting
<1>2. Live(job.id) => RowFits(MyRow) /\ MyRow.status = "searching"
    BY <1>1, MyRowIsSnap DEF IInv, JobFits, JobWaits
<1>3. Live(job.id) => \A key \in Keys : ~CountsOn(MyRow, key)
    BY <1>2, TurnConstants DEF RowFits, Fitting, StepOf, CountsOn
<1>4. RowsFit'
    BY SearchAnswersStep DEF IInv
<1>5. \A id \in Ids : id # job.id => rows'[id] = rows[id]
    BY DEF SearchAnswers, Apply, SaveIfCurrent, Save, IInv, RowsFit
<1>6. Live(job.id) \/ UNCHANGED rows
    BY DEF SearchAnswers, Apply, SaveIfCurrent, Current
<1>7. NamedKept
  <2>1. CASE UNCHANGED rows
      BY <1>1, <2>1, StandingNames
  <2>2. CASE Live(job.id)
      BY <1>1, <1>3, <1>5, <2>2 DEF NamedKept, Named, RowCountsOn, Live, MyRow
  <2> QED
      BY <1>6, <2>1, <2>2
<1> QED
    BY <1>1, <1>7, QuietAccounts DEF turnVars

(* A poll's answer keeps the handle it asked about.                        *)
LEMMA PollAnswersAccounts ==
    ASSUME IInv, KeyInv, PollAnswers
    PROVE  Accounts
<1>1. job.pc = "poll" /\ job.id \in Ids /\ UNCHANGED <<turnVars, asked>>
    BY StepEnds DEF PollAnswers, Waiting
<1>2. Live(job.id) => /\ RowFits(MyRow) /\ MyRow.status \in {"queued", "downloading"}
                      /\ MyRow.status = job.snap.status /\ MyRow.handle # None
    BY <1>1, MyRowIsSnap DEF IInv, JobFits, JobWaits
<1>3. ASSUME SaveIfCurrent(MyRow)
      PROVE  NamedKept
    BY <1>1, <1>2, <1>3, AnswerCounts DEF RowFits
<1>4. ASSUME NEW to \in {"downloading", "importing"}, Apply(MyRow, Moved(to)),
             to = "importing" => job.snap.status # "queued"
      PROVE  NamedKept
  <2>1. Live(job.id) => After(MyRow, Moved(to)) \in Rows
      BY <1>2, <1>4, MovedFits DEF Statuses, WorkingStatuses, RowFits
  <2>2. Live(job.id) =>
            \A key \in Keys : CountsOn(MyRow, key) => CountsOn(After(MyRow, Moved(to)), key)
      BY <1>2, <1>4, EventCounts DEF Statuses, WorkingStatuses
  <2> QED
      BY <1>1, <1>4, <2>1, <2>2, AnswerCounts DEF Apply
<1>5. ASSUME Apply(MyRow, Failed("other"))
      PROVE  NamedKept
  <2>1. Live(job.id) => MyRow.status \in WorkingStatuses
      BY <1>2 DEF WorkingStatuses
  <2> QED
      BY <1>1, <1>2, <1>5, <2>1, FailureCounts, AnswerCounts DEF Apply, Reasons
<1>6. NamedKept
    BY <1>3, <1>4, <1>5 DEF PollAnswers
<1> QED
    BY <1>1, <1>6, QuietAccounts DEF turnVars

(* An import's answer keeps what its row counts on.                        *)
LEMMA ImportAnswersAccounts ==
    ASSUME IInv, KeyInv, ImportAnswers
    PROVE  Accounts
<1> DEFINE named == [MyRow EXCEPT !.result = job.snap.release, !.stepKey = None]
<1>1. job.pc = "import" /\ job.id \in Ids /\ UNCHANGED <<turnVars, asked>>
    BY StepEnds DEF ImportAnswers, Waiting
<1>2. Live(job.id) => RowFits(MyRow) /\ MyRow.status = "importing" /\ MyRow \in Rows
    BY <1>1, MyRowIsSnap DEF IInv, JobFits, JobWaits, RowFits
<1>3. job.snap \in Rows
    BY <1>1 DEF IInv, JobFits, JobWaits
<1>4. Live(job.id) => /\ named \in Rows
                      /\ \A key \in Keys : CountsOn(MyRow, key) => CountsOn(named, key)
    BY <1>2, <1>3 DEF Rows, CountsOn, AtImport
<1> HIDE DEF named
<1>5. ASSUME SaveIfCurrent(named)
      PROVE  NamedKept
    BY <1>1, <1>4, <1>5, AnswerCounts
<1>6. ASSUME Apply(MyRow, Failed("other"))
      PROVE  NamedKept
  <2>1. Live(job.id) => MyRow.status \in WorkingStatuses
      BY <1>2 DEF WorkingStatuses
  <2> QED
      BY <1>1, <1>2, <1>6, <2>1, FailureCounts, AnswerCounts DEF Apply, Reasons
<1>7. NamedKept
    BY <1>1, <1>5, <1>6, StandingNames DEF ImportAnswers, named
<1> QED
    BY <1>1, <1>7, QuietAccounts DEF turnVars

(* A step that fails forgets nothing.                                      *)
LEMMA StepFailsAccounts ==
    ASSUME IInv, KeyInv, StepFails
    PROVE  Accounts
<1>1. NamedKept
    BY ThrowCounts DEF StepFails
<1> QED
    BY <1>1, QuietAccounts DEF StepFails, turnVars

(* A start that answers is named by its row, or dropped.                   *)
LEMMA StartAnswersAccounts ==
    ASSUME IInv, KeyInv, StartAnswers
    PROVE  Accounts
<1> DEFINE handle == [hash |-> SentCall.hash, key |-> SentCall.key]
<1>1. /\ job.pc = "start" /\ job.id \in Ids /\ turn # <<>> /\ SentCall.kind = "start"
      /\ UNCHANGED <<torrents, late>>
    BY StepEnds DEF StartAnswers, Waiting, Sent
<1>2. SentCall \in CallsOf(turn) /\ CallsOf(Tail(turn)) \subseteq CallsOf(turn)
    BY <1>1, HeadLeaves DEF IInv, TurnFits, KeyInv, SentCall
<1>3. SentCall \in NamedCalls /\ NextInTurn \in Seq(NamedCalls)
    BY <1>1, TurnGoesOn DEF IInv
<1>4. handle \in Handles /\ handle.key = job.snap.stepKey /\ handle # None
  <2>1. handle \in Handles
      BY <1>1, <1>3 DEF NamedCalls, Calls, Handles
  <2>2. handle \in Targets
      BY <2>1 DEF Handles, Targets
  <2> QED
      BY <1>1, <1>2, <2>1, <2>2, RowsAreSomething DEF KeyInv, JobsCalls
<1> HIDE DEF handle
<1>5. CASE Current
  <2> DEFINE row == [MyRow EXCEPT !.handle = handle, !.stepKey = None]
  <2>1. Save(job.id, row) /\ turn' = NextInTurn /\ UNCHANGED asked
      BY <1>5 DEF StartAnswers, handle
  <2>2. Live(job.id) /\ MyRow.stepKey = job.snap.stepKey /\ RowFits(MyRow) /\ MyRow \in Rows
      BY <1>1, <1>5, MyKeyIsSnaps, MyRowIsSnap DEF Current, IInv, RowFits
  <2>3. MyRow.status \in {"queued", "downloading"}
      BY <1>1, <2>2, MyRowIsSnap DEF IInv, JobFits, JobWaits
  <2>4. row \in Rows /\ row.handle = handle
      BY <1>4, <2>2 DEF Rows
  <2>5. MyRow.stepKey # None => MyRow.handle = None
      BY <2>2, <2>3 DEF RowFits, Fitting, StepOf
  <2>6. \A key \in Keys : CountsOn(MyRow, key) => CountsOn(row, key)
    <3> SUFFICES ASSUME NEW key \in Keys, CountsOn(MyRow, key) PROVE CountsOn(row, key)
        OBVIOUS
    <3>1. job.snap.stepKey \in Keys
        BY <1>1 DEF KeyInv, StartsKey
    <3>2. MyRow.handle = None
        BY <2>2, <2>5, <3>1, TurnConstants
    <3> QED
        BY <1>4, <2>2, <2>4, <3>2 DEF CountsOn
  <2> HIDE DEF row
  <2>7. NamedKept
      BY <1>1, <2>1, <2>2, <2>4, <2>6, SavedCounts DEF MyRow
  <2>8. NoNewStarts
      BY <1>1, <1>2, <2>1 DEF NoNewStarts, Like, NextInTurn, CallsOf
  <2> QED
      BY <1>1, <2>7, <2>8, AccountsStay
<1>6. CASE ~Current
  <2> DEFINE drop == CancelCall(job.id, handle, "job", None)
  <2>1. turn' = Append(NextInTurn, drop) /\ asked' = asked \cup {handle.key} /\ UNCHANGED rows
      BY <1>6 DEF StartAnswers, handle
  <2>2. drop.kind = "cancel"
      BY DEF CancelCall
  <2> HIDE DEF drop
  <2>3. \A i \in DOMAIN Append(NextInTurn, drop) :
            \/ i \in DOMAIN NextInTurn /\ Append(NextInTurn, drop)[i] = NextInTurn[i]
            \/ Append(NextInTurn, drop)[i] = drop
      BY <1>3, CallsInTurn, LenProperties
  <2>4. \A call \in CallsOf(turn)' : call \in CallsOf(NextInTurn) \/ call = drop
      BY <2>1, <2>3 DEF CallsOf
  <2>5. NoNewStarts
      BY <1>1, <1>2, <2>2, <2>4 DEF NoNewStarts, Like, NextInTurn
  <2> QED
      BY <1>1, <2>1, <2>5, StandingNames, AccountsStay
<1> QED
    BY <1>5, <1>6

(* A start that throws is still named by its key.                          *)
LEMMA StartThrowsAccounts ==
    ASSUME IInv, KeyInv, StartThrows
    PROVE  Accounts
<1>1. NoNewStarts
    BY SentLeaves, TurnStartsNothing DEF StartThrows
<1>2. NamedKept
    BY ThrowCounts DEF StartThrows, Waiting
<1> QED
    BY <1>1, <1>2, AccountsStay DEF StartThrows

(* The drop of a start that came too late changes no row.                  *)
LEMMA LostDropAccounts ==
    ASSUME IInv, KeyInv, LostDropEnds
    PROVE  Accounts
<1>1. NoNewStarts
    BY SentLeaves, TurnStartsNothing DEF LostDropEnds
<1>2. NamedKept
    BY ThrowCounts, StandingNames DEF LostDropEnds, Waiting
<1> QED
    BY <1>1, <1>2, AccountsStay DEF LostDropEnds

(* A stalled download's drop over, the next release is started.            *)
LEMMA StalledDropAccounts ==
    ASSUME IInv, KeyInv, StalledDropEnds
    PROVE  Accounts
<1> DEFINE n == job.snap.autoStarts + 1
<1>1. NoNewStarts /\ UNCHANGED <<torrents, asked>>
    BY SentLeaves, TurnStartsNothing DEF StalledDropEnds
<1>2. job.id \in Ids /\ job.snap \in Rows /\ job.snap.autoStarts < MaxAutoStarts
    BY DEF IInv, StalledDropEnds, Waiting, JobFits, JobWaits
<1>3. n \in Nat /\ n <= MaxAutoStarts
  <2>1. job.snap.autoStarts \in Nat
      BY <1>2 DEF Rows
  <2>2. \A x \in Nat : x < MaxAutoStarts => x + 1 \in Nat /\ x + 1 <= MaxAutoStarts
      BY JobConstants
  <2> QED
      BY ONLY <1>2, <2>1, <2>2, Zenon
<1> HIDE DEF n
<1>4. ASSUME Choosable(job.id, SentCall.pick), Save(job.id, WithChoice(MyRow, SentCall.pick, n))
      PROVE  NamedKept
    BY <1>1, <1>2, <1>3, <1>4, ChosenAccounts DEF MyRow
<1>5. NamedKept
    BY <1>1, <1>4, StandingNames DEF StalledDropEnds, n
<1> QED
    BY <1>1, <1>5, AccountsStay

(* A stalled download is asked to be dropped before the next is started.   *)
LEMMA PollStallsAccounts ==
    ASSUME IInv, KeyInv, PollStalls
    PROVE  Accounts
<1> DEFINE failed == Stalled(MyRow)
<1>1. job.pc = "poll" /\ job.id \in Ids /\ UNCHANGED <<torrents, late>>
    BY StepEnds DEF PollStalls, Waiting
<1>2. Live(job.id) => RowFits(MyRow) /\ MyRow.status = "downloading"
    BY <1>1, MyRowIsSnap DEF IInv, PollStalls
<1>3. Live(job.id) => /\ RowFits(failed) /\ failed \in Rows /\ failed.status = "failed"
                      /\ \A key \in Keys : CountsOn(MyRow, key) => CountsOn(failed, key)
  <2> SUFFICES ASSUME Live(job.id)
               PROVE  /\ RowFits(failed) /\ failed \in Rows /\ failed.status = "failed"
                      /\ \A key \in Keys : CountsOn(MyRow, key) => CountsOn(failed, key)
      OBVIOUS
  <2>1. MyRow \in Rows /\ MyRow.status \in WorkingStatuses
      BY <1>2 DEF RowFits, WorkingStatuses
  <2>2. failed = [MyRow EXCEPT !.status = "failed", !.failedStep = MyRow.status,
                               !.reason = "downloadStalled"]
      BY <2>1, AfterEvents DEF Stalled
  <2>3. failed.status = "failed"
      BY <2>1, <2>2 DEF Rows
  <2> QED
      BY <1>2, <2>1, <2>3, FailureFits, FailureCounts DEF Stalled, Reasons, RowFits
<1>4. CASE Current /\ MayStartAnother(failed)
  <2>1. PICK following \in OtherReleases(failed) :
            /\ Save(job.id, BackToChoice(failed))
            /\ AskDrop(job.id, DropTarget(failed), "job", following)
      BY <1>4 DEF PollStalls
  <2>2. Live(job.id) /\ BackToChoice(failed) \in Rows
      BY <1>3, <1>4, BackToChoiceFits DEF Current, RowFits
  <2> HIDE DEF failed
  <2>3. /\ NoNewStarts /\ asked \subseteq asked'
        /\ DropTarget(failed) # None => DropTarget(failed).key \in asked'
      BY <1>1, <2>1, DropsStartNothing
  <2>4. \A key \in Keys : CountsOn(MyRow, key) => key \in asked'
      BY <1>3, <2>2, <2>3, DropNamesAll
  <2>5. NamedKept
      BY <1>1, <2>1, <2>2, <2>3, <2>4, SavedCounts DEF MyRow
  <2> QED
      BY <1>1, <2>3, <2>5, AccountsStay
<1>5. CASE ~(Current /\ MayStartAnother(failed))
  <2>1. SaveIfCurrent(failed) /\ UNCHANGED <<turn, asked>>
      BY <1>5 DEF PollStalls
  <2> HIDE DEF failed
  <2>2. NamedKept
      BY <1>1, <1>3, <2>1, AnswerCounts
  <2> QED
      BY <1>1, <2>1, <2>2, QuietAccounts
<1> QED
    BY <1>4, <1>5

(* A restart forgets calls, and lets go what the rows it cannot read count *)
(* on.                                                                     *)
LEMMA CrashAccounts ==
    ASSUME IInv, KeyInv, Accounted, Crash
    PROVE  Accounted'
<1>1. PICK spoilt \in SUBSET {id \in Ids : Live(id)} :
          /\ rows' = [id \in Ids |-> IF id \in spoilt THEN None ELSE rows[id]]
          /\ unreadable' = unreadable \cup {Unread(rows[id]) : id \in spoilt}
    BY DEF Crash
<1>2. turn' = <<>> /\ UNCHANGED <<torrents, asked, left>>
    BY DEF Crash
<1>3. CallsOf(turn)' = {}
    BY <1>2 DEF CallsOf
<1>4. turn # <<>> => SentCall \in CallsOf(turn)
    BY HeadLeaves DEF IInv, TurnFits, KeyInv, SentCall
<1>5. \A call \in late' : call \in late \cup CallsOf(turn)
    BY <1>4 DEF Crash, Sent
<1>6. \A key \in Keys : InUse(key)' => InUse(key)
    BY <1>2, <1>3, <1>5 DEF InUse
<1>7. \A key \in Keys : LetGo(key) => LetGo(key)'
    BY <1>1, <1>2 DEF LetGo
<1>8. ASSUME NEW key \in Keys, RowCountsOn(key)
      PROVE  Named(key)' \/ LetGo(key)'
  <2>1. PICK id \in Ids : Live(id) /\ CountsOn(rows[id], key)
      BY <1>8 DEF RowCountsOn
  <2>2. CASE id \in spoilt
    <3>1. Unread(rows[id]) \in unreadable' /\ key \in Unread(rows[id]).keys
        BY <1>1, <2>1, <2>2 DEF Unread
    <3> QED
        BY <3>1 DEF LetGo
  <2>3. CASE id \notin spoilt
    <3>1. rows'[id] = rows[id]
        BY <1>1, <2>3
    <3> QED
        BY <2>1, <3>1 DEF Named, RowCountsOn, Live
  <2> QED
      BY <2>2, <2>3
<1> QED
    BY <1>2, <1>6, <1>7, <1>8 DEF Accounted, Named

(* A write gives a torrent no key but its own call's.                      *)
LEMMA WritesOwnKey ==
    ASSUME NEW call, NEW h \in Releases
    PROVE  \/ AfterWrite(call)[h] = torrents[h] \/ AfterWrite(call)[h] = None
           \/ call.kind = "start" /\ AfterWrite(call)[h] = call.key
  BY DEF AfterWrite

(* The client's own steps bring nothing into use but a call's own key.     *)
LEMMA ClientAccounts ==
    ASSUME IInv, KeyInv, Client
    PROVE  Accounts
<1>1. UNCHANGED <<rows, asked>> /\ ClientStep
    BY DEF Client
<1>2. \A call : AfterRead(call).kind = call.kind /\ AfterRead(call).key = call.key
    BY DEF AfterRead
<1>3. turn # <<>> => /\ SentCall \in CallsOf(turn) /\ SentCall = turn[1]
                     /\ \A call : DOMAIN [turn EXCEPT ![1] = call] = DOMAIN turn
                     /\ 1 \in DOMAIN turn
    BY HeadLeaves, HeadTailProperties, CallsInTurn, LenProperties, EmptySeq
    DEF IInv, TurnFits, KeyInv, SentCall
<1>4. \A key \in Keys : InUse(key)' => InUse(key)
  <2>1. CASE TurnReads
    <3>1. \A other \in CallsOf(turn)' : other \in CallsOf(turn) \/ other = AfterRead(SentCall)
        BY <1>3, <2>1 DEF TurnReads, Sent, CallsOf
    <3>2. turn # <<>> /\ UNCHANGED <<torrents, late>>
        BY <2>1 DEF TurnReads, Sent
    <3> QED
        BY <1>2, <1>3, <3>1, <3>2 DEF InUse
  <2>2. CASE TurnWrites
    <3> DEFINE call == [turn[1] EXCEPT !.stage = "done"]
    <3>1. call.kind = SentCall.kind /\ call.key = SentCall.key
        BY <1>3, <2>2 DEF TurnWrites, Sent
    <3>2. turn' = [turn EXCEPT ![1] = call] /\ turn # <<>> /\ UNCHANGED late
        BY <2>2 DEF TurnWrites, Sent
    <3> HIDE DEF call
    <3>3. \A other \in CallsOf(turn)' : other \in CallsOf(turn) \/ other = call
        BY <1>3, <3>2 DEF CallsOf
    <3>4. \A h \in Releases : \/ torrents'[h] = torrents[h] \/ torrents'[h] = None
                              \/ SentCall.kind = "start" /\ torrents'[h] = SentCall.key
        BY <2>2, WritesOwnKey DEF TurnWrites
    <3> QED
        BY <1>3, <3>1, <3>2, <3>3, <3>4, TurnConstants DEF InUse
  <2>3. ASSUME NEW call \in late, LateReads(call) \/ LateWrites(call) \/ LateLost(call)
        PROVE  \A key \in Keys : InUse(key)' => InUse(key)
    <3>1. CASE LateReads(call) \/ LateLost(call)
        BY <1>2, <3>1 DEF LateReads, LateLost, InUse
    <3>2. CASE LateWrites(call)
      <4>1. \A h \in Releases : \/ torrents'[h] = torrents[h] \/ torrents'[h] = None
                                \/ call.kind = "start" /\ torrents'[h] = call.key
          BY <3>2, WritesOwnKey DEF LateWrites
      <4> QED
          BY <2>3, <3>2, <4>1, TurnConstants DEF LateWrites, InUse
    <3> QED
        BY <2>3, <3>1, <3>2
  <2>4. CASE \E h \in Releases : RemovedByHand(h) \/ AddedByHand(h)
      BY <2>4, TurnConstants DEF RemovedByHand, AddedByHand, InUse, IInv, TurnFits
  <2> QED
      BY <1>1, <2>1, <2>2, <2>3, <2>4 DEF ClientStep
<1> QED
    BY <1>1, <1>4 DEF Accounts, Named, RowCountsOn, Live

(* At first there is no download.                                          *)
LEMMA InitAccounts == Init => Accounted
  BY TurnConstants DEF Init, Accounted, InUse, CallsOf

(* Every step but a restart names what is in use, as long as it was.       *)
LEMMA StepNames ==
    ASSUME IInv, LostFits, KeyInv, PersonActs \/ JobActs \/ Client \/ UNCHANGED vars
    PROVE  Accounts
<1>1. CASE PersonActs
    <2>0. ASSUME NEW id \in Ids, NEW person \in People, NEW replaced \in SUBSET MayGiveWay,
                 Create(id, person, replaced) \/ Join(id, person, replaced)
          PROVE  Accounts
        BY <2>0, CreateAccounts, JoinAccounts
    <2>1. ASSUME NEW id \in Ids, NEW person \in People, CancelRequest(id, person)
          PROVE  Accounts
        BY <2>1, CancelAccounts
    <2>2. ASSUME NEW id \in Ids, RetryRequest(id)
          PROVE  Accounts
        BY <2>2, RetryAccounts
    <2>3. ASSUME NEW id \in Ids, NEW release \in Releases,
                 ChooseRelease(id, release) \/ ChooseAnother(id, release)
          PROVE  Accounts
        BY <2>3, ChooseReleaseAccounts, ChooseAnotherAccounts
    <2> QED
        BY <1>1, <2>0, <2>1, <2>2, <2>3, PersonDropAccounts DEF PersonActs
<1>2. CASE JobActs
    <2>1. ASSUME NEW id \in Ids,
                 \/ PassOver(id) \/ BeginSearching(id) \/ AskSearch(id)
                 \/ IndexAnswers(id) \/ AskPoll(id)
          PROVE  Accounts
        BY <2>1, StandingAccounts, BeginSearchingAccounts, IndexAnswersAccounts
    <2>2. ASSUME NEW id \in Ids, NEW key \in Keys, AskStart(id, key) \/ AskImport(id, key)
          PROVE  Accounts
        BY <2>2, AskStartAccounts, AskImportAccounts
    <2>3. ASSUME \/ SearchAnswers \/ StartAnswers \/ StartThrows \/ LostDropEnds
                 \/ PollAnswers \/ PollStalls \/ StalledDropEnds \/ ImportAnswers \/ StepFails
          PROVE  Accounts
        BY <2>3, SearchAnswersAccounts, StartAnswersAccounts, StartThrowsAccounts,
           LostDropAccounts, PollAnswersAccounts, PollStallsAccounts, StalledDropAccounts,
           ImportAnswersAccounts, StepFailsAccounts
    <2> QED
        BY <1>2, <2>1, <2>2, <2>3, StandingAccounts DEF JobActs
<1>3. CASE Client
    BY <1>3, ClientAccounts
<1>4. CASE UNCHANGED vars
  <2>1. UNCHANGED <<torrents, turn, late, rows, asked>>
      BY <1>4 DEF vars, turnVars
  <2> QED
      BY <2>1, StandingNames, QuietAccounts
<1> QED
    BY <1>1, <1>2, <1>3, <1>4

(* What was let go stays so while it is in use, whatever step but a restart*)
(* is taken.                                                               *)
LEMMA StepLetsGo ==
    ASSUME PersonActs \/ JobActs \/ Client \/ UNCHANGED vars
    PROVE  \A key \in Keys : InUse(key) /\ LetGo(key) => LetGo(key)'
<1> DEFINE Goes == \A key \in Keys : InUse(key) /\ LetGo(key) => LetGo(key)'
<1> SUFFICES Goes
    OBVIOUS
<1>1. ASSUME UNCHANGED rowsLost PROVE Goes
    BY <1>1 DEF rowsLost, LetGo
<1>2. ASSUME NEW id, NEW person, NEW replaced \in SUBSET MayGiveWay,
             Create(id, person, replaced) \/ Join(id, person, replaced)
      PROVE  Goes
  <2>1. GiveWay(replaced)
      BY <1>2 DEF Create, Join
  <2> QED
      BY <2>1 DEF GiveWay, LetGo
<1>3. ASSUME NEW id \in Ids, NEW key \in Keys, AskStart(id, key) \/ AskImport(id, key)
      PROVE  Goes
  <2>1. unreadable' = unreadable /\ Keyed(id, key)
      BY <1>3 DEF AskStart, AskImport
  <2>2. CASE NewKey(key) /\ left' = left \ {key}
    <3>1. ~InUse(key)
        BY <2>2, NewIsNobodys DEF InUse
    <3> QED
        BY <2>1, <2>2, <3>1 DEF LetGo
  <2>3. CASE left' = left
      BY <2>1, <2>3 DEF LetGo
  <2> QED
      BY <2>1, <2>2, <2>3 DEF Keyed
<1> HIDE DEF Goes
<1>4. CASE PersonActs
  <2>1. ASSUME NEW id, NEW person, CancelRequest(id, person)
        PROVE  UNCHANGED rowsLost
      BY <2>1 DEF CancelRequest
  <2>2. ASSUME NEW id, RetryRequest(id)
        PROVE  UNCHANGED rowsLost
      BY <2>2 DEF RetryRequest
  <2>3. ASSUME NEW id, NEW release, ChooseRelease(id, release) \/ ChooseAnother(id, release)
        PROVE  UNCHANGED rowsLost
      BY <2>3 DEF ChooseRelease, ChooseAnother
  <2> QED
      BY <1>1, <1>2, <1>4, <2>1, <2>2, <2>3 DEF PersonActs, PersonDropEnds
<1>5. CASE JobActs
    BY <1>1, <1>3, <1>5, JobLoses
<1> QED
    BY <1>1, <1>4, <1>5 DEF Client, vars

(* Every step keeps what Auralis started accounted for.                    *)
LEMMA StepAccounts == IInv /\ LostFits /\ KeyInv /\ Accounted /\ [Next]_vars => Accounted'
<1> SUFFICES ASSUME IInv, LostFits, KeyInv, Accounted, [Next]_vars PROVE Accounted'
    OBVIOUS
<1>1. CASE Crash
    BY <1>1, CrashAccounts
<1>2. CASE PersonActs \/ JobActs \/ Client \/ UNCHANGED vars
  <2>1. Accounts /\ \A key \in Keys : InUse(key) /\ LetGo(key) => LetGo(key)'
      BY <1>2, StepNames, StepLetsGo
  <2> QED
      BY <2>1 DEF Accounts, Accounted
<1> QED
    BY <1>1, <1>2 DEF Next

(* Every download Auralis started is one a request can still name, one     *)
(* somebody has asked to drop, or one whose row could no longer be read.   *)
THEOREM NamesOrDrops == Spec => []NamedOrDropped
<1>1. IInv /\ Accounted => NamedOrDropped
  <2> SUFFICES ASSUME IInv, Accounted, NEW h \in Releases, torrents[h] \in Keys
               PROVE  \/ RowCountsOn(torrents[h]) \/ torrents[h] \in asked
                      \/ torrents[h] \in left \/ \E row \in unreadable : torrents[h] \in row.keys
      BY DEF NamedOrDropped
  <2> QED
      BY DEF Accounted, InUse, Named, LetGo
<1> QED
    BY <1>1, InitAccounts, StepAccounts, Invariant, KeysAreOwn, PTL DEF Spec

----------------------------------------------------------------------------
(* What a cancel deletes                                                   *)

(* A call that asks nothing of the client yet.                             *)
Fresh(call) == call.found = {}

(* How a step changes the turn, other than by the client.                  *)
TurnChanges ==
    \/ UNCHANGED <<turn, late>>
    \/ UNCHANGED late /\ \E call : Fresh(call) /\ turn' = Append(turn, call)
    \/ turn # <<>> /\ (UNCHANGED late \/ Unanswered) /\ turn' = NextInTurn
    \/ /\ turn # <<>> /\ UNCHANGED late
       /\ \E call : Fresh(call) /\ turn' = Append(NextInTurn, call)
    \/ Crash

(* What a drop that is asked for does to the turn.                         *)
LEMMA DropJoins ==
    ASSUME NEW id, NEW target, NEW by, NEW pick, AskDrop(id, target, by, pick), UNCHANGED late
    PROVE  TurnChanges
<1>1. Fresh(CancelCall(id, target, by, pick))
    BY DEF Fresh, CancelCall
<1> QED
    BY <1>1 DEF AskDrop, TurnChanges

(* Only the client's own steps change its torrents.                        *)
LEMMA StepsTurn ==
    ASSUME [Next]_vars
    PROVE  ClientStep \/ (UNCHANGED torrents /\ TurnChanges)
<1>1. ASSUME NEW id, NEW person, NEW replaced, Create(id, person, replaced)
      PROVE  UNCHANGED torrents /\ TurnChanges
    BY <1>1 DEF Create, turnVars, TurnChanges
<1>2. ASSUME NEW id, NEW person, NEW replaced, Join(id, person, replaced)
      PROVE  UNCHANGED torrents /\ TurnChanges
    BY <1>2, DropJoins DEF Join, TurnChanges
<1>3. ASSUME NEW id, NEW person, CancelRequest(id, person)
      PROVE  UNCHANGED torrents /\ TurnChanges
    BY <1>3, DropJoins DEF CancelRequest, TurnChanges
<1>4. ASSUME NEW id, RetryRequest(id)
      PROVE  UNCHANGED torrents /\ TurnChanges
    BY <1>4, DropJoins DEF RetryRequest
<1>5. ASSUME NEW id, NEW release, ChooseRelease(id, release)
      PROVE  UNCHANGED torrents /\ TurnChanges
    BY <1>5 DEF ChooseRelease, turnVars, TurnChanges
<1>6. ASSUME NEW id, NEW release, ChooseAnother(id, release)
      PROVE  UNCHANGED torrents /\ TurnChanges
    BY <1>6, DropJoins DEF ChooseAnother
<1>7. ASSUME PersonDropEnds
      PROVE  UNCHANGED torrents /\ TurnChanges
    BY <1>7 DEF PersonDropEnds, TurnChanges
<1>8. ASSUME \/ BeginRun \/ EndRun \/ SearchAnswers \/ PollAnswers \/ ImportAnswers \/ StepFails
             \/ \E id \in Ids : \/ PassOver(id) \/ BeginSearching(id) \/ AskSearch(id)
                                \/ IndexAnswers(id) \/ AskPoll(id)
                                \/ \E key \in Keys : AskImport(id, key)
      PROVE  UNCHANGED torrents /\ TurnChanges
  <2>1. UNCHANGED turnVars
      BY <1>8 DEF BeginRun, EndRun, SearchAnswers, PollAnswers, ImportAnswers, StepFails,
         PassOver, BeginSearching, AskSearch, IndexAnswers, AskPoll, AskImport
  <2> QED
      BY <2>1 DEF turnVars, TurnChanges
<1>9. ASSUME NEW id, NEW key, AskStart(id, key)
      PROVE  UNCHANGED torrents /\ TurnChanges
  <2>1. Fresh(StartCall(id, rows[id].release, key))
      BY DEF Fresh, StartCall
  <2> QED
      BY <1>9, <2>1 DEF AskStart, TurnChanges
<1>10. ASSUME StartAnswers
       PROVE  UNCHANGED torrents /\ TurnChanges
  <2>1. \A handle : Fresh(CancelCall(job.id, handle, "job", None))
      BY DEF Fresh, CancelCall
  <2> QED
      BY <1>10, <2>1 DEF StartAnswers, Sent, TurnChanges
<1>11. ASSUME StartThrows \/ LostDropEnds \/ StalledDropEnds
       PROVE  UNCHANGED torrents /\ TurnChanges
    BY <1>11 DEF StartThrows, LostDropEnds, StalledDropEnds, TurnChanges
<1>12. ASSUME PollStalls
       PROVE  UNCHANGED torrents /\ TurnChanges
    BY <1>12, DropJoins DEF PollStalls, TurnChanges
<1>13. ASSUME Crash
       PROVE  UNCHANGED torrents /\ TurnChanges
    BY <1>13 DEF Crash, TurnChanges
<1>14. ASSUME UNCHANGED vars
       PROVE  UNCHANGED torrents /\ TurnChanges
    BY <1>14 DEF vars, turnVars, TurnChanges
<1>15. CASE PersonActs
    BY <1>1, <1>2, <1>3, <1>4, <1>5, <1>6, <1>7, <1>15 DEF PersonActs
<1>16. CASE JobActs
    BY <1>8, <1>9, <1>10, <1>11, <1>12, <1>16 DEF JobActs
<1> QED
    BY <1>13, <1>14, <1>15, <1>16 DEF Next, Client

(* With every call answered inside its limit, what a cancel has found is   *)
(* still its own when it deletes it: only the call that is out has read.   *)
OwnFound ==
    /\ late = {}
    /\ \A i \in DOMAIN turn :
          /\ i # 1 => Fresh(turn[i])
          /\ turn[i].kind = "cancel" => \A h \in turn[i].found : torrents[h] \in {turn[i].key, None}

(* With no call past its limit, none gets there.                           *)
LEMMA NoneLate ==
    ASSUME MaxLate = 0, late = {}
    PROVE  /\ ~(Cardinality(late) < MaxLate)
           /\ UNCHANGED late \/ Unanswered => UNCHANGED late
  BY FS_EmptySet DEF Unanswered

(* A call that joins has found nothing, and those before it stay.          *)
LEMMA FreshJoins ==
    ASSUME NEW S, NEW calls \in Seq(S), NEW call, Fresh(call), NEW i \in DOMAIN Append(calls, call)
    PROVE  Fresh(Append(calls, call)[i]) \/ (i \in DOMAIN calls /\ Append(calls, call)[i] = calls[i])
  BY CallsInTurn, LenProperties

(* Every step keeps what a cancel has found its own.                       *)
LEMMA StepFindsOwn ==
    ASSUME MaxLate = 0, IInv, OwnFound, [Next]_vars
    PROVE  OwnFound'
<1>1. turn \in Seq(NamedCalls)
    BY DEF IInv, TurnFits
<1>2. turn # <<>> => NextInTurn \in Seq(NamedCalls)
    BY TurnGoesOn DEF IInv
<1>3. turn # <<>> => \A i \in DOMAIN NextInTurn : Fresh(NextInTurn[i])
  <2> SUFFICES ASSUME turn # <<>>, NEW i \in DOMAIN NextInTurn PROVE Fresh(NextInTurn[i])
      OBVIOUS
  <2>1. /\ Len(NextInTurn) = Len(turn) - 1 /\ Len(turn) \in Nat
        /\ \A j \in 1..Len(NextInTurn) : NextInTurn[j] = turn[j + 1]
      BY <1>1, HeadTailProperties, LenProperties DEF NextInTurn
  <2>2. DOMAIN NextInTurn = 1..Len(NextInTurn) /\ DOMAIN turn = 1..Len(turn)
      BY <1>1, <1>2, CallsInTurn
  <2>3. i + 1 \in DOMAIN turn /\ i + 1 # 1 /\ NextInTurn[i] = turn[i + 1]
      BY <2>1, <2>2
  <2> QED
      BY <2>3 DEF OwnFound
<1>4. CASE UNCHANGED torrents /\ TurnChanges
  <2>1. CASE UNCHANGED <<turn, late>>
      BY <1>4, <2>1 DEF OwnFound
  <2>2. ASSUME UNCHANGED late, NEW call, Fresh(call), turn' = Append(turn, call)
        PROVE  OwnFound'
    <3>1. \A i \in DOMAIN turn' : Fresh(turn'[i]) \/ (i \in DOMAIN turn /\ turn'[i] = turn[i])
        BY <1>1, <2>2, FreshJoins
    <3> QED
        BY <1>4, <2>2, <3>1 DEF OwnFound, Fresh
  <2>3. CASE turn # <<>> /\ (UNCHANGED late \/ Unanswered) /\ turn' = NextInTurn
      BY <1>3, <1>4, <2>3, NoneLate DEF OwnFound, Fresh
  <2>4. ASSUME turn # <<>>, UNCHANGED late, NEW call, Fresh(call),
               turn' = Append(NextInTurn, call)
        PROVE  OwnFound'
    <3>1. \A i \in DOMAIN turn' : Fresh(turn'[i])
        BY <1>2, <1>3, <2>4, FreshJoins
    <3> QED
        BY <1>4, <2>4, <3>1 DEF OwnFound, Fresh
  <2>5. CASE Crash
    <3>1. turn' = <<>> /\ late' = {}
        BY <2>5, NoneLate DEF Crash, OwnFound
    <3> QED
        BY <3>1 DEF OwnFound
  <2> QED
      BY <1>4, <2>1, <2>2, <2>3, <2>4, <2>5 DEF TurnChanges
<1>5. CASE ClientStep
  <2>1. turn # <<>> => /\ SentCall = turn[1] /\ 1 \in DOMAIN turn
                       /\ \A call : /\ DOMAIN [turn EXCEPT ![1] = call] = DOMAIN turn
                                    /\ [turn EXCEPT ![1] = call][1] = call
                                    /\ \A i \in DOMAIN turn : i # 1 => [turn EXCEPT ![1] = call][i] = turn[i]
      BY <1>1, HeadTailProperties, CallsInTurn, LenProperties, EmptySeq DEF SentCall
  <2>2. \A i \in DOMAIN turn : turn[i] \in Calls
      BY <1>1, CallsInTurn DEF NamedCalls
  <2>3. CASE TurnReads
    <3> DEFINE call == AfterRead(SentCall)
    <3>1. turn # <<>> /\ turn' = [turn EXCEPT ![1] = call] /\ UNCHANGED <<torrents, late>>
        BY <2>3 DEF TurnReads, Sent
    <3>2. call.kind = "cancel" => \A h \in call.found : torrents[h] = call.key
      <4>1. SentCall \in Calls
          BY <2>1, <2>2, <3>1
      <4>2. CASE SentCall.kind = "start"
          BY <4>1, <4>2 DEF AfterRead
      <4>3. CASE SentCall.kind # "start"
        <5>1. call.found = Deletable(SentCall) /\ call.key = SentCall.key
            BY <4>1, <4>3 DEF AfterRead, Calls
        <5> QED
            BY <5>1 DEF Deletable
      <4> QED
          BY <4>2, <4>3
    <3> HIDE DEF call
    <3> QED
        BY <2>1, <3>1, <3>2 DEF OwnFound, Fresh
  <2>4. CASE TurnWrites
    <3> DEFINE call == [turn[1] EXCEPT !.stage = "done"]
    <3>1. turn # <<>> /\ turn' = [turn EXCEPT ![1] = call] /\ UNCHANGED late
        BY <2>4 DEF TurnWrites, Sent
    <3>2. call.kind = SentCall.kind /\ call.key = SentCall.key /\ call.found = SentCall.found
        BY <2>1, <3>1
    <3>3. SentCall.kind = "cancel" =>
              \A h \in Releases : torrents'[h] = torrents[h] \/ torrents'[h] = None
        BY <2>4 DEF TurnWrites, AfterWrite
    <3>4. SentCall.found \subseteq Releases
        BY <2>1, <2>2, <3>1 DEF Calls
    <3> HIDE DEF call
    <3> QED
        BY <2>1, <3>1, <3>2, <3>3, <3>4 DEF OwnFound, Fresh
  <2>5. CASE \E call \in late : LateReads(call) \/ LateWrites(call) \/ LateLost(call)
      BY <2>5 DEF OwnFound
  <2>6. ASSUME NEW h \in Releases, RemovedByHand(h) \/ AddedByHand(h)
        PROVE  OwnFound'
    <3>1. UNCHANGED <<turn, late>>
        BY <2>6 DEF RemovedByHand, AddedByHand
    <3>2. \A g \in Releases : \/ torrents'[g] = torrents[g] \/ torrents'[g] = None
                              \/ \A i \in DOMAIN turn : g \notin turn[i].found
        BY <2>6 DEF RemovedByHand, AddedByHand, IInv, TurnFits
    <3>3. \A i \in DOMAIN turn : turn[i].found \subseteq Releases
        BY <2>2 DEF Calls
    <3> QED
        BY <3>1, <3>2, <3>3 DEF OwnFound, Fresh
  <2> QED
      BY <1>5, <2>3, <2>4, <2>5, <2>6 DEF ClientStep
<1> QED
    BY <1>4, <1>5, StepsTurn

(* What is deleted is Auralis's own, and no request counts on it.          *)
LEMMA StepDropsOwn ==
    ASSUME IInv, KeyInv, OwnFound, [Next]_vars, NEW h \in Releases,
           torrents[h] # None, torrents'[h] = None, <<turn, late>>' # <<turn, late>>
    PROVE  torrents[h] \in Keys /\ ~RowCountsOn(torrents[h])
<1>1. ClientStep
    BY StepsTurn
<1>2. TurnWrites
    BY <1>1 DEF ClientStep, TurnReads, LateReads, LateLost, LateWrites, RemovedByHand,
       AddedByHand, OwnFound
<1>3. turn # <<>> /\ SentCall = turn[1] /\ 1 \in DOMAIN turn /\ SentCall \in CallsOf(turn)
    BY <1>2, HeadLeaves, HeadTailProperties, CallsInTurn, LenProperties, EmptySeq
    DEF TurnWrites, Sent, SentCall, IInv, TurnFits, KeyInv
<1>4. SentCall \in Calls
    BY <1>3, TurnGoesOn DEF IInv
<1>5. SentCall.kind = "cancel" /\ h \in SentCall.found
    BY <1>2, <1>4, TurnConstants DEF TurnWrites, AfterWrite, Calls
<1>6. torrents[h] = SentCall.key
    BY <1>3, <1>5 DEF OwnFound
<1>7. \A id \in Ids : Live(id) => ~Names(rows[id], SentCall.key)
    BY <1>3, <1>5 DEF KeyInv, DropsUnnamed
<1> QED
    BY <1>4, <1>6, <1>7 DEF Calls, RowCountsOn, CountsOn, Names

(* At first no call has found anything.                                    *)
LEMMA InitFindsOwn == Init => OwnFound
  BY DEF Init, OwnFound

(* With every call answered inside its limit, a cancel deletes nothing but *)
(* torrents Auralis started, under keys no request counts on, whatever     *)
(* people add and remove in the client and however many requests there are.*)
THEOREM OnlyItsOwnDropped ==
    ASSUME MaxLate = 0
    PROVE  Spec => DropsOnlyItsOwn
<1>1. IInv /\ OwnFound /\ [Next]_vars => OwnFound'
    BY StepFindsOwn
<1>2. Spec => []OwnFound
    BY <1>1, InitFindsOwn, Invariant, PTL DEF Spec
<1> DEFINE Own ==
        \A h \in Releases :
            /\ torrents[h] # None /\ torrents'[h] = None
            /\ <<turn, late>>' # <<turn, late>>
            => torrents[h] \in Keys /\ ~RowCountsOn(torrents[h])
<1>3. IInv /\ KeyInv /\ OwnFound /\ [Next]_vars => [Own]_vars
    BY StepDropsOwn
<1> HIDE DEF Own
<1>4. Spec => [][Own]_vars
    BY <1>2, <1>3, Invariant, KeysAreOwn, PTL DEF Spec
<1> QED
    BY <1>4 DEF DropsOnlyItsOwn, Own


----------------------------------------------------------------------------
(* Nothing left                                                            *)

(* A row tells the hash of a key: by its handle, or by the release its     *)
(* step under that key is of.                                              *)
Tells(row, key, h) ==
    \/ row.handle # None /\ row.handle.key = key /\ row.handle.hash = h
    \/ row.stepKey = key /\ row.release = h

(* A hash in the client, or about to be, under a key.                      *)
Carried(key, h) ==
    \/ torrents[h] = key
    \/ \E call \in CallsOf(turn) : call.kind = "start" /\ call.key = key /\ call.hash = h

(* What a key is in use for is one hash, to every row and every call.      *)
OfOneHash ==
    \A key \in Keys, h \in Releases : Carried(key, h) =>
        /\ \A id \in Ids, g \in Releases : Live(id) /\ Tells(rows[id], key, g) => g = h
        /\ \A call \in CallsOf(turn) : call.key = key =>
               call.hash = h \/ (call.kind = "cancel" /\ call.hash = None)

(* No row names what somebody has asked to drop.                           *)
AskedUnnamed == \A key \in asked, id \in Ids : Live(id) => ~Names(rows[id], key)

(* A cancel is in turn after every start under its key, and has found all  *)
(* it is to delete.                                                        *)
Due(key) ==
    \E i \in DOMAIN turn :
        /\ turn[i].kind = "cancel" /\ turn[i].key = key
        /\ \A j \in DOMAIN turn : turn[j].kind = "start" /\ turn[j].key = key => j < i
        /\ turn[i].stage = "writing" => \A h \in Releases : torrents[h] = key => h \in turn[i].found
        /\ turn[i].stage = "done" => \A h \in Releases : torrents[h] # key

DropsDue == \A key \in asked : InUse(key) => Due(key)

(* No call has passed its limit, and only the call that is out has got     *)
(* anywhere.                                                               *)
InTime ==
    /\ late = {}
    /\ \A i \in DOMAIN turn : i # 1 => turn[i].stage = "reading"

DropInv == OfOneHash /\ AskedUnnamed /\ DropsDue /\ InTime

(* A row with no handle and no key but those it had, its key for the       *)
(* release it was for.                                                     *)
Keeps(row, old) ==
    /\ row.handle \in {old.handle, None}
    /\ row.stepKey = None \/ (row.stepKey = old.stepKey /\ row.release = old.release)

RowsKeep ==
    \A id \in Ids : Live(id)' =>
        \/ Live(id) /\ Keeps(rows'[id], rows[id])
        \/ rows'[id].handle = None /\ rows'[id].stepKey = None

(* What rows tell and name where they keep what they had.                  *)
LEMMA KeptTells ==
    ASSUME RowsKeep, NEW id \in Ids, Live(id)', NEW key \in Keys
    PROVE  /\ Names(rows'[id], key) => Live(id) /\ Names(rows[id], key)
           /\ \A h : Tells(rows'[id], key, h) => Live(id) /\ Tells(rows[id], key, h)
  BY TurnConstants DEF RowsKeep, Keeps, Names, Tells

(* A saved row that keeps what its request had.                            *)
LEMMA SavedKeeps ==
    ASSUME IInv, NEW id \in Ids, Live(id), NEW row, Save(id, row),
           Keeps(row, rows[id]) \/ (row.handle = None /\ row.stepKey = None)
    PROVE  RowsKeep
<1>1. /\ rows'[id] = Saved(id, row)
      /\ \A other \in Ids : other # id => rows'[other] = rows[other]
    BY DEF Save, IInv, RowsFit
<1>2. /\ Saved(id, row).stepKey = row.stepKey /\ Saved(id, row).handle = row.handle
      /\ Saved(id, row).release = row.release
    BY DEF Saved
<1> QED
    BY <1>1, <1>2 DEF RowsKeep, Keeps, Live

(* Rows that stay keep what they have.                                     *)
LEMMA StandingKeeps ==
    ASSUME UNCHANGED rows
    PROVE  RowsKeep
  BY DEF RowsKeep, Keeps, Live

(* An event changes no key, handle or release.                             *)
LEMMA EventTells ==
    ASSUME NEW row, NEW event
    PROVE  /\ After(row, event).stepKey = row.stepKey /\ After(row, event).handle = row.handle
           /\ After(row, event).release = row.release
           /\ Keeps(After(row, event), row)
<1>1. /\ After(row, event).stepKey = row.stepKey /\ After(row, event).handle = row.handle
      /\ After(row, event).release = row.release
    BY DEF After
<1> QED
    BY <1>1 DEF Keeps

(* A retried row keeps what it had, or gives up its handle.                *)
LEMMA RetriedTells ==
    ASSUME NEW row \in Rows
    PROVE  Keeps(Retried(row), row)
<1> DEFINE after == After(row, Retry)
<1>1. after.stepKey = row.stepKey /\ after.handle = row.handle /\ after.release = row.release
    BY EventTells
<1> HIDE DEF after
<1>2. Retried(row) = after \/ Retried(row) = [after EXCEPT !.handle = None]
    BY DEF Retried, after
<1>3. /\ [after EXCEPT !.handle = None].stepKey = after.stepKey
      /\ [after EXCEPT !.handle = None].release = after.release
      /\ [after EXCEPT !.handle = None].handle \in {after.handle, None}
    OBVIOUS
<1> QED
    BY <1>1, <1>2, <1>3 DEF Keeps

(* A release is chosen for a row that has neither handle nor key.          *)
LEMMA ChosenTells ==
    ASSUME IInv, NEW id \in Ids, NEW release, NEW n, Choosable(id, release)
    PROVE  /\ Live(id)
           /\ WithChoice(rows[id], release, n).handle = None
           /\ WithChoice(rows[id], release, n).stepKey = None
<1>1. Live(id) /\ RowFits(rows[id]) /\ rows[id] \in Rows /\ rows[id].status = "needsChoice"
    BY FailedStepKnown, TakenFrom DEF Choosable
<1>2. rows[id].handle = None /\ rows[id].stepKey = None
    BY <1>1 DEF RowFits, Fitting, StepOf
<1>3. After(rows[id], Chose).handle = None /\ After(rows[id], Chose).stepKey = None
    BY <1>2, EventTells
<1> QED
    BY <1>1, <1>3 DEF WithChoice

(* An answer saved on the row the job read.                                *)
LEMMA AnswerTells ==
    ASSUME IInv, job.id \in Ids, NEW row, SaveIfCurrent(row),
           Current => Keeps(row, MyRow) \/ (row.handle = None /\ row.stepKey = None)
    PROVE  RowsKeep
<1>1. CASE Current
    BY <1>1, SavedKeeps DEF SaveIfCurrent, Current, MyRow
<1>2. CASE ~Current
    BY <1>2, StandingKeeps DEF SaveIfCurrent
<1> QED
    BY <1>1, <1>2

(* A step that throws keeps what its row has.                              *)
LEMMA ThrowTells ==
    ASSUME IInv, job.id \in Ids, StepThrows
    PROVE  RowsKeep
<1>1. Keeps(After(MyRow, Failed("other")), MyRow)
    BY EventTells
<1> QED
    BY <1>1, SavedKeeps, StandingKeeps DEF StepThrows, RecordThrown, MyRow

----------------------------------------------------------------------------
(* What people do keeps what rows have.                                    *)
LEMMA PeopleKeep ==
    ASSUME IInv, LostFits, PersonActs
    PROVE  RowsKeep
<1>1. ASSUME NEW id \in Ids, NEW person \in People,
             NEW replaced \in SUBSET MayGiveWay, Create(id, person, replaced)
      PROVE  RowsKeep
  <2>1. /\ rows' = [rows EXCEPT ![id] = NewRow(Asking(person, replaced))]
        /\ rows \in [Ids -> Rows \cup {None}]
      BY <1>1 DEF Create, IInv, RowsFit
  <2>2. /\ NewRow(Asking(person, replaced)).handle = None
        /\ NewRow(Asking(person, replaced)).stepKey = None
      BY DEF NewRow
  <2> QED
      BY <2>1, <2>2 DEF RowsKeep, Keeps, Live
<1>2. ASSUME NEW id \in Ids, NEW person \in People,
             NEW replaced \in SUBSET MayGiveWay, Join(id, person, replaced)
      PROVE  RowsKeep
  <2> DEFINE joined == [rows[id] EXCEPT !.people = @ \cup Asking(person, replaced)]
  <2>1. Live(id) /\ rows[id] \in Rows /\ rows \in [Ids -> Rows \cup {None}]
      BY <1>2, FailedStepKnown DEF Join, IInv, RowsFit
  <2>2. /\ joined \in Rows /\ joined.stepKey = rows[id].stepKey
        /\ joined.handle = rows[id].handle /\ joined.release = rows[id].release
      BY <2>1, AskingPeople DEF Rows
  <2>3. Save(id, Retried(joined)) \/ rows' = [rows EXCEPT ![id] = joined]
      BY <1>2 DEF Join
  <2> HIDE DEF joined
  <2>4. CASE Save(id, Retried(joined))
    <3>1. Keeps(Retried(joined), joined)
        BY <2>2, RetriedTells
    <3>2. Keeps(Retried(joined), rows[id])
        BY <2>2, <3>1 DEF Keeps
    <3> QED
        BY <2>1, <2>4, <3>2, SavedKeeps
  <2>5. CASE rows' = [rows EXCEPT ![id] = joined]
      BY <2>1, <2>2, <2>5 DEF RowsKeep, Keeps, Live
  <2> QED
      BY <2>3, <2>4, <2>5
<1>3. ASSUME NEW id \in Ids, NEW person \in People, CancelRequest(id, person)
      PROVE  RowsKeep
  <2>1. Live(id) /\ rows[id] \in Rows /\ rows \in [Ids -> Rows \cup {None}]
      BY <1>3, FailedStepKnown DEF CancelRequest, IInv, RowsFit
  <2>2. \/ rows' = [rows EXCEPT ![id].people = @ \ {person}]
        \/ rows' = [rows EXCEPT ![id] = None]
      BY <1>3 DEF CancelRequest
  <2>3. CASE rows' = [rows EXCEPT ![id].people = @ \ {person}]
    <3>1. /\ rows'[id] = [rows[id] EXCEPT !.people = @ \ {person}]
          /\ \A other \in Ids : other # id => rows'[other] = rows[other]
        BY <2>1, <2>3
    <3>2. /\ rows'[id].stepKey = rows[id].stepKey /\ rows'[id].handle = rows[id].handle
          /\ rows'[id].release = rows[id].release
        BY <2>1, <3>1 DEF Rows
    <3> QED
        BY <2>1, <3>1, <3>2 DEF RowsKeep, Keeps, Live
  <2>4. CASE rows' = [rows EXCEPT ![id] = None]
      BY <2>1, <2>4 DEF RowsKeep, Keeps, Live
  <2> QED
      BY <2>2, <2>3, <2>4
<1>4. ASSUME NEW id \in Ids, RetryRequest(id)
      PROVE  RowsKeep
  <2>1. Live(id) /\ rows[id] \in Rows /\ Save(id, Retried(rows[id]))
      BY <1>4, FailedStepKnown DEF RetryRequest
  <2> QED
      BY <2>1, RetriedTells, SavedKeeps
<1>5. ASSUME NEW id \in Ids, NEW release \in Releases, ChooseRelease(id, release)
      PROVE  RowsKeep
    BY <1>5, ChosenTells, SavedKeeps DEF ChooseRelease
<1>6. ASSUME NEW id \in Ids, NEW release \in Releases, ChooseAnother(id, release)
      PROVE  RowsKeep
  <2> DEFINE back == BackToChoice(rows[id])
             new  == IF DropTarget(rows[id]) = None
                     THEN WithChoice(back, release, rows[id].autoStarts) ELSE back
  <2>1. Live(id) /\ rows[id] \in Rows /\ Save(id, new)
      BY <1>6, FailedStepKnown DEF ChooseAnother
  <2>2. back.handle = None /\ back.stepKey = None
    <3>1. After(rows[id], PickAnother) =
            [rows[id] EXCEPT !.status = "needsChoice", !.failedStep = None, !.reason = None]
        BY <2>1, AfterEvents
    <3> QED
        BY <2>1, <3>1 DEF BackToChoice, Rows
  <2> HIDE DEF back
  <2>3. \A n : WithChoice(back, release, n).handle = None /\ WithChoice(back, release, n).stepKey = None
      BY <2>2, EventTells DEF WithChoice
  <2>4. new.handle = None /\ new.stepKey = None
      BY <2>2, <2>3
  <2> HIDE DEF new
  <2> QED
      BY <2>1, <2>4, SavedKeeps
<1>7. ASSUME PersonDropEnds
      PROVE  RowsKeep
  <2>1. SentCall.id \in Ids
      BY <1>7, TurnGoesOn DEF IInv, PersonDropEnds, Calls
  <2> QED
      BY <1>7, <2>1, ChosenTells, SavedKeeps, StandingKeeps DEF PersonDropEnds
<1> QED
    BY <1>1, <1>2, <1>3, <1>4, <1>5, <1>6, <1>7 DEF PersonActs

(* The job's answers keep what rows have.                                  *)
LEMMA AnswersKeep ==
    ASSUME IInv,
           \/ BeginRun \/ EndRun \/ SearchAnswers \/ StartThrows \/ LostDropEnds
           \/ PollAnswers \/ PollStalls \/ StalledDropEnds \/ ImportAnswers \/ StepFails
           \/ \E id \in Ids : \/ PassOver(id) \/ BeginSearching(id) \/ AskSearch(id)
                              \/ IndexAnswers(id) \/ AskPoll(id)
    PROVE  RowsKeep
<1>1. CASE \/ BeginRun \/ EndRun
           \/ \E id \in Ids : PassOver(id) \/ AskSearch(id) \/ AskPoll(id)
    BY <1>1, StandingKeeps DEF BeginRun, EndRun, PassOver, AskSearch, AskPoll
<1>2. ASSUME NEW id \in Ids, BeginSearching(id) \/ IndexAnswers(id)
      PROVE  RowsKeep
    BY <1>2, EventTells, SavedKeeps DEF BeginSearching, IndexAnswers, StepFrom
<1>3. CASE SearchAnswers
  <2>1. job.pc = "search" /\ job.id \in Ids
      BY <1>3, StepEnds DEF SearchAnswers, Waiting
  <2>2. Current => MyRow.handle = None /\ MyRow.stepKey = None
    <3>1. Current => RowFits(MyRow) /\ MyRow.status = "searching"
        BY <2>1, MyRowIsSnap DEF IInv, JobFits, JobWaits, Current
    <3> QED
        BY <3>1 DEF RowFits, Fitting, StepOf
  <2>3. ASSUME NEW row, NEW event, Apply(row, event),
               row.handle = MyRow.handle, row.stepKey = MyRow.stepKey
        PROVE  RowsKeep
    <3>1. After(row, event).handle = row.handle /\ After(row, event).stepKey = row.stepKey
        BY EventTells
    <3> QED
        BY <2>1, <2>2, <2>3, <3>1, AnswerTells DEF Apply
  <2>4. ASSUME NEW release, NEW others,
               Apply([MyRow EXCEPT !.release = release, !.candidates = others],
                     Moved(AfterPicked(Medium)))
        PROVE  RowsKeep
    <3> DEFINE picked == [MyRow EXCEPT !.release = release, !.candidates = others]
    <3>1. picked.stepKey = MyRow.stepKey /\ picked.handle = MyRow.handle
        OBVIOUS
    <3> HIDE DEF picked
    <3>2. Apply(picked, Moved(AfterPicked(Medium)))
        BY <2>4 DEF picked
    <3> QED
        BY <2>3, <3>1, <3>2
  <2>5. ASSUME NEW candidates,
               Apply([MyRow EXCEPT !.candidates = candidates], Moved("needsChoice"))
        PROVE  RowsKeep
    <3> DEFINE offered == [MyRow EXCEPT !.candidates = candidates]
    <3>1. offered.stepKey = MyRow.stepKey /\ offered.handle = MyRow.handle
        OBVIOUS
    <3> HIDE DEF offered
    <3>2. Apply(offered, Moved("needsChoice"))
        BY <2>5 DEF offered
    <3> QED
        BY <2>3, <3>1, <3>2
  <2> QED
      BY <1>3, <2>3, <2>4, <2>5 DEF SearchAnswers
<1>4. CASE StartThrows \/ LostDropEnds \/ StepFails
  <2>1. job.id \in Ids /\ (StepThrows \/ UNCHANGED rows)
      BY <1>4, StepEnds DEF StartThrows, LostDropEnds, StepFails, Waiting
  <2> QED
      BY <2>1, ThrowTells, StandingKeeps
<1>5. CASE PollAnswers
  <2>1. job.id \in Ids
      BY <1>5, StepEnds DEF PollAnswers, Waiting
  <2>2. SaveIfCurrent(MyRow) \/ \E event : SaveIfCurrent(After(MyRow, event))
      BY <1>5 DEF PollAnswers, Apply
  <2>3. Keeps(MyRow, MyRow) /\ \A event : Keeps(After(MyRow, event), MyRow)
      BY EventTells DEF Keeps
  <2> QED
      BY <2>1, <2>2, <2>3, AnswerTells
<1>6. CASE PollStalls
  <2> DEFINE failed == Stalled(MyRow)
  <2>1. job.pc = "poll" /\ job.id \in Ids
      BY <1>6, StepEnds DEF PollStalls, Waiting
  <2>2. Keeps(failed, MyRow)
      BY EventTells DEF Stalled
  <2>3. (Current /\ Save(job.id, BackToChoice(failed))) \/ SaveIfCurrent(failed)
      BY <1>6 DEF PollStalls
  <2>4. ASSUME Current PROVE BackToChoice(failed).handle = None /\ BackToChoice(failed).stepKey = None
    <3>1. RowFits(MyRow) /\ MyRow.status = "downloading"
        BY <1>6, <2>1, <2>4, MyRowIsSnap DEF Current, IInv, PollStalls
    <3>2. failed \in Rows
        BY <3>1, FailureFits DEF Stalled, Reasons, WorkingStatuses, RowFits
    <3> HIDE DEF failed
    <3>3. After(failed, PickAnother) =
            [failed EXCEPT !.status = "needsChoice", !.failedStep = None, !.reason = None]
        BY <3>2, AfterEvents
    <3> QED
        BY <3>2, <3>3 DEF BackToChoice, Rows
  <2> HIDE DEF failed
  <2>5. CASE SaveIfCurrent(failed)
      BY <2>1, <2>2, <2>5, AnswerTells
  <2>6. CASE Current /\ Save(job.id, BackToChoice(failed))
      BY <2>1, <2>4, <2>6, SavedKeeps DEF Current
  <2> QED
      BY <2>3, <2>5, <2>6
<1>7. CASE StalledDropEnds
  <2>1. job.id \in Ids
      BY <1>7, StepEnds DEF StalledDropEnds, Waiting
  <2> QED
      BY <1>7, <2>1, ChosenTells, SavedKeeps, StandingKeeps DEF StalledDropEnds, MyRow
<1>8. CASE ImportAnswers
  <2> DEFINE named == [MyRow EXCEPT !.result = job.snap.release, !.stepKey = None]
  <2>1. job.id \in Ids
      BY <1>8, StepEnds DEF ImportAnswers, Waiting
  <2>2. named.handle = MyRow.handle /\ (named.stepKey = None \/
            (named.stepKey = MyRow.stepKey /\ named.release = MyRow.release))
      OBVIOUS
  <2>3. Keeps(named, MyRow) /\ Keeps(After(MyRow, Failed("other")), MyRow)
      BY <2>2, EventTells DEF Keeps
  <2>4. SaveIfCurrent(named) \/ UNCHANGED rows \/ SaveIfCurrent(After(MyRow, Failed("other")))
      BY <1>8 DEF ImportAnswers, Apply
  <2> HIDE DEF named
  <2> QED
      BY <2>1, <2>3, <2>4, AnswerTells, StandingKeeps
<1> QED
    BY <1>1, <1>2, <1>3, <1>4, <1>5, <1>6, <1>7, <1>8

----------------------------------------------------------------------------
(* How a step changes what is asked and in turn                            *)

(* The cancel of what a row tells, or of a key alone, joins the turn.      *)
DropJoinsTurn ==
    \E call \in NamedCalls :
        /\ turn' = Append(turn, call) /\ asked' = asked \cup {call.key} /\ UNCHANGED torrents
        /\ call.kind = "cancel" /\ call.stage = "reading"
        /\ call.hash # None =>
               \E id \in Ids : Live(id) /\ Tells(rows[id], call.key, call.hash)

(* A start is over, or a cancel is done, and the next call is sent.        *)
HeadGoes ==
    /\ turn # <<>> /\ turn' = NextInTurn /\ UNCHANGED <<torrents, asked>>
    /\ SentCall.kind = "start" \/ SentCall.stage = "done"

DropKinds ==
    \/ RowsKeep /\ UNCHANGED <<torrents, turn, asked>>
    \/ RowsKeep /\ DropJoinsTurn
    \/ RowsKeep /\ HeadGoes
    \/ \E id \in Ids, key \in Keys : AskStart(id, key) \/ AskImport(id, key)
    \/ StartAnswers
    \/ Client

(* What a row is dropped by is what it tells.                              *)
LEMMA DropJoinsAs ==
    ASSUME NEW id \in Ids, Live(id), NEW row, RowFits(row),
           row.handle = rows[id].handle,
           NEW target \in {DropTarget(row), RetryDrops(row)},
           NEW by \in {"job", "person"}, NEW pick \in Releases \cup {None},
           AskDrop(id, target, by, pick), UNCHANGED torrents
    PROVE  UNCHANGED <<torrents, turn, asked>> \/ DropJoinsTurn
<1>1. CASE target = None
    BY <1>1 DEF AskDrop
<1>2. CASE target # None
  <2> DEFINE call == CancelCall(id, target, by, pick)
  <2>1. target \in Targets
      BY <1>2, TargetsNamed
  <2>2. target.hash = None \/ target = row.handle
      BY <1>2 DEF DropTarget, RetryDrops
  <2>3. /\ call \in NamedCalls /\ call.kind = "cancel" /\ call.stage = "reading"
        /\ call.key = target.key /\ call.hash = target.hash
      BY <2>1 DEF CancelCall, NamedCalls, Calls, Targets
  <2>4. turn' = Append(turn, call) /\ asked' = asked \cup {call.key}
      BY <1>2, <2>3 DEF AskDrop
  <2> HIDE DEF call
  <2> QED
      BY <1>2, <2>2, <2>3, <2>4 DEF DropJoinsTurn, Tells
<1> QED
    BY <1>1, <1>2

(* With every call answered, none refused and no restart, a call leaves    *)
(* the turn once it is done, or is a start.                                *)
LEMMA HeadGoesOn ==
    ASSUME MaxLate = 0, CancelsRefused = FALSE, IInv, InTime, turn # <<>>,
           turn' = NextInTurn, UNCHANGED <<torrents, asked>>,
           Sent("done") \/ Unanswered
    PROVE  HeadGoes
<1>1. ~(Cardinality(late) < MaxLate)
    BY NoneLate DEF InTime
<1> QED
    BY <1>1 DEF HeadGoes, Sent, Unanswered

(* What a person does is one of the kinds.                                 *)
LEMMA PeopleDrop ==
    ASSUME MaxLate = 0, CancelsRefused = FALSE, IInv, LostFits, InTime, PersonActs
    PROVE  DropKinds
<1>1. RowsKeep
    BY PeopleKeep
<1>2. ASSUME NEW id \in Ids, NEW person \in People,
             NEW replaced \in SUBSET MayGiveWay, Create(id, person, replaced)
      PROVE  DropKinds
    BY <1>1, <1>2 DEF Create, turnVars, DropKinds
<1>3. ASSUME NEW id \in Ids, NEW person \in People,
             NEW replaced \in SUBSET MayGiveWay, Join(id, person, replaced)
      PROVE  DropKinds
  <2> DEFINE joined == [rows[id] EXCEPT !.people = @ \cup Asking(person, replaced)]
  <2>1. Live(id) /\ RowFits(rows[id]) /\ rows[id] \in Rows
      BY <1>3, FailedStepKnown DEF Join
  <2>2. RowFits(joined) /\ joined.handle = rows[id].handle
      BY <2>1, AskingPeople DEF RowFits, Rows, Fitting, StepOf
  <2>3. /\ UNCHANGED torrents
        /\ UNCHANGED <<turn, asked>> \/ AskDrop(id, RetryDrops(joined), "person", None)
      BY <1>3 DEF Join
  <2> HIDE DEF joined
  <2> QED
      BY <1>1, <2>1, <2>2, <2>3, DropJoinsAs DEF DropKinds
<1>4. ASSUME NEW id \in Ids, NEW person \in People, CancelRequest(id, person)
      PROVE  DropKinds
  <2>1. Live(id) /\ RowFits(rows[id])
      BY <1>4, FailedStepKnown DEF CancelRequest
  <2>2. /\ UNCHANGED torrents
        /\ UNCHANGED <<turn, asked>> \/ AskDrop(id, DropTarget(rows[id]), "person", None)
      BY <1>4 DEF CancelRequest
  <2> QED
      BY <1>1, <2>1, <2>2, DropJoinsAs DEF DropKinds
<1>5. ASSUME NEW id \in Ids, RetryRequest(id)
      PROVE  DropKinds
  <2>1. /\ Live(id) /\ RowFits(rows[id]) /\ UNCHANGED torrents
        /\ AskDrop(id, RetryDrops(rows[id]), "person", None)
      BY <1>5, FailedStepKnown DEF RetryRequest
  <2> QED
      BY <1>1, <2>1, DropJoinsAs DEF DropKinds
<1>6. ASSUME NEW id \in Ids, NEW release \in Releases, ChooseRelease(id, release)
      PROVE  DropKinds
    BY <1>1, <1>6 DEF ChooseRelease, turnVars, DropKinds
<1>7. ASSUME NEW id \in Ids, NEW release \in Releases, ChooseAnother(id, release)
      PROVE  DropKinds
  <2>1. /\ Live(id) /\ RowFits(rows[id]) /\ UNCHANGED torrents
        /\ AskDrop(id, DropTarget(rows[id]), "person", release)
      BY <1>7, FailedStepKnown DEF ChooseAnother
  <2> QED
      BY <1>1, <2>1, DropJoinsAs DEF DropKinds
<1>8. ASSUME PersonDropEnds
      PROVE  DropKinds
  <2>1. HeadGoes
      BY <1>8, HeadGoesOn DEF PersonDropEnds
  <2> QED
      BY <1>1, <2>1 DEF DropKinds
<1> QED
    BY <1>2, <1>3, <1>4, <1>5, <1>6, <1>7, <1>8 DEF PersonActs

(* What the job does is one of the kinds.                                  *)
LEMMA JobDrops ==
    ASSUME MaxLate = 0, CancelsRefused = FALSE, IInv, InTime, JobActs
    PROVE  DropKinds
<1>1. ASSUME \/ BeginRun \/ EndRun \/ SearchAnswers \/ PollAnswers \/ ImportAnswers \/ StepFails
             \/ \E id \in Ids : \/ PassOver(id) \/ BeginSearching(id) \/ AskSearch(id)
                                \/ IndexAnswers(id) \/ AskPoll(id)
      PROVE  DropKinds
  <2>1. UNCHANGED turnVars /\ UNCHANGED asked
      BY <1>1 DEF BeginRun, EndRun, SearchAnswers, PollAnswers, ImportAnswers, StepFails,
         PassOver, BeginSearching, AskSearch, IndexAnswers, AskPoll
  <2>2. RowsKeep
      BY <1>1, AnswersKeep
  <2> QED
      BY <2>1, <2>2 DEF turnVars, DropKinds
<1>2. ASSUME StartThrows \/ LostDropEnds \/ StalledDropEnds
      PROVE  DropKinds
  <2>1. RowsKeep
      BY <1>2, AnswersKeep
  <2>2. HeadGoes
      BY <1>2, HeadGoesOn DEF StartThrows, LostDropEnds, StalledDropEnds
  <2> QED
      BY <2>1, <2>2 DEF DropKinds
<1>3. ASSUME PollStalls
      PROVE  DropKinds
  <2> DEFINE failed == Stalled(MyRow)
  <2>1. RowsKeep
      BY <1>3, AnswersKeep
  <2>2. job.pc = "poll" /\ job.id \in Ids /\ UNCHANGED torrents
      BY <1>3, StepEnds DEF PollStalls, Waiting
  <2>3. CASE Current /\ MayStartAnother(failed)
    <3>1. PICK following \in OtherReleases(failed) :
              AskDrop(job.id, DropTarget(failed), "job", following)
        BY <1>3, <2>3 DEF PollStalls
    <3>2. Live(job.id) /\ RowFits(MyRow) /\ MyRow.status = "downloading"
        BY <1>3, <2>2, <2>3, MyRowIsSnap DEF Current, IInv, PollStalls
    <3>3. RowFits(failed) /\ failed \in Rows
        BY <3>2, FailureFits DEF Stalled, Reasons, WorkingStatuses, RowFits
    <3>4. failed.handle = rows[job.id].handle
        BY EventTells DEF Stalled, MyRow
    <3>5. following \in Releases
        BY <3>3 DEF OtherReleases, Rows
    <3>0. PICK id \in Ids : id = job.id
        BY <2>2
    <3> HIDE DEF failed
    <3> QED
        BY <2>1, <2>2, <3>0, <3>1, <3>2, <3>3, <3>4, <3>5, DropJoinsAs DEF DropKinds
  <2>4. CASE ~(Current /\ MayStartAnother(failed))
    <3>1. UNCHANGED <<turn, asked>>
        BY <1>3, <2>4 DEF PollStalls
    <3> QED
        BY <2>1, <2>2, <3>1 DEF DropKinds
  <2> QED
      BY <2>3, <2>4
<1> QED
    BY <1>1, <1>2, <1>3 DEF JobActs, DropKinds

(* Every step is one of the kinds.                                         *)
LEMMA StepDropKinds ==
    ASSUME MaxLate = 0, CancelsRefused = FALSE, MaxCrashes = 0,
           IInv, LostFits, InTime, [Next]_vars
    PROVE  DropKinds
<1>1. ~Crash
    BY DEF Crash, IInv
<1>2. UNCHANGED vars => RowsKeep /\ UNCHANGED <<torrents, turn, asked>>
    BY StandingKeeps DEF vars, turnVars
<1> QED
    BY <1>1, <1>2, PeopleDrop, JobDrops DEF Next, DropKinds

----------------------------------------------------------------------------
(* What is dropped, step by step                                           *)

(* Where one more call stands in a turn.                                   *)
LEMMA JoinsLast ==
    ASSUME NEW S, NEW calls \in Seq(S), NEW call \in S
    PROVE  \E n \in Nat :
             /\ DOMAIN Append(calls, call) = DOMAIN calls \cup {n} /\ n \notin DOMAIN calls
             /\ Append(calls, call)[n] = call
             /\ \A i \in DOMAIN calls : i \in Nat /\ i < n /\ Append(calls, call)[i] = calls[i]
             /\ (n = 1 <=> calls = <<>>)
<1> DEFINE more == Append(calls, call)
           n    == Len(calls) + 1
<1>1. /\ more \in Seq(S) /\ Len(more) = n /\ Len(calls) \in Nat
      /\ \A i \in 1..Len(calls) : more[i] = calls[i]
      /\ more[n] = call
    BY AppendProperties, LenProperties
<1>2. DOMAIN more = 1..n /\ DOMAIN calls = 1..Len(calls)
    BY <1>1, CallsInTurn
<1>3. calls = <<>> <=> Len(calls) = 0
    BY EmptySeq, LenProperties
<1>4. DOMAIN more = DOMAIN calls \cup {n} /\ n \notin DOMAIN calls /\ n \in Nat
    BY <1>1, <1>2
<1>5. \A i \in DOMAIN calls : i \in Nat /\ i < n /\ more[i] = calls[i]
    BY <1>1, <1>2
<1>6. n = 1 <=> calls = <<>>
    BY <1>1, <1>3
<1> HIDE DEF n
<1> QED
    BY <1>1, <1>4, <1>5, <1>6 DEF more

(* Where the calls stand once the head has left.                           *)
LEMMA MoveUp ==
    ASSUME NEW S, NEW calls \in Seq(S), calls # <<>>
    PROVE  /\ \A i \in DOMAIN Tail(calls) :
                  /\ i \in Nat /\ i + 1 \in DOMAIN calls /\ i + 1 # 1
                  /\ Tail(calls)[i] = calls[i + 1]
           /\ \A i \in DOMAIN calls :
                  i \in Nat /\ (i # 1 => \E k \in DOMAIN Tail(calls) : i = k + 1)
           /\ 1 \in DOMAIN calls /\ Head(calls) = calls[1] /\ \A i \in DOMAIN calls : 1 <= i
<1>1. /\ Tail(calls) \in Seq(S) /\ Len(Tail(calls)) = Len(calls) - 1 /\ Len(calls) \in Nat
      /\ \A i \in 1..Len(Tail(calls)) : Tail(calls)[i] = calls[i + 1]
      /\ Head(calls) = calls[1] /\ Len(calls) # 0
    BY HeadTailProperties, LenProperties, EmptySeq
<1>2. DOMAIN Tail(calls) = 1..Len(Tail(calls)) /\ DOMAIN calls = 1..Len(calls)
    BY <1>1, CallsInTurn
<1>3. ASSUME NEW i \in DOMAIN calls, i # 1
      PROVE  i - 1 \in DOMAIN Tail(calls) /\ i = (i - 1) + 1
    BY <1>1, <1>2, <1>3
<1> QED
    BY <1>1, <1>2, <1>3

(* The head as it gets on.                                                 *)
LEMMA HeadAlone ==
    ASSUME NEW S, NEW calls \in Seq(S), calls # <<>>, NEW call
    PROVE  /\ DOMAIN [calls EXCEPT ![1] = call] = DOMAIN calls
           /\ [calls EXCEPT ![1] = call][1] = call
           /\ \A i \in DOMAIN calls : i # 1 => [calls EXCEPT ![1] = call][i] = calls[i]
  BY MoveUp

(* Nobody is told two hashes of one key where nothing new is carried.      *)
LEMMA HashesKept ==
    ASSUME OfOneHash,
           \A key \in Keys, h \in Releases : Carried(key, h)' => Carried(key, h),
           \A id \in Ids, key \in Keys, g \in Releases : Live(id)' /\ Tells(rows'[id], key, g) =>
               \/ Live(id) /\ Tells(rows[id], key, g)
               \/ \A h \in Releases : Carried(key, h) => g = h,
           \A call \in CallsOf(turn)' :
               \/ \E other \in CallsOf(turn) : Like(call, other) /\ call.hash = other.hash
               \/ \A h \in Releases : Carried(call.key, h) =>
                     call.hash = h \/ (call.kind = "cancel" /\ call.hash = None)
    PROVE  OfOneHash'
<1> SUFFICES ASSUME NEW key \in Keys, NEW h \in Releases, Carried(key, h)'
             PROVE  /\ \A id \in Ids, g \in Releases : Live(id)' /\ Tells(rows'[id], key, g) => g = h
                    /\ \A call \in CallsOf(turn)' : call.key = key =>
                           call.hash = h \/ (call.kind = "cancel" /\ call.hash = None)
    BY DEF OfOneHash, Tells
<1>1. Carried(key, h)
    OBVIOUS
<1>2. ASSUME NEW id \in Ids, NEW g \in Releases, Live(id)', Tells(rows'[id], key, g)
      PROVE  g = h
    BY <1>1, <1>2 DEF OfOneHash
<1>3. ASSUME NEW call \in CallsOf(turn)', call.key = key
      PROVE  call.hash = h \/ (call.kind = "cancel" /\ call.hash = None)
    BY <1>1, <1>3 DEF OfOneHash, Like
<1> QED
    BY <1>2, <1>3

(* What rows tell where they keep what they had.                           *)
LEMMA KeepTells ==
    ASSUME RowsKeep
    PROVE  \A id \in Ids, key \in Keys, g \in Releases : Live(id)' /\ Tells(rows'[id], key, g) =>
               Live(id) /\ Tells(rows[id], key, g)
  BY KeptTells

(* No row names what is asked, where rows keep what they had and what is   *)
(* asked anew has its cancel in turn.                                      *)
LEMMA AskedStaysUnnamed ==
    ASSUME IInv, AskedUnnamed, RowsKeep, DropsUnnamed',
           \A key \in asked' : \/ key \in asked
                               \/ \E call \in CallsOf(turn)' : call.kind = "cancel" /\ call.key = key
    PROVE  AskedUnnamed'
<1>1. ASSUME NEW key \in asked', NEW id \in Ids, Live(id)', Names(rows'[id], key)
      PROVE  FALSE
  <2>1. CASE key \in asked
    <3>1. key \in Keys
        BY <2>1 DEF IInv
    <3> QED
        BY <1>1, <2>1, <3>1, KeptTells DEF AskedUnnamed
  <2>2. CASE \E call \in CallsOf(turn)' : call.kind = "cancel" /\ call.key = key
      BY <1>1, <2>2 DEF DropsUnnamed
  <2> QED
      BY <1>1, <2>1, <2>2
<1> QED
    BY <1>1 DEF AskedUnnamed, Names

(* Nothing asked or in turn changes.                                       *)
LEMMA QuietDrops ==
    ASSUME IInv, KeyInv', DropInv, late' = {}, UNCHANGED <<torrents, turn>>, asked' \subseteq asked,
           OfOneHash', AskedUnnamed'
    PROVE  DropInv'
<1>1. DropsDue'
  <2>1. \A key : (InUse(key)' => InUse(key)) /\ (Due(key) => Due(key)')
      BY DEF InUse, Due, DropInv, InTime, CallsOf
  <2> QED
      BY <2>1 DEF DropInv, DropsDue
<1>2. InTime'
    BY DEF DropInv, InTime
<1> QED
    BY <1>1, <1>2 DEF DropInv

(* Rows keep what they had, and nothing is asked.                          *)
LEMMA StandingDrops ==
    ASSUME IInv, KeyInv', DropInv, late' = {}, RowsKeep, UNCHANGED <<torrents, turn, asked>>
    PROVE  DropInv'
<1>1. /\ \A key, h : Carried(key, h)' <=> Carried(key, h)
      /\ CallsOf(turn)' = CallsOf(turn)
    BY DEF Carried, CallsOf
<1>2. OfOneHash'
    BY <1>1, KeepTells, HashesKept DEF DropInv, Like
<1>3. AskedUnnamed'
    BY AskedStaysUnnamed DEF DropInv, KeyInv
<1> QED
    BY <1>2, <1>3, QuietDrops

(* A cancel joins the turn.                                                *)
LEMMA JoinDrops ==
    ASSUME IInv, KeyInv', DropInv, late' = {}, RowsKeep, DropJoinsTurn
    PROVE  DropInv'
<1>1. PICK call \in NamedCalls :
        /\ turn' = Append(turn, call) /\ asked' = asked \cup {call.key} /\ UNCHANGED torrents
        /\ call.kind = "cancel" /\ call.stage = "reading"
        /\ call.hash # None =>
               \E id \in Ids : Live(id) /\ Tells(rows[id], call.key, call.hash)
    BY DEF DropJoinsTurn
<1>2. call.key \in Keys /\ call.hash \in Releases \cup {None} /\ turn \in Seq(NamedCalls)
    BY DEF NamedCalls, Calls, IInv, TurnFits
<1>3. PICK n \in Nat :
        /\ DOMAIN turn' = DOMAIN turn \cup {n} /\ n \notin DOMAIN turn /\ turn'[n] = call
        /\ \A i \in DOMAIN turn : i \in Nat /\ i < n /\ turn'[i] = turn[i]
    BY <1>1, <1>2, JoinsLast
<1>4. CallsOf(turn)' = CallsOf(turn) \cup {call}
    BY <1>3 DEF CallsOf
<1>5. \A key, h : Carried(key, h)' => Carried(key, h)
    BY <1>1, <1>4 DEF Carried
<1>6. OfOneHash'
  <2>1. \A h \in Releases : Carried(call.key, h) => call.hash = h \/ call.hash = None
      BY <1>1, <1>2 DEF DropInv, OfOneHash
  <2> QED
      BY <1>1, <1>4, <1>5, <2>1, KeepTells, HashesKept DEF DropInv, Like
<1>7. AskedUnnamed'
    BY <1>1, <1>4, AskedStaysUnnamed DEF DropInv, KeyInv
<1>8. DropsDue'
  <2> SUFFICES ASSUME NEW key \in asked', InUse(key)' PROVE Due(key)'
      BY DEF DropsDue
  <2>1. CASE key = call.key
    <3>1. /\ n \in DOMAIN turn'
          /\ \A j \in DOMAIN turn' : turn'[j].kind = "start" => j < n
        BY <1>1, <1>3
    <3> QED
        BY <1>1, <1>3, <2>1, <3>1 DEF Due
  <2>2. CASE key # call.key
    <3>1. InUse(key) /\ key \in asked
        BY <1>1, <1>4, <2>2 DEF InUse, DropInv, InTime
    <3>2. PICK i \in DOMAIN turn :
            /\ turn[i].kind = "cancel" /\ turn[i].key = key
            /\ \A j \in DOMAIN turn : turn[j].kind = "start" /\ turn[j].key = key => j < i
            /\ turn[i].stage = "writing" => \A h \in Releases : torrents[h] = key => h \in turn[i].found
            /\ turn[i].stage = "done" => \A h \in Releases : torrents[h] # key
        BY <3>1 DEF DropInv, DropsDue, Due
    <3>3. i \in DOMAIN turn'
        BY <1>3
    <3> QED
        BY <1>1, <1>3, <3>2, <3>3 DEF Due
  <2> QED
      BY <2>1, <2>2
<1>9. InTime'
    BY <1>1, <1>3 DEF DropInv, InTime
<1> QED
    BY <1>6, <1>7, <1>8, <1>9 DEF DropInv

(* A cancel in turn after every start under its key stays so as the turn   *)
(* goes on, until it is done.                                              *)
LEMMA DueGoesOn ==
    ASSUME IInv, DropInv, late' = {}, turn # <<>>, UNCHANGED torrents,
           SentCall.kind = "start" \/ SentCall.stage = "done",
           \A k \in DOMAIN NextInTurn : k \in DOMAIN turn' /\ turn'[k] = NextInTurn[k],
           \A k \in DOMAIN turn' : turn'[k].kind = "start" => k \in DOMAIN NextInTurn,
           NEW key \in asked, InUse(key)'
    PROVE  Due(key)'
<1>1. /\ \A i \in DOMAIN NextInTurn :
             /\ i \in Nat /\ i + 1 \in DOMAIN turn /\ i + 1 # 1
             /\ NextInTurn[i] = turn[i + 1]
      /\ \A i \in DOMAIN turn :
             i \in Nat /\ (i # 1 => \E k \in DOMAIN NextInTurn : i = k + 1)
      /\ SentCall = turn[1] /\ \A i \in DOMAIN turn : 1 <= i
    BY MoveUp DEF IInv, TurnFits, NextInTurn, SentCall
<1>2. \A k \in DOMAIN turn' : turn'[k].kind = "start" => k + 1 \in DOMAIN turn /\ turn'[k] = turn[k + 1]
    BY <1>1
<1>3. InUse(key)
    BY <1>2 DEF InUse, CallsOf
<1>4. PICK i \in DOMAIN turn :
        /\ turn[i].kind = "cancel" /\ turn[i].key = key
        /\ \A j \in DOMAIN turn : turn[j].kind = "start" /\ turn[j].key = key => j < i
        /\ turn[i].stage = "writing" => \A h \in Releases : torrents[h] = key => h \in turn[i].found
        /\ turn[i].stage = "done" => \A h \in Releases : torrents[h] # key
    BY <1>3 DEF DropInv, DropsDue, Due
<1>5. i # 1
  <2> SUFFICES ASSUME i = 1 PROVE FALSE
      OBVIOUS
  <2>1. \A h \in Releases : torrents[h] # key
      BY <1>1, <1>4
  <2>2. PICK k \in DOMAIN turn' : turn'[k].kind = "start" /\ turn'[k].key = key
      BY <2>1 DEF InUse, CallsOf
  <2>3. k + 1 < 1 /\ k \in Nat
      BY <1>1, <1>2, <1>4, <2>2
  <2> QED
      BY <2>3
<1>6. PICK k \in DOMAIN NextInTurn : i = k + 1
    BY <1>1, <1>5
<1>7. k \in DOMAIN turn' /\ turn'[k] = turn[i]
    BY <1>1, <1>6
<1>8. ASSUME NEW j \in DOMAIN turn', turn'[j].kind = "start", turn'[j].key = key
      PROVE  j < k
  <2>1. j \in Nat /\ k \in Nat /\ j + 1 < i
      BY <1>1, <1>2, <1>4, <1>6, <1>8
  <2> QED
      BY <1>6, <2>1
<1> QED
    BY <1>4, <1>7, <1>8 DEF Due

(* The head leaves, and what is left is asked as it was.                   *)
LEMMA GoDrops ==
    ASSUME IInv, KeyInv', DropInv, late' = {}, HeadGoes,
           AskedUnnamed',
           \A id \in Ids, key \in Keys, g \in Releases : Live(id)' /\ Tells(rows'[id], key, g) =>
               \/ Live(id) /\ Tells(rows[id], key, g)
               \/ \A h \in Releases : Carried(key, h) => g = h
    PROVE  DropInv'
<1>1. /\ turn # <<>> /\ turn' = NextInTurn /\ UNCHANGED <<torrents, asked>>
      /\ SentCall.kind = "start" \/ SentCall.stage = "done"
      /\ turn \in Seq(NamedCalls)
    BY DEF HeadGoes, IInv, TurnFits
<1>2. \A i \in DOMAIN turn' : /\ i \in Nat /\ i + 1 \in DOMAIN turn /\ i + 1 # 1
                              /\ turn'[i] = turn[i + 1]
    BY <1>1, MoveUp DEF NextInTurn
<1>3. \A call \in CallsOf(turn)' : call \in CallsOf(turn)
    BY <1>2 DEF CallsOf
<1>4. OfOneHash'
  <2>1. \A key, h : Carried(key, h)' => Carried(key, h)
      BY <1>1, <1>3 DEF Carried
  <2> QED
      BY <1>3, <2>1, HashesKept DEF DropInv, Like
<1>5. DropsDue'
    BY <1>1, DueGoesOn DEF DropsDue
<1>6. InTime'
    BY <1>2 DEF DropInv, InTime
<1> QED
    BY <1>4, <1>5, <1>6 DEF DropInv

(* The head leaves, and rows keep what they had.                           *)
LEMMA LeaveDrops ==
    ASSUME IInv, KeyInv', DropInv, late' = {}, RowsKeep, HeadGoes
    PROVE  DropInv'
<1>1. AskedUnnamed'
    BY AskedStaysUnnamed DEF DropInv, KeyInv, HeadGoes
<1> QED
    BY <1>1, KeepTells, GoDrops

(* A start's answer is saved, or its download dropped.                     *)
LEMMA StartAnswersDrops ==
    ASSUME IInv, KeyInv, KeyInv', DropInv, late' = {}, StartAnswers
    PROVE  DropInv'
<1> DEFINE handle == [hash |-> SentCall.hash, key |-> SentCall.key]
<1>1. /\ job.pc = "start" /\ job.id \in Ids /\ turn # <<>> /\ SentCall.kind = "start"
      /\ SentCall.stage = "done" /\ UNCHANGED torrents
    BY StepEnds DEF StartAnswers, Waiting, Sent
<1>2. SentCall \in NamedCalls /\ NextInTurn \in Seq(NamedCalls) /\ turn \in Seq(NamedCalls)
    BY <1>1, TurnGoesOn DEF IInv, TurnFits
<1>3. SentCall.key \in Keys /\ SentCall.hash \in Releases
    BY <1>1, <1>2 DEF NamedCalls, Calls
<1>4. SentCall \in CallsOf(turn) /\ SentCall.key = job.snap.stepKey
    BY <1>1, HeadLeaves DEF IInv, TurnFits, KeyInv, SentCall, JobsCalls
<1>5. \A h \in Releases : Carried(SentCall.key, h) => SentCall.hash = h
    BY <1>1, <1>3, <1>4 DEF DropInv, OfOneHash
<1>6. handle.hash = SentCall.hash /\ handle.key = SentCall.key
    OBVIOUS
<1> HIDE DEF handle
<1>7. CASE Current
  <2> DEFINE row == [MyRow EXCEPT !.handle = handle, !.stepKey = None]
  <2>1. Save(job.id, row) /\ HeadGoes
      BY <1>1, <1>7 DEF StartAnswers, HeadGoes, handle
  <2>2. Live(job.id) /\ MyRow \in Rows /\ MyRow.stepKey = SentCall.key
      BY <1>1, <1>4, <1>7, MyKeyIsSnaps, MyRowIsSnap DEF Current, IInv, RowFits
  <2>3. row.stepKey = None /\ row.handle = handle
      BY <2>2 DEF Rows
  <2> HIDE DEF row
  <2>4. /\ rows'[job.id].stepKey = None /\ rows'[job.id].handle = handle
        /\ \A other \in Ids : other # job.id => rows'[other] = rows[other]
    <3>1. /\ rows'[job.id] = Saved(job.id, row)
          /\ \A other \in Ids : other # job.id => rows'[other] = rows[other]
        BY <1>1, <2>1 DEF Save, IInv, RowsFit
    <3> QED
        BY <2>3, <3>1 DEF Saved
  <2>5. AskedUnnamed'
    <3>1. ASSUME NEW key \in asked, NEW id \in Ids, Live(id)', Names(rows'[id], key)
          PROVE  FALSE
      <4>1. key \in Keys
          BY DEF IInv
      <4>2. CASE id = job.id
        <5>1. key = SentCall.key
            BY <1>6, <2>4, <3>1, <4>1, <4>2, TurnConstants DEF Names
        <5>2. Names(rows[job.id], key)
            BY <2>2, <5>1 DEF Names, MyRow
        <5> QED
            BY <1>1, <2>2, <5>2 DEF DropInv, AskedUnnamed
      <4>3. CASE id # job.id
          BY <2>4, <3>1, <4>3 DEF DropInv, AskedUnnamed, Live
      <4> QED
          BY <4>2, <4>3
    <3> QED
        BY <2>1, <3>1 DEF AskedUnnamed, Names, HeadGoes
  <2>6. ASSUME NEW id \in Ids, NEW key \in Keys, NEW g \in Releases, Live(id)', Tells(rows'[id], key, g)
        PROVE  \/ Live(id) /\ Tells(rows[id], key, g)
               \/ \A h \in Releases : Carried(key, h) => g = h
    <3>1. CASE id = job.id
      <4>1. key = SentCall.key /\ g = SentCall.hash
          BY <1>6, <2>4, <2>6, <3>1, TurnConstants DEF Tells
      <4> QED
          BY <1>5, <4>1
    <3>2. CASE id # job.id
        BY <2>4, <2>6, <3>2 DEF Live
    <3> QED
        BY <3>1, <3>2
  <2> QED
      BY <2>1, <2>5, <2>6, GoDrops
<1>8. CASE ~Current
  <2> DEFINE drop == CancelCall(job.id, handle, "job", None)
  <2>1. /\ turn' = Append(NextInTurn, drop) /\ asked' = asked \cup {handle.key} /\ UNCHANGED rows
      BY <1>8 DEF StartAnswers, handle
  <2>2. /\ drop \in NamedCalls /\ drop.kind = "cancel" /\ drop.stage = "reading"
        /\ drop.key = SentCall.key /\ drop.hash = SentCall.hash
      BY <1>1, <1>3, <1>6 DEF CancelCall, NamedCalls, Calls
  <2> HIDE DEF drop
  <2>3. PICK n \in Nat :
          /\ DOMAIN turn' = DOMAIN NextInTurn \cup {n} /\ n \notin DOMAIN NextInTurn /\ turn'[n] = drop
          /\ \A i \in DOMAIN NextInTurn : i \in Nat /\ i < n /\ turn'[i] = NextInTurn[i]
      BY <1>2, <2>1, <2>2, JoinsLast
  <2>4. \A i \in DOMAIN NextInTurn : /\ i \in Nat /\ i + 1 \in DOMAIN turn /\ i + 1 # 1
                                     /\ NextInTurn[i] = turn[i + 1]
      BY <1>1, <1>2, MoveUp DEF NextInTurn
  <2>5. \A call \in CallsOf(turn)' : call \in CallsOf(turn) \/ call = drop
      BY <2>3, <2>4 DEF CallsOf
  <2>6. OfOneHash'
    <3>1. \A key, h : Carried(key, h)' => Carried(key, h)
        BY <1>1, <2>2, <2>5 DEF Carried
    <3>2. \A id \in Ids, key \in Keys, g \in Releases : Live(id)' /\ Tells(rows'[id], key, g) =>
              Live(id) /\ Tells(rows[id], key, g)
        BY <2>1 DEF Live
    <3> QED
        BY <1>5, <2>2, <2>5, <3>1, <3>2, HashesKept DEF DropInv, Like
  <2>7. RowsKeep /\ drop \in CallsOf(turn)'
      BY <2>1, <2>3, StandingKeeps DEF CallsOf
  <2>8. AskedUnnamed'
      BY <1>6, <2>1, <2>2, <2>7, AskedStaysUnnamed DEF DropInv, KeyInv
  <2>9. DropsDue'
    <3> SUFFICES ASSUME NEW key \in asked', InUse(key)' PROVE Due(key)'
        BY DEF DropsDue
    <3>1. CASE key = drop.key
      <4>1. /\ n \in DOMAIN turn'
            /\ \A j \in DOMAIN turn' : turn'[j].kind = "start" => j < n
          BY <2>2, <2>3
      <4> QED
          BY <2>2, <2>3, <3>1, <4>1 DEF Due
    <3>2. CASE key # drop.key
      <4>1. key \in asked
          BY <1>6, <2>1, <2>2, <3>2
      <4> QED
          BY <1>1, <2>2, <2>3, <4>1, DueGoesOn
    <3> QED
        BY <3>1, <3>2
  <2>10. InTime'
      BY <2>2, <2>3, <2>4 DEF DropInv, InTime
  <2> QED
      BY <2>6, <2>8, <2>9, <2>10 DEF DropInv
<1> QED
    BY <1>7, <1>8

(* A step's key is new and nobody's, or one its row had, and not asked to  *)
(* be dropped.                                                             *)
LEMMA KeyedTells ==
    ASSUME IInv, KeyInv, DropInv, NEW id \in Ids, NEW key \in Keys, Live(id), Keyed(id, key)
    PROVE  /\ asked' \subseteq asked /\ key \notin asked' /\ AskedUnnamed'
           /\ rows'[id].release = rows[id].release
           /\ \/ \A h \in Releases : ~Carried(key, h)
              \/ Tells(rows[id], key, rows[id].release)
           /\ \A other \in Ids, k \in Keys, g \in Releases : Live(other)' /\ Tells(rows'[other], k, g) =>
                  \/ Live(other) /\ Tells(rows[other], k, g)
                  \/ k = key /\ \A h \in Releases : ~Carried(key, h)
<1>1. CASE rows[id].stepKey = None
  <2> DEFINE row == [rows[id] EXCEPT !.stepKey = key]
  <2>1. row.stepKey = key /\ row.handle = rows[id].handle /\ row.release = rows[id].release
      BY FailedStepKnown DEF Rows
  <2>2. NewKey(key) /\ Save(id, row) /\ asked' = asked \ {key}
      BY <1>1 DEF Keyed
  <2> HIDE DEF row
  <2>3. /\ rows'[id] = Saved(id, row)
        /\ \A other \in Ids : other # id => rows'[other] = rows[other]
      BY <2>2 DEF Save, IInv, RowsFit
  <2>4. /\ rows'[id].stepKey = key /\ rows'[id].handle = rows[id].handle
        /\ rows'[id].release = rows[id].release
      BY <2>1, <2>3 DEF Saved
  <2>5. \A h \in Releases : ~Carried(key, h)
      BY <2>2, NewIsNobodys DEF Carried
  <2>6. ASSUME NEW other \in Ids, NEW k \in Keys, NEW g \in Releases,
               Live(other)', Tells(rows'[other], k, g), k # key
        PROVE  Live(other) /\ Tells(rows[other], k, g)
      BY <2>3, <2>4, <2>6 DEF Tells, Live
  <2>7. ASSUME NEW k \in asked', NEW other \in Ids, Live(other)', Names(rows'[other], k)
        PROVE  FALSE
      BY <2>2, <2>3, <2>4, <2>7 DEF DropInv, AskedUnnamed, Names, Live
  <2> QED
      BY <2>2, <2>4, <2>5, <2>6, <2>7 DEF AskedUnnamed, Names
<1>2. CASE rows[id].stepKey # None
  <2>1. key = rows[id].stepKey /\ UNCHANGED <<rows, asked>>
      BY <1>2 DEF Keyed
  <2>2. Names(rows[id], key) /\ Tells(rows[id], key, rows[id].release)
      BY <2>1 DEF Names, Tells
  <2>3. key \notin asked /\ AskedUnnamed'
      BY <2>1, <2>2 DEF DropInv, AskedUnnamed, Names, Live
  <2> QED
      BY <2>1, <2>2, <2>3 DEF Live
<1> QED
    BY <1>1, <1>2

(* An import is asked for under its key.                                   *)
LEMMA AskImportDrops ==
    ASSUME IInv, KeyInv, KeyInv', DropInv, late' = {},
           NEW id \in Ids, NEW key \in Keys, AskImport(id, key)
    PROVE  DropInv'
<1>1. Live(id) /\ Keyed(id, key) /\ UNCHANGED <<torrents, turn>>
    BY DEF AskImport, StepFrom, turnVars
<1>2. /\ asked' \subseteq asked /\ AskedUnnamed'
      /\ \A other \in Ids, k \in Keys, g \in Releases : Live(other)' /\ Tells(rows'[other], k, g) =>
             \/ Live(other) /\ Tells(rows[other], k, g)
             \/ k = key /\ \A h \in Releases : ~Carried(key, h)
    BY <1>1, KeyedTells
<1>3. /\ \A k, h : Carried(k, h)' <=> Carried(k, h)
      /\ CallsOf(turn)' = CallsOf(turn)
    BY <1>1 DEF Carried, CallsOf
<1>4. OfOneHash'
    BY <1>2, <1>3, HashesKept DEF DropInv, Like
<1> QED
    BY <1>1, <1>2, <1>4, QuietDrops

(* A start is asked for under a key that is in use for its release alone.  *)
LEMMA AskStartDrops ==
    ASSUME IInv, KeyInv, KeyInv', DropInv, late' = {},
           NEW id \in Ids, NEW key \in Keys, AskStart(id, key)
    PROVE  DropInv'
<1> DEFINE release == rows[id].release
           call    == StartCall(id, release, key)
<1>1. /\ Live(id) /\ Keyed(id, key) /\ job.pc = "run" /\ UNCHANGED torrents
      /\ rows[id].handle = None /\ turn' = Append(turn, call)
    BY DEF AskStart, Turning
<1>2. release \in Releases
  <2>1. RowFits(rows[id]) /\ rows[id] \in Rows /\ rows[id].status \in {"queued", "downloading"}
      BY FailedStepKnown DEF AskStart
  <2> QED
      BY <2>1 DEF RowFits, Fitting, StepOf, Rows
<1>3. /\ call \in NamedCalls /\ call.kind = "start" /\ call.key = key /\ call.hash = release
      /\ call.stage = "reading" /\ turn \in Seq(NamedCalls)
    BY <1>2, TurnConstants DEF StartCall, NamedCalls, Calls, IInv, TurnFits
<1> HIDE DEF call
<1>4. PICK n \in Nat :
        /\ DOMAIN turn' = DOMAIN turn \cup {n} /\ n \notin DOMAIN turn /\ turn'[n] = call
        /\ \A i \in DOMAIN turn : i \in Nat /\ i < n /\ turn'[i] = turn[i]
    BY <1>1, <1>3, JoinsLast
<1>5. CallsOf(turn)' = CallsOf(turn) \cup {call}
    BY <1>4 DEF CallsOf
<1>6. /\ asked' \subseteq asked /\ key \notin asked' /\ AskedUnnamed'
      /\ rows'[id].release = release
      /\ (\A h \in Releases : ~Carried(key, h)) \/ Tells(rows[id], key, release)
      /\ \A other \in Ids, k \in Keys, g \in Releases : Live(other)' /\ Tells(rows'[other], k, g) =>
             \/ Live(other) /\ Tells(rows[other], k, g)
             \/ k = key /\ \A h \in Releases : ~Carried(key, h)
    BY <1>1, KeyedTells
<1>7. /\ Live(id)' /\ rows'[id].stepKey = key /\ rows'[id].handle = None
      /\ \A other \in Ids : Live(other)' /\ Names(rows'[other], key) => other = id
      /\ \A other \in late \cup CallsOf(turn) : other.kind = "cancel" =>
             \A i \in Ids : Live(i)' => ~Names(rows'[i], other.key)
    BY <1>1, KeyedNames
<1> HIDE DEF release
<1>8. \A k \in Keys, h \in Releases : Carried(k, h)' => Carried(k, h) \/ (k = key /\ h = release)
    BY <1>1, <1>3, <1>5 DEF Carried
<1>9. \A other \in CallsOf(turn) : other.key # key
  <2>1. \A other \in CallsOf(turn) : other.kind = "cancel"
      BY <1>1, CallsInTurn DEF KeyInv, JobsCalls, IInv, TurnFits, NamedCalls, Calls
  <2> QED
      BY <1>7, <2>1 DEF Names
<1>10. OfOneHash'
  <2> SUFFICES ASSUME NEW k \in Keys, NEW h \in Releases, Carried(k, h)'
               PROVE  /\ \A i \in Ids, g \in Releases : Live(i)' /\ Tells(rows'[i], k, g) => g = h
                      /\ \A other \in CallsOf(turn)' : other.key = k =>
                             other.hash = h \/ (other.kind = "cancel" /\ other.hash = None)
      BY DEF OfOneHash, Tells
  <2>1. CASE k # key
    <3>1. Carried(k, h)
        BY <1>8, <2>1
    <3> QED
        BY <1>3, <1>5, <1>6, <2>1, <3>1 DEF DropInv, OfOneHash
  <2>2. CASE k = key
    <3>1. h = release
      <4>1. Carried(key, h) => Tells(rows[id], key, release)
          BY <1>6
      <4> QED
          BY <1>1, <1>2, <1>8, <2>2, <4>1 DEF DropInv, OfOneHash
    <3>2. ASSUME NEW i \in Ids, NEW g \in Releases, Live(i)', Tells(rows'[i], key, g)
          PROVE  g = release
      <4>1. Names(rows'[i], key)
          BY <3>2 DEF Names, Tells
      <4> QED
          BY <1>6, <1>7, <3>2, <4>1 DEF Tells
    <3> QED
        BY <1>3, <1>5, <1>9, <2>2, <3>1, <3>2
  <2> QED
      BY <2>1, <2>2
<1>11. DropsDue'
  <2> SUFFICES ASSUME NEW k \in asked', InUse(k)' PROVE Due(k)'
      BY DEF DropsDue
  <2>1. k # key /\ k \in asked
      BY <1>6
  <2>2. InUse(k)
      BY <1>1, <1>3, <1>5, <2>1 DEF InUse
  <2>3. PICK i \in DOMAIN turn :
          /\ turn[i].kind = "cancel" /\ turn[i].key = k
          /\ \A j \in DOMAIN turn : turn[j].kind = "start" /\ turn[j].key = k => j < i
          /\ turn[i].stage = "writing" => \A h \in Releases : torrents[h] = k => h \in turn[i].found
          /\ turn[i].stage = "done" => \A h \in Releases : torrents[h] # k
      BY <2>1, <2>2 DEF DropInv, DropsDue, Due
  <2>4. i \in DOMAIN turn'
      BY <1>4
  <2> QED
      BY <1>1, <1>3, <1>4, <2>1, <2>3, <2>4 DEF Due
<1>12. InTime'
    BY <1>3, <1>4 DEF DropInv, InTime
<1> QED
    BY <1>6, <1>10, <1>11, <1>12 DEF DropInv

(* The client's own steps leave every drop that is due so.                 *)
LEMMA ClientDrops ==
    ASSUME IInv, KeyInv, KeyInv', DropInv, late' = {}, Client
    PROVE  DropInv'
<1>1. UNCHANGED <<rows, asked>> /\ ClientStep /\ turn \in Seq(NamedCalls)
    BY DEF Client, IInv, TurnFits
<1>2. turn # <<>> =>
          /\ SentCall = turn[1] /\ 1 \in DOMAIN turn /\ SentCall \in CallsOf(turn)
          /\ SentCall \in Calls /\ SentCall \in NamedCalls
          /\ \A call : /\ DOMAIN [turn EXCEPT ![1] = call] = DOMAIN turn
                       /\ [turn EXCEPT ![1] = call][1] = call
                       /\ \A i \in DOMAIN turn : i # 1 => [turn EXCEPT ![1] = call][i] = turn[i]
    BY <1>1, MoveUp, HeadAlone, TurnGoesOn DEF SentCall, CallsOf, IInv
<1>3. AskedUnnamed'
    BY <1>1 DEF DropInv, AskedUnnamed, Names, Live
<1>4. ASSUME \A key \in Keys, h \in Releases : torrents'[h] = key => Carried(key, h),
             \A call \in CallsOf(turn)' : \E other \in CallsOf(turn) :
                 Like(call, other) /\ call.hash = other.hash
      PROVE  /\ OfOneHash'
             /\ \A key \in asked : InUse(key)' => InUse(key)
  <2>1. \A key \in Keys, h \in Releases : Carried(key, h)' => Carried(key, h)
      BY <1>4 DEF Carried, Like
  <2>2. OfOneHash'
      BY <1>1, <1>4, <2>1, HashesKept DEF DropInv, Live
  <2>3. asked \subseteq Keys
      BY DEF IInv
  <2>4. \A key \in asked : InUse(key)' => InUse(key)
      BY <1>4, <2>3 DEF InUse, Carried, Like
  <2> QED
      BY <2>2, <2>4
<1>5. CASE TurnReads
  <2> DEFINE call == AfterRead(SentCall)
  <2>1. /\ turn # <<>> /\ turn' = [turn EXCEPT ![1] = call] /\ UNCHANGED torrents
      BY <1>5 DEF TurnReads, Sent
  <2>2. Like(call, SentCall) /\ call.hash = SentCall.hash
      BY DEF AfterRead, Like
  <2>3. call.kind = "cancel" =>
            /\ call.stage = "writing" =>
                  \A h \in Releases : torrents[h] = call.key => h \in call.found
            /\ call.stage = "done" => \A h \in Releases : torrents[h] # call.key
    <3> SUFFICES ASSUME call.kind = "cancel" PROVE
            /\ call.stage = "writing" =>
                  \A h \in Releases : torrents[h] = call.key => h \in call.found
            /\ call.stage = "done" => \A h \in Releases : torrents[h] # call.key
        OBVIOUS
    <3>1. SentCall.kind = "cancel" /\ SentCall.key = call.key /\ SentCall.key \in Keys
        BY <1>2, <2>1, <2>2 DEF Like, Calls
    <3>2. \A h \in Releases : torrents[h] = call.key => h \in Deletable(SentCall)
      <4>1. \A h \in Releases : torrents[h] = SentCall.key =>
                SentCall.hash = h \/ SentCall.hash = None
          BY <1>2, <2>1, <3>1 DEF DropInv, OfOneHash, Carried
      <4> QED
          BY <3>1, <4>1 DEF Deletable
    <3>3. /\ call.found = Deletable(SentCall)
          /\ call.stage = IF Deletable(SentCall) = {} THEN "done" ELSE "writing"
        BY <1>2, <2>1, <3>1 DEF AfterRead, Calls
    <3> QED
        BY <3>2, <3>3
  <2> HIDE DEF call
  <2>4. DOMAIN turn' = DOMAIN turn /\ turn'[1] = call
        /\ \A i \in DOMAIN turn : i # 1 => turn'[i] = turn[i]
      BY <1>2, <2>1
  <2>5. OfOneHash' /\ \A key \in asked : InUse(key)' => InUse(key)
    <3>1. \A other \in CallsOf(turn)' : other = call \/ other \in CallsOf(turn)
        BY <2>4 DEF CallsOf
    <3>2. \A other \in CallsOf(turn)' : \E old \in CallsOf(turn) :
              Like(other, old) /\ other.hash = old.hash
        BY <1>2, <2>1, <2>2, <3>1 DEF Like
    <3>3. \A key \in Keys, h \in Releases : torrents'[h] = key => Carried(key, h)
        BY <2>1 DEF Carried
    <3> QED
        BY <1>4, <3>2, <3>3
  <2>6. DropsDue'
    <3> SUFFICES ASSUME NEW key \in asked, InUse(key)' PROVE Due(key)'
        BY <1>1 DEF DropsDue
    <3>1. PICK i \in DOMAIN turn :
            /\ turn[i].kind = "cancel" /\ turn[i].key = key
            /\ \A j \in DOMAIN turn : turn[j].kind = "start" /\ turn[j].key = key => j < i
        BY <2>5 DEF DropInv, DropsDue, Due
    <3>2. \A j \in DOMAIN turn : turn'[j].kind = turn[j].kind /\ turn'[j].key = turn[j].key
        BY <1>2, <2>1, <2>2, <2>4 DEF Like
    <3>3. i # 1 => turn'[i].stage = "reading"
        BY <2>4 DEF DropInv, InTime
    <3> QED
        BY <2>1, <2>3, <2>4, <3>1, <3>2, <3>3 DEF Due
  <2>7. InTime'
      BY <2>4 DEF DropInv, InTime
  <2> QED
      BY <1>3, <2>5, <2>6, <2>7 DEF DropInv
<1>6. CASE TurnWrites
  <2> DEFINE call == [turn[1] EXCEPT !.stage = "done"]
  <2>1. /\ turn # <<>> /\ turn' = [turn EXCEPT ![1] = call] /\ SentCall.stage = "writing"
        /\ torrents' = AfterWrite(SentCall)
      BY <1>6 DEF TurnWrites, Sent
  <2>2. /\ call.kind = SentCall.kind /\ call.by = SentCall.by /\ call.key = SentCall.key
        /\ call.hash = SentCall.hash /\ call.stage = "done"
      BY <1>2, <2>1 DEF Calls
  <2> HIDE DEF call
  <2>3. Like(call, SentCall)
      BY <2>2 DEF Like
  <2>4. DOMAIN turn' = DOMAIN turn /\ turn'[1] = call
        /\ \A i \in DOMAIN turn : i # 1 => turn'[i] = turn[i]
      BY <1>2, <2>1
  <2>5. \A h \in Releases :
            /\ \/ torrents'[h] = torrents[h] \/ torrents'[h] = None
               \/ SentCall.kind = "start" /\ SentCall.hash = h /\ torrents'[h] = SentCall.key
            /\ SentCall.kind = "cancel" => torrents'[h] = IF h \in SentCall.found THEN None ELSE torrents[h]
      BY <2>1 DEF AfterWrite
  <2>6. OfOneHash' /\ \A key \in asked : InUse(key)' => InUse(key)
    <3>1. \A other \in CallsOf(turn)' : other = call \/ other \in CallsOf(turn)
        BY <2>4 DEF CallsOf
    <3>2. \A other \in CallsOf(turn)' : \E old \in CallsOf(turn) :
              Like(other, old) /\ other.hash = old.hash
        BY <1>2, <2>1, <2>2, <2>3, <3>1 DEF Like
    <3>3. \A key \in Keys, h \in Releases : torrents'[h] = key => Carried(key, h)
        BY <1>2, <2>1, <2>5, TurnConstants DEF Carried
    <3> QED
        BY <1>4, <3>2, <3>3
  <2>7. DropsDue'
    <3> SUFFICES ASSUME NEW key \in asked, InUse(key)' PROVE Due(key)'
        BY <1>1 DEF DropsDue
    <3>1. PICK i \in DOMAIN turn :
            /\ turn[i].kind = "cancel" /\ turn[i].key = key
            /\ \A j \in DOMAIN turn : turn[j].kind = "start" /\ turn[j].key = key => j < i
            /\ turn[i].stage = "writing" => \A h \in Releases : torrents[h] = key => h \in turn[i].found
        BY <2>6 DEF DropInv, DropsDue, Due
    <3>2. \A j \in DOMAIN turn : turn'[j].kind = turn[j].kind /\ turn'[j].key = turn[j].key
        BY <1>2, <2>1, <2>2, <2>4
    <3>3. CASE i = 1
      <4>1. key # None
          BY TurnConstants DEF IInv
      <4>2. \A h \in Releases : torrents'[h] # key
          BY <1>2, <2>1, <2>5, <3>1, <3>3, <4>1
      <4> QED
          BY <2>2, <2>4, <3>1, <3>2, <3>3, <4>2 DEF Due
    <3>4. CASE i # 1
      <4>1. turn'[i].stage = "reading"
          BY <2>4, <3>4 DEF DropInv, InTime
      <4> QED
          BY <2>4, <3>1, <3>2, <4>1 DEF Due
    <3> QED
        BY <3>3, <3>4
  <2>8. InTime'
      BY <2>4 DEF DropInv, InTime
  <2> QED
      BY <1>3, <2>6, <2>7, <2>8 DEF DropInv
<1>7. ASSUME NEW h \in Releases, RemovedByHand(h) \/ AddedByHand(h)
      PROVE  DropInv'
  <2>1. UNCHANGED turn
      BY <1>7 DEF RemovedByHand, AddedByHand
  <2>2. \A g \in Releases : torrents'[g] = torrents[g] \/ torrents'[g] \in {None, ByHand}
      BY <1>7 DEF RemovedByHand, AddedByHand, IInv, TurnFits
  <2>3. \A key \in Keys, g \in Releases : torrents'[g] = key => torrents[g] = key
      BY <2>2, TurnConstants
  <2>4. OfOneHash' /\ \A key \in asked : InUse(key)' => InUse(key)
      BY <1>4, <2>1, <2>3 DEF Carried, CallsOf, Like
  <2>5. DropsDue'
    <3>1. \A key \in asked : Due(key) => Due(key)'
        BY <2>1, <2>3 DEF Due, IInv
    <3> QED
        BY <1>1, <2>4, <3>1 DEF DropInv, DropsDue
  <2>6. InTime'
      BY <2>1 DEF DropInv, InTime
  <2> QED
      BY <1>3, <2>4, <2>5, <2>6 DEF DropInv
<1> QED
    BY <1>1, <1>5, <1>6, <1>7 DEF ClientStep, DropInv, InTime

(* At first there is nothing to drop.                                      *)
LEMMA InitDrops == Init => DropInv
  BY TurnConstants
  DEF Init, DropInv, OfOneHash, Carried, CallsOf, AskedUnnamed, DropsDue, InTime

(* Every step keeps due what is to be dropped.                             *)
LEMMA StepDrops ==
    ASSUME MaxLate = 0, CancelsRefused = FALSE, MaxCrashes = 0,
           IInv, LostFits, KeyInv, KeyInv', OwnFound', DropInv, [Next]_vars
    PROVE  DropInv'
<1>1. late' = {}
    BY DEF OwnFound
<1>2. DropKinds
    BY StepDropKinds DEF DropInv
<1> QED
    BY <1>1, <1>2, StandingDrops, JoinDrops, LeaveDrops, AskStartDrops, AskImportDrops,
       StartAnswersDrops, ClientDrops DEF DropKinds

(* With every call answered inside its limit, none refused and no restart, *)
(* what is neither a request's nor in turn to be dropped is not there.     *)
THEOREM NothingIsLeft ==
    ASSUME MaxLate = 0, CancelsRefused = FALSE, MaxCrashes = 0
    PROVE  Spec => []NothingLeft
<1>1. IInv /\ LostFits /\ KeyInv /\ OwnFound /\ DropInv /\ [Next]_vars => DropInv'
    BY StepKeys, StepFindsOwn, StepDrops
<1>2. IInv /\ OwnFound /\ [Next]_vars => OwnFound'
    BY StepFindsOwn
<1> DEFINE NoneLost == \A key \in Keys : InUse(key) => Named(key)
<1>3. IInv /\ NoneLost /\ DropInv => NothingLeft
  <2> SUFFICES ASSUME IInv, NoneLost, DropInv, NEW h \in Releases, torrents[h] \in Keys,
                      ~RowCountsOn(torrents[h])
               PROVE  \E call \in late \cup {turn[i] : i \in DOMAIN turn} : call.key = torrents[h]
      BY DEF NothingLeft
  <2>1. InUse(torrents[h]) /\ torrents[h] \in asked
      BY DEF InUse, Named
  <2> QED
      BY <2>1 DEF DropInv, DropsDue, Due
<1>4. Init => NoneLost
    BY TurnConstants DEF Init, InUse, CallsOf
<1>5. IInv /\ LostFits /\ KeyInv /\ NoneLost /\ [Next]_vars => NoneLost'
  <2> SUFFICES ASSUME IInv, LostFits, KeyInv, NoneLost, [Next]_vars PROVE NoneLost'
      OBVIOUS
  <2>1. ~Crash
      BY DEF Crash, IInv
  <2>2. Accounts
      BY <2>1, StepNames DEF Next
  <2> QED
      BY <2>2 DEF Accounts
<1> HIDE DEF NoneLost
<1>6. Spec => []NoneLost
    BY <1>4, <1>5, Invariant, KeysAreOwn, PTL DEF Spec
<1> QED
    BY <1>1, <1>2, <1>3, <1>6, InitDrops, InitFindsOwn, Invariant, KeysAreOwn, PTL DEF Spec
=============================================================================
