-------------------------- MODULE DownloadClockProofs --------------------------
(***************************************************************************)
(* Proofs about a download's clocks: for any limits, any size and any gap  *)
(* between the job's looks, a request fails as stalled only when its bytes *)
(* stood still through a whole limit of answered looks (StallIsReal), and  *)
(* through an outage only after a whole hold (HoldIsWhole).                *)
(*                                                                         *)
(* The first rests on the row's clock being no older than two histories it *)
(* cannot see: how long the bytes stood, but for a rise the next look will *)
(* find, and how long the looks have been answered, but for a hold the     *)
(* next answer ends.                                                       *)
(***************************************************************************)
EXTENDS DownloadClock, TLAPS

USE ClockConstants

----------------------------------------------------------------------------
(* The request machine: where each event leads                             *)

(* A download begins in the client's queue, or at once on a route with no  *)
(* queue, whatever the choice that led to it.                              *)
LEMMA PickedDownloads ==
    ASSUME NEW medium \in {"book", "album", "song"}
    PROVE  /\ AfterPicked(medium) = IF medium = "song" THEN "downloading" ELSE "queued"
           /\ AfterPicked(medium) \in {"queued", "downloading"}
<1> DEFINE route == ROUTES[medium]
           at    == CHOOSE i \in DOMAIN route : route[i] = "searching"
<1>1. \A i \in DOMAIN route : route[i] = "searching" => i = 2
    BY DEF ROUTES
<1>2. 2 \in DOMAIN route /\ route[2] = "searching"
    BY DEF ROUTES
<1>3. at = 2
    BY <1>1, <1>2
<1>4. AfterPicked(medium) =
        IF route[at + 1] = "needsChoice" THEN route[at + 2] ELSE route[at + 1]
    BY Zenon DEF AfterPicked
<1>5. medium = "song" => route[3] = "downloading"
    BY DEF ROUTES
<1>6. medium # "song" => route[3] = "needsChoice" /\ route[4] = "queued"
    BY DEF ROUTES
<1> HIDE DEF at, route
<1> QED
    BY <1>3, <1>4, <1>5, <1>6

(* Where each event leads.                                                 *)
LEMMA NextStates ==
    ASSUME NEW medium, NEW state, NEW to, NEW reason
    PROVE  /\ NextState(medium, state, Moved(to)) = Enter(to)
           /\ NextState(medium, state, Failed(reason)) =
                 [status |-> "failed", failedStep |-> state.status, reason |-> reason]
           /\ NextState(medium, state, Retry) = Enter(state.failedStep)
           /\ NextState(medium, state, Chose) = Enter(AfterPicked(medium))
           /\ NextState(medium, state, PickAnother) = Enter("needsChoice")
    BY DEF NextState, Moved, Failed, Retry, Chose, PickAnother

----------------------------------------------------------------------------
(* Ages and rows                                                           *)

(* A tick ages everything alike.                                           *)
LEMMA AgesGrow ==
    /\ Older(None) = None
    /\ \A a \in Ages : Older(a) \in Ages /\ Older(a) # None /\ a <= Older(a)
    /\ \A a, b \in Ages : a <= b => Older(a) <= Older(b)
    /\ \A a \in Ages : a < Cap => Older(a) = a + 1
<1>1. \A a \in Ages : a # None
    BY DEF Ages
<1> QED
    BY <1>1 DEF Older, Ages

(* The row after each event the job or a person brings it.                 *)
LEMMA AfterEvents ==
    ASSUME NEW to, NEW reason, NEW progress
    PROVE  /\ After(Moved(to), progress) =
                [row EXCEPT !.status = to, !.failedStep = None, !.reason = None,
                            !.progress = IF to = "downloading" THEN progress ELSE 0]
           /\ After(Failed(reason), progress) =
                [row EXCEPT !.status = "failed", !.failedStep = row.status, !.reason = reason,
                            !.progress = 0]
           /\ After(Retry, progress) =
                [row EXCEPT !.status = row.failedStep, !.failedStep = None, !.reason = None,
                            !.progress = IF row.failedStep = "downloading" THEN progress ELSE 0]
<1> DEFINE Taken(state) ==
              [row EXCEPT !.status = state.status, !.failedStep = state.failedStep,
                          !.reason = state.reason,
                          !.progress = IF state.status = "downloading" THEN progress ELSE 0]
<1>1. \A event : After(event, progress) = Taken(NextState(Medium, StateOf(row), event))
    BY Zenon DEF After
<1>2. NextState(Medium, StateOf(row), Moved(to)) =
          [status |-> to, failedStep |-> None, reason |-> None]
    BY NextStates DEF Enter
<1>3. NextState(Medium, StateOf(row), Failed(reason)) =
          [status |-> "failed", failedStep |-> row.status, reason |-> reason]
    BY NextStates DEF StateOf
<1>4. NextState(Medium, StateOf(row), Retry) =
          [status |-> row.failedStep, failedStep |-> None, reason |-> None]
    BY NextStates DEF StateOf, Enter
<1>5. Taken([status |-> to, failedStep |-> None, reason |-> None]) =
          [row EXCEPT !.status = to, !.failedStep = None, !.reason = None,
                      !.progress = IF to = "downloading" THEN progress ELSE 0]
    OBVIOUS
<1>6. Taken([status |-> "failed", failedStep |-> row.status, reason |-> reason]) =
          [row EXCEPT !.status = "failed", !.failedStep = row.status, !.reason = reason,
                      !.progress = 0]
    OBVIOUS
<1>7. Taken([status |-> row.failedStep, failedStep |-> None, reason |-> None]) =
          [row EXCEPT !.status = row.failedStep, !.failedStep = None, !.reason = None,
                      !.progress = IF row.failedStep = "downloading" THEN progress ELSE 0]
    OBVIOUS
<1> HIDE DEF Taken
<1>8. After(Moved(to), progress) = Taken([status |-> to, failedStep |-> None, reason |-> None])
    BY <1>1, <1>2, Zenon
<1>9. After(Failed(reason), progress) =
          Taken([status |-> "failed", failedStep |-> row.status, reason |-> reason])
    BY <1>1, <1>3, Zenon
<1>10. After(Retry, progress) =
          Taken([status |-> row.failedStep, failedStep |-> None, reason |-> None])
    BY <1>1, <1>4, Zenon
<1> QED
    BY <1>5, <1>6, <1>7, <1>8, <1>9, <1>10, Zenon

(* What the row of a download is made of.                                  *)
RowFields == [status : Statuses, failedStep : Statuses \cup {None},
              reason : Reasons \cup {None}, progress : 0..Whole, handle : BOOLEAN,
              progressAt : Ages \cup {None}, heldSince : Ages \cup {None}, updatedAt : Ages]

Clients == {c \in [torrent : {"none", "queued", "active", "dead"}, bytes : 0..Whole, up : BOOLEAN] :
               c.torrent = "none" => c.bytes = 0}

(* A row moved to a status, and one saved.                                 *)
MovedRow(r, status, failedStep, reason) ==
    [r EXCEPT !.status = status, !.failedStep = failedStep, !.reason = reason]
SavedRow(r, progress) == [r EXCEPT !.progress = progress, !.updatedAt = 0, !.heldSince = None]

(* Each is a row still, with the rest of it as it was.                     *)
LEMMA RowMoves ==
    ASSUME NEW r \in RowFields, NEW status \in Statuses, NEW failedStep \in Statuses \cup {None},
           NEW reason \in Reasons \cup {None}
    PROVE  /\ MovedRow(r, status, failedStep, reason) \in RowFields
           /\ MovedRow(r, status, failedStep, reason).status = status
           /\ MovedRow(r, status, failedStep, reason).failedStep = failedStep
           /\ MovedRow(r, status, failedStep, reason).reason = reason
           /\ MovedRow(r, status, failedStep, reason).handle = r.handle
           /\ MovedRow(r, status, failedStep, reason).progressAt = r.progressAt
<1> QED
    BY DEF MovedRow, RowFields

LEMMA RowSaves ==
    ASSUME NEW r \in RowFields, NEW progress \in 0..Whole
    PROVE  /\ SavedRow(r, progress) \in RowFields
           /\ SavedRow(r, progress).progress = progress
           /\ SavedRow(r, progress).updatedAt = 0
           /\ SavedRow(r, progress).heldSince = None
           /\ SavedRow(r, progress).status = r.status
           /\ SavedRow(r, progress).failedStep = r.failedStep
           /\ SavedRow(r, progress).reason = r.reason
           /\ SavedRow(r, progress).handle = r.handle
           /\ SavedRow(r, progress).progressAt = r.progressAt
<1>1. 0 \in Ages
    BY DEF Ages
<1> HIDE DEF Ages
<1> QED
    BY <1>1 DEF SavedRow, RowFields

(* A row that is both.                                                     *)
TakenRow(r, status, failedStep, reason, progress) ==
    [r EXCEPT !.status = status, !.failedStep = failedStep, !.reason = reason,
              !.progress = progress, !.updatedAt = 0, !.heldSince = None]

(* What it then is.                                                        *)
IsTaken(taken, r, status, failedStep, reason, progress) ==
    /\ taken \in RowFields
    /\ taken.status = status /\ taken.failedStep = failedStep /\ taken.reason = reason
    /\ taken.progress = progress /\ taken.updatedAt = 0 /\ taken.heldSince = None
    /\ taken.handle = r.handle /\ taken.progressAt = r.progressAt

LEMMA RowTaken ==
    ASSUME NEW r \in RowFields, NEW status \in Statuses, NEW failedStep \in Statuses \cup {None},
           NEW reason \in Reasons \cup {None}, NEW progress \in 0..Whole
    PROVE  IsTaken(TakenRow(r, status, failedStep, reason, progress),
                   r, status, failedStep, reason, progress)
<1> DEFINE taken == TakenRow(r, status, failedStep, reason, progress)
<1> DEFINE moved == MovedRow(r, status, failedStep, reason)
<1>1. taken = SavedRow(moved, progress)
    BY DEF TakenRow, SavedRow, MovedRow
<1>2. /\ moved \in RowFields /\ moved.status = status /\ moved.failedStep = failedStep
      /\ moved.reason = reason /\ moved.handle = r.handle /\ moved.progressAt = r.progressAt
    BY RowMoves
<1> HIDE DEF moved, taken
<1>3. /\ taken \in RowFields /\ taken.progress = progress /\ taken.updatedAt = 0
      /\ taken.heldSince = None
      /\ taken.status = moved.status /\ taken.failedStep = moved.failedStep
      /\ taken.reason = moved.reason /\ taken.handle = moved.handle
      /\ taken.progressAt = moved.progressAt
    BY <1>1, <1>2, RowSaves
<1> QED
    BY <1>2, <1>3 DEF taken, IsTaken

(* A look that is answered ends any hold, and leaves what was seen unbroken*)
(* but for a look a limit late.                                            *)
LEMMA AnsweredLook ==
    ASSUME IInv, Answered, row' \in RowFields, row'.updatedAt = 0, row'.heldSince = None,
           row'.status = "failed" => row'.failedStep \in {"queued", "downloading"},
           client' \in Clients
    PROVE  TypeOK' /\ LooksSave' /\ HeldNoLonger'
<1>1. TypeOK'
    BY DEF IInv, TypeOK, Answered, Ages, RowFields, Clients
<1>2. LooksSave' /\ HeldNoLonger'
    BY DEF Answered, LooksSave, HeldNoLonger
<1> QED
    BY <1>1, <1>2

----------------------------------------------------------------------------
(* The job's looks                                                         *)

(* The clock of a look that finds the download going on: its bytes rose, or*)
(* it was not looked at, or it is the clock of before.                     *)
LEMMA ClockIsSince ==
    ASSUME IInv, ~ChecksLose, Downloading, row.handle, client.bytes < Whole
    PROVE  LET clock == StallClock(client.bytes)
           IN  /\ clock \in Ages /\ clock <= still
               /\ gap >= StallAfter => clock = 0
               /\ clock <= broken
<1> DEFINE before == IF row.status = "downloading" THEN row.progress ELSE 0
           clock == StallClock(client.bytes)
<1>1. /\ still \in Ages /\ broken \in Ages /\ 0 \in Ages
      /\ gap \in Nat /\ row.updatedAt \in Nat
      /\ row.progressAt \in Ages \cup {None}
    BY DEF IInv, TypeOK, Ages
<1>2. \A age \in Ages : 0 <= age
    BY DEF Ages
<1>3. CASE client.bytes > before \/ row.heldSince # None \/ row.updatedAt >= StallAfter
           \/ row.progressAt = None
  <2>1. clock = 0
      BY <1>3 DEF StallClock
  <2> QED
      BY <1>1, <1>2, <2>1
<1>4. CASE ~(client.bytes > before) /\ row.heldSince = None /\ ~(row.updatedAt >= StallAfter)
           /\ row.progressAt # None
  <2>1. clock = row.progressAt
      BY <1>4 DEF StallClock
  <2>2. Followed
      BY <1>4 DEF Followed
  <2>3. row.progressAt <= still /\ row.progressAt <= broken
      BY <1>4, <2>2 DEF IInv, StillSince, SeenSince
  <2>4. ~(gap >= StallAfter)
      BY <1>1, <1>4 DEF IInv, LooksSave
  <2> QED
      BY <1>1, <1>4, <2>1, <2>3, <2>4
<1> QED
    BY <1>3, <1>4

LEMMA StartKeeps == ASSUME IInv, Start PROVE IInv'
<1>1. row' = [row EXCEPT !.handle = TRUE, !.progressAt = 0, !.updatedAt = 0, !.heldSince = None]
    BY DEF Start, Save
<1>2. row' \in RowFields /\ row'.progressAt = 0 /\ row'.status = row.status
      /\ row'.updatedAt = 0 /\ row'.heldSince = None /\ row'.failedStep = row.failedStep
  <2>1. row \in RowFields
      BY DEF IInv, TypeOK, RowFields
  <2>2. 0 \in Ages
      BY DEF Ages
  <2> QED
      BY <1>1, <2>1, <2>2 DEF RowFields
<1>3. client' \in Clients /\ client'.bytes = client.bytes
    BY DEF Start, IInv, TypeOK, Clients
<1>4. TypeOK' /\ LooksSave' /\ HeldNoLonger'
    BY <1>2, <1>3, AnsweredLook DEF Start, IInv, TypeOK
<1>5. StillSince' /\ SeenSince'
    BY <1>2, <1>4 DEF StillSince, SeenSince, TypeOK, Ages
<1>6. row'.progress = row.progress
    BY <1>1 DEF IInv, TypeOK
<1> QED
    BY <1>2, <1>3, <1>4, <1>5, <1>6 DEF IInv, FoundIsThere

LEMMA PollQueuedKeeps == ASSUME IInv, PollQueued PROVE IInv'
<1>1. row' = [row EXCEPT !.progressAt = 0, !.updatedAt = 0, !.heldSince = None]
    BY DEF PollQueued, Save
<1>2. row' \in RowFields /\ row'.progressAt = 0 /\ row'.status = row.status
      /\ row'.updatedAt = 0 /\ row'.heldSince = None /\ row'.failedStep = row.failedStep
  <2>1. row \in RowFields
      BY DEF IInv, TypeOK, RowFields
  <2>2. 0 \in Ages
      BY DEF Ages
  <2> QED
      BY <1>1, <2>1, <2>2 DEF RowFields
<1>3. client' = client /\ client \in Clients /\ row'.progress = row.progress
    BY <1>1 DEF PollQueued, Polls, IInv, TypeOK, Clients
<1>4. TypeOK' /\ LooksSave' /\ HeldNoLonger'
    BY <1>2, <1>3, AnsweredLook DEF PollQueued, Polls, IInv, TypeOK
<1>5. StillSince' /\ SeenSince'
    BY <1>2, <1>4 DEF StillSince, SeenSince, TypeOK, Ages
<1> QED
    BY <1>2, <1>3, <1>4, <1>5 DEF IInv, FoundIsThere

LEMMA PollDownloadingKeeps == ASSUME IInv, PollDownloading PROVE IInv'
<1> DEFINE clock == StallClock(client.bytes)
<1>1. row' = [row EXCEPT !.status = "downloading", !.failedStep = None, !.reason = None,
                         !.progress = client.bytes, !.progressAt = clock,
                         !.updatedAt = 0, !.heldSince = None]
    BY AfterEvents DEF PollDownloading, Save
<1>2. /\ Downloading /\ row.handle /\ client.bytes < Whole /\ Answered /\ client' = client
    BY DEF PollDownloading, Polls
<1>3. clock \in Ages
    BY DEF StallClock, IInv, TypeOK, Ages
<1>4. row \in RowFields /\ client \in Clients /\ client.bytes \in 0..Whole
    BY DEF IInv, TypeOK, RowFields, Clients
<1> HIDE DEF clock
<1> DEFINE taken == TakenRow(row, "downloading", None, None, client.bytes)
<1>5. row' = [taken EXCEPT !.progressAt = clock]
    BY <1>1 DEF TakenRow
<1>6. /\ taken \in RowFields /\ taken.status = "downloading" /\ taken.progress = client.bytes
      /\ taken.updatedAt = 0 /\ taken.heldSince = None
  <2>1. "downloading" \in Statuses /\ None \in Statuses \cup {None} /\ None \in Reasons \cup {None}
      BY DEF Statuses, WorkingStatuses
  <2>2. IsTaken(taken, row, "downloading", None, None, client.bytes)
      BY <1>4, <2>1, RowTaken
  <2> QED
      BY <2>2 DEF IsTaken
<1> HIDE DEF taken
<1>7. row' \in RowFields
    BY <1>3, <1>5, <1>6 DEF RowFields
<1>8. /\ row'.status = "downloading" /\ row'.progressAt = clock /\ row'.progress = client.bytes
      /\ row'.updatedAt = 0 /\ row'.heldSince = None
    BY <1>5, <1>6 DEF RowFields
<1>9. TypeOK' /\ LooksSave' /\ HeldNoLonger'
    BY <1>2, <1>4, <1>7, <1>8, AnsweredLook DEF IInv, TypeOK
<1>10. ASSUME ~ChecksLose PROVE FoundIsThere' /\ StillSince' /\ SeenSince'
  <2>1. clock <= still /\ (gap >= StallAfter => clock = 0) /\ clock <= broken
      BY <1>2, <1>10, ClockIsSince DEF clock
  <2>2. StillSince'
      BY <1>2, <1>8, <2>1 DEF StillSince, Answered
  <2>3. SeenSince'
      BY <1>2, <1>3, <1>8, <2>1 DEF SeenSince, Answered, Ages
  <2>4. FoundIsThere'
      BY <1>2, <1>4, <1>8 DEF FoundIsThere
  <2> QED
      BY <2>2, <2>3, <2>4
<1> QED
    BY <1>9, <1>10 DEF IInv

(* What leaves the download, its clocks do not matter to.                  *)
LEMMA LeftKeeps ==
    ASSUME IInv, Answered, client' = client, NEW status \in {"failed", "importing"},
           NEW failedStep, failedStep = IF status = "failed" THEN row.status ELSE None,
           Downloading, NEW reason \in Reasons \cup {None},
           row' = [row EXCEPT !.status = status, !.failedStep = failedStep, !.reason = reason,
                              !.progress = 0, !.updatedAt = 0, !.heldSince = None]
    PROVE  IInv'
<1>1. row.status \in Statuses /\ row \in RowFields /\ client \in Clients
    BY DEF IInv, TypeOK, RowFields, Clients
<1>2. status \in Statuses /\ failedStep \in Statuses \cup {None} /\ 0 \in 0..Whole
    BY <1>1 DEF Statuses, WorkingStatuses
<1>3. /\ row' \in RowFields /\ row'.status = status /\ row'.updatedAt = 0
      /\ row'.heldSince = None /\ row'.failedStep = failedStep
  <2>1. row' = TakenRow(row, status, failedStep, reason, 0)
      BY DEF TakenRow
  <2>2. IsTaken(row', row, status, failedStep, reason, 0)
      BY <1>1, <1>2, <2>1, RowTaken
  <2> QED
      BY <2>2 DEF IsTaken
<1>4. ~Downloading'
    BY <1>3 DEF Downloading
<1>5. TypeOK' /\ LooksSave' /\ HeldNoLonger'
    BY <1>1, <1>3, AnsweredLook DEF IInv, TypeOK, Downloading
<1> QED
    BY <1>3, <1>4, <1>5 DEF IInv, FoundIsThere, StillSince, SeenSince, Followed

LEMMA PollStallsKeeps == ASSUME IInv, PollStalls PROVE IInv'
<1>1. row' = [row EXCEPT !.status = "failed", !.failedStep = row.status,
                         !.reason = "downloadStalled", !.progress = 0,
                         !.updatedAt = 0, !.heldSince = None]
    BY AfterEvents DEF PollStalls, Save
<1> QED
    BY <1>1, LeftKeeps DEF PollStalls, Polls, Reasons

LEMMA LookFailsKeeps == ASSUME IInv, LookFails PROVE IInv'
<1>1. row' = [row EXCEPT !.status = "failed", !.failedStep = row.status,
                         !.reason = "other", !.progress = 0,
                         !.updatedAt = 0, !.heldSince = None]
    BY AfterEvents DEF LookFails, Save
<1> QED
    BY <1>1, LeftKeeps DEF LookFails, Reasons

LEMMA PollDoneKeeps == ASSUME IInv, PollDone PROVE IInv'
<1>1. /\ Downloading /\ Answered /\ client' = client /\ client.bytes = Whole
    BY DEF PollDone, Polls
<1>2. CASE row.status = "queued"
  <2>1. row' = [row EXCEPT !.status = "downloading", !.failedStep = None, !.reason = None,
                           !.progress = Whole, !.updatedAt = 0, !.heldSince = None]
      BY <1>2, AfterEvents DEF PollDone, Save
  <2>2. row' \in RowFields /\ row'.status = "downloading"
        /\ row'.updatedAt = 0 /\ row'.heldSince = None /\ row'.progress = Whole
    <3>1. row \in RowFields
        BY DEF IInv, TypeOK, RowFields
    <3>2. /\ "downloading" \in Statuses /\ Whole \in 0..Whole
          /\ None \in Statuses \cup {None} /\ None \in Reasons \cup {None}
        BY DEF Statuses, WorkingStatuses
    <3>3. row' = TakenRow(row, "downloading", None, None, Whole)
        BY <2>1 DEF TakenRow
    <3>4. IsTaken(row', row, "downloading", None, None, Whole)
        BY <3>1, <3>2, <3>3, RowTaken
    <3> QED
        BY <3>4 DEF IsTaken
  <2>3. client \in Clients
      BY DEF IInv, TypeOK, Clients
  <2>4. TypeOK' /\ LooksSave' /\ HeldNoLonger'
      BY <1>1, <2>2, <2>3, AnsweredLook DEF IInv, TypeOK
  <2> QED
      BY <1>1, <2>2, <2>4 DEF IInv, FoundIsThere, StillSince, SeenSince, Followed
<1>3. CASE row.status # "queued"
  <2>1. row' = [row EXCEPT !.status = "importing", !.failedStep = None, !.reason = None,
                           !.progress = 0, !.updatedAt = 0, !.heldSince = None]
      BY <1>3, AfterEvents DEF PollDone, Save
  <2> QED
      BY <1>1, <2>1, LeftKeeps
<1> QED
    BY <1>2, <1>3

LEMMA LookIsHeldKeeps == ASSUME IInv, LookIsHeld PROVE IInv'
<1>1. row' = [row EXCEPT !.heldSince = IF @ = None THEN 0 ELSE @]
    BY DEF LookIsHeld
<1>2. /\ gap' = 0 /\ broken' = 0 /\ client' = client /\ still' = still /\ answered' = answered
      /\ Downloading
    BY DEF LookIsHeld, Held
<1>3. row \in RowFields
    BY DEF IInv, TypeOK, RowFields
<1>4. /\ row' \in RowFields /\ row'.heldSince # None
      /\ row'.heldSince = IF row.heldSince = None THEN 0 ELSE row.heldSince
      /\ row'.status = row.status /\ row'.failedStep = row.failedStep
      /\ row'.updatedAt = row.updatedAt /\ row'.progressAt = row.progressAt
      /\ row'.progress = row.progress /\ row'.handle = row.handle
    BY <1>1, <1>3 DEF RowFields, Ages
<1>5. TypeOK'
    BY <1>2, <1>4 DEF IInv, TypeOK, RowFields, Ages
<1>6. LooksSave' /\ HeldNoLonger'
    BY <1>2, <1>4 DEF IInv, TypeOK, LooksSave, HeldNoLonger, Ages
<1>7. ~ChecksLose => FoundIsThere' /\ StillSince' /\ SeenSince'
    BY <1>2, <1>4 DEF IInv, FoundIsThere, StillSince, SeenSince, Followed, Downloading
<1> QED
    BY <1>5, <1>6, <1>7 DEF IInv

LEMMA HoldRunsOutKeeps == ASSUME IInv, HoldRunsOut PROVE IInv'
<1>1. row' = [row EXCEPT !.status = "failed", !.failedStep = row.status,
                         !.reason = "other", !.progress = 0,
                         !.updatedAt = 0, !.heldSince = None]
    BY AfterEvents DEF HoldRunsOut, Save
<1>2. /\ gap' = 0 /\ broken' = 0 /\ client' = client /\ still' = still /\ answered' = answered
      /\ row.status \in {"queued", "downloading"}
    BY DEF HoldRunsOut, Held, Downloading
<1>3. row \in RowFields
    BY DEF IInv, TypeOK, RowFields
<1>4. /\ row' \in RowFields /\ row'.heldSince = None /\ row'.updatedAt = 0
      /\ row'.status = "failed" /\ row'.failedStep = row.status
  <2>1. "failed" \in Statuses /\ row.status \in Statuses /\ "other" \in Reasons /\ 0 \in 0..Whole
      BY <1>2 DEF Statuses, WorkingStatuses, Reasons
  <2>2. row' = TakenRow(row, "failed", row.status, "other", 0)
      BY <1>1 DEF TakenRow
  <2>3. IsTaken(row', row, "failed", row.status, "other", 0)
      BY <1>3, <2>1, <2>2, RowTaken
  <2> QED
      BY <2>3 DEF IsTaken
<1>5. TypeOK'
    BY <1>2, <1>4 DEF IInv, TypeOK, RowFields, Ages
<1> QED
    BY <1>2, <1>4, <1>5
    DEF IInv, LooksSave, HeldNoLonger, FoundIsThere, StillSince, SeenSince, Followed, Downloading

----------------------------------------------------------------------------
(* A person, the client and time                                           *)

LEMMA RetryKeeps == ASSUME IInv, RetryRequest PROVE IInv'
<1>1. /\ row.status = "failed" /\ answered' = 0 /\ broken' = 0 /\ gap' = gap /\ gap = 0
      /\ row.failedStep \in {"queued", "downloading"}
    BY DEF RetryRequest, IInv, TypeOK, LooksSave, Downloading
<1>2. row \in RowFields
    BY DEF IInv, TypeOK, RowFields
<1> DEFINE retried == TakenRow(row, row.failedStep, None, None, 0)
<1>3. After(Retry, 0) = [row EXCEPT !.status = row.failedStep, !.failedStep = None,
                                    !.reason = None, !.progress = 0]
    BY AfterEvents
<1>4. Save([After(Retry, 0) EXCEPT !.progressAt = 0]) => row' = [retried EXCEPT !.progressAt = 0]
    BY <1>3 DEF Save, TakenRow
<1>5. Save([After(Retry, 0) EXCEPT !.handle = FALSE]) => row' = [retried EXCEPT !.handle = FALSE]
    BY <1>3 DEF Save, TakenRow
<1>6. /\ retried \in RowFields /\ retried.status = row.failedStep /\ retried.failedStep = None
      /\ retried.progress = 0 /\ retried.updatedAt = 0 /\ retried.heldSince = None
  <2>1. /\ row.failedStep \in Statuses /\ 0 \in 0..Whole
        /\ None \in Statuses \cup {None} /\ None \in Reasons \cup {None}
      BY <1>1 DEF Statuses, WorkingStatuses
  <2>2. IsTaken(retried, row, row.failedStep, None, None, 0)
      BY <1>2, <2>1, RowTaken
  <2> QED
      BY <2>2 DEF IsTaken
<1> HIDE DEF retried
<1>7. \/ row' = [retried EXCEPT !.progressAt = 0] /\ client' = client /\ still' = still
      \/ /\ row' = [retried EXCEPT !.handle = FALSE]
         /\ \/ client' = [client EXCEPT !.torrent = "none", !.bytes = 0] /\ still' = 0
            \/ client' = client /\ still' = still
    BY <1>4, <1>5 DEF RetryRequest
<1>8. /\ row' \in RowFields /\ row'.status = row.failedStep
      /\ row'.progress = 0 /\ row'.updatedAt = 0 /\ row'.heldSince = None
      /\ row'.progressAt = 0 \/ ~row'.handle
  <2>1. 0 \in Ages
      BY DEF Ages
  <2> QED
      BY <1>7, <1>6, <2>1 DEF RowFields
<1>9. TypeOK'
  <2>1. client \in Clients /\ still \in Ages /\ 0 \in Ages /\ 0 \in 0..Whole
      BY DEF IInv, TypeOK, Clients, Ages
  <2>2. client' \in Clients /\ still' \in Ages
      BY <1>7, <2>1 DEF Clients
  <2>3. row'.status # "failed"
      BY <1>1, <1>8
  <2> QED
      BY <1>1, <1>8, <2>1, <2>2, <2>3 DEF IInv, TypeOK, RowFields, Clients
<1>10. LooksSave' /\ HeldNoLonger'
    BY <1>1, <1>8 DEF LooksSave, HeldNoLonger
<1>11. FoundIsThere' /\ StillSince' /\ SeenSince'
    BY <1>8, <1>9 DEF FoundIsThere, StillSince, SeenSince, Followed, TypeOK, Ages
<1> QED
    BY <1>9, <1>10, <1>11 DEF IInv

LEMMA ClientKeeps == ASSUME IInv, ClientActs PROVE IInv'
<1>1. row' = row /\ gap' = gap /\ broken' = broken /\ answered' = answered
    BY DEF ClientActs, BytesRise, Queues, Resumes, Dies, GoesAway, ComesBack, Only
<1>2. client \in Clients /\ client.bytes \in 0..Whole /\ still \in Ages
    BY DEF IInv, TypeOK, Clients
<1>3. /\ client' \in Clients
      /\ \/ still' = still /\ (~ChecksLose => client'.bytes = client.bytes)
         \/ still' = 0 /\ client'.bytes = client.bytes + 1
  <2>1. CASE BytesRise
      BY <1>2, <2>1 DEF BytesRise, Only, Clients
  <2>2. CASE Queues
    <3>1. PICK bytes \in 0..client.bytes :
              /\ ChecksLose \/ bytes = client.bytes
              /\ client' = [client EXCEPT !.torrent = "queued", !.bytes = bytes]
        BY <2>2 DEF Queues, Only
    <3>2. bytes \in 0..Whole
        BY <1>2
    <3> QED
        BY <1>2, <2>2, <3>1, <3>2 DEF Queues, Clients
  <2>3. CASE Resumes \/ Dies \/ GoesAway \/ ComesBack
      BY <1>2, <2>3 DEF Resumes, Dies, GoesAway, ComesBack, Only, Clients
  <2> QED
      BY <2>1, <2>2, <2>3 DEF ClientActs
<1>4. TypeOK'
    BY <1>1, <1>2, <1>3 DEF IInv, TypeOK, Ages, Clients
<1>5. LooksSave' /\ HeldNoLonger'
    BY <1>1 DEF IInv, LooksSave, HeldNoLonger, Downloading
<1>6. ASSUME ~ChecksLose PROVE FoundIsThere' /\ StillSince' /\ SeenSince'
  <2>1. client.bytes \in Nat /\ client'.bytes \in Nat /\ row.progress \in Nat
      BY <1>2, <1>3 DEF IInv, TypeOK, Clients
  <2>2. Followed' => Followed
      BY <1>1, <1>3, <1>6, <2>1 DEF Followed, Downloading
  <2>3. CASE still' = still /\ client'.bytes = client.bytes
      BY <1>1, <1>6, <2>2, <2>3 DEF IInv, FoundIsThere, StillSince, SeenSince
  <2>4. CASE still' = 0 /\ client'.bytes = client.bytes + 1
    <3>1. SeenSince'
        BY <1>1, <1>6, <2>2 DEF IInv, SeenSince
    <3>2. ASSUME Followed'
          PROVE  client'.bytes > IF row.status = "downloading" THEN row.progress ELSE 0
      <4>1. row.status = "downloading" => row.progress <= client.bytes
          BY <1>6 DEF IInv, FoundIsThere
      <4>2. client'.bytes > 0
          BY <2>1, <2>4
      <4> QED
          BY <2>1, <2>4, <4>1, <4>2
    <3>3. FoundIsThere'
        BY <1>1, <1>6, <2>1, <2>4 DEF IInv, FoundIsThere
    <3> QED
        BY <1>1, <3>1, <3>2, <3>3 DEF StillSince
  <2> QED
      BY <1>3, <1>6, <2>3, <2>4
<1> QED
    BY <1>4, <1>5, <1>6 DEF IInv

LEMMA TickKeeps == ASSUME IInv, Tick PROVE IInv'
<1>1. row' = [row EXCEPT !.progressAt = Older(row.progressAt), !.heldSince = Older(row.heldSince),
                         !.updatedAt = Older(row.updatedAt)]
    BY DEF Tick
<1>2. /\ still' = Older(still) /\ broken' = Older(broken) /\ answered' = Older(answered)
      /\ client' = client
      /\ gap < MaxGap \/ ~Downloading
      /\ gap' = IF Downloading THEN gap + 1 ELSE gap
    BY DEF Tick
<1>3. /\ row \in RowFields /\ {still, broken, answered} \subseteq Ages /\ gap \in 0..MaxGap
    BY DEF IInv, TypeOK, RowFields
<1>4. /\ Older(row.progressAt) \in Ages \cup {None} /\ Older(row.heldSince) \in Ages \cup {None}
      /\ Older(row.updatedAt) \in Ages
      /\ {Older(still), Older(broken), Older(answered)} \subseteq Ages
    BY <1>3, AgesGrow DEF RowFields
<1>5. /\ row' \in RowFields /\ row'.status = row.status /\ row'.failedStep = row.failedStep
      /\ row'.progress = row.progress /\ row'.handle = row.handle
      /\ row'.progressAt = Older(row.progressAt) /\ row'.heldSince = Older(row.heldSince)
      /\ row'.updatedAt = Older(row.updatedAt)
    BY <1>1, <1>3, <1>4 DEF RowFields
<1>6. TypeOK'
    BY <1>2, <1>3, <1>4, <1>5 DEF IInv, TypeOK, RowFields
<1>7. LooksSave'
  <2>1. row.updatedAt \in Ages /\ gap <= row.updatedAt /\ (~Downloading => gap = 0)
      BY <1>3 DEF IInv, LooksSave, RowFields
  <2>2. row.updatedAt <= Older(row.updatedAt)
      BY <2>1, AgesGrow
  <2>3. CASE Downloading
    <3>1. gap + 1 <= Cap
        BY <1>2, <1>3, <2>3
    <3>2. gap + 1 <= Older(row.updatedAt)
      <4>1. CASE row.updatedAt < Cap
          BY <1>3, <2>1, <4>1, AgesGrow DEF Ages
      <4>2. CASE ~(row.updatedAt < Cap)
          BY <1>3, <1>4, <2>1, <2>2, <3>1, <4>2 DEF Ages
      <4> QED
          BY <4>1, <4>2
    <3> QED
        BY <1>2, <1>5, <2>3, <3>2 DEF LooksSave, Downloading
  <2>4. CASE ~Downloading
      BY <1>2, <1>3, <1>4, <1>5, <2>1, <2>4 DEF LooksSave, Downloading, Ages
  <2> QED
      BY <2>3, <2>4
<1>8. HeldNoLonger'
  <2> SUFFICES ASSUME row'.heldSince # None PROVE row'.heldSince <= answered'
      BY DEF HeldNoLonger
  <2>1. row.heldSince # None
      BY <1>5, AgesGrow
  <2> QED
      BY <1>2, <1>3, <1>5, <2>1, AgesGrow DEF IInv, HeldNoLonger, RowFields
<1>9. ASSUME ~ChecksLose PROVE FoundIsThere' /\ StillSince' /\ SeenSince'
  <2>1. FoundIsThere'
      BY <1>2, <1>5, <1>9 DEF IInv, FoundIsThere
  <2>2. Followed' => Followed
      BY <1>2, <1>5, AgesGrow DEF Followed, Downloading
  <2>3. row.progressAt \in Ages \cup {None} /\ row.heldSince \in Ages \cup {None}
      BY <1>3 DEF RowFields
  <2>4. StillSince'
      BY <1>2, <1>3, <1>5, <1>9, <2>2, <2>3, AgesGrow DEF IInv, StillSince, Followed
  <2>5. row'.heldSince = None => row.heldSince = None
      BY <1>5, <2>3, AgesGrow
  <2>6. SeenSince'
      BY <1>2, <1>3, <1>5, <1>9, <2>2, <2>3, <2>5, AgesGrow DEF IInv, SeenSince, Followed
  <2> QED
      BY <2>1, <2>4, <2>6
<1> QED
    BY <1>6, <1>7, <1>8, <1>9 DEF IInv

----------------------------------------------------------------------------
(* The theorems                                                            *)

(* A download begins in the client's queue or at once.                     *)
LEMMA InitFits == Init => IInv
<1> SUFFICES ASSUME Init PROVE IInv
    OBVIOUS
<1>1. row.status \in {"queued", "downloading"}
    BY PickedDownloads DEF Init
<1>2. TypeOK
    BY <1>1 DEF Init, TypeOK, Ages, Statuses, WorkingStatuses
<1> QED
    BY <1>1, <1>2
    DEF Init, IInv, LooksSave, HeldNoLonger, FoundIsThere, StillSince, SeenSince, Followed, Downloading

LEMMA StepKeeps == IInv /\ [Next]_vars => IInv'
<1> SUFFICES ASSUME IInv, [Next]_vars PROVE IInv'
    OBVIOUS
<1>1. CASE Look
    BY <1>1, StartKeeps, PollQueuedKeeps, PollDownloadingKeeps, PollStallsKeeps, PollDoneKeeps,
       LookIsHeldKeeps, HoldRunsOutKeeps DEF Look
<1>2. CASE LookFails \/ RetryRequest \/ ClientActs \/ Tick
    BY <1>2, LookFailsKeeps, RetryKeeps, ClientKeeps, TickKeeps
<1>3. CASE UNCHANGED vars
    BY <1>3 DEF vars, IInv, TypeOK, LooksSave, HeldNoLonger, FoundIsThere, StillSince, SeenSince,
                Followed, Downloading
<1> QED
    BY <1>1, <1>2, <1>3 DEF Next

(* Every behaviour keeps the invariant: the clocks of the row are no older *)
(* than what happened.                                                     *)
THEOREM Invariant == Spec => []IInv
<1> QED
    BY InitFits, StepKeeps, PTL DEF Spec

(* A row fails for what the step says it does.                             *)
LEMMA FailsAs ==
    ASSUME IInv, Next, NEW reason, Fails(reason)
    PROVE  /\ PollStalls \/ LookFails \/ HoldRunsOut
           /\ PollStalls => reason = "downloadStalled"
           /\ LookFails \/ HoldRunsOut => reason = "other"
<1>1. row \in RowFields /\ row.status # "failed" /\ row'.status = "failed" /\ row'.reason = reason
    BY DEF IInv, TypeOK, RowFields, Fails
<1>2. ~Start /\ ~PollQueued
    BY <1>1 DEF Start, PollQueued, Save, RowFields
<1>3. \A status, failedStep, why, progress :
          /\ TakenRow(row, status, failedStep, why, progress).status = status
          /\ TakenRow(row, status, failedStep, why, progress).reason = why
    BY <1>1 DEF RowFields, TakenRow
<1>4. ~PollDownloading
  <2> SUFFICES ASSUME PollDownloading PROVE FALSE
      OBVIOUS
  <2>1. row' = [row EXCEPT !.status = "downloading", !.failedStep = None, !.reason = None,
                           !.progress = client.bytes, !.progressAt = StallClock(client.bytes),
                           !.updatedAt = 0, !.heldSince = None]
      BY AfterEvents DEF PollDownloading, Save
  <2>2. row' = [TakenRow(row, "downloading", None, None, client.bytes)
                    EXCEPT !.progressAt = StallClock(client.bytes)]
      BY <2>1 DEF TakenRow
  <2>3. row'.status = TakenRow(row, "downloading", None, None, client.bytes).status
      BY <1>1, <2>2 DEF RowFields, TakenRow
  <2> QED
      BY <1>1, <1>3, <2>3
<1>5. ~PollDone
  <2> SUFFICES ASSUME PollDone PROVE FALSE
      OBVIOUS
  <2>1. \/ row' = TakenRow(row, "downloading", None, None, Whole)
        \/ row' = TakenRow(row, "importing", None, None, 0)
    <3>1. CASE row.status = "queued"
        BY <3>1, AfterEvents DEF PollDone, Save, TakenRow
    <3>2. CASE row.status # "queued"
      <4>1. row' = [row EXCEPT !.status = "importing", !.failedStep = None, !.reason = None,
                               !.progress = 0, !.updatedAt = 0, !.heldSince = None]
          BY <3>2, AfterEvents DEF PollDone, Save
      <4> QED
          BY <4>1 DEF TakenRow
    <3> QED
        BY <3>1, <3>2
  <2>2. row'.status \in {"downloading", "importing"}
      BY <1>3, <2>1
  <2> QED
      BY <1>1, <2>2
<1>6. ~LookIsHeld /\ ~RetryRequest /\ ~ClientActs /\ ~Tick
    BY <1>1 DEF LookIsHeld, RetryRequest, Tick, RowFields,
                ClientActs, BytesRise, Queues, Resumes, Dies, GoesAway, ComesBack, Only
<1>7. PollStalls => row'.reason = "downloadStalled"
  <2>1. PollStalls => row' = TakenRow(row, "failed", row.status, "downloadStalled", 0)
      BY AfterEvents DEF PollStalls, Save, TakenRow
  <2> QED
      BY <1>3, <2>1
<1>8. LookFails \/ HoldRunsOut => row'.reason = "other"
  <2>1. LookFails \/ HoldRunsOut => row' = TakenRow(row, "failed", row.status, "other", 0)
      BY AfterEvents DEF LookFails, HoldRunsOut, Save, TakenRow
  <2> QED
      BY <1>3, <2>1
<1> QED
    BY <1>1, <1>2, <1>4, <1>5, <1>6, <1>7, <1>8 DEF Next, Look

(* A request fails as stalled only when its bytes stood still for a whole  *)
(* limit in which every look was answered in time, as long as no check     *)
(* takes back bytes: no outage passes for a stall (stallClock, stalled).   *)
THEOREM StallsAreReal ==
    ASSUME ~ChecksLose
    PROVE  Spec => StallIsReal
<1>1. ASSUME IInv, Next, Fails("downloadStalled")
      PROVE  still >= StallAfter /\ broken >= StallAfter
  <2>1. PollStalls
      BY <1>1, FailsAs
  <2>2. /\ Downloading /\ row.handle /\ client.bytes < Whole
        /\ StallClock(client.bytes) >= StallAfter
      BY <2>1 DEF PollStalls, Polls, StandsStill
  <2>3. /\ StallClock(client.bytes) <= still /\ StallClock(client.bytes) <= broken
        /\ StallClock(client.bytes) \in Ages /\ still \in Ages /\ broken \in Ages
      BY <1>1, <2>2, ClockIsSince DEF IInv, TypeOK
  <2> QED
      BY <2>2, <2>3 DEF Ages
<1>2. IInv /\ [Next]_vars =>
          [Fails("downloadStalled") => still >= StallAfter /\ broken >= StallAfter]_vars
    BY <1>1
<1> QED
    BY <1>2, Invariant, PTL DEF Spec, StallIsReal

(* An upstream that is away fails a request only after a whole hold with   *)
(* no answer and no retry (recordHeld).                                    *)
THEOREM HoldsAreWhole == Spec => HoldIsWhole
<1>1. ASSUME IInv, Next, Fails("other"), ~client.up
      PROVE  answered >= HoldAfter
  <2>1. HoldRunsOut
      BY <1>1, FailsAs DEF LookFails, Answered, PollStalls, Polls
  <2>2. row.heldSince # None /\ row.heldSince >= HoldAfter
      BY <2>1 DEF HoldRunsOut
  <2>3. row.heldSince <= answered /\ row.heldSince \in Ages /\ answered \in Ages
      BY <1>1, <2>2 DEF IInv, HeldNoLonger, TypeOK
  <2> QED
      BY <2>2, <2>3 DEF Ages
<1>2. IInv /\ [Next]_vars => [Fails("other") /\ ~client.up => answered >= HoldAfter]_vars
    BY <1>1
<1> QED
    BY <1>2, Invariant, PTL DEF Spec, HoldIsWhole
=============================================================================
