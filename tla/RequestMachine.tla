--------------------------- MODULE RequestMachine ---------------------------
(***************************************************************************)
(* The request machine of server/src/requests/machine.ts: where a request  *)
(* may go from where it stands.  Pure operators, which the advance job and *)
(* the request routes ask before they save what is answered.               *)
(*                                                                         *)
(* A state is a record: its status, and for a failure the step it failed   *)
(* in and the reason, both None otherwise.  A download's progress is left  *)
(* to the module DownloadClock, the only place it decides anything.        *)
(***************************************************************************)
EXTENDS Naturals, Sequences

CONSTANTS
    None       \* what the code writes null: no failed step, no release, no key

WorkingStatuses ==
    {"requested", "searching", "needsChoice", "queued", "downloading", "importing"}

Statuses == WorkingStatuses \cup {"inLibrary", "failed"}

(* The reasons the code tells apart: a stall keeps its download on a retry, *)
(* the others are one.                                                     *)
Reasons == {"downloadStalled", "other"}

(* Each medium's statuses in order.                                        *)
ROUTES ==
    LET choosing == <<"requested", "searching", "needsChoice", "queued",
                      "downloading", "importing", "inLibrary">>
    IN  [book    |-> choosing,
         album   |-> choosing,
         song    |-> <<"requested", "searching", "downloading", "importing", "inLibrary">>,
         podcast |-> <<"requested", "searching", "importing", "inLibrary">>]

OnPath(medium, status) == \E i \in DOMAIN ROUTES[medium] : ROUTES[medium][i] = status

(* A state on a route, which carries no failure.                           *)
Enter(status) == [status |-> status, failedStep |-> None, reason |-> None]

(* The statuses a step may move to: the one that follows, the one past a   *)
(* choice that is not needed, and a download to itself.                    *)
MovesFrom(medium, status) ==
    LET route == ROUTES[medium]
        Reaches(i, j) ==
            \/ j = i + 1
            \/ j = i + 2 /\ route[i + 1] = "needsChoice"
            \/ j = i /\ status = "downloading"
    IN  {to \in Statuses :
            /\ status # "needsChoice"
            /\ \E i, j \in DOMAIN route :
                  route[i] = status /\ route[j] = to /\ Reaches(i, j)}

(* The steps whose failure may give way to another release.                *)
PICK_ANOTHER_AFTER == {"queued", "downloading", "importing"}

OnRoute(medium, state) ==
    IF state.status = "failed" THEN OnPath(medium, state.failedStep)
                               ELSE OnPath(medium, state.status)

(* Where a picked release goes: the first status after searching that is   *)
(* not the choice.                                                         *)
AfterPicked(medium) ==
    LET route == ROUTES[medium]
        at    == CHOOSE i \in DOMAIN route : route[i] = "searching"
    IN  IF route[at + 1] = "needsChoice" THEN route[at + 2] ELSE route[at + 1]

(* What happened to a request.                                             *)
Moved(to)      == [type |-> "moved", to |-> to]
Failed(reason) == [type |-> "failed", reason |-> reason]
Retry          == [type |-> "retry"]
Chose          == [type |-> "chose"]
PickAnother    == [type |-> "pickAnother"]

(* Whether the machine takes an event from a failed state.                 *)
FromFailedAllowed(medium, state, event) ==
    \/ event = Retry
    \/ /\ event = PickAnother
       /\ OnPath(medium, "needsChoice")
       /\ state.failedStep \in PICK_ANOTHER_AFTER

(* Whether the machine takes an event: what the code answers null to it    *)
(* refuses.                                                                *)
Allowed(medium, state, event) ==
    /\ OnRoute(medium, state)
    /\ IF state.status = "failed"
       THEN FromFailedAllowed(medium, state, event)
       ELSE \/ event.type = "moved" /\ event.to \in MovesFrom(medium, state.status)
            \/ event.type = "failed" /\ state.status # "inLibrary"
            \/ event.type = "chose" /\ state.status = "needsChoice"

(* Where an allowed event leads.                                           *)
NextState(medium, state, event) ==
    CASE event.type = "moved"       -> Enter(event.to)
      [] event.type = "failed"      -> [status     |-> "failed",
                                        failedStep |-> state.status,
                                        reason     |-> event.reason]
      [] event.type = "retry"       -> Enter(state.failedStep)
      [] event.type = "chose"       -> Enter(AfterPicked(medium))
      [] event.type = "pickAnother" -> Enter("needsChoice")
=============================================================================
