--------------------------- MODULE RequestLifecycle ---------------------------
(***************************************************************************)
(* What the request machine promises of every request, whoever moves it:   *)
(* it is made at `requested`, moves only by events its medium's route      *)
(* takes (server/src/requests/machine.ts, next), and may be cancelled      *)
(* anywhere but in the library.  Nothing else ends one while the server    *)
(* runs; a restart may find it such as can no longer be read.              *)
(***************************************************************************)
EXTENDS RequestMachine

CONSTANTS
    Ids,       \* request ids
    Medium     \* the medium of every request

VARIABLES
    states,    \* where each request stands, None for no request
    restarts   \* how often the server restarted

Init == states = [id \in Ids |-> None] /\ restarts = 0

Make(id) ==
    /\ states[id] = None
    /\ states' = [states EXCEPT ![id] = Enter("requested")]

Events ==
    {Moved(to) : to \in Statuses} \cup {Failed(reason) : reason \in Reasons}
      \cup {Retry, Chose, PickAnother}

Takes(id, event) ==
    /\ states[id] # None
    /\ Allowed(Medium, states[id], event)
    /\ states' = [states EXCEPT ![id] = NextState(Medium, states[id], event)]

(* Two events in one turn of the server's loop: a failure that gives way,  *)
(* and a way back to the choice with the choice made at once.              *)
TakesBoth(id, first, second) ==
    /\ states[id] # None
    /\ Allowed(Medium, states[id], first)
    /\ LET between == NextState(Medium, states[id], first)
       IN  /\ Allowed(Medium, between, second)
           /\ states' = [states EXCEPT ![id] = NextState(Medium, between, second)]

Cancel(id) ==
    /\ states[id] # None /\ states[id].status # "inLibrary"
    /\ states' = [states EXCEPT ![id] = None]

Moves ==
    \E id \in Ids :
        \/ Make(id) \/ Cancel(id)
        \/ \E event \in Events : Takes(id, event)
        \/ TakesBoth(id, Failed("downloadStalled"), PickAnother)
        \/ TakesBoth(id, PickAnother, Chose)

(* Any of the requests may be lost to a restart on another schema.         *)
Restart ==
    /\ restarts' = restarts + 1
    /\ \E lost \in SUBSET Ids :
          states' = [id \in Ids |-> IF id \in lost THEN None ELSE states[id]]

Next == Restart \/ (Moves /\ UNCHANGED restarts)

Spec == Init /\ [][Next]_<<states, restarts>>
=============================================================================
