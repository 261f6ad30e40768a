------------------------------- MODULE OpenPlays -------------------------------
(***************************************************************************)
(* The plays the server holds open for one person                          *)
(* (server/src/routes/openPlays.ts), as the routes of play.ts drive them,  *)
(* and the place Auralis keeps itself for a household play                 *)
(* (server/src/store/heldProgress.ts).                                     *)
(*                                                                         *)
(* All plays here are of one ref.  Where the person's own account reaches  *)
(* it, a play tells that account's upstream, which may answer late, out of *)
(* turn or not at all; where it does not, a play is a household play and   *)
(* tells only Auralis's own row, at once.  The clock counts seconds; a     *)
(* report's place is its number.                                           *)
(***************************************************************************)
EXTENDS Integers, SequencesExt

CONSTANTS
    None,
    Devices,
    Plays,       \* bound: the plays ever opened
    Claims,      \* the listening a report may claim, true or bogus
    Slack,       \* LISTENED_SLACK_S
    Idle,        \* how long a play is held with nothing asked of it
    MaxSeq,      \* bound: a report's number
    MaxFlight,   \* bound: reports upstreams have not answered, at once
    MaxLost,     \* bound: the listening taken back with an answer lost
    MaxNow       \* bound: the clock

ASSUME OpenPlaysConstants ==
    /\ Slack \in Nat /\ Idle \in Nat /\ Claims \subseteq Nat
    /\ MaxSeq \in Nat /\ MaxFlight \in Nat /\ MaxLost \in Nat /\ MaxNow \in Nat

VARIABLES
    household,   \* whether the person's own account does not reach the ref
    now,
    held,        \* each play opened so far, and whether it is still held
    turns,       \* what each device's plans and closes wait to do, in order
    flight,      \* the reports an own account's upstream has not answered
    sweeping,    \* a sweep: when it began and the plays it has yet to look at
    row,         \* the place held_progress keeps: of which report, and when listened
    counted,     \* the listening each play's upstream counts
    lost,        \* history: how much of it is of reports taken back all the same
    listened     \* the newest household listening: when, and where it left the person

vars == <<household, now, held, turns, flight, sweeping, row, counted, lost, listened>>

OpenPlay ==
    [device : Devices, open : BOOLEAN, openedAt : Nat, lastSeen : Nat, lastReportAt : Nat,
     lastPosition : Nat \cup {None}, lastSeq : Nat \cup {None}, ahead : Nat]
Turns == [kind : {"open", "end"}, play : Plays, toClose : (SUBSET Plays) \cup {None}]
InFlight ==
    [play : Plays, seq : Nat, listened : Nat, lastSeq : Nat \cup {None}, ahead : Nat, lastReportAt : Nat]
Places == [place : Plays \X Nat, at : Nat]

ASSUME RecordsAreSomething ==
    /\ None \notin OpenPlay /\ None \notin Places /\ None \notin Nat
    /\ \A plays \in SUBSET Plays : plays # None

TypeOK ==
    /\ household \in BOOLEAN /\ now \in Nat
    /\ held \in [Plays -> OpenPlay \cup {None}]
    /\ turns \in [Devices -> Seq(Turns)]
    /\ flight \subseteq InFlight
    /\ sweeping \in [at : Nat, plays : SUBSET Plays] \cup {None}
    /\ row \in Places \cup {None}
    /\ counted \in [Plays -> Nat] /\ lost \in [Plays -> Nat]
    /\ listened \in [place : (Plays \X Nat) \cup {None}, at : Nat]

Held(p) == held[p] # None /\ held[p].open
On(d) == {p \in Plays : Held(p) /\ held[p].device = d}
Lower(a, b) == IF a < b THEN a ELSE b
Higher(a, b) == IF a > b THEN a ELSE b

(* ------------------------------ held_progress ---------------------------- *)
(* Keeps a place unless what is held is newer.                             *)
Kept(place, at) == IF row = None \/ at >= row.at THEN [place |-> place, at |-> at] ELSE row

(* ------------------------------ Closing one ------------------------------ *)
(* Where the last report taken left the person, adding no listening.       *)
LastTaken(p) == held[p].lastPosition

(* A bug: a close nobody asked for is as new as the moment it is made.      *)
End_Anew(p) ==
    /\ held' = [held EXCEPT ![p].open = FALSE]
    /\ row' = IF LastTaken(p) # None /\ household THEN Kept(<<p, LastTaken(p)>>, now) ELSE row
    /\ UNCHANGED <<flight, counted, lost, listened>>

(* Stops holding p and closes it, once more if something closed it before. *)
End(p) ==
    /\ held' = [held EXCEPT ![p].open = FALSE]
    /\ row' = IF LastTaken(p) # None /\ household
              THEN Kept(<<p, LastTaken(p)>>, held[p].lastReportAt) ELSE row
    /\ UNCHANGED <<flight, counted, lost, listened>>

(* ---------------------------- A device's turns --------------------------- *)
(* A play is asked for: it is taken once every plan its device asked for   *)
(* before is.                                                              *)
AskPlan(d, p) ==
    /\ held[p] = None
    /\ \A e \in Devices : \A n \in DOMAIN turns[e] : turns[e][n].play # p
    /\ turns' = [turns EXCEPT ![d] =
          Append(@, [kind |-> "open", play |-> p, toClose |-> None])]
    /\ UNCHANGED <<household, now, held, flight, sweeping, row, counted, lost, listened>>

(* Every play opened no later than before is closed, in its device's turn. *)
CloseHeld(before) ==
    /\ \E p \in Plays : Held(p) /\ held[p].openedAt <= before
    /\ \A d \in Devices : \A n \in DOMAIN turns[d] : turns[d][n].kind = "open"
    /\ turns' = [d \in Devices |->
          LET old == {p \in On(d) : held[p].openedAt <= before}
          IN  IF old = {} THEN turns[d]
              ELSE Append(turns[d], [kind |-> "end", play |-> CHOOSE p \in old : TRUE, toClose |-> None])]
    /\ UNCHANGED <<household, now, held, flight, sweeping, row, counted, lost, listened>>

(* A bug: a device's plans do not wait for one another.                     *)
UnderWay_All(d) == DOMAIN turns[d]

(* The turns under way on a device: one at a time, in order.               *)
UnderWay(d) == {1} \cap DOMAIN turns[d]

(* A plan finds what its device holds as its turn comes, closes each, then, *)
(* the closes answered, holds its own.                                     *)
PlanLooks(d, n) ==
    /\ turns[d][n].kind = "open" /\ turns[d][n].toClose = None
    /\ turns' = [turns EXCEPT ![d][n].toClose = On(d)]
    /\ UNCHANGED <<household, now, held, flight, sweeping, row, counted, lost, listened>>

PlanCloses(d, n) ==
    /\ turns[d][n].kind = "open" /\ turns[d][n].toClose # None
    /\ \E p \in turns[d][n].toClose :
          /\ End(p)
          /\ turns' = [turns EXCEPT ![d][n].toClose = @ \ {p}]
    /\ UNCHANGED <<household, now, sweeping>>

PlanHolds(d, n) ==
    /\ turns[d][n].kind = "open" /\ turns[d][n].toClose = {}
    /\ turns' = [turns EXCEPT ![d] = RemoveAt(@, n)]
    /\ held' = [held EXCEPT ![turns[d][n].play] =
          [device |-> d, open |-> TRUE,
           openedAt |-> now, lastSeen |-> now, lastReportAt |-> now,
           lastPosition |-> None, lastSeq |-> None, ahead |-> 0]]
    /\ UNCHANGED <<household, now, flight, sweeping, row, counted, lost, listened>>

(* closeHeld's turn: the play may have been closed while it waited.        *)
TurnEnds(d, n) ==
    /\ turns[d][n].kind = "end"
    /\ turns' = [turns EXCEPT ![d] = RemoveAt(@, n)]
    /\ IF Held(turns[d][n].play) THEN End(turns[d][n].play)
       ELSE UNCHANGED <<held, row, flight, counted, lost, listened>>
    /\ UNCHANGED <<household, now, sweeping>>

(* -------------------------------- Reports -------------------------------- *)
(* The listening counted: within the time since the last report taken, and *)
(* what is left of the slack.                                              *)
Elapsed(p) == Higher(0, now - held[p].lastReportAt)
(* A bug: every report may use the whole slack.                             *)
Bounded_WholeSlack(p, claim) == Lower(claim, Elapsed(p) + Slack)

Bounded(p, claim) == Lower(claim, Higher(0, Elapsed(p) + Slack - held[p].ahead))
Ahead(p, claim) == Higher(0, held[p].ahead + Bounded(p, claim) - Elapsed(p))

Stale(p, seq) == held[p].lastSeq # None /\ seq <= held[p].lastSeq

(* A household play's listening is kept at once, and is its newest.        *)
Listened(p, seq) ==
    /\ row' = Kept(<<p, seq>>, now)
    /\ listened' = [place |-> <<p, seq>>, at |-> now]

(* A report is taken before its upstream answers.                          *)
Report(p, seq, claim) ==
    /\ Held(p)
    /\ IF Stale(p, seq)
       THEN /\ held' = [held EXCEPT ![p].lastSeen = now]
            /\ UNCHANGED <<flight, row, counted, lost, listened>>
       ELSE LET taken == [held[p] EXCEPT !.lastSeen = now, !.lastSeq = seq,
                                         !.lastReportAt = now, !.ahead = Ahead(p, claim)]
            IN  IF household
                THEN /\ held' = [held EXCEPT ![p] = [taken EXCEPT !.lastPosition = seq]]
                     /\ Listened(p, seq)
                     /\ UNCHANGED <<flight, counted, lost>>
                ELSE /\ Cardinality(flight) < MaxFlight
                     /\ held' = [held EXCEPT ![p] = taken]
                     /\ flight' = flight \cup
                          {[play |-> p, seq |-> seq, listened |-> Bounded(p, claim),
                            lastSeq |-> held[p].lastSeq, ahead |-> held[p].ahead,
                            lastReportAt |-> held[p].lastReportAt]}
                     /\ UNCHANGED <<row, counted, lost, listened>>
    /\ UNCHANGED <<household, now, turns, sweeping>>

(* A stream of the play is asked for.                                      *)
Touch(p) ==
    /\ Held(p)
    /\ held' = [held EXCEPT ![p].lastSeen = now]
    /\ UNCHANGED <<household, now, turns, flight, sweeping, row, counted, lost, listened>>

(* The upstream takes a report: a newer one meanwhile keeps its position.  *)
Answered(f) ==
    /\ flight' = flight \ {f}
    /\ counted' = [counted EXCEPT ![f.play] = @ + f.listened]
    /\ held' = IF held[f.play].lastSeq = f.seq
               THEN [held EXCEPT ![f.play].lastPosition = f.seq] ELSE held
    /\ UNCHANGED <<household, now, turns, sweeping, row, lost, listened>>

(* No answer: what the report had taken is given back, unless a newer one  *)
(* was taken meanwhile, and the client reports the same listening again.   *)
TakenBack(f) ==
    held' = IF held[f.play].lastSeq = f.seq
            THEN [held EXCEPT ![f.play].lastSeq = f.lastSeq, ![f.play].ahead = f.ahead,
                              ![f.play].lastReportAt = f.lastReportAt]
            ELSE held

(* The upstream is not reached, or refuses.                                *)
Failed(f) ==
    /\ flight' = flight \ {f}
    /\ TakenBack(f)
    /\ UNCHANGED <<household, now, turns, sweeping, row, counted, lost, listened>>

(* The upstream takes the report, but its answer is lost or comes past its *)
(* limit.  The code cannot tell, and takes the report back.                *)
AnswerLost(f) ==
    /\ SumFunctionOnSet(lost, Plays) + f.listened <= MaxLost
    /\ flight' = flight \ {f}
    /\ TakenBack(f)
    /\ counted' = [counted EXCEPT ![f.play] = @ + f.listened]
    /\ lost' = IF held[f.play].lastSeq = f.seq
               THEN [lost EXCEPT ![f.play] = @ + f.listened] ELSE lost
    /\ UNCHANGED <<household, now, turns, sweeping, row, listened>>

(* The client closes its play, with a last report or none; one no newer    *)
(* than a report taken closes where that left the person.                  *)
Finish(p, seq, claim) ==
    /\ Held(p)
    /\ IF seq = None \/ Stale(p, IF seq = None THEN 0 ELSE seq)
       THEN /\ row' = IF seq # None /\ LastTaken(p) # None /\ household
                      THEN Kept(<<p, LastTaken(p)>>, held[p].lastReportAt) ELSE row
            /\ UNCHANGED <<counted, listened>>
       ELSE IF ~household
       THEN /\ counted' = [counted EXCEPT ![p] = @ + Bounded(p, claim)]
            /\ UNCHANGED <<row, listened>>
       ELSE /\ IF Bounded(p, claim) > 0 THEN Listened(p, seq)
               ELSE row' = Kept(<<p, seq>>, held[p].lastReportAt) /\ UNCHANGED listened
            /\ UNCHANGED counted
    /\ held' = [held EXCEPT ![p].open = FALSE]
    /\ UNCHANGED <<household, now, turns, flight, sweeping, lost>>

(* ---------------------------------- Sweeps ------------------------------- *)
(* A request sweeps first: it closes each play idle as it came, each once  *)
(* the close before is answered, unless that play was asked for meanwhile. *)
IdleAt(at, p) == at - held[p].lastSeen > Idle

Sweep ==
    /\ sweeping = None
    /\ sweeping' = [at |-> now, plays |-> {p \in Plays : Held(p) /\ IdleAt(now, p)}]
    /\ sweeping'.plays # {}
    /\ UNCHANGED <<household, now, held, turns, flight, row, counted, lost, listened>>

SweepLooks ==
    /\ sweeping # None
    /\ \E p \in sweeping.plays :
          /\ sweeping' = IF sweeping.plays = {p} THEN None
                         ELSE [sweeping EXCEPT !.plays = @ \ {p}]
          /\ IF IdleAt(sweeping.at, p) THEN End(p)
             ELSE UNCHANGED <<held, row, flight, counted, lost, listened>>
    /\ UNCHANGED <<household, now, turns>>

Tick ==
    /\ now < MaxNow
    /\ now' = now + 1
    /\ UNCHANGED <<household, held, turns, flight, sweeping, row, counted, lost, listened>>

Init ==
    /\ household \in BOOLEAN
    /\ now = 0
    /\ held = [p \in Plays |-> None]
    /\ turns = [d \in Devices |-> <<>>]
    /\ flight = {} /\ sweeping = None /\ row = None
    /\ counted = [p \in Plays |-> 0] /\ lost = [p \in Plays |-> 0]
    /\ listened = [place |-> None, at |-> 0]

Next ==
    \/ \E d \in Devices, p \in Plays : AskPlan(d, p)
    \/ \E before \in 0..now : CloseHeld(before)
    \/ \E d \in Devices : \E n \in UnderWay(d) :
          PlanLooks(d, n) \/ PlanCloses(d, n) \/ PlanHolds(d, n) \/ TurnEnds(d, n)
    \/ \E p \in Plays : Touch(p)
    \/ \E p \in Plays : \E claim \in Claims :
          \/ \E seq \in 0..MaxSeq : Report(p, seq, claim)
          \/ \E seq \in (0..MaxSeq) \cup {None} : Finish(p, seq, claim)
    \/ \E f \in flight : Answered(f) \/ Failed(f) \/ AnswerLost(f)
    \/ Sweep \/ SweepLooks \/ Tick

Spec == Init /\ [][Next]_vars

(* ------------------------------ Properties ------------------------------- *)
(* A device holds at most one play, however many it asks for at once.      *)
OneHeldPerDevice == \A d \in Devices : Cardinality(On(d)) <= 1

(* What an upstream counts as listened to a play is never more than there  *)
(* was time for, but for the slack once over all its reports (answered,    *)
(* failed and sent again, or still under way) and, once more, what reports *)
(* brought whose answer was lost: their listening is reported again.       *)
ListenedInTime ==
    \A p \in Plays : held[p] # None =>
        counted[p] <= now - held[p].openedAt + Slack + lost[p]

(* No close displaces where later listening left the person, whichever     *)
(* device's play closes last: what is kept is the newest listening's, or   *)
(* another's as recent.                                                    *)
KeepsNewest ==
    row # None =>
        /\ row.at >= listened.at
        /\ \/ row.place = listened.place
           \/ held[row.place[1]].lastReportAt = row.at

(* ------------------------ The inductive invariant ------------------------ *)
(* Whatever waits to be answered, swept or closed was opened once.         *)
WaitsForOpened ==
    /\ \A f \in flight : held[f.play] # None
    /\ sweeping # None => \A p \in sweeping.plays : held[p] # None
    /\ \A d \in Devices : \A n \in DOMAIN turns[d] :
          turns[d][n].toClose # None => \A p \in turns[d][n].toClose : held[p] # None

(* A play that waits to be opened was not opened, and waits once.          *)
OpenedOnce ==
    \A d \in Devices : \A n \in DOMAIN turns[d] : turns[d][n].kind = "open" =>
        /\ held[turns[d][n].play] = None
        /\ \A e \in Devices : \A m \in DOMAIN turns[e] :
              turns[e][m].kind = "open" /\ turns[e][m].play = turns[d][n].play => d = e /\ n = m

(* Only the first turn of a device has looked, and from then on the device *)
(* holds nothing but what that turn is yet to close.                       *)
LooksInTurn ==
    \A d \in Devices : \A n \in DOMAIN turns[d] : turns[d][n].toClose # None =>
        n = 1 /\ (turns[d][n].kind = "open" => On(d) \subseteq turns[d][n].toClose)

HoldsOne ==
    \A p, q \in Plays : Held(p) /\ Held(q) /\ held[p].device = held[q].device => p = q

(* The place kept is of a play there was, no newer than now, and there is  *)
(* one from the first listening on; only a household play keeps one.       *)
PlaceIsOfPlay ==
    IF ~household THEN row = None
    ELSE /\ flight = {}
         /\ \A p \in Plays : held[p] # None => held[p].lastReportAt <= now
         /\ IF row = None THEN listened.at = 0
            ELSE row.at <= now /\ held[row.place[1]] # None

IInv ==
    TypeOK /\ WaitsForOpened /\ OpenedOnce /\ LooksInTurn /\ HoldsOne /\ PlaceIsOfPlay /\ KeepsNewest

(* ------------------- What ListenedInTime rests on beside ----------------- *)
(* What an upstream counts of a play but for reports taken back, with what *)
(* reports on their way bring.                                             *)
Once == [p \in Plays |-> counted[p] - lost[p]]
Brought == [f \in InFlight |-> f.listened]
ReportsOf(p) == {f \in flight : f.play = p}
Granted(p) == Once[p] + SumFunctionOnSet(Brought, ReportsOf(p))

(* The listening there may be up to a report, with what went ahead of it.  *)
Due(p, at, ahead) == at - held[p].openedAt + ahead

(* Nothing is counted of a play before it is opened, nothing lost that was *)
(* not counted, and no clock is ahead.                                     *)
ClocksFit ==
    /\ IsFiniteSet(flight) /\ Once \in [Plays -> Nat]
    /\ \A p \in Plays :
          IF held[p] = None THEN Once[p] = 0
          ELSE held[p].lastReportAt <= now /\ held[p].ahead <= Slack
    /\ \A f \in flight : f.lastReportAt <= now /\ f.ahead <= Slack

(* The reports on their way are of different numbers, none above the last  *)
(* one taken, and each was taken after those below it.                     *)
ReportsInOrder ==
    \A f \in flight :
        /\ Held(f.play) => held[f.play].lastSeq # None /\ f.seq <= held[f.play].lastSeq
        /\ f.lastSeq # None => f.lastSeq < f.seq
        /\ \A g \in flight \ {f} : g.play = f.play =>
              /\ g.seq # f.seq
              /\ f.seq < g.seq => g.lastSeq # None /\ f.seq <= g.lastSeq

(* With what was granted before each report on its way: no more is granted *)
(* than is due, and taking the last report back leaves what was due before.*)
GrantedInTime(before) ==
    /\ \A p \in Plays : held[p] # None =>
          /\ Granted(p) <= now - held[p].openedAt + Slack
          /\ Held(p) => Granted(p) <= Due(p, held[p].lastReportAt, held[p].ahead)
    /\ \A f \in flight :
          /\ before[f] <= Due(f.play, f.lastReportAt, f.ahead)
          /\ Held(f.play) /\ held[f.play].lastSeq = f.seq =>
                Granted(f.play) <= before[f] + f.listened
          /\ \A g \in flight : g.play = f.play /\ g.lastSeq = f.seq =>
                before[g] <= before[f] + f.listened

TimeInv ==
    /\ ClocksFit /\ ReportsInOrder
    /\ \E before \in [flight -> 0..(now + Slack)] : GrantedInTime(before)
=============================================================================
