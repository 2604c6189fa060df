----------------------------- MODULE ActionQueue -----------------------------
(***************************************************************************)
(* The player actions of one session: their submission, the per-process    *)
(* loop that claims and executes them one after another, the rest requests *)
(* that wait for a human GM, and the turn logs all of them write.          *)
(*                                                                         *)
(* Each await on the database ends an action of the model, so a request or *)
(* a loop can be overtaken there; what it has read is kept in requests[r]  *)
(* or loops[p].  The transaction that executes an action is two steps,     *)
(* Check and Commit, with the session's advisory lock held in between.     *)
(***************************************************************************)
EXTENDS Naturals, Sequences

CONSTANTS
    Processes,   \* server processes (docker-compose.yml runs one)
    Requests,    \* HTTP requests and other log writers in flight at once
    MaxActions,  \* bound: player actions
    MaxLogs,     \* bound: turn logs at which nobody else writes another
    MaxCrashes   \* bound: crashes of a process

ASSUME ActionQueueAssumption ==
    /\ MaxActions \in Nat
    /\ MaxLogs \in Nat
    /\ MaxCrashes \in Nat

VARIABLES
    session,   \* the session row; DORMANT stands for LOBBY_OPEN too
    actions,   \* the PlayerAction rows, in the order of createdAt
    logs,      \* the TurnLog rows, in the order of turnNumber
    loops,     \* processNext in each process
    requests,  \* what each request in flight has read
    crashes    \* crashes so far

vars == <<session, actions, logs, loops, requests, crashes>>

Actions == 1..MaxActions
NoAction == 0

Session == [activity: {"PLAYING", "DORMANT", "DISBANDED"},
            status: {"PLAYING", "PAUSED", "DISBANDED"}]

QueueStatus == {"NONE", "PENDING", "PROCESSING", "COMPLETED", "FAILED", "REJECTED"}
Decided == {"COMPLETED", "FAILED"}
\* rest: a rest request, REJECTED while it waits for the GM.
Row == [status: QueueStatus, reason: {"none", "PLAY_FINISHED", "error", "declined"},
        rest: BOOLEAN]
NoRow == [status |-> "NONE", reason |-> "none", rest |-> FALSE]

Log == [action: Actions \cup {NoAction}, kind: {"success", "failure", "other"}]

\* turn: the turnNumber that getNextTurnNumber has returned.
Loop == [at: {"idle", "look", "take", "empty", "process", "transaction", "finished",
              "fail", "mark", "write"},
         action: Actions \cup {NoAction}, turn: Nat, again: BOOLEAN]
IdleLoop == [at |-> "idle", action |-> NoAction, turn |-> 0, again |-> FALSE]

Request == [op: {"idle", "submit", "rest", "kick", "approve", "decline", "log", "write"},
            process: Processes, action: Actions \cup {NoAction}, turn: Nat]
IdleRequest(p) == [op |-> "idle", process |-> p, action |-> NoAction, turn |-> 0]

TypeOK ==
    /\ session \in Session
    /\ actions \in [Actions -> Row]
    /\ logs \in Seq(Log)
    /\ loops \in [Processes -> Loop]
    /\ requests \in [Requests -> Request]
    /\ crashes \in Nat

Init ==
    /\ session = [activity |-> "PLAYING", status |-> "PLAYING"]
    /\ actions = [a \in Actions |-> NoRow]
    /\ logs = <<>>
    /\ loops = [p \in Processes |-> IdleLoop]
    /\ requests \in [Requests -> {IdleRequest(p) : p \in Processes}]
    /\ crashes = 0
-----------------------------------------------------------------------------
Begin(r, request) == requests[r].op = "idle" /\ requests' = [requests EXCEPT ![r] = request]
Serving(r, op) == requests[r].op = op
\* The next request of this slot may reach any of the processes.
Respond(r) == \E p \in Processes : requests' = [requests EXCEPT ![r] = IdleRequest(p)]
Call(r) ==
    requests' = [requests EXCEPT ![r] = [IdleRequest(requests[r].process) EXCEPT !.op = "kick"]]

LatestTurn == Len(logs) - 1

\* getNextTurnNumber.
NextTurn == Len(logs) + 1
\* The unique (sessionId, turnNumber) lets only the first writer of a number in.
TurnFree(turn) == turn = NextTurn

Write(a, kind) == logs' = Append(logs, [action |-> a, kind |-> kind])

Create(a, status) ==
    /\ actions[a].status = "NONE"
    /\ \A b \in 1..(a - 1) : actions[b].status # "NONE"
    /\ actions' = [actions EXCEPT ![a] =
                      [NoRow EXCEPT !.status = status, !.rest = (status = "REJECTED")]]

\* submitAction, submitRestAction: the session is read and the caller checked.
SubmitRead(r, op) ==
    /\ session.status = "PLAYING"
    /\ Begin(r, [requests[r] EXCEPT !.op = op])
    /\ UNCHANGED <<session, actions, logs, loops, crashes>>

\* submitPendingAction: the row is created, then processNext is called.
SubmitCreate(r, a) ==
    /\ Serving(r, "submit")
    /\ Create(a, "PENDING")
    /\ Call(r)
    /\ UNCHANGED <<session, logs, loops, crashes>>

\* recordHumanGmRequest: the row is created REJECTED, then a turn log.
RestCreate(r, a) ==
    /\ Serving(r, "rest")
    /\ Create(a, "REJECTED")
    /\ requests' = [requests EXCEPT ![r].op = "log", ![r].action = a]
    /\ UNCHANGED <<session, logs, loops, crashes>>

KickAlways(r) ==
    LET p == requests[r].process IN
    /\ Serving(r, "kick")
    /\ IF loops[p].at = "idle"
       THEN loops' = [loops EXCEPT ![p].at = "look"]
       ELSE UNCHANGED loops
    /\ Respond(r)
    /\ UNCHANGED <<session, actions, logs, crashes>>

\* processNext: one loop per process; a call that finds it running leaves word.
Kick(r) ==
    LET p == requests[r].process IN
    /\ Serving(r, "kick")
    /\ IF loops[p].at = "idle"
       THEN loops' = [loops EXCEPT ![p].at = "look"]
       ELSE loops' = [loops EXCEPT ![p].again = TRUE]
    /\ Respond(r)
    /\ UNCHANGED <<session, actions, logs, crashes>>

\* getApprovalAction and rejectIfExpired: approve, reject and cancel; a request
\* older than 24 hours is declined, by whichever of them comes upon it.
DecisionRead(r, a, op) ==
    /\ session.status = "PLAYING"
    /\ actions[a].status = "REJECTED"
    /\ Begin(r, [requests[r] EXCEPT !.op = op, !.action = a])
    /\ UNCHANGED <<session, actions, logs, loops, crashes>>

ApproveUnclaimed(r) ==
    LET a == requests[r].action IN
    /\ Serving(r, "approve")
    /\ actions' = [actions EXCEPT ![a].status = "PENDING", ![a].reason = "none"]
    /\ Call(r)
    /\ UNCHANGED <<session, logs, loops, crashes>>

\* approve: the updateMany matches only a request that still waits.
Approve(r) ==
    LET a == requests[r].action IN
    /\ Serving(r, "approve")
    /\ IF actions[a].status = "REJECTED"
       THEN /\ actions' = [actions EXCEPT ![a].status = "PENDING", ![a].reason = "none"]
            /\ Call(r)
       ELSE Respond(r) /\ UNCHANGED actions
    /\ UNCHANGED <<session, logs, loops, crashes>>

\* rejectOrCancel, expire: the same claim, then createResolutionLog.
Decline(r) ==
    LET a == requests[r].action IN
    /\ Serving(r, "decline")
    /\ IF actions[a].status = "REJECTED"
       THEN /\ actions' = [actions EXCEPT ![a].status = "FAILED", ![a].reason = "declined"]
            /\ requests' = [requests EXCEPT ![r].op = "log"]
       ELSE Respond(r) /\ UNCHANGED actions
    /\ UNCHANGED <<session, logs, loops, crashes>>

\* createTurnLog outside a transaction, also by the combat and the main
\* commands: the latest number is read, then the next one is written.
OtherLog(r) ==
    /\ Len(logs) < MaxLogs
    /\ Begin(r, [requests[r] EXCEPT !.op = "log"])
    /\ UNCHANGED <<session, actions, logs, loops, crashes>>

LogRead(r) ==
    /\ Serving(r, "log")
    /\ requests' = [requests EXCEPT ![r].op = "write", ![r].turn = NextTurn]
    /\ UNCHANGED <<session, actions, logs, loops, crashes>>

LogWrite(r) ==
    /\ Serving(r, "write")
    /\ IF TurnFree(requests[r].turn)
       THEN Write(requests[r].action, "other")
       ELSE UNCHANGED logs
    /\ Respond(r)
    /\ UNCHANGED <<session, actions, loops, crashes>>
-----------------------------------------------------------------------------
At(p, at) == loops[p].at = at
GoTo(p, at) == loops' = [loops EXCEPT ![p].at = at]
NextRound(p) == loops' = [loops EXCEPT ![p].at = "look", ![p].action = NoAction, ![p].turn = 0]

Pending == {a \in Actions : actions[a].status = "PENDING"}
Oldest == {a \in Pending : \A b \in Pending : a <= b}
Newest == {a \in Pending : \A b \in Pending : a >= b}

LookNewest(p) ==
    /\ At(p, "look")
    /\ \/ Pending = {} /\ GoTo(p, "empty")
       \/ \E a \in Newest : loops' = [loops EXCEPT ![p].at = "take", ![p].action = a]
    /\ UNCHANGED <<session, actions, logs, requests, crashes>>

\* claimNextPendingAction, its findFirst.
Look(p) ==
    /\ At(p, "look")
    /\ \/ Pending = {} /\ GoTo(p, "empty")
       \/ \E a \in Oldest : loops' = [loops EXCEPT ![p].at = "take", ![p].action = a]
    /\ UNCHANGED <<session, actions, logs, requests, crashes>>

TakeUnclaimed(p) ==
    LET a == loops[p].action IN
    /\ At(p, "take")
    /\ actions' = [actions EXCEPT ![a].status = "PROCESSING"]
    /\ GoTo(p, "process")
    /\ UNCHANGED <<session, logs, requests, crashes>>

TakeUndecided(p) ==
    LET a == loops[p].action IN
    /\ At(p, "take")
    /\ IF actions[a].status \notin Decided
       THEN /\ actions' = [actions EXCEPT ![a].status = "PROCESSING"]
            /\ GoTo(p, "process")
       ELSE /\ loops' = [loops EXCEPT ![p].at = "empty", ![p].action = NoAction]
            /\ UNCHANGED actions
    /\ UNCHANGED <<session, logs, requests, crashes>>

\* Its updateMany; a lost claim counts as an empty queue.
Take(p) ==
    LET a == loops[p].action IN
    /\ At(p, "take")
    /\ IF actions[a].status = "PENDING"
       THEN /\ actions' = [actions EXCEPT ![a].status = "PROCESSING"]
            /\ GoTo(p, "process")
       ELSE /\ loops' = [loops EXCEPT ![p].at = "empty", ![p].action = NoAction]
            /\ UNCHANGED actions
    /\ UNCHANGED <<session, logs, requests, crashes>>

LeaveForgetting(p) ==
    /\ At(p, "empty")
    /\ loops' = [loops EXCEPT ![p] = IdleLoop]
    /\ UNCHANGED <<session, actions, logs, requests, crashes>>

\* Nothing was claimed: once more if a call left word meanwhile.
Leave(p) ==
    /\ At(p, "empty")
    /\ loops' = [loops EXCEPT ![p].at = IF loops[p].again THEN "look" ELSE "idle",
                              ![p].again = FALSE]
    /\ UNCHANGED <<session, actions, logs, requests, crashes>>

\* processAction before its transaction: no actor, a precondition that fails.
ProcessFails(p) ==
    /\ At(p, "process")
    /\ GoTo(p, "fail")
    /\ UNCHANGED <<session, actions, logs, requests, crashes>>

Locked == \E p \in Processes : At(p, "transaction")

CheckPlayOnly(p) ==
    LET a == loops[p].action IN
    /\ At(p, "process")
    /\ ~ Locked
    /\ IF session.activity = "PLAYING"
       THEN loops' = [loops EXCEPT ![p].at = "transaction", ![p].turn = NextTurn]
       ELSE GoTo(p, "finished")
    /\ UNCHANGED <<session, actions, logs, requests, crashes>>

\* The transaction takes the lock, checks again, and finds its turn number.
Check(p) ==
    LET a == loops[p].action IN
    /\ At(p, "process")
    /\ ~ Locked
    /\ IF session.activity = "PLAYING" /\ actions[a].status = "PROCESSING"
       THEN loops' = [loops EXCEPT ![p].at = "transaction", ![p].turn = NextTurn]
       ELSE GoTo(p, "finished")
    /\ UNCHANGED <<session, actions, logs, requests, crashes>>

\* The effects, the turn log and COMPLETED commit together, unless the turn
\* number was taken meanwhile.
Commit(p) ==
    LET a == loops[p].action IN
    /\ At(p, "transaction")
    /\ TurnFree(loops[p].turn)
    /\ Write(a, "success")
    /\ actions' = [actions EXCEPT ![a].status = "COMPLETED", ![a].reason = "none"]
    /\ NextRound(p)
    /\ UNCHANGED <<session, requests, crashes>>

RollbackKeepsLog(p) ==
    /\ At(p, "transaction")
    /\ loops' = [loops EXCEPT ![p].at = "fail", ![p].turn = 0]
    /\ Write(loops[p].action, "success")
    /\ UNCHANGED <<session, actions, requests, crashes>>

\* A turn number or a state version in conflict, an effect that throws.
Rollback(p) ==
    /\ At(p, "transaction")
    /\ loops' = [loops EXCEPT ![p].at = "fail", ![p].turn = 0]
    /\ UNCHANGED <<session, actions, logs, requests, crashes>>

\* The PLAY_FINISHED branch of processClaimedAction.
Discard(p) ==
    LET a == loops[p].action IN
    /\ At(p, "finished")
    /\ IF actions[a].status = "PROCESSING"
       THEN actions' = [actions EXCEPT ![a].status = "FAILED", ![a].reason = "PLAY_FINISHED"]
       ELSE UNCHANGED actions
    /\ NextRound(p)
    /\ UNCHANGED <<session, logs, requests, crashes>>

\* Any other error: FAILED, whatever the row says by now.
Fail(p) ==
    LET a == loops[p].action IN
    /\ At(p, "fail")
    /\ actions' = [actions EXCEPT ![a].status = "FAILED", ![a].reason = "error"]
    /\ GoTo(p, "mark")
    /\ UNCHANGED <<session, logs, requests, crashes>>

LogsOf(a) == {i \in 1..Len(logs) : logs[i].action = a}
LatestOf(a) == {i \in LogsOf(a) : \A j \in LogsOf(a) : j <= i}

\* markLatestPlayerActionFailed rewrites the action's latest turn log; without
\* one, createFailureTurnLog goes on to write a new one.
Mark(p) ==
    LET a == loops[p].action IN
    /\ At(p, "mark")
    /\ \/ \E i \in LatestOf(a) : logs' = [logs EXCEPT ![i].kind = "failure"] /\ NextRound(p)
       \/ /\ LogsOf(a) = {}
          /\ loops' = [loops EXCEPT ![p].at = "write", ![p].turn = NextTurn]
          /\ UNCHANGED logs
    /\ UNCHANGED <<session, actions, requests, crashes>>

\* A turn number that was taken meanwhile is only logged as a warning.
WriteFailure(p) ==
    /\ At(p, "write")
    /\ IF TurnFree(loops[p].turn)
       THEN Write(loops[p].action, "failure")
       ELSE UNCHANGED logs
    /\ NextRound(p)
    /\ UNCHANGED <<session, actions, requests, crashes>>
-----------------------------------------------------------------------------
FinishUnlocked ==
    /\ session.activity # "DISBANDED"
    /\ session' = [session EXCEPT !.activity = "DORMANT", !.status = "PAUSED"]
    /\ actions' = [a \in Actions |->
           IF actions[a].status \in {"PENDING", "PROCESSING"}
           THEN [actions[a] EXCEPT !.status = "FAILED", !.reason = "PLAY_FINISHED"]
           ELSE actions[a]]
    /\ UNCHANGED <<logs, loops, requests, crashes>>

\* finishPlay, of a play or of an opened lobby: under the session's lock it
\* fails what waits in the queue and what is in hand.
FinishPlay ==
    /\ session.activity # "DISBANDED"
    /\ ~ Locked
    /\ session' = [session EXCEPT !.activity = "DORMANT", !.status = "PAUSED"]
    /\ actions' = [a \in Actions |->
           IF actions[a].status \in {"PENDING", "PROCESSING"}
           THEN [actions[a] EXCEPT !.status = "FAILED", !.reason = "PLAY_FINISHED"]
           ELSE actions[a]]
    /\ UNCHANGED <<logs, loops, requests, crashes>>

\* The lobby of the next play opened, and startSession.
StartSession ==
    /\ session.activity = "DORMANT"
    /\ ~ Locked
    /\ session' = [activity |-> "PLAYING", status |-> "PLAYING"]
    /\ UNCHANGED <<actions, logs, loops, requests, crashes>>

\* disbandSession takes no lock and leaves the player actions as they are.
DisbandSession ==
    /\ session.activity # "DISBANDED"
    /\ session' = [session EXCEPT !.activity = "DISBANDED", !.status = "DISBANDED"]
    /\ UNCHANGED <<actions, logs, loops, requests, crashes>>

\* The start or the end of a combat sets the status, whatever the activity.
CombatSetsPlaying ==
    /\ session.activity = "DORMANT"
    /\ session.status # "PLAYING"
    /\ session' = [session EXCEPT !.status = "PLAYING"]
    /\ UNCHANGED <<actions, logs, loops, requests, crashes>>

\* A process stops: its loop, its flags, its requests and its open transaction
\* are gone; an action it had claimed stays PROCESSING.
Crash(p) ==
    /\ crashes < MaxCrashes
    /\ crashes' = crashes + 1
    /\ loops' = [loops EXCEPT ![p] = IdleLoop]
    /\ requests' = [r \in Requests |->
           IF requests[r].process = p THEN IdleRequest(p) ELSE requests[r]]
    /\ UNCHANGED <<session, actions, logs>>
-----------------------------------------------------------------------------
Serve(r) ==
    \/ \E a \in Actions : SubmitCreate(r, a) \/ RestCreate(r, a)
    \/ Kick(r)
    \/ Approve(r)
    \/ Decline(r)
    \/ LogRead(r)
    \/ LogWrite(r)

Arrive(r) ==
    \/ \E op \in {"submit", "rest"} : SubmitRead(r, op)
    \/ \E a \in Actions, op \in {"approve", "decline"} : DecisionRead(r, a, op)
    \/ OtherLog(r)

ProcessNext(p) ==
    \/ Look(p)
    \/ Take(p)
    \/ Leave(p)
    \/ ProcessFails(p)
    \/ Check(p)
    \/ Commit(p)
    \/ Rollback(p)
    \/ Discard(p)
    \/ Fail(p)
    \/ Mark(p)
    \/ WriteFailure(p)

Next ==
    \/ \E r \in Requests : Arrive(r) \/ Serve(r)
    \/ \E p \in Processes : ProcessNext(p) \/ Crash(p)
    \/ FinishPlay
    \/ StartSession
    \/ DisbandSession
    \/ CombatSetsPlaying

Spec == Init /\ [][Next]_vars

\* The database answers: a request or a loop that waits for it goes on.
FairSpec ==
    /\ Spec
    /\ \A r \in Requests : WF_vars(Serve(r))
    /\ \A p \in Processes : WF_vars(ProcessNext(p))
-----------------------------------------------------------------------------
(* Safety. *)

\* No wake-up is lost: while an action is PENDING, some loop is going to look
\* at the queue again, or a request is about to call processNext; only a crash
\* leaves an action unattended.
LooksAgain(p) == loops[p].at \notin {"idle", "empty"} \/ loops[p].again

PendingIsAttended ==
    crashes = 0 /\ Pending # {} =>
        \/ \E p \in Processes : LooksAgain(p)
        \/ \E r \in Requests : Serving(r, "kick")

\* An action has taken effect, once, exactly when it says COMPLETED; nothing
\* that failed, was declined or still waits has left its effect behind.
SuccessesOf(a) == {i \in LogsOf(a) : logs[i].kind = "success"}

AppliedOnceIfCompleted ==
    \A a \in Actions :
        /\ \A i, j \in SuccessesOf(a) : i = j
        /\ actions[a].status = "COMPLETED" <=> SuccessesOf(a) # {}

\* Two loops never execute the same action.
Executing(p) == At(p, "process") \/ At(p, "transaction")

ClaimedByOne ==
    \A p, q \in Processes :
        p # q /\ Executing(p) /\ Executing(q) => loops[p].action # loops[q].action

\* With one server process, actions take effect in the order in which they were
\* accepted; only an approved rest may come later than its request.
EffectsInOrder ==
    \A i, j \in 1..Len(logs) :
        /\ i < j
        /\ logs[i].kind = "success"
        /\ logs[j].kind = "success"
        /\ ~ actions[logs[j].action].rest
        => logs[i].action < logs[j].action

\* Once finishPlay has committed, no action takes effect until the next play,
\* although a loop may be anywhere in the execution of one.
FinishedPlayTakesNoEffect ==
    [][\A a \in Actions :
          actions'[a].status = "COMPLETED" /\ actions[a].status # "COMPLETED"
          => session.activity # "DORMANT"]_vars

\* Whatever the races between the loop, the GM's decision, the expiry and
\* finishPlay, every action gets one verdict, and its effect goes with it.
Verdict(status) ==
    CASE status = "NONE" -> "none"
      [] status \in {"PENDING", "PROCESSING", "REJECTED"} -> "waiting"
      [] status = "COMPLETED" -> "applied"
      [] status = "FAILED" -> "refused"

Applied(log) == IF log.kind = "success" THEN log.action ELSE NoAction

Promise == INSTANCE ActionVerdicts WITH
    None <- NoAction,
    verdict <- [a \in Actions |-> Verdict(actions[a].status)],
    turns <- [i \in 1..Len(logs) |-> Applied(logs[i])]

KeepsPromise == Promise!Spec

(* Liveness. *)

\* Every action that enters the queue is decided, unless a process stops.
QueuedIsDecided ==
    \A a \in Actions :
        actions[a].status \in {"PENDING", "PROCESSING"}
        ~> actions[a].status \in Decided \/ crashes > 0
=============================================================================
