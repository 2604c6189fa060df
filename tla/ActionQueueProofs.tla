-------------------------- MODULE ActionQueueProofs --------------------------
(***************************************************************************)
(* Proofs about ActionQueue, for any number of processes, of requests and  *)
(* of actions, and any bounds.  The invariant says what a loop that has    *)
(* claimed an action knows of its row, whatever has overtaken it.          *)
(***************************************************************************)
EXTENDS ActionQueue, SequenceTheorems, TLAPS

\* The records that the steps write are of their declared types.
LEMMA RecordTypes ==
    /\ IdleLoop \in Loop
    /\ NoRow \in Row
    /\ \A p \in Processes : IdleRequest(p) \in Request
BY DEF IdleLoop, Loop, NoRow, Row, QueueStatus, IdleRequest, Request

\* A request record keeps its type through each of the writes of its handlers.
LEMMA RequestType ==
    ASSUME NEW q \in Request, NEW a \in Actions \cup {NoAction}, NEW turn \in Nat,
           NEW op \in {"idle", "submit", "rest", "kick", "approve", "decline", "log", "write"}
    PROVE  /\ [q EXCEPT !.op = op] \in Request
           /\ [q EXCEPT !.op = op, !.action = a] \in Request
           /\ [q EXCEPT !.op = op, !.turn = turn] \in Request
           /\ [IdleRequest(q.process) EXCEPT !.op = op] \in Request
BY DEF Request, IdleRequest

\* One request changes, the others stay.
LEMMA RequestsType ==
    ASSUME TypeOK, NEW r \in Requests, NEW q \in Request, requests' = [requests EXCEPT ![r] = q]
    PROVE  requests' \in [Requests -> Request]
BY DEF TypeOK

\* A response, and a call of processNext, leave well-typed requests.
LEMMA ServeType ==
    ASSUME TypeOK, NEW r \in Requests, Respond(r) \/ Call(r)
    PROVE  requests' \in [Requests -> Request]
<1>1. CASE Respond(r)
  BY <1>1, RecordTypes, RequestsType DEF Respond
<1>2. CASE Call(r)
  <2>1. requests[r] \in Request
    BY DEF TypeOK
  <2> QED
    BY <1>2, <2>1, RequestType, RequestsType DEF Call
<1> QED
  BY <1>1, <1>2

\* The log that createTurnLog appends is a log.
LEMMA WriteType ==
    ASSUME TypeOK, NEW a \in Actions \cup {NoAction}, NEW kind \in {"success", "failure", "other"},
           Write(a, kind)
    PROVE  logs' \in Seq(Log)
<1>1. [action |-> a, kind |-> kind] \in Log
  BY DEF Log
<1> QED
  BY <1>1 DEF TypeOK, Write

\* Appending a log leaves the earlier ones as they are.
LEMMA WrittenLogs ==
    ASSUME TypeOK, NEW a \in Actions \cup {NoAction}, NEW kind \in {"success", "failure", "other"},
           Write(a, kind)
    PROVE  /\ Len(logs) \in Nat
           /\ Len(logs') = Len(logs) + 1
           /\ \A i \in 1..Len(logs) : logs'[i] = logs[i]
           /\ logs'[Len(logs) + 1] = [action |-> a, kind |-> kind]
BY DEF TypeOK, Write

\* Rewriting the kind of one log leaves the others, and its action, as they are.
LEMMA MarkedLogs ==
    ASSUME TypeOK, NEW i \in 1..Len(logs)
    PROVE  LET marked == [logs EXCEPT ![i].kind = "failure"]
           IN  /\ marked \in Seq(Log)
               /\ Len(marked) = Len(logs)
               /\ \A j \in 1..Len(logs) : marked[j].action = logs[j].action
               /\ \A j \in 1..Len(logs) :
                      marked[j].kind = IF j = i THEN "failure" ELSE logs[j].kind
<1> DEFINE log == [logs[i] EXCEPT !.kind = "failure"]
<1>1. logs \in Seq(Log)
  BY DEF TypeOK
<1>2. \A j \in 1..Len(logs) : logs[j] \in Log
  BY <1>1
<1>3. log \in Log /\ log.kind = "failure" /\ log.action = logs[i].action
  BY <1>2 DEF Log
<1> HIDE DEF log
<1>4. /\ [logs EXCEPT ![i] = log] \in Seq(Log)
      /\ Len([logs EXCEPT ![i] = log]) = Len(logs)
      /\ \A j \in 1..Len(logs) : [logs EXCEPT ![i] = log][j] = IF j = i THEN log ELSE logs[j]
  BY <1>1, <1>3, ExceptSeq
<1>5. [logs EXCEPT ![i].kind = "failure"] = [logs EXCEPT ![i] = log]
  BY <1>1 DEF log
<1> QED
  BY <1>2, <1>3, <1>4, <1>5

\* getNextTurnNumber returns a number.
LEMMA NextTurnType == TypeOK => NextTurn \in Nat
BY DEF TypeOK, NextTurn

\* A row, or a loop, that keeps its type when one of its fields is written.
LEMMA RowsType ==
    ASSUME TypeOK, NEW a, NEW status \in QueueStatus,
           NEW reason \in {"none", "PLAY_FINISHED", "error", "declined"}
    PROVE  /\ [actions EXCEPT ![a].status = status] \in [Actions -> Row]
           /\ [actions EXCEPT ![a].status = status, ![a].reason = reason] \in [Actions -> Row]
<1>1. ASSUME NEW row \in Row
      PROVE  /\ [row EXCEPT !.status = status] \in Row
             /\ [row EXCEPT !.status = status, !.reason = reason] \in Row
  BY DEF Row
<1>2. /\ [actions EXCEPT ![a].status = status]
             = [b \in Actions |-> IF b = a THEN [actions[b] EXCEPT !.status = status] ELSE actions[b]]
      /\ [actions EXCEPT ![a].status = status, ![a].reason = reason]
             = [b \in Actions |-> IF b = a THEN [actions[b] EXCEPT !.status = status, !.reason = reason]
                                           ELSE actions[b]]
  BY DEF TypeOK
<1> QED
  BY <1>1, <1>2 DEF TypeOK

\* One loop moves to another point, and keeps or changes what it knows.
LEMMA LoopsType ==
    ASSUME TypeOK, NEW p \in Processes, NEW l \in Loop, loops' = [loops EXCEPT ![p] = l]
    PROVE  loops' \in [Processes -> Loop]
BY DEF TypeOK

\* Every step of a loop leaves well-typed loops.
LEMMA LoopStep ==
    ASSUME TypeOK, NEW p \in Processes, ProcessNext(p)
    PROVE  loops' \in [Processes -> Loop]
<1> DEFINE l == loops[p]
           Ats == {"idle", "look", "take", "empty", "process", "transaction", "finished",
                   "fail", "mark", "write"}
<1>1. l \in Loop
  BY DEF TypeOK
<1>2. ASSUME NEW at \in Ats, NEW a \in Actions \cup {NoAction}, NEW turn \in Nat, NEW again \in BOOLEAN,
             \/ loops' = [loops EXCEPT ![p].at = at]
             \/ loops' = [loops EXCEPT ![p].at = at, ![p].action = a]
             \/ loops' = [loops EXCEPT ![p].at = at, ![p].turn = turn]
             \/ loops' = [loops EXCEPT ![p].at = at, ![p].again = again]
             \/ loops' = [loops EXCEPT ![p].at = at, ![p].action = a, ![p].turn = turn]
      PROVE  loops' \in [Processes -> Loop]
  <2>1. /\ [l EXCEPT !.at = at] \in Loop
        /\ [l EXCEPT !.at = at, !.action = a] \in Loop
        /\ [l EXCEPT !.at = at, !.turn = turn] \in Loop
        /\ [l EXCEPT !.at = at, !.again = again] \in Loop
        /\ [l EXCEPT !.at = at, !.action = a, !.turn = turn] \in Loop
    BY <1>1 DEF Loop
  <2>2. \/ loops' = [loops EXCEPT ![p] = [l EXCEPT !.at = at]]
        \/ loops' = [loops EXCEPT ![p] = [l EXCEPT !.at = at, !.action = a]]
        \/ loops' = [loops EXCEPT ![p] = [l EXCEPT !.at = at, !.turn = turn]]
        \/ loops' = [loops EXCEPT ![p] = [l EXCEPT !.at = at, !.again = again]]
        \/ loops' = [loops EXCEPT ![p] = [l EXCEPT !.at = at, !.action = a, !.turn = turn]]
    BY <1>2 DEF TypeOK
  <2> QED
    BY <2>1, <2>2, LoopsType
<1>3. NextTurn \in Nat
  BY NextTurnType
<1>4. NoAction \in Actions \cup {NoAction} /\ 0 \in Nat /\ FALSE \in BOOLEAN
  OBVIOUS
<1>5. CASE Look(p)
  <2>1. \A a \in Oldest : a \in Actions
    BY DEF Oldest, Pending
  <2> QED
    BY <1>5, <1>2, <1>4, <2>1 DEF Look, GoTo
<1>6. CASE Take(p)
  BY <1>6, <1>2, <1>4 DEF Take, GoTo
<1>7. CASE Leave(p)
  BY <1>7, <1>2, <1>4 DEF Leave
<1>8. CASE ProcessFails(p) \/ Discard(p) \/ Fail(p)
  BY <1>8, <1>2, <1>4 DEF ProcessFails, Discard, Fail, GoTo, NextRound
<1>9. CASE Check(p)
  BY <1>9, <1>2, <1>3, <1>4 DEF Check, GoTo
<1>10. CASE Rollback(p)
  BY <1>10, <1>2, <1>4 DEF Rollback
<1>12. CASE Commit(p)
  BY <1>12, <1>2, <1>4 DEF Commit, NextRound
<1>11. CASE Mark(p) \/ WriteFailure(p)
  BY <1>11, <1>2, <1>3, <1>4 DEF Mark, WriteFailure, NextRound
<1> QED
  BY <1>5, <1>6, <1>7, <1>8, <1>9, <1>10, <1>11, <1>12 DEF ProcessNext

\* The tables start empty and the loops idle.
LEMMA TypeInit == Init => TypeOK
<1> SUFFICES ASSUME Init PROVE TypeOK
  OBVIOUS
<1>1. requests \in [Requests -> Request]
  BY RecordTypes DEF Init
<1> QED
  BY <1>1, RecordTypes DEF Init, TypeOK, Session

\* No step writes a value outside the declared types.
LEMMA TypeStep == TypeOK /\ [Next]_vars => TypeOK'
<1> SUFFICES ASSUME TypeOK, [Next]_vars PROVE TypeOK'
  OBVIOUS
<1>1. ASSUME NEW r \in Requests, NEW op \in {"submit", "rest"}, SubmitRead(r, op) PROVE TypeOK'
  <2>1. [requests[r] EXCEPT !.op = op] \in Request
    BY RequestType DEF TypeOK, NoAction
  <2> QED
    BY <1>1, <2>1, RequestsType DEF SubmitRead, Begin, TypeOK
<1>2. ASSUME NEW r \in Requests, NEW a \in Actions, NEW op \in {"approve", "decline"},
             DecisionRead(r, a, op)
      PROVE  TypeOK'
  <2>1. [requests[r] EXCEPT !.op = op, !.action = a] \in Request
    BY RequestType DEF TypeOK
  <2> QED
    BY <1>2, <2>1, RequestsType DEF DecisionRead, Begin, TypeOK
<1>3. ASSUME NEW r \in Requests, OtherLog(r) PROVE TypeOK'
  <2>1. [requests[r] EXCEPT !.op = "log"] \in Request
    BY RequestType DEF TypeOK, NoAction
  <2> QED
    BY <1>3, <2>1, RequestsType DEF OtherLog, Begin, TypeOK
<1>4. ASSUME NEW a \in Actions, NEW status \in {"PENDING", "REJECTED"}, Create(a, status)
      PROVE  actions' \in [Actions -> Row]
  <2>1. [NoRow EXCEPT !.status = status, !.rest = (status = "REJECTED")] \in Row
    BY DEF NoRow, Row, QueueStatus
  <2> QED
    BY <1>4, <2>1 DEF Create, TypeOK
<1>5. ASSUME NEW r \in Requests, NEW a \in Actions, SubmitCreate(r, a) PROVE TypeOK'
  BY <1>4, <1>5, ServeType DEF SubmitCreate, TypeOK
<1>6. ASSUME NEW r \in Requests, NEW a \in Actions, RestCreate(r, a) PROVE TypeOK'
  <2>1. [requests[r] EXCEPT !.op = "log", !.action = a] \in Request
    BY RequestType DEF TypeOK
  <2>2. requests' = [requests EXCEPT ![r] = [requests[r] EXCEPT !.op = "log", !.action = a]]
    BY <1>6 DEF RestCreate, TypeOK
  <2> QED
    BY <1>4, <1>6, <2>1, <2>2, RequestsType DEF RestCreate, TypeOK
<1>8. ASSUME NEW r \in Requests, Kick(r) PROVE TypeOK'
  <2> DEFINE p == requests[r].process
             l == loops[p]
  <2>1. p \in Processes
    BY DEF TypeOK, Request
  <2>2. [l EXCEPT !.at = "look"] \in Loop /\ [l EXCEPT !.again = TRUE] \in Loop
    BY <2>1 DEF TypeOK, Loop
  <2>3. \/ loops' = [loops EXCEPT ![p] = [l EXCEPT !.at = "look"]]
        \/ loops' = [loops EXCEPT ![p] = [l EXCEPT !.again = TRUE]]
    BY <1>8, <2>1 DEF Kick, TypeOK
  <2>4. loops' \in [Processes -> Loop]
    BY <2>1, <2>2, <2>3, LoopsType
  <2> QED
    BY <1>8, <2>4, ServeType DEF Kick, TypeOK
<1>9. ASSUME NEW r \in Requests, Approve(r) PROVE TypeOK'
  <2>1. [actions EXCEPT ![requests[r].action].status = "PENDING", ![requests[r].action].reason = "none"]
           \in [Actions -> Row]
    BY RowsType DEF QueueStatus
  <2>2. actions' \in [Actions -> Row]
    BY <1>9, <2>1 DEF Approve, TypeOK
  <2> QED
    BY <1>9, <2>2, ServeType DEF Approve, TypeOK
<1>10. ASSUME NEW r \in Requests, Decline(r) PROVE TypeOK'
  <2>1. actions' \in [Actions -> Row]
    <3>1. [actions EXCEPT ![requests[r].action].status = "FAILED", ![requests[r].action].reason = "declined"]
             \in [Actions -> Row]
      BY RowsType DEF QueueStatus
    <3> QED
      BY <1>10, <3>1 DEF Decline, TypeOK
  <2>2. [requests[r] EXCEPT !.op = "log"] \in Request
    BY RequestType DEF TypeOK, NoAction
  <2>3. Respond(r) \/ requests' = [requests EXCEPT ![r] = [requests[r] EXCEPT !.op = "log"]]
    BY <1>10 DEF Decline, TypeOK
  <2>4. requests' \in [Requests -> Request]
    BY <2>2, <2>3, RequestsType, ServeType
  <2> QED
    BY <1>10, <2>1, <2>4 DEF Decline, TypeOK
<1>11. ASSUME NEW r \in Requests, LogRead(r) PROVE TypeOK'
  <2>1. [requests[r] EXCEPT !.op = "write", !.turn = NextTurn] \in Request
    BY RequestType, NextTurnType DEF TypeOK, NoAction
  <2>2. requests' = [requests EXCEPT ![r] = [requests[r] EXCEPT !.op = "write", !.turn = NextTurn]]
    BY <1>11 DEF LogRead, TypeOK
  <2> QED
    BY <1>11, <2>1, <2>2, RequestsType DEF LogRead, TypeOK
<1>12. ASSUME NEW r \in Requests, LogWrite(r) PROVE TypeOK'
  <2>1. requests[r].action \in Actions \cup {NoAction}
    BY DEF TypeOK, Request
  <2>2. logs' \in Seq(Log)
    BY <1>12, <2>1, WriteType DEF LogWrite, TypeOK
  <2> QED
    BY <1>12, <2>2, ServeType DEF LogWrite, TypeOK
<1>13. ASSUME NEW p \in Processes, ProcessNext(p) PROVE TypeOK'
  <2>1. loops' \in [Processes -> Loop]
    BY <1>13, LoopStep
  <2>2. actions' \in [Actions -> Row]
    <3> DEFINE a == loops[p].action
    <3>1. /\ [actions EXCEPT ![a].status = "PROCESSING"] \in [Actions -> Row]
          /\ [actions EXCEPT ![a].status = "COMPLETED", ![a].reason = "none"] \in [Actions -> Row]
          /\ [actions EXCEPT ![a].status = "FAILED", ![a].reason = "PLAY_FINISHED"] \in [Actions -> Row]
          /\ [actions EXCEPT ![a].status = "FAILED", ![a].reason = "error"] \in [Actions -> Row]
      BY RowsType DEF QueueStatus
    <3> QED
      BY <1>13, <3>1 DEF ProcessNext, TypeOK, Look, Take, Leave, ProcessFails, Check,
         Commit, Rollback, Discard, Fail, Mark, WriteFailure
  <2>3. loops[p].action \in Actions \cup {NoAction}
    BY DEF TypeOK, Loop
  <2>4. CASE Mark(p)
    <3>1. \A i \in 1..Len(logs) : [logs EXCEPT ![i].kind = "failure"] \in Seq(Log)
      BY MarkedLogs
    <3>2. \A i \in LatestOf(loops[p].action) : i \in 1..Len(logs)
      BY DEF LatestOf, LogsOf
    <3> QED
      BY <2>1, <2>4, <3>1, <3>2 DEF Mark, TypeOK
  <2>5. CASE ~ Mark(p)
    <3>1. logs' \in Seq(Log)
      BY <1>13, <2>3, <2>5, WriteType DEF ProcessNext, TypeOK, Look, Take, Leave, ProcessFails, Check,
         Commit, Rollback, Discard, Fail, WriteFailure
    <3> QED
      BY <1>13, <2>1, <2>2, <2>5, <3>1 DEF ProcessNext, TypeOK, Look, Take, Leave, ProcessFails, Check,
         Commit, Rollback, Discard, Fail, WriteFailure
  <2> QED
    BY <2>4, <2>5
<1>14. ASSUME NEW p \in Processes, Crash(p) PROVE TypeOK'
  BY <1>14, RecordTypes DEF Crash, TypeOK
<1>15. CASE FinishPlay
  <2>1. \A a \in Actions : [actions[a] EXCEPT !.status = "FAILED", !.reason = "PLAY_FINISHED"] \in Row
    BY DEF TypeOK, Row, QueueStatus
  <2> QED
    BY <1>15, <2>1 DEF FinishPlay, TypeOK, Session
<1>16. CASE StartSession \/ DisbandSession \/ CombatSetsPlaying
  <2>1. CASE StartSession
    BY <2>1 DEF StartSession, TypeOK, Session
  <2>2. CASE DisbandSession
    BY <2>2 DEF DisbandSession, TypeOK, Session
  <2>3. CASE CombatSetsPlaying
    BY <2>3 DEF CombatSetsPlaying, TypeOK, Session
  <2> QED
    BY <1>16, <2>1, <2>2, <2>3
<1>17. CASE UNCHANGED vars
  BY <1>17 DEF vars, TypeOK
<1> QED
  BY <1>1, <1>2, <1>3, <1>5, <1>6, <1>8, <1>9, <1>10, <1>11, <1>12, <1>13, <1>14, <1>15, <1>16, <1>17
  DEF Next, Arrive, Serve

\* Type correctness: every step writes rows, logs and records of the declared types.
THEOREM TypeCorrect == Spec => []TypeOK
BY TypeInit, TypeStep, PTL DEF Spec
-----------------------------------------------------------------------------
(***************************************************************************)
(* What a step does to the statuses of the actions and to the loops.  The  *)
(* invariants below look at a step only through these shapes.              *)
(***************************************************************************)
\* The points of a loop that has claimed an action and not yet let go of it.
Held == {"process", "transaction", "finished", "fail", "mark", "write"}

\* Whoever decides or executes an action knows which one.
ActionsNamed ==
    /\ \A r \in Requests : requests[r].op \in {"approve", "decline"} => requests[r].action \in Actions
    /\ \A p \in Processes : loops[p].at \in Held \cup {"take"} => loops[p].action \in Actions

KeepsRows == \A b \in Actions : actions'[b].status = actions[b].status

MovesRow(a, from, to) ==
    /\ actions[a].status \in from
    /\ \A b \in Actions : actions'[b].status = IF b = a THEN to ELSE actions[b].status

OnlyLoop(p) == \A q \in Processes \ {p} : loops'[q] = loops[q]

\* Loop p goes from one point to another, with action a in hand.
Goes(p, from, to, a) ==
    /\ loops[p].at = from
    /\ loops'[p].at = to
    /\ loops'[p].action = a
    /\ loops'[p].again = loops[p].again
    /\ OnlyLoop(p)

Takes(p) ==
    \/ KeepsRows /\ Pending = {} /\ Goes(p, "look", "empty", loops[p].action)
    \/ KeepsRows /\ \E a \in Pending : Goes(p, "look", "take", a)
    \/ /\ MovesRow(loops[p].action, {"PENDING"}, "PROCESSING")
       /\ Goes(p, "take", "process", loops[p].action)
    \/ /\ actions[loops[p].action].status # "PENDING"
       /\ KeepsRows
       /\ Goes(p, "take", "empty", NoAction)
    \/ /\ KeepsRows
       /\ OnlyLoop(p)
       /\ loops[p].at = "empty"
       /\ loops'[p].at \in {"idle", "look"}
       /\ loops[p].again => loops'[p].at = "look"

Executes(p) ==
    \/ KeepsRows /\ \E to \in {"fail", "finished"} : Goes(p, "process", to, loops[p].action)
    \/ /\ KeepsRows
       /\ actions[loops[p].action].status = "PROCESSING"
       /\ ~ Locked
       /\ session.activity = "PLAYING"
       /\ Goes(p, "process", "transaction", loops[p].action)
    \/ /\ MovesRow(loops[p].action, QueueStatus, "COMPLETED")
       /\ Goes(p, "transaction", "look", NoAction)
    \/ KeepsRows /\ Goes(p, "transaction", "fail", loops[p].action)

Settles(p) ==
    \/ /\ MovesRow(loops[p].action, {"PROCESSING"}, "FAILED")
       /\ Goes(p, "finished", "look", NoAction)
    \/ /\ actions[loops[p].action].status # "PROCESSING"
       /\ KeepsRows
       /\ Goes(p, "finished", "look", NoAction)
    \/ /\ MovesRow(loops[p].action, QueueStatus, "FAILED")
       /\ Goes(p, "fail", "mark", loops[p].action)
    \/ KeepsRows /\ Goes(p, "mark", "write", loops[p].action)
    \/ KeepsRows /\ \E from \in {"mark", "write"} : Goes(p, from, "look", NoAction)

\* Each step of a loop has one of the three shapes, and touches nothing else.
LEMMA ProcessShape ==
    ASSUME TypeOK, ActionsNamed, NEW p \in Processes, ProcessNext(p)
    PROVE  /\ Takes(p) \/ Executes(p) \/ Settles(p)
           /\ session' = session
           /\ requests' = requests
           /\ crashes' = crashes
<1>1. /\ session' = session
      /\ requests' = requests
      /\ crashes' = crashes
  BY DEF ProcessNext, Look, Take, Leave, ProcessFails, Check, Commit, Rollback, Discard, Fail, Mark,
     WriteFailure
<1>2. \A a \in Actions : actions[a].status \in QueueStatus
  BY DEF TypeOK, Row
<1>3. CASE Look(p)
  BY <1>3 DEF Look, GoTo, At, Oldest, TypeOK, Loop, Takes, Goes, OnlyLoop, KeepsRows
<1>4. CASE Take(p)
  BY <1>4 DEF Take, GoTo, At, TypeOK, Loop, Row, Takes, Goes, OnlyLoop, KeepsRows, MovesRow
<1>5. CASE Leave(p)
  BY <1>5 DEF Leave, At, TypeOK, Loop, Takes, OnlyLoop, KeepsRows
<1>6. CASE ProcessFails(p)
  BY <1>6 DEF ProcessFails, GoTo, At, TypeOK, Loop, Executes, Goes, OnlyLoop, KeepsRows
<1>7. CASE Check(p)
  BY <1>7 DEF Check, GoTo, At, TypeOK, Loop, Executes, Goes, OnlyLoop, KeepsRows
<1>8. CASE Commit(p)
  BY <1>2, <1>8 DEF ActionsNamed, Held, Commit, NextRound, At, TypeOK, Loop, Row, Executes, Goes, OnlyLoop, MovesRow
<1>9. CASE Rollback(p)
  BY <1>9 DEF Rollback, At, TypeOK, Loop, Executes, Goes, OnlyLoop, KeepsRows
<1>10. CASE Discard(p)
  BY <1>10 DEF Discard, NextRound, At, TypeOK, Loop, Row, Settles, Goes, OnlyLoop, KeepsRows, MovesRow
<1>11. CASE Fail(p)
  BY <1>2, <1>11 DEF ActionsNamed, Held, Fail, GoTo, At, TypeOK, Loop, Row, Settles, Goes, OnlyLoop, MovesRow
<1>12. CASE Mark(p)
  BY <1>12 DEF Mark, NextRound, At, TypeOK, Loop, Settles, Goes, OnlyLoop, KeepsRows
<1>13. CASE WriteFailure(p)
  BY <1>13 DEF WriteFailure, NextRound, At, TypeOK, Loop, Settles, Goes, OnlyLoop, KeepsRows
<1> QED
  BY <1>1, <1>3, <1>4, <1>5, <1>6, <1>7, <1>8, <1>9, <1>10, <1>11, <1>12, <1>13 DEF ProcessNext
\* A request moves at most one action, and leaves word of what it queues.
Answers(r) ==
    /\ loops' = loops
    /\ requests[r].op # "kick"
    /\ \/ KeepsRows
       \/ \E a \in Actions : MovesRow(a, {"NONE"}, "REJECTED") \/ MovesRow(a, {"REJECTED"}, "FAILED")
       \/ /\ \E a \in Actions : MovesRow(a, {"NONE", "REJECTED"}, "PENDING")
          /\ requests'[r].op = "kick"

Wakes(p) ==
    /\ KeepsRows
    /\ OnlyLoop(p)
    /\ loops'[p].action = loops[p].action
    /\ \/ loops[p].at = "idle" /\ loops'[p].at = "look"
       \/ loops'[p].at = loops[p].at /\ loops'[p].again

\* Each step of a request answers or wakes a loop, and names what it decides.
LEMMA RequestShape ==
    ASSUME TypeOK, ActionsNamed, NEW r \in Requests, Arrive(r) \/ Serve(r)
    PROVE  /\ session' = session /\ crashes' = crashes
           /\ \A q \in Requests \ {r} : requests'[q] = requests[q]
           /\ requests'[r].op \in {"approve", "decline"} => requests'[r].action \in Actions
           /\ Answers(r) \/ \E p \in Processes : Wakes(p)
<1> DEFINE Keeps == /\ session' = session /\ crashes' = crashes
                    /\ \A q \in Requests \ {r} : requests'[q] = requests[q]
                    /\ requests'[r].op \in {"approve", "decline"} => requests'[r].action \in Actions
<1>1. requests[r] \in Request /\ requests[r].process \in Processes
  BY DEF TypeOK, Request
<1>2. ASSUME Respond(r) PROVE requests'[r].op = "idle" /\ \A q \in Requests \ {r} : requests'[q] = requests[q]
  BY <1>2 DEF Respond, IdleRequest, TypeOK
<1>3. ASSUME Call(r) PROVE requests'[r].op = "kick" /\ \A q \in Requests \ {r} : requests'[q] = requests[q]
  BY <1>1, <1>3 DEF Call, IdleRequest, TypeOK
<1>4. ASSUME NEW op \in {"submit", "rest"}, SubmitRead(r, op) PROVE Keeps /\ Answers(r)
  BY <1>1, <1>4 DEF SubmitRead, Begin, TypeOK, Request, Answers, KeepsRows
<1>5. ASSUME NEW a \in Actions, NEW op \in {"approve", "decline"}, DecisionRead(r, a, op)
      PROVE  Keeps /\ Answers(r)
  BY <1>1, <1>5 DEF DecisionRead, Begin, TypeOK, Request, Answers, KeepsRows
<1>6. CASE OtherLog(r)
  BY <1>1, <1>6 DEF OtherLog, Begin, TypeOK, Request, Answers, KeepsRows
<1>7. ASSUME NEW a \in Actions, SubmitCreate(r, a) PROVE Keeps /\ Answers(r)
  <2>1. MovesRow(a, {"NONE", "REJECTED"}, "PENDING")
    BY <1>7 DEF SubmitCreate, Create, NoRow, TypeOK, Row, MovesRow
  <2> QED
    BY <1>3, <1>7, <2>1 DEF SubmitCreate, Serving, Answers
<1>8. ASSUME NEW a \in Actions, RestCreate(r, a) PROVE Keeps /\ Answers(r)
  <2>1. MovesRow(a, {"NONE"}, "REJECTED")
    BY <1>8 DEF RestCreate, Create, NoRow, TypeOK, Row, MovesRow
  <2> QED
    BY <1>1, <1>8, <2>1 DEF RestCreate, Serving, TypeOK, Request, Answers
<1>9. CASE Kick(r)
  <2>1. Keeps
    BY <1>2, <1>9 DEF Kick
  <2>2. Wakes(requests[r].process)
    BY <1>1, <1>9 DEF Kick, TypeOK, Loop, Wakes, OnlyLoop, KeepsRows
  <2> QED
    BY <1>1, <2>1, <2>2
<1>10. CASE Approve(r)
  <2> DEFINE a == requests[r].action
  <2>1. requests[r].op = "approve" /\ a \in Actions
    BY <1>10 DEF Approve, Serving, ActionsNamed
  <2>2. CASE actions[a].status = "REJECTED"
    <3>1. MovesRow(a, {"NONE", "REJECTED"}, "PENDING") /\ Call(r)
      BY <1>10, <2>1, <2>2 DEF Approve, TypeOK, Row, MovesRow
    <3> QED
      BY <1>3, <1>10, <2>1, <3>1 DEF Approve, Answers
  <2>3. CASE actions[a].status # "REJECTED"
    BY <1>2, <1>10, <2>1, <2>3 DEF Approve, Answers, KeepsRows
  <2> QED
    BY <2>2, <2>3
<1>11. CASE Decline(r)
  <2> DEFINE a == requests[r].action
  <2>1. requests[r].op = "decline" /\ a \in Actions
    BY <1>11 DEF Decline, Serving, ActionsNamed
  <2>2. CASE actions[a].status = "REJECTED"
    <3>1. MovesRow(a, {"REJECTED"}, "FAILED")
      BY <1>11, <2>1, <2>2 DEF Decline, TypeOK, Row, MovesRow
    <3> QED
      BY <1>1, <1>11, <2>1, <2>2, <3>1 DEF Decline, TypeOK, Request, Answers
  <2>3. CASE actions[a].status # "REJECTED"
    BY <1>2, <1>11, <2>1, <2>3 DEF Decline, Answers, KeepsRows
  <2> QED
    BY <2>2, <2>3
<1>12. CASE LogRead(r)
  BY <1>1, <1>12 DEF LogRead, Serving, TypeOK, Request, Answers, KeepsRows
<1>13. CASE LogWrite(r)
  BY <1>2, <1>13 DEF LogWrite, Serving, Answers, KeepsRows
<1> QED
  BY <1>4, <1>5, <1>6, <1>7, <1>8, <1>9, <1>10, <1>11, <1>12, <1>13 DEF Arrive, Serve

\* finishPlay refuses everything that waits or is in hand, outside any
\* transaction of a loop.
Finishes ==
    /\ ~ Locked
    /\ \A b \in Actions : actions'[b].status =
           IF actions[b].status \in {"PENDING", "PROCESSING"} THEN "FAILED" ELSE actions[b].status

\* Only finishPlay, among the steps of the session, moves any action.
LEMMA SessionShape ==
    ASSUME TypeOK, FinishPlay \/ StartSession \/ DisbandSession \/ CombatSetsPlaying
    PROVE  /\ Finishes \/ KeepsRows
           /\ session'.activity = "DORMANT" => session.activity = "DORMANT" \/ ~ Locked
           /\ UNCHANGED <<loops, requests, crashes>>
<1>1. CASE FinishPlay
  BY <1>1 DEF FinishPlay, TypeOK, Row, Finishes
<1>2. CASE StartSession
  BY <1>2 DEF StartSession, KeepsRows
<1>3. CASE DisbandSession
  BY <1>3 DEF DisbandSession, TypeOK, Session, KeepsRows
<1>4. CASE CombatSetsPlaying
  BY <1>4 DEF CombatSetsPlaying, TypeOK, Session, KeepsRows
<1> QED
  BY <1>1, <1>2, <1>3, <1>4
-----------------------------------------------------------------------------
(***************************************************************************)
(* The inductive invariant.                                                *)
(***************************************************************************)
\* The row of an action in hand says PROCESSING, or FAILED once finishPlay or
\* the loop itself has failed it; inside the transaction it says PROCESSING.
HeldStatus ==
    \A p \in Processes :
        /\ loops[p].at \in Held =>
              actions[loops[p].action].status \in {"PROCESSING", "FAILED"}
        /\ loops[p].at = "transaction" => actions[loops[p].action].status = "PROCESSING"
        /\ loops[p].at \in {"mark", "write"} => actions[loops[p].action].status = "FAILED"

\* No two loops have the same action in hand.
HeldByOne ==
    \A p, q \in Processes :
        p # q /\ loops[p].at \in Held /\ loops[q].at \in Held => loops[p].action # loops[q].action

\* No play ends, and none begins, while a transaction holds the lock.
LockMeansOpen == Locked => session.activity # "DORMANT"

\* A loop that is sure to look at the queue again: one on its way to claim an
\* action is, as long as that action is still PENDING.
WillLook(p) ==
    \/ loops[p].at \in Held \cup {"look"}
    \/ loops[p].again
    \/ loops[p].at = "take" /\ actions[loops[p].action].status = "PENDING"

Attended ==
    crashes = 0 /\ Pending # {} =>
        \/ \E p \in Processes : WillLook(p)
        \/ \E r \in Requests : requests[r].op = "kick"

HandInv == ActionsNamed /\ HeldStatus /\ HeldByOne /\ LockMeansOpen

\* No loop has anything in hand at the start.
LEMMA HandInit == Init => HandInv
BY DEF Init, HandInv, ActionsNamed, HeldStatus, HeldByOne, LockMeansOpen, IdleLoop, IdleRequest, Held,
   Locked, At

\* A claim needs a PENDING row, which no loop can already have in hand.
LEMMA HandProcess ==
    ASSUME TypeOK, HandInv, NEW p \in Processes, ProcessNext(p)
    PROVE  HandInv'
<1>1. /\ Takes(p) \/ Executes(p) \/ Settles(p)
      /\ session' = session
      /\ requests' = requests
  BY ProcessShape DEF HandInv
<1>2. CASE Takes(p)
  BY <1>1, <1>2 DEF Takes, Goes, OnlyLoop, MovesRow, KeepsRows, Pending, HandInv, ActionsNamed, HeldStatus,
     HeldByOne, LockMeansOpen, Locked, At, Held
<1>3. CASE Executes(p)
  BY <1>1, <1>3 DEF Executes, Goes, OnlyLoop, MovesRow, KeepsRows, HandInv, ActionsNamed, HeldStatus,
     HeldByOne, LockMeansOpen, Locked, At, Held
<1>4. CASE Settles(p)
  BY <1>1, <1>4 DEF Settles, Goes, OnlyLoop, MovesRow, KeepsRows, HandInv, ActionsNamed, HeldStatus,
     HeldByOne, LockMeansOpen, Locked, At, Held
<1> QED
  BY <1>1, <1>2, <1>3, <1>4

\* Requests, crashes and the session cannot take an action out of a hand
\* other than by failing it.
LEMMA HandStep == TypeOK /\ HandInv /\ [Next]_vars => HandInv'
<1> SUFFICES ASSUME TypeOK, HandInv, [Next]_vars PROVE HandInv'
  OBVIOUS
<1>1. ASSUME NEW r \in Requests, Arrive(r) \/ Serve(r) PROVE HandInv'
  <2>1. /\ session' = session
        /\ \A q \in Requests \ {r} : requests'[q] = requests[q]
        /\ requests'[r].op \in {"approve", "decline"} => requests'[r].action \in Actions
        /\ Answers(r) \/ \E p \in Processes : Wakes(p)
    BY <1>1, RequestShape DEF HandInv
  <2>2. CASE Answers(r)
    BY <2>1, <2>2 DEF Answers, MovesRow, KeepsRows, HandInv, ActionsNamed, HeldStatus, HeldByOne,
       LockMeansOpen, Locked, At, Held
  <2>3. ASSUME NEW p \in Processes, Wakes(p) PROVE HandInv'
    BY <2>1, <2>3 DEF Wakes, OnlyLoop, KeepsRows, HandInv, ActionsNamed, HeldStatus, HeldByOne,
       LockMeansOpen, Locked, At, Held
  <2> QED
    BY <2>1, <2>2, <2>3
<1>2. ASSUME NEW p \in Processes, ProcessNext(p) PROVE HandInv'
  BY <1>2, HandProcess
<1>3. ASSUME NEW p \in Processes, Crash(p) PROVE HandInv'
  BY <1>3 DEF Crash, IdleLoop, IdleRequest, TypeOK, HandInv, ActionsNamed, HeldStatus, HeldByOne,
     LockMeansOpen, Locked, At, Held
<1>4. CASE FinishPlay \/ StartSession \/ DisbandSession \/ CombatSetsPlaying
  BY <1>4, SessionShape DEF Finishes, KeepsRows, HandInv, ActionsNamed, HeldStatus, HeldByOne,
     LockMeansOpen, Locked, At, Held
<1>5. CASE UNCHANGED vars
  BY <1>5 DEF vars, HandInv, ActionsNamed, HeldStatus, HeldByOne, LockMeansOpen, Locked, At
<1> QED
  BY <1>1, <1>2, <1>3, <1>4, <1>5 DEF Next
\* A loop only stops looking when the queue was empty and nobody left word,
\* or when it lost its claim to a loop that will look again.
LEMMA AttendedStep == TypeOK /\ HandInv /\ Attended /\ [Next]_vars => Attended'
<1> SUFFICES ASSUME TypeOK, HandInv, Attended, [Next]_vars PROVE Attended'
  OBVIOUS
<1>1. ASSUME NEW r \in Requests, Arrive(r) \/ Serve(r) PROVE Attended'
  <2>1. /\ crashes' = crashes
        /\ \A q \in Requests \ {r} : requests'[q] = requests[q]
        /\ Answers(r) \/ \E p \in Processes : Wakes(p)
    BY <1>1, RequestShape DEF HandInv
  <2>2. CASE Answers(r)
    BY <2>1, <2>2 DEF Answers, MovesRow, KeepsRows, HandInv, ActionsNamed, Attended, WillLook, Pending, Held
  <2>3. ASSUME NEW p \in Processes, Wakes(p) PROVE WillLook(p)'
    BY <2>3 DEF Wakes, WillLook
  <2> QED
    BY <2>1, <2>2, <2>3 DEF Attended
<1>2. ASSUME NEW p \in Processes, ProcessNext(p) PROVE Attended'
  <2>1. /\ Takes(p) \/ Executes(p) \/ Settles(p)
        /\ requests' = requests
        /\ crashes' = crashes
    BY <1>2, ProcessShape DEF HandInv
  <2>2. CASE Executes(p) \/ Settles(p)
    <3>1. WillLook(p)'
      BY <2>2 DEF Executes, Settles, Goes, WillLook, Held
    <3> QED
      BY <3>1 DEF Attended
  <2>3. CASE Takes(p)
    BY <2>1, <2>3 DEF Takes, Goes, OnlyLoop, MovesRow, KeepsRows, HandInv, ActionsNamed, Attended, WillLook,
       Pending, Held
  <2> QED
    BY <2>1, <2>2, <2>3
<1>3. ASSUME NEW p \in Processes, Crash(p) PROVE Attended'
  BY <1>3 DEF Crash, TypeOK, Attended
<1>4. CASE FinishPlay \/ StartSession \/ DisbandSession \/ CombatSetsPlaying
  BY <1>4, SessionShape DEF Finishes, KeepsRows, HandInv, ActionsNamed, Attended, WillLook, Pending, Held
<1>5. CASE UNCHANGED vars
  BY <1>5 DEF vars, Attended, WillLook, Pending
<1> QED
  BY <1>1, <1>2, <1>3, <1>4, <1>5 DEF Next
-----------------------------------------------------------------------------
\* A step that completes no action and logs no success disturbs neither.
LEMMA QuietApplied ==
    ASSUME TypeOK, AppliedOnceIfCompleted,
           \A a \in Actions : actions'[a].status = "COMPLETED" <=> actions[a].status = "COMPLETED",
           \/ logs' = logs
           \/ \E a \in Actions \cup {NoAction}, kind \in {"failure", "other"} : Write(a, kind)
    PROVE  AppliedOnceIfCompleted'
<1>1. ASSUME NEW a \in Actions PROVE SuccessesOf(a)' = SuccessesOf(a)
  <2>1. CASE logs' = logs
    BY <2>1 DEF SuccessesOf, LogsOf
  <2>2. ASSUME NEW b \in Actions \cup {NoAction}, NEW kind \in {"failure", "other"}, Write(b, kind)
        PROVE  SuccessesOf(a)' = SuccessesOf(a)
    <3>1. /\ Len(logs) \in Nat
          /\ Len(logs') = Len(logs) + 1
          /\ \A i \in 1..Len(logs) : logs'[i] = logs[i]
          /\ logs'[Len(logs) + 1] = [action |-> b, kind |-> kind]
      BY <2>2, WrittenLogs
    <3> QED
      BY <3>1 DEF SuccessesOf, LogsOf
  <2> QED
    BY <2>1, <2>2
<1> QED
  BY <1>1 DEF AppliedOnceIfCompleted

\* The success log and COMPLETED are written by one commit of an action that
\* was PROCESSING, and a later failure never marks a success.
LEMMA AppliedStep == TypeOK /\ HandInv /\ AppliedOnceIfCompleted /\ [Next]_vars => AppliedOnceIfCompleted'
<1> SUFFICES ASSUME TypeOK, HandInv, AppliedOnceIfCompleted, [Next]_vars PROVE AppliedOnceIfCompleted'
  OBVIOUS
<1>1. ASSUME NEW r \in Requests, Arrive(r) \/ Serve(r) PROVE AppliedOnceIfCompleted'
  <2>1. Answers(r) \/ \E p \in Processes : Wakes(p)
    BY <1>1, RequestShape DEF HandInv
  <2>2. \A a \in Actions : actions'[a].status = "COMPLETED" <=> actions[a].status = "COMPLETED"
    BY <2>1 DEF Answers, Wakes, MovesRow, KeepsRows
  <2>3. requests[r].action \in Actions \cup {NoAction}
    BY DEF TypeOK, Request
  <2>4. logs' = logs \/ Write(requests[r].action, "other")
    BY <1>1 DEF Arrive, Serve, SubmitRead, DecisionRead, OtherLog, SubmitCreate, RestCreate, Kick, Approve,
       Decline, LogRead, LogWrite
  <2> QED
    BY <2>2, <2>3, <2>4, QuietApplied
<1>2. ASSUME NEW p \in Processes, ProcessNext(p) PROVE AppliedOnceIfCompleted'
  <2> DEFINE a == loops[p].action
  <2>1. Takes(p) \/ Executes(p) \/ Settles(p)
    BY <1>2, ProcessShape DEF HandInv
  <2>2. a \in Actions \cup {NoAction}
    BY DEF TypeOK, Loop
  <2>3. ASSUME NEW c \in Actions \cup {NoAction}, c = a, Commit(p) PROVE AppliedOnceIfCompleted'
    <3>1. c \in Actions /\ actions[c].status = "PROCESSING"
      BY <2>3 DEF Commit, At, HandInv, ActionsNamed, HeldStatus, Held
    <3>2. /\ Len(logs) \in Nat
          /\ Len(logs') = Len(logs) + 1
          /\ \A i \in 1..Len(logs) : logs'[i] = logs[i]
          /\ logs'[Len(logs) + 1] = [action |-> c, kind |-> "success"]
      BY <2>3, WrittenLogs DEF Commit
    <3>3. SuccessesOf(c) = {}
      BY <3>1 DEF AppliedOnceIfCompleted
    <3>4. \A i \in SuccessesOf(c)' : i = Len(logs) + 1
      BY <3>2, <3>3 DEF SuccessesOf, LogsOf
    <3>5. Len(logs) + 1 \in SuccessesOf(c)'
      BY <3>2 DEF SuccessesOf, LogsOf
    <3>6. ASSUME NEW b \in Actions, b # c PROVE SuccessesOf(b)' = SuccessesOf(b)
      BY <3>2, <3>6 DEF SuccessesOf, LogsOf
    <3>7. /\ actions'[c].status = "COMPLETED"
          /\ \A b \in Actions : b # c => actions'[b] = actions[b]
      BY <2>3, <3>1 DEF Commit, TypeOK, Row
    <3>8. ASSUME NEW b \in Actions
          PROVE  /\ \A i, j \in SuccessesOf(b)' : i = j
                 /\ actions'[b].status = "COMPLETED" <=> SuccessesOf(b)' # {}
      <4>1. CASE b = c
        BY <3>4, <3>5, <3>7, <4>1
      <4>2. CASE b # c
        BY <3>6, <3>7, <4>2 DEF AppliedOnceIfCompleted
      <4> QED
        BY <4>1, <4>2
    <3> QED
      BY <3>8 DEF AppliedOnceIfCompleted
  <2>4. CASE Mark(p)
    <3>1. a \in Actions /\ actions[a].status = "FAILED"
      BY <2>4 DEF Mark, At, HandInv, ActionsNamed, HeldStatus, Held
    <3>2. SuccessesOf(a) = {}
      BY <3>1 DEF AppliedOnceIfCompleted
    <3>3. CASE logs' = logs
      BY <2>4, <3>3, QuietApplied DEF Mark
    <3>4. ASSUME NEW i \in LatestOf(a), logs' = [logs EXCEPT ![i].kind = "failure"]
          PROVE  AppliedOnceIfCompleted'
      <4>1. i \in 1..Len(logs) /\ logs[i].action = a
        BY DEF LatestOf, LogsOf
      <4>2. /\ Len(logs') = Len(logs)
            /\ \A j \in 1..Len(logs) : logs'[j].action = logs[j].action
            /\ \A j \in 1..Len(logs) : logs'[j].kind = IF j = i THEN "failure" ELSE logs[j].kind
        BY <3>4, <4>1, MarkedLogs
      <4>3. \A b \in Actions : SuccessesOf(b)' = SuccessesOf(b)
        BY <3>2, <4>1, <4>2 DEF SuccessesOf, LogsOf
      <4> QED
        BY <2>4, <4>3 DEF Mark, AppliedOnceIfCompleted
    <3> QED
      BY <2>4, <3>3, <3>4 DEF Mark
  <2>5. CASE ~ Commit(p) /\ ~ Mark(p)
    <3>1. logs' = logs \/ Write(a, "failure")
      BY <1>2, <2>5 DEF ProcessNext, Look, Take, Leave, ProcessFails, Check, Rollback, Discard, Fail,
         WriteFailure
    <3>2. ~ (At(p, "transaction") /\ loops'[p].at = "look")
      BY <1>2, <2>5 DEF ProcessNext, Look, Take, Leave, ProcessFails, Check, Rollback, Discard, Fail,
         WriteFailure, GoTo, NextRound, At, TypeOK, Loop
    <3>3. \A b \in Actions : actions'[b].status = "COMPLETED" <=> actions[b].status = "COMPLETED"
      BY <2>1, <3>2 DEF Takes, Executes, Settles, Goes, MovesRow, KeepsRows, At, HandInv, HeldStatus, Held
    <3> QED
      BY <2>2, <3>1, <3>3, QuietApplied
  <2> QED
    BY <2>2, <2>3, <2>4, <2>5
<1>3. ASSUME NEW p \in Processes, Crash(p) PROVE AppliedOnceIfCompleted'
  BY <1>3, QuietApplied DEF Crash
<1>4. CASE FinishPlay \/ StartSession \/ DisbandSession \/ CombatSetsPlaying
  <2>1. logs' = logs
    BY <1>4 DEF FinishPlay, StartSession, DisbandSession, CombatSetsPlaying
  <2>2. \A a \in Actions : actions'[a].status = "COMPLETED" <=> actions[a].status = "COMPLETED"
    BY <1>4, SessionShape DEF Finishes, KeepsRows
  <2> QED
    BY <2>1, <2>2, QuietApplied
<1>5. CASE UNCHANGED vars
  BY <1>5, QuietApplied DEF vars
<1> QED
  BY <1>1, <1>2, <1>3, <1>4, <1>5 DEF Next
-----------------------------------------------------------------------------
IInv == TypeOK /\ HandInv /\ Attended /\ AppliedOnceIfCompleted

\* The invariant holds at the start.
LEMMA IInvInit == Init => IInv
<1> SUFFICES ASSUME Init PROVE IInv
  OBVIOUS
<1>1. Pending = {}
  BY DEF Init, Pending, NoRow
<1>2. \A a \in Actions : actions[a].status = "NONE" /\ SuccessesOf(a) = {}
  BY DEF Init, NoRow, SuccessesOf, LogsOf
<1> QED
  BY <1>1, <1>2, TypeInit, HandInit DEF IInv, Attended, AppliedOnceIfCompleted

\* The invariant is inductive.
LEMMA IInvStep == IInv /\ [Next]_vars => IInv'
BY TypeStep, HandStep, AttendedStep, AppliedStep DEF IInv

\* The inductive invariant holds of every state that is reached.
THEOREM Invariance == Spec => []IInv
BY IInvInit, IInvStep, PTL DEF Spec

\* An action has taken effect, exactly once, when and only when its row says
\* COMPLETED, whatever fails, is refused, or crashes around the loop.
THEOREM AppliedOnce == Spec => []AppliedOnceIfCompleted
<1>1. IInv => AppliedOnceIfCompleted
  BY DEF IInv
<1> QED
  BY <1>1, Invariance, PTL

\* The claim of claimNextPendingAction is exclusive: however many processes
\* poll the queue, no two of them execute the same action.
THEOREM ClaimsAreExclusive == Spec => []ClaimedByOne
<1>1. IInv => ClaimedByOne
  BY DEF IInv, HandInv, HeldByOne, ClaimedByOne, Executing, At, Held
<1> QED
  BY <1>1, Invariance, PTL

\* The flags of processNext lose no wake-up: as long as no process has
\* crashed, an action that is PENDING has a loop or a request that will look.
THEOREM NoWakeUpIsLost == Spec => []PendingIsAttended
<1>1. IInv => PendingIsAttended
  BY DEF IInv, Attended, WillLook, PendingIsAttended, LooksAgain, Serving, Held
<1> QED
  BY <1>1, Invariance, PTL

\* The session's lock and the second look at the row, inside the transaction,
\* keep every effect out of the time between two plays.
THEOREM NoEffectBetweenPlays == Spec => FinishedPlayTakesNoEffect
<1> DEFINE Step == \A a \in Actions :
               actions'[a].status = "COMPLETED" /\ actions[a].status # "COMPLETED"
               => session.activity # "DORMANT"
<1>1. IInv /\ [Next]_vars => [Step]_vars
  <2> SUFFICES ASSUME IInv, [Next]_vars, NEW a \in Actions,
                      actions'[a].status = "COMPLETED", actions[a].status # "COMPLETED"
               PROVE  session.activity # "DORMANT"
    OBVIOUS
  <2>1. ASSUME NEW r \in Requests, Arrive(r) \/ Serve(r) PROVE FALSE
    BY <2>1, RequestShape DEF IInv, HandInv, Answers, Wakes, MovesRow, KeepsRows
  <2>2. ASSUME NEW p \in Processes, ProcessNext(p) PROVE Locked
    BY <2>2, ProcessShape DEF IInv, HandInv, Takes, Executes, Settles, Goes, MovesRow, KeepsRows, Locked, At
  <2>3. ASSUME NEW p \in Processes, Crash(p) PROVE FALSE
    BY <2>3 DEF Crash
  <2>4. ASSUME FinishPlay \/ StartSession \/ DisbandSession \/ CombatSetsPlaying PROVE FALSE
    BY <2>4, SessionShape DEF IInv, Finishes, KeepsRows
  <2>5. Locked
    BY <2>1, <2>2, <2>3, <2>4 DEF Next, vars
  <2> QED
    BY <2>5 DEF IInv, HandInv, LockMeansOpen
<1> QED
  BY <1>1, Invariance, PTL DEF Spec, FinishedPlayTakesNoEffect
-----------------------------------------------------------------------------
(***************************************************************************)
(* The order of effects.                                                   *)
(***************************************************************************)
\* A row is created when all earlier ones have been; from then on it remains
\* a rest request or a plain action, and comes back to the queue only as a
\* rest request that was approved.
RowMoves(b) ==
    \/ /\ actions[b].status = "NONE"
       /\ \A c \in Actions : c < b => actions[c].status # "NONE"
       /\ actions'[b].status \in {"PENDING", "REJECTED"}
       /\ actions'[b].rest = (actions'[b].status = "REJECTED")
    \/ /\ actions'[b].rest = actions[b].rest
       /\ actions'[b].status = "NONE" <=> actions[b].status = "NONE"
       /\ actions'[b].status = "REJECTED" => actions[b].status = "REJECTED"
       /\ actions'[b].status = "PENDING" => actions[b].status \in {"PENDING", "REJECTED"}

\* Every step moves every row so.
LEMMA RowStep ==
    ASSUME TypeOK, HandInv, [Next]_vars, NEW b \in Actions
    PROVE  RowMoves(b)
<1>1. ASSUME actions' = actions PROVE RowMoves(b)
  BY <1>1 DEF RowMoves
<1>2. ASSUME NEW a \in Actions, NEW status \in {"PENDING", "REJECTED"}, Create(a, status)
      PROVE  RowMoves(b)
  BY <1>2 DEF Create, NoRow, RowMoves, TypeOK, Row, Actions
<1>3. ASSUME NEW a \in Actions, NEW status \in QueueStatus \ {"NONE", "REJECTED"}, NEW reason,
             actions[a].status # "NONE",
             status = "PENDING" => actions[a].status \in {"PENDING", "REJECTED"},
             \/ actions' = [actions EXCEPT ![a].status = status]
             \/ actions' = [actions EXCEPT ![a].status = status, ![a].reason = reason]
      PROVE  RowMoves(b)
  BY <1>3 DEF RowMoves, TypeOK, Row, QueueStatus
<1>4. ASSUME NEW r \in Requests, Arrive(r) \/ Serve(r) PROVE RowMoves(b)
  <2>1. CASE Approve(r) \/ Decline(r)
    <3>1. requests[r].action \in Actions
      BY <2>1 DEF Approve, Decline, Serving, HandInv, ActionsNamed
    <3> QED
      BY <1>1, <1>3, <2>1, <3>1 DEF Approve, Decline, QueueStatus
  <2>2. CASE ~ (Approve(r) \/ Decline(r))
    BY <1>1, <1>2, <1>4, <2>2 DEF Arrive, Serve, SubmitRead, DecisionRead, OtherLog, SubmitCreate,
       RestCreate, Kick, LogRead, LogWrite
  <2> QED
    BY <2>1, <2>2
<1>5. ASSUME NEW p \in Processes, ProcessNext(p) PROVE RowMoves(b)
  <2> DEFINE a == loops[p].action
  <2>1. CASE Take(p) \/ Commit(p) \/ Discard(p) \/ Fail(p)
    <3>1. a \in Actions
      BY <2>1 DEF Take, Commit, Discard, Fail, At, HandInv, ActionsNamed, Held
    <3>2. CASE Take(p)
      BY <1>1, <1>3, <3>1, <3>2 DEF Take, QueueStatus
    <3>3. CASE Discard(p)
      BY <1>1, <1>3, <3>1, <3>3 DEF Discard, QueueStatus
    <3>4. CASE Commit(p) \/ Fail(p)
      <4>1. actions[a].status # "NONE"
        BY <3>4 DEF Commit, Fail, At, HandInv, HeldStatus, Held
      <4> QED
        BY <1>3, <3>1, <3>4, <4>1 DEF Commit, Fail, QueueStatus
    <3> QED
      BY <2>1, <3>2, <3>3, <3>4
  <2>2. CASE ~ (Take(p) \/ Commit(p) \/ Discard(p) \/ Fail(p))
    BY <1>1, <1>5, <2>2 DEF ProcessNext, Look, Leave, ProcessFails, Check, Rollback, Mark, WriteFailure
  <2> QED
    BY <2>1, <2>2
<1>6. CASE FinishPlay
  BY <1>6 DEF FinishPlay, RowMoves, TypeOK, Row
<1>7. CASE StartSession \/ DisbandSession \/ CombatSetsPlaying \/ UNCHANGED vars \/ \E p \in Processes : Crash(p)
  BY <1>1, <1>7 DEF StartSession, DisbandSession, CombatSetsPlaying, vars, Crash
<1> QED
  BY <1>4, <1>5, <1>6, <1>7 DEF Next

\* An action that a loop is about to claim, or has claimed.
InHand(a) == \E p \in Processes : loops[p].at \in Held \cup {"take"} /\ loops[p].action = a

\* A loop takes an action in hand only by finding it the oldest that waits.
LEMMA HandMoves ==
    ASSUME TypeOK, HandInv, [Next]_vars, NEW b \in Actions, InHand(b)'
    PROVE  InHand(b) \/ b \in Oldest
<1> PICK p \in Processes : loops'[p].at \in Held \cup {"take"} /\ loops'[p].action = b
  BY DEF InHand
<1>1. ASSUME loops'[p] = loops[p] PROVE InHand(b)
  BY <1>1 DEF InHand
<1>2. ASSUME NEW r \in Requests, Arrive(r) \/ Serve(r) PROVE InHand(b)
  BY <1>1, <1>2, RequestShape DEF HandInv, Answers, Wakes, OnlyLoop, InHand, Held
<1>3. ASSUME NEW q \in Processes, ProcessNext(q) PROVE InHand(b) \/ b \in Oldest
  <2>1. CASE q # p
    BY <1>1, <1>3, <2>1, ProcessShape DEF HandInv, Takes, Executes, Settles, Goes, OnlyLoop
  <2>2. CASE q = p /\ Look(p)
    BY <2>2 DEF Look, GoTo, TypeOK, Loop, Held
  <2>3. CASE q = p /\ ~ Look(p)
    BY <1>3, <2>3 DEF ProcessNext, Take, Leave, ProcessFails, Check, Commit, Rollback, Discard, Fail,
       Mark, WriteFailure, At, GoTo, NextRound, TypeOK, Loop, InHand, Held
  <2> QED
    BY <2>1, <2>2, <2>3
<1>4. ASSUME NEW q \in Processes, Crash(q) PROVE InHand(b)
  BY <1>1, <1>4 DEF Crash, IdleLoop, TypeOK, Held
<1>5. CASE FinishPlay \/ StartSession \/ DisbandSession \/ CombatSetsPlaying
  BY <1>1, <1>5, SessionShape
<1>6. CASE UNCHANGED vars
  BY <1>1, <1>6 DEF vars
<1> QED
  BY <1>2, <1>3, <1>4, <1>5, <1>6 DEF Next

\* No step rewrites what a turn applied, and only a commit adds to it.
TurnsStay ==
    \A i \in 1..Len(logs) :
        /\ logs'[i].action = logs[i].action
        /\ logs'[i].kind = "success" <=> logs[i].kind = "success"

TurnKept == Len(logs') = Len(logs) /\ TurnsStay

TurnTaken(a) ==
    /\ Len(logs') = Len(logs) + 1
    /\ TurnsStay
    /\ Applied(logs'[Len(logs) + 1]) = a
    /\ logs'[Len(logs) + 1].kind = "success" <=> a # NoAction

\* Every step keeps the turns, or adds one of the two kinds.
LEMMA TurnStep ==
    ASSUME TypeOK, HandInv, AppliedOnceIfCompleted, [Next]_vars
    PROVE  \/ TurnKept
           \/ TurnTaken(NoAction) /\ actions' = actions
           \/ \E p \in Processes : Commit(p) /\ loops[p].action \in Actions /\ TurnTaken(loops[p].action)
<1>1. ASSUME logs' = logs PROVE TurnKept
  BY <1>1 DEF TurnKept, TurnsStay
<1>2. ASSUME NEW a \in Actions \cup {NoAction}, NEW kind \in {"failure", "other"}, Write(a, kind)
      PROVE  TurnTaken(NoAction)
  <2>1. /\ Len(logs') = Len(logs) + 1
        /\ \A i \in 1..Len(logs) : logs'[i] = logs[i]
        /\ logs'[Len(logs) + 1] = [action |-> a, kind |-> kind]
    BY <1>2, WrittenLogs
  <2> QED
    BY <2>1 DEF TurnTaken, TurnsStay, Applied
<1>3. ASSUME NEW r \in Requests, Arrive(r) \/ Serve(r)
      PROVE  TurnKept \/ (TurnTaken(NoAction) /\ actions' = actions)
  <2>1. CASE LogWrite(r)
    <3>1. requests[r].action \in Actions \cup {NoAction}
      BY DEF TypeOK, Request
    <3> QED
      BY <1>1, <1>2, <2>1, <3>1 DEF LogWrite
  <2>2. CASE ~ LogWrite(r)
    <3>1. logs' = logs
      BY <1>3, <2>2 DEF Arrive, Serve, SubmitRead, DecisionRead, OtherLog, SubmitCreate, RestCreate,
         Kick, Approve, Decline, LogRead
    <3> QED
      BY <1>1, <3>1
  <2> QED
    BY <2>1, <2>2
<1>4. ASSUME NEW p \in Processes, ProcessNext(p)
      PROVE  \/ TurnKept
             \/ TurnTaken(NoAction) /\ actions' = actions
             \/ Commit(p) /\ loops[p].action \in Actions /\ TurnTaken(loops[p].action)
  <2> DEFINE a == loops[p].action
  <2>1. CASE Commit(p)
    <3>1. a \in Actions
      BY <2>1 DEF Commit, At, HandInv, ActionsNamed, Held
    <3>2. TurnTaken(a)
      <4>1. /\ Len(logs') = Len(logs) + 1
            /\ \A i \in 1..Len(logs) : logs'[i] = logs[i]
            /\ logs'[Len(logs) + 1] = [action |-> a, kind |-> "success"]
        BY <2>1, <3>1, WrittenLogs DEF Commit
      <4> QED
        BY <3>1, <4>1 DEF NoAction, Actions, TurnTaken, TurnsStay, Applied
    <3> QED
      BY <2>1, <3>1, <3>2
  <2>2. CASE Mark(p)
    <3>1. a \in Actions /\ actions[a].status = "FAILED"
      BY <2>2 DEF Mark, At, HandInv, ActionsNamed, HeldStatus, Held
    <3>2. SuccessesOf(a) = {}
      BY <3>1 DEF AppliedOnceIfCompleted
    <3>3. ASSUME NEW i \in LatestOf(a), logs' = [logs EXCEPT ![i].kind = "failure"]
          PROVE  TurnKept
      <4>1. i \in 1..Len(logs) /\ logs[i].action = a /\ logs[i].kind # "success"
        BY <3>2 DEF LatestOf, LogsOf, SuccessesOf
      <4> QED
        BY <3>3, <4>1, MarkedLogs DEF TurnKept, TurnsStay, Applied
    <3> QED
      BY <1>1, <2>2, <3>3 DEF Mark
  <2>3. CASE WriteFailure(p)
    <3>1. a \in Actions
      BY <2>3 DEF WriteFailure, At, HandInv, ActionsNamed, Held
    <3> QED
      BY <1>1, <1>2, <2>3, <3>1 DEF WriteFailure
  <2>4. CASE ~ (Commit(p) \/ Mark(p) \/ WriteFailure(p))
    BY <1>1, <1>4, <2>4 DEF ProcessNext, Look, Take, Leave, ProcessFails, Check, Rollback, Discard, Fail
  <2> QED
    BY <2>1, <2>2, <2>3, <2>4
<1>5. CASE FinishPlay \/ StartSession \/ DisbandSession \/ CombatSetsPlaying \/ UNCHANGED vars
           \/ \E p \in Processes : Crash(p)
  BY <1>1, <1>5 DEF FinishPlay, StartSession, DisbandSession, CombatSetsPlaying, vars, Crash
<1> QED
  BY <1>3, <1>4, <1>5 DEF Next
\* A success in the history was one before the step, or is its commit's.
LEMMA SuccessStep ==
    ASSUME TypeOK, HandInv, AppliedOnceIfCompleted, [Next]_vars,
           NEW i \in 1..Len(logs'), logs'[i].kind = "success"
    PROVE  \/ i \in 1..Len(logs) /\ logs[i].kind = "success" /\ logs[i].action = logs'[i].action
           \/ /\ i = Len(logs) + 1
              /\ \E p \in Processes : Commit(p) /\ loops[p].action \in Actions
                                      /\ logs'[i].action = loops[p].action
<1>1. Len(logs) \in Nat
  BY DEF TypeOK
<1>2. CASE TurnKept
  BY <1>2 DEF TurnKept, TurnsStay
<1>3. CASE TurnTaken(NoAction)
  BY <1>1, <1>3 DEF TurnTaken, TurnsStay
<1>4. ASSUME NEW p \in Processes, Commit(p), loops[p].action \in Actions, TurnTaken(loops[p].action)
      PROVE  \/ i \in 1..Len(logs) /\ logs[i].kind = "success" /\ logs[i].action = logs'[i].action
             \/ i = Len(logs) + 1 /\ logs'[i].action = loops[p].action
  BY <1>1, <1>4 DEF TurnTaken, TurnsStay, Applied
<1> QED
  BY <1>2, <1>3, <1>4, TurnStep
-----------------------------------------------------------------------------
Passed(a) == actions[a].status \notin {"NONE", "PENDING"}

\* Everything accepted before a, rests aside, has been claimed or refused.
HasItsTurn(a) == \A b \in Actions : b < a /\ ~ actions[b].rest => Passed(b)

CreatedInOrder ==
    \A a, b \in Actions : b < a /\ actions[a].status # "NONE" => actions[b].status # "NONE"

RestsMarked ==
    \A a \in Actions :
        /\ actions[a].status = "REJECTED" => actions[a].rest
        /\ actions[a].status = "NONE" => ~ actions[a].rest

OldestInHand == \A a \in Actions : InHand(a) => actions[a].status # "NONE" /\ HasItsTurn(a)

\* What an applied action came after is neither waiting nor in hand any more.
AppliedInTurn ==
    \A i \in 1..Len(logs) : logs[i].kind = "success" =>
        /\ logs[i].action \in Actions
        /\ HasItsTurn(logs[i].action)
        /\ \A b \in Actions : b < logs[i].action /\ ~ actions[b].rest => ~ InHand(b)

OrderInv == CreatedInOrder /\ RestsMarked /\ OldestInHand /\ AppliedInTurn

\* docker-compose.yml starts one backend.
OneProcess == \A p, q \in Processes : p = q

\* The queue starts empty.
LEMMA OrderInit == Init => OrderInv /\ EffectsInOrder
BY DEF Init, OrderInv, CreatedInOrder, RestsMarked, OldestInHand, AppliedInTurn, EffectsInOrder, InHand,
   IdleLoop, NoRow, Held

\* A row that had its turn keeps it: nothing plain waits again, and what is
\* created comes after it.
LEMMA TurnIsKept ==
    ASSUME TypeOK, HandInv, CreatedInOrder, RestsMarked, [Next]_vars, NEW a \in Actions,
           HasItsTurn(a), actions[a].status # "NONE"
    PROVE  HasItsTurn(a)'
<1> SUFFICES ASSUME NEW b \in Actions, b < a, ~ actions'[b].rest PROVE Passed(b)'
  BY DEF HasItsTurn
<1>1. RowMoves(b) /\ actions[b].status # "NONE"
  BY RowStep DEF CreatedInOrder
<1>2. Passed(b) /\ ~ actions[b].rest
  BY <1>1 DEF HasItsTurn, RowMoves
<1> QED
  BY <1>1, <1>2 DEF Passed, RowMoves, RestsMarked

\* The loop takes what is oldest, and takes nothing else before it is done.
LEMMA OrderStep ==
    ASSUME OneProcess, TypeOK, HandInv, AppliedOnceIfCompleted, OrderInv, [Next]_vars
    PROVE  OrderInv'
<1>1. \A b \in Actions : RowMoves(b)
  BY RowStep
<1>2. Actions \subseteq Nat
  BY DEF Actions
<1>3. CreatedInOrder'
  BY <1>1, <1>2 DEF RowMoves, OrderInv, CreatedInOrder
<1>4. RestsMarked'
  BY <1>1 DEF RowMoves, OrderInv, RestsMarked
<1>5. OldestInHand'
  <2> SUFFICES ASSUME NEW a \in Actions, InHand(a)'
               PROVE  actions'[a].status # "NONE" /\ HasItsTurn(a)'
    BY DEF OldestInHand
  <2>1. actions[a].status # "NONE" /\ HasItsTurn(a)
    <3>1. CASE InHand(a)
      BY <3>1 DEF OrderInv, OldestInHand
    <3>2. CASE a \in Oldest
      BY <1>2, <3>2 DEF Oldest, Pending, HasItsTurn, Passed, OrderInv, CreatedInOrder
    <3> QED
      BY <3>1, <3>2, HandMoves
  <2> QED
    BY <1>1, <2>1, TurnIsKept DEF RowMoves, OrderInv
<1>6. AppliedInTurn'
  <2> SUFFICES ASSUME NEW i \in 1..Len(logs'), logs'[i].kind = "success",
                      NEW a, a = logs'[i].action
               PROVE  /\ a \in Actions
                      /\ HasItsTurn(a)'
                      /\ \A b \in Actions : b < a /\ ~ actions'[b].rest => ~ InHand(b)'
    BY DEF AppliedInTurn, HasItsTurn
  <2>1. ASSUME i \in 1..Len(logs), logs[i].kind = "success", logs[i].action = a
        PROVE  /\ a \in Actions
               /\ HasItsTurn(a)'
               /\ \A b \in Actions : b < a /\ ~ actions'[b].rest => ~ InHand(b)'
    <3>1. /\ a \in Actions
          /\ HasItsTurn(a)
          /\ \A b \in Actions : b < a /\ ~ actions[b].rest => ~ InHand(b)
      BY <2>1 DEF OrderInv, AppliedInTurn
    <3>2. i \in SuccessesOf(a)
      BY <2>1 DEF SuccessesOf, LogsOf
    <3>3. actions[a].status = "COMPLETED"
      BY <3>1, <3>2 DEF AppliedOnceIfCompleted
    <3>4. ASSUME NEW b \in Actions, b < a, ~ actions'[b].rest PROVE ~ InHand(b)'
      <4>1. actions[b].status # "NONE"
        BY <3>1, <3>3, <3>4 DEF OrderInv, CreatedInOrder
      <4>2. ~ actions[b].rest
        BY <1>1, <3>4, <4>1 DEF RowMoves
      <4>3. Passed(b) /\ ~ InHand(b)
        BY <3>1, <3>4, <4>2 DEF HasItsTurn
      <4> QED
        BY <4>3, HandMoves DEF Oldest, Pending, Passed
    <3>5. HasItsTurn(a)'
      BY <3>1, <3>3, TurnIsKept DEF OrderInv
    <3> QED
      BY <3>1, <3>4, <3>5
  <2>2. ASSUME NEW p \in Processes, Commit(p), loops[p].action \in Actions, a = loops[p].action
        PROVE  /\ a \in Actions
               /\ HasItsTurn(a)'
               /\ \A b \in Actions : b < a /\ ~ actions'[b].rest => ~ InHand(b)'
    <3>1. InHand(loops[p].action)
      BY <2>2 DEF Commit, At, InHand, Held
    <3>2. actions[a].status # "NONE" /\ HasItsTurn(a)
      BY <2>2, <3>1 DEF OrderInv, OldestInHand
    <3>3. HasItsTurn(a)'
      BY <2>2, <3>2, TurnIsKept DEF OrderInv
    <3>4. loops'[p].at = "look"
      BY <2>2 DEF Commit, NextRound, TypeOK, Loop
    <3>5. \A b \in Actions : ~ InHand(b)'
      BY <3>4 DEF OneProcess, InHand, Held
    <3> QED
      BY <2>2, <3>3, <3>5
  <2>3. \/ i \in 1..Len(logs) /\ logs[i].kind = "success" /\ logs[i].action = a
        \/ \E p \in Processes : Commit(p) /\ loops[p].action \in Actions /\ a = loops[p].action
    BY SuccessStep
  <2> QED
    BY <2>1, <2>2, <2>3
<1> QED
  BY <1>3, <1>4, <1>5, <1>6 DEF OrderInv

\* A commit comes after everything that it may not overtake.
LEMMA EffectsStep ==
    ASSUME TypeOK, HandInv, AppliedOnceIfCompleted, OrderInv, EffectsInOrder, [Next]_vars
    PROVE  EffectsInOrder'
<1> SUFFICES ASSUME NEW i \in 1..Len(logs'), NEW j \in 1..Len(logs'), i < j,
                    logs'[i].kind = "success", logs'[j].kind = "success",
                    ~ actions'[logs'[j].action].rest
             PROVE  logs'[i].action < logs'[j].action
  BY DEF EffectsInOrder
<1> DEFINE Old(k) == k \in 1..Len(logs) /\ logs[k].kind = "success" /\ logs[k].action = logs'[k].action
<1>1. ASSUME NEW k \in 1..Len(logs'), logs'[k].kind = "success"
      PROVE  \/ Old(k)
             \/ /\ k = Len(logs) + 1
                /\ \E p \in Processes : Commit(p) /\ loops[p].action \in Actions
                                        /\ logs'[k].action = loops[p].action
  BY <1>1, SuccessStep
<1>2. Len(logs) \in Nat
  BY DEF TypeOK
<1>3. Old(i)
  <2>1. Len(logs') <= Len(logs) + 1
    BY <1>2, TurnStep DEF TurnKept, TurnTaken, TurnsStay
  <2> QED
    BY <1>1, <1>2, <2>1
<1>4. logs[i].action \in Actions /\ actions[logs[i].action].status = "COMPLETED"
  <2>1. logs[i].action \in Actions
    BY <1>3 DEF OrderInv, AppliedInTurn
  <2>2. i \in SuccessesOf(logs[i].action)
    BY <1>3 DEF SuccessesOf, LogsOf
  <2> QED
    BY <2>1, <2>2 DEF AppliedOnceIfCompleted
<1>5. CASE Old(j)
  <2>1. logs[j].action \in Actions /\ actions[logs[j].action].status = "COMPLETED"
    <3>1. logs[j].action \in Actions
      BY <1>5 DEF OrderInv, AppliedInTurn
    <3>2. j \in SuccessesOf(logs[j].action)
      BY <1>5 DEF SuccessesOf, LogsOf
    <3> QED
      BY <3>1, <3>2 DEF AppliedOnceIfCompleted
  <2>2. ~ actions[logs[j].action].rest
    BY <1>5, <2>1, RowStep DEF RowMoves
  <2> QED
    BY <1>3, <1>5, <2>2 DEF EffectsInOrder
<1>6. ASSUME NEW p \in Processes, Commit(p), loops[p].action \in Actions, logs'[j].action = loops[p].action
      PROVE  logs[i].action < loops[p].action
  <2> DEFINE a == loops[p].action
  <2>1. InHand(a) /\ actions[a].status = "PROCESSING"
    BY <1>6 DEF Commit, At, InHand, HandInv, HeldStatus, Held
  <2>2. ~ actions[a].rest
    BY <1>6, <2>1, RowStep DEF RowMoves
  <2>3. ~ a < logs[i].action
    BY <1>3, <1>6, <2>1, <2>2 DEF OrderInv, AppliedInTurn
  <2>4. a # logs[i].action
    BY <1>4, <2>1
  <2> QED
    BY <1>4, <1>6, <2>3, <2>4 DEF Actions
<1> QED
  BY <1>1, <1>3, <1>5, <1>6

\* One process drains the queue in the order of submission: no action takes
\* effect before one accepted earlier, rests waiting for the GM aside.
THEOREM EffectsComeInOrder ==
    ASSUME OneProcess
    PROVE  Spec => []EffectsInOrder
<1>1. IInv /\ OrderInv /\ EffectsInOrder /\ [Next]_vars => OrderInv' /\ EffectsInOrder'
  BY OrderStep, EffectsStep DEF IInv
<1> QED
  BY <1>1, OrderInit, Invariance, PTL DEF Spec
-----------------------------------------------------------------------------
(***************************************************************************)
(* The refinement: ActionVerdicts' two variables, read off the state.      *)
(***************************************************************************)
Verdicts == [a \in Actions |-> Verdict(actions[a].status)]
Turns == [i \in 1..Len(logs) |-> Applied(logs[i])]

\* A sequence one longer than another that it begins with.
LEMMA Appended ==
    ASSUME NEW S, NEW s \in Seq(S), NEW t \in Seq(S), NEW e \in S,
           Len(t) = Len(s) + 1, \A i \in 1..Len(s) : t[i] = s[i], t[Len(s) + 1] = e
    PROVE  t = Append(s, e)
<1>1. /\ Append(s, e) \in Seq(S)
      /\ Len(Append(s, e)) = Len(s) + 1
      /\ \A i \in 1..Len(s) : Append(s, e)[i] = s[i]
      /\ Append(s, e)[Len(s) + 1] = e
  OBVIOUS
<1>2. \A i \in 1..Len(t) : t[i] = Append(s, e)[i]
  BY <1>1
<1> QED
  BY <1>1, <1>2, SeqEqual

\* The turns of a history are a sequence as long as it.
LEMMA TurnsType ==
    ASSUME NEW history \in Seq(Log)
    PROVE  LET t == [i \in 1..Len(history) |-> Applied(history[i])]
           IN  t \in Seq(Actions \cup {NoAction}) /\ Len(t) = Len(history)
<1> DEFINE n == Len(history)
           t == [i \in 1..n |-> Applied(history[i])]
<1>1. n \in Nat /\ \A i \in 1..n : Applied(history[i]) \in Actions \cup {NoAction}
  <2>1. n \in Nat /\ \A i \in 1..n : history[i] \in Log
    OBVIOUS
  <2>2. \A log \in Log : Applied(log) \in Actions \cup {NoAction}
    BY DEF Log, Applied
  <2> QED
    BY <2>1, <2>2
<1> HIDE DEF n
<1>2. t \in [1..n -> Actions \cup {NoAction}]
  BY <1>1
<1>3. t \in Seq(Actions \cup {NoAction}) /\ Len(t) = n
  BY <1>1, <1>2
<1> QED
  BY <1>3 DEF n

\* How ActionVerdicts sees the history change.
LEMMA TurnsStep ==
    ASSUME TypeOK, TypeOK'
    PROVE  /\ TurnKept => Turns' = Turns
           /\ \A a \in Actions \cup {NoAction} : TurnTaken(a) => Turns' = Append(Turns, a)
<1>1. /\ Turns \in Seq(Actions \cup {NoAction}) /\ Len(Turns) = Len(logs)
      /\ Turns' \in Seq(Actions \cup {NoAction}) /\ Len(Turns') = Len(logs')
  BY TurnsType DEF TypeOK, Turns
<1>2. /\ \A i \in 1..Len(logs) : Turns[i] = Applied(logs[i])
      /\ \A i \in 1..Len(logs') : Turns'[i] = Applied(logs'[i])
  BY DEF Turns
<1>3. Len(logs) \in Nat
  BY DEF TypeOK
<1>4. ASSUME TurnsStay PROVE \A i \in 1..Len(logs) : Applied(logs'[i]) = Applied(logs[i])
  BY <1>4 DEF TurnsStay, Applied
<1>5. ASSUME TurnKept PROVE Turns' = Turns
  <2>1. \A i \in 1..Len(Turns) : Turns'[i] = Turns[i]
    BY <1>1, <1>2, <1>4, <1>5 DEF TurnKept
  <2> QED
    BY <1>1, <1>5, <2>1, SeqEqual DEF TurnKept
<1>6. ASSUME NEW a \in Actions \cup {NoAction}, TurnTaken(a) PROVE Turns' = Append(Turns, a)
  <2>1. /\ Len(Turns') = Len(Turns) + 1
        /\ \A i \in 1..Len(Turns) : Turns'[i] = Turns[i]
        /\ Turns'[Len(Turns) + 1] = a
    BY <1>1, <1>2, <1>3, <1>4, <1>6 DEF TurnTaken
  <2> QED
    BY <1>1, <2>1, Appended
<1> QED
  BY <1>5, <1>6

\* What the moves of the statuses are to those who wait for a verdict.
Accepts == \E a \in Actions :
    Verdicts[a] = "none" /\ Verdicts' = [Verdicts EXCEPT ![a] = "waiting"]
Refuses == \E S \in SUBSET {a \in Actions : Verdicts[a] = "waiting"} :
    Verdicts' = [a \in Actions |-> IF a \in S THEN "refused" ELSE Verdicts[a]]

\* Every step accepts one action, applies one, or refuses some or none.
LEMMA VerdictStep ==
    ASSUME TypeOK, HandInv, [Next]_vars
    PROVE  \/ Accepts
           \/ Refuses
           \/ \E p \in Processes :
                 /\ Commit(p)
                 /\ Verdicts[loops[p].action] = "waiting"
                 /\ Verdicts' = [Verdicts EXCEPT ![loops[p].action] = "applied"]
<1>0. {} \in SUBSET {a \in Actions : Verdicts[a] = "waiting"}
  OBVIOUS
<1>1. \A a \in Actions : actions[a].status \in QueueStatus
  BY DEF TypeOK, Row
<1>2. ASSUME KeepsRows PROVE Refuses
  <2>1. Verdicts' = [a \in Actions |-> IF a \in {} THEN "refused" ELSE Verdicts[a]]
    BY <1>2 DEF KeepsRows, Verdicts
  <2> QED
    BY <1>0, <2>1 DEF Refuses
<1>3. ASSUME NEW a \in Actions, NEW from, NEW to, MovesRow(a, from, to)
      PROVE  /\ actions[a].status \in from
             /\ Verdicts[a] = Verdict(actions[a].status)
             /\ Verdicts' = [Verdicts EXCEPT ![a] = Verdict(to)]
  BY <1>3 DEF MovesRow, Verdicts
<1>4. ASSUME NEW a \in Actions, NEW to \in {"PENDING", "REJECTED"}, MovesRow(a, {"NONE"}, to)
      PROVE  Accepts
  <2>1. Verdicts[a] = "none" /\ Verdicts' = [Verdicts EXCEPT ![a] = "waiting"]
    BY <1>3, <1>4 DEF Verdict
  <2> QED
    BY <2>1 DEF Accepts
<1>5. ASSUME NEW a \in Actions, NEW to \in {"PENDING", "PROCESSING"}, MovesRow(a, {"REJECTED", "PENDING"}, to)
      PROVE  Refuses
  <2>1. Verdicts[a] = "waiting" /\ Verdicts' = [Verdicts EXCEPT ![a] = "waiting"]
    BY <1>3, <1>5 DEF Verdict
  <2>2. Verdicts' = [b \in Actions |-> IF b \in {} THEN "refused" ELSE Verdicts[b]]
    BY <2>1 DEF Verdicts
  <2> QED
    BY <1>0, <2>2 DEF Refuses
<1>6. ASSUME NEW a \in Actions, MovesRow(a, {"REJECTED", "PROCESSING", "FAILED"}, "FAILED")
      PROVE  Refuses
  <2>1. Verdicts[a] \in {"waiting", "refused"} /\ Verdicts' = [Verdicts EXCEPT ![a] = "refused"]
    BY <1>3, <1>6 DEF Verdict
  <2>2. CASE Verdicts[a] = "waiting"
    <3>1. Verdicts' = [b \in Actions |-> IF b \in {a} THEN "refused" ELSE Verdicts[b]]
      BY <2>1 DEF Verdicts
    <3>2. {a} \in SUBSET {b \in Actions : Verdicts[b] = "waiting"}
      BY <2>2
    <3> QED
      BY <3>1, <3>2 DEF Refuses
  <2>3. CASE Verdicts[a] = "refused"
    <3>1. Verdicts' = [b \in Actions |-> IF b \in {} THEN "refused" ELSE Verdicts[b]]
      BY <2>1, <2>3 DEF Verdicts
    <3> QED
      BY <1>0, <3>1 DEF Refuses
  <2> QED
    BY <2>1, <2>2, <2>3
<1>7. ASSUME NEW r \in Requests, Arrive(r) \/ Serve(r) PROVE Accepts \/ Refuses
  <2>1. Answers(r) \/ \E p \in Processes : Wakes(p)
    BY <1>7, RequestShape DEF HandInv
  <2>2. ASSUME NEW a \in Actions, MovesRow(a, {"REJECTED"}, "FAILED") PROVE Refuses
    BY <1>6, <2>2 DEF MovesRow
  <2>3. ASSUME NEW a \in Actions, MovesRow(a, {"NONE", "REJECTED"}, "PENDING") PROVE Accepts \/ Refuses
    <3>1. MovesRow(a, {"NONE"}, "PENDING") \/ MovesRow(a, {"REJECTED", "PENDING"}, "PENDING")
      BY <2>3 DEF MovesRow
    <3> QED
      BY <1>4, <1>5, <3>1
  <2> QED
    BY <1>2, <1>4, <2>1, <2>2, <2>3 DEF Answers, Wakes
<1>8. ASSUME NEW p \in Processes, ProcessNext(p)
      PROVE  \/ Refuses
             \/ /\ Commit(p)
                /\ Verdicts[loops[p].action] = "waiting"
                /\ Verdicts' = [Verdicts EXCEPT ![loops[p].action] = "applied"]
  <2> DEFINE a == loops[p].action
  <2>1. Takes(p) \/ Executes(p) \/ Settles(p)
    BY <1>8, ProcessShape DEF HandInv
  <2>2. CASE Commit(p)
    <3>1. a \in Actions /\ actions[a].status = "PROCESSING"
      BY <2>2 DEF Commit, At, HandInv, ActionsNamed, HeldStatus, Held
    <3>2. MovesRow(a, {"PROCESSING"}, "COMPLETED")
      BY <2>2, <3>1 DEF Commit, MovesRow, TypeOK, Row
    <3> QED
      BY <1>3, <2>2, <3>1, <3>2 DEF Verdict
  <2>3. CASE ~ Commit(p)
    <3>1. \/ KeepsRows
          \/ a \in Actions /\ MovesRow(a, {"PENDING"}, "PROCESSING")
          \/ a \in Actions /\ MovesRow(a, {"PROCESSING", "FAILED"}, "FAILED")
      <4>1. CASE Take(p) \/ Discard(p) \/ Fail(p)
        <5>1. a \in Actions
          BY <4>1 DEF Take, Discard, Fail, At, HandInv, ActionsNamed, Held
        <5>2. CASE Take(p)
          BY <5>1, <5>2 DEF Take, KeepsRows, MovesRow, TypeOK, Row
        <5>3. CASE Discard(p)
          BY <5>1, <5>3 DEF Discard, KeepsRows, MovesRow, TypeOK, Row
        <5>4. CASE Fail(p)
          <6>1. actions[a].status \in {"PROCESSING", "FAILED"}
            BY <5>4 DEF Fail, At, HandInv, HeldStatus, Held
          <6> QED
            BY <5>1, <5>4, <6>1 DEF Fail, MovesRow, TypeOK, Row
        <5> QED
          BY <4>1, <5>2, <5>3, <5>4
      <4>2. CASE ~ (Take(p) \/ Discard(p) \/ Fail(p))
        BY <1>8, <2>3, <4>2 DEF ProcessNext, Look, Leave, ProcessFails, Check, Rollback, Mark, WriteFailure,
           KeepsRows
      <4> QED
        BY <4>1, <4>2
    <3>2. MovesRow(a, {"PENDING"}, "PROCESSING") => MovesRow(a, {"REJECTED", "PENDING"}, "PROCESSING")
      BY DEF MovesRow
    <3>3. MovesRow(a, {"PROCESSING", "FAILED"}, "FAILED")
          => MovesRow(a, {"REJECTED", "PROCESSING", "FAILED"}, "FAILED")
      BY DEF MovesRow
    <3> QED
      BY <1>2, <1>5, <1>6, <3>1, <3>2, <3>3
  <2> QED
    BY <2>2, <2>3
<1>9. CASE FinishPlay \/ StartSession \/ DisbandSession \/ CombatSetsPlaying
  <2>1. CASE Finishes
    <3> DEFINE S == {a \in Actions : actions[a].status \in {"PENDING", "PROCESSING"}}
    <3>1. S \in SUBSET {a \in Actions : Verdicts[a] = "waiting"}
      BY DEF Verdicts, Verdict
    <3>2. Verdicts' = [a \in Actions |-> IF a \in S THEN "refused" ELSE Verdicts[a]]
      BY <1>1, <2>1 DEF Finishes, Verdicts, Verdict, QueueStatus
    <3> QED
      BY <3>1, <3>2 DEF Refuses
  <2> QED
    BY <1>2, <1>9, <2>1, SessionShape
<1>10. CASE UNCHANGED vars \/ \E p \in Processes : Crash(p)
  BY <1>2, <1>10 DEF vars, Crash, KeepsRows
<1> QED
  BY <1>7, <1>8, <1>9, <1>10 DEF Next

\* No verdicts and no turns at the start.
LEMMA PromiseInit == Init => Promise!Init
BY DEF Init, NoRow, Verdict, Promise!Init

\* A step is a step of ActionVerdicts, or changes neither variable.
LEMMA PromiseStep ==
    ASSUME IInv, [Next]_vars
    PROVE  [Promise!Next]_<<Verdicts, Turns>>
<1>1. TypeOK /\ HandInv /\ AppliedOnceIfCompleted /\ TypeOK'
  BY TypeStep DEF IInv
<1>2. \A a \in Actions : a \in Actions \cup {NoAction}
  OBVIOUS
<1>3. CASE TurnTaken(NoAction) /\ actions' = actions
  <2>1. Turns' = Append(Turns, NoAction) /\ Verdicts' = Verdicts
    BY <1>1, <1>3, TurnsStep DEF Verdicts
  <2> QED
    BY <2>1 DEF Promise!Next, Promise!Pass, Turns, Verdicts
<1>4. ASSUME NEW p \in Processes, Commit(p), loops[p].action \in Actions, TurnTaken(loops[p].action)
      PROVE  Promise!Next
  <2> DEFINE a == loops[p].action
  <2>1. Turns' = Append(Turns, a)
    BY <1>1, <1>2, <1>4, TurnsStep
  <2>2. actions[a].status = "PROCESSING"
    BY <1>1, <1>4 DEF Commit, At, HandInv, HeldStatus, Held
  <2>3. Verdicts[a] = "waiting" /\ Verdicts' = [Verdicts EXCEPT ![a] = "applied"]
    <3>1. \A b \in Actions : actions'[b].status = IF b = a THEN "COMPLETED" ELSE actions[b].status
      BY <1>1, <1>4 DEF Commit, TypeOK, Row
    <3>2. Verdict("COMPLETED") = "applied" /\ Verdict("PROCESSING") = "waiting"
      BY DEF Verdict
    <3> QED
      BY <1>4, <2>2, <3>1, <3>2 DEF Verdicts
  <2>4. Promise!Apply(a)
    BY <2>1, <2>3 DEF Promise!Apply, Promise!Decide, Turns, Verdicts
  <2> QED
    BY <1>4, <2>4 DEF Promise!Next
<1>5. CASE TurnKept
  <2>1. Turns' = Turns
    BY <1>1, <1>5, TurnsStep
  <2>2. Accepts \/ Refuses
    <3>1. ASSUME NEW p \in Processes, Commit(p) PROVE FALSE
      BY <1>1, <1>5, <3>1 DEF Commit, Write, TurnKept, TypeOK
    <3> QED
      BY <1>1, <3>1, VerdictStep
  <2>3. ASSUME NEW a \in Actions, Verdicts[a] = "none", Verdicts' = [Verdicts EXCEPT ![a] = "waiting"]
        PROVE  Promise!Next
    <3>1. Promise!Accept(a)
      BY <2>1, <2>3 DEF Promise!Accept, Promise!Decide, Turns, Verdicts
    <3> QED
      BY <3>1 DEF Promise!Next
  <2>4. ASSUME NEW S \in SUBSET {a \in Actions : Verdicts[a] = "waiting"},
               Verdicts' = [a \in Actions |-> IF a \in S THEN "refused" ELSE Verdicts[a]]
        PROVE  Promise!Next \/ Verdicts' = Verdicts
    <3>1. CASE S = {}
      BY <2>4, <3>1 DEF Verdicts
    <3>2. CASE S # {}
      <4>1. Promise!Refuse
        BY <2>1, <2>4, <3>2 DEF Promise!Refuse, Turns, Verdicts
      <4> QED
        BY <4>1 DEF Promise!Next
    <3> QED
      BY <3>1, <3>2
  <2> QED
    BY <2>1, <2>2, <2>3, <2>4 DEF Accepts, Refuses
<1> QED
  BY <1>1, <1>3, <1>4, <1>5, TurnStep

\* Refinement: seen through the verdicts and the turns, the queue, its loops,
\* the GM's decisions and finishPlay only ever do what ActionVerdicts promises.
THEOREM ImplementsVerdicts == Spec => KeepsPromise
<1>1. IInv /\ [Next]_vars => [Promise!Next]_Promise!vars
  BY PromiseStep DEF Promise!vars, Verdicts, Turns
<1> QED
  BY <1>1, PromiseInit, Invariance, PTL DEF Spec, KeepsPromise, Promise!Spec
===============================================================================
