-------------------------- MODULE SessionPlayProofs --------------------------
(***************************************************************************)
(* Proofs about SessionPlay, for any number of plays, of requests and of   *)
(* scheduler passes in flight, and any bounds.                             *)
(***************************************************************************)
EXTENDS SessionPlay, TLAPS

\* What a caller keeps is a Call, whatever it saw.
LEMMA SeeingType ==
    ASSUME TypeOK, NEW p \in Plays, NEW op \in Ops
    PROVE  Seeing(op, p) \in Call
BY SessionPlayAssumption DEF TypeOK, Seeing, Call, Idle, PlayRow, SessionStatus, Times, NoTime, NoPlay, PlayStatus

\* A call that has read nothing but its operation is a call.
LEMMA IdleType == \A op \in Ops : [Idle EXCEPT !.op = op] \in Call
BY DEF Call, Idle, SessionStatus, Times, NoTime, NoPlay, PlayStatus

\* Handing a call record to c, and taking it back, keep calls a function to Call.
LEMMA CallsType ==
    ASSUME TypeOK, NEW c \in Callers \cup Ticks, NEW r \in Call,
           calls' = [calls EXCEPT ![c] = r]
    PROVE  calls' \in [Callers \cup Ticks -> Call]
BY DEF TypeOK

\* A play row whose status is moved under the next stateVersion is a play row.
LEMMA MovedType ==
    ASSUME TypeOK, NEW p \in Plays, NEW to \in PlayStatus
    PROVE  [plays[p] EXCEPT !.status = to, !.version = @ + 1] \in PlayRow
<1>1. plays[p] \in PlayRow
  BY DEF TypeOK
<1>2. plays[p].version + 1 \in Nat
  BY <1>1 DEF PlayRow
<1> QED
  BY <1>1, <1>2 DEF PlayRow

\* The null values and the idle call are of their types.
LEMMA IdleFacts == NoPlay \in Plays \cup {NoPlay} /\ NoTime \in Times /\ Idle \in Call
BY DEF NoPlay, NoTime, Times, Call, Idle, Ops, PlayStatus, SessionStatus

\* So is the disband while there is none.
LEMMA TransactionFacts == NotDisbanding \in Disbanding
BY DEF NotDisbanding, Disbanding

\* createSession writes rows of the declared types.
LEMMA TypeCorrectInit == Init => TypeOK
<1> USE SessionPlayAssumption
<1> SUFFICES ASSUME Init PROVE TypeOK
  OBVIOUS
<1>1. calls \in [Callers \cup Ticks -> Call]
  BY IdleFacts DEF Init
<1>2. ASSUME NEW activity \in {"LOBBY_OPEN", "DORMANT"},
             NEW first \in {"LOBBY_OPEN", "SCHEDULED", "NONE"},
             NEW next \in Times, CreateSession(activity, first, next)
      PROVE  session \in SessionRow /\ plays \in [Plays -> PlayRow]
  BY <1>2, 1 \in Plays DEF CreateSession, SessionRow, PlayRow, NewRow, NoRow, SessionStatus, Activity, PlayStatus, NoPlay, Plays
<1>3. NoTime \in Times /\ <<1, 1>> \in Times
  BY DEF NoTime, Times
<1>4. creating \in Creation \cup {NotCreating} /\ disbanding \in Disbanding /\ overlooked \in BOOLEAN
  BY TransactionFacts DEF Init
<1> QED
  BY <1>1, <1>2, <1>3, <1>4 DEF Init, TypeOK

\* No step writes a value outside the declared types.
LEMMA TypeCorrectStep == TypeOK /\ [Next]_vars => TypeOK'
<1> USE SessionPlayAssumption DEF transactions
<1> SUFFICES ASSUME TypeOK, [Next]_vars PROVE TypeOK'
  OBVIOUS
<1>1. ASSUME NEW p \in Plays \cup {NoPlay}, NEW to \in PlayStatus, MovePlay(p, to)
      PROVE  plays' \in [Plays -> PlayRow]
  <2> DEFINE moved(q) == [plays[q] EXCEPT !.status = to, !.version = @ + 1]
  <2>1. \A q \in Plays : moved(q) \in PlayRow
    BY MovedType
  <2>2. plays' = [q \in Plays |-> IF q = p THEN moved(q) ELSE plays[q]]
    BY <1>1 DEF TypeOK, MovePlay
  <2> QED
    BY <2>1, <2>2 DEF TypeOK
<1>2. ASSUME NEW current \in Plays \cup {NoPlay}, NEW activity \in Activity,
             NEW status \in SessionStatus, SetSession(current, activity, status)
      PROVE  session' \in SessionRow
  BY <1>2 DEF TypeOK, SetSession, SessionRow
<1>3. ASSUME NEW c \in Callers \cup Ticks, NEW call \in Call, Begin(c, call)
      PROVE  calls' \in [Callers \cup Ticks -> Call]
  BY <1>3, CallsType DEF Begin
<1>4. ASSUME NEW c \in Callers \cup Ticks, Return(c) \/ GoOnToRefresh(c)
      PROVE  calls' \in [Callers \cup Ticks -> Call]
  BY <1>4, IdleFacts, IdleType, CallsType DEF Return, GoOnToRefresh, Ops
<1>5. ASSUME NEW c \in Callers \cup Ticks
      PROVE  /\ calls[c].play \in Plays \cup {NoPlay}
             /\ calls[c].status \in SessionStatus
             /\ calls[c].next \in Times
  BY DEF TypeOK, Call
<1>6. ASSUME NEW c \in Callers \cup Ticks, Refused(c) PROVE TypeOK'
  BY <1>4, <1>6 DEF Refused, TypeOK
<1>7. ASSUME Disband, calls' \in [Callers \cup Ticks -> Call] PROVE TypeOK'
  <2>1. disbanding' \in Disbanding
    BY <1>7 DEF Disband, Disbanding
  <2> QED
    BY <1>7, <2>1 DEF Disband, TypeOK
<1>8. session.status \in SessionStatus
  BY DEF TypeOK, SessionRow
<1>9. ASSUME NEW p \in Plays, NEW dated \in BOOLEAN, NEW open \in BOOLEAN, CreateCheck(p, dated, open)
      PROVE  TypeOK'
  BY <1>9 DEF CreateCheck, Creation, TypeOK
<1>18. CASE CreateCommit
  <2>1. Inserted \in PlayRow
    BY DEF Inserted, NewRow, PlayRow, PlayStatus
  <2>2. creating.play \in Plays
    BY <1>18 DEF CreateCommit, LockFree, TypeOK, Creation
  <2>3. <<creating.play, 1>> \in Times /\ NoTime \in Times
    BY <2>2, IdleFacts DEF Times, Plays
  <2>4. plays' \in [Plays -> PlayRow]
    BY <1>18, <2>1 DEF CreateCommit, TypeOK
  <2>5. session' \in SessionRow
    BY <1>18, <2>2, <2>3 DEF CreateCommit, TypeOK, SessionRow, Activity, SessionStatus
  <2>6. disbanding' \in Disbanding
    BY <1>18, <2>2 DEF CreateCommit, TypeOK, Disbanding
  <2> QED
    BY <1>18, <2>4, <2>5, <2>6, TransactionFacts DEF CreateCommit, TypeOK
<1>19. CASE DisbandCommit
  <2>1. \A p \in Plays : [plays[p] EXCEPT !.status = "CANCELLED", !.version = @ + 1] \in PlayRow
    BY MovedType DEF PlayStatus
  <2>2. plays' \in [Plays -> PlayRow]
    BY <1>19, <2>1 DEF DisbandCommit, TypeOK
  <2>3. session' \in SessionRow
    BY <1>19, IdleFacts DEF DisbandCommit, TypeOK, SessionRow, SessionStatus, Activity
  <2> QED
    BY <1>19, <2>2, <2>3, TransactionFacts DEF DisbandCommit, TypeOK
<1>10. ASSUME NEW c \in Callers, HostRequest(c) PROVE TypeOK'
  <2>1. ASSUME NEW p \in Plays, UpdatePlayRead(c, p) PROVE TypeOK'
    <3>1. [Seeing("update", p) EXCEPT !.version = plays[p].schedule] \in Call
      BY SeeingType DEF Ops, Call, TypeOK, PlayRow
    <3> QED
      BY <2>1, <3>1, <1>3 DEF UpdatePlayRead, TypeOK
  <2>2. ASSUME NEW p \in Plays, CancelPlayRead(c, p) PROVE TypeOK'
    <3>1. [Seeing("cancel", p) EXCEPT !.current = session.current] \in Call
      BY SeeingType DEF Ops, Call, TypeOK, SessionRow
    <3> QED
      BY <2>2, <3>1, <1>3 DEF CancelPlayRead, TypeOK
  <2>3. ASSUME NEW p \in Plays,
               OpenLobbyRead(c, p) \/ FinishPlayRead(c, p) \/ StartSessionRead(c, p)
        PROVE  TypeOK'
    <3>1. \A op \in Ops : Seeing(op, p) \in Call
      BY SeeingType
    <3> QED
      BY <2>3, <3>1, <1>3 DEF OpenLobbyRead, FinishPlayRead, StartSessionRead, TypeOK, Ops
  <2>4. CASE UpdatePlayCommit(c)
    <3>1. CASE Refused(c)
      BY <1>6, <3>1
    <3>2. CASE ~ Refused(c)
      <4>1. plays' \in [Plays -> PlayRow]
        BY <2>4, <3>2 DEF UpdatePlayCommit, TypeOK, PlayRow
      <4> QED
        BY <2>4, <3>2, <4>1, <1>4 DEF UpdatePlayCommit, TypeOK
    <3> QED
      BY <3>1, <3>2
  <2>5. CASE CancelPlayCommit(c)
    BY <2>5, IdleFacts, <1>1, <1>2, <1>4, <1>5, <1>6
    DEF CancelPlayCommit, TypeOK, PlayStatus, Activity, SessionStatus
  <2>6. CASE OpenLobbyCommit(c)
    BY <2>6, <1>1, <1>2, <1>4, <1>5, <1>6
    DEF OpenLobbyCommit, TypeOK, PlayStatus, Activity, SessionStatus
  <2>7. CASE FinishPlayCommit(c)
    BY <2>7, IdleFacts, <1>1, <1>2, <1>4, <1>5, <1>6
    DEF FinishPlayCommit, TypeOK, PlayStatus, Activity, SessionStatus
  <2>8. CASE StartSessionCommit(c)
    BY <2>8, <1>1, <1>2, <1>4, <1>5, <1>6
    DEF StartSessionCommit, TypeOK, PlayStatus, Activity, SessionStatus
  <2>9. CASE RefreshRead(c)
    <3>1. PICK next \in Times : calls' = [calls EXCEPT ![c].op = "project", ![c].next = next]
      <4>1. \A p \in FutureDates : <<p, plays[p].schedule>> \in Times
        <5>1. ASSUME NEW p \in FutureDates PROVE p \in Nat /\ plays[p].schedule \in Nat
          BY DEF FutureDates, TypeOK, PlayRow, Plays
        <5>2. ASSUME NEW p \in FutureDates PROVE <<p, plays[p].schedule>> \in Nat \X Nat
          BY <5>1
        <5> QED
          BY <5>2 DEF Times
      <4>2. NextDates \subseteq Times
        BY IdleFacts, <4>1 DEF NextDates
      <4> QED
        BY <2>9, <4>2 DEF RefreshRead
    <3>2. calls' = [calls EXCEPT ![c] = [calls[c] EXCEPT !.op = "project", !.next = next]]
      BY <3>1 DEF TypeOK
    <3>3. [calls[c] EXCEPT !.op = "project", !.next = next] \in Call
      BY DEF TypeOK, Call, Ops
    <3> QED
      BY <2>9, <3>2, <3>3, CallsType DEF RefreshRead, TypeOK
  <2>10. CASE RefreshWrite(c)
    BY <2>10, <1>4, <1>5 DEF RefreshWrite, TypeOK, SessionRow
  <2>11. CASE DeleteSessionRead(c)
    BY <2>11, <1>3, IdleType DEF DeleteSessionRead, TypeOK, Ops
  <2>12. CASE DeleteSessionCommit(c)
    BY <2>12, <1>4, <1>7 DEF DeleteSessionCommit
  <2>13. CASE DeleteAccountRead(c)
    <3>1. [Idle EXCEPT !.op = "account", !.status = session.status] \in Call
      BY IdleFacts, <1>8 DEF Call, Ops
    <3> QED
      BY <2>13, <3>1, <1>3 DEF DeleteAccountRead, TypeOK
  <2>14. CASE DeleteAccountCommit(c)
    BY <2>14, <1>4 DEF DeleteAccountCommit, TypeOK, SessionRow, SessionStatus
  <2> QED
    BY <1>10, <2>1, <2>2, <2>3, <2>4, <2>5, <2>6, <2>7, <2>8, <2>9, <2>10, <2>11, <2>12, <2>13, <2>14
    DEF HostRequest
<1>11. ASSUME NEW c \in Callers, StatusWrite(c) PROVE TypeOK'
  <2>1. ASSUME NEW op \in {"combat", "message"}
        PROVE  [Idle EXCEPT !.op = op, !.status = session.status] \in Call
    BY IdleFacts, <1>8 DEF Call, Ops
  <2> QED
    BY <1>11, <2>1, <1>3, <1>4, <1>5
    DEF StatusWrite, CombatRead, CombatCommit, MessageRead, MessageCommit, StatusAfterMessage,
        TypeOK, SessionRow, SessionStatus
<1>12. CASE LeaveSession
  BY <1>12, <1>7 DEF LeaveSession, TypeOK
<1>13. CASE CompleteSession
  BY <1>13 DEF CompleteSession, TypeOK, SessionRow, SessionStatus
<1>14. ASSUME NEW p \in Plays, LobbyTimeArrives(p) PROVE TypeOK'
  BY <1>14 DEF LobbyTimeArrives, TypeOK, PlayRow
<1>15. ASSUME NEW t \in Ticks, Scheduler(t) PROVE TypeOK'
  <2>1. CASE TickRead(t)
    BY <2>1, <1>3, SeeingType DEF TickRead, DuePlays, TypeOK, Ops
  <2>2. CASE TickCommit(t)
    BY <2>2, <1>1, <1>2, <1>4, <1>5, <1>6
    DEF TickCommit, TypeOK, PlayStatus, Activity, SessionStatus
  <2> QED
    BY <1>15, <2>1, <2>2 DEF Scheduler
<1>16. CASE Restart
  BY <1>16, IdleFacts, TransactionFacts DEF Restart, TypeOK
<1>17. CASE UNCHANGED vars
  BY <1>17 DEF vars, TypeOK
<1> QED
  BY <1>9, <1>10, <1>11, <1>12, <1>13, <1>14, <1>15, <1>16, <1>17, <1>18, <1>19 DEF Next

\* Type correctness: every step writes rows and records of the declared types.
THEOREM TypeCorrect == Spec => []TypeOK
BY TypeCorrectInit, TypeCorrectStep, PTL DEF Spec
-----------------------------------------------------------------------------
(***************************************************************************)
(* What a step does to the statuses of the plays and to the session's      *)
(* activity and current play, whatever request makes it.  The theorems     *)
(* below look at a step only through these shapes.                         *)
(***************************************************************************)
CallsNamePlays ==
    \A c \in Callers \cup Ticks :
        calls[c].op \in {"update", "cancel", "open", "finish", "start", "tick"}
        => calls[c].play \in Plays

\* What the locks keep: the number that createPlay has chosen is the next one
\* until it inserts, the rows that a disband has locked stay as it found them,
\* and every other open play was committed since.
LocksHold ==
    /\ creating # NotCreating => NextSequence(creating.play)
    /\ \A p \in disbanding.rows : plays[p].status \in Disbandable
    /\ disbanding.on =>
          \A p \in Plays : plays[p].status \in Disbandable
                          => p \in disbanding.rows \cup disbanding.missed
    /\ disbanding.rows \cap disbanding.missed = {}

Moves(p, from, to, current, activity) ==
    /\ plays[p].status \in from
    /\ plays'[p].status = to
    /\ \A q \in Plays \ {p} : plays'[q].status = plays[q].status
    /\ session'.current = current
    /\ session'.activity = activity

\* A transaction of one action, which waits for the row it writes.
Writes(p, from, to, current, activity) ==
    /\ Moves(p, from, to, current, activity)
    /\ RowFree(p)
    /\ UNCHANGED transactions

\* createPlay or a disband may begin here, or be rolled back by a restart.
Quiet ==
    /\ \A p \in Plays : plays'[p].status = plays[p].status
    /\ session'.current = session.current
    /\ session'.activity = session.activity
    /\ overlooked' = overlooked
    /\ \/ creating' \in {creating, NotCreating}
       \/ NothingOpen /\ NextSequence(creating'.play)
    /\ \/ disbanding' \in {disbanding, NotDisbanding}
       \/ disbanding' = [on |-> TRUE, missed |-> {},
                         rows |-> {p \in Plays : plays[p].status \in Disbandable}]

Creates(p) ==
    /\ creating # NotCreating
    /\ creating.play = p
    /\ \/ Moves(p, {"NONE"}, "SCHEDULED", session.current, session.activity)
       \/ Moves(p, {"NONE"}, "LOBBY_OPEN", p, "LOBBY_OPEN")
    /\ creating' = NotCreating
    /\ disbanding' = IF disbanding.on
                     THEN [disbanding EXCEPT !.missed = @ \cup {p}]
                     ELSE disbanding
    /\ overlooked' = overlooked

Opens(p)   == Writes(p, {"SCHEDULED", "LOBBY_OPEN"}, "LOBBY_OPEN", p, "LOBBY_OPEN")
Starts(p)  == Writes(p, {"LOBBY_OPEN"}, "PLAYING", p, "PLAYING")
Closes(p)  == Writes(p, Live, "FINISHED", NoPlay, "DORMANT")
Cancels(p) ==
    \/ /\ Writes(p, {"SCHEDULED"}, "CANCELLED", session.current, session.activity)
       /\ \E c \in Callers : calls[c].op = "cancel" /\ calls[c].play = p /\ calls[c].current # p
    \/ Writes(p, {"SCHEDULED"}, "CANCELLED", NoPlay, "DORMANT")

Disbands ==
    /\ disbanding.on
    /\ \A p \in Plays : plays'[p].status =
           IF p \in disbanding.rows THEN "CANCELLED" ELSE plays[p].status
    /\ session'.current = NoPlay
    /\ session'.activity = "DISBANDED"
    /\ creating' = creating
    /\ disbanding' = NotDisbanding
    /\ overlooked' = (overlooked \/ \E p \in disbanding.missed : plays[p].status \in Live)

Shape ==
    \/ Quiet
    \/ \E p \in Plays : Creates(p) \/ Opens(p) \/ Starts(p) \/ Closes(p) \/ Cancels(p)
    \/ Disbands

\* Every request in flight that names a play names one of the session's.
LEMMA CallsNamePlaysStep ==
    ASSUME TypeOK, CallsNamePlays, [Next]_vars
    PROVE  CallsNamePlays'
<1> USE DEF CallsNamePlays
<1>1. ASSUME NEW c \in Callers \cup Ticks, Return(c) \/ GoOnToRefresh(c)
      PROVE  CallsNamePlays'
  BY <1>1 DEF Return, GoOnToRefresh, Idle, TypeOK
<1>2. ASSUME NEW c \in Callers \cup Ticks, NEW call,
             Begin(c, call), call.play \in Plays
      PROVE  CallsNamePlays'
  BY <1>2 DEF Begin, TypeOK
<1>3. ASSUME NEW c \in Callers \cup Ticks, NEW call, Begin(c, call),
             call.op \notin {"update", "cancel", "open", "finish", "start", "tick"}
      PROVE  CallsNamePlays'
  BY <1>3 DEF Begin, TypeOK
<1>4. UNCHANGED calls => CallsNamePlays'
  OBVIOUS
<1>5. ASSUME NEW p \in Plays, NEW op PROVE Seeing(op, p).play = p
  BY DEF Seeing, Idle
<1>6. ASSUME NEW c \in Callers, HostRequest(c) PROVE CallsNamePlays'
  <2>1. ASSUME NEW p \in Plays,
               \/ UpdatePlayRead(c, p) \/ CancelPlayRead(c, p) \/ OpenLobbyRead(c, p)
               \/ FinishPlayRead(c, p) \/ StartSessionRead(c, p)
        PROVE  CallsNamePlays'
    <3>1. [Seeing("update", p) EXCEPT !.version = plays[p].schedule].play = p
      BY DEF Seeing, Idle
    <3>2. [Seeing("cancel", p) EXCEPT !.current = session.current].play = p
      BY DEF Seeing, Idle
    <3> QED
      BY <2>1, <3>1, <3>2, <1>2, <1>5
      DEF UpdatePlayRead, CancelPlayRead, OpenLobbyRead, FinishPlayRead, StartSessionRead
  <2>2. CASE RefreshRead(c)
    BY <2>2 DEF RefreshRead, Running, TypeOK
  <2>3. CASE DeleteSessionRead(c)
    BY <2>3, <1>3, [Idle EXCEPT !.op = "delete"].op = "delete" DEF DeleteSessionRead, Idle
  <2>4. CASE DeleteAccountRead(c)
    <3>1. [Idle EXCEPT !.op = "account", !.status = session.status].op = "account"
      BY DEF Idle
    <3> QED
      BY <2>4, <3>1, <1>3 DEF DeleteAccountRead
  <2> QED
    BY <1>6, <1>1, <2>1, <2>2, <2>3, <2>4
    DEF HostRequest, UpdatePlayCommit, CancelPlayCommit, OpenLobbyCommit, FinishPlayCommit,
        StartSessionCommit, RefreshWrite, DeleteSessionCommit, DeleteAccountCommit, Refused
<1>7. ASSUME NEW c \in Callers, StatusWrite(c) PROVE CallsNamePlays'
  <2>1. /\ [Idle EXCEPT !.op = "combat", !.status = session.status].op = "combat"
        /\ [Idle EXCEPT !.op = "message", !.status = session.status].op = "message"
    BY DEF Idle
  <2> QED
    BY <1>7, <2>1, <1>1, <1>3 DEF StatusWrite, CombatRead, CombatCommit, MessageRead, MessageCommit
<1>8. ASSUME NEW t \in Ticks, Scheduler(t) PROVE CallsNamePlays'
  BY <1>8, <1>1, <1>2, <1>5 DEF Scheduler, TickRead, TickCommit, DuePlays, Refused
<1>9. CASE Restart
  BY <1>9 DEF Restart, Idle
<1> QED
  BY <1>4, <1>6, <1>7, <1>8, <1>9
  DEF Next, CreateCheck, CreateCommit, LeaveSession, DisbandCommit, CompleteSession, LobbyTimeArrives, vars

\* Every step has one of the shapes above.
LEMMA StepShape ==
    ASSUME TypeOK, CallsNamePlays, LocksHold, [Next]_vars
    PROVE  Shape
<1> USE DEF transactions
<1>1. ASSUME NEW p \in Plays, NEW from, NEW to, NEW current, NEW activity, NEW status,
             plays[p].status \in from, MovePlay(p, to), SetSession(current, activity, status),
             RowFree(p), UNCHANGED transactions
      PROVE  Writes(p, from, to, current, activity)
  BY <1>1 DEF MovePlay, SetSession, Writes, Moves, TypeOK, PlayRow, SessionRow
<1>2. UNCHANGED <<session, plays, transactions>> => Quiet
  BY DEF Quiet
<1>3. ASSUME NEW c \in Callers \cup Ticks, Refused(c) PROVE Quiet
  BY <1>3, <1>2 DEF Refused
<1>4. ASSUME NEW p \in Plays, NEW dated \in BOOLEAN, NEW open \in BOOLEAN, CreateCheck(p, dated, open)
      PROVE  Quiet
  BY <1>4 DEF CreateCheck, Quiet
<1>5. Disband => Quiet
  BY DEF Disband, Quiet
<1>13. CASE CreateCommit
  <2> DEFINE p == creating.play
  <2>1. p \in Plays
    BY <1>13 DEF CreateCommit, LockFree, TypeOK, Creation
  <2>2. plays[p].status = "NONE"
    BY <1>13 DEF CreateCommit, LockFree, LocksHold, NextSequence
  <2>3. Inserted.status = IF creating.open THEN "LOBBY_OPEN" ELSE "SCHEDULED"
    BY DEF Inserted, NewRow
  <2>4. /\ plays'[p].status = Inserted.status
        /\ \A q \in Plays \ {p} : plays'[q].status = plays[q].status
    BY <1>13, <2>1 DEF CreateCommit, TypeOK
  <2>5. ASSUME creating.open PROVE Creates(p)
    <3>1. session'.current = p /\ session'.activity = "LOBBY_OPEN"
      BY <1>13, <2>5 DEF CreateCommit, TypeOK, SessionRow
    <3> QED
      BY <1>13, <2>2, <2>3, <2>4, <2>5, <3>1 DEF CreateCommit, LockFree, Creates, Moves
  <2>6. ASSUME ~ creating.open PROVE Creates(p)
    <3>1. session'.current = session.current /\ session'.activity = session.activity
      BY <1>13, <2>6 DEF CreateCommit, TypeOK, SessionRow
    <3> QED
      BY <1>13, <2>2, <2>3, <2>4, <2>6, <3>1 DEF CreateCommit, LockFree, Creates, Moves
  <2> QED
    BY <2>1, <2>5, <2>6 DEF Shape
<1>14. CASE DisbandCommit
  <2>1. ASSUME NEW p \in Plays
        PROVE  plays'[p].status = IF p \in disbanding.rows THEN "CANCELLED" ELSE plays[p].status
    <3>1. plays[p] \in PlayRow
      BY DEF TypeOK
    <3>2. [plays[p] EXCEPT !.status = "CANCELLED", !.version = @ + 1].status = "CANCELLED"
      BY <3>1 DEF PlayRow
    <3> QED
      BY <1>14, <3>2 DEF DisbandCommit
  <2>2. session'.current = NoPlay /\ session'.activity = "DISBANDED"
    BY <1>14 DEF DisbandCommit, TypeOK, SessionRow
  <2> QED
    BY <1>14, <2>1, <2>2 DEF DisbandCommit, Disbands, Shape
<1>6. ASSUME NEW c \in Callers, HostRequest(c) PROVE Shape
  <2>1. CASE UpdatePlayCommit(c)
    <3>1. ~ Refused(c) => Quiet
      BY <2>1 DEF UpdatePlayCommit, Quiet, TypeOK, PlayRow
    <3> QED
      BY <3>1, <1>3 DEF Shape
  <2>2. CASE CancelPlayCommit(c)
    <3>1. CASE Refused(c)
      BY <3>1, <1>3 DEF Shape
    <3>2. CASE ~ Refused(c)
      <4> DEFINE p == calls[c].play
      <4>1. p \in Plays /\ plays[p].status = "SCHEDULED" /\ MovePlay(p, "CANCELLED")
        BY <2>2, <3>2 DEF CancelPlayCommit, Running, CallsNamePlays, RowMatches
      <4>4. RowFree(p) /\ UNCHANGED transactions
        BY <2>2, <3>2 DEF CancelPlayCommit
      <4>2. CASE calls[c].current # p
        <5>1. UNCHANGED session
          BY <2>2, <3>2, <4>2 DEF CancelPlayCommit, Refused
        <5>2. Writes(p, {"SCHEDULED"}, "CANCELLED", session.current, session.activity)
          BY <4>1, <4>4, <5>1 DEF MovePlay, Writes, Moves, TypeOK, PlayRow
        <5> QED
          BY <2>2, <4>1, <4>2, <5>2 DEF Cancels, Shape, CancelPlayCommit, Running
      <4>3. CASE calls[c].current = p
        <5>1. SetSession(NoPlay, "DORMANT", "PAUSED")
          BY <2>2, <3>2, <4>3 DEF CancelPlayCommit, Refused
        <5> QED
          BY <4>1, <4>4, <5>1, <1>1 DEF Cancels, Shape
      <4> QED
        BY <4>2, <4>3
    <3> QED
      BY <3>1, <3>2
  <2>3. CASE OpenLobbyCommit(c)
    BY <2>3, <1>1, <1>3 DEF OpenLobbyCommit, Running, CallsNamePlays, RowMatches, Opens, Shape
  <2>4. CASE FinishPlayCommit(c)
    BY <2>4, <1>1, <1>2, <1>3 DEF FinishPlayCommit, Running, CallsNamePlays, RowMatches, Closes, Shape
  <2>5. CASE StartSessionCommit(c)
    BY <2>5, <1>1, <1>3 DEF StartSessionCommit, Running, CallsNamePlays, RowMatches, Starts, Shape
  <2>6. CASE DeleteSessionCommit(c)
    BY <2>6, <1>5 DEF DeleteSessionCommit, Shape
  <2>7. CASE RefreshWrite(c) \/ DeleteAccountCommit(c)
    BY <2>7 DEF RefreshWrite, DeleteAccountCommit, Quiet, Shape, TypeOK, SessionRow
  <2> QED
    BY <1>6, <1>2, <2>1, <2>2, <2>3, <2>4, <2>5, <2>6, <2>7
    DEF HostRequest, Shape, UpdatePlayRead, CancelPlayRead, OpenLobbyRead, FinishPlayRead,
        StartSessionRead, RefreshRead, DeleteSessionRead, DeleteAccountRead
<1>7. ASSUME NEW c \in Callers, StatusWrite(c) PROVE Quiet
  BY <1>7 DEF StatusWrite, CombatRead, CombatCommit, MessageRead, MessageCommit, Quiet, TypeOK, SessionRow
<1>8. ASSUME NEW t \in Ticks, Scheduler(t) PROVE Shape
  <2>1. CASE TickRead(t)
    BY <2>1, <1>2 DEF TickRead, Shape
  <2>2. CASE TickCommit(t)
    BY <2>2, <1>1, <1>3 DEF TickCommit, Running, CallsNamePlays, RowMatches, Opens, Shape
  <2> QED
    BY <1>8, <2>1, <2>2 DEF Scheduler
<1>9. CASE LeaveSession
  BY <1>9, <1>5 DEF LeaveSession, Shape
<1>10. CASE CompleteSession
  BY <1>10 DEF CompleteSession, Quiet, Shape, TypeOK, SessionRow
<1>11. ASSUME NEW p \in Plays, LobbyTimeArrives(p) PROVE Quiet
  BY <1>11 DEF LobbyTimeArrives, Quiet, TypeOK, PlayRow
<1>12. CASE Restart \/ UNCHANGED vars
  BY <1>12, <1>2 DEF Restart, vars, Quiet, Shape
<1> QED
  BY <1>4, <1>6, <1>7, <1>8, <1>9, <1>10, <1>11, <1>12, <1>13, <1>14 DEF Next, Shape
-----------------------------------------------------------------------------
(***************************************************************************)
(* The inductive invariant.  EarlierPlaysEnded alone is not inductive:     *)
(* createPlay looks for a SCHEDULED play but learns from the session row   *)
(* alone that no lobby is open and no play running, so it is needed that   *)
(* the session row tells the truth.  That in turn is kept by the other     *)
(* requests only because no second play can be open.  And createPlay       *)
(* inserts later than it looks: ChecksStand says that what it has seen     *)
(* still holds, though a disband may have been committed in between.       *)
(***************************************************************************)
ChecksStand ==
    ~ overlooked /\ creating # NotCreating =>
        /\ NothingLive
        /\ \A p \in Plays : plays[p].status \in Ended \cup {"NONE"}

IInv ==
    /\ TypeOK
    /\ CallsNamePlays
    /\ LocksHold
    /\ ChecksStand
    /\ EarlierPlaysEnded
    /\ ActivityMatchesCurrentPlay

\* Of two plays that are neither absent nor ended, both are the same.
LEMMA OneOpenPlay ==
    ASSUME TypeOK, EarlierPlaysEnded, ~ overlooked, NEW p \in Plays, NEW q \in Plays,
           plays[p].status \notin Ended \cup {"NONE"},
           plays[q].status \notin Ended \cup {"NONE"}
    PROVE  p = q
<1>1. p \in Nat /\ q \in Nat
  BY SessionPlayAssumption DEF Plays
<1> QED
  BY <1>1 DEF EarlierPlaysEnded

\* The invariant holds of a session that was just created.
LEMMA IInvInit == Init => IInv
<1> SUFFICES ASSUME Init PROVE IInv
  OBVIOUS
<1>1. TypeOK
  BY TypeCorrectInit
<1>2. CallsNamePlays /\ LocksHold /\ ChecksStand
  BY DEF Init, CallsNamePlays, Idle, LocksHold, ChecksStand, NotDisbanding
<1>3. ASSUME NEW activity, NEW first, NEW next, CreateSession(activity, first, next),
             \/ activity = "LOBBY_OPEN" /\ first = "LOBBY_OPEN"
             \/ activity = "DORMANT" /\ first \in {"SCHEDULED", "NONE"}
      PROVE  EarlierPlaysEnded /\ ActivityMatchesCurrentPlay
  <2>1. 1 \in Plays /\ Plays \subseteq Nat \ {0} /\ NoPlay \notin Plays
    BY SessionPlayAssumption DEF Plays, NoPlay
  <2>2. \A p \in Plays : plays[p].status = IF p = 1 THEN first ELSE "NONE"
    BY <1>3 DEF CreateSession, NewRow, NoRow
  <2>3. session.activity = activity /\ session.current = IF first = "NONE" THEN NoPlay ELSE 1
    BY <1>3 DEF CreateSession
  <2>4. EarlierPlaysEnded
    BY <2>1, <2>2 DEF EarlierPlaysEnded
  <2>5. ActivityMatchesCurrentPlay
    BY <1>3, <2>1, <2>2, <2>3 DEF ActivityMatchesCurrentPlay, Live
  <2> QED
    BY <2>4, <2>5
<1> QED
  BY <1>1, <1>2, <1>3 DEF Init, IInv

\* No shape of step disturbs what the locks keep, nor what createPlay has seen:
\* with every play absent or ended, only another createPlay could begin one.
LEMMA LocksStep ==
    ASSUME IInv, TypeOK', Shape
    PROVE  LocksHold' /\ ChecksStand'
<1> USE DEF IInv
<1>1. Plays \subseteq Nat \ {0} /\ \A p \in Plays : 1..(p - 1) \subseteq Plays
  BY SessionPlayAssumption DEF Plays
<1>2. \A p \in Plays : plays[p].status \in PlayStatus
  BY DEF TypeOK, PlayRow
<1>3. creating # NotCreating => creating.play \in Plays
  BY DEF TypeOK, Creation
<1>4. disbanding.rows \subseteq Plays /\ disbanding.missed \subseteq Plays
  BY DEF TypeOK, Disbanding
\* A play that is there stays there, and one that is not waits for createPlay.
<1>5. ASSUME creating' = creating, creating # NotCreating,
             \A q \in Plays : plays'[q].status = "NONE" <=> plays[q].status = "NONE"
      PROVE  NextSequence(creating.play)'
  <2>1. NextSequence(creating.play)
    BY <1>5 DEF LocksHold
  <2> QED
    BY <1>1, <1>3, <1>5, <2>1 DEF NextSequence
<1>6. CASE Quiet
  <2>1. creating' # NotCreating => NextSequence(creating'.play)
    BY <1>6 DEF Quiet, LocksHold
  <2>9. creating' # NotCreating => creating'.play \in Plays
    BY DEF TypeOK, Creation
  <2>5. (creating # NotCreating => NextSequence(creating.play))'
    BY <1>1, <1>6, <2>1, <2>9 DEF Quiet, NextSequence
  <2>6. ASSUME disbanding' = disbanding PROVE LocksHold'
    BY <1>4, <1>6, <2>5, <2>6 DEF Quiet, LocksHold
  <2>7. ASSUME disbanding' = NotDisbanding PROVE LocksHold'
    BY <2>5, <2>7 DEF LocksHold, NotDisbanding
  <2>8. ASSUME disbanding' = [on |-> TRUE, missed |-> {},
                              rows |-> {p \in Plays : plays[p].status \in Disbandable}]
        PROVE  LocksHold'
    <3>1. /\ disbanding'.missed = {}
          /\ disbanding'.rows = {p \in Plays : plays[p].status \in Disbandable}
      BY <2>8
    <3>2. \A p \in Plays : p \in disbanding'.rows <=> plays'[p].status \in Disbandable
      BY <1>6, <3>1 DEF Quiet
    <3> QED
      BY <2>5, <3>1, <3>2 DEF LocksHold
  <2>2. LocksHold'
    BY <1>6, <2>6, <2>7, <2>8 DEF Quiet
  <2>3. ASSUME ~ overlooked, NothingOpen PROVE \A p \in Plays : plays[p].status \in Ended \cup {"NONE"}
    BY <1>2, <2>3 DEF NothingOpen, ActivityMatchesCurrentPlay, Live, Ended, PlayStatus
  <2>4. ChecksStand'
    BY <1>6, <2>3 DEF Quiet, ChecksStand, NothingOpen, NothingLive
  <2> QED
    BY <2>2, <2>4
<1>7. ASSUME NEW p \in Plays, Creates(p) PROVE LocksHold' /\ ChecksStand'
  <2>1. creating' = NotCreating /\ plays[p].status = "NONE"
    BY <1>7 DEF Creates, Moves
  <2>2. p \notin disbanding.rows
    BY <2>1 DEF LocksHold, Disbandable
  <2>3. \A q \in Plays \ {p} : plays'[q].status = plays[q].status
    BY <1>7 DEF Creates, Moves
  <2>4. CASE disbanding.on
    <3>1. /\ disbanding'.rows = disbanding.rows
          /\ disbanding'.missed = disbanding.missed \cup {p}
      BY <1>7, <2>4 DEF Creates, TypeOK, Disbanding
    <3>2. \A q \in disbanding'.rows : plays'[q].status \in Disbandable
      BY <1>4, <2>2, <2>3, <3>1 DEF LocksHold
    <3>3. \A q \in Plays : plays'[q].status \in Disbandable
                           => q \in disbanding'.rows \cup disbanding'.missed
      BY <2>3, <2>4, <3>1 DEF LocksHold
    <3>4. disbanding'.rows \cap disbanding'.missed = {}
      BY <2>2, <3>1 DEF LocksHold
    <3> QED
      BY <2>1, <3>2, <3>3, <3>4 DEF LocksHold, ChecksStand
  <2>5. CASE ~ disbanding.on
    <3>1. disbanding' = disbanding
      BY <1>7, <2>5 DEF Creates
    <3> QED
      BY <1>4, <2>1, <2>2, <2>3, <2>5, <3>1 DEF LocksHold, ChecksStand
  <2> QED
    BY <2>4, <2>5
<1>8. ASSUME NEW p \in Plays, Opens(p) \/ Starts(p) \/ Closes(p) \/ Cancels(p)
      PROVE  LocksHold' /\ ChecksStand'
  <2>1. /\ plays[p].status \in Disbandable
        /\ plays'[p].status # "NONE"
        /\ \A q \in Plays \ {p} : plays'[q].status = plays[q].status
        /\ p \notin disbanding.rows
        /\ creating' = creating /\ disbanding' = disbanding /\ overlooked' = overlooked
    BY <1>8 DEF Opens, Starts, Closes, Cancels, Writes, Moves, RowFree, transactions, Live, Disbandable
  <2>2. creating # NotCreating => NextSequence(creating.play)'
    BY <1>5, <2>1 DEF Disbandable
  <2>3. LocksHold'
    BY <1>4, <2>1, <2>2 DEF LocksHold
  <2>4. ChecksStand'
    BY <2>1 DEF ChecksStand, Disbandable, Ended
  <2> QED
    BY <2>3, <2>4
<1>9. CASE Disbands
  <2>1. \A q \in Plays : plays'[q].status = "NONE" <=> plays[q].status = "NONE"
    BY <1>9 DEF Disbands, LocksHold, Disbandable
  <2>2. creating # NotCreating => NextSequence(creating.play)'
    BY <1>5, <1>9, <2>1 DEF Disbands
  <2>3. LocksHold'
    BY <1>9, <2>2 DEF Disbands, LocksHold, NotDisbanding
  <2>4. ChecksStand'
    BY <1>9 DEF Disbands, ChecksStand, NothingLive, Ended
  <2> QED
    BY <2>3, <2>4
<1> QED
  BY <1>6, <1>7, <1>8, <1>9 DEF Shape

\* The invariant is inductive, one shape of step at a time.
LEMMA IInvStep == IInv /\ [Next]_vars => IInv'
<1> SUFFICES ASSUME IInv, [Next]_vars PROVE IInv'
  OBVIOUS
<1> USE DEF IInv
<1>1. TypeOK' /\ CallsNamePlays'
  BY TypeCorrectStep, CallsNamePlaysStep
<1>2. Shape
  BY StepShape
<1>3. /\ Plays \subseteq Nat \ {0}
      /\ NoPlay \notin Plays
      /\ \A p \in Plays : 1..(p - 1) \subseteq Plays
  BY SessionPlayAssumption DEF Plays, NoPlay
<1>6. LocksHold' /\ ChecksStand'
  BY <1>1, <1>2, LocksStep
<1>7. ASSUME ~ overlooked', NEW p \in Plays, Creates(p)
      PROVE  EarlierPlaysEnded' /\ ActivityMatchesCurrentPlay'
  <2>1. NothingLive /\ \A q \in Plays : plays[q].status \in Ended \cup {"NONE"}
    BY <1>7 DEF Creates, ChecksStand
  <2>2. NextSequence(p)
    BY <1>7 DEF Creates, LocksHold
  <2>3. \A q \in Plays : q < p => plays[q].status \in Ended
    BY <1>3, <2>1, <2>2 DEF NextSequence
  <2>4. \A q \in Plays : p < q => plays[q].status = "NONE"
    BY <1>7, <2>2 DEF Creates, NextSequence, EarlierPlaysEnded, Ended
  <2>5. EarlierPlaysEnded'
    BY <1>3, <1>7, <2>3, <2>4 DEF Creates, Moves, EarlierPlaysEnded, Ended
  <2>6. ActivityMatchesCurrentPlay'
    BY <1>7, <2>1 DEF Creates, NothingLive, Moves, ActivityMatchesCurrentPlay, Live, Ended
  <2> QED
    BY <2>5, <2>6
<1>8. ASSUME ~ overlooked', NEW p \in Plays, Opens(p) \/ Starts(p) \/ Closes(p) \/ Cancels(p)
      PROVE  EarlierPlaysEnded' /\ ActivityMatchesCurrentPlay'
  <2>1. plays[p].status \in {"SCHEDULED", "LOBBY_OPEN", "PLAYING"} /\ ~ overlooked
    BY <1>8 DEF Opens, Starts, Closes, Cancels, Writes, Moves, Live, transactions
  <2>2. \A q \in Plays \ {p} : plays[q].status \in Ended \cup {"NONE"}
    BY <2>1, OneOpenPlay DEF Ended
  <2>3. \A q \in Plays \ {p} : plays'[q].status = plays[q].status
    BY <1>8 DEF Opens, Starts, Closes, Cancels, Writes, Moves
  <2>4. plays'[p].status # "NONE"
    BY <1>8 DEF Opens, Starts, Closes, Cancels, Writes, Moves
  <2>5. \A q \in Plays : p < q => plays[q].status = "NONE"
    BY <2>1 DEF EarlierPlaysEnded, Ended
  <2>6. EarlierPlaysEnded'
    BY <1>3, <2>1, <2>3, <2>4, <2>5 DEF EarlierPlaysEnded, Ended
  <2>7. ActivityMatchesCurrentPlay'
    BY <1>3, <1>8, <2>1, <2>2, <2>3
    DEF Opens, Starts, Closes, Cancels, Writes, Moves, ActivityMatchesCurrentPlay, Live, Ended
  <2> QED
    BY <2>6, <2>7
<1>9. ASSUME ~ overlooked', Disbands
      PROVE  EarlierPlaysEnded' /\ ActivityMatchesCurrentPlay'
  <2>1. ~ overlooked /\ \A p \in disbanding.missed : plays[p].status \notin Live
    BY <1>9 DEF Disbands
  <2>2. \A p \in Plays \ disbanding.rows : plays[p].status \notin Live
    BY <1>9, <2>1 DEF Disbands, LocksHold, Live, Disbandable
  <2>3. \A p \in Plays : plays'[p].status \notin Live
    BY <1>9, <2>2 DEF Disbands, Live
  <2>4. EarlierPlaysEnded'
    BY <1>9, <2>1 DEF Disbands, LocksHold, Disbandable, EarlierPlaysEnded, Ended
  <2>5. ActivityMatchesCurrentPlay'
    BY <1>9, <2>3 DEF Disbands, ActivityMatchesCurrentPlay, Live
  <2> QED
    BY <2>4, <2>5
<1>10. ASSUME ~ overlooked', Quiet
       PROVE  EarlierPlaysEnded' /\ ActivityMatchesCurrentPlay'
  <2>1. ~ overlooked
    BY <1>10 DEF Quiet
  <2>2. EarlierPlaysEnded'
    BY <1>10, <2>1 DEF Quiet, EarlierPlaysEnded
  <2>3. ActivityMatchesCurrentPlay'
    BY <1>10, <2>1 DEF Quiet, ActivityMatchesCurrentPlay
  <2> QED
    BY <2>2, <2>3
<1>11. ASSUME ~ overlooked' PROVE EarlierPlaysEnded' /\ ActivityMatchesCurrentPlay'
  BY <1>2, <1>7, <1>8, <1>9, <1>10, <1>11 DEF Shape
<1>12. EarlierPlaysEnded' /\ ActivityMatchesCurrentPlay'
  BY <1>11 DEF EarlierPlaysEnded, ActivityMatchesCurrentPlay
<1> QED
  BY <1>1, <1>6, <1>12

\* A session's plays never overlap, however its host's requests, the scheduler
\* and the deletions interleave, and whatever they have read beforehand, as long
\* as no disband has committed over an open lobby that it missed.
THEOREM PlaysNeverOverlap == Spec => []EarlierPlaysEnded
<1>1. IInv => EarlierPlaysEnded
  BY DEF IInv
<1> QED
  BY <1>1, IInvInit, IInvStep, PTL DEF Spec

\* The session row names the play that is open and says what it is doing, also
\* while a createPlay and a disband are under way, until a disband has left
\* such a lobby behind.
THEOREM RowsAgree == Spec => []ActivityMatchesCurrentPlay
<1>1. IInv => ActivityMatchesCurrentPlay
  BY DEF IInv
<1> QED
  BY <1>1, IInvInit, IInvStep, PTL DEF Spec
-----------------------------------------------------------------------------
(* The session keeps its promise: SessionPlay implements PlayLifecycle. *)

\* A new session is a new PlayLifecycle.
LEMMA PromiseInit == Init => Promise!Init
<1> SUFFICES ASSUME Init PROVE Promise!Init
  OBVIOUS
<1>1. ASSUME NEW activity, NEW next, NEW first \in {"NONE", "SCHEDULED", "LOBBY_OPEN"},
             CreateSession(activity, first, next)
      PROVE  Promise!Init
  BY <1>1 DEF Init, CreateSession, NewRow, NoRow, Promise!Init, Promise!Plays, Plays
<1> QED
  BY <1>1 DEF Init

\* Every step is a step of PlayLifecycle, or leaves all statuses as they are: a
\* disband does so when it commits, for the plays whose rows it has locked.
LEMMA PromiseStep ==
    ASSUME IInv, [Next]_vars
    PROVE  [Promise!Next]_<<[p \in Plays |-> plays[p].status], overlooked>>
<1> DEFINE phase == [p \in Plays |-> plays[p].status]
<1>1. Shape
  BY StepShape DEF IInv
<1>2. Promise!Plays = Plays
  BY DEF Promise!Plays, Plays
<1>3. Promise!EndedPhases = Ended /\ Promise!OpenPhases = {"SCHEDULED", "LOBBY_OPEN", "PLAYING"}
  BY DEF Promise!EndedPhases, Promise!OpenPhases, Ended
<1>4. ASSUME NEW p \in Plays, NEW from, NEW to, NEW current, NEW activity,
             Moves(p, from, to, current, activity), overlooked' = overlooked
      PROVE  Promise!Move(p, from, to)
  <2>1. phase' = [phase EXCEPT ![p] = to]
    BY <1>4 DEF Moves
  <2> QED
    BY <1>4, <2>1 DEF Moves, Promise!Move
<1>5. ASSUME NEW p \in Plays, Creates(p) PROVE Promise!Announce(p)
  <2>1. ~ overlooked => \A q \in 1..(p - 1) : phase[q] \in Ended
    BY <1>5, SessionPlayAssumption
    DEF Creates, NextSequence, Plays, Ended, IInv, ChecksStand, LocksHold
  <2> QED
    BY <1>3, <1>4, <1>5, <2>1 DEF Creates, Promise!Announce
<1>9. ASSUME NEW p \in Plays, NEW from, NEW to, NEW current, NEW activity,
             Writes(p, from, to, current, activity)
      PROVE  Promise!Move(p, from, to)
  BY <1>4, <1>9 DEF Writes, transactions
<1>6. ASSUME NEW p \in Plays, Opens(p) \/ Starts(p) \/ Closes(p) \/ Cancels(p)
      PROVE  Promise!Next \/ UNCHANGED <<phase, overlooked>>
  <2>1. CASE Opens(p)
    <3>1. CASE plays[p].status = "SCHEDULED"
      <4>1. Writes(p, {"SCHEDULED"}, "LOBBY_OPEN", p, "LOBBY_OPEN")
        BY <2>1, <3>1 DEF Opens, Writes, Moves
      <4> QED
        BY <4>1, <1>2, <1>9 DEF Promise!Next, Promise!OpenLobby
    <3>2. CASE plays[p].status = "LOBBY_OPEN"
      BY <2>1, <3>2 DEF Opens, Writes, Moves, transactions
    <3> QED
      BY <2>1, <3>1, <3>2 DEF Opens, Writes, Moves
  <2>2. CASE Starts(p)
    BY <2>2, <1>2, <1>9 DEF Starts, Promise!Next, Promise!Begin
  <2>3. CASE Closes(p)
    BY <2>3, <1>2, <1>9 DEF Closes, Live, Promise!Next, Promise!Finish
  <2>4. CASE Cancels(p)
    BY <2>4, <1>2, <1>9 DEF Cancels, Promise!Next, Promise!Cancel
  <2> QED
    BY <1>6, <2>1, <2>2, <2>3, <2>4
<1>7. CASE Disbands
  <2>1. disbanding.rows \subseteq Plays /\ disbanding.missed \subseteq Plays
    BY DEF IInv, TypeOK, Disbanding
  <2>2. ASSUME NEW found \in SUBSET Plays, found = disbanding.rows
        PROVE  Promise!Next
    <3>1. \A p \in found : phase[p] \in Promise!OpenPhases
      BY <1>3, <2>2 DEF IInv, LocksHold, Disbandable
    <3>2. phase' = [p \in Promise!Plays |-> IF p \in found THEN "CANCELLED" ELSE phase[p]]
      BY <1>2, <1>7, <2>2 DEF Disbands
    <3>3. (\E p \in disbanding.missed : plays[p].status \in Live)
          <=> \E p \in Plays \ found : phase[p] \in Live
      BY <1>7, <2>1, <2>2 DEF Disbands, IInv, LocksHold, Disbandable, Live
    <3>4. overlooked' = (overlooked \/ \E p \in Promise!Plays \ found : phase[p] \in Promise!LivePhases)
      BY <1>2, <1>7, <3>3 DEF Disbands, Live, Promise!LivePhases
    <3>5. Promise!Disband(found)
      BY <3>1, <3>2, <3>4 DEF Promise!Disband
    <3> QED
      BY <1>2, <2>2, <3>5 DEF Promise!Next
  <2> QED
    BY <2>1, <2>2
<1>8. CASE Quiet
  BY <1>8 DEF Quiet
<1> QED
  BY <1>1, <1>2, <1>5, <1>6, <1>7, <1>8 DEF Shape, Promise!Next

\* Refinement: seen through the statuses of its plays, the session is a session
\* of PlayLifecycle, which knows no requests, locks, versions or scheduler, and
\* in which only a disband that overlooks a lobby lets a later play begin early.
THEOREM ImplementsLifecycle == Spec => KeepsPromise
<1>1. IInv /\ [Next]_vars => [Promise!Next]_<<[p \in Plays |-> plays[p].status], overlooked>>
  BY PromiseStep
<1> QED
  BY <1>1, PromiseInit, IInvInit, IInvStep, PTL DEF Spec, KeepsPromise, Promise!Spec
-----------------------------------------------------------------------------
(***************************************************************************)
(* What SessionPlay's callers have read before they write: stateVersion    *)
(* dates it, and what is used undated is never stale where it matters.     *)
(***************************************************************************)

Versioned == {"cancel", "open", "finish", "start", "tick"}

\* Every row is either as it was, as far as its status goes, or moved under the
\* next stateVersion.
Stamps ==
    \A p \in Plays :
        \/ plays'[p].status = plays[p].status /\ plays'[p].version = plays[p].version
        \/ plays'[p].status # "NONE" /\ plays'[p].version = plays[p].version + 1

AbsentRowsAreNew == \A p \in Plays : plays[p].status = "NONE" => plays[p].version = 0

\* The calls that will write under a stateVersion are as they were, gone, or
\* have just read the row they name, and the session row.
JustRead(c) ==
    /\ calls'[c].version = plays[calls'[c].play].version
    /\ calls'[c].saw = plays[calls'[c].play].status
    /\ calls'[c].op = "cancel" => calls'[c].current = session.current
    /\ UNCHANGED <<session, plays>>

ReadsAreFresh ==
    \A c \in Callers \cup Ticks :
        calls'[c].op \in Versioned => calls'[c] = calls[c] \/ JustRead(c)

\* Every step stamps the plays it moves.
LEMMA StepStamps ==
    ASSUME TypeOK, CallsNamePlays, LocksHold, AbsentRowsAreNew, [Next]_vars
    PROVE  Stamps
<1>1. ASSUME NEW p \in Plays, NEW to \in PlayStatus \ {"NONE"}, MovePlay(p, to)
      PROVE  Stamps
  BY <1>1 DEF MovePlay, Stamps, TypeOK, PlayRow
<1>2. UNCHANGED plays => Stamps
  BY DEF Stamps
<1>3. ASSUME NEW c \in Callers \cup Ticks, Refused(c) PROVE Stamps
  BY <1>3, <1>2 DEF Refused
<1>4. CASE CreateCommit
  <2>1. creating.play \in Plays
    BY <1>4 DEF CreateCommit, LockFree, TypeOK, Creation
  <2>2. plays[creating.play].status = "NONE" /\ plays[creating.play].version = 0
    BY <1>4, <2>1 DEF CreateCommit, LockFree, LocksHold, NextSequence, AbsentRowsAreNew
  <2>3. Inserted.version = 1 /\ Inserted.status # "NONE"
    BY DEF Inserted, NewRow
  <2> QED
    BY <1>4, <2>1, <2>2, <2>3 DEF CreateCommit, Stamps, TypeOK
<1>5. CASE DisbandCommit
  <2> SUFFICES ASSUME NEW p \in Plays
               PROVE  \/ plays'[p].status = plays[p].status /\ plays'[p].version = plays[p].version
                      \/ plays'[p].status # "NONE" /\ plays'[p].version = plays[p].version + 1
    BY DEF Stamps
  <2>1. plays[p] \in PlayRow
    BY DEF TypeOK
  <2>2. CASE p \in disbanding.rows
    BY <1>5, <2>1, <2>2 DEF DisbandCommit, PlayRow
  <2>3. CASE p \notin disbanding.rows
    BY <1>5, <2>3 DEF DisbandCommit
  <2> QED
    BY <2>2, <2>3
<1>6. ASSUME NEW c \in Callers, HostRequest(c) PROVE Stamps
  <2>1. CASE UpdatePlayCommit(c)
    <3>1. ~ Refused(c) => Stamps
      BY <2>1 DEF UpdatePlayCommit, Stamps, TypeOK, PlayRow
    <3> QED
      BY <3>1, <1>3
  <2>2. CASE CancelPlayCommit(c)
    BY <2>2, <1>1, <1>3 DEF CancelPlayCommit, Running, CallsNamePlays, PlayStatus
  <2>3. CASE OpenLobbyCommit(c)
    BY <2>3, <1>1, <1>3 DEF OpenLobbyCommit, Running, CallsNamePlays, PlayStatus
  <2>4. CASE FinishPlayCommit(c)
    BY <2>4, <1>1, <1>2, <1>3 DEF FinishPlayCommit, Running, CallsNamePlays, PlayStatus
  <2>5. CASE StartSessionCommit(c)
    BY <2>5, <1>1, <1>3 DEF StartSessionCommit, Running, CallsNamePlays, PlayStatus
  <2>6. CASE DeleteSessionCommit(c)
    BY <2>6, <1>2 DEF DeleteSessionCommit, Disband
  <2> QED
    BY <1>6, <1>2, <2>1, <2>2, <2>3, <2>4, <2>5, <2>6
    DEF HostRequest, UpdatePlayRead, CancelPlayRead, OpenLobbyRead, FinishPlayRead, StartSessionRead,
        RefreshRead, RefreshWrite, DeleteSessionRead, DeleteAccountRead, DeleteAccountCommit
<1>7. ASSUME NEW t \in Ticks, Scheduler(t) PROVE Stamps
  BY <1>7, <1>1, <1>2, <1>3 DEF Scheduler, TickRead, TickCommit, Running, CallsNamePlays, PlayStatus
<1>8. ASSUME NEW p \in Plays, LobbyTimeArrives(p) PROVE Stamps
  BY <1>8 DEF LobbyTimeArrives, Stamps, TypeOK, PlayRow
<1> QED
  BY <1>2, <1>4, <1>5, <1>6, <1>7, <1>8
  DEF Next, CreateCheck, StatusWrite, CombatRead, CombatCommit, MessageRead, MessageCommit, LeaveSession,
      Disband, CompleteSession, Restart, vars

\* A call that will write under a stateVersion has kept what it read.
LEMMA StepReads ==
    ASSUME TypeOK, [Next]_vars
    PROVE  ReadsAreFresh
<1> USE DEF ReadsAreFresh, Versioned
<1>1. ASSUME NEW c \in Callers \cup Ticks, Return(c) \/ GoOnToRefresh(c)
      PROVE  ReadsAreFresh
  BY <1>1 DEF Return, GoOnToRefresh, Idle, TypeOK
<1>2. ASSUME NEW c \in Callers \cup Ticks, NEW call, Begin(c, call), call.op \notin Versioned
      PROVE  ReadsAreFresh
  BY <1>2 DEF Begin, TypeOK
<1>3. ASSUME NEW c \in Callers \cup Ticks, NEW p \in Plays, NEW call, Begin(c, call),
             call.play = p, call.version = plays[p].version, call.saw = plays[p].status,
             call.op = "cancel" => call.current = session.current,
             UNCHANGED <<session, plays>>
      PROVE  ReadsAreFresh
  BY <1>3 DEF Begin, JustRead, TypeOK
<1>4. UNCHANGED calls => ReadsAreFresh
  OBVIOUS
<1>5. ASSUME NEW p \in Plays, NEW op
      PROVE  /\ Seeing(op, p).op = op /\ Seeing(op, p).play = p
             /\ Seeing(op, p).version = plays[p].version
             /\ Seeing(op, p).saw = plays[p].status
  BY DEF Seeing, Idle
<1>6. ASSUME NEW c \in Callers, HostRequest(c) PROVE ReadsAreFresh
  <2>1. ASSUME NEW p \in Plays, OpenLobbyRead(c, p) \/ FinishPlayRead(c, p) \/ StartSessionRead(c, p)
        PROVE  ReadsAreFresh
    BY <2>1, <1>3, <1>5 DEF OpenLobbyRead, FinishPlayRead, StartSessionRead
  <2>2. ASSUME NEW p \in Plays, CancelPlayRead(c, p) PROVE ReadsAreFresh
    <3> DEFINE call == [Seeing("cancel", p) EXCEPT !.current = session.current]
    <3>1. /\ call.play = p /\ call.version = plays[p].version /\ call.saw = plays[p].status
          /\ call.current = session.current
      BY DEF Seeing, Idle
    <3>2. Begin(c, call) /\ UNCHANGED <<session, plays>>
      BY <2>2 DEF CancelPlayRead
    <3> HIDE DEF call
    <3> QED
      BY <3>1, <3>2, <1>3
  <2>3. ASSUME NEW p \in Plays, UpdatePlayRead(c, p) PROVE ReadsAreFresh
    <3>1. [Seeing("update", p) EXCEPT !.version = plays[p].schedule].op = "update"
      BY DEF Seeing, Idle
    <3> QED
      BY <2>3, <3>1, <1>2 DEF UpdatePlayRead
  <2>4. CASE RefreshRead(c)
    BY <2>4 DEF RefreshRead, TypeOK
  <2>5. CASE DeleteSessionRead(c) \/ DeleteAccountRead(c)
    <3>1. /\ [Idle EXCEPT !.op = "delete"].op = "delete"
          /\ [Idle EXCEPT !.op = "account", !.status = session.status].op = "account"
      BY DEF Idle
    <3> QED
      BY <2>5, <3>1, <1>2 DEF DeleteSessionRead, DeleteAccountRead
  <2> QED
    BY <1>6, <1>1, <2>1, <2>2, <2>3, <2>4, <2>5
    DEF HostRequest, UpdatePlayCommit, CancelPlayCommit, OpenLobbyCommit, FinishPlayCommit,
        StartSessionCommit, RefreshWrite, DeleteSessionCommit, DeleteAccountCommit, Refused
<1>7. ASSUME NEW c \in Callers, StatusWrite(c) PROVE ReadsAreFresh
  <2>1. /\ [Idle EXCEPT !.op = "combat", !.status = session.status].op = "combat"
        /\ [Idle EXCEPT !.op = "message", !.status = session.status].op = "message"
    BY DEF Idle
  <2> QED
    BY <1>7, <2>1, <1>1, <1>2 DEF StatusWrite, CombatRead, CombatCommit, MessageRead, MessageCommit
<1>8. ASSUME NEW t \in Ticks, Scheduler(t) PROVE ReadsAreFresh
  BY <1>8, <1>1, <1>3, <1>5 DEF Scheduler, TickRead, TickCommit, DuePlays, Refused
<1>9. CASE Restart
  BY <1>9 DEF Restart, Idle
<1> QED
  BY <1>4, <1>6, <1>7, <1>8, <1>9
  DEF Next, CreateCheck, CreateCommit, LeaveSession, DisbandCommit, CompleteSession, LobbyTimeArrives, vars
-----------------------------------------------------------------------------
(***************************************************************************)
(* The inductive invariant: a version still current vouches for the status *)
(* read with it, and a cancelPlay that will cancel the current play knows  *)
(* it, since a play only becomes current by leaving SCHEDULED, or with the *)
(* session itself.                                                         *)
(***************************************************************************)
VersionsVouch ==
    \A c \in Callers \cup Ticks :
        calls[c].op \in Versioned =>
            /\ calls[c].version <= plays[calls[c].play].version
            /\ calls[c].version = plays[calls[c].play].version
               => calls[c].saw = plays[calls[c].play].status

CancelsKnowCurrent ==
    \A c \in Callers \cup Ticks :
        /\ calls[c].op = "cancel"
        /\ session.current = calls[c].play
        /\ plays[calls[c].play].status = "SCHEDULED"
        => calls[c].current = session.current

RInv == IInv /\ AbsentRowsAreNew /\ VersionsVouch /\ CancelsKnowCurrent /\ CurrentPlayHasNotEnded

\* It holds of a session that was just created.
LEMMA RInvInit == Init => RInv
<1> SUFFICES ASSUME Init PROVE RInv
  OBVIOUS
<1>1. VersionsVouch /\ CancelsKnowCurrent
  BY DEF Init, VersionsVouch, CancelsKnowCurrent, Versioned, Idle
<1>2. ASSUME NEW activity, NEW next, NEW first \in {"NONE", "SCHEDULED", "LOBBY_OPEN"},
             CreateSession(activity, first, next)
      PROVE  AbsentRowsAreNew /\ CurrentPlayHasNotEnded
  BY <1>2, SessionPlayAssumption
  DEF CreateSession, NewRow, NoRow, AbsentRowsAreNew, CurrentPlayHasNotEnded, Ended, Plays, NoPlay
<1> QED
  BY <1>1, <1>2, IInvInit DEF Init, RInv

\* It is inductive.
LEMMA RInvStep == RInv /\ [Next]_vars => RInv'
<1> SUFFICES ASSUME RInv, [Next]_vars PROVE RInv'
  OBVIOUS
<1>1. IInv' /\ TypeOK /\ TypeOK' /\ CallsNamePlays /\ CallsNamePlays'
  BY IInvStep DEF RInv, IInv
<1>2. Shape /\ Stamps /\ ReadsAreFresh
  BY <1>1, StepShape, StepStamps, StepReads DEF RInv, IInv
<1>3. AbsentRowsAreNew'
  BY <1>2 DEF RInv, AbsentRowsAreNew, Stamps
<1>4. VersionsVouch'
  <2> SUFFICES ASSUME NEW c \in Callers \cup Ticks, calls'[c].op \in Versioned
               PROVE  /\ calls'[c].version <= plays'[calls'[c].play].version
                      /\ calls'[c].version = plays'[calls'[c].play].version
                         => calls'[c].saw = plays'[calls'[c].play].status
    BY DEF VersionsVouch
  <2> DEFINE p == calls'[c].play
  <2>1. p \in Plays
    BY <1>1 DEF CallsNamePlays, Versioned
  <2>2. plays[p].version \in Nat /\ calls'[c].version \in Nat
    BY <1>1, <2>1 DEF TypeOK, PlayRow, Call
  <2>3. CASE calls'[c] = calls[c]
    BY <1>2, <2>1, <2>2, <2>3 DEF RInv, VersionsVouch, Stamps
  <2>4. CASE JustRead(c)
    BY <2>2, <2>4 DEF JustRead
  <2> QED
    BY <1>2, <2>3, <2>4 DEF ReadsAreFresh
<1>5. NoPlay \notin Plays
  BY SessionPlayAssumption DEF Plays, NoPlay
\* The current play, if still SCHEDULED, is the one it was.
<1>6. ASSUME session'.current \in Plays, plays'[session'.current].status = "SCHEDULED"
      PROVE  session'.current = session.current /\ plays[session.current].status = "SCHEDULED"
  <2>1. ASSUME NEW p \in Plays, Creates(p) \/ Opens(p) \/ Starts(p) \/ Closes(p) \/ Cancels(p)
        PROVE  session'.current = session.current /\ plays[session.current].status = "SCHEDULED"
    BY <1>5, <1>6, <2>1
    DEF Creates, Opens, Starts, Closes, Cancels, Writes, Moves, RInv, CurrentPlayHasNotEnded
  <2> QED
    BY <1>2, <1>5, <1>6, <2>1 DEF Shape, Quiet, Disbands
<1>7. CancelsKnowCurrent'
  <2> SUFFICES ASSUME NEW c \in Callers \cup Ticks, calls'[c].op = "cancel",
                      session'.current = calls'[c].play,
                      plays'[calls'[c].play].status = "SCHEDULED"
               PROVE  calls'[c].current = session'.current
    BY DEF CancelsKnowCurrent
  <2>1. calls'[c].play \in Plays
    BY <1>1 DEF CallsNamePlays
  <2>2. CASE calls'[c] = calls[c]
    BY <1>6, <2>1, <2>2 DEF RInv, CancelsKnowCurrent
  <2>3. CASE JustRead(c)
    BY <2>3 DEF JustRead
  <2> QED
    BY <1>2, <2>2, <2>3 DEF ReadsAreFresh, Versioned
<1>8. CurrentPlayHasNotEnded'
  <2>1. ASSUME NEW p \in Plays, Cancels(p) PROVE CurrentPlayHasNotEnded'
    <3>1. session'.current = p => session'.current = NoPlay
      BY <1>5, <2>1 DEF Cancels, Writes, Moves, RInv, CancelsKnowCurrent
    <3> QED
      BY <1>1, <2>1, <3>1
      DEF Cancels, Writes, Moves, RInv, CurrentPlayHasNotEnded, TypeOK, SessionRow
  <2>2. ASSUME NEW p \in Plays, Creates(p) \/ Opens(p) \/ Starts(p) \/ Closes(p)
        PROVE  CurrentPlayHasNotEnded'
    BY <1>1, <1>5, <2>2
    DEF Creates, Opens, Starts, Closes, Writes, Moves, RInv, CurrentPlayHasNotEnded, Ended, TypeOK, SessionRow
  <2> QED
    BY <1>1, <1>2, <2>1, <2>2 DEF Shape, Quiet, Disbands, RInv, CurrentPlayHasNotEnded, TypeOK, SessionRow
<1> QED
  BY <1>1, <1>3, <1>4, <1>7, <1>8 DEF RInv

\* currentPlayId never names a play that has ended, though cancelPlay decides
\* whether to clear it on a session row read before its transaction.
THEOREM CurrentIsAlive == Spec => []CurrentPlayHasNotEnded
<1>1. RInv => CurrentPlayHasNotEnded
  BY DEF RInv
<1> QED
  BY <1>1, RInvInit, RInvStep, PTL DEF Spec
-----------------------------------------------------------------------------
\* The versions of the plays only grow, and with every change of status.
LEMMA VersionStep ==
    ASSUME RInv, [Next]_vars
    PROVE  \A p \in Plays :
              /\ plays'[p].version >= plays[p].version
              /\ plays'[p].status # plays[p].status => plays'[p].version > plays[p].version
<1>1. Stamps
  BY StepStamps DEF RInv, IInv
<1>2. \A p \in Plays : plays[p].version \in Nat
  BY DEF RInv, IInv, TypeOK, PlayRow
<1> QED
  BY <1>1, <1>2 DEF Stamps

\* No transaction moves a play without giving it a new stateVersion.
THEOREM VersionsCount == Spec => VersionCountsEveryMove
<1>1. RInv /\ [Next]_vars => [\A p \in Plays :
          /\ plays'[p].version >= plays[p].version
          /\ plays'[p].status # plays[p].status => plays'[p].version > plays[p].version]_vars
  BY VersionStep
<1> QED
  BY <1>1, RInvInit, RInvStep, PTL DEF Spec, VersionCountsEveryMove
-----------------------------------------------------------------------------
\* A versioned call that ends and moves a row has found the version it names.
LEMMA CommitMatches ==
    ASSUME TypeOK, [Next]_vars, NEW c \in Callers \cup Ticks,
           calls[c].op \in Versioned, calls'[c] # calls[c], plays' # plays
    PROVE  calls[c].version = plays[calls[c].play].version
<1>1. ASSUME NEW d \in Callers \cup Ticks, Return(d) \/ GoOnToRefresh(d) PROVE c = d
  BY <1>1 DEF Return, GoOnToRefresh, TypeOK
<1>2. ASSUME NEW d \in Callers, HostRequest(d) PROVE calls[c].version = plays[calls[c].play].version
  <2>1. CASE CancelPlayCommit(d) \/ OpenLobbyCommit(d) \/ FinishPlayCommit(d) \/ StartSessionCommit(d)
    BY <2>1, <1>1 DEF CancelPlayCommit, OpenLobbyCommit, FinishPlayCommit, StartSessionCommit, RowMatches, Refused
  <2>2. CASE UpdatePlayCommit(d) \/ DeleteSessionCommit(d)
    BY <2>2, <1>1 DEF UpdatePlayCommit, DeleteSessionCommit, Disband, Running, Versioned, Refused
  <2> QED
    BY <1>2, <2>1, <2>2
    DEF HostRequest, UpdatePlayRead, CancelPlayRead, OpenLobbyRead, FinishPlayRead, StartSessionRead,
        RefreshRead, RefreshWrite, DeleteSessionRead, DeleteAccountRead, DeleteAccountCommit
<1>3. ASSUME NEW t \in Ticks, Scheduler(t) PROVE calls[c].version = plays[calls[c].play].version
  BY <1>3, <1>1 DEF Scheduler, TickRead, TickCommit, RowMatches, Refused
<1> QED
  BY <1>2, <1>3
  DEF Next, CreateCheck, CreateCommit, StatusWrite, CombatRead, CombatCommit, MessageRead, MessageCommit,
      LeaveSession, DisbandCommit, CompleteSession, LobbyTimeArrives, Restart, vars

\* A request or a scheduler pass moves a play only out of the status it saw: a
\* play that has moved in between answers with its stateVersion, even when it
\* is back in that status.
THEOREM ActsOnRowsSeen == Spec => ActsOnWhatItSaw
<1>1. RInv /\ [Next]_vars => [\A c \in Callers \cup Ticks :
          /\ calls[c].op \in {"cancel", "open", "finish", "start", "tick"}
          /\ calls'[c] # calls[c]
          /\ plays' # plays
          => plays[calls[c].play].status = calls[c].saw]_vars
  BY CommitMatches DEF RInv, IInv, VersionsVouch, Versioned
<1> QED
  BY <1>1, RInvInit, RInvStep, PTL DEF Spec, ActsOnWhatItSaw
-----------------------------------------------------------------------------
\* RECRUITING is written only together with LOBBY_OPEN, and PLAYING as the
\* activity only together with the status; a status written back from an older
\* read is never RECRUITING.
LEMMA RecruitingStep ==
    TypeOK /\ RecruitingIsNotPlaying /\ [Next]_vars => RecruitingIsNotPlaying'
<1> SUFFICES ASSUME TypeOK, RecruitingIsNotPlaying, [Next]_vars PROVE RecruitingIsNotPlaying'
  OBVIOUS
<1> USE DEF RecruitingIsNotPlaying
<1>1. ASSUME NEW current, NEW activity, NEW status, SetSession(current, activity, status),
             status = "RECRUITING" => activity = "LOBBY_OPEN"
      PROVE  RecruitingIsNotPlaying'
  BY <1>1 DEF SetSession, TypeOK, SessionRow
<1>2. UNCHANGED session => RecruitingIsNotPlaying'
  OBVIOUS
<1>3. ASSUME NEW c \in Callers \cup Ticks, Refused(c) PROVE RecruitingIsNotPlaying'
  BY <1>3 DEF Refused
<1>4. CASE DisbandCommit
  BY <1>4 DEF DisbandCommit, TypeOK, SessionRow
<1>5. ASSUME NEW c \in Callers, HostRequest(c) PROVE RecruitingIsNotPlaying'
  <2>1. CASE CancelPlayCommit(c) \/ OpenLobbyCommit(c) \/ FinishPlayCommit(c) \/ StartSessionCommit(c)
    BY <2>1, <1>1, <1>2, <1>3 DEF CancelPlayCommit, OpenLobbyCommit, FinishPlayCommit, StartSessionCommit
  <2>2. CASE DeleteSessionCommit(c)
    BY <2>2, <1>2 DEF DeleteSessionCommit, Disband
  <2>3. CASE RefreshWrite(c) \/ DeleteAccountCommit(c)
    BY <2>3 DEF RefreshWrite, DeleteAccountCommit, TypeOK, SessionRow
  <2> QED
    BY <1>5, <1>2, <1>3, <2>1, <2>2, <2>3
    DEF HostRequest, UpdatePlayRead, CancelPlayRead, OpenLobbyRead, FinishPlayRead, StartSessionRead,
        RefreshRead, DeleteSessionRead, DeleteAccountRead, UpdatePlayCommit
<1>6. ASSUME NEW c \in Callers, StatusWrite(c) PROVE RecruitingIsNotPlaying'
  BY <1>6
  DEF StatusWrite, CombatRead, CombatCommit, MessageRead, MessageCommit, StatusAfterMessage, TypeOK, SessionRow
<1>7. ASSUME NEW t \in Ticks, Scheduler(t) PROVE RecruitingIsNotPlaying'
  BY <1>7, <1>1, <1>2, <1>3 DEF Scheduler, TickRead, TickCommit
<1>8. CASE CreateCommit
  BY <1>8 DEF CreateCommit, TypeOK, SessionRow
<1>9. CASE CompleteSession
  BY <1>9 DEF CompleteSession, TypeOK, SessionRow
<1> QED
  BY <1>2, <1>4, <1>5, <1>6, <1>7, <1>8, <1>9
  DEF Next, CreateCheck, LeaveSession, Disband, LobbyTimeArrives, Restart, vars

\* deleteSession and the account deletion, which ask only whether the session
\* is RECRUITING, are never answered so by a session in play.
THEOREM RecruitingMeansNoGame == Spec => []RecruitingIsNotPlaying
<1>1. Init => RecruitingIsNotPlaying
  BY DEF Init, CreateSession, RecruitingIsNotPlaying
<1> QED
  BY <1>1, TypeCorrectInit, TypeCorrectStep, RecruitingStep, PTL DEF Spec
=============================================================================
