----------------------------- MODULE SessionPlay -----------------------------
(***************************************************************************)
(* The life of one session and of its numbered plays: the session row      *)
(* (status, activityStatus, currentPlayId, nextSessionAt), the play rows,  *)
(* the requests of the session's host, the 60 s scheduler that opens due   *)
(* lobbies, the session deletion and the account deletion.                 *)
(*                                                                         *)
(* A handler that reads rows before its transaction is two actions, ...Read*)
(* and ...Commit, with the rows it read kept in calls[c].                  *)
(*                                                                         *)
(* Two transactions are taken apart themselves.  createPlay makes its      *)
(* checks under the session's advisory lock and inserts afterwards;        *)
(* disbandSession takes no lock, cancels the plays and overwrites the      *)
(* session row afterwards.  Each may begin, or commit, while the other is  *)
(* under way.  Every other transaction is one action: it waits for the     *)
(* advisory lock, or for the play row it writes, which the disband has     *)
(* locked, and its UPDATE ... WHERE then looks at the row again.           *)
(*                                                                         *)
(* A thrown error is the transaction rolled back and the call gone; a      *)
(* createPlay or a disband that rolls back has done nothing and is no step.*)
(***************************************************************************)
EXTENDS Naturals

CONSTANTS
    Callers,        \* requests in flight at once
    Ticks,          \* scheduler passes in flight at once (a slow one overlaps)
    MaxPlays,       \* bound: plays of the session
    MaxVersion,     \* bound: stateVersion at which a lobby is not re-opened
    MaxReschedules  \* bound: scheduleVersion at which a date is not moved

ASSUME SessionPlayAssumption ==
    /\ Callers \cap Ticks = {}
    /\ MaxPlays \in Nat \ {0}
    /\ MaxVersion \in Nat
    /\ MaxReschedules \in Nat

VARIABLES
    session,   \* the session row
    plays,     \* the play rows, by sequence number
    calls,     \* what each request in flight has read
    creating,  \* what createPlay, holding the lock, is about to insert
    disbanding, \* the disband under way: the rows it has locked, the plays it missed
    overlooked \* history: a disband has left an open lobby or a running play behind

transactions == <<creating, disbanding, overlooked>>
vars == <<session, plays, calls, transactions>>

Plays == 1..MaxPlays
NoPlay == 0
NoTime == <<0, 0>>
\* A start time is known by the play it was chosen for and the schedule
\* version that chose it.
Times == Nat \X Nat

PlayStatus ==
    {"NONE", "SCHEDULED", "LOBBY_OPEN", "PLAYING", "FINISHED", "CANCELLED"}
Ended == {"FINISHED", "CANCELLED"}
Live == {"LOBBY_OPEN", "PLAYING"}
SessionStatus == {"RECRUITING", "PLAYING", "PAUSED", "COMPLETED", "DISBANDED"}
Activity == {"DORMANT", "LOBBY_OPEN", "PLAYING", "DISBANDED"}

\* due: the start time, which is also lobbyOpensAt, has passed.
PlayRow == [status: PlayStatus, version: Nat, schedule: Nat, due: BOOLEAN]
NoRow == [status |-> "NONE", version |-> 0, schedule |-> 0, due |-> FALSE]
NewRow(status) == [status |-> status, version |-> 1, schedule |-> 1, due |-> FALSE]

\* host: the hostUserId's account has not been deleted.
SessionRow == [status: SessionStatus, activity: Activity,
               current: Plays \cup {NoPlay}, next: Times, host: BOOLEAN]

Ops == {"idle", "update", "cancel", "open", "finish", "start", "delete",
        "account", "combat", "message", "refresh", "project", "tick"}
\* play and version name the row the caller saw, saw is its status then;
\* current, status and next are what the handler read before its transaction.
Call == [op: Ops, play: Plays \cup {NoPlay}, version: Nat, saw: PlayStatus,
         current: Plays \cup {NoPlay}, status: SessionStatus, next: Times]
Idle == [op |-> "idle", play |-> NoPlay, version |-> 0, saw |-> "NONE",
         current |-> NoPlay, status |-> "RECRUITING", next |-> NoTime]

\* createPlay after its checks: the play's number, whether the request gives a
\* date, and whether it opens the lobby now.
Creation == [play: Plays, dated: BOOLEAN, open: BOOLEAN]
NotCreating == [play |-> NoPlay, dated |-> FALSE, open |-> FALSE]

\* rows: the plays that its updateMany has found; missed: those committed since.
Disbanding == [on: BOOLEAN, rows: SUBSET Plays, missed: SUBSET Plays]
NotDisbanding == [on |-> FALSE, rows |-> {}, missed |-> {}]

TypeOK ==
    /\ session \in SessionRow
    /\ plays \in [Plays -> PlayRow]
    /\ calls \in [Callers \cup Ticks -> Call]
    /\ creating \in Creation \cup {NotCreating}
    /\ disbanding \in Disbanding
    /\ overlooked \in BOOLEAN
-----------------------------------------------------------------------------
\* createSession: with the lobby open, with a first date, or with neither.
CreateSession(activity, first, next) ==
    /\ session = [status |-> "RECRUITING", activity |-> activity, next |-> next,
                  current |-> IF first = "NONE" THEN NoPlay ELSE 1, host |-> TRUE]
    /\ plays = [p \in Plays |->
                   IF p = 1 /\ first # "NONE" THEN NewRow(first) ELSE NoRow]

Init ==
    /\ \/ \E next \in {NoTime, <<1, 1>>} : CreateSession("LOBBY_OPEN", "LOBBY_OPEN", next)
       \/ CreateSession("DORMANT", "SCHEDULED", <<1, 1>>)
       \/ CreateSession("DORMANT", "NONE", NoTime)
    /\ calls = [c \in Callers \cup Ticks |-> Idle]
    /\ creating = NotCreating
    /\ disbanding = NotDisbanding
    /\ overlooked = FALSE
-----------------------------------------------------------------------------
\* A play row as a caller sees it, to be named in a later request.
Seeing(op, p) ==
    [Idle EXCEPT !.op = op, !.play = p, !.version = plays[p].version, !.saw = plays[p].status]

Begin(c, call) == calls[c] = Idle /\ calls' = [calls EXCEPT ![c] = call]
Running(c, op) == calls[c].op = op
Return(c) == calls' = [calls EXCEPT ![c] = Idle]
\* finishPlay, cancelPlay and updatePlay go on to refreshNextSessionAt.
GoOnToRefresh(c) == calls' = [calls EXCEPT ![c] = [Idle EXCEPT !.op = "refresh"]]

\* The WHERE of an updateMany on the play row.
RowMatchesStatusOnly(c, from) == plays[calls[c].play].status \in from

RowMatches(c, from) ==
    /\ plays[calls[c].play].status \in from
    /\ plays[calls[c].play].version = calls[c].version

MovePlayUncounted(p, to) == plays' = [plays EXCEPT ![p].status = to]

MovePlay(p, to) ==
    plays' = [plays EXCEPT ![p].status = to, ![p].version = @ + 1]

SetSessionSwapped(current, activity, status) ==
    session' = [session EXCEPT !.current = current, !.activity = status, !.status = activity]

SetSession(current, activity, status) ==
    session' = [session EXCEPT !.current = current, !.activity = activity, !.status = status]

\* No createPlay holds the session's advisory lock.
LockFree == creating = NotCreating

\* No disband holds the lock on the row of p.
RowFree(p) == p \notin disbanding.rows

\* A request whose WHERE matched no row throws, and its transaction rolls back.
Refused(c) == Return(c) /\ UNCHANGED <<session, plays, transactions>>
-----------------------------------------------------------------------------
NothingLive == session.activity \notin {"LOBBY_OPEN", "PLAYING"}

NothingOpen ==
    /\ session.activity \notin {"LOBBY_OPEN", "PLAYING"}
    /\ \A p \in Plays : plays[p].status # "SCHEDULED"

NextSequence(p) ==
    /\ plays[p].status = "NONE"
    /\ \A q \in 1..(p - 1) : plays[q].status # "NONE"

\* createPlay, the first half: every check is made under the session's lock.
CreateCheck(p, dated, open) ==
    /\ LockFree
    /\ session.host
    /\ dated \/ open
    /\ NothingOpen
    /\ NextSequence(p)
    /\ creating' = [play |-> p, dated |-> dated, open |-> open]
    /\ UNCHANGED <<session, plays, calls, disbanding, overlooked>>

\* The play as createPlay inserts it.
Inserted == NewRow(IF creating.open THEN "LOBBY_OPEN" ELSE "SCHEDULED")

\* createPlay, the second half: whatever has been committed meanwhile is written
\* over, and the updateMany of a disband under way has not seen the new row.
CreateCommit ==
    LET p == creating.play
        next == IF creating.dated THEN <<p, 1>> ELSE NoTime
    IN
    /\ ~ LockFree
    /\ plays' = [plays EXCEPT ![p] = Inserted]
    /\ session' = IF creating.open
                  THEN [session EXCEPT !.next = next, !.current = p,
                           !.activity = "LOBBY_OPEN", !.status = "RECRUITING"]
                  ELSE [session EXCEPT !.next = next]
    /\ disbanding' = IF disbanding.on
                     THEN [disbanding EXCEPT !.missed = @ \cup {p}]
                     ELSE disbanding
    /\ creating' = NotCreating
    /\ UNCHANGED <<calls, overlooked>>

\* updatePlay names a scheduleVersion; its updateMany is outside any lock.
UpdatePlayRead(c, p) ==
    /\ session.host
    /\ plays[p].status # "NONE"
    /\ plays[p].schedule < MaxReschedules
    /\ Begin(c, [Seeing("update", p) EXCEPT !.version = plays[p].schedule])
    /\ UNCHANGED <<session, plays, transactions>>

UpdatePlayCommit(c) ==
    LET p == calls[c].play IN
    /\ Running(c, "update")
    /\ RowFree(p)
    /\ IF plays[p].status = "SCHEDULED" /\ plays[p].schedule = calls[c].version
       THEN /\ plays' = [plays EXCEPT ![p].schedule = @ + 1, ![p].due = FALSE]
            /\ GoOnToRefresh(c)
            /\ UNCHANGED <<session, transactions>>
       ELSE Refused(c)

CancelPlayReadNoCurrent(c, p) ==
    /\ session.host
    /\ plays[p].status # "NONE"
    /\ Begin(c, Seeing("cancel", p))
    /\ UNCHANGED <<session, plays, transactions>>

CancelPlayRead(c, p) ==
    /\ session.host
    /\ plays[p].status # "NONE"
    /\ Begin(c, [Seeing("cancel", p) EXCEPT !.current = session.current])
    /\ UNCHANGED <<session, plays, transactions>>

CancelPlayCommit(c) ==
    LET p == calls[c].play IN
    /\ Running(c, "cancel")
    /\ RowFree(p)
    /\ IF RowMatches(c, {"SCHEDULED"})
       THEN /\ MovePlay(p, "CANCELLED")
            /\ IF calls[c].current = p
               THEN SetSession(NoPlay, "DORMANT", "PAUSED")
               ELSE UNCHANGED session
            /\ GoOnToRefresh(c)
            /\ UNCHANGED transactions
       ELSE Refused(c)

OpenLobbyRead(c, p) ==
    /\ session.host
    /\ plays[p].status # "NONE"
    /\ plays[p].version < MaxVersion
    /\ Begin(c, Seeing("open", p))
    /\ UNCHANGED <<session, plays, transactions>>

OpenLobbyCommit(c) ==
    LET p == calls[c].play IN
    /\ Running(c, "open")
    /\ LockFree /\ RowFree(p)
    /\ IF /\ session.activity # "PLAYING"
          /\ session.activity = "LOBBY_OPEN" => session.current = p
          /\ RowMatches(c, {"SCHEDULED", "LOBBY_OPEN"})
       THEN /\ MovePlay(p, "LOBBY_OPEN")
            /\ SetSession(p, "LOBBY_OPEN", "RECRUITING")
            /\ Return(c)
            /\ UNCHANGED transactions
       ELSE Refused(c)

\* finishPlay: the first look at the row is before the lock, outside it.
FinishPlayRead(c, p) ==
    /\ session.host
    /\ plays[p].status \in Live
    /\ Begin(c, Seeing("finish", p))
    /\ UNCHANGED <<session, plays, transactions>>

FinishPlayCommit(c) ==
    LET p == calls[c].play IN
    /\ Running(c, "finish")
    /\ LockFree /\ RowFree(p)
    /\ \/ /\ plays[p].status = "FINISHED"
          /\ GoOnToRefresh(c)
          /\ UNCHANGED <<session, plays, transactions>>
       \/ /\ RowMatches(c, Live)
          /\ MovePlay(p, "FINISHED")
          /\ SetSession(NoPlay, "DORMANT", "PAUSED")
          /\ GoOnToRefresh(c)
          /\ UNCHANGED transactions
       \/ /\ plays[p].status # "FINISHED"
          /\ ~ RowMatches(c, Live)
          /\ Refused(c)

\* startSession checks currentPlayId and status before it takes the lock.
StartSessionRead(c, p) ==
    /\ session.host
    /\ session.current = p
    /\ session.status = "RECRUITING"
    /\ Begin(c, Seeing("start", p))
    /\ UNCHANGED <<session, plays, transactions>>

StartSessionCommit(c) ==
    LET p == calls[c].play IN
    /\ Running(c, "start")
    /\ LockFree /\ RowFree(p)
    /\ IF RowMatches(c, {"LOBBY_OPEN"})
       THEN /\ MovePlay(p, "PLAYING")
            /\ SetSession(p, "PLAYING", "PLAYING")
            /\ Return(c)
            /\ UNCHANGED transactions
       ELSE Refused(c)

\* refreshNextSessionAt: the earliest future date is read, then written.
FutureDates == {p \in Plays : plays[p].status = "SCHEDULED" /\ ~ plays[p].due}

NextDates ==
    IF FutureDates = {} THEN {NoTime} ELSE {<<p, plays[p].schedule>> : p \in FutureDates}

RefreshRead(c) ==
    /\ Running(c, "refresh")
    /\ \E next \in NextDates :
           calls' = [calls EXCEPT ![c].op = "project", ![c].next = next]
    /\ UNCHANGED <<session, plays, transactions>>

RefreshWrite(c) ==
    /\ Running(c, "project")
    /\ session' = [session EXCEPT !.next = calls[c].next]
    /\ Return(c)
    /\ UNCHANGED <<plays, transactions>>
-----------------------------------------------------------------------------
DisbandableNotPlaying == {"SCHEDULED", "LOBBY_OPEN"}
DisbandableAny == PlayStatus \ {"NONE"}

Disbandable == {"SCHEDULED", "LOBBY_OPEN", "PLAYING"}

\* disbandSession, inside the transaction of its caller, the first half: the
\* updateMany cancels the plays it finds, for nobody else to see yet.
Disband ==
    /\ ~ disbanding.on
    /\ disbanding' = [on |-> TRUE, missed |-> {},
                      rows |-> {p \in Plays : plays[p].status \in Disbandable}]
    /\ UNCHANGED <<session, plays, creating, overlooked>>

\* disbandSession, the second half: the session row is overwritten, and both
\* updates are committed.
DisbandCommit ==
    /\ disbanding.on
    /\ plays' = [p \in Plays |->
           IF p \in disbanding.rows
           THEN [plays[p] EXCEPT !.status = "CANCELLED", !.version = @ + 1]
           ELSE plays[p]]
    /\ session' = [session EXCEPT !.status = "DISBANDED", !.activity = "DISBANDED",
                                  !.current = NoPlay, !.next = NoTime]
    /\ disbanding' = NotDisbanding
    /\ overlooked' = (overlooked \/ \E p \in disbanding.missed : plays[p].status \in Live)
    /\ UNCHANGED <<calls, creating>>

\* leaveSession by the host, or by the last member who is left.  Whoever left
\* may come back through resumeSession, so there is always someone to leave.
LeaveSession == Disband /\ UNCHANGED calls

\* deleteSession: the status is checked before the transaction.
DeleteSessionRead(c) ==
    /\ session.host
    /\ session.status = "RECRUITING"
    /\ Begin(c, [Idle EXCEPT !.op = "delete"])
    /\ UNCHANGED <<session, plays, transactions>>

DeleteSessionCommit(c) ==
    /\ Running(c, "delete")
    /\ Disband
    /\ Return(c)

\* deleteAccount of the host: SELECT the sessions he hosts, then UPDATE them.
DeleteAccountRead(c) ==
    /\ session.host
    /\ session.status \notin {"PLAYING", "PAUSED"}
    /\ Begin(c, [Idle EXCEPT !.op = "account", !.status = session.status])
    /\ UNCHANGED <<session, plays, transactions>>

DeleteAccountCommit(c) ==
    /\ Running(c, "account")
    /\ session' = [session EXCEPT !.host = FALSE,
                      !.status = IF calls[c].status = "RECRUITING" THEN "DISBANDED" ELSE @]
    /\ Return(c)
    /\ UNCHANGED <<plays, transactions>>
-----------------------------------------------------------------------------
\* The status written back by the end of a combat and by the human GM's combat
\* buttons: PLAYING, unless the session was read as COMPLETED.
CombatRead(c) ==
    /\ Begin(c, [Idle EXCEPT !.op = "combat", !.status = session.status])
    /\ UNCHANGED <<session, plays, transactions>>

CombatCommit(c) ==
    /\ Running(c, "combat")
    /\ session' = [session EXCEPT
           !.status = IF calls[c].status = "COMPLETED" THEN "COMPLETED" ELSE "PLAYING"]
    /\ Return(c)
    /\ UNCHANGED <<plays, transactions>>

StatusAfterMessageRaw(read) == read

StatusAfterMessage(read) == IF read = "RECRUITING" THEN "PLAYING" ELSE read

\* createHumanGmMessage writes back the status it read, RECRUITING as PLAYING.
MessageRead(c) ==
    /\ session.host
    /\ Begin(c, [Idle EXCEPT !.op = "message", !.status = session.status])
    /\ UNCHANGED <<session, plays, transactions>>

MessageCommit(c) ==
    /\ Running(c, "message")
    /\ session' = [session EXCEPT !.status = StatusAfterMessage(calls[c].status)]
    /\ Return(c)
    /\ UNCHANGED <<plays, transactions>>

\* The ending node, a defeated party and the end of a long campaign.
CompleteSession ==
    /\ session' = [session EXCEPT !.status = "COMPLETED"]
    /\ UNCHANGED <<plays, calls, transactions>>
-----------------------------------------------------------------------------
LobbyTimeArrives(p) ==
    /\ plays[p].status = "SCHEDULED"
    /\ ~ plays[p].due
    /\ plays' = [plays EXCEPT ![p].due = TRUE]
    /\ UNCHANGED <<session, calls, transactions>>

NotYetDue == {p \in Plays : plays[p].status = "SCHEDULED" /\ ~ plays[p].due}

DuePlays == {p \in Plays : plays[p].status = "SCHEDULED" /\ plays[p].due}

\* openDueLobbies: the SELECT of due plays, then one transaction for each.
TickRead(t) ==
    /\ session.activity = "DORMANT"
    /\ \E p \in DuePlays : Begin(t, Seeing("tick", p))
    /\ UNCHANGED <<session, plays, transactions>>

TickCommit(t) ==
    LET p == calls[t].play IN
    /\ Running(t, "tick")
    /\ LockFree /\ RowFree(p)
    /\ IF session.activity = "DORMANT" /\ RowMatches(t, {"SCHEDULED"})
       THEN /\ MovePlay(p, "LOBBY_OPEN")
            /\ SetSession(p, "LOBBY_OPEN", "RECRUITING")
            /\ Return(t)
            /\ UNCHANGED transactions
       ELSE Refused(t)

\* The process stops: what was in flight is gone, a transaction under way rolls
\* back, what was committed stays.
Restart ==
    /\ calls' = [c \in Callers \cup Ticks |-> Idle]
    /\ creating' = NotCreating
    /\ disbanding' = NotDisbanding
    /\ UNCHANGED <<session, plays, overlooked>>
-----------------------------------------------------------------------------
HostRequest(c) ==
    \/ \E p \in Plays :
          \/ UpdatePlayRead(c, p)
          \/ CancelPlayRead(c, p)
          \/ OpenLobbyRead(c, p)
          \/ FinishPlayRead(c, p)
          \/ StartSessionRead(c, p)
    \/ UpdatePlayCommit(c)
    \/ CancelPlayCommit(c)
    \/ OpenLobbyCommit(c)
    \/ FinishPlayCommit(c)
    \/ StartSessionCommit(c)
    \/ RefreshRead(c)
    \/ RefreshWrite(c)
    \/ DeleteSessionRead(c)
    \/ DeleteSessionCommit(c)
    \/ DeleteAccountRead(c)
    \/ DeleteAccountCommit(c)

StatusWrite(c) ==
    \/ CombatRead(c)
    \/ CombatCommit(c)
    \/ MessageRead(c)
    \/ MessageCommit(c)

Scheduler(t) == TickRead(t) \/ TickCommit(t)

Next ==
    \/ \E p \in Plays, dated, open \in BOOLEAN : CreateCheck(p, dated, open)
    \/ CreateCommit
    \/ \E c \in Callers : HostRequest(c) \/ StatusWrite(c)
    \/ LeaveSession
    \/ DisbandCommit
    \/ CompleteSession
    \/ \E p \in Plays : LobbyTimeArrives(p)
    \/ \E t \in Ticks : Scheduler(t)
    \/ Restart

Spec == Init /\ [][Next]_vars

\* setInterval keeps firing: a scheduler pass that can take a step takes it; a
\* disband that has begun to write does not keep its row locks for ever; and the
\* process is not restarted again and again without end.
FairSpec ==
    /\ Spec
    /\ <>[][~ Restart]_vars
    /\ WF_vars(DisbandCommit)
    /\ \A t \in Ticks : WF_vars(Scheduler(t))
-----------------------------------------------------------------------------
(* Safety. *)

\* Plays run one after another: a later play exists only when every earlier
\* one has ended.  createPlay sees the session row and one SCHEDULED play, and
\* the lobby is opened by four different paths.  A disband that commits while
\* the lobby of a play it missed is open ends this: see OpenPlayIsCurrent.
EarlierPlaysEnded ==
    ~ overlooked =>
        \A p, q \in Plays :
            p < q /\ plays[q].status # "NONE" => plays[p].status \in Ended

\* The session row and the play rows, written by separate statements of nine
\* transactions, agree on which play is open to its members and how, a disband
\* or a createPlay under way included, until a disband overlooks a lobby.
ActivityMatchesCurrentPlay ==
    ~ overlooked =>
        /\ session.activity \in Live =>
              /\ session.current \in Plays
              /\ plays[session.current].status = session.activity
        /\ \A p \in Plays : plays[p].status \in Live =>
              session.current = p /\ session.activity = plays[p].status

\* currentPlayId never names a play that has ended, although cancelPlay
\* decides whether to clear it on a session row read before its transaction.
CurrentPlayHasNotEnded ==
    session.current # NoPlay => plays[session.current].status \notin Ended \cup {"NONE"}

\* A session still RECRUITING is never in play: deleteSession and the account
\* deletion look only at this status to tell that they break up no game.
RecruitingIsNotPlaying ==
    session.status = "RECRUITING" => session.activity \in {"DORMANT", "LOBBY_OPEN"}

\* A host request, or a scheduler pass, moves a play only out of the state its
\* caller saw: whatever moved it in between has changed its stateVersion.
ActsOnWhatItSaw ==
    [][\A c \in Callers \cup Ticks :
          /\ calls[c].op \in {"cancel", "open", "finish", "start", "tick"}
          /\ calls'[c] # calls[c]
          /\ plays' # plays
          => plays[calls[c].play].status = calls[c].saw]_vars

\* A play changes its state only under a new stateVersion, which never goes back.
VersionCountsEveryMove ==
    [][\A p \in Plays :
          /\ plays'[p].version >= plays[p].version
          /\ plays'[p].status # plays[p].status => plays'[p].version > plays[p].version]_vars

\* The session keeps the promise of PlayLifecycle: no play is skipped, re-opened
\* after its end, or begun before the one in front of it has ended, unless a
\* disband has overlooked that one, and a disband leaves no other open.
Promise == INSTANCE PlayLifecycle WITH phase <- [p \in Plays |-> plays[p].status]
KeepsPromise == Promise!Spec

\* ERD_MVP_SESSION_SERVICE_MODEL.md says of currentPlayId: "현재 열린 대기실 또는
\* 진행 중 플레이", the lobby or the play that is open now: every open play is
\* its session's current one, so that a disbanded session has no open lobby.
\* The code breaks this when createPlay commits while a disband is under way.
OpenPlayIsCurrent ==
    \A p \in Plays : plays[p].status \in Live => session.current = p

(* Liveness. *)

\* A dormant session with a due play gets its lobby opened, unless the play is
\* moved, cancelled, or the session stops being dormant meanwhile.
DueLobbyOpens ==
    \A p \in Plays :
        session.activity = "DORMANT" /\ plays[p].status = "SCHEDULED" /\ plays[p].due
        ~> \/ plays[p].status # "SCHEDULED"
           \/ ~ plays[p].due
           \/ session.activity # "DORMANT"
=============================================================================
