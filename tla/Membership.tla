------------------------------ MODULE Membership ------------------------------
(***************************************************************************)
(* Who belongs to a session: joining, applying, the host's decision,       *)
(* leaving, removing, restoring and resuming, the number of seats, the     *)
(* choice of a character, and the start of a play that relies on them.     *)
(* The ready flags are left out: no handler decides anything by them.      *)
(*                                                                         *)
(* A request reads first and writes later.  Only joinSession,              *)
(* resolveApplication, updateSession, startSession and finishPlay take the *)
(* session's lock, for their transaction and not for what they read before.*)
(***************************************************************************)
EXTENDS Naturals, FiniteSets

CONSTANTS
    Users,    \* besides the host, who has a seat of his own
    Tasks,    \* requests under way at once
    None,
    MaxSeats, \* bound: maxParticipants less the host
    MaxPlay   \* bound: plays opened

ASSUME MembershipAssumption ==
    /\ IsFiniteSet(Users)
    /\ None \notin Users \cup Tasks
    /\ MaxSeats \in Nat \ {0}
    /\ MaxPlay \in Nat \ {0}

VARIABLES
    session,  \* activityStatus, the plays opened so far, maxParticipants
    row,      \* the participant, session character and application rows
    lock,     \* who holds the advisory lock of the session
    task,     \* what each request is doing
    mostSeats, \* history: the most seats there ever were
    resumed    \* history: who has become a member again by resumeSession

vars == <<session, row, lock, task, mostSeats, resumed>>

Session == [activity: {"DORMANT", "LOBBY_OPEN", "PLAYING"}, play: 0..MaxPlay,
            seats: 1..MaxSeats]

\* hero: an ACTIVE session character.
Row == [status: {"none", "JOINED", "LEFT", "KICKED"}, hero: BOOLEAN,
        application: {"none", "PENDING", "APPROVED", "REJECTED"}]
Absent == [status |-> "none", hero |-> FALSE, application |-> "none"]

Stages == {"idle", "join", "enter", "apply", "approve", "admit", "reject", "leave", "kick",
           "restore", "select", "seats", "start"}

\* play, seats: what it has read of the session row, or is to write; flag:
\* whether a character, or a number of seats, was chosen.
Task == [at: Stages, user: Users \cup {None}, play: 0..MaxPlay, seats: 0..MaxSeats,
         flag: BOOLEAN]
Idle == [at |-> "idle", user |-> None, play |-> 0, seats |-> 0, flag |-> FALSE]

Joined == {u \in Users : row[u].status = "JOINED"}

TypeOK ==
    /\ session \in Session
    /\ row \in [Users -> Row]
    /\ lock \in Tasks \cup {None}
    /\ task \in [Tasks -> Task]
    /\ \A t \in Tasks : lock = t <=> task[t].at \in {"enter", "admit"}
    /\ mostSeats \in session.seats..MaxSeats
    /\ resumed \subseteq Joined

Init ==
    /\ session = [activity |-> "DORMANT", play |-> 0, seats |-> 1]
    /\ row = [u \in Users |-> Absent]
    /\ lock = None
    /\ task = [t \in Tasks |-> Idle]
    /\ mostSeats = 1
    /\ resumed = {}
-----------------------------------------------------------------------------
At(t, stage) == task[t].at = stage
Become(t, x) == task' = [task EXCEPT ![t] = x]
Finish(t) == Become(t, Idle)

\* A request that has done its reading.
Request(t, r) == At(t, "idle") /\ Become(t, r)
For(u, stage) == [Idle EXCEPT !.at = stage, !.user = u]

\* The write of a request, about the user it is for.
Do(t, stage) == At(t, stage) /\ Finish(t)
User(t) == task[t].user
Write(u, x) == row' = [row EXCEPT ![u] = x]
WriteStatus(u, status) == Write(u, [row[u] EXCEPT !.status = status])

\* sessionStatus = RECRUITING: an open lobby, or no play yet.
Recruiting == session.activity = "LOBBY_OPEN" \/ session.play = 0

Fits(seats) == Cardinality(Joined) < seats
-----------------------------------------------------------------------------
(* Coming in. *)

\* joinSessionById and joinSessionByInvite.
Join(t, u) ==
    /\ Request(t, For(u, "join"))
    /\ UNCHANGED <<session, row, lock, mostSeats, resumed>>

\* ensureCanJoin, under the lock, on the session read again.
MayJoin(t) ==
    /\ session.activity # "PLAYING"
    /\ row[User(t)].status \in {"none", "LEFT"}
    /\ Fits(session.seats)

CheckJoinUnlocked(t) ==
    /\ At(t, "join")
    /\ Become(t, IF MayJoin(t) THEN [task[t] EXCEPT !.at = "enter"] ELSE Idle)
    /\ UNCHANGED <<session, row, lock, mostSeats, resumed>>

CheckJoin(t) ==
    /\ At(t, "join")
    /\ lock = None
    /\ IF MayJoin(t)
       THEN Become(t, [task[t] EXCEPT !.at = "enter"]) /\ lock' = t
       ELSE Finish(t) /\ UNCHANGED lock
    /\ UNCHANGED <<session, row, mostSeats, resumed>>

Enter(t) ==
    /\ Do(t, "enter")
    /\ WriteStatus(User(t), "JOINED")
    /\ lock' = IF lock = t THEN None ELSE lock
    /\ UNCHANGED <<session, mostSeats, resumed>>

\* createApplication.
Apply(t, u) ==
    /\ row[u].status \in {"none", "LEFT"}
    /\ Request(t, For(u, "apply"))
    /\ UNCHANGED <<session, row, lock, mostSeats, resumed>>

WriteApplication(t) ==
    /\ Do(t, "apply")
    /\ Write(User(t), [row[User(t)] EXCEPT !.application = "PENDING"])
    /\ UNCHANGED <<session, lock, mostSeats, resumed>>

\* resolveApplication.
Resolve(t, u) ==
    /\ row[u].application = "PENDING"
    /\ \/ Request(t, [For(u, "approve") EXCEPT !.seats = session.seats])
       \/ Request(t, For(u, "reject"))
    /\ UNCHANGED <<session, row, lock, mostSeats, resumed>>

\* Under the lock the members are counted again, the seats are those read before.
CheckApproval(t) ==
    /\ At(t, "approve")
    /\ lock = None
    /\ IF Fits(task[t].seats) /\ row[User(t)].status # "KICKED"
       THEN Become(t, [task[t] EXCEPT !.at = "admit"]) /\ lock' = t
       ELSE Finish(t) /\ UNCHANGED lock
    /\ UNCHANGED <<session, row, mostSeats, resumed>>

Admit(t) ==
    /\ Do(t, "admit")
    /\ Write(User(t), [row[User(t)] EXCEPT !.status = "JOINED", !.application = "APPROVED"])
    /\ lock' = None
    /\ UNCHANGED <<session, mostSeats, resumed>>

Reject(t) ==
    /\ lock = None
    /\ Do(t, "reject")
    /\ Write(User(t), [row[User(t)] EXCEPT !.application = "REJECTED"])
    /\ UNCHANGED <<session, lock, mostSeats, resumed>>

\* resumeSession: one update of whatever row there is.
Resume(u) ==
    /\ row[u].status # "none"
    /\ WriteStatus(u, "JOINED")
    /\ resumed' = IF u \in Joined THEN resumed ELSE resumed \cup {u}
    /\ UNCHANGED <<session, lock, task, mostSeats>>
-----------------------------------------------------------------------------
(* Going. *)

\* leaveSession and removeParticipant find a member, restoreParticipant a
\* removed one.
Leave(t, u) ==
    /\ u \in Joined
    /\ Request(t, For(u, "leave")) \/ Request(t, For(u, "kick"))
    /\ UNCHANGED <<session, row, lock, mostSeats, resumed>>

Restore(t, u) ==
    /\ row[u].status = "KICKED"
    /\ Request(t, For(u, "restore"))
    /\ UNCHANGED <<session, row, lock, mostSeats, resumed>>

Going == [leave |-> "LEFT", kick |-> "KICKED"]

Gone(t) ==
    /\ \E stage \in DOMAIN Going :
           /\ Do(t, stage)
           /\ Write(User(t), [row[User(t)] EXCEPT !.status = Going[stage], !.hero = FALSE])
    /\ resumed' = resumed \ {User(t)}
    /\ UNCHANGED <<session, lock, mostSeats>>

Restored(t) ==
    /\ Do(t, "restore")
    /\ WriteStatus(User(t), "LEFT")
    /\ resumed' = resumed \ {User(t)}
    /\ UNCHANGED <<session, lock, mostSeats>>
-----------------------------------------------------------------------------
(* Characters. *)

\* selectCharacter, also to select none.
Select(t, u, flag) ==
    /\ u \in Joined
    /\ Recruiting
    /\ Request(t, [For(u, "select") EXCEPT !.flag = flag])
    /\ UNCHANGED <<session, row, lock, mostSeats, resumed>>

Selected(t) ==
    /\ Do(t, "select")
    /\ Write(User(t), [row[User(t)] EXCEPT !.hero = task[t].flag])
    /\ UNCHANGED <<session, lock, mostSeats, resumed>>
-----------------------------------------------------------------------------
(* The session. *)

OpenLobby ==
    /\ lock = None
    /\ session.activity = "DORMANT"
    /\ session.play < MaxPlay
    /\ session' = [session EXCEPT !.activity = "LOBBY_OPEN", !.play = @ + 1]
    /\ UNCHANGED <<row, lock, task, mostSeats, resumed>>

FinishPlay ==
    /\ lock = None
    /\ session.activity # "DORMANT"
    /\ session' = [session EXCEPT !.activity = "DORMANT"]
    /\ UNCHANGED <<row, lock, task, mostSeats, resumed>>

\* startSession: who takes part is read before the transaction.
Start(t) ==
    /\ session.activity = "LOBBY_OPEN"
    /\ \A u \in Joined : row[u].hero
    /\ Request(t, [Idle EXCEPT !.at = "start", !.play = session.play])
    /\ UNCHANGED <<session, row, lock, mostSeats, resumed>>

Begin(t) ==
    /\ Do(t, "start")
    /\ session' = IF session.activity = "LOBBY_OPEN" /\ session.play = task[t].play
                  THEN [session EXCEPT !.activity = "PLAYING"]
                  ELSE session
    /\ UNCHANGED <<row, lock, mostSeats, resumed>>

Started(t) == lock = None /\ Begin(t)

\* updateSession, with a new number of seats or without.
UpdateSession(t, flag) ==
    /\ session.activity # "PLAYING"
    /\ \E seats \in IF flag THEN 1..MaxSeats ELSE {session.seats} :
           Request(t, [Idle EXCEPT !.at = "seats", !.flag = flag, !.seats = seats])
    /\ UNCHANGED <<session, row, lock, mostSeats, resumed>>

Updated(t) ==
    /\ lock = None
    /\ Do(t, "seats")
    /\ LET seats == task[t].seats IN
       IF session.activity # "PLAYING" /\ (task[t].flag => Cardinality(Joined) <= seats)
       THEN /\ session' = [session EXCEPT !.seats = seats]
            /\ mostSeats' = IF seats > mostSeats THEN seats ELSE mostSeats
       ELSE UNCHANGED <<session, mostSeats>>
    /\ UNCHANGED <<row, lock, resumed>>
-----------------------------------------------------------------------------
Receive(t) ==
    \/ \E u \in Users :
           \/ Join(t, u)
           \/ Apply(t, u)
           \/ Resolve(t, u)
           \/ Leave(t, u)
           \/ Restore(t, u)
           \/ \E flag \in BOOLEAN : Select(t, u, flag)
    \/ Start(t)
    \/ \E flag \in BOOLEAN : UpdateSession(t, flag)

Step(t) ==
    \/ CheckJoin(t)
    \/ Enter(t)
    \/ WriteApplication(t)
    \/ CheckApproval(t)
    \/ Admit(t)
    \/ Reject(t)
    \/ Gone(t)
    \/ Restored(t)
    \/ Selected(t)
    \/ Started(t)
    \/ Updated(t)

Next ==
    \/ \E t \in Tasks : Receive(t) \/ Step(t)
    \/ \E u \in Users : Resume(u)
    \/ OpenLobby
    \/ FinishPlay

Spec == Init /\ [][Next]_vars
-----------------------------------------------------------------------------
(* Safety. *)

\* However many people press the button at once, those whom joinSession and
\* resolveApplication let in never outnumber the seats the host has offered.
AdmissionsFit == Cardinality(Joined \ resumed) <= mostSeats

\* Nobody joins a play that is going on, not even when it starts while he joins;
\* only the host's approval, and resumeSession, bring somebody in.
NobodyJoinsOngoingPlay ==
    [][\A t \in Tasks : At(t, "enter") /\ ~ (At(t, "enter"))' => session.activity # "PLAYING"]_vars
=============================================================================
