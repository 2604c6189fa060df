------------------------------ MODULE ActivePlay ------------------------------
(***************************************************************************)
(* The place one user takes in a play, of all his tabs and devices at      *)
(* once, and the sockets that belong to it: the HTTP requests that take,   *)
(* renew and give up the place, the gateway's session.join and             *)
(* disconnection, the end of a play or of the membership, and the pass     *)
(* that removes places whose heartbeat has stopped.                        *)
(*                                                                         *)
(* Each await on the database ends an action.  Places of different users   *)
(* meet nowhere, so one user is modelled.                                  *)
(***************************************************************************)
EXTENDS Naturals

CONSTANTS
    Sessions,
    Sockets,   \* the user's socket connections, each of which opens once
    Tasks,     \* requests and socket handlers under way at once
    Timer,     \* the pass over stale places
    None,
    MaxPlay,   \* bound: plays of one session
    MaxTime    \* bound: the time after which a heartbeat is stale goes by so often

ASSUME ActivePlayAssumption ==
    /\ Timer \notin Tasks
    /\ None \notin Sessions \cup Sockets \cup Tasks \cup {Timer}
    /\ MaxPlay \in Nat \ {0}
    /\ MaxTime \in Nat

VARIABLES
    play,    \* the last play of each session
    open,    \* whether it is LOBBY_OPEN or PLAYING, and currentPlayId names it
    member,  \* whether the user's participant row is JOINED
    online,  \* its connectionStatus
    place,   \* the user's row of UserActivePlay
    lock,    \* who holds the advisory lock active-play:<user>
    clock,   \* in units of ACTIVE_PLAY_STALE_MS
    socket,  \* what socket.io and sessionMembershipBySocket know of a socket
    task     \* what each task, and the timer's pass, is doing

vars == <<play, open, member, online, place, lock, clock, socket, task>>

Actors == Tasks \cup {Timer}
Nowhere == [session |-> None, play |-> 0, beat |-> 0]
Place == [session: Sessions \cup {None}, play: 0..MaxPlay, beat: 0..MaxTime]

\* rooms: the sessions whose room and user room it is in; entry: the session
\* sessionMembershipBySocket gives for it.
Socket == [state: {"new", "up", "down"}, rooms: SUBSET Sessions, entry: Sessions \cup {None}]

Stages == {"idle", "lock", "take", "evict", "close", "access", "status", "mark", "enter",
           "look", "remove"}

\* saw: the place it has read; show: the connectionStatus it is to set.
Task == [at: Stages, session: Sessions \cup {None}, play: 0..MaxPlay, confirm: BOOLEAN,
         saw: Place, socket: Sockets \cup {None}, show: BOOLEAN]
Idle == [at |-> "idle", session |-> None, play |-> 0, confirm |-> FALSE,
         saw |-> Nowhere, socket |-> None, show |-> FALSE]

TypeOK ==
    /\ play \in [Sessions -> 1..MaxPlay]
    /\ open \in [Sessions -> BOOLEAN]
    /\ member \in [Sessions -> BOOLEAN]
    /\ online \in [Sessions -> BOOLEAN]
    /\ place \in Place
    /\ lock \in Tasks \cup {None}
    /\ clock \in 0..MaxTime
    /\ socket \in [Sockets -> Socket]
    /\ task \in [Actors -> Task]
    /\ \A t \in Tasks : lock = t <=> task[t].at = "take"

Init ==
    /\ play = [s \in Sessions |-> 1]
    /\ open = [s \in Sessions |-> TRUE]
    /\ member = [s \in Sessions |-> TRUE]
    /\ online = [s \in Sessions |-> FALSE]
    /\ place = Nowhere
    /\ lock = None
    /\ clock = 0
    /\ socket = [k \in Sockets |-> [state |-> "new", rooms |-> {}, entry |-> None]]
    /\ task = [a \in Actors |-> Idle]
-----------------------------------------------------------------------------
At(a, stage) == task[a].at = stage
Become(a, t) == task' = [task EXCEPT ![a] = t]
Go(a, stage) == Become(a, [task[a] EXCEPT !.at = stage])
Finish(a) == Become(a, Idle)
In(s) == place.session = s
Holds(s, p) == In(s) /\ place.play = p
Stale == place # Nowhere /\ place.beat < clock

Rows == <<play, open, member, online, place>>

\* evictUserFromSession, after the transaction and not in it.
EvictFrom(s) == socket' = [k \in Sockets |-> [socket[k] EXCEPT !.rooms = @ \ {s}]]

Evict(t) ==
    /\ At(t, "evict")
    /\ EvictFrom(task[t].session)
    /\ Finish(t)
    /\ UNCHANGED <<Rows, lock, clock>>

Evicting(s) == \E t \in Tasks : At(t, "evict") /\ task[t].session = s
-----------------------------------------------------------------------------
(* Taking, renewing and giving up a place. *)

\* acquireActivePlay: membership and play are read first.
Acquire(t, s, confirm) ==
    /\ At(t, "idle")
    /\ member[s] /\ open[s]
    /\ Become(t, [Idle EXCEPT !.at = "lock", !.session = s, !.play = play[s],
                              !.confirm = confirm])
    /\ UNCHANGED <<Rows, lock, clock, socket>>

NoLock(t) ==
    /\ At(t, "lock")
    /\ IF place # Nowhere /\ ~ Holds(task[t].session, task[t].play) /\ ~ task[t].confirm
       THEN Finish(t)
       ELSE Become(t, [task[t] EXCEPT !.at = "take", !.saw = place])
    /\ UNCHANGED <<Rows, lock, clock, socket>>

\* Then, in a transaction under the user's lock, the place he has.
TakeLock(t) ==
    /\ At(t, "lock")
    /\ lock = None
    /\ IF place # Nowhere /\ ~ Holds(task[t].session, task[t].play) /\ ~ task[t].confirm
       THEN Finish(t) /\ UNCHANGED lock
       ELSE Become(t, [task[t] EXCEPT !.at = "take", !.saw = place]) /\ lock' = t
    /\ UNCHANGED <<Rows, clock, socket>>

\* The upsert, the two connection states, and the commit.
Take(t) ==
    /\ At(t, "take")
    /\ LET s == task[t].session
           was == task[t].saw
       IN /\ place' = [session |-> s, play |-> task[t].play, beat |-> clock]
          /\ online' = [x \in Sessions |-> IF x = s THEN TRUE
                                           ELSE online[x] /\ ~ (was.session = x /\ member[x])]
          /\ IF was # Nowhere /\ <<was.session, was.play>> # <<s, task[t].play>>
             THEN Become(t, [Idle EXCEPT !.at = "evict", !.session = was.session])
             ELSE Finish(t)
    /\ lock' = IF lock = t THEN None ELSE lock
    /\ UNCHANGED <<play, open, member, clock, socket>>

\* releaseActivePlay.
Release(t) ==
    /\ At(t, "idle")
    /\ lock = None
    /\ place # Nowhere
    /\ place' = Nowhere
    /\ online' = [online EXCEPT ![place.session] = @ /\ ~ member[place.session]]
    /\ Become(t, [Idle EXCEPT !.at = "evict", !.session = place.session])
    /\ UNCHANGED <<play, open, member, lock, clock, socket>>

Heartbeat ==
    /\ place # Nowhere
    /\ place' = [place EXCEPT !.beat = clock]
    /\ UNCHANGED <<play, open, member, online, lock, clock, socket, task>>

\* finishPlay: who is in the play, and some statements later the rest.
FinishPlay(t, s) ==
    /\ At(t, "idle")
    /\ open[s]
    /\ \A u \in Tasks : ~ (At(u, "close") /\ task[u].session = s)
    /\ Become(t, [Idle EXCEPT !.at = "close", !.session = s, !.play = play[s],
                              !.saw = IF Holds(s, play[s]) THEN place ELSE Nowhere])
    /\ UNCHANGED <<Rows, lock, clock, socket>>

Close(t) ==
    /\ At(t, "close")
    /\ LET s == task[t].session IN
       /\ open' = [open EXCEPT ![s] = FALSE]
       /\ place' = IF Holds(s, task[t].play) THEN Nowhere ELSE place
       /\ online' = [online EXCEPT ![s] = @ /\ ~ member[s]]
       /\ IF task[t].saw = Nowhere THEN Finish(t)
          ELSE Become(t, [Idle EXCEPT !.at = "evict", !.session = s])
    /\ UNCHANGED <<play, member, lock, clock, socket>>

\* createPlay and openLobby, or the scheduler.
OpenLobby(s) ==
    /\ ~ open[s]
    /\ play[s] < MaxPlay
    /\ play' = [play EXCEPT ![s] = @ + 1]
    /\ open' = [open EXCEPT ![s] = TRUE]
    /\ UNCHANGED <<member, online, place, lock, clock, socket, task>>

\* leaveSession and removeParticipant.
Leave(t, s) ==
    /\ At(t, "idle")
    /\ member[s]
    /\ member' = [member EXCEPT ![s] = FALSE]
    /\ online' = [online EXCEPT ![s] = FALSE]
    /\ place' = IF In(s) THEN Nowhere ELSE place
    /\ Become(t, [Idle EXCEPT !.at = "evict", !.session = s])
    /\ UNCHANGED <<play, open, lock, clock, socket>>

\* joinSession.
Rejoin(s) ==
    /\ ~ member[s]
    /\ member' = [member EXCEPT ![s] = TRUE]
    /\ online' = [online EXCEPT ![s] = FALSE]
    /\ UNCHANGED <<play, open, place, lock, clock, socket, task>>
-----------------------------------------------------------------------------
(* The gateway. *)

Connect(k) ==
    /\ socket[k].state = "new"
    /\ socket' = [socket EXCEPT ![k].state = "up"]
    /\ UNCHANGED <<Rows, lock, clock, task>>

\* handleSessionJoin: ensureActivePlayAccess reads session and membership ...
Join(t, k, s) ==
    /\ At(t, "idle")
    /\ socket[k].state = "up"
    /\ member[s] /\ open[s]
    /\ Become(t, [Idle EXCEPT !.at = "access", !.session = s, !.play = play[s],
                              !.socket = k, !.show = TRUE])
    /\ UNCHANGED <<Rows, lock, clock, socket>>

\* ... and then the place.
Access(t) ==
    /\ At(t, "access")
    /\ IF Holds(task[t].session, task[t].play) THEN Go(t, "status") ELSE Finish(t)
    /\ UNCHANGED <<Rows, lock, clock, socket>>

\* updateConnectionStatus: nothing to do, or a write.
Status(t) ==
    /\ At(t, "status")
    /\ LET s == task[t].session
           done == [task[t] EXCEPT !.at = "enter"]
       IN Become(t, IF member[s] /\ online[s] # task[t].show THEN [done EXCEPT !.at = "mark"]
                    ELSE IF task[t].show THEN done ELSE Idle)
    /\ UNCHANGED <<Rows, lock, clock, socket>>

Mark(t) ==
    /\ At(t, "mark")
    /\ online' = [online EXCEPT ![task[t].session] = task[t].show]
    /\ IF task[t].show THEN Go(t, "enter") ELSE Finish(t)
    /\ UNCHANGED <<play, open, member, place, lock, clock, socket>>

\* The rooms and the entry.  A socket that has closed joins no room any more.
Enter(t) ==
    /\ At(t, "enter")
    /\ LET k == task[t].socket
           s == task[t].session
       IN socket' = [socket EXCEPT ![k].entry = s,
                                   ![k].rooms = IF socket[k].state = "up" THEN @ \cup {s} ELSE @]
    /\ Finish(t)
    /\ UNCHANGED <<Rows, lock, clock>>

\* handleDisconnect: OFFLINE unless another socket is entered for the session.
Disconnect(t, k) ==
    /\ At(t, "idle")
    /\ socket[k].state = "up"
    /\ socket' = [socket EXCEPT ![k] = [state |-> "down", rooms |-> {}, entry |-> None]]
    /\ LET s == socket[k].entry IN
       IF s = None \/ \E j \in Sockets \ {k} : socket[j].entry = s
       THEN UNCHANGED task
       ELSE Become(t, [Idle EXCEPT !.at = "status", !.session = s])
    /\ UNCHANGED <<Rows, lock, clock>>
-----------------------------------------------------------------------------
(* cleanupStaleActivePlays. *)

Select ==
    /\ At(Timer, "idle")
    /\ Stale
    /\ Become(Timer, [Idle EXCEPT !.at = "look", !.saw = place])
    /\ UNCHANGED <<Rows, lock, clock, socket>>

\* hasUserConnection.
Connected(s) == \E k \in Sockets : s \in socket[k].rooms

Look ==
    /\ At(Timer, "look")
    /\ IF Connected(task[Timer].saw.session) THEN Finish(Timer) ELSE Go(Timer, "remove")
    /\ UNCHANGED <<Rows, lock, clock, socket>>

RemoveByPlay ==
    /\ At(Timer, "remove")
    /\ LET saw == task[Timer].saw IN
       IF Holds(saw.session, saw.play)
       THEN /\ place' = Nowhere
            /\ online' = [online EXCEPT ![saw.session] = @ /\ ~ member[saw.session]]
       ELSE UNCHANGED <<place, online>>
    /\ Finish(Timer)
    /\ UNCHANGED <<play, open, member, lock, clock, socket>>

\* deleteMany of the place with the heartbeat that was read.
Remove ==
    /\ At(Timer, "remove")
    /\ LET saw == task[Timer].saw IN
       IF place = saw
       THEN /\ place' = Nowhere
            /\ online' = [online EXCEPT ![saw.session] = @ /\ ~ member[saw.session]]
       ELSE UNCHANGED <<place, online>>
    /\ Finish(Timer)
    /\ UNCHANGED <<play, open, member, lock, clock, socket>>

Pass ==
    /\ clock < MaxTime
    /\ clock' = clock + 1
    /\ UNCHANGED <<Rows, lock, socket, task>>
-----------------------------------------------------------------------------
Request(t) ==
    \/ \E s \in Sessions :
           \/ \E confirm \in BOOLEAN : Acquire(t, s, confirm)
           \/ FinishPlay(t, s)
           \/ Leave(t, s)
           \/ \E k \in Sockets : Join(t, k, s)
    \/ Release(t)
    \/ \E k \in Sockets : Disconnect(t, k)

Step(t) ==
    \/ TakeLock(t)
    \/ Take(t)
    \/ Evict(t)
    \/ Close(t)
    \/ Access(t)
    \/ Status(t)
    \/ Mark(t)
    \/ Enter(t)

Cleanup == Select \/ Look \/ Remove

Next ==
    \/ \E t \in Tasks : Request(t) \/ Step(t)
    \/ Heartbeat
    \/ \E s \in Sessions : OpenLobby(s) \/ Rejoin(s)
    \/ \E k \in Sockets : Connect(k)
    \/ Cleanup
    \/ Pass

Spec == Init /\ [][Next]_vars
-----------------------------------------------------------------------------
(* Safety. *)

\* Whatever tabs and devices ask at the same time, the user is moved from one
\* play straight to another only by a request that confirmed the switch.
SwitchIsConfirmed ==
    [][place # Nowhere /\ place' # Nowhere
          /\ <<place'.session, place'.play>> # <<place.session, place.play>>
       => \E t \in Tasks : At(t, "take") /\ ~ (At(t, "take"))' /\ task[t].confirm]_vars

\* The pass over stale places removes only a place that is stale when it is
\* removed, however long ago it was selected and whatever came between: a
\* heartbeat, a reconnection, a switch.
CleanupKeepsRenewed ==
    [][At(Timer, "remove") /\ ~ (At(Timer, "remove"))' /\ place' # place => Stale]_vars

\* What a comment of the gateway says of the rooms: only participants of a
\* session receive its events, up to an eviction that is still to come.
RoomIsForParticipants ==
    \A k \in Sockets, s \in Sessions :
        s \in socket[k].rooms => member[s] \/ Evicting(s)
=============================================================================
