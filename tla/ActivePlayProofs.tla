--------------------------- MODULE ActivePlayProofs ---------------------------
(***************************************************************************)
(* Proofs about ActivePlay, for any numbers of sessions, sockets, requests *)
(* and plays.                                                              *)
(***************************************************************************)
EXTENDS ActivePlay, TLAPS

\* A socket's handler knows for which session it works.
SocketWork == {"access", "status", "mark", "enter"}
Named(x) == x.at \in SocketWork => x.session \in Sessions

\* Whoever is to take a place without having confirmed a switch moves the user
\* from nowhere, or from the same play: what else he could have had has been
\* excluded under the lock, and without the lock places are only given up.
TakesAreConfirmed ==
    \A t \in Tasks :
        At(t, "take") /\ ~ task[t].confirm
        => place = Nowhere \/ Holds(task[t].session, task[t].play)

\* The place the timer has selected was stale then, and its heartbeat is as old now.
SelectedWasStale ==
    At(Timer, "look") \/ At(Timer, "remove")
    => task[Timer].saw # Nowhere /\ task[Timer].saw.beat < clock

PlaceInv ==
    /\ TypeOK
    /\ \A t \in Tasks : Named(task[t])
    /\ TakesAreConfirmed
    /\ SelectedWasStale
-----------------------------------------------------------------------------
LEMMA IdleType == Nowhere \in Place /\ Idle \in Task /\ Named(Idle) /\ Idle.at = "idle"
<1>1. Nowhere \in Place
  BY ActivePlayAssumption DEF Nowhere, Place
<1> QED
  BY <1>1, ActivePlayAssumption DEF Idle, Task, Stages, Named, SocketWork

\* What becomes of a's own record; the others stay as they are.
Turns(a, x) == x \in Task /\ Named(x) /\ task' = [task EXCEPT ![a] = x]

LEMMA TurnsType ==
    ASSUME PlaceInv, NEW a \in Actors, NEW x, Turns(a, x)
    PROVE  /\ task' \in [Actors -> Task]
           /\ \A t \in Tasks : Named(task'[t])
           /\ task'[a] = x
           /\ \A b \in Actors \ {a} : task'[b] = task[b]
<1>1. task \in [Actors -> Task] /\ \A t \in Tasks : t \in Actors /\ Named(task[t])
  BY DEF PlaceInv, TypeOK, Actors
<1> QED
  BY <1>1 DEF Turns

LEMMA RequestTurns ==
    ASSUME PlaceInv, NEW t \in Tasks, Request(t)
    PROVE  \/ UNCHANGED task
           \/ \E x : Turns(t, x) /\ x.at \notin {"take"} /\ ~ At(t, "take")
<1>1. /\ play \in [Sessions -> 1..MaxPlay] /\ place \in Place /\ MaxPlay \in Nat
      /\ socket \in [Sockets -> Socket]
  BY ActivePlayAssumption DEF PlaceInv, TypeOK
<1>1a. \A s \in Sessions : play[s] \in 0..MaxPlay
  BY <1>1
<1>2. ASSUME NEW s \in Sessions, NEW confirm \in BOOLEAN, Acquire(t, s, confirm)
      PROVE  \E x : Turns(t, x) /\ x.at \notin {"take"} /\ ~ At(t, "take")
  <2> DEFINE x == [Idle EXCEPT !.at = "lock", !.session = s, !.play = play[s],
                               !.confirm = confirm]
  <2>1. x \in Task /\ x.at = "lock"
    BY <1>1a, IdleType DEF Task, Stages
  <2> QED
    BY <1>2, <2>1 DEF Acquire, Become, Turns, Named, SocketWork, At
<1>3. ASSUME NEW s \in Sessions, FinishPlay(t, s)
      PROVE  \E x : Turns(t, x) /\ x.at \notin {"take"} /\ ~ At(t, "take")
  <2> DEFINE saw == IF Holds(s, play[s]) THEN place ELSE Nowhere
             x == [Idle EXCEPT !.at = "close", !.session = s, !.play = play[s], !.saw = saw]
  <2>1. saw \in Place
    BY <1>1, IdleType
  <2>2. x \in Task /\ x.at = "close"
    <3> HIDE DEF saw
    <3> QED
      BY <1>1a, <2>1, IdleType DEF Task, Stages
  <2> QED
    BY <1>3, <2>2 DEF FinishPlay, Become, Turns, Named, SocketWork, At
<1>4. ASSUME NEW s \in Sessions, Leave(t, s)
      PROVE  \E x : Turns(t, x) /\ x.at \notin {"take"} /\ ~ At(t, "take")
  <2> DEFINE x == [Idle EXCEPT !.at = "evict", !.session = s]
  <2>1. x \in Task /\ x.at = "evict"
    BY IdleType DEF Task, Stages
  <2> QED
    BY <1>4, <2>1 DEF Leave, Become, Turns, Named, SocketWork, At
<1>5. ASSUME NEW s \in Sessions, NEW k \in Sockets, Join(t, k, s)
      PROVE  \E x : Turns(t, x) /\ x.at \notin {"take"} /\ ~ At(t, "take")
  <2> DEFINE x == [Idle EXCEPT !.at = "access", !.session = s, !.play = play[s],
                               !.socket = k, !.show = TRUE]
  <2>1. x \in Task /\ x.at = "access" /\ x.session = s
    BY <1>1a, IdleType DEF Task, Stages
  <2> QED
    BY <1>5, <2>1 DEF Join, Become, Turns, Named, SocketWork, At
<1>6. ASSUME Release(t)
      PROVE  \E x : Turns(t, x) /\ x.at \notin {"take"} /\ ~ At(t, "take")
  <2> DEFINE x == [Idle EXCEPT !.at = "evict", !.session = place.session]
  <2>1. x \in Task /\ x.at = "evict"
    BY <1>1, IdleType DEF Task, Stages, Place
  <2> QED
    BY <1>6, <2>1 DEF Release, Become, Turns, Named, SocketWork, At
<1>7. ASSUME NEW k \in Sockets, Disconnect(t, k)
      PROVE  \/ UNCHANGED task
             \/ \E x : Turns(t, x) /\ x.at \notin {"take"} /\ ~ At(t, "take")
  <2> DEFINE s == socket[k].entry
             x == [Idle EXCEPT !.at = "status", !.session = s]
  <2>1. s \in Sessions \cup {None}
    BY <1>1 DEF Socket
  <2>2. x \in Task /\ x.at = "status" /\ x.session = s
    <3> HIDE DEF s
    <3> QED
      BY <2>1, IdleType DEF Task, Stages
  <2>3. CASE s = None \/ \E j \in Sockets \ {k} : socket[j].entry = s
    BY <1>7, <2>3 DEF Disconnect
  <2>4. CASE ~ (s = None \/ \E j \in Sockets \ {k} : socket[j].entry = s)
    BY <1>7, <2>1, <2>2, <2>4 DEF Disconnect, Become, Turns, Named, SocketWork, At
  <2> QED
    BY <2>3, <2>4
<1> QED
  BY <1>2, <1>3, <1>4, <1>5, <1>6, <1>7 DEF Request

LEMMA StepTurns ==
    ASSUME PlaceInv, NEW t \in Tasks, Step(t)
    PROVE  \E x : Turns(t, x) /\ (x.at = "take" => TakeLock(t))
<1> DEFINE self == task[t]
<1>1. /\ self \in Task /\ Named(self) /\ place \in Place
      /\ Nowhere \in Place /\ Idle \in Task /\ Named(Idle) /\ Idle.at = "idle"
  BY IdleType DEF PlaceInv, TypeOK, Actors
<1>2. ASSUME Finish(t) PROVE \E x : Turns(t, x) /\ x.at # "take"
  BY <1>1, <1>2 DEF Finish, Become, Turns
<1>3. ASSUME NEW stage \in Stages \ {"take"}, Go(t, stage),
             stage \in SocketWork => self.at \in SocketWork
      PROVE  \E x : Turns(t, x) /\ x.at # "take"
  <2>1. [self EXCEPT !.at = stage] \in Task /\ [self EXCEPT !.at = stage].at = stage
        /\ [self EXCEPT !.at = stage].session = self.session
    BY <1>1 DEF Task
  <2> QED
    BY <1>1, <1>3, <2>1 DEF Go, Become, Turns, Named
<1>4. ASSUME NEW s \in Sessions \cup {None}, Become(t, [Idle EXCEPT !.at = "evict", !.session = s])
      PROVE  \E x : Turns(t, x) /\ x.at # "take"
  <2>1. [Idle EXCEPT !.at = "evict", !.session = s] \in Task
        /\ [Idle EXCEPT !.at = "evict", !.session = s].at = "evict"
    BY <1>1 DEF Task, Stages
  <2> QED
    BY <1>4, <2>1 DEF Become, Turns, Named, SocketWork
<1>5. CASE TakeLock(t)
  <2> DEFINE x == [self EXCEPT !.at = "take", !.saw = place]
  <2>1. x \in Task /\ x.at = "take"
    BY <1>1 DEF Task, Stages
  <2>2. Finish(t) \/ Become(t, x)
    BY <1>5 DEF TakeLock
  <2> QED
    BY <1>2, <1>5, <2>1, <2>2 DEF Become, Turns, Named, SocketWork
<1>6. CASE Take(t)
  <2>1. self.saw.session \in Sessions \cup {None}
    BY <1>1 DEF Task, Place
  <2>2. Finish(t) \/ Become(t, [Idle EXCEPT !.at = "evict", !.session = self.saw.session])
    BY <1>6 DEF Take
  <2> QED
    BY <1>2, <1>4, <2>1, <2>2
<1>7. CASE Evict(t)
  BY <1>2, <1>7 DEF Evict
<1>8. CASE Close(t)
  <2>1. self.session \in Sessions \cup {None}
    BY <1>1 DEF Task
  <2>2. Finish(t) \/ Become(t, [Idle EXCEPT !.at = "evict", !.session = self.session])
    BY <1>8 DEF Close
  <2> QED
    BY <1>2, <1>4, <2>1, <2>2
<1>9. CASE Access(t)
  <2>1. self.at = "access" /\ (Go(t, "status") \/ Finish(t))
    BY <1>9 DEF Access, At
  <2> QED
    BY <1>2, <1>3, <2>1 DEF Stages, SocketWork
<1>10. CASE Status(t)
  <2>1. self.at = "status"
    BY <1>10 DEF Status, At
  <2>2. [[self EXCEPT !.at = "enter"] EXCEPT !.at = "mark"] = [self EXCEPT !.at = "mark"]
    BY <1>1 DEF Task
  <2>3. Go(t, "mark") \/ Go(t, "enter") \/ Finish(t)
    BY <1>10, <2>2 DEF Status, Go, Finish, Become
  <2> QED
    BY <1>2, <1>3, <2>1, <2>3 DEF Stages, SocketWork
<1>11. CASE Mark(t)
  <2>1. self.at = "mark" /\ (Go(t, "enter") \/ Finish(t))
    BY <1>11 DEF Mark, At
  <2> QED
    BY <1>2, <1>3, <2>1 DEF Stages, SocketWork
<1>12. CASE Enter(t)
  BY <1>2, <1>12 DEF Enter
<1> QED
  BY <1>5, <1>6, <1>7, <1>8, <1>9, <1>10, <1>11, <1>12 DEF Step

\* The timer's pass.
LEMMA CleanupTurns ==
    ASSUME PlaceInv, Cleanup
    PROVE  \E x : Turns(Timer, x)
<1> DEFINE self == task[Timer]
<1>1. /\ Timer \in Actors /\ self \in Task /\ place \in Place
      /\ Idle \in Task /\ Named(Idle)
  BY IdleType DEF PlaceInv, TypeOK, Actors
<1>2. CASE Select
  <2>1. [Idle EXCEPT !.at = "look", !.saw = place] \in Task
        /\ [Idle EXCEPT !.at = "look", !.saw = place].at = "look"
    BY <1>1 DEF Task, Stages
  <2> QED
    BY <1>2, <2>1 DEF Select, Become, Turns, Named, SocketWork
<1>3. CASE Look
  <2>1. [self EXCEPT !.at = "remove"] \in Task /\ [self EXCEPT !.at = "remove"].at = "remove"
    BY <1>1 DEF Task, Stages
  <2> QED
    BY <1>1, <1>3, <2>1 DEF Look, Finish, Go, Become, Turns, Named, SocketWork
<1>4. CASE Remove
  BY <1>1, <1>4 DEF Remove, Finish, Become, Turns
<1> QED
  BY <1>2, <1>3, <1>4 DEF Cleanup
-----------------------------------------------------------------------------
\* The rows keep their types.
LEMMA RowsTyped ==
    ASSUME PlaceInv, Next
    PROVE  /\ play' \in [Sessions -> 1..MaxPlay]
           /\ open' \in [Sessions -> BOOLEAN]
           /\ member' \in [Sessions -> BOOLEAN]
           /\ online' \in [Sessions -> BOOLEAN]
           /\ place' \in Place
           /\ clock' \in 0..MaxTime
           /\ socket' \in [Sockets -> Socket]
<1>1. /\ play \in [Sessions -> 1..MaxPlay] /\ open \in [Sessions -> BOOLEAN]
      /\ member \in [Sessions -> BOOLEAN] /\ online \in [Sessions -> BOOLEAN]
      /\ place \in Place /\ clock \in 0..MaxTime /\ socket \in [Sockets -> Socket]
      /\ MaxPlay \in Nat /\ MaxTime \in Nat /\ Nowhere \in Place
  BY IdleType, ActivePlayAssumption DEF PlaceInv, TypeOK
<1>2. ASSUME NEW s, EvictFrom(s) PROVE socket' \in [Sockets -> Socket]
  BY <1>1, <1>2 DEF EvictFrom, Socket
<1>3. ASSUME NEW t \in Tasks, Request(t)
      PROVE  /\ play' = play /\ open' = open /\ clock' = clock
             /\ member' \in [Sessions -> BOOLEAN] /\ online' \in [Sessions -> BOOLEAN]
             /\ place' \in Place /\ socket' \in [Sockets -> Socket]
  <2>1. CASE \E s \in Sessions : Leave(t, s)
    BY <1>1, <2>1 DEF Leave
  <2>2. CASE Release(t)
    BY <1>1, <2>2 DEF Release
  <2>3. CASE \E k \in Sockets : Disconnect(t, k)
    BY <1>1, <2>3 DEF Disconnect, Rows, Socket
  <2>4. CASE UNCHANGED <<Rows, clock, socket>>
    BY <1>1, <2>4 DEF Rows
  <2> QED
    BY <1>3, <2>1, <2>2, <2>3, <2>4 DEF Request, Acquire, FinishPlay, Join
<1>4. ASSUME NEW t \in Tasks, Step(t)
      PROVE  /\ play' = play /\ clock' = clock /\ member' = member
             /\ open' \in [Sessions -> BOOLEAN] /\ online' \in [Sessions -> BOOLEAN]
             /\ place' \in Place /\ socket' \in [Sockets -> Socket]
  <2>1. task[t] \in Task /\ Named(task[t])
    BY DEF PlaceInv, TypeOK, Actors
  <2>2. CASE Take(t)
    <3>1. place' = [session |-> task[t].session, play |-> task[t].play, beat |-> clock]
      BY <2>2 DEF Take
    <3>2. place' \in Place
      BY <1>1, <2>1, <3>1 DEF Place, Task
    <3>3. online' \in [Sessions -> BOOLEAN]
      BY <1>1, <2>2 DEF Take
    <3> QED
      BY <1>1, <2>2, <3>2, <3>3 DEF Take
  <2>3. CASE Evict(t)
    BY <1>1, <1>2, <2>3 DEF Evict, Rows
  <2>4. CASE Close(t)
    BY <1>1, <2>4 DEF Close
  <2>5. CASE Mark(t)
    BY <1>1, <2>1, <2>5 DEF Mark, Task
  <2>6. CASE Enter(t)
    <3> DEFINE k == task[t].socket
               s == task[t].session
    <3>1. s \in Sessions
      BY <2>1, <2>6 DEF Enter, At, Named, SocketWork
    <3>2. socket' = [socket EXCEPT ![k].entry = s,
                                   ![k].rooms = IF socket[k].state = "up" THEN @ \cup {s} ELSE @]
      BY <2>6 DEF Enter
    <3>3. socket' \in [Sockets -> Socket]
      <4> HIDE DEF k, s
      <4> QED
        BY <1>1, <3>1, <3>2 DEF Socket
    <3> QED
      BY <1>1, <2>6, <3>3 DEF Enter, Rows
  <2>7. CASE UNCHANGED <<Rows, clock, socket>>
    BY <1>1, <2>7 DEF Rows
  <2> QED
    BY <1>4, <2>2, <2>3, <2>4, <2>5, <2>6, <2>7 DEF Step, TakeLock, Access, Status
<1>5. CASE Heartbeat
  BY <1>1, <1>5 DEF Heartbeat, Place
<1>6. ASSUME NEW s \in Sessions, OpenLobby(s) PROVE play' \in [Sessions -> 1..MaxPlay]
  BY <1>1, <1>6 DEF OpenLobby
<1>7. CASE \E s \in Sessions : OpenLobby(s) \/ Rejoin(s)
  BY <1>1, <1>6, <1>7 DEF OpenLobby, Rejoin
<1>8. CASE \E k \in Sockets : Connect(k)
  BY <1>1, <1>8 DEF Connect, Rows, Socket
<1>9. CASE Cleanup
  BY <1>1, <1>9 DEF Cleanup, Select, Look, Remove, Rows
<1>10. CASE Pass
  BY <1>1, <1>10 DEF Pass, Rows
<1> QED
  BY <1>1, <1>3, <1>4, <1>5, <1>7, <1>8, <1>9, <1>10 DEF Next

\* The lock is held by exactly the request that is about to take a place.
LEMMA LockFollows ==
    ASSUME PlaceInv, Next
    PROVE  /\ lock' \in Tasks \cup {None}
           /\ \A u \in Tasks : (lock' = u) <=> (task'[u].at = "take")
<1>1. /\ lock \in Tasks \cup {None} /\ None \notin Tasks /\ Timer \notin Tasks
      /\ Tasks \subseteq Actors /\ Timer \in Actors
      /\ \A u \in Tasks : (lock = u) <=> (task[u].at = "take")
  BY ActivePlayAssumption DEF PlaceInv, TypeOK, Actors
<1>2. CASE lock' = lock /\ task' = task
  BY <1>1, <1>2
<1>3. ASSUME NEW a \in Actors, NEW x, Turns(a, x), lock' = lock,
             a \in Tasks => x.at # "take" /\ ~ At(a, "take")
      PROVE  /\ lock' \in Tasks \cup {None}
             /\ \A u \in Tasks : (lock' = u) <=> (task'[u].at = "take")
  BY <1>1, <1>3, TurnsType DEF At
<1>4. ASSUME NEW t \in Tasks, Request(t)
      PROVE  /\ lock' \in Tasks \cup {None}
             /\ \A u \in Tasks : (lock' = u) <=> (task'[u].at = "take")
  <2>1. lock' = lock
    BY <1>4 DEF Request, Acquire, FinishPlay, Leave, Join, Release, Disconnect
  <2> QED
    BY <1>1, <1>2, <1>3, <1>4, <2>1, RequestTurns
<1>5. ASSUME NEW t \in Tasks, Step(t)
      PROVE  /\ lock' \in Tasks \cup {None}
             /\ \A u \in Tasks : (lock' = u) <=> (task'[u].at = "take")
  <2>1. PICK x : Turns(t, x) /\ (x.at = "take" => TakeLock(t))
    BY <1>5, StepTurns
  <2>2. task'[t] = x /\ \A u \in Tasks \ {t} : task'[u] = task[u]
    BY <1>1, <2>1, TurnsType
  <2>3. CASE TakeLock(t)
    <3>1. lock = None /\ task[t].at = "lock"
      BY <2>3 DEF TakeLock, At
    <3>2. \/ Finish(t) /\ lock' = lock
          \/ Become(t, [task[t] EXCEPT !.at = "take", !.saw = place]) /\ lock' = t
      BY <2>3 DEF TakeLock
    <3>3. /\ Idle.at = "idle" /\ task \in [Actors -> Task]
          /\ [task[t] EXCEPT !.at = "take", !.saw = place].at = "take"
      BY <1>1 DEF Idle, PlaceInv, TypeOK, Task
    <3>4. CASE Finish(t) /\ lock' = lock
      <4>1. task'[t].at = "idle"
        BY <1>1, <3>3, <3>4 DEF Finish, Become
      <4> QED
        BY <1>1, <2>2, <3>1, <3>4, <4>1
    <3>5. CASE Become(t, [task[t] EXCEPT !.at = "take", !.saw = place]) /\ lock' = t
      <4>1. task'[t].at = "take"
        BY <1>1, <3>3, <3>5 DEF Become
      <4> QED
        BY <1>1, <2>2, <3>1, <3>5, <4>1
    <3> QED
      BY <3>2, <3>4, <3>5
  <2>4. CASE Take(t)
    <3>1. task[t].at = "take" /\ ~ TakeLock(t)
      BY <2>4 DEF Take, TakeLock, At
    <3>2. lock = t /\ lock' = None
      BY <1>1, <2>4, <3>1 DEF Take
    <3> QED
      BY <1>1, <2>1, <2>2, <3>1, <3>2
  <2>5. CASE ~ TakeLock(t) /\ ~ Take(t)
    <3>1. lock' = lock /\ ~ At(t, "take")
      BY <1>5, <2>5 DEF Step, Evict, Close, Access, Status, Mark, Enter, At
    <3> QED
      BY <1>1, <1>3, <2>1, <2>5, <3>1
  <2> QED
    BY <2>3, <2>4, <2>5
<1>6. CASE Cleanup
  <2>1. lock' = lock
    BY <1>6 DEF Cleanup, Select, Look, Remove
  <2> QED
    BY <1>1, <1>3, <1>6, <2>1, CleanupTurns
<1> QED
  BY <1>2, <1>4, <1>5, <1>6 DEF Next, Heartbeat, OpenLobby, Rejoin, Connect, Pass

\* A step gives the place up, renews it, leaves it as it is, or is a Take.
LEMMA PlaceShape ==
    ASSUME Next
    PROVE  \/ place' = place
           \/ place' = Nowhere
           \/ Heartbeat
           \/ \E t \in Tasks : Take(t)
BY DEF Next, Request, Acquire, FinishPlay, Leave, Join, Release, Disconnect, Step, TakeLock,
       Evict, Close, Access, Status, Mark, Enter, OpenLobby, Rejoin, Connect, Cleanup, Select,
       Look, Remove, Pass, Rows

\* A request that comes to be at "take" does so by TakeLock, and one that stays
\* there has not moved.
LEMMA TakesBegin ==
    ASSUME PlaceInv, Next, NEW t \in Tasks, task'[t].at = "take"
    PROVE  TakeLock(t) \/ (task'[t] = task[t] /\ ~ \E u \in Tasks : Take(u))
<1>1. /\ Tasks \subseteq Actors /\ Timer \in Actors /\ Timer \notin Tasks
      /\ \A u \in Tasks : (lock = u) <=> (task[u].at = "take")
      /\ None \notin Tasks
  BY ActivePlayAssumption DEF PlaceInv, TypeOK, Actors
<1>2. TakeLock(t) \/ task'[t] = task[t]
  <2>1. ASSUME NEW u \in Tasks, Request(u) PROVE task'[t] = task[t]
    BY <1>1, <2>1, RequestTurns, TurnsType
  <2>2. ASSUME NEW u \in Tasks, Step(u) PROVE TakeLock(t) \/ task'[t] = task[t]
    BY <1>1, <2>2, StepTurns, TurnsType
  <2>3. CASE Cleanup
    BY <1>1, <2>3, CleanupTurns, TurnsType
  <2>4. CASE UNCHANGED task
    BY <2>4
  <2> QED
    BY <2>1, <2>2, <2>3, <2>4 DEF Next, Heartbeat, OpenLobby, Rejoin, Connect, Pass
<1>3. ASSUME NEW u \in Tasks, Take(u), task'[t] = task[t] PROVE FALSE
  <2>1. task[u].at = "take" /\ lock' # u
    BY <1>1, <1>3 DEF Take, At
  <2>2. task'[u].at # "take"
    BY <1>1, <2>1, LockFollows
  <2>3. u # t /\ lock = u /\ lock = t
    BY <1>1, <1>3, <2>1, <2>2
  <2> QED
    BY <2>3
<1> QED
  BY <1>2, <1>3
-----------------------------------------------------------------------------
LEMMA InitPlaceInv == Init => PlaceInv
<1> SUFFICES ASSUME Init PROVE PlaceInv
  OBVIOUS
<1>1. \A a \in Actors : task[a] = Idle
  BY DEF Init
<1>2. \A t \in Tasks : task[t] = Idle /\ lock # t
  BY <1>1, ActivePlayAssumption DEF Init, Actors
<1>3. TypeOK
  BY <1>2, IdleType, ActivePlayAssumption DEF Init, TypeOK, Socket
<1>4. TakesAreConfirmed /\ SelectedWasStale
  BY <1>1, IdleType DEF TakesAreConfirmed, SelectedWasStale, At, Actors
<1> QED
  BY <1>2, <1>3, <1>4, IdleType DEF PlaceInv

\* Every step keeps the invariant.
LEMMA NextPlaceInv == PlaceInv /\ [Next]_vars => PlaceInv'
<1> SUFFICES ASSUME PlaceInv, [Next]_vars PROVE PlaceInv'
  OBVIOUS
<1>1. /\ task \in [Actors -> Task] /\ \A t \in Tasks : Named(task[t])
      /\ Tasks \subseteq Actors /\ Timer \in Actors /\ Timer \notin Tasks
      /\ TakesAreConfirmed /\ SelectedWasStale /\ place \in Place
      /\ clock \in Nat /\ clock \in 0..MaxTime
  BY ActivePlayAssumption DEF PlaceInv, TypeOK, Actors
<1>2. CASE Next
  <2>1. task' \in [Actors -> Task] /\ \A t \in Tasks : Named(task'[t])
    <3>1. ASSUME NEW t \in Tasks, Request(t) \/ Step(t)
          PROVE  UNCHANGED task \/ \E x : Turns(t, x)
      BY <3>1, RequestTurns, StepTurns
    <3>2. UNCHANGED task \/ \E a \in Actors : \E x : Turns(a, x)
      BY <1>1, <1>2, <3>1, CleanupTurns DEF Next, Heartbeat, OpenLobby, Rejoin, Connect, Pass
    <3> QED
      BY <1>1, <3>2, TurnsType
  <2>2. TypeOK'
    BY <1>2, <2>1, RowsTyped, LockFollows DEF TypeOK
  <2>3. TakesAreConfirmed'
    <3> SUFFICES ASSUME NEW t \in Tasks, task'[t].at = "take", ~ task'[t].confirm
                 PROVE  place' = Nowhere
                        \/ (place'.session = task'[t].session /\ place'.play = task'[t].play)
      BY DEF TakesAreConfirmed, At, Holds, In
    <3>1. CASE TakeLock(t)
      <4>1. Idle.at # "take" /\ task[t] \in Task
        BY <1>1, IdleType
      <4>2. /\ place' = place
            /\ ~ (place # Nowhere /\ ~ Holds(task[t].session, task[t].play) /\ ~ task[t].confirm)
            /\ task'[t] = [task[t] EXCEPT !.at = "take", !.saw = place]
        BY <1>1, <3>1, <4>1 DEF TakeLock, Finish, Become, Rows
      <4>3. task'[t].confirm = task[t].confirm /\ task'[t].session = task[t].session
            /\ task'[t].play = task[t].play
        BY <4>1, <4>2 DEF Task
      <4> QED
        BY <4>2, <4>3 DEF Holds, In
    <3>2. CASE task'[t] = task[t] /\ ~ \E u \in Tasks : Take(u)
      <4>1. place = Nowhere \/ Holds(task[t].session, task[t].play)
        BY <1>1, <3>2 DEF TakesAreConfirmed, At
      <4>2. CASE Heartbeat
        BY <1>1, <3>2, <4>1, <4>2 DEF Heartbeat, Holds, In, Place
      <4> QED
        BY <1>2, <3>2, <4>1, <4>2, PlaceShape DEF Holds, In
    <3> QED
      BY <1>2, <3>1, <3>2, TakesBegin
  <2>4. SelectedWasStale'
    <3> SUFFICES ASSUME task'[Timer].at \in {"look", "remove"}
                 PROVE  task'[Timer].saw # Nowhere /\ task'[Timer].saw.beat < clock'
      BY DEF SelectedWasStale, At
    <3>1. task[Timer] \in Task /\ task[Timer].saw.beat \in Nat /\ Idle.at = "idle"
      BY <1>1, IdleType DEF Task, Place
    <3>2. CASE Select
      <4>1. task'[Timer] = [Idle EXCEPT !.at = "look", !.saw = place] /\ Stale /\ clock' = clock
        BY <1>1, <3>2 DEF Select, Become
      <4>2. task'[Timer].saw = place
        BY <4>1, IdleType DEF Task
      <4> QED
        BY <4>1, <4>2 DEF Stale
    <3>3. CASE Look
      <4>1. task'[Timer] = [task[Timer] EXCEPT !.at = "remove"] /\ clock' = clock
            /\ At(Timer, "look")
        BY <1>1, <3>1, <3>3 DEF Look, Finish, Go, Become
      <4>2. task'[Timer].saw = task[Timer].saw
        BY <3>1, <4>1 DEF Task
      <4> QED
        BY <1>1, <4>1, <4>2 DEF SelectedWasStale
    <3>4. CASE Remove
      BY <1>1, <3>1, <3>4 DEF Remove, Finish, Become
    <3>5. CASE ~ Cleanup
      <4>1. task'[Timer] = task[Timer]
        <5>1. ASSUME NEW t \in Tasks, Request(t) \/ Step(t) PROVE task'[Timer] = task[Timer]
          BY <1>1, <5>1, RequestTurns, StepTurns, TurnsType
        <5> QED
          BY <1>2, <3>5, <5>1 DEF Next, Heartbeat, OpenLobby, Rejoin, Connect, Pass
      <4>2. clock' = clock \/ clock' = clock + 1
        BY <1>2, <3>5 DEF Next, Request, Acquire, FinishPlay, Leave, Join, Release, Disconnect,
           Step, TakeLock, Take, Evict, Close, Access, Status, Mark, Enter, Heartbeat, OpenLobby,
           Rejoin, Connect, Pass
      <4>3. task[Timer].saw # Nowhere /\ task[Timer].saw.beat < clock
        BY <1>1, <4>1 DEF SelectedWasStale, At
      <4> QED
        BY <1>1, <3>1, <4>1, <4>2, <4>3
    <3> QED
      BY <3>2, <3>3, <3>4, <3>5 DEF Cleanup
  <2> QED
    BY <2>1, <2>2, <2>3, <2>4 DEF PlaceInv
<1>3. CASE UNCHANGED vars
  BY <1>3 DEF vars, PlaceInv, TypeOK, TakesAreConfirmed, SelectedWasStale, At, Holds, In
<1> QED
  BY <1>2, <1>3

LEMMA PlaceInvariance == Spec => []PlaceInv
BY InitPlaceInv, NextPlaceInv, PTL DEF Spec
-----------------------------------------------------------------------------
\* Every variable has its type, and the user's lock is held exactly by the request
\* that is about to take a place.
THEOREM PlaceTypes == Spec => []TypeOK
<1>1. PlaceInv => TypeOK
  BY DEF PlaceInv
<1> QED
  BY <1>1, PlaceInvariance, PTL

\* Only a confirmed request moves the user straight from one play to another.
THEOREM PlaceSwitchIsConfirmed == Spec => SwitchIsConfirmed
<1> DEFINE Confirmed ==
        place # Nowhere /\ place' # Nowhere
        /\ <<place'.session, place'.play>> # <<place.session, place.play>>
        => \E t \in Tasks : At(t, "take") /\ ~ (At(t, "take"))' /\ task[t].confirm
<1>1. PlaceInv /\ [Next]_vars => [Confirmed]_vars
  <2> SUFFICES ASSUME PlaceInv, Next, place # Nowhere, place' # Nowhere,
                      <<place'.session, place'.play>> # <<place.session, place.play>>
               PROVE  \E t \in Tasks : At(t, "take") /\ ~ (At(t, "take"))' /\ task[t].confirm
    OBVIOUS
  <2>1. place \in Place /\ TakesAreConfirmed
    BY DEF PlaceInv, TypeOK
  <2>2. ~ Heartbeat
    BY <2>1 DEF Heartbeat, Place
  <2>3. PICK t \in Tasks : Take(t)
    BY <2>2, PlaceShape
  <2>4. At(t, "take") /\ place'.session = task[t].session /\ place'.play = task[t].play
    BY <2>3 DEF Take
  <2>5. task[t].confirm
    BY <2>1, <2>4 DEF TakesAreConfirmed, Holds, In
  <2>6. task'[t].at # "take"
    BY <2>3, <2>4, TakesBegin DEF TakeLock, At
  <2> QED
    BY <2>4, <2>5, <2>6 DEF At
<1> QED
  BY <1>1, PlaceInvariance, PTL DEF Spec, SwitchIsConfirmed

\* The pass over stale places never removes one that has been renewed or replaced
\* since the pass selected it.
THEOREM PlaceKeptIfRenewed == Spec => CleanupKeepsRenewed
<1> DEFINE Kept == At(Timer, "remove") /\ ~ (At(Timer, "remove"))' /\ place' # place => Stale
<1>1. PlaceInv /\ [Next]_vars => [Kept]_vars
  <2> SUFFICES ASSUME PlaceInv, Next, At(Timer, "remove"), ~ (At(Timer, "remove"))',
                      place' # place
               PROVE  Stale
    OBVIOUS
  <2>1. Timer \in Actors /\ Timer \notin Tasks /\ Tasks \subseteq Actors
        /\ SelectedWasStale
    BY ActivePlayAssumption DEF PlaceInv, Actors
  <2>2. Cleanup
    <3>1. ASSUME NEW t \in Tasks, Request(t) \/ Step(t) PROVE task'[Timer] = task[Timer]
      BY <2>1, <3>1, RequestTurns, StepTurns, TurnsType
    <3> QED
      BY <3>1 DEF At, Next, Heartbeat, OpenLobby, Rejoin, Connect, Pass
  <2>3. Remove
    BY <2>2 DEF Cleanup, Select, Look, At
  <2>4. place = task[Timer].saw
    BY <2>3 DEF Remove
  <2> QED
    BY <2>1, <2>4 DEF SelectedWasStale, Stale
<1> QED
  BY <1>1, PlaceInvariance, PTL DEF Spec, CleanupKeepsRenewed
=============================================================================
