--------------------------- MODULE MembershipProofs ---------------------------
(***************************************************************************)
(* Proofs about Membership, for any finite number of users and any numbers *)
(* of requests, seats and plays.                                           *)
(***************************************************************************)
EXTENDS Membership, FiniteSetTheorems, TLAPS

\* Those who have come in otherwise than by resumeSession.
Admitted == Joined \ resumed

\* A request that is to set the seats names a number of them.
Sensible(x) == x.at = "seats" => x.seats \in 1..MaxSeats

\* An approval counts on no more seats than there have been.
SeatsWereOffered == \A t \in Tasks : At(t, "approve") => task[t].seats <= mostSeats

\* Whoever has passed the check under the lock finds a seat when he comes in:
\* meanwhile members go, or come back by resumeSession, and nobody else is let in.
SeatIsFree ==
    \A t \in Tasks : At(t, "enter") \/ At(t, "admit") => Cardinality(Admitted) < mostSeats

\* A play does not begin while somebody who joins holds the lock.
JoinersDelayPlay == \A t \in Tasks : At(t, "enter") => session.activity # "PLAYING"

SeatInv ==
    /\ TypeOK
    /\ \A t \in Tasks : Sensible(task[t])
    /\ SeatsWereOffered
    /\ SeatIsFree
    /\ JoinersDelayPlay
    /\ AdmissionsFit
-----------------------------------------------------------------------------
LEMMA IdleType == Idle \in Task /\ Sensible(Idle) /\ Idle.at = "idle"
BY MembershipAssumption DEF Idle, Task, Stages, Sensible

LEMMA ForType ==
    ASSUME NEW u \in Users, NEW stage \in Stages \ {"seats"}
    PROVE  For(u, stage) \in Task /\ Sensible(For(u, stage)) /\ For(u, stage).at = stage
BY IdleType DEF For, Task, Sensible

\* What becomes of t's own record; the others stay as they are.
Turns(t, x) == x \in Task /\ Sensible(x) /\ task' = [task EXCEPT ![t] = x]

LEMMA TurnsType ==
    ASSUME SeatInv, NEW t \in Tasks, NEW x, Turns(t, x)
    PROVE  /\ task' \in [Tasks -> Task]
           /\ \A u \in Tasks : Sensible(task'[u])
           /\ task'[t] = x
           /\ \A u \in Tasks \ {t} : task'[u] = task[u]
BY DEF Turns, SeatInv, TypeOK

\* A request that arrives has changed nothing yet.
LEMMA ReceiveTurns ==
    ASSUME SeatInv, NEW t \in Tasks, Receive(t)
    PROVE  /\ UNCHANGED <<session, row, lock, mostSeats, resumed>>
           /\ At(t, "idle")
           /\ \E x : /\ Turns(t, x)
                     /\ x.at \notin {"enter", "admit"}
                     /\ x.at = "approve" => x.seats = session.seats
<1>1. session \in Session /\ session.seats \in 1..MaxSeats /\ session.play \in 0..MaxPlay
      /\ MaxSeats \in Nat
  BY MembershipAssumption DEF SeatInv, TypeOK, Session
<1>2. UNCHANGED <<session, row, lock, mostSeats, resumed>> /\ At(t, "idle")
  BY DEF Receive, Join, Apply, Resolve, Leave, Restore, Select, Start, UpdateSession, Request
<1> DEFINE Good(x) == x \in Task /\ Sensible(x) /\ x.at \notin {"enter", "admit"}
                      /\ (x.at = "approve" => x.seats = session.seats)
<1>3. ASSUME NEW x, Good(x), Request(t, x)
      PROVE  \E y : Turns(t, y) /\ y.at \notin {"enter", "admit"}
                    /\ (y.at = "approve" => y.seats = session.seats)
  BY <1>3 DEF Request, Become, Turns
<1>4. \A u \in Users, stage \in {"join", "apply", "reject", "leave", "kick", "restore"} :
         Good(For(u, stage))
  BY ForType DEF Stages
<1>5. \A u \in Users : Good([For(u, "approve") EXCEPT !.seats = session.seats])
  <2> SUFFICES ASSUME NEW u \in Users
               PROVE  Good([For(u, "approve") EXCEPT !.seats = session.seats])
    OBVIOUS
  <2>1. For(u, "approve") \in Task /\ For(u, "approve").at = "approve"
        /\ session.seats \in 0..MaxSeats
    BY <1>1, ForType DEF Stages
  <2> QED
    BY <2>1 DEF Task, Sensible
<1>6. \A u \in Users, flag \in BOOLEAN : Good([For(u, "select") EXCEPT !.flag = flag])
  <2> SUFFICES ASSUME NEW u \in Users, NEW flag \in BOOLEAN
               PROVE  Good([For(u, "select") EXCEPT !.flag = flag])
    OBVIOUS
  <2>1. For(u, "select") \in Task /\ For(u, "select").at = "select"
    BY ForType DEF Stages
  <2> QED
    BY <2>1 DEF Task, Sensible
<1>7. Good([Idle EXCEPT !.at = "start", !.play = session.play])
  BY <1>1, IdleType DEF Task, Stages, Sensible
<1>8. \A seats \in 1..MaxSeats, flag \in BOOLEAN :
         Good([Idle EXCEPT !.at = "seats", !.flag = flag, !.seats = seats])
  <2> SUFFICES ASSUME NEW seats \in 1..MaxSeats, NEW flag \in BOOLEAN
               PROVE  Good([Idle EXCEPT !.at = "seats", !.flag = flag, !.seats = seats])
    OBVIOUS
  <2>1. seats \in 0..MaxSeats
    BY <1>1
  <2> QED
    BY <2>1, IdleType DEF Task, Stages, Sensible
<1>9. \E x : Good(x) /\ Request(t, x)
  <2> HIDE DEF Good
  <2>1. CASE \E u \in Users : Join(t, u) \/ Apply(t, u) \/ Leave(t, u) \/ Restore(t, u)
    BY <1>4, <2>1 DEF Join, Apply, Leave, Restore
  <2>2. CASE \E u \in Users : Resolve(t, u)
    BY <1>4, <1>5, <2>2 DEF Resolve
  <2>3. CASE \E u \in Users, flag \in BOOLEAN : Select(t, u, flag)
    BY <1>6, <2>3 DEF Select
  <2>4. CASE Start(t)
    BY <1>7, <2>4 DEF Start
  <2>5. CASE \E flag \in BOOLEAN : UpdateSession(t, flag)
    BY <1>1, <1>8, <2>5 DEF UpdateSession
  <2> QED
    BY <2>1, <2>2, <2>3, <2>4, <2>5 DEF Receive
<1> QED
  BY <1>2, <1>3, <1>9

\* A request's checks under the lock are the only way to "enter" and "admit".
LEMMA StepTurns ==
    ASSUME SeatInv, NEW t \in Tasks, Step(t)
    PROVE  \E x : /\ Turns(t, x)
                  /\ x.at \in {"idle", "enter", "admit"}
                  /\ x.at = "enter" => CheckJoin(t) /\ MayJoin(t)
                  /\ x.at = "admit" => CheckApproval(t) /\ Fits(task[t].seats)
<1> DEFINE self == task[t]
<1>1. self \in Task
  BY DEF SeatInv, TypeOK
<1>2. Finish(t) => Turns(t, Idle) /\ Idle.at = "idle"
  BY IdleType DEF Finish, Become, Turns
<1>3. \A stage \in {"enter", "admit"} :
         Become(t, [self EXCEPT !.at = stage])
         => Turns(t, [self EXCEPT !.at = stage]) /\ [self EXCEPT !.at = stage].at = stage
  BY <1>1 DEF Become, Turns, Task, Stages, Sensible
<1>4. CASE CheckJoin(t)
  <2>1. Finish(t) \/ (MayJoin(t) /\ Become(t, [self EXCEPT !.at = "enter"]))
    BY <1>4 DEF CheckJoin
  <2> QED
    BY <1>2, <1>3, <1>4, <2>1
<1>5. CASE CheckApproval(t)
  <2>1. Finish(t) \/ (Fits(self.seats) /\ Become(t, [self EXCEPT !.at = "admit"]))
    BY <1>5 DEF CheckApproval
  <2> QED
    BY <1>2, <1>3, <1>5, <2>1
<1>6. CASE ~ CheckJoin(t) /\ ~ CheckApproval(t)
  <2>1. Finish(t)
    BY <1>6 DEF Step, Enter, WriteApplication, Admit, Reject, Gone, Restored, Selected,
                Started, Begin, Updated, Do
  <2> QED
    BY <1>2, <2>1
<1> QED
  BY <1>4, <1>5, <1>6
-----------------------------------------------------------------------------
\* The lock is held by exactly the request between its check and its commit.
LEMMA LockFollows ==
    ASSUME SeatInv, Next
    PROVE  /\ lock' \in Tasks \cup {None}
           /\ \A u \in Tasks : (lock' = u) <=> (task'[u].at \in {"enter", "admit"})
<1>1. /\ lock \in Tasks \cup {None} /\ None \notin Tasks /\ task \in [Tasks -> Task]
      /\ \A u \in Tasks : (lock = u) <=> (task[u].at \in {"enter", "admit"})
  BY MembershipAssumption DEF SeatInv, TypeOK
<1>2. ASSUME NEW t \in Tasks, Receive(t)
      PROVE  /\ lock' \in Tasks \cup {None}
             /\ \A u \in Tasks : (lock' = u) <=> (task'[u].at \in {"enter", "admit"})
  BY <1>1, <1>2, ReceiveTurns, TurnsType DEF At
<1>3. ASSUME NEW t \in Tasks, Step(t)
      PROVE  /\ lock' \in Tasks \cup {None}
             /\ \A u \in Tasks : (lock' = u) <=> (task'[u].at \in {"enter", "admit"})
  <2>1. PICK x : /\ Turns(t, x)
                 /\ x.at \in {"idle", "enter", "admit"}
                 /\ x.at = "enter" => CheckJoin(t) /\ MayJoin(t)
                 /\ x.at = "admit" => CheckApproval(t) /\ Fits(task[t].seats)
    BY <1>3, StepTurns
  <2>2. task'[t] = x /\ \A u \in Tasks \ {t} : task'[u] = task[u]
    BY <2>1, TurnsType
  <2>3. CASE CheckJoin(t)
    <3>1. lock = None /\ task[t].at = "join"
          /\ (\/ Finish(t) /\ lock' = lock
              \/ Become(t, [task[t] EXCEPT !.at = "enter"]) /\ lock' = t)
      BY <2>3 DEF CheckJoin, At
    <3>2. CASE Finish(t) /\ lock' = lock
      <4>1. task'[t].at = "idle"
        BY <1>1, <3>2, IdleType DEF Finish, Become
      <4> QED
        BY <1>1, <2>2, <3>1, <3>2, <4>1
    <3>3. CASE Become(t, [task[t] EXCEPT !.at = "enter"]) /\ lock' = t
      <4>1. task'[t].at = "enter"
        BY <1>1, <3>3 DEF Become, Task
      <4> QED
        BY <1>1, <2>2, <3>1, <3>3, <4>1
    <3> QED
      BY <3>1, <3>2, <3>3
  <2>4. CASE CheckApproval(t)
    <3>1. lock = None /\ task[t].at = "approve"
          /\ (\/ Finish(t) /\ lock' = lock
              \/ Become(t, [task[t] EXCEPT !.at = "admit"]) /\ lock' = t)
      BY <2>4 DEF CheckApproval, At
    <3>2. CASE Finish(t) /\ lock' = lock
      <4>1. task'[t].at = "idle"
        BY <1>1, <3>2, IdleType DEF Finish, Become
      <4> QED
        BY <1>1, <2>2, <3>1, <3>2, <4>1
    <3>3. CASE Become(t, [task[t] EXCEPT !.at = "admit"]) /\ lock' = t
      <4>1. task'[t].at = "admit"
        BY <1>1, <3>3 DEF Become, Task
      <4> QED
        BY <1>1, <2>2, <3>1, <3>3, <4>1
    <3> QED
      BY <3>1, <3>2, <3>3
  <2>5. CASE Enter(t) \/ Admit(t)
    <3>1. task[t].at \in {"enter", "admit"}
      BY <2>5 DEF Enter, Admit, Do, At
    <3>2. lock = t /\ lock' = None
      BY <1>1, <2>5, <3>1 DEF Enter, Admit
    <3>3. x.at = "idle"
      BY <2>1, <3>1 DEF CheckJoin, CheckApproval, At
    <3> QED
      BY <1>1, <2>2, <3>2, <3>3
  <2>6. CASE ~ CheckJoin(t) /\ ~ CheckApproval(t) /\ ~ Enter(t) /\ ~ Admit(t)
    <3>1. lock' = lock /\ task[t].at \notin {"enter", "admit"}
      BY <1>3, <2>6 DEF Step, WriteApplication, Reject, Gone, Going, Restored, Selected, Started,
                  Begin, Updated, Do, At
    <3> QED
      BY <1>1, <2>1, <2>2, <2>6, <3>1
  <2> QED
    BY <2>3, <2>4, <2>5, <2>6
<1>4. CASE lock' = lock /\ task' = task
  BY <1>1, <1>4
<1> QED
  BY <1>2, <1>3, <1>4 DEF Next, Resume, OpenLobby, FinishPlay

\* The rows keep their types.
LEMMA RowsTyped ==
    ASSUME SeatInv, Next
    PROVE  /\ session' \in Session
           /\ row' \in [Users -> Row]
           /\ mostSeats' \in session'.seats..MaxSeats
           /\ mostSeats <= mostSeats'
<1>1. /\ session \in Session /\ row \in [Users -> Row] /\ mostSeats \in session.seats..MaxSeats
      /\ task \in [Tasks -> Task] /\ MaxSeats \in Nat /\ MaxPlay \in Nat
      /\ session.seats \in 1..MaxSeats /\ session.play \in 0..MaxPlay
  BY MembershipAssumption DEF SeatInv, TypeOK, Session
<1>2. mostSeats \in Nat /\ mostSeats <= MaxSeats /\ session.seats <= mostSeats
  BY <1>1
<1>3. ASSUME NEW u, NEW x, u \in Users => x \in Row, Write(u, x)
      PROVE  row' \in [Users -> Row]
  BY <1>1, <1>3 DEF Write
<1>4. \A u \in Users : row[u] \in Row
  BY <1>1
<1>5. \A u \in Users, status \in {"JOINED", "LEFT", "KICKED"} :
         [row[u] EXCEPT !.status = status] \in Row
  BY <1>4 DEF Row
<1>6. ASSUME NEW u, NEW status \in {"JOINED", "LEFT", "KICKED"}, WriteStatus(u, status)
      PROVE  row' \in [Users -> Row]
  BY <1>3, <1>5, <1>6 DEF WriteStatus
<1>7. ASSUME NEW t \in Tasks, Updated(t)
      PROVE  /\ session' \in Session /\ row' = row
             /\ mostSeats' \in session'.seats..MaxSeats /\ mostSeats <= mostSeats'
  <2> DEFINE seats == task[t].seats
  <2>1. seats \in 1..MaxSeats
    BY <1>7 DEF Updated, Do, At, SeatInv, Sensible
  <2>2. CASE session' = [session EXCEPT !.seats = seats]
             /\ mostSeats' = (IF seats > mostSeats THEN seats ELSE mostSeats)
    <3>1. session' \in Session /\ session'.seats = seats
      BY <1>1, <2>1, <2>2 DEF Session
    <3>2. mostSeats' \in seats..MaxSeats /\ mostSeats <= mostSeats'
      BY <1>1, <1>2, <2>1, <2>2
    <3> QED
      BY <1>7, <3>1, <3>2 DEF Updated
  <2>3. CASE UNCHANGED <<session, mostSeats>>
    BY <1>1, <1>2, <1>7, <2>3 DEF Updated
  <2> QED
    BY <1>7, <2>2, <2>3 DEF Updated
<1>8. ASSUME NEW t \in Tasks, Step(t), ~ Updated(t)
      PROVE  session' \in Session /\ row' \in [Users -> Row]
             /\ session'.seats = session.seats /\ mostSeats' = mostSeats
  <2>1. CASE Enter(t)
    BY <1>1, <1>6, <2>1 DEF Enter
  <2>2. CASE WriteApplication(t)
    <3>1. \A u \in Users : [row[u] EXCEPT !.application = "PENDING"] \in Row
      BY <1>4 DEF Row
    <3> QED
      BY <1>1, <1>3, <2>2, <3>1 DEF WriteApplication
  <2>3. CASE Admit(t)
    <3>1. \A u \in Users : [row[u] EXCEPT !.status = "JOINED", !.application = "APPROVED"] \in Row
      BY <1>4 DEF Row
    <3> QED
      BY <1>1, <1>3, <2>3, <3>1 DEF Admit
  <2>4. CASE Reject(t)
    <3>1. \A u \in Users : [row[u] EXCEPT !.application = "REJECTED"] \in Row
      BY <1>4 DEF Row
    <3> QED
      BY <1>1, <1>3, <2>4, <3>1 DEF Reject
  <2>5. CASE Gone(t)
    <3>1. PICK stage \in DOMAIN Going :
             Write(User(t), [row[User(t)] EXCEPT !.status = Going[stage], !.hero = FALSE])
      BY <2>5 DEF Gone
    <3>2. Going[stage] \in {"LEFT", "KICKED"}
      BY DEF Going
    <3>3. \A u \in Users : [row[u] EXCEPT !.status = Going[stage], !.hero = FALSE] \in Row
      BY <1>4, <3>2 DEF Row
    <3> QED
      BY <1>1, <1>3, <2>5, <3>1, <3>3 DEF Gone
  <2>6. CASE Restored(t)
    BY <1>1, <1>6, <2>6 DEF Restored
  <2>7. CASE Selected(t)
    <3>1. task[t].flag \in BOOLEAN
      BY <1>1 DEF Task
    <3>2. \A u \in Users : [row[u] EXCEPT !.hero = task[t].flag] \in Row
      BY <1>4, <3>1 DEF Row
    <3> QED
      BY <1>1, <1>3, <2>7, <3>2 DEF Selected
  <2>8. CASE Started(t)
    BY <1>1, <2>8 DEF Started, Begin, Session
  <2> QED
    BY <1>1, <1>8, <2>1, <2>2, <2>3, <2>4, <2>5, <2>6, <2>7, <2>8
    DEF Step, CheckJoin, CheckApproval
<1>9. ASSUME NEW u \in Users, Resume(u)
      PROVE  session' = session /\ row' \in [Users -> Row] /\ mostSeats' = mostSeats
  BY <1>6, <1>9 DEF Resume
<1>10. CASE OpenLobby \/ FinishPlay
  <2>1. session' \in Session /\ session'.seats = session.seats
    <3>1. CASE OpenLobby
      <4>1. session.play + 1 \in 0..MaxPlay
        BY <1>1, <3>1 DEF OpenLobby
      <4> QED
        BY <1>1, <3>1, <4>1 DEF OpenLobby, Session
    <3>2. CASE FinishPlay
      BY <1>1, <3>2 DEF FinishPlay, Session
    <3> QED
      BY <1>10, <3>1, <3>2
  <2> QED
    BY <1>1, <1>2, <1>10, <2>1 DEF OpenLobby, FinishPlay
<1>11. ASSUME NEW t \in Tasks, Receive(t) PROVE UNCHANGED <<session, row, mostSeats>>
  BY <1>11, ReceiveTurns
<1> QED
  BY <1>1, <1>2, <1>7, <1>8, <1>9, <1>10, <1>11 DEF Next
-----------------------------------------------------------------------------
\* Only a request with the lock adds somebody who has not been resumed, and it
\* adds its own user.
LEMMA AdmittedShape ==
    ASSUME SeatInv, Next
    PROVE  /\ resumed' \subseteq Joined'
           /\ \/ Admitted' \subseteq Admitted
              \/ \E t \in Tasks : /\ Enter(t) \/ Admit(t)
                                  /\ Admitted' \subseteq Admitted \cup {User(t)}
<1>1. /\ row \in [Users -> Row] /\ resumed \subseteq Joined
      /\ Joined = {u \in Users : row[u].status = "JOINED"}
      /\ Joined' = {u \in Users : row'[u].status = "JOINED"}
  BY DEF SeatInv, TypeOK, Joined
<1>2. ASSUME NEW v, NEW x, Write(v, x)
      PROVE  /\ \A u \in Users \ {v} : u \in Joined' <=> u \in Joined
             /\ v \in Users => (v \in Joined' <=> x.status = "JOINED")
  BY <1>1, <1>2 DEF Write
<1>3. ASSUME NEW v, NEW x, Write(v, x), v \in Users => x.status = row[v].status
      PROVE  Joined' = Joined
  BY <1>1, <1>2, <1>3
<1>4. CASE Joined' = Joined /\ resumed' = resumed
  BY <1>1, <1>4 DEF Admitted
<1>5. \A v \in Users : row[v] \in Row
  BY <1>1
<1>6. ASSUME NEW t \in Tasks, Enter(t) \/ Admit(t)
      PROVE  resumed' \subseteq Joined' /\ Admitted' \subseteq Admitted \cup {User(t)}
  <2>1. /\ resumed' = resumed
        /\ \/ Write(User(t), [row[User(t)] EXCEPT !.status = "JOINED"])
           \/ Write(User(t), [row[User(t)] EXCEPT !.status = "JOINED", !.application = "APPROVED"])
    BY <1>6 DEF Enter, Admit, WriteStatus
  <2>2. User(t) \in Users =>
           /\ [row[User(t)] EXCEPT !.status = "JOINED"].status = "JOINED"
           /\ [row[User(t)] EXCEPT !.status = "JOINED", !.application = "APPROVED"].status = "JOINED"
    BY <1>5 DEF Row
  <2>3. Joined \subseteq Joined' /\ Joined' \subseteq Joined \cup {User(t)}
    BY <1>1, <1>2, <2>1, <2>2
  <2> QED
    BY <1>1, <2>1, <2>3 DEF Admitted
<1>7. ASSUME NEW t \in Tasks, Gone(t) \/ Restored(t)
      PROVE  resumed' \subseteq Joined' /\ Admitted' \subseteq Admitted
  <2>1. resumed' = resumed \ {User(t)}
    BY <1>7 DEF Gone, Restored
  <2>2. \E x : Write(User(t), x) /\ (User(t) \in Users => x.status # "JOINED")
    <3>1. CASE Restored(t)
      <4>1. User(t) \in Users => [row[User(t)] EXCEPT !.status = "LEFT"].status = "LEFT"
        BY <1>5 DEF Row
      <4> QED
        BY <3>1, <4>1 DEF Restored, WriteStatus
    <3>2. CASE Gone(t)
      <4>1. PICK stage \in DOMAIN Going :
               Write(User(t), [row[User(t)] EXCEPT !.status = Going[stage], !.hero = FALSE])
        BY <3>2 DEF Gone
      <4>2. Going[stage] # "JOINED"
        BY DEF Going
      <4>3. User(t) \in Users =>
               [row[User(t)] EXCEPT !.status = Going[stage], !.hero = FALSE].status
               = Going[stage]
        BY <1>5 DEF Row
      <4> QED
        BY <4>1, <4>2, <4>3
    <3> QED
      BY <1>7, <3>1, <3>2
  <2>3. Joined' = Joined \ {User(t)}
    <3>1. PICK x : Write(User(t), x) /\ (User(t) \in Users => x.status # "JOINED")
      BY <2>2
    <3>2. Joined \subseteq Users /\ Joined' \subseteq Users
      BY <1>1
    <3> QED
      BY <1>2, <3>1, <3>2
  <2> QED
    BY <1>1, <2>1, <2>3 DEF Admitted
<1>8. ASSUME NEW t \in Tasks, WriteApplication(t) \/ Reject(t) \/ Selected(t)
      PROVE  Joined' = Joined /\ resumed' = resumed
  <2>1. /\ resumed' = resumed
        /\ \/ Write(User(t), [row[User(t)] EXCEPT !.application = "PENDING"])
           \/ Write(User(t), [row[User(t)] EXCEPT !.application = "REJECTED"])
           \/ Write(User(t), [row[User(t)] EXCEPT !.hero = task[t].flag])
    BY <1>8 DEF WriteApplication, Reject, Selected
  <2> QED
    BY <1>3, <1>5, <2>1 DEF Row
<1>9. ASSUME NEW u \in Users, Resume(u)
      PROVE  resumed' \subseteq Joined' /\ Admitted' \subseteq Admitted
  <2>1. Write(u, [row[u] EXCEPT !.status = "JOINED"])
        /\ resumed' = IF u \in Joined THEN resumed ELSE resumed \cup {u}
    BY <1>9 DEF Resume, WriteStatus
  <2>2. [row[u] EXCEPT !.status = "JOINED"].status = "JOINED"
    BY <1>5 DEF Row
  <2>3. Joined' = Joined \cup {u}
    BY <1>1, <1>2, <2>1, <2>2
  <2> QED
    BY <1>1, <2>1, <2>3 DEF Admitted
<1>10. CASE row' = row /\ resumed' = resumed
  BY <1>1, <1>4, <1>10
<1>11. ASSUME NEW t \in Tasks, Receive(t) PROVE row' = row /\ resumed' = resumed
  BY <1>11, ReceiveTurns
<1>12. ASSUME NEW t \in Tasks, Step(t)
       PROVE  \/ row' = row /\ resumed' = resumed
              \/ Joined' = Joined /\ resumed' = resumed
              \/ Enter(t) \/ Admit(t) \/ Gone(t) \/ Restored(t)
  BY <1>8, <1>12 DEF Step, CheckJoin, CheckApproval, Started, Begin, Updated
<1> QED
  BY <1>4, <1>6, <1>7, <1>9, <1>10, <1>11, <1>12 DEF Next, OpenLobby, FinishPlay

\* What a request that comes to "enter" or "admit", or stays there, has found.
LEMMA StaysOrChecks ==
    ASSUME SeatInv, Next, NEW t \in Tasks, task'[t].at \in {"enter", "admit"}
    PROVE  /\ ~ \E u \in Tasks : Enter(u) \/ Admit(u)
           /\ \/ task'[t] = task[t]
              \/ task'[t].at = "enter" /\ CheckJoin(t) /\ MayJoin(t)
              \/ task'[t].at = "admit" /\ CheckApproval(t) /\ Fits(task[t].seats)
<1>1. /\ None \notin Tasks
      /\ \A u \in Tasks : (lock = u) <=> (task[u].at \in {"enter", "admit"})
  BY MembershipAssumption DEF SeatInv, TypeOK
<1>2. \/ task'[t] = task[t]
      \/ task'[t].at = "enter" /\ CheckJoin(t) /\ MayJoin(t)
      \/ task'[t].at = "admit" /\ CheckApproval(t) /\ Fits(task[t].seats)
  <2>1. ASSUME NEW u \in Tasks, Receive(u) PROVE task'[t] = task[t]
    BY <2>1, ReceiveTurns, TurnsType
  <2>2. ASSUME NEW u \in Tasks, Step(u), u # t PROVE task'[t] = task[t]
    BY <2>2, StepTurns, TurnsType
  <2>3. CASE Step(t)
    <3>1. PICK x : /\ Turns(t, x)
                   /\ x.at = "enter" => CheckJoin(t) /\ MayJoin(t)
                   /\ x.at = "admit" => CheckApproval(t) /\ Fits(task[t].seats)
      BY <2>3, StepTurns
    <3> QED
      BY <3>1, TurnsType
  <2>4. CASE task' = task
    BY <2>4
  <2> QED
    BY <2>1, <2>2, <2>3, <2>4 DEF Next, Resume, OpenLobby, FinishPlay
<1>3. ASSUME NEW u \in Tasks, Enter(u) \/ Admit(u) PROVE FALSE
  <2>1. task[u].at \in {"enter", "admit"}
    BY <1>3 DEF Enter, Admit, Do, At
  <2>2. lock = u /\ lock' = None
    BY <1>1, <1>3, <2>1 DEF Enter, Admit
  <2> QED
    BY <1>1, <2>2, LockFollows
<1> QED
  BY <1>2, <1>3
-----------------------------------------------------------------------------
LEMMA InitSeatInv == Init => SeatInv
<1> SUFFICES ASSUME Init PROVE SeatInv
  OBVIOUS
<1>1. \A t \in Tasks : task[t] = Idle /\ lock # t
  BY MembershipAssumption DEF Init
<1>2. Joined = {} /\ resumed = {}
  BY DEF Init, Joined, Absent
<1>3. TypeOK
  <2>1. session \in Session /\ row \in [Users -> Row] /\ mostSeats \in session.seats..MaxSeats
    BY MembershipAssumption DEF Init, Session, Row, Absent
  <2> QED
    BY <1>1, <1>2, <2>1, IdleType DEF Init, TypeOK
<1>4. AdmissionsFit
  BY <1>2, FS_EmptySet DEF AdmissionsFit, Init
<1> QED
  BY <1>1, <1>3, <1>4, IdleType
  DEF SeatInv, SeatsWereOffered, SeatIsFree, JoinersDelayPlay, At

\* Every step keeps the invariant.
LEMMA NextSeatInv == SeatInv /\ [Next]_vars => SeatInv'
<1> SUFFICES ASSUME SeatInv, [Next]_vars PROVE SeatInv'
  OBVIOUS
<1>1. /\ TypeOK /\ SeatsWereOffered /\ SeatIsFree /\ JoinersDelayPlay /\ AdmissionsFit
      /\ task \in [Tasks -> Task] /\ \A t \in Tasks : Sensible(task[t])
      /\ MaxSeats \in Nat /\ session.seats \in Nat /\ mostSeats \in Nat
      /\ session.seats <= mostSeats
  <2>1. session.seats \in 1..MaxSeats /\ mostSeats \in session.seats..MaxSeats /\ MaxSeats \in Nat
    BY MembershipAssumption DEF SeatInv, TypeOK, Session
  <2> QED
    BY <2>1 DEF SeatInv, TypeOK
<1>2. /\ IsFiniteSet(Joined) /\ IsFiniteSet(Admitted)
      /\ Cardinality(Admitted) \in Nat /\ Cardinality(Joined) \in Nat
      /\ Cardinality(Admitted) <= Cardinality(Joined)
  <2>1. IsFiniteSet(Joined)
    BY FS_Subset, MembershipAssumption DEF Joined
  <2> QED
    BY <2>1, FS_Subset, FS_CardinalityType DEF Admitted
<1>3. CASE Next
  <2>1. task' \in [Tasks -> Task] /\ \A t \in Tasks : Sensible(task'[t])
    <3>1. task' = task \/ \E t \in Tasks : \E x : Turns(t, x)
      BY <1>3, ReceiveTurns, StepTurns DEF Next, Resume, OpenLobby, FinishPlay
    <3> QED
      BY <1>1, <3>1, TurnsType
  <2>2. TypeOK'
    BY <1>3, <2>1, RowsTyped, LockFollows, AdmittedShape DEF TypeOK
  <2>3. mostSeats' \in Nat /\ mostSeats <= mostSeats'
    <3>1. session'.seats \in 1..MaxSeats /\ mostSeats' \in session'.seats..MaxSeats
      BY <1>3, RowsTyped DEF Session
    <3> QED
      BY <1>1, <1>3, <3>1, RowsTyped
  <2>4. SeatsWereOffered'
    <3> SUFFICES ASSUME NEW t \in Tasks, task'[t].at = "approve"
                 PROVE  task'[t].seats <= mostSeats'
      BY DEF SeatsWereOffered, At
    <3>1. task'[t] = task[t] \/ (task'[t].seats = session.seats)
      <4>1. ASSUME NEW u \in Tasks, Receive(u)
            PROVE  task'[t] = task[t] \/ task'[t].seats = session.seats
        BY <4>1, ReceiveTurns, TurnsType
      <4>2. ASSUME NEW u \in Tasks, Step(u) PROVE task'[t] = task[t]
        BY <4>2, StepTurns, TurnsType
      <4>3. CASE task' = task
        BY <4>3
      <4> QED
        BY <1>3, <4>1, <4>2, <4>3 DEF Next, Resume, OpenLobby, FinishPlay
    <3>2. task[t].seats \in Nat
      BY <1>1 DEF Task
    <3> QED
      BY <1>1, <2>3, <3>1, <3>2 DEF SeatsWereOffered, At
  <2>5. SeatIsFree'
    <3> SUFFICES ASSUME NEW t \in Tasks, task'[t].at \in {"enter", "admit"}
                 PROVE  Cardinality(Admitted') < mostSeats'
      BY DEF SeatIsFree, At
    <3>1. Admitted' \subseteq Admitted
      BY <1>3, StaysOrChecks, AdmittedShape
    <3>2. Cardinality(Admitted') \in Nat /\ Cardinality(Admitted') <= Cardinality(Admitted)
      BY <1>2, <3>1, FS_Subset, FS_CardinalityType
    <3>3. Cardinality(Admitted) < mostSeats
      <4>1. CASE task'[t] = task[t]
        BY <1>1, <4>1 DEF SeatIsFree, At
      <4>2. CASE MayJoin(t)
        BY <1>1, <1>2, <4>2 DEF MayJoin, Fits
      <4>3. CASE CheckApproval(t) /\ Fits(task[t].seats)
        <5>1. task[t].seats \in Nat /\ task[t].seats <= mostSeats
          BY <1>1, <4>3 DEF Task, CheckApproval, SeatsWereOffered
        <5> QED
          BY <1>1, <1>2, <4>3, <5>1 DEF Fits
      <4> QED
        BY <1>3, <4>1, <4>2, <4>3, StaysOrChecks
    <3> QED
      BY <1>1, <1>2, <2>3, <3>2, <3>3
  <2>6. JoinersDelayPlay'
    <3> SUFFICES ASSUME NEW t \in Tasks, task'[t].at = "enter"
                 PROVE  session'.activity # "PLAYING"
      BY DEF JoinersDelayPlay, At
    <3>1. CASE CheckJoin(t) /\ MayJoin(t)
      BY <3>1 DEF CheckJoin, MayJoin
    <3>2. CASE task'[t] = task[t]
      <4>1. lock = t /\ t # None /\ session.activity # "PLAYING" /\ session \in Session
        BY <1>1, <3>2, MembershipAssumption DEF TypeOK, JoinersDelayPlay, At
      <4> QED
        BY <1>3, <4>1, ReceiveTurns
        DEF Next, Step, CheckJoin, Enter, WriteApplication, CheckApproval, Admit, Reject, Gone,
            Restored, Selected, Started, Updated, Resume, OpenLobby, FinishPlay
    <3> QED
      BY <1>3, <3>1, <3>2, StaysOrChecks
  <2>7. AdmissionsFit'
    <3>1. CASE Admitted' \subseteq Admitted
      <4>1. Cardinality(Admitted') \in Nat /\ Cardinality(Admitted') <= Cardinality(Admitted)
        BY <1>2, <3>1, FS_Subset, FS_CardinalityType
      <4> QED
        BY <1>1, <1>2, <2>3, <4>1 DEF AdmissionsFit, Admitted
    <3>2. ASSUME NEW t \in Tasks, Enter(t) \/ Admit(t),
                 Admitted' \subseteq Admitted \cup {User(t)}
          PROVE  AdmissionsFit'
      <4>1. Cardinality(Admitted) < mostSeats
        BY <1>1, <3>2 DEF Enter, Admit, Do, SeatIsFree
      <4>2. /\ IsFiniteSet(Admitted \cup {User(t)})
            /\ Cardinality(Admitted \cup {User(t)}) \in Nat
            /\ Cardinality(Admitted \cup {User(t)}) <= Cardinality(Admitted) + 1
        <5>1. /\ IsFiniteSet(Admitted \cup {User(t)})
              /\ \/ Cardinality(Admitted \cup {User(t)}) = Cardinality(Admitted)
                 \/ Cardinality(Admitted \cup {User(t)}) = Cardinality(Admitted) + 1
          BY <1>2, FS_AddElement
        <5> QED
          BY <1>2, <5>1
      <4>3. Cardinality(Admitted') \in Nat
            /\ Cardinality(Admitted') <= Cardinality(Admitted \cup {User(t)})
        BY <3>2, <4>2, FS_Subset, FS_CardinalityType
      <4>4. Cardinality(Admitted') <= mostSeats'
        BY <1>1, <1>2, <2>3, <4>1, <4>2, <4>3
      <4> QED
        BY <4>4 DEF AdmissionsFit, Admitted
    <3> QED
      BY <1>3, <3>1, <3>2, AdmittedShape
  <2> QED
    BY <2>1, <2>2, <2>4, <2>5, <2>6, <2>7 DEF SeatInv
<1>4. CASE UNCHANGED vars
  BY <1>4 DEF vars, SeatInv, TypeOK, Joined, Admitted, SeatsWereOffered, SeatIsFree,
              JoinersDelayPlay, AdmissionsFit, At
<1> QED
  BY <1>3, <1>4

LEMMA SeatInvariance == Spec => []SeatInv
BY InitSeatInv, NextSeatInv, PTL DEF Spec
-----------------------------------------------------------------------------
\* Every variable has its type, and the lock is held exactly by the request that
\* is letting somebody in.
THEOREM SeatTypes == Spec => []TypeOK
<1>1. SeatInv => TypeOK
  BY DEF SeatInv
<1> QED
  BY <1>1, SeatInvariance, PTL

\* Joins and approvals never let in more than the seats the host has offered.
THEOREM SeatsAreEnough == Spec => []AdmissionsFit
<1>1. SeatInv => AdmissionsFit
  BY DEF SeatInv
<1> QED
  BY <1>1, SeatInvariance, PTL

\* Nobody joins while a play goes on, whenever it has started.
THEOREM SeatsFillBeforePlay == Spec => NobodyJoinsOngoingPlay
<1> DEFINE Idly == \A t \in Tasks : At(t, "enter") /\ ~ (At(t, "enter"))'
                                    => session.activity # "PLAYING"
<1>1. SeatInv => Idly
  BY DEF SeatInv, JoinersDelayPlay
<1> QED
  BY <1>1, SeatInvariance, PTL DEF Spec, NobodyJoinsOngoingPlay
=============================================================================
