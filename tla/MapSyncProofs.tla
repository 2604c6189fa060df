----------------------------- MODULE MapSyncProofs -----------------------------
(***************************************************************************)
(* Proofs about MapSync, for any numbers of token moves, combats and lost  *)
(* connections.                                                            *)
(***************************************************************************)
EXTENDS MapSync, MapStoreProofs, SequenceTheorems

\* The versions anybody can have heard of: none from the future, until a combat
\* has set the version back.
Heard == IF combat THEN Nat ELSE 0..version

Messages == {MapEvent} \cup {Snapshot(v) : v \in Heard}

\* What is on its way, in the sockets and in the server's hands.
OnTheWay ==
    /\ inbox \in Seq(Messages)
    /\ building \in Seq(Heard)
    /\ browser.version \in Heard
    /\ \A t \in Tasks : task[t].at \in {"saved", "shot", "emit"} => task[t].version \in Heard
    /\ \A t \in Tasks : At(t, "new") => t \in Mine

\* The answer of a GET that was sent for the newest version is the newest map.
AnswerIsNewest ==
    browser.version = version /\ browser.load = "row" /\ ~ combat => browser.answer = row

Base ==
    /\ StoreTypeOK
    /\ browser \in Browser
    /\ asks \in Nat
    /\ losses \in 0..MaxLosses
    /\ browser.link = "off" => inbox = <<>> /\ asks = 0 /\ building = <<>>

SyncInv == Base /\ OnTheWay /\ AnswerIsNewest /\ InSync
-----------------------------------------------------------------------------
LEMMA SyncInvTypes == SyncInv => TypeOK
<1> SUFFICES ASSUME SyncInv PROVE TypeOK
  OBVIOUS
<1>1. Base /\ OnTheWay
  BY DEF SyncInv
<1>2. \A m \in Messages : m.kind \in {"map", "snapshot"}
  BY DEF Messages, MapEvent, Snapshot
<1>3. \A i \in DOMAIN inbox : inbox[i] \in Messages
  BY <1>1, ElementOfSeq, LenProperties DEF OnTheWay
<1>4. \A i \in DOMAIN building : building[i] \in Nat
  <2>1. \A i \in DOMAIN building : building[i] \in Heard
    BY <1>1, ElementOfSeq, LenProperties DEF OnTheWay
  <2>2. Heard \subseteq Nat
    BY <1>1 DEF Heard, Base, StoreTypeOK
  <2> QED
    BY <2>1, <2>2
<1> QED
  BY <1>1, <1>2, <1>3, <1>4 DEF TypeOK, Base

\* What has been heard of stays so.
LEMMA HeardGrows ==
    ASSUME version \in Nat, version' \in Nat, combat' \in BOOLEAN,
           combat' \/ (~ combat /\ version <= version')
    PROVE  /\ Heard \subseteq Heard'
           /\ Seq(Heard) \subseteq Seq(Heard')
           /\ Seq(Messages) \subseteq Seq(Messages')
<1>1. Heard \subseteq Heard'
  BY DEF Heard
<1>2. Messages \subseteq Messages'
  BY <1>1 DEF Messages
<1> QED
  BY <1>1, <1>2, SeqMonotonic

\* A step of the store, which the browser does not see.
LEMMA StoreStepKeeps ==
    ASSUME SyncInv, NEW t \in Tasks, StoreStep(t), UNCHANGED browserVars
    PROVE  SyncInv'
<1>1. Base /\ OnTheWay /\ AnswerIsNewest /\ InSync /\ StoreTypeOK /\ version \in Nat
      /\ combat \in BOOLEAN /\ browser \in Browser
  BY DEF SyncInv, Base, StoreTypeOK
<1>2. /\ version' \in Nat /\ combat' \in BOOLEAN /\ task' \in [Tasks -> Task]
      /\ \A u \in Tasks \ {t} : task'[u] = task[u]
  BY <1>1, StoreStepType
<1>3. \/ version' = version /\ row' = row /\ combat' = combat
      \/ version' = version + 1 /\ task'[t].at = "saved" /\ combat' = combat
      \/ combat' = TRUE
  BY <1>1, StoreShape
<1>4. Heard \subseteq Heard' /\ Seq(Heard) \subseteq Seq(Heard')
      /\ Seq(Messages) \subseteq Seq(Messages')
  BY <1>1, <1>2, <1>3, HeardGrows
<1>5. /\ browser' = browser /\ inbox' = inbox /\ asks' = asks /\ building' = building
      /\ losses' = losses
  BY DEF browserVars
<1>6. Base'
  <2>1. StoreTypeOK'
    BY <1>1, StoreStepType, LockKept DEF StoreTypeOK
  <2> QED
    BY <1>1, <1>5, <2>1 DEF Base
<1>7. OnTheWay'
  <2>1. task'[t].at \in {"saved", "shot", "emit"} => task'[t].version \in Heard'
    <3>1. task \in [Tasks -> Task] /\ task'[t].version \in Nat
      BY <1>1, <1>2 DEF StoreTypeOK, Task
    <3>2. CASE combat'
      BY <3>1, <3>2 DEF Heard
    <3>3. CASE ~ combat'
      <4>1. task'[t].at \in {"saved", "shot", "emit"} => task'[t].version = version'
        BY <1>1, <3>1, <3>3 DEF StoreStep, ReadState, ReadMap, BringMap, SaveChange,
           BeginScaledCombat, BeginCombat, CombatRefused, StartEffect, ReadBaseline,
           SaveEffect, Save, Go, Task
      <4> QED
        BY <1>2, <3>3, <4>1 DEF Heard
    <3> QED
      BY <3>2, <3>3
  <2>2. task'[t].at # "new"
    BY <1>1 DEF StoreTypeOK, StoreStep, ReadState, ReadMap, BringMap, SaveChange,
       BeginScaledCombat, BeginCombat, CombatRefused, StartEffect, ReadBaseline, SaveEffect,
       Save, Go, Task
  <2> QED
    BY <1>1, <1>2, <1>4, <1>5, <2>1, <2>2 DEF OnTheWay, At
<1>8. AnswerIsNewest' /\ InSync'
  <2>1. CASE version' = version /\ row' = row /\ combat' = combat
    BY <1>1, <1>5, <2>1 DEF AnswerIsNewest, InSync
  <2>2. CASE version' = version + 1 /\ combat' = combat
    <3>1. combat' \/ browser.version < version'
      BY <1>1, <2>2 DEF OnTheWay, Heard
    <3>2. browser.version \in Nat
      BY <1>1 DEF Browser
    <3> QED
      BY <1>1, <1>2, <1>5, <2>2, <3>1, <3>2 DEF AnswerIsNewest, InSync
  <2>3. CASE combat' = TRUE
    BY <2>3 DEF AnswerIsNewest, InSync
  <2> QED
    BY <1>3, <2>1, <2>2, <2>3
<1> QED
  BY <1>6, <1>7, <1>8 DEF SyncInv
-----------------------------------------------------------------------------
\* Most other steps leave the store's data alone: what is to be shown of them.
LEMMA StoreStill ==
    ASSUME SyncInv, UNCHANGED <<version, row, lock, combat>>
    PROVE  /\ Heard' = Heard
           /\ Messages' = Messages
           /\ version \in Nat
           /\ Heard \subseteq Nat
           /\ version \in Heard
<1>1. version \in Nat
  BY DEF SyncInv, Base, StoreTypeOK
<1> QED
  BY <1>1 DEF Heard, Messages

\* A request goes on; the socket may be given a message of its.
LEMMA DeliverKeeps ==
    ASSUME OnTheWay, browser \in Browser, NEW m \in Messages, Deliver(m)
    PROVE  /\ inbox' \in Seq(Messages)
           /\ browser.link = "off" => inbox' = inbox
<1>1. Append(inbox, m) \in Seq(Messages)
  BY AppendProperties DEF OnTheWay
<1> QED
  BY <1>1 DEF Deliver, OnTheWay

\* A step of a request after its commit.
LEMMA TaskMoves ==
    ASSUME SyncInv, UNCHANGED <<version, row, lock, combat>>, NEW t \in Tasks,
           task[t].at \in {"new", "saved", "shot", "emit", "answer", "failed"},
           task' \in [Tasks -> Task], \A u \in Tasks \ {t} : task'[u] = task[u],
           task'[t].at \in {"sent", "shot", "emit", "answer", "done"},
           task'[t].at \in {"shot", "emit"} => task'[t].version \in Heard
    PROVE  /\ StoreTypeOK'
           /\ \A u \in Tasks : task'[u].at \in {"saved", "shot", "emit"}
                  => task'[u].version \in Heard
           /\ \A u \in Tasks : task'[u].at = "new" => u \in Mine
<1>1. StoreTypeOK /\ OnTheWay
  BY DEF SyncInv, Base
<1>2. StoreTypeOK'
  BY <1>1 DEF StoreTypeOK, Tasks
<1> QED
  BY <1>1, <1>2 DEF OnTheWay, At

\* The answers of the server leave the screen alone.
LEMMA PublishKeeps ==
    ASSUME SyncInv, NEW t \in Tasks, Publish(t) \/ ReadSnapshot(t) \/ EmitSnapshot(t)
    PROVE  SyncInv'
<1>1. /\ Base /\ OnTheWay /\ AnswerIsNewest /\ InSync /\ StoreTypeOK
      /\ browser \in Browser /\ task[t] \in Task
  BY DEF SyncInv, Base, StoreTypeOK
<1>2. /\ UNCHANGED <<version, row, lock, combat>>
      /\ browser' = browser /\ asks' = asks /\ building' = building /\ losses' = losses
  BY DEF Publish, ReadSnapshot, EmitSnapshot, browserVars
<1>3. Heard' = Heard /\ Messages' = Messages /\ version \in Heard /\ Heard \subseteq Nat
  BY <1>2, StoreStill
<1>4. /\ inbox' \in Seq(Messages)
      /\ browser.link = "off" => inbox' = inbox
  <2>1. CASE Publish(t)
    <3>1. MapEvent \in Messages
      BY DEF Messages
    <3> QED
      BY <1>1, <2>1, <3>1, DeliverKeeps DEF Publish
  <2>2. CASE ReadSnapshot(t)
    BY <1>1, <2>2 DEF ReadSnapshot, browserVars, OnTheWay
  <2>3. CASE EmitSnapshot(t)
    <3>1. task[t].version \in Heard
      BY <1>1, <2>3 DEF EmitSnapshot, OnTheWay, At
    <3>2. Snapshot(task[t].version) \in Messages
      BY <3>1 DEF Messages
    <3> QED
      BY <1>1, <2>3, <3>2, DeliverKeeps DEF EmitSnapshot
  <2> QED
    BY <2>1, <2>2, <2>3
<1>5. /\ task' \in [Tasks -> Task]
      /\ \A u \in Tasks \ {t} : task'[u] = task[u]
      /\ task'[t].at \in {"shot", "emit", "answer", "done"}
      /\ task'[t].at \in {"shot", "emit"} => task'[t].version \in Heard
      /\ task[t].at \in {"saved", "shot", "emit"}
  <2>1. CASE ReadSnapshot(t)
    BY <1>1, <1>3, <2>1 DEF ReadSnapshot, At, Task, Stages, StoreTypeOK
  <2>2. CASE Go(t, "shot") /\ At(t, "saved")
    BY <1>1, <2>2 DEF Go, At, Task, Stages, OnTheWay, StoreTypeOK
  <2>3. CASE Answer(t) /\ task[t].at \in {"saved", "emit"}
    <3>1. [at |-> "done", version |-> 0, map |-> {}] \in Task
      BY DEF Task, Stages
    <3> QED
      BY <1>1, <2>3, <3>1 DEF Answer, Finish, Go, Task, Stages, StoreTypeOK
  <2> QED
    BY <2>1, <2>2, <2>3 DEF Publish, EmitSnapshot, At
<1>6. /\ StoreTypeOK'
      /\ \A u \in Tasks : task'[u].at \in {"saved", "shot", "emit"}
             => task'[u].version \in Heard
      /\ \A u \in Tasks : task'[u].at = "new" => u \in Mine
  BY <1>2, <1>5, TaskMoves
<1>7. Base'
  BY <1>1, <1>2, <1>4, <1>6 DEF Base
<1>8. OnTheWay'
  BY <1>1, <1>2, <1>3, <1>4, <1>6 DEF OnTheWay, At
<1>9. AnswerIsNewest' /\ InSync'
  BY <1>1, <1>2 DEF AnswerIsNewest, InSync
<1> QED
  BY <1>7, <1>8, <1>9 DEF SyncInv
-----------------------------------------------------------------------------
\* The screen's own moves: the browser has changed but for what it is in step with.
LEMMA ScreenKeeps ==
    ASSUME SyncInv, UNCHANGED <<version, row, lock, combat, inbox, asks, building, losses>>,
           NEW t \in Tasks, task[t].at \in {"new", "answer", "failed"},
           task' \in [Tasks -> Task], \A u \in Tasks \ {t} : task'[u] = task[u],
           task'[t].at \in {"sent", "done"},
           browser' \in Browser,
           browser'.link = browser.link, browser'.version = browser.version,
           browser'.load = browser.load, browser'.answer = browser.answer,
           browser'.shown = "load" => browser.shown = "load" /\ browser'.screen = browser.screen
    PROVE  SyncInv'
<1>1. Base /\ OnTheWay /\ AnswerIsNewest /\ InSync
  BY DEF SyncInv
<1>2. Heard' = Heard /\ Messages' = Messages
  BY StoreStill
<1>3. /\ StoreTypeOK'
      /\ \A u \in Tasks : task'[u].at \in {"saved", "shot", "emit"}
             => task'[u].version \in Heard
      /\ \A u \in Tasks : task'[u].at = "new" => u \in Mine
  BY TaskMoves
<1>4. Base'
  BY <1>1, <1>3 DEF Base
<1>5. OnTheWay'
  BY <1>1, <1>2, <1>3 DEF OnTheWay, At
<1>6. AnswerIsNewest' /\ InSync'
  BY <1>1 DEF AnswerIsNewest, InSync
<1> QED
  BY <1>4, <1>5, <1>6 DEF SyncInv

LEMMA MoveKeeps ==
    ASSUME SyncInv, NEW t \in Tasks, MoveToken(t) \/ MoveAnswered(t) \/ MoveRefused(t)
    PROVE  SyncInv'
<1>1. OnTheWay /\ browser \in Browser /\ task \in [Tasks -> Task] /\ task[t] \in Task
  BY DEF SyncInv, Base, StoreTypeOK
<1>2. Finish(t) => /\ task' \in [Tasks -> Task] /\ task'[t].at = "done"
                   /\ \A u \in Tasks \ {t} : task'[u] = task[u]
  <2>1. [at |-> "done", version |-> 0, map |-> {}] \in Task
    BY DEF Task, Stages
  <2> QED
    BY <1>1, <2>1 DEF Finish
<1>3. browser.screen \subseteq Tasks /\ browser.before \subseteq Tasks
      /\ task[t].map \subseteq Tasks
  BY <1>1 DEF Browser, Task
<1>4. CASE MoveToken(t)
  <2>1. t \in Mine
    BY <1>1, <1>4 DEF MoveToken, OnTheWay
  <2>2. browser' \in Browser
    BY <1>1, <1>3, <1>4, <2>1 DEF MoveToken, Show, Browser
  <2>3. /\ task' \in [Tasks -> Task] /\ task'[t].at = "sent"
        /\ \A u \in Tasks \ {t} : task'[u] = task[u]
    BY <1>1, <1>4 DEF MoveToken, Go, Task, Stages
  <2> QED
    BY <1>1, <1>4, <2>2, <2>3, ScreenKeeps DEF MoveToken, Show, Browser, At
<1>5. CASE MoveAnswered(t)
  <2>1. browser' \in Browser
    BY <1>1, <1>3, <1>5 DEF MoveAnswered, Show, Browser
  <2> QED
    BY <1>1, <1>2, <1>5, <2>1, ScreenKeeps DEF MoveAnswered, Show, Browser, At
<1>6. CASE MoveRefused(t)
  <2>1. browser' \in Browser
    BY <1>1, <1>3, <1>6 DEF MoveRefused, Show, Browser
  <2>2. /\ browser'.link = browser.link /\ browser'.version = browser.version
        /\ browser'.load = browser.load /\ browser'.answer = browser.answer
        /\ browser'.shown = browser.shown
        /\ browser.shown = "load" => browser'.screen = browser.screen
    BY <1>1, <1>6 DEF MoveRefused, Show, Browser
  <2> QED
    BY <1>1, <1>2, <1>6, <2>1, <2>2, ScreenKeeps DEF MoveRefused, At
<1> QED
  BY <1>4, <1>5, <1>6
-----------------------------------------------------------------------------
\* The connection and the browser: a step that leaves the store alone.
LEMMA FollowKeeps ==
    ASSUME SyncInv, UNCHANGED storeVars, browser' \in Browser,
           inbox' \in Seq(Messages), building' \in Seq(Heard), asks' \in Nat,
           losses' \in 0..MaxLosses, browser'.version \in Heard,
           browser'.link = "off" => inbox' = <<>> /\ asks' = 0 /\ building' = <<>>,
           AnswerIsNewest', InSync'
    PROVE  SyncInv'
<1>1. Base /\ OnTheWay /\ UNCHANGED <<version, row, lock, combat>> /\ task' = task
  BY DEF SyncInv, storeVars
<1>2. Heard' = Heard /\ Messages' = Messages
  BY <1>1, StoreStill
<1>3. StoreTypeOK'
  BY <1>1 DEF Base, StoreTypeOK
<1>4. Base' /\ OnTheWay'
  BY <1>1, <1>2, <1>3 DEF Base, OnTheWay, At
<1> QED
  BY <1>4 DEF SyncInv

\* The facts of a state the steps of the browser start from.
LEMMA FollowFrom ==
    ASSUME SyncInv, UNCHANGED storeVars
    PROVE  /\ browser \in Browser /\ asks \in Nat /\ losses \in 0..MaxLosses
           /\ inbox \in Seq(Messages) /\ building \in Seq(Heard)
           /\ browser.version \in Heard /\ version \in Heard /\ Heard \subseteq Nat
           /\ browser.link = "off" => inbox = <<>> /\ asks = 0 /\ building = <<>>
           /\ AnswerIsNewest /\ InSync
           /\ version' = version /\ row' = row /\ combat' = combat
           /\ row \subseteq Tasks
<1>1. UNCHANGED <<version, row, lock, combat>>
  BY DEF storeVars
<1> QED
  BY <1>1, StoreStill DEF SyncInv, Base, OnTheWay, StoreTypeOK

LEMMA ConnectionKeeps ==
    ASSUME SyncInv, LoseConnection \/ RefreshToken \/ Join
    PROVE  SyncInv'
<1>1. UNCHANGED storeVars
  BY DEF LoseConnection, RefreshToken, Join
<1>2. <<>> \in Seq(Messages) /\ <<>> \in Seq(Heard)
  BY EmptySeq
<1>3. CASE LoseConnection
  <2>1. /\ browser' \in Browser /\ browser'.version = browser.version
        /\ browser'.load = browser.load /\ browser'.answer = browser.answer
        /\ browser'.shown = browser.shown /\ browser'.screen = browser.screen
    BY <1>1, <1>3, FollowFrom DEF LoseConnection, Disconnected, Browser
  <2>2. losses' \in 0..MaxLosses
    BY <1>1, <1>3, FollowFrom, MapSyncAssumption DEF LoseConnection
  <2>3. AnswerIsNewest' /\ InSync'
    BY <1>1, <2>1, FollowFrom DEF AnswerIsNewest, InSync
  <2> QED
    BY <1>1, <1>2, <1>3, <2>1, <2>2, <2>3, FollowFrom, FollowKeeps DEF LoseConnection, Forget
<1>4. CASE RefreshToken
  <2>1. /\ browser' \in Browser /\ browser'.version = browser.version
        /\ browser'.load = "sent"
    BY <1>1, <1>4, FollowFrom DEF RefreshToken, Reload, Disconnected, Browser
  <2>2. AnswerIsNewest' /\ InSync'
    BY <2>1 DEF AnswerIsNewest, InSync
  <2> QED
    BY <1>1, <1>2, <1>4, <2>1, <2>2, FollowFrom, FollowKeeps DEF RefreshToken, Forget
<1>5. CASE Join
  <2>1. /\ browser' \in Browser /\ browser'.version = browser.version
        /\ browser'.load = browser.load /\ browser'.answer = browser.answer
        /\ browser'.shown = browser.shown /\ browser'.screen = browser.screen
        /\ browser'.link = "rooms"
    BY <1>1, <1>5, FollowFrom DEF Join, Browser
  <2>2. AnswerIsNewest' /\ InSync'
    BY <1>1, <2>1, FollowFrom DEF AnswerIsNewest, InSync
  <2> QED
    BY <1>1, <1>5, <2>1, <2>2, FollowFrom, FollowKeeps DEF Join
<1> QED
  BY <1>3, <1>4, <1>5

LEMMA AsksKeep ==
    ASSUME SyncInv,
           \/ ReadJoinSnapshot \/ GrantResync \/ RefuseResync
           \/ \E i \in DOMAIN building : EmitBuilt(i)
    PROVE  SyncInv'
<1>1. UNCHANGED storeVars
  BY DEF ReadJoinSnapshot, GrantResync, RefuseResync, EmitBuilt
<1>2. /\ browser.version \in Heard /\ building \in Seq(Heard) /\ asks \in Nat
      /\ Append(building, version) \in Seq(Heard)
  BY <1>1, FollowFrom, AppendProperties
<1>3. CASE ReadJoinSnapshot
  <2>1. /\ browser' \in Browser /\ browser'.version = browser.version
        /\ browser'.load = browser.load /\ browser'.answer = browser.answer
        /\ browser'.shown = browser.shown /\ browser'.screen = browser.screen
        /\ browser'.link = "on"
    BY <1>1, <1>3, FollowFrom DEF ReadJoinSnapshot, Browser
  <2>2. AnswerIsNewest' /\ InSync'
    BY <1>1, <2>1, FollowFrom DEF AnswerIsNewest, InSync
  <2> QED
    BY <1>1, <1>2, <1>3, <2>1, <2>2, FollowFrom, FollowKeeps DEF ReadJoinSnapshot
<1>4. ASSUME browser' = browser PROVE AnswerIsNewest' /\ InSync'
  BY <1>1, <1>4, FollowFrom DEF AnswerIsNewest, InSync
<1>5. CASE GrantResync
  <2>1. asks' \in Nat /\ browser.link # "off"
    BY <1>1, <1>2, <1>5, FollowFrom DEF GrantResync
  <2> QED
    BY <1>1, <1>2, <1>4, <1>5, <2>1, FollowFrom, FollowKeeps DEF GrantResync
<1>6. CASE RefuseResync
  <2>1. asks' \in Nat /\ browser.link # "off"
    BY <1>1, <1>2, <1>6, FollowFrom DEF RefuseResync
  <2> QED
    BY <1>1, <1>2, <1>4, <1>6, <2>1, FollowFrom, FollowKeeps DEF RefuseResync
<1>7. ASSUME NEW i \in DOMAIN building, EmitBuilt(i) PROVE SyncInv'
  <2>1. building' \in Seq(Heard) /\ building[i] \in Heard /\ building # <<>>
    <3>1. i \in 1..Len(building) /\ Len(building) \in Nat
      BY <1>2, LenProperties
    <3>2. SubSeq(building, 1, i - 1) \in Seq(Heard)
          /\ SubSeq(building, i + 1, Len(building)) \in Seq(Heard)
      BY <1>2, <3>1, SubSeqProperties
    <3>3. building' \in Seq(Heard)
      BY <1>7, <3>2, ConcatProperties DEF EmitBuilt, RemoveAt
    <3> QED
      BY <1>2, <3>1, <3>3, ElementOfSeq
  <2>2. inbox' \in Seq(Messages) /\ browser.link # "off"
    <3>1. Snapshot(building[i]) \in Messages
      BY <2>1 DEF Messages
    <3>2. OnTheWay /\ browser \in Browser
      BY DEF SyncInv, Base
    <3> QED
      BY <1>1, <1>7, <2>1, <3>1, <3>2, DeliverKeeps, FollowFrom DEF EmitBuilt
  <2> QED
    BY <1>1, <1>2, <1>4, <1>7, <2>1, <2>2, FollowFrom, FollowKeeps DEF EmitBuilt
<1> QED
  BY <1>3, <1>5, <1>6, <1>7

LEMMA BrowserKeeps ==
    ASSUME SyncInv, ReceiveMap \/ ReceiveSnapshot \/ AnswerLoad \/ ShowLoaded
    PROVE  SyncInv'
<1>1. UNCHANGED storeVars
  BY DEF ReceiveMap, ReceiveSnapshot, AnswerLoad, ShowLoaded
<1>2. /\ browser.version \in Heard /\ inbox \in Seq(Messages) /\ asks \in Nat
      /\ browser \in Browser
      /\ inbox # <<>> => /\ Head(inbox) \in Messages /\ Tail(inbox) \in Seq(Messages)
                         /\ browser.link # "off"
  BY <1>1, FollowFrom, HeadTailProperties
<1>3. CASE ReceiveMap
  <2>1. /\ browser' \in Browser /\ browser'.version = browser.version
        /\ browser'.load = browser.load /\ browser'.answer = browser.answer
        /\ browser'.shown = browser.shown /\ browser'.screen = browser.screen
        /\ browser'.link = browser.link
    BY <1>2, <1>3 DEF ReceiveMap, Browser
  <2>2. AnswerIsNewest' /\ InSync'
    BY <1>1, <2>1, FollowFrom DEF AnswerIsNewest, InSync
  <2>3. asks' \in Nat
    BY <1>2, <1>3 DEF ReceiveMap
  <2> QED
    BY <1>1, <1>2, <1>3, <2>1, <2>2, <2>3, FollowFrom, FollowKeeps DEF ReceiveMap
<1>4. CASE ReceiveSnapshot
  <2> DEFINE v == Head(inbox).version
             b == [browser EXCEPT !.asked = FALSE, !.version = v]
  <2>1. v \in Heard /\ v \in Nat
    <3>1. Heard \subseteq Nat
      BY <1>1, FollowFrom
    <3>2. PICK w \in Heard : Head(inbox) = Snapshot(w)
      BY <1>2, <1>4 DEF ReceiveSnapshot, Messages, MapEvent
    <3> QED
      BY <3>1, <3>2 DEF Snapshot
  <2>2. browser' = IF v = browser.version THEN b ELSE Reload(b)
    BY <1>4 DEF ReceiveSnapshot
  <2>3. b \in Browser /\ b.version = v /\ b.link = browser.link /\ b.load = browser.load
        /\ b.answer = browser.answer /\ b.shown = browser.shown
        /\ b.screen = browser.screen
    BY <1>2, <2>1 DEF Browser
  <2> HIDE DEF v, b
  <2>4. /\ browser' \in Browser /\ browser'.version = v /\ browser'.link = browser.link
        /\ \/ browser'.load = "sent"
           \/ /\ v = browser.version /\ browser'.load = browser.load
              /\ browser'.answer = browser.answer /\ browser'.shown = browser.shown
              /\ browser'.screen = browser.screen
    BY <2>2, <2>3 DEF Reload, Browser
  <2>5. AnswerIsNewest' /\ InSync'
    BY <1>1, <2>4, FollowFrom DEF AnswerIsNewest, InSync
  <2> QED
    BY <1>1, <1>2, <1>4, <2>1, <2>4, <2>5, FollowFrom, FollowKeeps DEF ReceiveSnapshot
<1>5. CASE AnswerLoad
  <2>1. /\ browser' \in Browser /\ browser'.version = browser.version
        /\ browser'.load = "row" /\ browser'.answer = row /\ browser'.link = browser.link
    BY <1>1, <1>2, <1>5, FollowFrom DEF AnswerLoad, Browser
  <2>2. AnswerIsNewest' /\ InSync'
    BY <1>1, <2>1, FollowFrom DEF AnswerIsNewest, InSync
  <2> QED
    BY <1>1, <1>2, <1>5, <2>1, <2>2, FollowFrom, FollowKeeps DEF AnswerLoad
<1>6. CASE ShowLoaded
  <2>1. /\ browser' \in Browser /\ browser'.version = browser.version
        /\ browser'.load = "none" /\ browser'.screen = browser.answer
        /\ browser'.link = browser.link /\ browser.load = "row"
    BY <1>2, <1>6 DEF ShowLoaded, Show, Browser
  <2>2. AnswerIsNewest' /\ InSync'
    BY <1>1, <2>1, FollowFrom DEF AnswerIsNewest, InSync
  <2> QED
    BY <1>1, <1>2, <1>6, <2>1, <2>2, FollowFrom, FollowKeeps DEF ShowLoaded
<1> QED
  BY <1>3, <1>4, <1>5, <1>6
-----------------------------------------------------------------------------
LEMMA SyncInvInit == Init => SyncInv
<1> SUFFICES ASSUME Init PROVE SyncInv
  OBVIOUS
<1>1. browser \in Browser
  BY DEF Init, Browser
<1>2. StoreTypeOK
  <2>1. \A t \in Tasks : task[t] \in Task
    BY DEF Init, StoreInit, Task, Stages
  <2> QED
    BY <2>1, MapStoreAssumption DEF Init, StoreInit, StoreTypeOK, Task, Tasks
<1>3. Base
  BY <1>1, <1>2, MapSyncAssumption DEF Init, Base
<1>4. OnTheWay
  <2>1. <<>> \in Seq(Messages) /\ <<>> \in Seq(Heard)
    BY EmptySeq
  <2> QED
    BY <2>1 DEF Init, StoreInit, OnTheWay, Heard, At
<1> QED
  BY <1>3, <1>4 DEF Init, StoreInit, SyncInv, AnswerIsNewest, InSync

LEMMA SyncInvNext == SyncInv /\ [SyncNext]_vars => SyncInv'
<1> SUFFICES ASSUME SyncInv, [SyncNext]_vars PROVE SyncInv'
  OBVIOUS
<1>1. CASE UNCHANGED vars
  BY <1>1 DEF vars, storeVars, browserVars, SyncInv, Base, OnTheWay, AnswerIsNewest, InSync,
     StoreTypeOK, Heard, Messages, At
<1>2. ASSUME NEW t \in Tasks, Serve(t) PROVE SyncInv'
  BY <1>2, StoreStepKeeps, PublishKeeps, MoveKeeps DEF Serve
<1>3. ASSUME NEW t \in Tasks, MoveToken(t) PROVE SyncInv'
  BY <1>3, MoveKeeps
<1>4. CASE Follow
  BY <1>4, ConnectionKeeps, AsksKeep, BrowserKeeps DEF Follow
<1>5. CASE LoseConnection \/ RefreshToken
  BY <1>5, ConnectionKeeps
<1> QED
  BY <1>1, <1>2, <1>3, <1>4, <1>5 DEF SyncNext

LEMMA SyncInvAlways == SyncSpec => []SyncInv
<1> QED
  BY SyncInvInit, SyncInvNext, PTL DEF SyncSpec

\* The browser and everything on its way to and from it stay of their types, and
\* nothing is on its way over a lost connection (usePlayScenarioRealtime).
THEOREM SyncTypes == FairSpec => []TypeOK
<1> QED
  BY SyncInvAlways, SyncInvTypes, PTL DEF FairSpec

\* A screen that has loaded the map for the newest version shows the server's map,
\* for any numbers of changes, snapshots and reconnections (usePlayScenarioMapLoader).
THEOREM SyncShowsTheMap == FairSpec => []InSync
<1>1. SyncInv => InSync
  BY DEF SyncInv
<1> QED
  BY <1>1, SyncInvAlways, PTL DEF FairSpec
=============================================================================
