---------------------------- MODULE MapStoreProofs ----------------------------
(***************************************************************************)
(* Proofs about MapStore, for any numbers of token moves, uploads, effects *)
(* and starts of combats.                                                  *)
(***************************************************************************)
EXTENDS MapStore, TLAPS

\* A token move that is to save has read a version that is not from the future,
\* and if that version is still the current one, the map it has read is, too: what
\* was saved in between would have raised the version.  The start of a combat,
\* which may set the version back, ends this.
MovesAreFresh ==
    ~ combat =>
        \A t \in Moves :
            /\ At(t, "read") \/ At(t, "ready") => task[t].version <= version
            /\ At(t, "ready") /\ task[t].version = version => task[t].map = row

\* An effect that is to save has the current map: it holds the lock.
EffectsAreFresh == \A t \in Effects : At(t, "ready") => task[t].map = row

StoreInv == StoreTypeOK /\ MovesAreFresh /\ EffectsAreFresh
-----------------------------------------------------------------------------
\* What a step of t leaves of t's own record; it touches no other record.
LEMMA StoreStepType ==
    ASSUME StoreTypeOK, NEW t \in Tasks, StoreStep(t)
    PROVE  /\ version' \in Nat
           /\ row' \subseteq Tasks
           /\ lock' \in Effects \cup {None}
           /\ combat' \in BOOLEAN
           /\ task' \in [Tasks -> Task]
           /\ \A u \in Tasks \ {t} : task'[u] = task[u]
<1>1. /\ version \in Nat /\ row \subseteq Tasks /\ lock \in Effects \cup {None}
      /\ combat \in BOOLEAN /\ task \in [Tasks -> Task] /\ task[t] \in Task
  BY DEF StoreTypeOK
<1>2. Changed(t) \in SUBSET Tasks /\ version + 1 \in Nat /\ task[t].version + 1 \in Nat
  BY <1>1 DEF Changed, Task
<1>3. ASSUME NEW stage \in Stages, Go(t, stage)
      PROVE  task' \in [Tasks -> Task] /\ \A u \in Tasks \ {t} : task'[u] = task[u]
  BY <1>1, <1>3 DEF Go, Task
<1>4. ASSUME Save(t)
      PROVE  /\ version' \in Nat /\ row' \subseteq Tasks
             /\ task' \in [Tasks -> Task] /\ \A u \in Tasks \ {t} : task'[u] = task[u]
  BY <1>1, <1>2, <1>4 DEF Save, Task, Stages
<1>5. CASE ReadState(t)
  BY <1>1, <1>5 DEF ReadState, Task, Stages
<1>6. CASE ReadMap(t) \/ ReadBaseline(t)
  BY <1>1, <1>6 DEF ReadMap, ReadBaseline, Task, Stages
<1>7. CASE BringMap(t)
  <2>1. PICK seen \in SUBSET row : task' = [task EXCEPT ![t].at = "ready", ![t].map = seen]
    BY <1>7 DEF BringMap
  <2>2. seen \in SUBSET Tasks
    BY <1>1
  <2> QED
    BY <1>1, <1>7, <2>1, <2>2 DEF BringMap, Task, Stages
<1>8. CASE SaveChange(t)
  BY <1>1, <1>3, <1>4, <1>8 DEF SaveChange, Stages
<1>9. CASE BeginScaledCombat(t)
  BY <1>1, <1>4, <1>9 DEF BeginScaledCombat
<1>10. CASE BeginCombat(t)
  BY <1>1, <1>2, <1>3, <1>10 DEF BeginCombat, Stages
<1>11. CASE CombatRefused(t)
  BY <1>1, <1>3, <1>11 DEF CombatRefused, Stages
<1>12. CASE StartEffect(t)
  BY <1>1, <1>3, <1>12 DEF StartEffect, Stages
<1>13. CASE SaveEffect(t)
  BY <1>1, <1>4, <1>13 DEF SaveEffect
<1> QED
  BY <1>5, <1>6, <1>7, <1>8, <1>9, <1>10, <1>11, <1>12, <1>13 DEF StoreStep

\* The lock is held by exactly the effect that is between its reads and its commit.
LEMMA LockKept ==
    ASSUME StoreTypeOK, NEW t \in Tasks, StoreStep(t), NEW u \in Effects
    PROVE  (lock' = u) <=> (task'[u].at \in {"read", "ready"})
<1>1. /\ task \in [Tasks -> Task] /\ u \in Tasks /\ u # None
      /\ (lock = u) <=> (task[u].at \in {"read", "ready"})
  BY MapStoreAssumption DEF StoreTypeOK, Tasks
<1>2. CASE u # t
  <2>1. task'[u] = task[u]
    BY <1>1, <1>2, StoreStepType
  <2>2. (lock' = u) <=> (lock = u)
    BY <1>1, <1>2 DEF StoreStep, ReadState, ReadMap, BringMap, SaveChange, BeginScaledCombat,
                BeginCombat, CombatRefused, StartEffect, ReadBaseline, SaveEffect
  <2> QED
    BY <1>1, <2>1, <2>2
<1>3. CASE u = t
  <2>1. t \notin Moves \cup Uploads \cup Fights
    BY <1>3, MapStoreAssumption
  <2>2. CASE StartEffect(t)
    BY <1>1, <1>3, <2>2 DEF StartEffect, Go, Task
  <2>3. CASE ReadBaseline(t)
    BY <1>1, <1>3, <2>3 DEF ReadBaseline, At, Task
  <2>4. CASE SaveEffect(t)
    BY <1>1, <1>3, <2>4 DEF SaveEffect, Save, At, Task
  <2> QED
    BY <1>3, <2>1, <2>2, <2>3, <2>4
    DEF StoreStep, ReadState, ReadMap, BringMap, SaveChange, BeginScaledCombat, BeginCombat,
        CombatRefused
<1> QED
  BY <1>2, <1>3

\* A step leaves version and row alone, or saves a map under a higher version, or
\* starts a combat.
LEMMA StoreShape ==
    ASSUME StoreTypeOK, NEW t \in Tasks, StoreStep(t)
    PROVE  \/ version' = version /\ row' = row /\ combat' = combat
           \/ version' = version + 1 /\ task'[t].at = "saved" /\ combat' = combat
              /\ (lock = None \/ (t \in Effects /\ lock = t))
           \/ combat' = TRUE /\ lock = None /\ t \in Fights
<1>1. task \in [Tasks -> Task]
  BY DEF StoreTypeOK
<1>2. CASE SaveChange(t)
  <2>1. CASE version = task[t].version
    <3>1. Save(t) /\ lock = None /\ combat' = combat
      BY <1>2, <2>1 DEF SaveChange
    <3>2. version' = version + 1 /\ task'[t].at = "saved"
      BY <1>1, <3>1 DEF Save
    <3> QED
      BY <3>1, <3>2
  <2>2. CASE version # task[t].version
    BY <1>2, <2>2 DEF SaveChange
  <2> QED
    BY <2>1, <2>2
<1>3. CASE BeginScaledCombat(t) \/ BeginCombat(t)
  BY <1>3 DEF BeginScaledCombat, BeginCombat
<1>4. CASE SaveEffect(t)
  <2>1. lock = t
    BY <1>4 DEF SaveEffect, At, StoreTypeOK
  <2> QED
    BY <1>1, <1>4, <2>1 DEF SaveEffect, Save
<1> QED
  BY <1>2, <1>3, <1>4
  DEF StoreStep, ReadState, ReadMap, BringMap, CombatRefused, StartEffect, ReadBaseline

LEMMA InitStoreInv == StoreInit([t \in Tasks |-> "sent"]) => StoreInv
<1> SUFFICES ASSUME StoreInit([t \in Tasks |-> "sent"]) PROVE StoreInv
  OBVIOUS
<1>1. \A t \in Tasks : task[t] = [at |-> "sent", version |-> 0, map |-> {}]
  BY DEF StoreInit
<1>2. StoreTypeOK
  BY <1>1, MapStoreAssumption DEF StoreInit, StoreTypeOK, Task, Stages, Tasks
<1>3. MovesAreFresh /\ EffectsAreFresh
  BY <1>1 DEF MovesAreFresh, EffectsAreFresh, At, Tasks
<1> QED
  BY <1>2, <1>3 DEF StoreInv

\* Every step keeps the invariant.
LEMMA NextStoreInv == StoreInv /\ [Next]_storeVars => StoreInv'
<1> SUFFICES ASSUME StoreInv, [Next]_storeVars PROVE StoreInv'
  OBVIOUS
<1>1. StoreTypeOK /\ MovesAreFresh /\ EffectsAreFresh /\ task \in [Tasks -> Task]
      /\ version \in Nat
  BY DEF StoreInv, StoreTypeOK
<1>2. ASSUME NEW t \in Tasks, StoreStep(t) PROVE StoreInv'
  <2>1. StoreTypeOK'
    BY <1>1, <1>2, StoreStepType, LockKept DEF StoreTypeOK
  <2>2. MovesAreFresh'
    <3> SUFFICES ASSUME ~ combat', NEW u \in Moves
                 PROVE  /\ At(u, "read")' \/ At(u, "ready")' => task'[u].version <= version'
                        /\ At(u, "ready")' /\ task'[u].version = version'
                           => task'[u].map = row'
      BY DEF MovesAreFresh
    <3>1. u \in Tasks /\ u \notin Effects \cup Fights \cup Uploads /\ task[u] \in Task
      BY <1>1, MapStoreAssumption DEF Tasks
    <3>2. ~ combat
      BY <1>1, <1>2, StoreShape
    <3>3. /\ At(u, "read") \/ At(u, "ready") => task[u].version <= version
          /\ At(u, "ready") /\ task[u].version = version => task[u].map = row
      BY <1>1, <3>2 DEF MovesAreFresh
    <3>4. \/ version' = version /\ row' = row
          \/ version' = version + 1 /\ task'[t].at = "saved"
      BY <1>1, <1>2, StoreShape
    <3>5. CASE u # t
      <4>1. task'[u] = task[u]
        BY <1>1, <1>2, <3>1, <3>5, StoreStepType
      <4>2. task[u].version \in Nat
        BY <3>1 DEF Task
      <4> QED
        BY <1>1, <3>3, <3>4, <4>1, <4>2 DEF At
    <3>6. CASE u = t
      <4>1. CASE ReadState(t)
        BY <1>1, <3>1, <3>6, <4>1 DEF ReadState, At, Task
      <4>2. CASE ReadMap(t)
        BY <1>1, <3>1, <3>3, <3>6, <4>2 DEF ReadMap, At, Task
      <4>3. CASE SaveChange(t)
        BY <1>1, <3>1, <3>6, <4>3 DEF SaveChange, Save, Go, At, Task
      <4> QED
        BY <1>2, <3>1, <3>6, <4>1, <4>2, <4>3
        DEF StoreStep, BringMap, BeginScaledCombat, BeginCombat, CombatRefused, StartEffect,
            ReadBaseline, SaveEffect
    <3> QED
      BY <3>5, <3>6
  <2>3. EffectsAreFresh'
    <3> SUFFICES ASSUME NEW u \in Effects, At(u, "ready")' PROVE task'[u].map = row'
      BY DEF EffectsAreFresh
    <3>1. u \in Tasks /\ u # None /\ u \notin Moves \cup Uploads \cup Fights
          /\ task[u] \in Task
      BY <1>1, MapStoreAssumption DEF Tasks
    <3>2. CASE u # t
      <4>1. task'[u] = task[u]
        BY <1>1, <1>2, <3>1, <3>2, StoreStepType
      <4>2. At(u, "ready") /\ lock = u
        BY <1>1, <4>1 DEF At, StoreTypeOK
      <4>3. row' = row
        BY <1>1, <1>2, <3>1, <3>2, <4>2, StoreShape
      <4> QED
        BY <1>1, <4>1, <4>2, <4>3 DEF EffectsAreFresh
    <3>3. CASE u = t
      <4>1. CASE ReadBaseline(t)
        BY <1>1, <3>1, <3>3, <4>1 DEF ReadBaseline, Task
      <4>2. CASE StartEffect(t)
        BY <1>1, <3>1, <3>3, <4>2 DEF StartEffect, Go, At, Task
      <4>3. CASE SaveEffect(t)
        BY <1>1, <3>1, <3>3, <4>3 DEF SaveEffect, Save, At, Task
      <4> QED
        BY <1>2, <3>1, <3>3, <4>1, <4>2, <4>3
        DEF StoreStep, ReadState, ReadMap, BringMap, SaveChange, BeginScaledCombat,
            BeginCombat, CombatRefused
    <3> QED
      BY <3>2, <3>3
  <2> QED
    BY <2>1, <2>2, <2>3 DEF StoreInv
<1>3. CASE UNCHANGED storeVars
  BY <1>3 DEF storeVars, StoreInv, StoreTypeOK, MovesAreFresh, EffectsAreFresh, At
<1> QED
  BY <1>2, <1>3 DEF Next

LEMMA StoreInvariance == Spec => []StoreInv
BY InitStoreInv, NextStoreInv, PTL DEF Spec
-----------------------------------------------------------------------------
\* The rows and the requests keep their types, and the lock is held exactly while
\* an effect is in its transaction.
THEOREM StoreTypes == Spec => []StoreTypeOK
<1>1. StoreInv => StoreTypeOK
  BY DEF StoreInv
<1> QED
  BY <1>1, StoreInvariance, PTL

\* Until a combat starts, no token move and no effect takes back a change that
\* was saved after it had read the map.
THEOREM StoreKeepsChanges == Spec => KeptUnlessCombat
<1> DEFINE Kept == \A t \in Moves \cup Effects : Commits(t) /\ ~ combat => row \subseteq row'
<1>1. StoreInv /\ [Next]_storeVars => [Kept]_storeVars
  <2> SUFFICES ASSUME StoreInv, Next, NEW t \in Moves \cup Effects, Commits(t), ~ combat
               PROVE  row \subseteq row'
    BY DEF Commits
  <2>1. PICK u \in Tasks : StoreStep(u)
    BY DEF Next
  <2>2. StoreTypeOK /\ task \in [Tasks -> Task] /\ t \in Tasks /\ t \notin Uploads \cup Fights
    BY MapStoreAssumption DEF StoreInv, StoreTypeOK, Tasks
  <2>3. u = t
    BY <2>1, <2>2, StoreStepType DEF Commits, At
  <2>4. CASE SaveChange(t)
    <3>1. t \in Moves /\ At(t, "ready") /\ version = task[t].version /\ row' = Changed(t)
      <4>1. t \in Moves /\ At(t, "ready")
        BY <2>2, <2>4 DEF SaveChange
      <4>2. CASE version = task[t].version
        BY <2>4, <4>1, <4>2 DEF SaveChange, Save
      <4>3. CASE version # task[t].version
        <5>1. Go(t, "failed")
          BY <2>4, <4>3 DEF SaveChange
        <5>2. task'[t].at = "failed"
          BY <2>2, <5>1 DEF Go, Task
        <5> QED
          BY <5>2 DEF Commits, At
      <4> QED
        BY <4>1, <4>2, <4>3
    <3>2. task[t].map = row
      BY <3>1 DEF StoreInv, MovesAreFresh
    <3> QED
      BY <3>1, <3>2 DEF Changed
  <2>5. CASE SaveEffect(t)
    <3>1. task[t].map = row
      BY <2>5 DEF SaveEffect, StoreInv, EffectsAreFresh
    <3> QED
      BY <2>5, <3>1 DEF SaveEffect, Save, Changed
  <2>6. CASE ~ SaveChange(t) /\ ~ SaveEffect(t)
    <3>1. \E stage \in {"read", "ready", "failed"} : task'[t].at = stage
      BY <2>1, <2>2, <2>3, <2>6
      DEF StoreStep, ReadState, ReadMap, BringMap, BeginScaledCombat, BeginCombat,
          CombatRefused, StartEffect, ReadBaseline, Go, Task
    <3> QED
      BY <3>1 DEF Commits, At
  <2> QED
    BY <2>4, <2>5, <2>6
<1> QED
  BY <1>1, StoreInvariance, PTL DEF Spec, KeptUnlessCombat
=============================================================================
