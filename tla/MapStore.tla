------------------------------- MODULE MapStore -------------------------------
(***************************************************************************)
(* The server's map of one scenario node: the row of the node's runtime    *)
(* state, the version of the game state that guards it, and the requests   *)
(* that replace the map as a whole: a player's token move, the upload of   *)
(* the GM's screen, an action's effects on objects, the start of a combat. *)
(*                                                                         *)
(* A map is the set of the requests whose change it shows.  Each await on  *)
(* the database ends an action.  A combat that has started does not end,   *)
(* and changes of the version that touch no map are left out.              *)
(***************************************************************************)
EXTENDS Naturals

CONSTANTS
    Moves,    \* requests moveSessionToken
    Uploads,  \* requests updateVttMap
    Effects,  \* actions whose effects change objects of the map
    Fights,   \* requests startCombat
    None

Tasks == Moves \cup Uploads \cup Effects \cup Fights

ASSUME MapStoreAssumption ==
    /\ None \notin Tasks
    /\ Moves \cap (Uploads \cup Effects \cup Fights) = {}
    /\ Uploads \cap (Effects \cup Fights) = {}
    /\ Effects \cap Fights = {}

VARIABLES
    version,  \* GameState.version
    row,      \* vttMapJson of the node's runtime state
    lock,     \* who holds the advisory lock of the session
    combat,   \* whether there is an ACTIVE combat
    task      \* what each request is doing

storeVars == <<version, row, lock, combat, task>>

\* A request that has committed its map goes on to "saved", one that was
\* refused to "failed"; what comes after them is the composing module's.
Stages == {"new", "sent", "read", "ready", "saved", "failed", "shot", "emit", "answer", "done"}

\* version: the version read before the map, later the one to be published.
\* map: the map read, later the one saved.
Task == [at: Stages, version: Nat, map: SUBSET Tasks]

StoreTypeOK ==
    /\ version \in Nat
    /\ row \subseteq Tasks
    /\ lock \in Effects \cup {None}
    /\ combat \in BOOLEAN
    /\ task \in [Tasks -> Task]
    /\ \A t \in Effects : lock = t <=> task[t].at \in {"read", "ready"}

StoreInit(at) ==
    /\ version = 0
    /\ row = {}
    /\ lock = None
    /\ combat = FALSE
    /\ task = [t \in Tasks |-> [at |-> at[t], version |-> 0, map |-> {}]]
-----------------------------------------------------------------------------
At(t, stage) == task[t].at = stage
Go(t, stage) == task' = [task EXCEPT ![t].at = stage]

\* The map t is to save.
Changed(t) == task[t].map \cup {t}

\* saveCurrentMap, in a transaction that takes the lock unless t has it.
Save(t) ==
    /\ version' = version + 1
    /\ row' = Changed(t)
    /\ task' = [task EXCEPT ![t].at = "saved", ![t].version = version + 1,
                            ![t].map = Changed(t)]
-----------------------------------------------------------------------------
(* moveSessionToken, updateVttMap and startCombat. *)

ReadState(t) ==
    /\ t \notin Effects
    /\ At(t, "sent")
    /\ task' = [task EXCEPT ![t].at = IF combat THEN "failed" ELSE "read",
                            ![t].version = version]
    /\ UNCHANGED <<version, row, lock, combat>>

ReadMap(t) ==
    /\ t \in Moves \cup Fights
    /\ At(t, "read")
    /\ task' = [task EXCEPT ![t].at = "ready", ![t].map = row]
    /\ UNCHANGED <<version, row, lock, combat>>

\* The upload brings a map of its own, which the GM's screen showed some time ago.
BringMap(t) ==
    /\ t \in Uploads
    /\ At(t, "read")
    /\ \E seen \in SUBSET row : task' = [task EXCEPT ![t].at = "ready", ![t].map = seen]
    /\ UNCHANGED <<version, row, lock, combat>>

SaveUnguarded(t) ==
    /\ t \in Moves \cup Uploads
    /\ At(t, "ready")
    /\ lock = None
    /\ Save(t)
    /\ UNCHANGED <<lock, combat>>

SaveChange(t) ==
    /\ t \in Moves \cup Uploads
    /\ At(t, "ready")
    /\ lock = None
    /\ IF version = task[t].version
       THEN Save(t)
       ELSE Go(t, "failed") /\ UNCHANGED <<version, row>>
    /\ UNCHANGED <<lock, combat>>

\* startCombat's transaction, when the party's size leaves monsters out: they
\* are hidden on the map by saveCurrentMap.
BeginScaledCombat(t) ==
    /\ t \in Fights
    /\ At(t, "ready")
    /\ lock = None
    /\ ~ combat
    /\ version = task[t].version
    /\ Save(t)
    /\ combat' = TRUE
    /\ UNCHANGED lock

\* When it leaves out none, the version becomes the one read plus one.
BeginCombat(t) ==
    /\ t \in Fights
    /\ At(t, "ready")
    /\ lock = None
    /\ ~ combat
    /\ version' = task[t].version + 1
    /\ combat' = TRUE
    /\ Go(t, "shot")
    /\ UNCHANGED <<row, lock>>

CombatRefused(t) ==
    /\ t \in Fights
    /\ At(t, "ready")
    /\ lock = None
    /\ combat \/ version # task[t].version
    /\ Go(t, "failed")
    /\ UNCHANGED <<version, row, lock, combat>>
-----------------------------------------------------------------------------
(* applyInventoryMapRuntimeEffectsAtomically, in the action's transaction,  *)
(* which holds the lock from its beginning.                                 *)

StartEffectUnlocked(t) ==
    /\ t \in Effects
    /\ At(t, "sent")
    /\ Go(t, "read")
    /\ UNCHANGED <<version, row, lock, combat>>

StartEffect(t) ==
    /\ t \in Effects
    /\ At(t, "sent")
    /\ lock = None
    /\ lock' = t
    /\ Go(t, "read")
    /\ UNCHANGED <<version, row, combat>>

ReadBaseline(t) ==
    /\ t \in Effects
    /\ At(t, "read")
    /\ task' = [task EXCEPT ![t].at = "ready", ![t].map = row]
    /\ UNCHANGED <<version, row, lock, combat>>

\* The expected version is read in the same transaction as it is compared.
SaveEffect(t) ==
    /\ t \in Effects
    /\ At(t, "ready")
    /\ Save(t)
    /\ lock' = IF lock = t THEN None ELSE lock
    /\ UNCHANGED combat
-----------------------------------------------------------------------------
StoreStep(t) ==
    \/ ReadState(t)
    \/ ReadMap(t)
    \/ BringMap(t)
    \/ SaveChange(t)
    \/ BeginScaledCombat(t)
    \/ BeginCombat(t)
    \/ CombatRefused(t)
    \/ StartEffect(t)
    \/ ReadBaseline(t)
    \/ SaveEffect(t)

Next == \E t \in Tasks : StoreStep(t)

Spec == StoreInit([t \in Tasks |-> "sent"]) /\ [][Next]_storeVars
-----------------------------------------------------------------------------
(* Safety. *)

Commits(t) == ~ At(t, "saved") /\ At(t, "saved")'

\* Until a combat starts, no token move and no action's effect takes back a change
\* that somebody else has saved meanwhile, though each of them reads the whole map
\* first and replaces it later.
KeptUnlessCombat ==
    [][\A t \in Moves \cup Effects : Commits(t) /\ ~ combat => row \subseteq row']_storeVars
=============================================================================
