----------------------------- MODULE CombatTurns -----------------------------
(***************************************************************************)
(* The turns of one combat: the requests that end a turn, reload the       *)
(* combat, answer a prompt or end the fight, and the loop in which the     *)
(* server plays the monsters of a game without a human GM.                 *)
(*                                                                         *)
(* Each await on the database ends an action, so another request or the    *)
(* loop can come between; what a caller has read is kept in actors[a].     *)
(* The prompts live in one JSON column, game_state.flagsJson, which every  *)
(* writer reads as a whole and later writes back as a whole.               *)
(***************************************************************************)
EXTENDS Naturals

CONSTANTS
    Size,      \* participants, by turnOrder
    Monsters,  \* the hostile ones, played by the server
    Requests,  \* HTTP requests in flight at once
    Timer,     \* the setTimeout callback that starts a scheduled run
    MaxTurn,   \* bound: turnNo stays there
    MaxWounds, \* bound: changes to who can act
    MaxSteps   \* monsters' turns in one run of the loop (20 in the code)

ASSUME CombatTurnsAssumption ==
    /\ Size \in Nat \ {0}
    /\ Monsters \subseteq 1..Size
    /\ Timer \notin Requests
    /\ MaxTurn \in Nat \ {0}
    /\ MaxWounds \in Nat
    /\ MaxSteps \in Nat \ {0}

VARIABLES
    combat,     \* the combat row; NONE before startCombat
    fit,        \* isAlive and the incapacitating conditions of participants
    flags,      \* the prompts in flagsJson
    running,    \* runningSessionIds holds the session
    scheduled,  \* scheduledSessionIds holds it, and its timer is set
    actors,     \* what each request, and the timer's callback, is doing
    wounds      \* changes to fit so far

vars == <<combat, fit, flags, running, scheduled, actors, wounds>>

Participants == 1..Size
Nobody == 0
Players == Participants \ Monsters
Actors == Requests \cup {Timer}

Combat == [status: {"NONE", "ACTIVE", "ENDED"}, current: Participants \cup {Nobody},
           turn: 1..MaxTurn]

\* ready: whose readied action waits; triggered: whose prompt waits for the
\* answer; reaction: the mover or attacker of the one pendingCombatReaction.
Flags == [ready: SUBSET Participants, triggered: SUBSET Participants,
          reaction: Participants \cup {Nobody}]
NoFlags == [ready |-> {}, triggered |-> {}, reaction |-> Nobody]

\* What advanceCurrentTurn will write, computed from the rows it was handed.
Plan == [from: Participants \cup {Nobody}, to: Participants \cup {Nobody}, turn: 1..MaxTurn]
NoPlan == [from |-> Nobody, to |-> Nobody, turn |-> 1]

Stages == {"idle", "claim", "trigger", "after", "enter", "gate", "look", "act", "pass",
           "recover", "check", "leave", "write", "continue", "resume", "schedule",
           "complete", "end"}

\* saw: the flags to write back, and then: the stage after that write; back:
\* the stage after advanceCurrentTurn; prompted: it has raised a prompt.
Actor == [at: Stages, loop: BOOLEAN, plan: Plan, saw: Flags, then: Stages, back: Stages,
          prompted: BOOLEAN, steps: 0..MaxSteps]
Idle == [at |-> "idle", loop |-> FALSE, plan |-> NoPlan, saw |-> NoFlags, then |-> "idle",
         back |-> "idle", prompted |-> FALSE, steps |-> 0]

TypeOK ==
    /\ combat \in Combat
    /\ fit \in [Participants -> {"able", "incapacitated", "dead"}]
    /\ flags \in Flags
    /\ running \in BOOLEAN
    /\ scheduled \in BOOLEAN
    /\ actors \in [Actors -> Actor]
    /\ wounds \in Nat

Init ==
    /\ combat = [status |-> "NONE", current |-> Nobody, turn |-> 1]
    /\ fit = [p \in Participants |-> "able"]
    /\ flags = NoFlags
    /\ running = FALSE
    /\ scheduled = FALSE
    /\ actors = [a \in Actors |-> Idle]
    /\ wounds = 0
-----------------------------------------------------------------------------
At(a, stage) == actors[a].at = stage
Become(a, actor) == actors' = [actors EXCEPT ![a] = actor]
Go(a, stage) == Become(a, [actors[a] EXCEPT !.at = stage])
Finish(a) == Become(a, Idle)
Active == combat.status = "ACTIVE"
Alive == {p \in Participants : fit[p] # "dead"}
Able == {p \in Participants : fit[p] = "able"}

\* isCurrentTurnAutoMonster, and isCombatResolved.
MonsterToMove == Active /\ combat.current \in Monsters \cap Able
Resolved == Alive \cap Monsters = {} \/ Alive \cap Players = {}

\* advanceCurrentTurn: whoever can act takes a turn, or, when nobody can, whoever
\* is alive; after the last, or from somebody who is not among them, the first.
TurnTakers == IF Able # {} THEN Able ELSE Alive
Later(p) == IF p \in TurnTakers THEN {q \in TurnTakers : q > p} ELSE {}
Earliest(S) == CHOOSE p \in S : \A q \in S : p <= q

FollowingPastEnd(p) == p + 1

Following(p) ==
    IF Later(p) # {} THEN Earliest(Later(p))
    ELSE IF TurnTakers # {} THEN Earliest(TurnTakers)
    ELSE Nobody

NextTurn == IF combat.turn < MaxTurn THEN combat.turn + 1 ELSE MaxTurn

PlanNow == [from |-> combat.current, to |-> Following(combat.current), turn |-> NextTurn]

\* advanceCurrentTurn with the rows just read, to go on at back.
Advancing(a, back) ==
    [actors[a] EXCEPT !.at = "claim", !.plan = PlanNow, !.back = back]

\* Writes the flags that were read, changed, and goes on at then.
Writing(actor, saw, then) == [actor EXCEPT !.at = "write", !.saw = saw, !.then = then]
-----------------------------------------------------------------------------
(* The requests. *)

Arrive(r, actor) == At(r, "idle") /\ Become(r, actor)

\* CombatService.startCombat.
StartCombat(r, p) ==
    /\ combat.status = "NONE"
    /\ combat' = [status |-> "ACTIVE", current |-> p, turn |-> 1]
    /\ Arrive(r, IF p \in Monsters \cap Able THEN [Idle EXCEPT !.at = "enter"] ELSE Idle)
    /\ UNCHANGED <<fit, flags, running, scheduled, wounds>>

\* endTurn, of one's own turn or forced by the host.
EndTurn(r) ==
    /\ Active
    /\ combat.current # Nobody
    /\ Arrive(r, [Idle EXCEPT !.at = "claim", !.plan = PlanNow])
    /\ UNCHANGED <<combat, fit, flags, running, scheduled, wounds>>

\* getCombat, which a page calls when it opens: a monster's turn starts the loop.
GetCombat(r) ==
    /\ MonsterToMove
    /\ Arrive(r, [Idle EXCEPT !.at = "enter"])
    /\ UNCHANGED <<combat, fit, flags, running, scheduled, wounds>>

\* A player readies an action, or a move of the player calls for a reaction.
Ready(r) ==
    /\ Active
    /\ combat.current \in Players \cap Able
    /\ \E saw \in {[flags EXCEPT !.ready = @ \cup {combat.current}],
                   [flags EXCEPT !.reaction = combat.current]} :
           Arrive(r, Writing(Idle, saw, "idle"))
    /\ UNCHANGED <<combat, fit, flags, running, scheduled, wounds>>

\* acceptReaction and declineReaction, of a readied action's prompt.
AnswerReady(r, p) ==
    /\ p \in flags.triggered
    /\ Arrive(r, Writing(Idle, [flags EXCEPT !.triggered = @ \ {p}], "resume"))
    /\ UNCHANGED <<combat, fit, flags, running, scheduled, wounds>>

\* The same of an opportunity attack, a Shield or a Counterspell.
AnswerReaction(r) ==
    /\ flags.reaction # Nobody
    /\ Arrive(r, Writing([Idle EXCEPT !.plan.from = flags.reaction],
                         [flags EXCEPT !.reaction = Nobody], "continue"))
    /\ UNCHANGED <<combat, fit, flags, running, scheduled, wounds>>

\* endCombat by the host; the end of an attack that decided the combat.
EndCombat(r) ==
    /\ Active
    /\ Arrive(r, [Idle EXCEPT !.at = "complete"])
    /\ UNCHANGED <<combat, fit, flags, running, scheduled, wounds>>

\* Damage, healing and conditions.
Wound(p) ==
    /\ Active
    /\ wounds < MaxWounds
    /\ wounds' = wounds + 1
    /\ \E state \in {"able", "incapacitated", "dead"} \ {fit[p]} :
           fit' = [fit EXCEPT ![p] = state]
    /\ UNCHANGED <<combat, flags, running, scheduled, actors>>
-----------------------------------------------------------------------------
(* The end of a turn. *)

\* A claim that lost the race throws TURN_409: executeAutoMonsterTurn's caller
\* looks whose turn it is now, otherwise the loop stops or the request fails.
Refused(a) ==
    IF ~ actors[a].loop THEN Idle
    ELSE [actors[a] EXCEPT !.at = IF @ = "claim" /\ actors[a].back = "check"
                                  THEN "recover" ELSE "leave"]

\* The updateMany whose where names the participant whose turn was read.
Claim(a) ==
    /\ At(a, "claim")
    /\ IF combat.current = actors[a].plan.from
       THEN /\ combat' = [combat EXCEPT !.current = actors[a].plan.to,
                                        !.turn = actors[a].plan.turn]
            /\ Go(a, "trigger")
       ELSE /\ Become(a, Refused(a))
            /\ UNCHANGED combat
    /\ UNCHANGED <<fit, flags, running, scheduled, wounds>>

\* The readied actions that the end and the start of a turn trigger, those that
\* expire, and those of participants who can no longer act.
Trigger(a) ==
    /\ At(a, "trigger")
    /\ \E hit \in SUBSET (flags.ready \cap Able), late \in SUBSET flags.ready :
           LET kept == (flags.ready \cap Able) \ (hit \cup late)
               seen == [actors[a] EXCEPT !.prompted = (hit # {})]
           IN Become(a, IF kept = flags.ready THEN [seen EXCEPT !.at = "after"]
                        ELSE Writing(seen, [flags EXCEPT !.ready = kept,
                                                         !.triggered = @ \cup hit], "after"))
    /\ UNCHANGED <<combat, fit, flags, running, scheduled, wounds>>

Write(a) ==
    /\ At(a, "write")
    /\ flags' = actors[a].saw
    /\ Become(a, IF actors[a].then = "idle" THEN Idle
                 ELSE [actors[a] EXCEPT !.at = actors[a].then, !.saw = NoFlags, !.then = "idle"])
    /\ UNCHANGED <<combat, fit, running, scheduled, wounds>>

RunAgain(a) == Become(a, [Idle EXCEPT !.at = "gate", !.loop = TRUE]) /\ running' = TRUE

\* runServerAutoMonsterTurns, up to the loop: one run at a time.
Run(a) ==
    IF running
    THEN Finish(a) /\ UNCHANGED running
    ELSE Become(a, [Idle EXCEPT !.at = "gate", !.loop = TRUE]) /\ running' = TRUE

\* advanceCurrentTurn after the triggers: terrain and conditions may have
\* decided the combat; otherwise the monsters are given their turn.
After(a) ==
    /\ At(a, "after")
    /\ \/ /\ ~ Active
          /\ Become(a, Refused(a))
          /\ UNCHANGED running
       \/ /\ Active /\ Resolved
          /\ Go(a, "complete")
          /\ UNCHANGED running
       \/ /\ Active
          /\ IF actors[a].loop
             THEN /\ Become(a, [actors[a] EXCEPT !.at = actors[a].back, !.plan = NoPlan,
                                                 !.back = "idle", !.prompted = FALSE])
                  /\ UNCHANGED running
             ELSE IF actors[a].prompted THEN Finish(a) /\ UNCHANGED running ELSE Run(a)
    /\ UNCHANGED <<combat, fit, flags, scheduled, wounds>>

\* completeCombat: the flags are read, then a transaction ends the combat.
Complete(a) ==
    /\ At(a, "complete")
    /\ Become(a, [actors[a] EXCEPT !.at = "end", !.saw = flags])
    /\ UNCHANGED <<combat, fit, flags, running, scheduled, wounds>>

EndKeepsSeat(a) ==
    /\ At(a, "end")
    /\ combat' = IF Active THEN [combat EXCEPT !.status = "ENDED"] ELSE combat
    /\ flags' = actors[a].saw
    /\ Become(a, IF actors[a].loop THEN [Idle EXCEPT !.at = "leave", !.loop = TRUE] ELSE Idle)
    /\ UNCHANGED <<fit, running, scheduled, wounds>>

\* completeActiveCombatState, completeSessionAfterPartyDefeat.
End(a) ==
    /\ At(a, "end")
    /\ combat' = IF Active THEN [combat EXCEPT !.status = "ENDED", !.current = Nobody]
                 ELSE combat
    /\ flags' = actors[a].saw
    /\ Become(a, IF actors[a].loop THEN [Idle EXCEPT !.at = "leave", !.loop = TRUE] ELSE Idle)
    /\ UNCHANGED <<fit, running, scheduled, wounds>>
-----------------------------------------------------------------------------
(* The monsters' turns. *)

\* hasPendingTriggeredReadyAction: prompts of those who cannot act are dropped.
Waiting == flags.triggered \cap Able
Tidied == [flags EXCEPT !.triggered = Waiting]

\* startCombat and getCombat have seen a monster's turn; a prompt keeps them
\* from starting the loop.
Enter(a) ==
    /\ At(a, "enter")
    /\ IF Waiting # {} THEN Finish(a) /\ UNCHANGED running ELSE Run(a)
    /\ UNCHANGED <<combat, fit, flags, scheduled, wounds>>

\* The head of the loop.
Gate(a) ==
    /\ At(a, "gate")
    /\ LET then == IF Waiting # {} THEN "leave" ELSE "look" IN
       Become(a, IF actors[a].steps = MaxSteps THEN [actors[a] EXCEPT !.at = "leave"]
                 ELSE IF Tidied # flags
                      THEN Writing([actors[a] EXCEPT !.steps = @ + 1], Tidied, then)
                      ELSE [actors[a] EXCEPT !.at = then, !.steps = @ + 1])
    /\ UNCHANGED <<combat, fit, flags, running, scheduled, wounds>>

\* The combat is read: decided, an incapacitated monster's turn, a monster's.
Look(a) ==
    /\ At(a, "look")
    /\ Become(a, IF Active /\ Resolved THEN [actors[a] EXCEPT !.at = "complete"]
                 ELSE IF Active /\ combat.current \in Monsters /\ fit[combat.current] = "incapacitated"
                      THEN Advancing(a, "gate")
                 ELSE IF MonsterToMove
                      THEN [actors[a] EXCEPT !.at = "act", !.plan = PlanNow]
                 ELSE [actors[a] EXCEPT !.at = "leave"])
    /\ UNCHANGED <<combat, fit, flags, running, scheduled, wounds>>

\* executeAutoMonsterTurn: the monster moves and attacks; the rows are read
\* again before its turn is passed on.
ActEndsTurn(a) ==
    /\ At(a, "act") \/ At(a, "pass")
    /\ Become(a, IF ~ Active THEN [actors[a] EXCEPT !.at = "recover"]
                 ELSE IF combat.current = actors[a].plan.from THEN Advancing(a, "check")
                 ELSE [actors[a] EXCEPT !.at = "claim", !.back = "check"])
    /\ UNCHANGED <<combat, fit, flags, running, scheduled, wounds>>

\* The move or the attack raises a prompt for a player and stops there.
ActAsks(a) ==
    /\ At(a, "act")
    /\ Become(a, Writing([actors[a] EXCEPT !.plan = NoPlan],
                         [flags EXCEPT !.reaction = actors[a].plan.from], "check"))
    /\ UNCHANGED <<combat, fit, flags, running, scheduled, wounds>>

\* The attack triggers readied actions on its way.
ActTriggers(a) ==
    /\ At(a, "act")
    /\ \E hit \in SUBSET (flags.ready \cap Able) \ {{}} :
           Become(a, Writing(actors[a], [flags EXCEPT !.ready = @ \ hit,
                                                      !.triggered = @ \cup hit], "pass"))
    /\ UNCHANGED <<combat, fit, flags, running, scheduled, wounds>>

\* It dies on the way, it decides the combat, or something throws.
ActBreaksOff(a) ==
    /\ At(a, "act")
    /\ \/ Resolved /\ Go(a, "complete")
       \/ fit[actors[a].plan.from] = "dead" /\ Go(a, "check")
       \/ Go(a, "recover")
    /\ UNCHANGED <<combat, fit, flags, running, scheduled, wounds>>

RecoverAnyTurn(a) ==
    /\ At(a, "recover")
    /\ Become(a, IF ~ Active THEN [actors[a] EXCEPT !.at = "leave"] ELSE Advancing(a, "gate"))
    /\ UNCHANGED <<combat, fit, flags, running, scheduled, wounds>>

\* The catch of the loop: the turn is passed on if it is still the monster's.
Recover(a) ==
    /\ At(a, "recover")
    /\ Become(a, IF ~ Active THEN [actors[a] EXCEPT !.at = "leave"]
                 ELSE IF combat.current = actors[a].plan.from THEN Advancing(a, "gate")
                 ELSE [actors[a] EXCEPT !.at = "gate", !.plan = NoPlan])
    /\ UNCHANGED <<combat, fit, flags, running, scheduled, wounds>>

\* hasPendingCombatReaction after each monster.
Check(a) ==
    /\ At(a, "check")
    /\ Become(a, [actors[a] EXCEPT !.at = IF flags.reaction # Nobody THEN "leave" ELSE "gate",
                                   !.plan = NoPlan])
    /\ UNCHANGED <<combat, fit, flags, running, scheduled, wounds>>

LeaveRunning(a) ==
    /\ At(a, "leave")
    /\ Finish(a)
    /\ UNCHANGED <<combat, fit, flags, running, scheduled, wounds>>

\* The finally of runServerAutoMonsterTurns.
Leave(a) ==
    /\ At(a, "leave")
    /\ running' = FALSE
    /\ Finish(a)
    /\ UNCHANGED <<combat, fit, flags, scheduled, wounds>>
-----------------------------------------------------------------------------
(* After an answer. *)

\* resolvePendingOpportunityContinuation and its like: the interrupted attack
\* goes on; it may ask again, end the monster's turn, or leave it as it is.
Continue(a) ==
    /\ At(a, "continue")
    /\ \/ Finish(a)
       \/ /\ Active
          /\ Become(a, Writing(Idle, [flags EXCEPT !.reaction = actors[a].plan.from], "idle"))
       \/ /\ Active
          /\ combat.current = actors[a].plan.from
          /\ combat.current \in Monsters
          /\ flags.reaction = Nobody
          /\ Become(a, Advancing(a, "idle"))
       \/ Active /\ Resolved /\ Go(a, "complete")
    /\ UNCHANGED <<combat, fit, flags, running, scheduled, wounds>>

\* resumeAutoMonsterTurnAfterReadyReaction: the combat is read, then the flags.
Resume(a) ==
    /\ At(a, "resume")
    /\ Become(a, IF MonsterToMove THEN [actors[a] EXCEPT !.at = "schedule"] ELSE Idle)
    /\ UNCHANGED <<combat, fit, flags, running, scheduled, wounds>>

\* scheduleServerAutoMonsterTurns.
Schedule(a) ==
    /\ At(a, "schedule")
    /\ IF Waiting = {} /\ flags.reaction = Nobody /\ ~ running
       THEN scheduled' = TRUE
       ELSE UNCHANGED scheduled
    /\ Finish(a)
    /\ UNCHANGED <<combat, fit, flags, running, wounds>>

\* The timer fires.
Fire ==
    /\ scheduled
    /\ At(Timer, "idle")
    /\ scheduled' = FALSE
    /\ Run(Timer)
    /\ UNCHANGED <<combat, fit, flags, wounds>>
-----------------------------------------------------------------------------
Receive(r) ==
    \/ \E p \in Participants : StartCombat(r, p) \/ AnswerReady(r, p)
    \/ EndTurn(r)
    \/ GetCombat(r)
    \/ Ready(r)
    \/ AnswerReaction(r)
    \/ EndCombat(r)

Act(a) == ActEndsTurn(a) \/ ActAsks(a) \/ ActTriggers(a) \/ ActBreaksOff(a)

Step(a) ==
    \/ Claim(a)
    \/ Trigger(a)
    \/ Write(a)
    \/ After(a)
    \/ Complete(a)
    \/ End(a)
    \/ Enter(a)
    \/ Gate(a)
    \/ Look(a)
    \/ Act(a)
    \/ Recover(a)
    \/ Check(a)
    \/ Leave(a)
    \/ Continue(a)
    \/ Resume(a)
    \/ Schedule(a)

Next ==
    \/ \E r \in Requests : Receive(r)
    \/ \E a \in Actors : Step(a)
    \/ Fire
    \/ \E p \in Participants : Wound(p)

Spec == Init /\ [][Next]_vars

\* The database answers, and the timer fires.
FairSpec ==
    /\ Spec
    /\ \A a \in Actors : WF_vars(Step(a))
    /\ WF_vars(Fire)
-----------------------------------------------------------------------------
(* Safety. *)

\* The server never plays the monsters of a session twice at once, although a
\* reload, the end of a turn, an answer and the timer may all start the loop;
\* and the flag is up exactly while somebody is in it.
OneMonsterLoop ==
    /\ \A a, b \in Actors : actors[a].loop /\ actors[b].loop => a = b
    /\ running <=> \E a \in Actors : actors[a].loop

\* No request that has read the combat while it went on gives somebody a turn
\* in it after it has ended.
EndedHasNoTurn == combat.status = "ENDED" => combat.current = Nobody

\* The loop passes on the turns of monsters only, however late its error
\* handling comes and whoever has moved on meanwhile.
LoopPassesMonstersOnly ==
    \A a \in Actors : actors[a].loop /\ At(a, "claim") => actors[a].plan.from \in Monsters

(* Liveness. *)

\* Whatever happens inside it, a run of the loop comes to its end, so the next
\* request can start another one.
LoopEnds == running ~> ~ running
=============================================================================
