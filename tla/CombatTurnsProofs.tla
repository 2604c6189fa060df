--------------------------- MODULE CombatTurnsProofs ---------------------------
(***************************************************************************)
(* Proofs about CombatTurns, for any number of participants, requests and  *)
(* steps of the loop.  The invariant says of each stage whether whoever    *)
(* is in it runs the loop, where it goes on, and whose turn it ends.       *)
(***************************************************************************)
EXTENDS CombatTurns, WellFoundedInduction, TLAPS

LoopStages == {"gate", "look", "act", "pass", "recover", "check", "leave"}
FreeStages == {"idle", "enter", "continue", "resume", "schedule"}

\* The stage x is in, or is about to be in when its flags are written.
Toward(x) == IF x.at = "write" THEN x.then ELSE x.at

Fits(x) ==
    /\ Toward(x) # "write"
    /\ Toward(x) \in LoopStages => x.loop
    /\ Toward(x) \in FreeStages => ~ x.loop
    /\ x.loop /\ Toward(x) \in {"claim", "trigger", "after"} => x.back \in {"check", "gate"}
    /\ Toward(x) \in {"act", "pass", "recover"} => x.plan.from \in Monsters
    /\ Toward(x) = "claim" => x.plan.from # Nobody /\ (x.loop => x.plan.from \in Monsters)

TurnInv ==
    /\ TypeOK
    /\ \A a \in Actors : Fits(actors[a])
    /\ OneMonsterLoop
    /\ EndedHasNoTurn

\* What a step of a does to the loop: nothing, a enters it, or a leaves it.
Becomes(a, x) ==
    /\ x \in Actor
    /\ Fits(x)
    /\ actors' = [actors EXCEPT ![a] = x]
    /\ \/ x.loop = actors[a].loop /\ running' = running
       \/ ~ actors[a].loop /\ x.loop /\ ~ running /\ running' = TRUE
       \/ actors[a].loop /\ ~ x.loop /\ running' = FALSE
-----------------------------------------------------------------------------
\* The first of the participants in a set is one of them.
LEMMA EarliestType ==
    ASSUME NEW S \in SUBSET Participants, S # {}
    PROVE  Earliest(S) \in S
<1>1. S \subseteq Nat
  BY CombatTurnsAssumption DEF Participants
<1>2. PICK p \in S : \A q \in S : ~ (<<q, p>> \in OpToRel(<, Nat))
  BY <1>1, NatLessThanWellFounded, WFMin
<1>3. \A q \in S : ~ (q < p)
  BY <1>1, <1>2, Zenon DEF OpToRel
<1>4. \A q \in S : p <= q
  BY <1>1, <1>3
<1> QED
  BY <1>4 DEF Earliest

\* advanceCurrentTurn gives the turn to a participant or to nobody.
LEMMA FollowingType ==
    ASSUME NEW p, TypeOK
    PROVE  Following(p) \in Participants \cup {Nobody}
<1>1. TurnTakers \in SUBSET Participants
  BY DEF TurnTakers, Able, Alive
<1>2. Later(p) \in SUBSET Participants
  BY <1>1 DEF Later
<1> QED
  BY <1>1, <1>2, EarliestType DEF Following

LEMMA PlanType ==
    ASSUME TypeOK
    PROVE  PlanNow \in Plan /\ PlanNow.from = combat.current
<1>1. NextTurn \in 1..MaxTurn
  BY CombatTurnsAssumption DEF TypeOK, Combat, NextTurn
<1>2. combat.current \in Participants \cup {Nobody}
  BY DEF TypeOK, Combat
<1> QED
  BY <1>1, <1>2, FollowingType DEF PlanNow, Plan

LEMMA ConstantTypes ==
    /\ NoPlan \in Plan
    /\ NoFlags \in Flags
    /\ Idle \in Actor
    /\ Fits(Idle)
    /\ ~ Idle.loop
<1>1. NoPlan \in Plan /\ NoFlags \in Flags
  BY CombatTurnsAssumption DEF NoPlan, Plan, NoFlags, Flags
<1>2. Idle \in Actor
  BY <1>1, CombatTurnsAssumption DEF Idle, Actor, Stages
<1> QED
  BY <1>1, <1>2 DEF Idle, Fits, Toward, LoopStages, FreeStages

\* Nobody is not a monster.
LEMMA MonstersAreSomebody == Nobody \notin Monsters
BY CombatTurnsAssumption DEF Nobody
-----------------------------------------------------------------------------
\* A step that leaves running alone and keeps a where it is, in the loop or not.
LEMMA Steady ==
    ASSUME NEW a \in Actors, NEW x \in Actor, Fits(x), x.loop = actors[a].loop,
           Become(a, x), running' = running
    PROVE  \E y : Becomes(a, y)
BY DEF Become, Becomes

LEMMA RunBecomes ==
    ASSUME TurnInv, NEW a \in Actors, ~ actors[a].loop, Run(a)
    PROVE  \E x : Becomes(a, x)
<1> DEFINE in == [Idle EXCEPT !.at = "gate", !.loop = TRUE]
<1>1. CASE running
  <2>1. actors[a].loop \in BOOLEAN /\ Idle.loop \in BOOLEAN
    BY ConstantTypes DEF TurnInv, TypeOK, Actor
  <2> QED
    BY <1>1, <2>1, Steady, ConstantTypes DEF Run, Finish
<1>2. CASE ~ running
  <2>1. in \in Actor
    BY ConstantTypes DEF Actor, Stages
  <2>2. Fits(in) /\ in.loop
    BY DEF Idle, Fits, Toward, LoopStages, FreeStages
  <2> QED
    BY <1>2, <2>1, <2>2 DEF Run, Become, Becomes
<1> QED
  BY <1>1, <1>2

\* The stages in which advanceCurrentTurn has just read the rows.
LEMMA AdvancingFits ==
    ASSUME TurnInv, NEW a \in Actors, NEW back \in {"check", "gate", "idle"},
           combat.current # Nobody,
           actors[a].loop => back # "idle" /\ combat.current \in Monsters
    PROVE  /\ Advancing(a, back) \in Actor
           /\ Fits(Advancing(a, back))
           /\ Advancing(a, back).loop = actors[a].loop
<1>1. actors[a] \in Actor
  BY DEF TurnInv, TypeOK
<1>2. Advancing(a, back) \in Actor
  BY <1>1, PlanType DEF TurnInv, Advancing, Actor, Stages
<1>3. /\ Advancing(a, back).at = "claim"
      /\ Advancing(a, back).plan.from = combat.current
      /\ Advancing(a, back).back = back
      /\ Advancing(a, back).loop = actors[a].loop
  BY <1>1, PlanType DEF TurnInv, Advancing, Actor
<1> QED
  BY <1>2, <1>3 DEF Fits, Toward, LoopStages, FreeStages

\* What an actor that is to write its flags fits is what it fits afterwards.
LEMMA WritingFits ==
    ASSUME NEW x \in Actor, NEW saw \in Flags, NEW then \in Stages \ {"write"},
           Fits([x EXCEPT !.at = then])
    PROVE  /\ Writing(x, saw, then) \in Actor
           /\ Fits(Writing(x, saw, then))
           /\ Writing(x, saw, then).loop = x.loop
<1>1. Writing(x, saw, then) \in Actor
  BY DEF Writing, Actor, Stages
<1>2. /\ Writing(x, saw, then).at = "write"
      /\ Writing(x, saw, then).then = then
      /\ Writing(x, saw, then).loop = x.loop
      /\ Writing(x, saw, then).back = x.back
      /\ Writing(x, saw, then).plan = x.plan
  BY DEF Writing, Actor
<1>3. /\ [x EXCEPT !.at = then].at = then
      /\ [x EXCEPT !.at = then].loop = x.loop
      /\ [x EXCEPT !.at = then].back = x.back
      /\ [x EXCEPT !.at = then].plan = x.plan
  BY DEF Actor
<1> QED
  BY <1>1, <1>2, <1>3 DEF Fits, Toward

\* A request arrives out of the loop and stays out of it.
LEMMA ReceiveBecomes ==
    ASSUME TurnInv, NEW r \in Requests, Receive(r)
    PROVE  \E x : Becomes(r, x)
<1> DEFINE now == [Idle EXCEPT !.at = "enter"]
           end == [Idle EXCEPT !.at = "claim", !.plan = PlanNow]
           done == [Idle EXCEPT !.at = "complete"]
<1>1. r \in Actors /\ actors[r] \in Actor /\ Fits(actors[r])
  BY DEF Actors, TurnInv, TypeOK
<1>2. ASSUME NEW x \in Actor, Fits(x), ~ x.loop, Arrive(r, x), running' = running
      PROVE  \E y : Becomes(r, y)
  <2>1. ~ actors[r].loop
    BY <1>1, <1>2 DEF Arrive, At, Fits, Toward, FreeStages
  <2>2. x.loop = actors[r].loop
    BY <1>1, <1>2, <2>1 DEF Actor
  <2> QED
    BY <1>1, <1>2, <2>2, Steady DEF Arrive
<1>3. now \in Actor /\ Fits(now) /\ ~ now.loop
  BY ConstantTypes DEF Idle, Actor, Stages, Fits, Toward, LoopStages, FreeStages
<1>4. ASSUME combat.current # Nobody PROVE end \in Actor /\ Fits(end) /\ ~ end.loop
  <2>1. end \in Actor
    BY PlanType, ConstantTypes DEF TurnInv, Actor, Stages
  <2>2. end.at = "claim" /\ end.plan = PlanNow /\ ~ end.loop
    BY DEF Idle
  <2>3. PlanNow.from # Nobody
    BY <1>4, PlanType DEF TurnInv
  <2> QED
    BY <2>1, <2>2, <2>3 DEF Fits, Toward, LoopStages, FreeStages
<1>5. done \in Actor /\ Fits(done) /\ ~ done.loop
  BY ConstantTypes DEF Idle, Actor, Stages, Fits, Toward, LoopStages, FreeStages
<1>6. ASSUME NEW p \in Participants, StartCombat(r, p) PROVE \E x : Becomes(r, x)
  BY <1>2, <1>3, <1>6, ConstantTypes DEF StartCombat
<1>7. CASE EndTurn(r)
  BY <1>2, <1>4, <1>7 DEF EndTurn
<1>8. CASE GetCombat(r)
  BY <1>2, <1>3, <1>8 DEF GetCombat
<1>9. CASE Ready(r)
  <2>1. combat.current \in Participants /\ flags.ready \in SUBSET Participants
    BY <1>9 DEF Ready, Able, Players, TurnInv, TypeOK, Flags
  <2>2. ASSUME NEW saw \in Flags
        PROVE  Writing(Idle, saw, "idle") \in Actor /\ Fits(Writing(Idle, saw, "idle"))
               /\ ~ Writing(Idle, saw, "idle").loop
    <3>1. Fits([Idle EXCEPT !.at = "idle"])
      BY DEF Idle, Fits, Toward, LoopStages, FreeStages
    <3> QED
      BY <3>1, WritingFits, ConstantTypes DEF Stages
  <2>3. [flags EXCEPT !.ready = @ \cup {combat.current}] \in Flags
    BY <2>1 DEF TurnInv, TypeOK, Flags
  <2>4. [flags EXCEPT !.reaction = combat.current] \in Flags
    BY <2>1 DEF TurnInv, TypeOK, Flags
  <2> QED
    BY <1>2, <1>9, <2>2, <2>3, <2>4 DEF Ready
<1>10. ASSUME NEW p \in Participants, AnswerReady(r, p) PROVE \E x : Becomes(r, x)
  <2> DEFINE saw == [flags EXCEPT !.triggered = @ \ {p}]
  <2>1. saw \in Flags
    BY DEF TurnInv, TypeOK, Flags
  <2>2. Fits([Idle EXCEPT !.at = "resume"])
    BY DEF Idle, Fits, Toward, LoopStages, FreeStages
  <2>3. /\ Writing(Idle, saw, "resume") \in Actor
        /\ Fits(Writing(Idle, saw, "resume"))
        /\ ~ Writing(Idle, saw, "resume").loop
    BY <2>1, <2>2, WritingFits, ConstantTypes DEF Stages
  <2> QED
    BY <1>2, <1>10, <2>3 DEF AnswerReady
<1>11. CASE AnswerReaction(r)
  <2> DEFINE saw == [flags EXCEPT !.reaction = Nobody]
             x == [Idle EXCEPT !.plan.from = flags.reaction]
  <2>1. saw \in Flags
    BY DEF TurnInv, TypeOK, Flags
  <2>2. x \in Actor /\ ~ x.loop
    BY ConstantTypes DEF Idle, NoPlan, Plan, Actor, TurnInv, TypeOK, Flags
  <2>3. Fits([x EXCEPT !.at = "continue"])
    BY DEF Idle, Fits, Toward, LoopStages, FreeStages
  <2>4. /\ Writing(x, saw, "continue") \in Actor
        /\ Fits(Writing(x, saw, "continue"))
        /\ ~ Writing(x, saw, "continue").loop
    BY <2>1, <2>2, <2>3, WritingFits DEF Stages
  <2> QED
    BY <1>2, <1>11, <2>4 DEF AnswerReaction
<1>12. CASE EndCombat(r)
  BY <1>2, <1>5, <1>12 DEF EndCombat
<1> QED
  BY <1>6, <1>7, <1>8, <1>9, <1>10, <1>11, <1>12 DEF Receive
-----------------------------------------------------------------------------
\* One step of a, which may start or end the loop.
LEMMA StepBecomes ==
    ASSUME TurnInv, NEW a \in Actors, Step(a)
    PROVE  \E x : Becomes(a, x)
<1> DEFINE self == actors[a]
           leaving == [Idle EXCEPT !.at = "leave", !.loop = TRUE]
<1>1. self \in Actor /\ Fits(self) /\ flags \in Flags
  BY DEF TurnInv, TypeOK
\* Going to a stage that asks of a no more than the one it is in.
<1>2. ASSUME NEW stage \in Stages, Fits([self EXCEPT !.at = stage]),
             Go(a, stage), running' = running
      PROVE  \E x : Becomes(a, x)
  <2>1. [self EXCEPT !.at = stage] \in Actor /\ [self EXCEPT !.at = stage].loop = self.loop
    BY <1>1 DEF Actor
  <2> QED
    BY <1>2, <2>1, Steady DEF Go
<1>3. ASSUME ~ self.loop, Become(a, Idle), running' = running
      PROVE  \E x : Becomes(a, x)
  BY <1>1, <1>3, Steady, ConstantTypes DEF Actor
<1>4. ASSUME NEW then \in Stages, self.at # "write", Fits([self EXCEPT !.at = then]),
             NEW saw \in Flags, then # "write", Become(a, Writing(self, saw, then)),
             running' = running
      PROVE  \E x : Becomes(a, x)
  BY <1>1, <1>4, WritingFits, Steady
<1>5. CASE Claim(a)
  <2>1. self.plan.from # Nobody /\ (self.loop => self.plan.from \in Monsters)
    BY <1>1, <1>5 DEF Claim, At, Fits, Toward
  <2>2. CASE combat.current = self.plan.from
    <3>1. Fits([self EXCEPT !.at = "trigger"])
      BY <1>1, <1>5 DEF Claim, At, Fits, Toward, Actor, LoopStages, FreeStages
    <3> QED
      BY <1>2, <1>5, <2>2, <3>1 DEF Claim, Stages
  <2>3. CASE combat.current # self.plan.from
    <3>1. CASE ~ self.loop
      BY <1>3, <1>5, <2>3, <3>1 DEF Claim, Refused
    <3>2. CASE self.loop
      <4>1. Fits([self EXCEPT !.at = "recover"]) /\ Fits([self EXCEPT !.at = "leave"])
        BY <1>1, <2>1, <3>2 DEF Fits, Toward, Actor, LoopStages, FreeStages
      <4>2. \E stage \in {"recover", "leave"} : Go(a, stage)
        BY <1>5, <2>3, <3>2 DEF Claim, Refused, Go
      <4> QED
        BY <1>2, <1>5, <4>1, <4>2 DEF Claim, Stages
    <3> QED
      BY <3>1, <3>2
  <2> QED
    BY <2>2, <2>3
<1>6. CASE Trigger(a)
  <2>1. PICK hit \in SUBSET (flags.ready \cap Able), late \in SUBSET flags.ready :
           LET kept == (flags.ready \cap Able) \ (hit \cup late)
               seen == [self EXCEPT !.prompted = (hit # {})]
           IN Become(a, IF kept = flags.ready THEN [seen EXCEPT !.at = "after"]
                        ELSE Writing(seen, [flags EXCEPT !.ready = kept,
                                                         !.triggered = @ \cup hit], "after"))
    BY <1>6 DEF Trigger
  <2> DEFINE kept == (flags.ready \cap Able) \ (hit \cup late)
             seen == [self EXCEPT !.prompted = (hit # {})]
             saw == [flags EXCEPT !.ready = kept, !.triggered = @ \cup hit]
  <2>2. seen \in Actor /\ seen.loop = self.loop
    BY <1>1 DEF Actor
  <2>3. [seen EXCEPT !.at = "after"] \in Actor /\ Fits([seen EXCEPT !.at = "after"])
        /\ [seen EXCEPT !.at = "after"].loop = self.loop
    BY <1>1, <1>6 DEF Trigger, At, Fits, Toward, Actor, Stages, LoopStages, FreeStages
  <2>4. saw \in Flags
    BY <1>1 DEF Flags, Able
  <2>5. Writing(seen, saw, "after") \in Actor /\ Fits(Writing(seen, saw, "after"))
        /\ Writing(seen, saw, "after").loop = self.loop
    <3> HIDE DEF seen, saw
    <3>1. Writing(seen, saw, "after").loop = seen.loop
      BY <2>2, <2>3, <2>4, WritingFits DEF Stages
    <3> QED
      BY <2>2, <2>3, <2>4, <3>1, WritingFits DEF Stages
  <2>6. running' = running
    BY <1>6 DEF Trigger
  <2>7. Become(a, [seen EXCEPT !.at = "after"]) \/ Become(a, Writing(seen, saw, "after"))
    BY <2>1
  <2> QED
    BY <2>3, <2>5, <2>6, <2>7, Steady
<1>7. CASE Write(a)
  <2> DEFINE next == [self EXCEPT !.at = self.then, !.saw = NoFlags, !.then = "idle"]
  <2>1. self.at = "write" /\ running' = running
    BY <1>7 DEF Write, At
  <2>2. CASE self.then = "idle"
    BY <1>1, <1>3, <1>7, <2>1, <2>2 DEF Write, Fits, Toward, FreeStages
  <2>3. CASE self.then # "idle"
    <3>1. next \in Actor /\ next.loop = self.loop
      BY <1>1, ConstantTypes DEF Actor, Stages
    <3>2. Fits(next)
      BY <1>1, <2>1 DEF Fits, Toward, Actor, LoopStages, FreeStages
    <3> QED
      BY <1>7, <2>1, <2>3, <3>1, <3>2, Steady DEF Write
  <2> QED
    BY <2>2, <2>3
<1>8. CASE After(a)
  <2>1. CASE self.loop
    <3> DEFINE next == [self EXCEPT !.at = self.back, !.plan = NoPlan,
                                    !.back = "idle", !.prompted = FALSE]
    <3>1. self.at = "after" /\ running' = running
      BY <1>8, <2>1 DEF After, At
    <3>2. Fits([self EXCEPT !.at = "leave"]) /\ Fits([self EXCEPT !.at = "complete"])
      BY <1>1, <2>1 DEF Fits, Toward, Actor, LoopStages, FreeStages
    <3>3. next \in Actor /\ Fits(next) /\ next.loop = self.loop
      BY <1>1, <2>1, <3>1, ConstantTypes
      DEF Fits, Toward, Actor, Stages, LoopStages, FreeStages
    <3>4. Go(a, "leave") \/ Go(a, "complete") \/ Become(a, next)
      BY <1>8, <2>1, <3>1 DEF After, Refused, Go
    <3> QED
      BY <1>2, <3>1, <3>2, <3>3, <3>4, Steady DEF Stages
  <2>2. CASE ~ self.loop
    <3>1. Fits([self EXCEPT !.at = "complete"])
      BY <1>1, <2>2 DEF Fits, Toward, Actor, LoopStages, FreeStages
    <3>2. \/ Become(a, Idle) /\ running' = running
          \/ Go(a, "complete") /\ running' = running
          \/ Run(a)
      BY <1>8, <2>2 DEF After, Refused, Finish
    <3> QED
      BY <1>2, <1>3, <2>2, <3>1, <3>2, RunBecomes DEF Stages
  <2> QED
    BY <2>1, <2>2
<1>9. CASE Complete(a)
  <2> DEFINE next == [self EXCEPT !.at = "end", !.saw = flags]
  <2>1. next \in Actor /\ next.loop = self.loop /\ next.at = "end"
    BY <1>1 DEF Actor, Stages
  <2>2. Fits(next)
    BY <2>1 DEF Fits, Toward, LoopStages, FreeStages
  <2> QED
    BY <1>9, <2>1, <2>2, Steady DEF Complete
<1>10. CASE End(a)
  <2>1. leaving \in Actor /\ Fits(leaving) /\ leaving.loop
    BY ConstantTypes DEF Idle, Fits, Toward, Actor, Stages, LoopStages, FreeStages
  <2>2. CASE self.loop
    BY <1>1, <1>10, <2>1, <2>2, Steady DEF End, Actor
  <2>3. CASE ~ self.loop
    BY <1>3, <1>10, <2>3 DEF End
  <2> QED
    BY <2>2, <2>3
<1>11. CASE Enter(a)
  <2>1. ~ self.loop
    BY <1>1, <1>11 DEF Enter, At, Fits, Toward, FreeStages
  <2> QED
    BY <1>3, <1>11, <2>1, RunBecomes DEF Enter, Finish
<1>12. CASE Gate(a)
  <2> DEFINE more == [self EXCEPT !.steps = @ + 1]
  <2>1. self.at = "gate" /\ self.loop /\ running' = running
    BY <1>1, <1>12 DEF Gate, At, Fits, Toward, LoopStages
  <2>2. Fits([self EXCEPT !.at = "leave"])
    BY <1>1, <2>1 DEF Fits, Toward, Actor, LoopStages, FreeStages
  <2>3. CASE self.steps = MaxSteps
    BY <1>2, <1>12, <2>1, <2>2, <2>3 DEF Gate, Go, Stages
  <2>4. CASE self.steps # MaxSteps
    <3>1. more \in Actor /\ more.loop
      BY <1>1, <2>1, <2>4, CombatTurnsAssumption DEF Actor
    <3>2. ASSUME NEW then \in {"leave", "look"}
          PROVE  /\ [self EXCEPT !.at = then, !.steps = @ + 1] \in Actor
                 /\ Fits([self EXCEPT !.at = then, !.steps = @ + 1])
                 /\ [self EXCEPT !.at = then, !.steps = @ + 1].loop
                 /\ Fits([more EXCEPT !.at = then])
      <4>1. [self EXCEPT !.at = then, !.steps = @ + 1] \in Actor
        <5>1. self.steps + 1 \in 0..MaxSteps
          BY <1>1, <2>4, CombatTurnsAssumption DEF Actor
        <5> QED
          BY <1>1, <5>1 DEF Actor, Stages
      <4>2. /\ [self EXCEPT !.at = then, !.steps = @ + 1].at = then
            /\ [self EXCEPT !.at = then, !.steps = @ + 1].loop
            /\ [more EXCEPT !.at = then].at = then
            /\ [more EXCEPT !.at = then].loop
        BY <1>1, <2>1, <3>1 DEF Actor
      <4> QED
        BY <4>1, <4>2 DEF Fits, Toward, LoopStages, FreeStages
    <3>3. Tidied \in Flags
      BY <1>1 DEF Tidied, Waiting, Flags
    <3>4. ASSUME NEW then \in {"leave", "look"}
          PROVE  /\ Writing(more, Tidied, then) \in Actor
                 /\ Fits(Writing(more, Tidied, then))
                 /\ Writing(more, Tidied, then).loop
      BY <3>1, <3>2, <3>3, WritingFits DEF Stages
    <3>5. \E then \in {"leave", "look"} :
             \/ Become(a, [self EXCEPT !.at = then, !.steps = @ + 1])
             \/ Become(a, Writing(more, Tidied, then))
      BY <1>12, <2>4 DEF Gate
    <3> QED
      BY <1>1, <2>1, <3>2, <3>4, <3>5, Steady DEF Actor
  <2> QED
    BY <2>3, <2>4
<1>13. CASE Look(a)
  <2> DEFINE next == [self EXCEPT !.at = "act", !.plan = PlanNow]
  <2>1. self.at = "look" /\ self.loop /\ running' = running
    BY <1>1, <1>13 DEF Look, At, Fits, Toward, LoopStages
  <2>2. Fits([self EXCEPT !.at = "complete"]) /\ Fits([self EXCEPT !.at = "leave"])
    BY <1>1, <2>1 DEF Fits, Toward, Actor, LoopStages, FreeStages
  <2>3. ASSUME combat.current \in Monsters
        PROVE  /\ Advancing(a, "gate") \in Actor /\ Fits(Advancing(a, "gate"))
               /\ Advancing(a, "gate").loop = self.loop
               /\ next \in Actor /\ Fits(next) /\ next.loop = self.loop
    <3>1. combat.current # Nobody
      BY <2>3, MonstersAreSomebody
    <3>2. next \in Actor /\ next.loop = self.loop /\ next.at = "act" /\ next.plan = PlanNow
      BY <1>1, PlanType DEF TurnInv, Actor, Stages
    <3>3. next.plan.from \in Monsters
      BY <2>3, <3>2, PlanType DEF TurnInv
    <3>4. Fits(next)
      BY <2>1, <3>2, <3>3 DEF Fits, Toward, LoopStages, FreeStages
    <3> QED
      BY <2>3, <3>1, <3>2, <3>4, AdvancingFits
  <2>4. \/ Go(a, "complete")
        \/ combat.current \in Monsters /\ Become(a, Advancing(a, "gate"))
        \/ combat.current \in Monsters /\ Become(a, next)
        \/ Go(a, "leave")
    BY <1>13 DEF Look, MonsterToMove, Go
  <2> QED
    BY <1>2, <2>1, <2>2, <2>3, <2>4, Steady DEF Stages
<1>14. CASE ActEndsTurn(a)
  <2> DEFINE late == [self EXCEPT !.at = "claim", !.back = "check"]
  <2>1. self.at \in {"act", "pass"} /\ self.loop /\ running' = running
        /\ self.plan.from \in Monsters
    BY <1>1, <1>14 DEF ActEndsTurn, At, Fits, Toward, LoopStages
  <2>2. Fits([self EXCEPT !.at = "recover"])
    BY <1>1, <2>1 DEF Fits, Toward, Actor, LoopStages, FreeStages
  <2>3. late \in Actor /\ late.loop = self.loop
    BY <1>1 DEF Actor, Stages
  <2>4. Fits(late)
    BY <1>1, <2>1, MonstersAreSomebody DEF Fits, Toward, Actor, LoopStages, FreeStages
  <2>5. \/ Go(a, "recover")
        \/ combat.current = self.plan.from /\ Become(a, Advancing(a, "check"))
        \/ Become(a, late)
    BY <1>14 DEF ActEndsTurn, Go
  <2>6. combat.current = self.plan.from
        => /\ Advancing(a, "check") \in Actor /\ Fits(Advancing(a, "check"))
           /\ Advancing(a, "check").loop = self.loop
    BY <2>1, AdvancingFits, MonstersAreSomebody
  <2> QED
    BY <1>2, <2>1, <2>2, <2>3, <2>4, <2>5, <2>6, Steady DEF Stages
<1>15. CASE ActAsks(a)
  <2> DEFINE x == [self EXCEPT !.plan = NoPlan]
             saw == [flags EXCEPT !.reaction = self.plan.from]
  <2>1. self.at = "act" /\ self.loop /\ running' = running
    BY <1>1, <1>15 DEF ActAsks, At, Fits, Toward, LoopStages
  <2>2. saw \in Flags
    BY <1>1 DEF Actor, Plan, Flags
  <2>3. x \in Actor /\ x.loop = self.loop
    BY <1>1, ConstantTypes DEF Actor
  <2>4. Fits([x EXCEPT !.at = "check"])
    BY <1>1, <2>1 DEF Fits, Toward, Actor, LoopStages, FreeStages
  <2> QED
    BY <1>15, <2>1, <2>2, <2>3, <2>4, WritingFits, Steady DEF ActAsks, Stages
<1>16. CASE ActTriggers(a)
  <2>1. self.at = "act" /\ self.loop /\ running' = running /\ self.plan.from \in Monsters
    BY <1>1, <1>16 DEF ActTriggers, At, Fits, Toward, LoopStages
  <2>2. PICK hit \in SUBSET (flags.ready \cap Able) :
           Become(a, Writing(self, [flags EXCEPT !.ready = @ \ hit,
                                                 !.triggered = @ \cup hit], "pass"))
    BY <1>16 DEF ActTriggers
  <2>3. [flags EXCEPT !.ready = @ \ hit, !.triggered = @ \cup hit] \in Flags
    BY <1>1 DEF Flags
  <2>4. Fits([self EXCEPT !.at = "pass"])
    BY <1>1, <2>1 DEF Fits, Toward, Actor, LoopStages, FreeStages
  <2> QED
    BY <1>4, <2>1, <2>2, <2>3, <2>4 DEF Stages
<1>17. CASE ActBreaksOff(a)
  <2>1. self.at = "act" /\ self.loop /\ running' = running /\ self.plan.from \in Monsters
    BY <1>1, <1>17 DEF ActBreaksOff, At, Fits, Toward, LoopStages
  <2>2. \A stage \in {"complete", "check", "recover"} : Fits([self EXCEPT !.at = stage])
    BY <1>1, <2>1 DEF Fits, Toward, Actor, LoopStages, FreeStages
  <2>3. \E stage \in {"complete", "check", "recover"} : Go(a, stage)
    BY <1>17 DEF ActBreaksOff
  <2> QED
    BY <1>2, <2>1, <2>2, <2>3 DEF Stages
<1>18. CASE Recover(a)
  <2> DEFINE next == [self EXCEPT !.at = "gate", !.plan = NoPlan]
  <2>1. self.at = "recover" /\ self.loop /\ running' = running /\ self.plan.from \in Monsters
    BY <1>1, <1>18 DEF Recover, At, Fits, Toward, LoopStages
  <2>2. Fits([self EXCEPT !.at = "leave"])
    BY <1>1, <2>1 DEF Fits, Toward, Actor, LoopStages, FreeStages
  <2>3. next \in Actor /\ Fits(next) /\ next.loop = self.loop
    <3>1. next \in Actor /\ next.loop = self.loop /\ next.at = "gate"
      BY <1>1, ConstantTypes DEF Actor, Stages
    <3> QED
      BY <2>1, <3>1 DEF Fits, Toward, LoopStages, FreeStages
  <2>4. combat.current = self.plan.from
        => /\ Advancing(a, "gate") \in Actor /\ Fits(Advancing(a, "gate"))
           /\ Advancing(a, "gate").loop = self.loop
    BY <2>1, AdvancingFits, MonstersAreSomebody
  <2>5. \/ Go(a, "leave")
        \/ combat.current = self.plan.from /\ Become(a, Advancing(a, "gate"))
        \/ Become(a, next)
    BY <1>18 DEF Recover, Go
  <2> QED
    BY <1>2, <2>1, <2>2, <2>3, <2>4, <2>5, Steady DEF Stages
<1>19. CASE Check(a)
  <2>1. self.at = "check" /\ self.loop /\ running' = running
    BY <1>1, <1>19 DEF Check, At, Fits, Toward, LoopStages
  <2>2. ASSUME NEW stage \in {"leave", "gate"}
        PROVE  /\ [self EXCEPT !.at = stage, !.plan = NoPlan] \in Actor
               /\ Fits([self EXCEPT !.at = stage, !.plan = NoPlan])
               /\ [self EXCEPT !.at = stage, !.plan = NoPlan].loop = self.loop
    <3> DEFINE next == [self EXCEPT !.at = stage, !.plan = NoPlan]
    <3>1. next \in Actor /\ next.loop = self.loop /\ next.at = stage
      BY <1>1, ConstantTypes DEF Actor, Stages
    <3>2. Fits(next)
      BY <2>1, <3>1 DEF Fits, Toward, LoopStages, FreeStages
    <3> QED
      BY <3>1, <3>2
  <2>3. \E stage \in {"leave", "gate"} : Become(a, [self EXCEPT !.at = stage, !.plan = NoPlan])
    BY <1>19 DEF Check
  <2> QED
    BY <2>1, <2>2, <2>3, Steady
<1>20. CASE Leave(a)
  <2>1. self.loop /\ running' = FALSE
    BY <1>1, <1>20 DEF Leave, At, Fits, Toward, LoopStages
  <2> QED
    BY <1>20, <2>1, ConstantTypes DEF Leave, Finish, Become, Becomes
<1>21. CASE Continue(a)
  <2>1. ~ self.loop /\ running' = running
    BY <1>1, <1>21 DEF Continue, At, Fits, Toward, FreeStages
  <2>2. CASE Finish(a)
    BY <1>3, <2>1, <2>2 DEF Finish
  <2>3. CASE Become(a, Writing(Idle, [flags EXCEPT !.reaction = self.plan.from], "idle"))
    <3>1. [flags EXCEPT !.reaction = self.plan.from] \in Flags
      BY <1>1 DEF Actor, Plan, Flags
    <3>2. Fits([Idle EXCEPT !.at = "idle"])
      BY DEF Idle, Fits, Toward, LoopStages, FreeStages
    <3>3. self.loop = Idle.loop
      BY <1>1, <2>1, ConstantTypes DEF Actor
    <3> QED
      BY <2>1, <2>3, <3>1, <3>2, <3>3, WritingFits, Steady, ConstantTypes DEF Stages
  <2>4. CASE combat.current \in Monsters /\ Become(a, Advancing(a, "idle"))
    BY <2>1, <2>4, AdvancingFits, MonstersAreSomebody, Steady
  <2>5. CASE Go(a, "complete")
    <3>1. Fits([self EXCEPT !.at = "complete"])
      BY <1>1, <2>1 DEF Fits, Toward, Actor, LoopStages, FreeStages
    <3> QED
      BY <1>2, <2>1, <2>5, <3>1 DEF Stages
  <2> QED
    BY <1>21, <2>2, <2>3, <2>4, <2>5 DEF Continue
<1>22. CASE Resume(a)
  <2>1. ~ self.loop /\ running' = running
    BY <1>1, <1>22 DEF Resume, At, Fits, Toward, FreeStages
  <2>2. Fits([self EXCEPT !.at = "schedule"])
    BY <1>1, <2>1 DEF Fits, Toward, Actor, LoopStages, FreeStages
  <2> QED
    BY <1>2, <1>3, <1>22, <2>1, <2>2 DEF Resume, Go, Stages
<1>23. CASE Schedule(a)
  <2>1. ~ self.loop /\ running' = running
    BY <1>1, <1>23 DEF Schedule, At, Fits, Toward, FreeStages
  <2> QED
    BY <1>3, <1>23, <2>1 DEF Schedule, Finish
<1> QED
  BY <1>5, <1>6, <1>7, <1>8, <1>9, <1>10, <1>11, <1>12, <1>13, <1>14, <1>15, <1>16, <1>17,
     <1>18, <1>19, <1>20, <1>21, <1>22, <1>23 DEF Step, Act

\* The timer starts the loop, or finds it running.
LEMMA FireBecomes ==
    ASSUME TurnInv, Fire
    PROVE  \E x : Becomes(Timer, x)
<1>1. Timer \in Actors /\ Fits(actors[Timer])
  BY DEF Actors, TurnInv
<1>2. ~ actors[Timer].loop
  BY <1>1 DEF Fire, At, Fits, Toward, FreeStages
<1> QED
  BY <1>1, <1>2, RunBecomes DEF Fire

\* Whatever becomes of a, the actors keep fitting their stages, and there is
\* one loop at most.
LEMMA LoopKept ==
    ASSUME TurnInv, NEW a \in Actors, NEW x, Becomes(a, x)
    PROVE  /\ actors' \in [Actors -> Actor]
           /\ running' \in BOOLEAN
           /\ \A b \in Actors : Fits(actors'[b])
           /\ OneMonsterLoop'
<1>1. actors \in [Actors -> Actor] /\ running \in BOOLEAN
  BY DEF TurnInv, TypeOK
<1>2. actors' \in [Actors -> Actor] /\ actors'[a] = x
      /\ \A b \in Actors \ {a} : actors'[b] = actors[b]
  BY <1>1 DEF Becomes
<1>3. \A b \in Actors : Fits(actors'[b])
  BY <1>2 DEF Becomes, TurnInv
<1>4. OneMonsterLoop
  BY DEF TurnInv
<1>5. CASE x.loop = actors[a].loop /\ running' = running
  <2>1. \A b \in Actors : actors'[b].loop = actors[b].loop
    BY <1>2, <1>5
  <2> QED
    BY <1>1, <1>2, <1>3, <1>4, <1>5, <2>1 DEF OneMonsterLoop
<1>6. CASE ~ actors[a].loop /\ x.loop /\ ~ running /\ running' = TRUE
  <2>1. \A b \in Actors \ {a} : ~ actors'[b].loop
    BY <1>2, <1>4, <1>6 DEF OneMonsterLoop
  <2> QED
    BY <1>2, <1>3, <1>6, <2>1 DEF OneMonsterLoop, Becomes
<1>7. CASE actors[a].loop /\ ~ x.loop /\ running' = FALSE
  <2>1. \A b \in Actors : ~ actors'[b].loop
    BY <1>2, <1>4, <1>7 DEF OneMonsterLoop
  <2> QED
    BY <1>2, <1>3, <1>7, <2>1 DEF OneMonsterLoop, Becomes
<1> QED
  BY <1>5, <1>6, <1>7 DEF Becomes
-----------------------------------------------------------------------------
\* The rows that a step writes have their types, and no step gives somebody a
\* turn in a combat that has ended: the claim of one who has read it earlier
\* names the participant whose turn it was, and then it is nobody's.
LEMMA RowsKept ==
    ASSUME TurnInv, NEW a \in Actors, Step(a)
    PROVE  /\ combat' \in Combat
           /\ flags' \in Flags
           /\ scheduled' \in BOOLEAN
           /\ fit' = fit /\ wounds' = wounds
           /\ EndedHasNoTurn'
<1>1. /\ actors[a] \in Actor /\ Fits(actors[a]) /\ combat \in Combat
      /\ flags \in Flags /\ scheduled \in BOOLEAN /\ EndedHasNoTurn
  BY DEF TurnInv, TypeOK
<1>2. actors[a].plan \in Plan /\ actors[a].saw \in Flags
  BY <1>1 DEF Actor
<1>3. fit' = fit /\ wounds' = wounds
  BY DEF Step, Claim, Trigger, Write, After, Complete, End, Enter, Gate, Look, Act,
         ActEndsTurn, ActAsks, ActTriggers, ActBreaksOff, Recover, Check, Leave, Continue,
         Resume, Schedule
<1>4. CASE Claim(a)
  <2>1. flags' = flags /\ scheduled' = scheduled
    BY <1>4 DEF Claim
  <2>2. CASE combat.current = actors[a].plan.from
    <3>1. combat.current # Nobody
      BY <1>1, <1>4, <2>2 DEF Claim, At, Fits, Toward
    <3>2. combat' = [combat EXCEPT !.current = actors[a].plan.to,
                                   !.turn = actors[a].plan.turn]
      BY <1>4, <2>2 DEF Claim
    <3> QED
      BY <1>1, <1>2, <1>3, <2>1, <3>1, <3>2 DEF Combat, Plan, EndedHasNoTurn
  <2>3. CASE combat.current # actors[a].plan.from
    BY <1>1, <1>3, <1>4, <2>1, <2>3 DEF Claim, EndedHasNoTurn
  <2> QED
    BY <2>2, <2>3
<1>5. CASE Write(a)
  BY <1>1, <1>2, <1>3, <1>5 DEF Write, EndedHasNoTurn
<1>6. CASE End(a)
  BY <1>1, <1>2, <1>3, <1>6 DEF End, Active, Combat, EndedHasNoTurn
<1>7. CASE Schedule(a)
  BY <1>1, <1>3, <1>7 DEF Schedule, EndedHasNoTurn
<1>8. CASE combat' = combat /\ flags' = flags /\ scheduled' = scheduled
  BY <1>1, <1>3, <1>8 DEF EndedHasNoTurn
<1> QED
  BY <1>4, <1>5, <1>6, <1>7, <1>8
  DEF Step, Trigger, After, Complete, Enter, Gate, Look, Act, ActEndsTurn, ActAsks,
      ActTriggers, ActBreaksOff, Recover, Check, Leave, Continue, Resume

LEMMA InitTurnInv == Init => TurnInv
<1> SUFFICES ASSUME Init PROVE TurnInv
  OBVIOUS
<1>1. \A a \in Actors : actors[a] = Idle
  BY DEF Init
<1>2. combat \in Combat /\ flags \in Flags /\ actors \in [Actors -> Actor]
  BY ConstantTypes, CombatTurnsAssumption DEF Init, Combat
<1>3. fit \in [Participants -> {"able", "incapacitated", "dead"}]
      /\ running = FALSE /\ scheduled \in BOOLEAN /\ wounds \in Nat
  BY DEF Init
<1> QED
  BY <1>1, <1>2, <1>3, ConstantTypes DEF Init, TurnInv, TypeOK, OneMonsterLoop, EndedHasNoTurn

\* Every action keeps the invariant.
LEMMA NextTurnInv == TurnInv /\ [Next]_vars => TurnInv'
<1> SUFFICES ASSUME TurnInv, [Next]_vars PROVE TurnInv'
  OBVIOUS
<1>1. TypeOK /\ EndedHasNoTurn
  BY DEF TurnInv
<1>2. ASSUME NEW r \in Requests, Receive(r) PROVE TurnInv'
  <2>1. /\ actors' \in [Actors -> Actor] /\ running' \in BOOLEAN
        /\ \A b \in Actors : Fits(actors'[b])
        /\ OneMonsterLoop'
    BY <1>2, ReceiveBecomes, LoopKept DEF Actors
  <2>2. fit' = fit /\ flags' = flags /\ scheduled' = scheduled /\ wounds' = wounds
    BY <1>2 DEF Receive, StartCombat, EndTurn, GetCombat, Ready, AnswerReady, AnswerReaction,
                EndCombat
  <2>3. \/ combat' = combat
        \/ \E p \in Participants : combat' = [status |-> "ACTIVE", current |-> p, turn |-> 1]
    BY <1>2 DEF Receive, StartCombat, EndTurn, GetCombat, Ready, AnswerReady, AnswerReaction,
                EndCombat
  <2>4. combat' \in Combat /\ EndedHasNoTurn'
    BY <1>1, <2>3, CombatTurnsAssumption DEF TypeOK, Combat, EndedHasNoTurn
  <2> QED
    BY <1>1, <2>1, <2>2, <2>4 DEF TurnInv, TypeOK
<1>3. ASSUME NEW a \in Actors, Step(a) PROVE TurnInv'
  <2>1. /\ actors' \in [Actors -> Actor] /\ running' \in BOOLEAN
        /\ \A b \in Actors : Fits(actors'[b])
        /\ OneMonsterLoop'
    BY <1>3, StepBecomes, LoopKept
  <2> QED
    BY <1>1, <1>3, <2>1, RowsKept DEF TurnInv, TypeOK
<1>4. CASE Fire
  <2>1. /\ actors' \in [Actors -> Actor] /\ running' \in BOOLEAN
        /\ \A b \in Actors : Fits(actors'[b])
        /\ OneMonsterLoop'
    BY <1>4, FireBecomes, LoopKept DEF Actors
  <2> QED
    BY <1>1, <1>4, <2>1 DEF Fire, TurnInv, TypeOK, EndedHasNoTurn
<1>5. ASSUME NEW p \in Participants, Wound(p) PROVE TurnInv'
  <2>1. fit' \in [Participants -> {"able", "incapacitated", "dead"}] /\ wounds' \in Nat
    BY <1>1, <1>5 DEF Wound, TypeOK
  <2>2. /\ combat' = combat /\ flags' = flags /\ running' = running
        /\ scheduled' = scheduled /\ actors' = actors
    BY <1>5 DEF Wound
  <2> QED
    BY <1>1, <2>1, <2>2 DEF TurnInv, TypeOK, OneMonsterLoop, EndedHasNoTurn
<1>6. CASE UNCHANGED vars
  BY <1>6 DEF vars, TurnInv, TypeOK, OneMonsterLoop, EndedHasNoTurn
<1> QED
  BY <1>2, <1>3, <1>4, <1>5, <1>6 DEF Next

LEMMA TurnInvariance == Spec => []TurnInv
BY InitTurnInv, NextTurnInv, PTL DEF Spec
-----------------------------------------------------------------------------
\* Every variable has its type, whoever does what in whatever order.
THEOREM TurnTypes == Spec => []TypeOK
<1>1. TurnInv => TypeOK
  BY DEF TurnInv
<1> QED
  BY <1>1, TurnInvariance, PTL

\* At most one caller plays the monsters, and running tells whether one does:
\* whoever enters the loop has found it empty in the step that raises the
\* flag, and every way out of the loop goes through the finally.
THEOREM TurnLoopIsOne == Spec => []OneMonsterLoop
<1>1. TurnInv => OneMonsterLoop
  BY DEF TurnInv
<1> QED
  BY <1>1, TurnInvariance, PTL

\* A combat that has ended stays without a turn: the compare-and-set of
\* advanceCurrentTurn names somebody whose turn it was.
THEOREM TurnEndsWithCombat == Spec => []EndedHasNoTurn
<1>1. TurnInv => EndedHasNoTurn
  BY DEF TurnInv
<1> QED
  BY <1>1, TurnInvariance, PTL

\* The loop is about to pass on a monster's turn, or none.
THEOREM TurnLoopSparesPlayers == Spec => []LoopPassesMonstersOnly
<1>1. TurnInv => LoopPassesMonstersOnly
  BY DEF TurnInv, LoopPassesMonstersOnly, Fits, Toward, At
<1> QED
  BY <1>1, TurnInvariance, PTL
=============================================================================
