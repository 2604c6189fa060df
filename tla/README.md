# TLA+ verification of online-TRPG

online-TRPG is a web application for tabletop role-playing campaigns: a NestJS
backend over PostgreSQL (`be/`), a React client (`fe/`), a stateless FastAPI service
that talks to a language model (`ai/`), shared types and generated rule data.
The backend decides everything that matters; the client asks, and is told by
socket events. This project models the concurrent core: what happens to a
session, its plays, members, combats, maps and actions, and to a scenario being
written, when requests, timers, loops, sockets, pages and crashes interleave.

Seven parts are modelled: the **life of a session and its plays**, the **action
queue**, **membership**, the **place of a user in a play** with his sockets, the
**turns of a combat**, the **map** on the server and on a player's screen, and
the **editing of a scenario** by several pages. All are checked with TLC and
proved about with TLAPS: every safety property that a run checks is also a
theorem. The rest of the system is listed below with the reason it is left out.

Contents: 1 the system · 2 the modules and how they correspond to the code ·
3 the runs · 4 where code and documents disagree · 5 the proofs ·
6 what is not modelled · 7 plan.

All paths below are relative to the repository's root; `sessions/…`,
`actions/…` and the like are under `be/src/modules/`.

## 1. The system

### Parts, their state, operations and interactions

| Part | State | Operations | Talks to |
|---|---|---|---|
| Session and plays (`sessions/session-play.service.ts`, part of `sessions.service.ts`) | `Session` row: `status`, `activityStatus`, `currentPlayId`, `nextSessionAt`; `SessionPlay` rows: `status`, `stateVersion`, `scheduleVersion`, times | create, reschedule, cancel, open the lobby, start, finish, disband, delete; a pass every 60 s opens due lobbies | action queue (finishing fails what waits), places, sockets |
| Membership (`sessions.service.ts`, `session-join-policy`, `session-participant-status`, applications in `session-play.service.ts`) | `SessionParticipant`, `SessionApplication`, `SessionPlayAttendance`, proximity acknowledgements | join, apply, approve, kick, leave, resume, ready | session and plays, sockets |
| Places in a play (`session-play.service.ts:429-518`), realtime gateway (`realtime/`) | `UserActivePlay` (one row a user), rooms and `sessionMembershipBySocket` in memory | acquire, release, heartbeat, stale cleanup; socket join, disconnect, evict | membership (ONLINE/OFFLINE) |
| Action queue (`actions/action-processor`, `action-queue-submission`, `actions.service`) | `PlayerAction.queueStatus`; `processingSessionIds`, `processAgainSessionIds` in each process | submit, claim, execute, fail, discard | session (activity), turn logs, rules, combat, sockets |
| Rest approvals (`actions/rest-approval-*`) | `PlayerAction` rows `REJECTED` with `REST_REQUIRES_GM_APPROVAL` | request, approve, reject, cancel, expire | action queue, turn logs |
| Turn logs (`turn-logs/`) | `TurnLog` with `@@unique([sessionId, turnNumber])` | append the next number, mark as failed | written by nearly everyone |
| Combat (`combat/`) | `Combat`, `CombatParticipant`, per-turn resources, pending reactions in `GameState.flagsJson`, the monsters' scheduler in memory | start, end turn, attack, move, cast, react, end | rules, turn logs, maps, `Session.status` |
| Rules (`rules/`) | `GameState.version`, `StateDiff`, character resources | resolve a command, apply a state diff, spell slots, rests, concentration | used by queue and combat |
| Main commands (`actions/main-command*`) | reveal and transition flags | free text to the AI, checks, scene transitions | AI client, turn logs, nodes |
| VTT maps, reveals, nodes (`sessions/session-vtt-*`, `map-runtime`, `session-reveal`, `session-node-runtime-*`) | map JSON with a version, reveals | move, edit, reveal, publish a delta | sockets |
| Campaign archive, vault, calendar, transfers | `flagsJson` sections | record, transfer a character | session, scenarios |
| Users (`users/`, `common/auth`) | users, `tokenVersion`, refresh tokens, OAuth transactions, reset tokens | login, reissue, log out everywhere, reset, delete the account | sessions (deletion disbands) |
| Scenarios (`scenarios/scenarios.service.ts`, `fe/src/pages/ScenarioEditorPage.tsx`) | the draft's row with `updatedAt`, its scenes, revisions; form, saved snapshot and known `updatedAt` in each page | load, save with `expectedUpdatedAt`, autosave, publish, collaborators and reviews | sessions, which play it |
| Web client at the table (`fe/src/services/realtime.ts`, `hooks/useSession.ts`, `usePlayScenarioMapLoader.ts`) | last snapshot, map on the screen, one optimistic move | receive events and snapshots, ask for a resync, GET the map, move a token, reconnect | sockets, maps |
| Characters, catalogue | documents | CRUD with validation | - |
| AI client, AI service, infrastructure | - | - | - |

Prisma's transactions on PostgreSQL run at READ COMMITTED. The code excludes
races in three ways, and the modules use exactly these: a per-session
`pg_advisory_xact_lock` in some transactions, `updateMany` with the expected
status or version in its `WHERE` and a check of `count`, and unique indexes.

### What is hard here, and what would make each part correct

* **Session and plays.** The same fact, which play is open, is written to two
  tables by nine transactions with different guards, some with rows read before
  the transaction, some with no lock. A scheduler pass works from a SELECT that
  ages while it opens lobbies one by one. Correct: one play at a time, the two
  tables agree, nobody moves a play out of a state he has not seen, an ended
  play stays ended, a due lobby opens.
* **Action queue.** One loop per process with two in-memory flags, a claim that
  is a find and then an update, an execution that may be overtaken by the end
  of the play, and turn numbers read and then inserted. Correct: no wake-up
  lost, no action executed twice, an effect exactly when the row says
  COMPLETED, in order, none between two plays, everything decided in the end.
* **Membership.** Every request checks rows it has read before the session's lock,
  and some never take the lock. Correct: no more admissions than seats, nobody
  joins a play that is going on, everybody in the game has a character.
* **Places and sockets.** Requests, socket handlers and the stale-place pass of
  one user race over one row, and the gateway awaits between its check and the
  rooms it opens. Correct: nobody is moved to another play unasked, a renewed
  place survives the pass, no event to a socket whose user has left.
* **Combat.** The claim of a turn looks at the participant alone, the effects of a
  turn follow its commit, prompts are a read-modify-write of one JSON column,
  and the loop that plays the monsters is guarded by an in-memory set. Correct: a
  turn ends once, one loop at a time, the loop passes on no player's turn and
  always ends, an ended combat gives nobody a turn.
* **Maps.** Whole-map writes by four kinds of request, some guarded by a version,
  some by the lock, one by neither; events, snapshots and GET answers overtake
  each other on their way to a screen. Correct: no saved change is taken back,
  and the screen shows the newest map in the end.
* **Scenarios.** Autosave, save, publish, reload and a token refresh of one page,
  of several authors, meet in one draft. Correct: no author takes another's work
  away unknowingly, "saved" means saved, a failure is shown.
* **Rules.** A state version is given to one change; slots and quantities are
  neither lost nor made.
* **Users.** A reset link works once and ends every session of the account.

`PROJECT.json` lists the hazards behind these sentences, line by line, with the
properties that cover them or the module that is planned to.

## 2. The modules

| Module | What it is |
|---|---|
| `PlayLifecycle` | abstract: what a session promises about its numbered plays |
| `SessionPlay` | the session row, the play rows, requests in flight, the scheduler |
| `SessionPlayProofs` | theorems: its plays and its two rows; what its callers read before they write |
| `ActionVerdicts` | abstract: one verdict per action, and the turn of the history it takes with it |
| `ActionQueue`, `ActionQueueProofs` | action rows, turn logs, the loop of each process, requests in flight |
| `CombatTurns`, `CombatTurnsProofs` | one combat: requests, prompts, the monsters' loop and its timer |
| `CombatTurnsDocs` | what a comment says of `CombatTurns` and the code does not keep |
| `ActivePlay`, `ActivePlayProofs` | the place one user has in a play, his sockets, the stale-place pass |
| `Membership`, `MembershipProofs` | who belongs to a session, seats, applications, characters at the start |
| `MapStore`, `MapStoreProofs` | the map of a node and the requests that replace it |
| `MapSync`, `MapSyncProofs` | extends `MapStore`: what is emitted of its changes, and one browser that follows |
| `ScenarioDraft`, `ScenarioDraftProofs` | a draft and the editor pages open on it |
| `MC…` | instances for TLC (symmetry sets, definitions a .cfg cannot write) |

`SessionPlay` and `ActionQueue` meet in `finishPlay` and `startSession`: the
second abstracts the session to the two columns the queue reads, and its
`DORMANT` stands for `LOBBY_OPEN` too, in which nothing can be executed either.
`ActivePlay` and `Membership` keep of the session what their handlers read: that a
play is open, or the three values of `activityStatus`. `MapSync` composes the
store with the browser: a commit in `MapStore` goes on to the stages in which
`MapSync` publishes it.

Conventions: an operator whose name is a mapped one with a suffix or a word in
its place (`MovePlayUncounted`, `TakeUnclaimed`, `CheckNothing`, …) is a *mutant*: the same step
with a plausible bug. It is not part of any specification; the mutation check
puts it in the place of the original and expects the property to fail. In every
module an `await` on the database ends an action unless it is said otherwise,
and what a caller has read is kept in its own record until it writes.

### SessionPlay and the code

A request that reads rows before its transaction is two actions, `…Read` and
`…Commit`. What it has read is in `calls[c]`; between the two anything may
happen. Two transactions are taken apart themselves, because neither excludes
the other. `createPlay` checks under the session's advisory lock and inserts
later (`creating` is what it is about to insert). `disbandSession` takes no
lock: it cancels the plays it finds and overwrites the session row later
(`disbanding` has the rows it has locked, and the plays committed since, which
it has missed). So a disband may commit between the checks and the commit
of a `createPlay`, and a `createPlay` between the two updates of a disband. Every
other transaction is one action. Those that take the advisory lock wait for
`createPlay` (`LockFree`); those that write a play row wait for the disband that has
locked it (`RowFree`), and their `UPDATE … WHERE` then looks at the row again, so
that they take effect before the disband or after it. One disband at a time is
modelled: a second one waits at the first locked row, and where there is none
both write the same thing. A `createPlay` or a disband that rolls back has done
nothing, and is no step; `Restart` does the same to one under way.

`overlooked` is a history variable: a disband has committed while the lobby, or the
running play, of a play it missed was open. From then on the rows disagree and
the next `createPlay` may begin a play beside the open one, in the code as in the
model; the properties that this breaks say so (section 3).

| Code | Model |
|---|---|
| `createSession` (sessions.service.ts:387) | the three initial states of `Init` |
| `createPlay` (:157) | `CreateCheck` (lock, then every check), `CreateCommit` (inserts, then writes over the session row) |
| `updatePlay` (:214) | `UpdatePlayRead`, `UpdatePlayCommit`: CAS on `scheduleVersion` |
| `cancelPlay` (:243) | `CancelPlayRead` remembers `session.currentPlayId`, `CancelPlayCommit` uses it |
| `openLobby` (:275), `finishPlay` (:328), `startSession` (sessions.service.ts:1597) | `OpenLobby…`, `FinishPlay…`, `StartSession…`: CAS on `stateVersion` |
| `refreshNextSessionAt` (:915) | `RefreshRead`, `RefreshWrite`, after finish, cancel and update |
| `openDueLobbies` (:73) | `TickRead`, `TickCommit`; each `t \in Ticks` is one play of one pass, and passes overlap |
| `disbandSession` (sessions.service.ts:3797) | `Disband` within its caller, then `DisbandCommit` |
| `leaveSession` by the host or the last member | `LeaveSession`; always possible, because `resumeSession` lets whoever left come back |
| `deleteSession` (:1459), account deletion (users.service.ts:559) | `DeleteSession…`, `DeleteAccount…` |
| combat start and end, human GM's combat buttons | `CombatRead`, `CombatCommit`: write `PLAYING` unless `COMPLETED` was read |
| `createHumanGmMessage` (human-gm-runtime.service.ts:90) | `MessageRead`, `MessageCommit`: write the status back |
| ending node, defeated party, long campaign | `CompleteSession` |
| the clock | `LobbyTimeArrives(p)`: the play's time has come |
| process restart | `Restart`: calls in flight vanish, rows stay |

Data abstracted: a start time is `<<play, scheduleVersion>>` plus the flag
`due`; titles, settings, participants and attendance are left out. The
expected version a client sends is the one it saw when it began the request,
which may be arbitrarily old at the commit.

### ActionQueue and the code

Every `await` on the database ends an action. `loops[p]` is `processNext` in
process `p`: `at` is where it is, `again` is membership in
`processAgainSessionIds`; membership in `processingSessionIds` is `at # "idle"`.

| Code | Model |
|---|---|
| `submitAction`, `submitRestAction` (actions.service.ts:83) | `SubmitRead`, then `SubmitCreate` or `RestCreate` |
| call of `processNext` | `Kick` |
| `claimNextPendingAction` (:213) | `Look` (findFirst), `Take` (updateMany) |
| the loop's exit and its `finally` (:187) | `Leave`: no await lies between the last look's answer and the deletion of the marks, so they are one step |
| preconditions that throw | `ProcessFails` |
| the transaction (:388) | `Check` (lock, second look at session and row, turn number), then `Commit` or `Rollback` |
| `PLAY_FINISHED` branch (:250) | `Discard` (conditional), `finished` |
| any other error (:263) | `Fail` (unconditional), `Mark`, `WriteFailure` |
| `approve`, `rejectOrCancel`, expiry (rest-approval-resolution) | `DecisionRead`, `Approve`, `Decline` |
| `createTurnLog` outside a transaction, by anyone | `LogRead`, `LogWrite`; by others also `OtherLog` |
| `finishPlay`, `startSession`, `disbandSession`, combat's status write | `FinishPlay`, `StartSession`, `DisbandSession`, `CombatSetsPlaying` |
| the process stops | `Crash(p)` |

Data abstracted: an action's effect on characters, maps and combat is its
success log, which commits with it. A rest request older than 24 h is declined
by whoever comes upon it, so its age is left out: `decline` is always possible.
A second request by the same slot may reach any process.

### CombatTurns and the code

`actors[a]` is where a request, or the timer's callback, is; `flags` is
`GameState.flagsJson`, which a writer reads as a whole (`saw`) and later writes
back as a whole (`Write`), so that prompts are lost and come back.

| Code | Model |
|---|---|
| `startCombat` (combat.service.ts:512) | `StartCombat` |
| `endTurn` (:772), `advanceCurrentTurn` (combat-turn.service.ts:54) | `EndTurn` plans from the rows read, `Claim` is the conditional `updateMany`, `Trigger` and `After` what follows the commit |
| `getCombat` (:699) | `GetCombat`, which may start or schedule the loop |
| prompts and answers (combat-reaction.service.ts:131, :147; combat.service.ts:3644) | `Ready`, `AnswerReady`, `AnswerReaction`, `Write`, `Continue`, `Resume` |
| `runServerAutoMonsterTurns` (combat-turn.service.ts:749) | `Gate`, `Look`, `Act…`, `Check`, `Recover` (its catch), `Leave` (its finally) |
| the timer (:719) | `Schedule`, `Fire` |
| `completeCombat`, the end of the fight | `Complete`, `End`, `EndCombat` |
| damage and conditions | `Wound`: a participant becomes unable, or able again |

What a monster chooses, damage and resources of a turn are abstracted; delaying,
joining and leaving a combat are left out.

### ActivePlay and the code

Places of different users meet nowhere, so one user is modelled with all his
tabs. The advisory lock `active-play:<user>` is `lock`.

| Code | Model |
|---|---|
| `acquireActivePlay` (session-play.service.ts:429) | `Acquire` (checks), `TakeLock`, `Take`, then `Evict` |
| `releaseActivePlay` (:494), `heartbeat` (:511) | `Release`, `Heartbeat` |
| the stale-place pass (:108) | `Select`, `Look` (asks the gateway for sockets), `Remove` (conditional on the heartbeat) |
| `finishPlay`, `openLobby`, leaving, removal, coming back | `FinishPlay` and `Close`, `OpenLobby`, `Leave`, `Rejoin` |
| `session.join` (realtime.gateway.ts:117) | `Join`, `Access`, `Status`, `Mark`, `Enter` (rooms and map entry) |
| disconnection (:94) | `Disconnect` |

`Namespace.sockets` is asked as in a single process, which is how it is deployed.

### Membership and the code

| Code | Model |
|---|---|
| `joinSession` (sessions.service.ts:598) | `Join`, `CheckJoin` (under the lock), `Enter` |
| applications (session-play.service.ts:520, :604) | `Apply`, `WriteApplication`, `Resolve`, `CheckApproval`, `Admit`, `Reject` |
| `leaveSession`, `removeParticipant`, `restoreParticipant`, `resumeSession` | `Leave`, `Going`/`Gone`, `Restore`/`Restored`, `Resume` |
| choice of a character, `updateSession`'s seats | `Select`/`Selected`, `UpdateSession`/`Updated` |
| `openLobby`, `finishPlay`, `startSession` | `OpenLobby`, `FinishPlay`, `Start`/`Begin`/`Started` |

`mostSeats` and `resumed` are history variables for `AdmissionsFit`. Ready flags are
left out, as no handler decides anything by them. Of recruitment status, join
policy and schedule proximity only the requests that get past them are modelled.

### MapStore, MapSync and the code

A map is the set of the requests whose change it shows, a version a number.

| Code | Model |
|---|---|
| `moveSessionToken` (sessions.service.ts:987) | `ReadState`, `ReadMap`, `SaveChange` guarded by the version |
| `updateVttMap` (:943) | `BringMap`: the GM's screen, whatever it showed |
| effects of an action (action-processor.service.ts:1079) | `StartEffect` takes the lock, `ReadBaseline`, `SaveEffect` |
| `startCombat` (combat.service.ts:512) | `BeginCombat`, `BeginScaledCombat`: the version read plus one, not compared |
| after a commit (sessions.service.ts:3460) | `Publish`, `ReadSnapshot`, `EmitSnapshot` |
| gateway join and resync (realtime.gateway.ts:142, :202) | `Join`, `ReadJoinSnapshot`, `GrantResync`, `RefuseResync`, `EmitBuilt` |
| the client's handlers (realtime.ts:85, :138) | `ReceiveSnapshot`, `ReceiveMap` |
| map loader | `Reload`, `AnswerLoad`, `ShowLoaded` |
| optimistic move (useSessionVttMapRequests.ts:47) | `MoveToken`, `MoveAnswered`, `MoveRefused` |
| lost connection, new token | `LoseConnection`, `RefreshToken` |

`MapSyncAssumption` leaves out uploads and effects: their changes may go out as a
full `vtt.map.updated`, which the browser may also apply or drop as stale
(vttMapEventGuard.ts:33-51), where a delta always makes it ask for a resync. Token
moves and the starts of combats go out as deltas. A combat that has started does
not end, a failing GET is left out, and the
gateway's rate limit is a free choice between granting and refusing.

### ScenarioDraft and the code

A content is the set of edits it shows; `version` stands for `updatedAt`. Every
page is the editor on an existing draft; a request is a slot of `calls`.

| Code | Model |
|---|---|
| `updateScenario` (scenarios.service.ts:414) | `CheckVersion` (before the transaction), `CommitSave`, `ReadSaved` (the answer reads again) |
| `publishScenario` (:531) | `ReadScenes`, `RejectRevision`, `CreateRevision` |
| `getScenario` (:325) | `LoadRow`, `LoadScenes` |
| collaborators, reviews (:1854) | `Review`: another `updatedAt` |
| loading effect (ScenarioEditorPage.tsx:1708) | `Load`, by `Open` and by `RefreshToken`; `TakeDraft` |
| `autoSave` (:1749) | `Autosave`, `TakeAutosaved` |
| `submit` (:2099), `submitPublishScenario` (:2180) | `Press`, `TakeSaved`, `TakeSavedToPublish`, `TakePublished` |
| `catch`, `finally`; a failing fetch | `Failed` in `TakeRefusal` and `Lose`; the server goes on with a lost request |

Two changes within one millisecond would have the same `updatedAt`; the model
gives every change its own. Header fields, the first save of a new draft, forks,
deletion, permissions and assets are left out.

## 3. The runs

| Run | Instance | Distinct states | Properties |
|---|---|---|---|
| `session_play` | 1 host request, 1 scheduler pass, 2 plays, versions to 2, restarts, fair | 1 029 000 | `TypeOK`, `EarlierPlaysEnded`, `ActivityMatchesCurrentPlay`, `CurrentPlayHasNotEnded`, `RecruitingIsNotPlaying`, `ActsOnWhatItSaw`, `VersionCountsEveryMove`, `KeepsPromise` (refines `PlayLifecycle`), `DueLobbyOpens` |
| `action_queue` | 1 process, 2 requests, 2 actions, 1 log by others | 1 911 000 | `TypeOK`, `AppliedOnceIfCompleted`, `EffectsInOrder`, `PendingIsAttended`, `FinishedPlayTakesNoEffect`, `KeepsPromise` (refines `ActionVerdicts`) |
| `action_queue_processes` | 2 processes, 1 request, 2 actions, 1 crash, fair | 456 000 | `ClaimedByOne`, `AppliedOnceIfCompleted`, `KeepsPromise`, `QueuedIsDecided` |
| `combat_turns` | a player and a monster, 1 request and the timer, 1 change of who can act, 2 steps of the loop, fair | 469 000 | `TypeOK`, `OneMonsterLoop`, `EndedHasNoTurn`, `LoopPassesMonstersOnly`, `LoopEnds` |
| `active_play` | 2 sessions of 2 plays, 1 socket, 2 requests or handlers, the pass | 3 900 000 | `TypeOK`, `SwitchIsConfirmed`, `CleanupKeepsRenewed` |
| `membership` | 2 users, 2 requests, 2 seats, 1 play | 1 560 000 | `TypeOK`, `AdmissionsFit`, `NobodyJoinsOngoingPlay` |
| `map_store` | 2 moves, 1 upload, 1 effect, 1 start of a combat | 148 000 | `StoreTypeOK`, `KeptUnlessCombat` |
| `map_sync` | 2 moves, one of them this browser's, 1 lost connection, fair | 1 010 000 | `TypeOK`, `InSync`, `ScreenCatchesUp` |
| `scenario_draft` | 2 pages, 1 edit, 2 requests at once, 1 press of a button, 2 loads, 1 lost answer, 1 review, fair | 608 000 | `TypeOK`, `SavedMeansSaved`, `PublishesWhatIsShown`, `EditsAreKept`, `SavedOrTold` |
| `docs_disband`, `docs_turn_once`, `docs_room` | small | - | section 4: each refutes one sentence of a document or comment |

**Bounds, and why they are enough.** Two actors are the smallest race, and each
instance lets every pair of operations of its module meet. `MaxPlays = 2` is what
it takes for plays to overlap and for a current play to be replaced; the
versions let a lobby be re-opened under a request that saw it before (disbands,
starts and ends raise them further). Two actions give
an order and an overlap, one foreign log takes somebody's turn number, one crash is
enough since a second one meets the same states. In `combat_turns` turns go round
between a player and a monster; `MaxTurn = 1` keeps the turn number from
multiplying states, as only the documents' sentence depends on it, and
`docs_turn_once` counts to 4. In `active_play` the two sessions give the switch
and the eviction their other side. In `membership` seats go from one to two and back
under two applicants. `map_sync` has no combats, and `MapSync` assumes that
there are no uploads and effects; `map_store` has them race. In
`scenario_draft` one edit is enough for a page that has it and a page that has
not, and both contents can be stale; larger instances (two edits, or two presses;
up to 6 million states) were run without the liveness property and gave nothing
new. All bounds are guards of the actions; none is a constraint on states. The
theorems of section 5 hold for every value of these constants.

**Deadlock.** `session_play` and `docs_disband` check it: a disband can always begin or, once
begun, commit. The other runs switch it off: a disbanded session with an empty queue, an ended combat, or a map all of whose moves are done rightly stop.

**Fairness.** `SessionPlay!FairSpec` assumes weak fairness of the scheduler,
since `setInterval` keeps firing (session-play.service.ts:58), and of `DisbandCommit`:
a transaction that has locked rows commits, or is rolled back when the process
ends. Restarts come at any time and in any number, but not without end, since such
a backend opens no lobby. `ActionQueue!FairSpec` and
`CombatTurns!FairSpec` assume that the database answers, so that what has begun
goes on, and that a timer once set fires. `MapSync!FairSpec`: the server finishes
its requests, a GET is answered and shown, and the token is refreshed before it
expires (useAuth.ts:157-171); socket messages, joins and resyncs need not arrive.
`ScenarioDraft!FairSpec`: requests are answered, and the autosave timer
(ScenarioEditorPage.tsx:1798) keeps firing. Nothing is assumed of people: hosts,
players and authors may stop at any time, and crashes and losses are never fair.
Liveness runs use no symmetry.

**Liveness as stated.** `DueLobbyOpens` has the outs the code leaves (the play was
moved, cancelled or opened, the session stopped being dormant). `QueuedIsDecided`
holds until a process stops: the code does not look for orphaned `PROCESSING` rows
on start, only `finishPlay` decides them. `LoopEnds` says that a run of the
monsters' loop ends and leaves its mark down, not that a monster's turn is played:
the lost wake-up of section 4 leaves it to the next request. `ScreenCatchesUp` is
reached at the latest by the next token refresh, since a refused resync leaves
the browser waiting for one. `SavedOrTold` takes an error on the page for an answer.

**Qualified properties.** `EarlierPlaysEnded` and `ActivityMatchesCurrentPlay` hold
until a disband has `overlooked` an open play, and from then on `PlayLifecycle`,
which `KeepsPromise` refines, lets later plays begin without waiting for that one:
the code keeps no more, as `docs_disband` shows. The rest of that promise, and the
five other properties of `session_play`, have no such exception.
`KeptUnlessCombat` stops where a combat starts, `AdmissionsFit` does not count those whom `resumeSession` brings back, and three
properties of `ScenarioDraft` speak of histories in which saves have not
overlapped (`Races`): in each case the code really does otherwise beyond the
qualification, and section 4 says how.

**Mutants.** Every property of every passing run has one, a small change of a
mapped operator under which the run finds the property violated; `PROJECT.json`
lists them.

## 4. Where the code and its documents disagree

Three runs have a counterexample for what a document or comment says.

* `docs_disband`. The ERD says `currentPlayId` is the open play. A disband that
  overlaps `createPlay` leaves a DISBANDED session with an open lobby. The next
  `createPlay` passes its checks and begins a second play beside it.
* `docs_turn_once`. The comment at combat-turn.service.ts:61-68 says that of
  several `endTurn` calls one passes. The claim compares the participant alone:
  when the turn has come round to him again, a late call passes it once more and
  writes an old turn number.
* `docs_room`. The comment at realtime.gateway.ts:130 says that the room is for
  participants. A `session.join` that has passed its check enters the room after
  its user has left and been evicted.

The modules also have the following behaviours, which follow from the lines
named and contradict no property; most of them a reader of the documents
would not expect.

**Session and plays.** `updatePlay` raises `scheduleVersion` and `openDueLobbies`
compares `stateVersion`, so a pass that selected a play opens its lobby although the
date has been moved (`doc/user_experience_remediation_plan.md:682` says otherwise).
The account deletion judges by `status` and leaves `activityStatus` and the
scheduled play, whose lobby the scheduler opens later. A session completed during a play
is PAUSED when `finishPlay` closes that play. `nextSessionAt` keeps an older date
when two refreshes, or one and a `createPlay`, are applied in the wrong order. A
DISBANDED session can be opened again by `createPlay` or `openLobby`;
`deleteSession` can cancel a play that has started since it read RECRUITING; a
GM's message in an open lobby turns RECRUITING to PLAYING, after which
`startSession` refuses.

**Action queue.** The log of a failure is dropped when its turn number has been
taken, although a comment relies on it for reconnecting clients. A combat ended by
the GM after the play was closed sets `status` to PLAYING, and submissions are
accepted, until the processor refuses them.

**Combat.** A wake-up of the monsters' loop is lost: a turn that becomes a
monster's while a run is ending finds the run marked (combat-turn.service.ts:326-341,
:719-727) and is not scheduled, until somebody reloads or acts. A prompt for a
readied action is stored after the turn has been passed on. `completeCombat`
ends whichever combat is active, and a monster that dies in its own turn keeps it.

**Places.** `hasUserConnection` asks the namespace once and `Remove` writes later,
so a socket that joins in between is in the room while its user's place is gone. A socket
closed while `session.join` awaits leaves its membership entry and ONLINE behind.
`acquireActivePlay` can take a place in a play that has just been finished; the
stale-place pass ends it.

**Membership.** `startSession` can start with a member who has no character, for he
joined, or gave it up, after the check. `resumeSession` brings back a KICKED member
and exceeds the seats. `updateSession` can lower the seats below the members it
did not see. A leave overwrites KICKED with LEFT. Approval and rejection of
one application both succeed, and the rejected applicant is a member. A character
may come to be in two sessions.

**Maps.** `startCombat` writes the version it read plus one and does not compare:
the version goes back to a number already used, and a token move that read its map
at that number replaces later changes. (TLC shows it with three moves and one
combat; `doc/dev-notes/2026-07-31-session-scenario-runtime-map-integrity-plan.md:384`
has as a criterion that the changes of one session are put in order without loss.)
The GM's upload replaces changes his screen has not shown. A late answer to one's own
move, or a late GET, shows an older map for a while. Since a snapshot has no map, every
delta makes the browser ask for a resync and a GET; and a resync refused by the
rate limit leaves `mapResyncRequested` set until some other snapshot comes.

**Scenarios.** `expectedUpdatedAt` is compared before the transaction, so two saves
from one version both pass and the later replaces the earlier, though the DTO
(shared-types/src/dto/api/scenarios.dto.ts:1063) promises a conflict. The answer is
read after the commit and may carry another editor's `updatedAt`, which makes the
next save pass over his change. The save button does not look at the autosave in
flight, and the older of the two may be applied last; on a new draft each of them creates
one. After a lost answer every later save of the page conflicts with its own, until the page
is loaded again. A new access token loads the draft again and throws away what has
not been saved; racing an autosave it can bring back the older form with the
newer version. After a failed first load the page saves with no version at all.
A publication reads the draft after the save, and numbers its revision by
counting. Asset endpoints change scenes without a new `updatedAt`, and
collaborators and reviews are a read-modify-write of one column.

## 5. The proofs

The theorems hold for all sets of callers, processes, requests, users, sockets,
moves and the like, and all bounds, from the assumptions named in the modules (the
bounds are natural numbers, actors of different kinds are different, `None` is
nobody, and in `ScenarioDraft` no request either; in `Membership` the users are
finitely many). One theorem has a hypothesis of its own, `EffectsComeInOrder`.

### SessionPlayProofs

`TypeCorrect`, `PlaysNeverOverlap`, `RowsAgree`, `ImplementsLifecycle`;
`CurrentIsAlive`, `VersionsCount`, `ActsOnRowsSeen`, `RecruitingMeansNoGame`.

Neither of the two safety properties `EarlierPlaysEnded` and
`ActivityMatchesCurrentPlay` is inductive alone; they need each other. `createPlay`
learns of open plays from the session row, so that it cannot begin one beside
another because the two rows agree. And `cancelPlay`, which clears `currentPlayId` on an
old reading, keeps the rows in agreement only because, while its play is still
SCHEDULED, no other play can be open. Both are claimed, and needed, until a
disband has overlooked an open play.

Since `createPlay` and the disband are two steps each, the invariant `IInv` also says
what stands between them. `LocksHold`: the number that `createPlay` has taken is still
the next one; the rows that a disband has locked have stayed open, and every other
open play is one it has missed. `ChecksStand`: until something is overlooked, what
`createPlay` has seen holds until it inserts, though a disband may have
committed in between: no play is open, and every earlier one has ended. With `TypeOK`
and that requests name plays of the session, this is inductive.

The argument goes through *shapes*. The lemma `StepShape` says that every step of
every request, whatever it has read, inserts a play, moves one play in one of four
ways (open, start, close, cancel), commits a disband, or leaves statuses and current
play alone (a `createPlay` or a disband may begin there, or be rolled back); this is
the only place where the handlers are opened. `LocksStep` says once for all shapes that
`LocksHold` is kept. Each shape preserves the rest in a few lines, because two plays
that are not ended cannot exist while nothing is overlooked (`OneOpenPlay`).
`ImplementsLifecycle` maps each shape to a step of `PlayLifecycle` or to a stutter
under the same invariant: `CreateCommit` to `Announce`, `DisbandCommit` to
`Disband(known)` with the rows it has locked.

For what callers have read, a step is looked at in two more ways: `StepStamps` (it leaves a play's status and
version alone, or raises the version by one) and `StepReads` (a call that will
write under a `stateVersion` has kept what it read, or has read it in this
step). From them the invariant `RInv` adds to `IInv`:

* `VersionsVouch`: no call names a version from the future, and a version that
  is still current vouches for the status read with it. This makes an old
  reading harmless: `CommitMatches` says that whoever moves a row has found the
  version it names;
* `AbsentRowsAreNew`: a row not yet created has version 0, so creating it counts
  as a move;
* `CancelsKnowCurrent`: `cancelPlay` compares its play with a `currentPlayId` read
  before its transaction, which no version protects. A cancel in flight
  on a play that is current and still SCHEDULED has read it as current, because the
  only way for a SCHEDULED play to be current is to have been created so with
  the session: every other writer of `currentPlayId` moves the play out of SCHEDULED;
* `CurrentPlayHasNotEnded` itself, to know that a play just created is not
  already the current one.

`RecruitingIsNotPlaying` is inductive under `TypeOK`: RECRUITING is written only
with LOBBY_OPEN, and a status written back is never RECRUITING
(`StatusAfterMessage`).

### ActionQueueProofs

`TypeCorrect`, `AppliedOnce`, `ClaimsAreExclusive`, `NoWakeUpIsLost`,
`NoEffectBetweenPlays`, `EffectsComeInOrder`, `ImplementsVerdicts`. The first
five come from one inductive invariant `IInv`:

* `ActionsNamed`: a loop or a decision with work in hand names an action;
* `HeldStatus`: what the row may say while a loop holds it, in particular that
  it is PROCESSING inside the transaction. `finishPlay` cannot change that, as it
  waits for the lock, and no one else writes a claimed row;
* `HeldByOne`: two loops never hold the same action. The claim gives it, because
  it takes PENDING only and nothing brings a held action back to PENDING;
* `LockMeansOpen`: while the lock is held, the session is not DORMANT, because
  `finishPlay` needs the lock;
* `Attended`: without crashes, a PENDING action has a loop that will look, or
  a call to `processNext` on its way;
* `AppliedOnceIfCompleted` itself: it needs `HeldByOne`, since `Fail` and `Commit`
  write the row unconditionally, and `Mark` because a rolled-back transaction leaves no log.

Again the steps are first reduced to shapes (`ProcessShape`, `RequestShape`,
`SessionShape`). The same conjuncts were checked with TLC on the instances of section 3
before they were proved.

`EffectsComeInOrder` is proved for `OneProcess`, as docker-compose.yml starts one
backend; with two, two loops may hold two actions and commit them in either order.
`OrderInv` strengthens `EffectsInOrder`: rows are created in their order
(`CreatedInOrder`) and stay what they are, rest or plain (`RestsMarked`); a loop
has in hand only an action before which every plain one has passed
(`OldestInHand`), and so has been everything applied (`AppliedInTurn`). The one
place where a row comes back to the queue, the GM's approval, brings back a rest,
hence the exception in the property. `RowStep` says of each step what it can do
to a row's place in the queue; that is all the argument needs.

`ImplementsVerdicts` reads the two variables of `ActionVerdicts` off the rows
(`Verdicts`) and off the turn logs (`Turns`: which action each turn applied, or
none). `TurnStep` shows that a step keeps the history or adds one turn at its end,
`VerdictStep` what it does to the rows, and `PromiseStep` that the two go together:
an action is applied in the very step in which its turn is added, from
waiting. `IInv` is needed where `Fail` and `Commit` write the row unconditionally.

### CombatTurnsProofs

`TurnTypes`, `TurnLoopIsOne`, `TurnEndsWithCombat`, `TurnLoopSparesPlayers`.

The invariant adds to the three properties `Fits`, which says of each stage
whether the actor in it runs the loop, where it goes on after the shared stages
(`Claim`, `Trigger`, `After`, `Write` are used by requests and loop alike), and
that a loop about to act or to pass has planned from a monster's turn. Each step
`Becomes` something that fits and either leaves the loop as it is, enters it
with the mark down, or leaves it and takes the mark down; `LoopKept` concludes
`OneMonsterLoop` from that alone.

### ActivePlayProofs

`PlaceTypes`, `PlaceSwitchIsConfirmed`, `PlaceKeptIfRenewed`.

`TakesAreConfirmed` says what holds under the user's lock: whoever is to take a
place unconfirmed moves the user from nowhere or from the same play, because
places are only given up without the lock (`TakesBegin`). `SelectedWasStale`
makes the conditional removal right: the heartbeat the pass has read is older than
the clock for ever, and the row is removed only if it still has that heartbeat.

### MembershipProofs

`SeatTypes`, `SeatsAreEnough`, `SeatsFillBeforePlay`.

`SeatIsFree`: whoever has passed the check under the lock finds a seat when he
enters, because meanwhile members only go or come back by `resumeSession`
(`AdmittedShape`). `SeatsWereOffered`: an approval counts with a number of seats
read before its transaction, which is not the current one but was offered once;
hence `mostSeats`. `JoinersDelayPlay`: the start of a play waits for the lock.

### MapStoreProofs and MapSyncProofs

`StoreTypes`, `StoreKeepsChanges`; `SyncTypes`, `SyncShowsTheMap`.

`MovesAreFresh`: if the version a move has read is still the current one, so is
the map it read after it, since every save raises the version until a combat
starts. `EffectsAreFresh` holds by the lock. `MapSync` takes the store's
invariants over step by step and adds `OnTheWay`: no message, snapshot or request
carries a version nobody has committed yet; therefore a version equal to the
current one was read when the current map was in the row, and `AnswerIsNewest` and
`InSync` follow for whatever overtakes what.

### ScenarioDraftProofs

`TypeCorrect`, `SavedPagesShowTheDraft`, `PublicationsHoldWhatIsShown`,
`NoSaveTakesEditsOut`.

Every step has one of a few shapes (`StepShape`: an edit, a step of the server, an
answer, a review), and `Edited` and `Taken` say of each call and each page apart
what a shape can do to it. The invariant has two layers. The first holds in all
interleavings: `LinkInv` (a page's `saving` is set exactly while one automatic
saving of it is waited for, which gives `TypeOK`; a closed page waits for nothing;
nobody waits for a lost answer), `Heard` (no page and no request knows a version
that is yet to come, so that a commit makes every known version an old one) and
`LoadsAreExact` (a load whose row is still the newest has read the scenes that
belong to it, although it reads them later). The second, `Calm`, holds while
nothing has raced, and its parts need each other:

* `OneSave`: one save at a time can still be written, which is what `Races` excludes;
* `SavesAddTo`: a save that is or can be admitted holds all that is in the draft,
  and one that is answered *is* the draft, if its version is the last;
* `FormsAreAhead`: a page with the last version shows at least the draft and takes
  only the draft for saved. `SavedMeansSaved` is this, and a new save adds to the
  draft because of it;
* `SavedFormsStay`, `LoadsAfterSaves`: the page that waits for a save still shows
  what it sent; a load in between, by which it could forget an edit, finds it in
  the draft;
* `InDraft`: what was saved stays in the draft until it is read for publication.

The hard step is the answer of an automatic saving (`CalmTake`): the page takes the
*sent* form for saved and may have been typed in or reloaded since.

### What stays with TLC

Liveness only (`DueLobbyOpens`, `QueuedIsDecided`, `LoopEnds`, `ScreenCatchesUp`,
`SavedOrTold`): fairness and ENABLED are outside this prover's reach. The refuted
sentences of section 4 are, of course, not theorems.

## 6. What is not modelled

* **Attacks, spells, movement, conditions; the rules engine; inventory items;
  characters and the catalogue**: arithmetic and validation over one request's
  rows. Their concurrency is that of the modules above: an action's effect is one
  commit of `ActionQueue`, a fighter's state a `Wound` of `CombatTurns`.
* **Main commands and the AI client, the AI service**: sequential handlers around
  a call with a timeout; the AI service keeps no state.
* **Campaign archive, vault, transfers, calendar**: sections of `flagsJson`.
* **Users**: tokens and reset links, but for what the account deletion does to sessions.
* **Reveals and node transitions**, fog and geometry of the maps.
* **Shared utilities, deployment, rule data, most screens of the web client.**

Within the modelled parts: who may call (host, member, GM) beyond what the
properties need; attendance, ready flags, settings; what is broadcast, other than
maps; what an action does; a loop of the action queue that is left by an error of the
database itself; the endpoint that plays one monster's turn outside the loop
(`autoMonsterTurn`). A transaction whose commit succeeds and whose
acknowledgement from the database is lost is not modelled, so the unconditional
FAILED of action-processor.service.ts:263 cannot overwrite a COMPLETED row here.
Isolation is modelled by atomic transactions except in `createPlay` and
`disbandSession` of `SessionPlay`, in the two-step transactions of `ActionQueue`, `ActivePlay`, `Membership` and
`MapStore`, and in queries that read a row and its scenes apart in `ScenarioDraft`.

Several components meet only through the columns named in section 2 and are not
composed in one state space: the product is out of TLC's reach, and the
theorems of each module do not depend on the others' bounds.

## 7. Plan

1. **StateVersions**: `StateDiff` (compare in one statement, write in another) and the
   read-modify-writes of `flagsJson` beside the map's.
2. **Tokens**: token versions, logout from every device, one-time reset links.
3. **The rate limiter**: a pure algorithm against a sliding reference; a fixed
   window lets through at most twice its limit, less one, in any window.
4. **Spell slots, rests and quantities**: conservation over the action queue.
5. **Main commands**: the AI's answer that comes after the fallback.
