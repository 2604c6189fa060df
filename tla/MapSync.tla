------------------------------- MODULE MapSync -------------------------------
(***************************************************************************)
(* The map on one player's screen: the store of MapStore, what the server  *)
(* emits of its changes, and the browser that follows them by the socket,  *)
(* loads the map by GET and moves its own tokens.                          *)
(*                                                                         *)
(* A snapshot never carries the map (mapGameState takes vttMap out), so a  *)
(* delta finds no map to apply to and the browser asks for a snapshot,     *)
(* whose version makes it load the map.  The changes of an upload or of an *)
(* effect may go out as a full map, which the browser may also apply or    *)
(* drop: there are none of them here, only token moves and combats, whose  *)
(* changes go out as deltas.                                               *)
(***************************************************************************)
EXTENDS MapStore, Sequences, SequencesExt

CONSTANTS
    Mine,       \* the moves this browser asks for
    MaxLosses   \* bound: connections lost

ASSUME MapSyncAssumption ==
    /\ Uploads = {} /\ Effects = {}
    /\ Mine \subseteq Moves
    /\ MaxLosses \in Nat

VARIABLES
    browser,  \* what the browser shows and waits for
    inbox,    \* socket messages on their way to it, in order
    asks,     \* its session.resync messages the gateway has not read
    building, \* the versions of the snapshots being built for it
    losses    \* connections lost so far

browserVars == <<browser, inbox, asks, building, losses>>
vars == <<storeVars, browserVars>>

\* version: of the snapshot it has; asked: mapResyncRequested; load, answer: the
\* GET it waits for; shown: where the map on the screen comes from; moved and
\* before: pendingOptimisticTokenMoveRef.
Browser == [link: {"off", "rooms", "on"}, version: Nat, asked: BOOLEAN,
            load: {"none", "sent", "row"}, answer: SUBSET Tasks,
            screen: SUBSET Tasks, shown: {"load", "move", "response"},
            moved: Mine \cup {None}, before: SUBSET Tasks]

MapEvent == [kind |-> "map"]
Snapshot(v) == [kind |-> "snapshot", version |-> v]

TypeOK ==
    /\ StoreTypeOK
    /\ browser \in Browser
    /\ \A i \in DOMAIN inbox : inbox[i].kind \in {"map", "snapshot"}
    /\ asks \in Nat
    /\ \A i \in DOMAIN building : building[i] \in Nat
    /\ losses \in 0..MaxLosses
    /\ browser.link = "off" => inbox = <<>> /\ asks = 0 /\ building = <<>>

Init ==
    /\ StoreInit([t \in Tasks |-> IF t \in Mine THEN "new" ELSE "sent"])
    /\ browser = [link |-> "on", version |-> 0, asked |-> FALSE, load |-> "none",
                  answer |-> {}, screen |-> {}, shown |-> "load", moved |-> None,
                  before |-> {}]
    /\ inbox = <<>>
    /\ asks = 0
    /\ building = <<>>
    /\ losses = 0
-----------------------------------------------------------------------------
DeliverAnyway(m) == inbox' = Append(inbox, m)
Deliver(m) == inbox' = IF browser.link = "off" THEN inbox ELSE Append(inbox, m)
Finish(t) == task' = [task EXCEPT ![t] = [at |-> "done", version |-> 0, map |-> {}]]
Answer(t) == IF t \in Mine THEN Go(t, "answer") ELSE Finish(t)
Show(map, source) == [browser EXCEPT !.screen = map, !.shown = source]

(* What the server does after a commit. *)

\* emitVttMapUpdated, then a snapshot where hazards, or a combat, call for one.
Publish(t) ==
    /\ At(t, "saved")
    /\ Deliver(MapEvent)
    /\ Go(t, "shot") \/ (t \notin Fights /\ Answer(t))
    /\ UNCHANGED <<version, row, lock, combat, browser, asks, building, losses>>

ReadSnapshot(t) ==
    /\ At(t, "shot")
    /\ task' = [task EXCEPT ![t].at = "emit", ![t].version = version]
    /\ UNCHANGED <<version, row, lock, combat, browserVars>>

EmitSnapshot(t) ==
    /\ At(t, "emit")
    /\ Deliver(Snapshot(task[t].version))
    /\ Answer(t)
    /\ UNCHANGED <<version, row, lock, combat, browser, asks, building, losses>>
-----------------------------------------------------------------------------
(* The connection. *)

Disconnected(b) == [b EXCEPT !.link = "off"]

Forget ==
    /\ inbox' = <<>>
    /\ asks' = 0
    /\ building' = <<>>

LoseConnection ==
    /\ losses < MaxLosses
    /\ browser.link # "off"
    /\ browser' = Disconnected(browser)
    /\ losses' = losses + 1
    /\ Forget
    /\ UNCHANGED <<storeVars>>

\* session.join: the rooms first, then the snapshot.
Join ==
    /\ browser.link = "off"
    /\ browser' = [browser EXCEPT !.link = "rooms"]
    /\ UNCHANGED <<storeVars, inbox, asks, building, losses>>

ReadJoinSnapshot ==
    /\ browser.link = "rooms"
    /\ browser' = [browser EXCEPT !.link = "on"]
    /\ building' = Append(building, version)
    /\ UNCHANGED <<storeVars, inbox, asks, losses>>

\* session.resync.  The gateway refuses it when the user, in all his tabs, has
\* asked thirty times within a minute.
GrantResync ==
    /\ asks > 0
    /\ asks' = asks - 1
    /\ building' = Append(building, version)
    /\ UNCHANGED <<storeVars, browser, inbox, losses>>

RefuseResync ==
    /\ asks > 0
    /\ asks' = asks - 1
    /\ UNCHANGED <<storeVars, browser, inbox, building, losses>>

EmitBuilt(i) ==
    /\ i \in DOMAIN building
    /\ Deliver(Snapshot(building[i]))
    /\ building' = RemoveAt(building, i)
    /\ UNCHANGED <<storeVars, browser, asks, losses>>
-----------------------------------------------------------------------------
(* The browser. *)

\* The effect of usePlayScenarioMapLoader; the answer to an earlier GET is ignored.
ReloadUnlessLoading(b) == IF b.load = "none" THEN [b EXCEPT !.load = "sent"] ELSE b
Reload(b) == [b EXCEPT !.load = "sent", !.answer = {}]

ReceiveMap ==
    /\ inbox # <<>>
    /\ Head(inbox) = MapEvent
    /\ inbox' = Tail(inbox)
    /\ asks' = IF browser.asked THEN asks ELSE asks + 1
    /\ browser' = [browser EXCEPT !.asked = TRUE]
    /\ UNCHANGED <<storeVars, building, losses>>

ReceiveSnapshot ==
    /\ inbox # <<>>
    /\ Head(inbox).kind = "snapshot"
    /\ inbox' = Tail(inbox)
    /\ LET v == Head(inbox).version
           b == [browser EXCEPT !.asked = FALSE, !.version = v]
       IN browser' = IF v = browser.version THEN b ELSE Reload(b)
    /\ UNCHANGED <<storeVars, asks, building, losses>>

AnswerLoad ==
    /\ browser.load = "sent"
    /\ browser' = [browser EXCEPT !.load = "row", !.answer = row]
    /\ UNCHANGED <<storeVars, inbox, asks, building, losses>>

ShowLoaded ==
    /\ browser.load = "row"
    /\ browser' = [Show(browser.answer, "load") EXCEPT !.load = "none", !.answer = {}]
    /\ UNCHANGED <<storeVars, inbox, asks, building, losses>>

RefreshTokenOnly ==
    /\ browser.load = "none"
    /\ browser' = Disconnected([browser EXCEPT !.asked = FALSE])
    /\ Forget
    /\ UNCHANGED <<storeVars, losses>>

\* The timer of useAuth; a token lives far longer than a GET takes.  Another
\* token is another socket, and the map is loaded again.
RefreshToken ==
    /\ browser.load = "none"
    /\ browser' = Reload(Disconnected([browser EXCEPT !.asked = FALSE]))
    /\ Forget
    /\ UNCHANGED <<storeVars, losses>>

\* handleSessionTokenMoveRequest: the token is moved on the screen at once.
MoveToken(t) ==
    /\ At(t, "new")
    /\ browser' = [Show(browser.screen \cup {t}, "move")
                   EXCEPT !.moved = t, !.before = browser.screen]
    /\ Go(t, "sent")
    /\ UNCHANGED <<version, row, lock, combat, inbox, asks, building, losses>>

\* The answer is shown whenever it comes.
MoveAnswered(t) ==
    /\ At(t, "answer")
    /\ browser' = [Show(task[t].map, "response") EXCEPT !.moved = None, !.before = {}]
    /\ Finish(t)
    /\ UNCHANGED <<version, row, lock, combat, inbox, asks, building, losses>>

MoveRefused(t) ==
    /\ t \in Mine
    /\ At(t, "failed")
    /\ browser' = IF browser.moved # t THEN browser
                  ELSE [Show(IF browser.shown = "move" THEN browser.before
                             ELSE browser.screen, browser.shown)
                        EXCEPT !.moved = None, !.before = {}]
    /\ Finish(t)
    /\ UNCHANGED <<version, row, lock, combat, inbox, asks, building, losses>>
-----------------------------------------------------------------------------
Serve(t) ==
    \/ StoreStep(t) /\ UNCHANGED browserVars
    \/ Publish(t)
    \/ ReadSnapshot(t)
    \/ EmitSnapshot(t)
    \/ MoveAnswered(t)
    \/ MoveRefused(t)

Follow ==
    \/ Join
    \/ ReadJoinSnapshot
    \/ GrantResync
    \/ RefuseResync
    \/ \E i \in DOMAIN building : EmitBuilt(i)
    \/ ReceiveMap
    \/ ReceiveSnapshot
    \/ AnswerLoad
    \/ ShowLoaded

SyncNext ==
    \/ \E t \in Tasks : Serve(t) \/ MoveToken(t)
    \/ Follow
    \/ LoseConnection
    \/ RefreshToken

SyncSpec == Init /\ [][SyncNext]_vars

Fairness ==
    /\ \A t \in Tasks : WF_vars(Serve(t))
    /\ WF_vars(AnswerLoad)
    /\ WF_vars(ShowLoaded)
    /\ WF_vars(RefreshToken)

FairSpec == SyncSpec /\ Fairness
-----------------------------------------------------------------------------
\* When the browser has the newest version and has loaded the map for it, it shows
\* the server's map, whatever events, answers and snapshots overtook each other,
\* as long as no answer to a move of its own, and no combat's version, intervened.
InSync ==
    (browser.version = version /\ browser.load = "none" /\ browser.shown = "load" /\ ~ combat)
    => browser.screen = row

\* Once the changes cease, the screen shows the server's map and keeps it, at the
\* latest after the next refresh of the token.
ScreenCatchesUp == <>[](browser.screen = row)
=============================================================================
