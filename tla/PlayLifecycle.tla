---------------------------- MODULE PlayLifecycle ----------------------------
(***************************************************************************)
(* What a session promises its members about its plays, with no session    *)
(* row, no versions and no requests in flight: plays are numbered, a new   *)
(* one is opened only when every earlier one has ended, and each one moves *)
(* forward from a date or a lobby to an end it never leaves.  A disband    *)
(* ends the plays that are open; when it overlooks one, later plays need   *)
(* no longer wait, and the rest of the promise stands.                     *)
(***************************************************************************)
EXTENDS Naturals

CONSTANT MaxPlays    \* bound: plays of the session

VARIABLES phase, overlooked

Plays == 1..MaxPlays
Phases == {"NONE", "SCHEDULED", "LOBBY_OPEN", "PLAYING", "FINISHED", "CANCELLED"}
EndedPhases == {"FINISHED", "CANCELLED"}
OpenPhases == {"SCHEDULED", "LOBBY_OPEN", "PLAYING"}
LivePhases == {"LOBBY_OPEN", "PLAYING"}

\* A session is created with its first play in its lobby, with its first play
\* on a date, or with no play at all.
Init ==
    \E first \in {"NONE", "SCHEDULED", "LOBBY_OPEN"} :
        /\ phase = [p \in Plays |-> IF p = 1 THEN first ELSE "NONE"]
        /\ overlooked = FALSE

Move(p, from, to) ==
    /\ phase[p] \in from
    /\ phase' = [phase EXCEPT ![p] = to]
    /\ UNCHANGED overlooked

Announce(p) ==
    /\ ~ overlooked => \A q \in 1..(p - 1) : phase[q] \in EndedPhases
    /\ \E first \in {"SCHEDULED", "LOBBY_OPEN"} : Move(p, {"NONE"}, first)

OpenLobby(p) == Move(p, {"SCHEDULED"}, "LOBBY_OPEN")
Begin(p)     == Move(p, {"LOBBY_OPEN"}, "PLAYING")
Finish(p)    == Move(p, {"LOBBY_OPEN", "PLAYING"}, "FINISHED")
Cancel(p)    == Move(p, {"SCHEDULED"}, "CANCELLED")

\* A disband cancels the open plays it knows of, and says so of any other that
\* is open to its members.
Disband(known) ==
    /\ \A p \in known : phase[p] \in OpenPhases
    /\ phase' = [p \in Plays |-> IF p \in known THEN "CANCELLED" ELSE phase[p]]
    /\ overlooked' = (overlooked \/ \E p \in Plays \ known : phase[p] \in LivePhases)

Next ==
    \/ \E p \in Plays :
          Announce(p) \/ OpenLobby(p) \/ Begin(p) \/ Finish(p) \/ Cancel(p)
    \/ \E known \in SUBSET Plays : Disband(known)

Spec == Init /\ [][Next]_<<phase, overlooked>>
=============================================================================
