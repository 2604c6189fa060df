---------------------------- MODULE ScenarioDraft ----------------------------
(***************************************************************************)
(* A draft scenario and the editor pages that are open on it, each with    *)
(* its automatic saving, its save and publish buttons and its loading of   *)
(* the draft.  A page sends the updatedAt of the draft it has, and the     *)
(* server refuses a save whose draft has changed since.                    *)
(*                                                                         *)
(* A content is the set of the edits it shows; an edit adds to a scene.    *)
(* Scenes are rows of their own, read by a query after the draft's row.    *)
(* Each await of a request ends an action.                                 *)
(***************************************************************************)
EXTENDS Naturals, FiniteSets, FiniteSetsExt

CONSTANTS
    Pages,       \* editor pages
    Edits,       \* what is typed, each edit once
    MaxCalls,    \* bound: requests on their way at once
    MaxPresses,  \* bound: saves and publications by hand
    MaxLoads,    \* bound: loads of the draft, by opening a page or a new token
    MaxLosses,   \* bound: requests whose answer is lost
    MaxReviews,  \* bound: changes of the draft's collaborators and reviews
    None

ASSUME ScenarioDraftAssumption ==
    /\ {MaxCalls, MaxPresses, MaxLoads, MaxLosses, MaxReviews} \subseteq Nat
    /\ None \notin Nat \cup Pages

VARIABLES
    draft,     \* the scenario: version stands for updatedAt
    revisions, \* the contents that have been published
    pages,     \* the editor pages
    calls,     \* their requests
    typed,     \* the edits made so far
    raced,     \* whether requests have overlapped in one of the ways of Races
    count      \* how often what the bounds speak of has happened

vars == <<draft, revisions, pages, calls, typed, raced, count>>

\* saved: the content in lastSavedSnapshotRef, if any; version: draftUpdatedAtRef; busy, saving:
\* busyRef and autoSaveBusyRef; told: the page shows an error.
Page == [open: BOOLEAN, form: SUBSET Edits, saved: SUBSET SUBSET Edits,
         version: {None} \cup Nat, busy: BOOLEAN, saving: BOOLEAN, told: BOOLEAN]

Closed == [open |-> FALSE, form |-> {}, saved |-> {}, version |-> None,
           busy |-> FALSE, saving |-> FALSE, told |-> FALSE]

Kinds == {"auto", "save", "publish", "load", "lost"}
Unsaved == {"sent", "checked"}
Saving == Unsaved \cup {"committed"}
Publishing == {"asked", "scenes"}
Loading == {"get", "row"}
Ends == {"saved", "published", "loaded", "refused"}

\* page: whose answer it is, None when nobody waits.  shown: the form it was sent
\* with.  version: of the draft as the page knows it, later of the answer.
\* read: the scenes read.
Call == [at: Saving \cup Publishing \cup Loading \cup Ends, kind: Kinds,
         page: Pages \cup {None}, shown: SUBSET Edits, version: {None} \cup Nat,
         read: SUBSET Edits]

ASSUME NoneIsNoCall == None \notin Call

Slots == 1..MaxCalls
Free == {c \in Slots : calls[c] = None}
Sent == Slots \ Free
WaitsFor(c, p) == c \in Sent /\ calls[c].page = p
At(c, stage) == c \in Sent /\ calls[c].at = stage

TypeOK ==
    /\ draft \in [version: Nat, content: SUBSET Edits]
    /\ revisions \subseteq SUBSET Edits
    /\ pages \in [Pages -> Page]
    /\ calls \in [Slots -> {None} \cup Call]
    /\ typed \subseteq Edits
    /\ raced \in BOOLEAN
    /\ \A p \in Pages :
          pages[p].saving <=> Cardinality({c \in Sent : calls[c].kind = "auto" /\ WaitsFor(c, p)}) = 1

Init ==
    /\ draft = [version |-> 0, content |-> {}]
    /\ revisions = {}
    /\ pages = [p \in Pages |-> Closed]
    /\ calls = [c \in Slots |-> None]
    /\ typed = {}
    /\ raced = FALSE
    /\ count = [presses |-> 0, loads |-> 0, losses |-> 0, reviews |-> 0]
-----------------------------------------------------------------------------
Counted(what, limit) ==
    /\ count[what] < limit
    /\ count' = [count EXCEPT ![what] = @ + 1]

\* Two saves are under way, a page saves while it loads what it will show, or it
\* saves a form although its draft could not be loaded.
Races(p, stage) ==
    \/ stage = "sent" /\ pages[p].version = None
    \/ stage = "sent" /\ \E c \in Sent :
          calls[c].at \in Saving \/ (WaitsFor(c, p) /\ calls[c].kind = "load")
    \/ stage = "get" /\ \E c \in Sent : WaitsFor(c, p) /\ calls[c].at \in Unsaved

\* A page sends a request; others it has may be left without anybody waiting.
Send(p, kind, stage, deserted) ==
    /\ Free # {}
    /\ calls' = [c \in Slots |->
          IF c = Min(Free)
          THEN [at |-> stage, kind |-> kind, page |-> p, shown |-> pages[p].form,
                version |-> pages[p].version, read |-> {}]
          ELSE IF c \in deserted THEN [calls[c] EXCEPT !.page = None] ELSE calls[c]]
    /\ raced' = (raced \/ Races(p, stage))

Become(p, page) == pages' = IF p = None THEN pages ELSE [pages EXCEPT ![p] = page]
Proceed(c, stage) == calls' = [calls EXCEPT ![c].at = stage]
End(c) == calls' = [calls EXCEPT ![c] = None]
-----------------------------------------------------------------------------
(* The editor. *)

Loads(p) == {c \in Sent : WaitsFor(c, p) /\ calls[c].kind = "load"}

\* The effect that loads the draft when the page opens and when the token changes.
Load(p, page) ==
    /\ Counted("loads", MaxLoads)
    /\ Send(p, "load", "get", Loads(p))
    /\ Become(p, [page EXCEPT !.open = TRUE, !.saved = {}, !.busy = TRUE, !.told = FALSE])
    /\ UNCHANGED <<draft, revisions, typed>>

Open(p) == ~ pages[p].open /\ Load(p, Closed)
RefreshToken(p) == pages[p].open /\ Load(p, pages[p])

Type(p, x) ==
    /\ pages[p].open
    /\ x \notin typed
    /\ typed' = typed \cup {x}
    /\ Become(p, [pages[p] EXCEPT !.form = @ \cup {x}])
    /\ UNCHANGED <<draft, revisions, calls, raced, count>>

\* The required fields of a form that has never been loaded are empty.
Complete(p) == pages[p].version # None \/ pages[p].form # {}

AutosaveAnyway(p) ==
    /\ pages[p].open
    /\ ~ pages[p].busy
    /\ pages[p].form \notin pages[p].saved
    /\ Complete(p)
    /\ Send(p, "auto", "sent", {})
    /\ Become(p, [pages[p] EXCEPT !.saving = TRUE])
    /\ UNCHANGED <<draft, revisions, typed, count>>

Autosave(p) ==
    /\ pages[p].open
    /\ ~ pages[p].busy
    /\ ~ pages[p].saving
    /\ pages[p].form \notin pages[p].saved
    /\ Complete(p)
    /\ Send(p, "auto", "sent", {})
    /\ Become(p, [pages[p] EXCEPT !.saving = TRUE])
    /\ UNCHANGED <<draft, revisions, typed, count>>

PressUnsaved(p, kind) ==
    /\ pages[p].open
    /\ ~ pages[p].busy
    /\ Complete(p)
    /\ Counted("presses", MaxPresses)
    /\ Send(p, kind, IF kind = "publish" THEN "asked" ELSE "sent", {})
    /\ Become(p, [pages[p] EXCEPT !.busy = TRUE, !.told = FALSE])
    /\ UNCHANGED <<draft, revisions, typed>>

\* submit and submitPublishScenario.
Press(p, kind) ==
    /\ pages[p].open
    /\ ~ pages[p].busy
    /\ Complete(p)
    /\ Counted("presses", MaxPresses)
    /\ Send(p, kind, "sent", {})
    /\ Become(p, [pages[p] EXCEPT !.busy = TRUE, !.told = FALSE])
    /\ UNCHANGED <<draft, revisions, typed>>

\* The author leaves the page, saved or not.
Leave(p) ==
    /\ pages[p].open
    /\ Become(p, Closed)
    /\ calls' = [c \in Slots |-> IF WaitsFor(c, p) THEN [calls[c] EXCEPT !.page = None] ELSE calls[c]]
    /\ UNCHANGED <<draft, revisions, typed, raced, count>>
-----------------------------------------------------------------------------
(* The server. *)

CheckNothing(c) ==
    /\ At(c, "sent")
    /\ Proceed(c, "checked")
    /\ UNCHANGED <<draft, revisions, pages, typed, raced, count>>

\* updateScenario: expectedUpdatedAt, when the page has one, is compared ...
CheckVersion(c) ==
    /\ At(c, "sent")
    /\ Proceed(c, IF calls[c].version \in {None, draft.version} THEN "checked" ELSE "refused")
    /\ UNCHANGED <<draft, revisions, pages, typed, raced, count>>

\* ... the draft is written in a transaction ...
CommitSave(c) ==
    /\ At(c, "checked")
    /\ draft' = [version |-> draft.version + 1, content |-> calls[c].shown]
    /\ Proceed(c, "committed")
    /\ UNCHANGED <<revisions, pages, typed, raced, count>>

\* ... and read again for the answer.
ReadSaved(c) ==
    /\ At(c, "committed")
    /\ calls' = [calls EXCEPT ![c].at = "saved", ![c].version = draft.version]
    /\ UNCHANGED <<draft, revisions, pages, typed, raced, count>>

\* publishScenario: the draft is read, judged, and copied to a revision.
ReadScenes(c) ==
    /\ At(c, "asked")
    /\ calls' = [calls EXCEPT ![c].at = "scenes", ![c].read = draft.content]
    /\ UNCHANGED <<draft, revisions, pages, typed, raced, count>>

RejectRevision(c) ==
    /\ At(c, "scenes")
    /\ Proceed(c, "refused")
    /\ UNCHANGED <<draft, revisions, pages, typed, raced, count>>

CreateRevision(c) ==
    /\ At(c, "scenes")
    /\ revisions' = revisions \cup {calls[c].read}
    /\ Proceed(c, "published")
    /\ UNCHANGED <<draft, pages, typed, raced, count>>

\* getScenario: the row, then its scenes.
LoadRow(c) ==
    /\ At(c, "get")
    /\ calls' = [calls EXCEPT ![c].at = "row", ![c].version = draft.version]
    /\ UNCHANGED <<draft, revisions, pages, typed, raced, count>>

LoadScenes(c) ==
    /\ At(c, "row")
    /\ calls' = [calls EXCEPT ![c].at = "loaded", ![c].read = draft.content]
    /\ UNCHANGED <<draft, revisions, pages, typed, raced, count>>

\* A collaborator or a review is recorded: another updatedAt.
Review ==
    /\ Counted("reviews", MaxReviews)
    /\ draft' = [draft EXCEPT !.version = @ + 1]
    /\ UNCHANGED <<revisions, pages, calls, typed, raced>>
-----------------------------------------------------------------------------
(* The answers, as the editor takes them. *)

Waits(c, kind, stage) == At(c, stage) /\ calls[c].kind = kind

SavedNow(c) == [pages[calls[c].page] EXCEPT !.version = calls[c].version, !.saved = {pages[calls[c].page].form}]
Saved(c) == [pages[calls[c].page] EXCEPT !.version = calls[c].version, !.saved = {calls[c].shown}]

TakeAutosaved(c) ==
    /\ Waits(c, "auto", "saved")
    /\ Become(calls[c].page, [Saved(c) EXCEPT !.saving = FALSE])
    /\ End(c)
    /\ UNCHANGED <<draft, revisions, typed, raced, count>>

\* The save button leaves the page.
TakeSaved(c) ==
    /\ Waits(c, "save", "saved")
    /\ Become(calls[c].page, Closed)
    /\ calls' = [d \in Slots |->
          IF d = c THEN None
          ELSE IF d \in Sent /\ calls[d].page = calls[c].page THEN [calls[d] EXCEPT !.page = None]
          ELSE calls[d]]
    /\ UNCHANGED <<draft, revisions, typed, raced, count>>

\* Only then does the page ask for the publication.
TakeSavedToPublish(c) ==
    /\ Waits(c, "publish", "saved")
    /\ Become(calls[c].page, Saved(c))
    /\ Proceed(c, "asked")
    /\ UNCHANGED <<draft, revisions, typed, raced, count>>

TakePublished(c) ==
    /\ Waits(c, "publish", "published")
    /\ Become(calls[c].page, [pages[calls[c].page] EXCEPT !.busy = FALSE])
    /\ End(c)
    /\ UNCHANGED <<draft, revisions, typed, raced, count>>

TakeDraft(c) ==
    /\ Waits(c, "load", "loaded")
    /\ Become(calls[c].page,
          [pages[calls[c].page] EXCEPT !.form = calls[c].read, !.saved = {calls[c].read},
                                      !.version = calls[c].version, !.busy = FALSE])
    /\ End(c)
    /\ UNCHANGED <<draft, revisions, typed, raced, count>>

\* catch and finally.
FailedBusy(p, kind) ==
    [pages[p] EXCEPT !.told = TRUE, !.busy = IF kind = "auto" THEN @ ELSE FALSE]
Failed(p, kind) ==
    [pages[p] EXCEPT !.told = TRUE,
                     !.saving = IF kind = "auto" THEN FALSE ELSE @,
                     !.busy = IF kind = "auto" THEN @ ELSE FALSE]

TakeRefusal(c) ==
    /\ At(c, "refused")
    /\ Become(calls[c].page, Failed(calls[c].page, calls[c].kind))
    /\ End(c)
    /\ UNCHANGED <<draft, revisions, typed, raced, count>>

\* The connection breaks: the page takes it for a failure, the server goes on.
Lose(c) ==
    /\ c \in Sent
    /\ calls[c].kind # "lost"
    /\ Counted("losses", MaxLosses)
    /\ Become(calls[c].page, Failed(calls[c].page, calls[c].kind))
    /\ calls' = [calls EXCEPT ![c].kind = "lost", ![c].page = None]
    /\ UNCHANGED <<draft, revisions, typed, raced>>

Drop(c) ==
    /\ calls[c] # None
    /\ calls[c].kind = "lost"
    /\ calls[c].at \in Ends \ {"refused"}
    /\ End(c)
    /\ UNCHANGED <<draft, revisions, pages, typed, raced, count>>
-----------------------------------------------------------------------------
Serve(c) ==
    \/ CheckVersion(c)
    \/ CommitSave(c)
    \/ ReadSaved(c)
    \/ ReadScenes(c)
    \/ RejectRevision(c)
    \/ CreateRevision(c)
    \/ LoadRow(c)
    \/ LoadScenes(c)

Take(c) ==
    \/ TakeAutosaved(c)
    \/ TakeSaved(c)
    \/ TakeSavedToPublish(c)
    \/ TakePublished(c)
    \/ TakeDraft(c)
    \/ TakeRefusal(c)
    \/ Drop(c)

Edit(p) ==
    \/ Open(p)
    \/ RefreshToken(p)
    \/ \E x \in Edits : Type(p, x)
    \/ Autosave(p)
    \/ \E kind \in {"save", "publish"} : Press(p, kind)
    \/ Leave(p)

Next ==
    \/ \E p \in Pages : Edit(p)
    \/ \E c \in Slots : Serve(c) \/ Take(c) \/ Lose(c)
    \/ Review

Spec == Init /\ [][Next]_vars

Fairness ==
    /\ \A c \in Slots : WF_vars(Serve(c)) /\ WF_vars(Take(c))
    /\ \A p \in Pages : WF_vars(Autosave(p))

FairSpec == Spec /\ Fairness
-----------------------------------------------------------------------------
\* A save that knows which draft it replaces, and that nothing has raced, takes no
\* edit out of the draft, whatever other pages, lost answers and reviews came between.
EditsAreKept ==
    [][\A c \in Sent : At(c, "checked") /\ calls'[c] # None /\ calls'[c].at = "committed"
                       /\ ~ raced
       => draft.content \subseteq draft'.content]_vars

\* A page that takes its form for saved, and has the draft's last version, shows the
\* draft as it is, unless requests have raced.
SavedMeansSaved ==
    ~ raced => \A p \in Pages :
        pages[p].version = draft.version /\ pages[p].form \in pages[p].saved
        => draft.content = pages[p].form

\* What is published holds all the author saw when he pressed the button.
PublishesWhatIsShown ==
    ~ raced => \A c \in Sent :
        At(c, "scenes") => calls[c].shown \subseteq calls[c].read

\* However requests race and get lost, an open page always comes to have its form
\* saved or an error shown.
SavedOrTold ==
    \A p \in Pages :
        []<>(~ pages[p].open \/ pages[p].told \/ pages[p].form \in pages[p].saved)
=============================================================================
