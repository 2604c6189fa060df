------------------------- MODULE ScenarioDraftProofs -------------------------
(***************************************************************************)
(* Proofs about the drafts and their editor pages: the link between a page *)
(* and its automatic saving, and, as long as no two requests have raced,   *)
(* that a save adds to the draft, that a page knows when it shows the      *)
(* draft, and that a publication holds what its author saw.                *)
(*                                                                         *)
(* The shapes of the steps come first: what a step can do to each call and *)
(* to each page.  The invariants are then shown of each shape, call by     *)
(* call and page by page.                                                  *)
(***************************************************************************)
EXTENDS ScenarioDraft, FiniteSetTheorems, WellFoundedInduction, TLAPS

\* The stages a request goes through.
Stages == Saving \cup Publishing \cup Loading \cup Ends

\* The types of the variables, without what TypeOK says of the automatic saving.
Types ==
    /\ draft \in [version: Nat, content: SUBSET Edits]
    /\ revisions \subseteq SUBSET Edits
    /\ pages \in [Pages -> Page]
    /\ calls \in [Slots -> {None} \cup Call]
    /\ typed \subseteq Edits
    /\ raced \in BOOLEAN

\* A request is sent from the first free slot.
LEMMA FirstFree == Free # {} => Min(Free) \in Free
<1> SUFFICES ASSUME Free # {} PROVE Min(Free) \in Free
  OBVIOUS
<1>1. Free \subseteq Nat
  BY DEF Free, Slots
<1>2. PICK c \in Free : \A d \in Free : ~ (<<d, c>> \in OpToRel(<, Nat))
  BY <1>1, NatLessThanWellFounded, WFMin
<1>3. \A d \in Free : ~ (d < c)
  BY <1>1, <1>2, Zenon DEF OpToRel
<1>4. \A d \in Free : c =< d
  BY <1>1, <1>3
<1> QED
  BY <1>4 DEF Min
-----------------------------------------------------------------------------
(***************************************************************************)
(* What a step does to the calls and to the pages.                         *)
(***************************************************************************)
\* The other slots keep their calls.
OthersStay(c) == \A d \in Slots \ {c} : calls'[d] = calls[d]

\* A call goes on, or one that waits for its answer stops waiting.
Goes(c, to, page, version, read) ==
    /\ calls[c] # None
    /\ calls'[c] # None
    /\ calls'[c].at = to
    /\ calls'[c].page = page
    /\ calls'[c].shown = calls[c].shown
    /\ calls'[c].version = version
    /\ calls'[c].read = read

\* Nobody waits for the call in slot d any more.
Deserts(d) == Goes(d, calls[d].at, None, calls[d].version, calls[d].read) /\ calls'[d].kind = calls[d].kind

\* Only the call in slot c goes on, from one stage to another.
Proceeds(c, from, to, version, read) ==
    /\ calls[c].at = from
    /\ Goes(c, to, calls[c].page, version, read)
    /\ calls'[c].kind = calls[c].kind
    /\ OthersStay(c)

\* The page of p afterwards.
Turns(p, open, form, saved, version, saving) ==
    /\ pages'[p].open = open
    /\ pages'[p].form = form
    /\ pages'[p].saved = saved
    /\ pages'[p].version = version
    /\ pages'[p].saving = saving

\* The other pages stay as they are.
OtherPagesStay(p) == \A q \in Pages \ {p} : pages'[q] = pages[q]

\* Record fields of a call and of a page.
LEMMA CallFields ==
    ASSUME NEW call \in Call, NEW at \in Stages, NEW version \in {None} \cup Nat, NEW read \in SUBSET Edits
    PROVE  /\ [call EXCEPT !.at = at] \in Call
           /\ [call EXCEPT !.at = at, !.version = version] \in Call
           /\ [call EXCEPT !.at = at, !.read = read] \in Call
           /\ [call EXCEPT !.page = None] \in Call
           /\ [call EXCEPT !.kind = "lost", !.page = None] \in Call
BY DEF Call, Stages, Kinds

\* The call in slot c goes on to another stage.
LEMMA Proceeding ==
    ASSUME Types, NEW c \in Slots, calls[c] # None, NEW at \in Stages,
           NEW version \in {None} \cup Nat, NEW read \in SUBSET Edits,
           \/ calls' = [calls EXCEPT ![c].at = at] /\ version = calls[c].version /\ read = calls[c].read
           \/ calls' = [calls EXCEPT ![c].at = at, ![c].version = version] /\ read = calls[c].read
           \/ calls' = [calls EXCEPT ![c].at = at, ![c].read = read] /\ version = calls[c].version
    PROVE  /\ calls' \in [Slots -> {None} \cup Call]
           /\ Proceeds(c, calls[c].at, at, version, read)
<1>1. calls[c] \in Call
  BY DEF Types
<1>2. /\ [calls[c] EXCEPT !.at = at] \in Call
      /\ [calls[c] EXCEPT !.at = at, !.version = version] \in Call
      /\ [calls[c] EXCEPT !.at = at, !.read = read] \in Call
  BY <1>1, CallFields
<1>3. /\ calls'[c] \in Call
      /\ calls'[c].at = at
      /\ calls'[c].page = calls[c].page
      /\ calls'[c].kind = calls[c].kind
      /\ calls'[c].shown = calls[c].shown
      /\ calls'[c].version = version
      /\ calls'[c].read = read
      /\ OthersStay(c)
      /\ calls' = [calls EXCEPT ![c] = calls'[c]]
  BY <1>1, <1>2 DEF Types, Call, OthersStay
<1> QED
  BY <1>1, <1>3, NoneIsNoCall DEF Types, Proceeds, Goes

\* The type of the calls after a step.
CallsType == calls' \in [Slots -> {None} \cup Call]

\* The call goes on with nothing else about it changed.
LEMMA OnlyProceeding ==
    ASSUME Types, NEW c \in Slots, calls[c] # None, NEW at \in Stages, Proceed(c, at)
    PROVE  CallsType /\ Proceeds(c, calls[c].at, at, calls[c].version, calls[c].read)
<1>1. calls[c].version \in {None} \cup Nat /\ calls[c].read \in SUBSET Edits
  BY DEF Types, Call
<1> QED
  BY <1>1, Proceeding DEF Proceed, CallsType

\* Neither the draft nor what is published changes.
DraftStays == draft' = draft /\ revisions' = revisions

\* The server takes the call in slot c a step further.
Serves(c) ==
    \/ /\ \/ /\ calls[c].version \in {None, draft.version}
             /\ Proceeds(c, "sent", "checked", calls[c].version, calls[c].read)
          \/ Proceeds(c, "sent", "refused", calls[c].version, calls[c].read)
          \/ Proceeds(c, "committed", "saved", draft.version, calls[c].read)
          \/ Proceeds(c, "asked", "scenes", calls[c].version, draft.content)
          \/ Proceeds(c, "scenes", "refused", calls[c].version, calls[c].read)
          \/ Proceeds(c, "get", "row", draft.version, calls[c].read)
          \/ Proceeds(c, "row", "loaded", calls[c].version, draft.content)
       /\ DraftStays
    \/ /\ Proceeds(c, "scenes", "published", calls[c].version, calls[c].read)
       /\ draft' = draft
       /\ revisions' = revisions \cup {calls[c].read}
    \/ /\ Proceeds(c, "checked", "committed", calls[c].version, calls[c].read)
       /\ draft' = [version |-> draft.version + 1, content |-> calls[c].shown]
       /\ revisions' = revisions

\* A step of the server has one of the shapes of Serves.
LEMMA ServeShape ==
    ASSUME Types, NEW c \in Slots, Serve(c)
    PROVE  Serves(c) /\ CallsType /\ UNCHANGED <<pages, typed, raced>>
<1>1. UNCHANGED <<pages, typed, raced>>
  BY DEF Serve, CheckVersion, CommitSave, ReadSaved, ReadScenes, RejectRevision, CreateRevision, LoadRow, LoadScenes
<1>2. calls[c] # None
  BY DEF Serve, CheckVersion, CommitSave, ReadSaved, ReadScenes, RejectRevision, CreateRevision, LoadRow,
     LoadScenes, At, Sent, Free
<1>3. calls[c] \in Call
  BY <1>2 DEF Types
<1>4. /\ calls[c].version \in {None} \cup Nat
      /\ calls[c].read \in SUBSET Edits
      /\ draft.version \in {None} \cup Nat
      /\ draft.content \in SUBSET Edits
  BY <1>3 DEF Call, Types
<1>5. ASSUME NEW at \in Stages, Proceed(c, at)
      PROVE  CallsType /\ Proceeds(c, calls[c].at, at, calls[c].version, calls[c].read)
  BY <1>2, <1>5, OnlyProceeding
<1>6. CASE CheckVersion(c) \/ CommitSave(c) \/ RejectRevision(c) \/ CreateRevision(c)
  BY <1>5, <1>6 DEF CheckVersion, CommitSave, RejectRevision, CreateRevision, At, Serves, DraftStays,
     Stages, Saving, Unsaved, Publishing, Loading, Ends
<1>7. CASE ReadSaved(c) \/ LoadRow(c)
  <2>1. ASSUME NEW at \in Stages, calls' = [calls EXCEPT ![c].at = at, ![c].version = draft.version]
        PROVE  CallsType /\ Proceeds(c, calls[c].at, at, draft.version, calls[c].read)
    BY <1>2, <1>4, <2>1, Proceeding DEF CallsType
  <2> QED
    BY <1>7, <2>1 DEF ReadSaved, LoadRow, At, Serves, DraftStays, Stages, Saving, Unsaved, Publishing, Loading, Ends
<1>8. CASE ReadScenes(c) \/ LoadScenes(c)
  <2>1. ASSUME NEW at \in Stages, calls' = [calls EXCEPT ![c].at = at, ![c].read = draft.content]
        PROVE  CallsType /\ Proceeds(c, calls[c].at, at, calls[c].version, draft.content)
    BY <1>2, <1>4, <2>1, Proceeding DEF CallsType
  <2> QED
    BY <1>8, <2>1 DEF ReadScenes, LoadScenes, At, Serves, DraftStays, Stages, Saving, Unsaved, Publishing, Loading,
       Ends
<1> QED
  BY <1>1, <1>6, <1>7, <1>8 DEF Serve

\* A page sends a request.
Sends(p, kind, stage) ==
    \E n \in Slots :
        /\ calls[n] = None
        /\ calls'[n] = [at |-> stage, kind |-> kind, page |-> p, shown |-> pages[p].form,
                       version |-> pages[p].version, read |-> {}]
        /\ calls'[n] # None
        /\ \A d \in Slots \ {n} :
              \/ calls'[d] = calls[d]
              \/ Deserts(d) /\ calls[d].kind = "load" /\ kind = "load" /\ calls[d].page = p
        /\ kind = "load" => \A d \in Slots : WaitsFor(d, p) => calls[d].kind # "load" \/ Deserts(d)

\* Send puts a request in a free slot; a load leaves the page's earlier loads unwaited for.
LEMMA SendShape ==
    ASSUME Types, NEW p \in Pages, NEW kind \in Kinds, NEW stage \in Stages,
           Send(p, kind, stage, IF kind = "load" THEN Loads(p) ELSE {})
    PROVE  Sends(p, kind, stage) /\ CallsType
<1> DEFINE n == Min(Free)
           new == [at |-> stage, kind |-> kind, page |-> p, shown |-> pages[p].form,
                   version |-> pages[p].version, read |-> {}]
           deserted == IF kind = "load" THEN Loads(p) ELSE {}
<1>1. n \in Slots /\ calls[n] = None
  BY FirstFree DEF Send, Free
<1>2. new \in Call
  BY DEF Types, Page, Call, Stages
<1>3. \A d \in deserted : d \in Slots /\ d # n /\ calls[d] \in Call /\ calls[d].kind = "load" /\ calls[d].page = p
  BY <1>1 DEF Loads, Sent, Free, WaitsFor, Types
<1>4. calls' = [c \in Slots |->
          IF c = n THEN new ELSE IF c \in deserted THEN [calls[c] EXCEPT !.page = None] ELSE calls[c]]
  BY DEF Send
<1> HIDE DEF n, new, deserted
<1>5. \A d \in deserted : [calls[d] EXCEPT !.page = None] \in Call
  BY <1>3, CallFields DEF Stages, Saving, Unsaved
<1>6. CallsType
  BY <1>1, <1>2, <1>4, <1>5 DEF CallsType, Types
<1>7. ASSUME NEW d \in deserted PROVE Deserts(d)
  <2>1. calls[d] # None
    BY <1>3, NoneIsNoCall
  <2>2. calls'[d] = [calls[d] EXCEPT !.page = None] /\ calls'[d] # None
    BY <1>3, <1>4, <1>5, NoneIsNoCall
  <2> QED
    BY <1>3, <2>1, <2>2 DEF Deserts, Goes, Call
<1>8. calls'[n] = new /\ calls'[n] # None
  BY <1>1, <1>2, <1>4, NoneIsNoCall
<1>9. \A d \in Slots \ {n} : calls'[d] = calls[d] \/ d \in deserted
  BY <1>4
<1>10. \A d \in Slots : kind = "load" /\ WaitsFor(d, p) => calls[d].kind # "load" \/ d \in deserted
  BY DEF deserted, Loads, WaitsFor
<1>11. deserted # {} => kind = "load"
  BY DEF deserted
<1> QED
  BY <1>1, <1>3, <1>6, <1>7, <1>8, <1>9, <1>10, <1>11 DEF Sends, new

\* The type of the pages after a step.
PagesType == pages' \in [Pages -> Page]

\* A page takes on another state, alone.
LEMMA Becoming ==
    ASSUME Types, NEW p \in Pages, NEW page \in Page, Become(p, page)
    PROVE  PagesType /\ pages'[p] = page /\ OtherPagesStay(p)
BY ScenarioDraftAssumption DEF Types, Become, PagesType, OtherPagesStay

\* A closed page is a page.
LEMMA ClosedType == Closed \in Page
BY DEF Closed, Page

\* Only open pages are waited for, and a closed one has forgotten everything.
ClosedPages ==
    /\ \A p \in Pages : pages[p].open \/ pages[p] = Closed
    /\ \A p \in Pages, c \in Slots : WaitsFor(c, p) => pages[p].open

\* A step of the editor page p.
OpensOrReloads(p) == \* opens, or loads again
    /\ Sends(p, "load", "get")
    /\ Turns(p, TRUE, pages[p].form, {}, pages[p].version, pages[p].saving)
    /\ raced' = (raced \/ Races(p, "get"))
    /\ typed' = typed

\* An edit is typed.
TypesIn(p) ==
    \E x \in Edits :
        /\ calls' = calls
        /\ Turns(p, TRUE, pages[p].form \cup {x}, pages[p].saved, pages[p].version, pages[p].saving)
        /\ raced' = raced
        /\ typed' = typed \cup {x}

\* The form is sent, to be saved.
SendsForm(p) ==
    /\ \/ Sends(p, "auto", "sent") /\ ~ pages[p].saving
             /\ Turns(p, TRUE, pages[p].form, pages[p].saved, pages[p].version, TRUE)
       \/ \E kind \in {"save", "publish"} :
             /\ Sends(p, kind, "sent")
             /\ Turns(p, TRUE, pages[p].form, pages[p].saved, pages[p].version, pages[p].saving)
    /\ raced' = (raced \/ Races(p, "sent"))
    /\ typed' = typed

\* The author leaves: nobody waits for the page's requests any more.
Leaves(p) ==
    /\ pages'[p] = Closed
    /\ \A d \in Slots : IF WaitsFor(d, p) THEN Deserts(d) ELSE calls'[d] = calls[d]
    /\ raced' = raced
    /\ typed' = typed

\* A step of the editor opens or reloads a page, types, sends the form or leaves.
LEMMA EditShape ==
    ASSUME Types, ClosedPages, NEW p \in Pages, Edit(p)
    PROVE  /\ OpensOrReloads(p) \/ TypesIn(p) \/ SendsForm(p) \/ Leaves(p)
           /\ pages[p].open \/ OpensOrReloads(p)
           /\ OtherPagesStay(p)
           /\ CallsType /\ PagesType /\ DraftStays
<1>1. /\ pages[p] \in Page
      /\ pages[p].form \in SUBSET Edits
      /\ pages[p].saved \in SUBSET SUBSET Edits
  BY DEF Types, Page
<1>2. ASSUME NEW page \in {Closed, pages[p]}, Load(p, page), page = pages[p] PROVE
            OpensOrReloads(p) /\ OtherPagesStay(p) /\ CallsType /\ PagesType /\ DraftStays
  <2> DEFINE loading == [page EXCEPT !.open = TRUE, !.saved = {}, !.busy = TRUE, !.told = FALSE]
  <2>1. loading \in Page
    BY <1>1, <1>2 DEF Page
  <2>2. PagesType /\ pages'[p] = loading /\ OtherPagesStay(p)
    BY <1>2, <2>1, Becoming DEF Load
  <2>3. Sends(p, "load", "get") /\ CallsType
    BY <1>2, SendShape DEF Load, Kinds, Stages, Loading
  <2>4. Turns(p, TRUE, pages[p].form, {}, pages[p].version, pages[p].saving)
    BY <1>1, <1>2, <2>2 DEF Turns, Page
  <2> QED
    BY <1>2, <2>2, <2>3, <2>4 DEF Load, Send, OpensOrReloads, DraftStays
<1>3. CASE Open(p)
  <2>1. pages[p] = Closed
    BY <1>3 DEF Open, ClosedPages
  <2> QED
    BY <1>2, <1>3, <2>1 DEF Open
<1>4. CASE RefreshToken(p)
  BY <1>2, <1>4 DEF RefreshToken
<1>5. ASSUME NEW x \in Edits, Type(p, x)
      PROVE  TypesIn(p) /\ pages[p].open /\ OtherPagesStay(p) /\ CallsType /\ PagesType /\ DraftStays
  <2>1. [pages[p] EXCEPT !.form = pages[p].form \cup {x}] \in Page
    BY <1>1 DEF Page
  <2>2. PagesType /\ pages'[p] = [pages[p] EXCEPT !.form = pages[p].form \cup {x}] /\ OtherPagesStay(p)
    BY <1>5, <2>1, Becoming DEF Type
  <2>3. Turns(p, TRUE, pages[p].form \cup {x}, pages[p].saved, pages[p].version, pages[p].saving)
    BY <1>1, <1>5, <2>2 DEF Turns, Page, Type
  <2> QED
    BY <1>5, <2>2, <2>3 DEF Type, TypesIn, DraftStays, CallsType, Types
<1>6. CASE Autosave(p)
  <2>1. [pages[p] EXCEPT !.saving = TRUE] \in Page
    BY <1>1 DEF Page
  <2>2. PagesType /\ pages'[p] = [pages[p] EXCEPT !.saving = TRUE] /\ OtherPagesStay(p)
    BY <1>6, <2>1, Becoming DEF Autosave
  <2>3. Sends(p, "auto", "sent") /\ CallsType
    BY <1>6, SendShape DEF Autosave, Kinds, Stages, Saving, Unsaved
  <2>4. Turns(p, TRUE, pages[p].form, pages[p].saved, pages[p].version, TRUE)
    BY <1>1, <1>6, <2>2 DEF Turns, Page, Autosave
  <2> QED
    BY <1>6, <2>2, <2>3, <2>4 DEF Autosave, Send, SendsForm, DraftStays
<1>7. ASSUME NEW kind \in {"save", "publish"}, Press(p, kind)
      PROVE  SendsForm(p) /\ pages[p].open /\ OtherPagesStay(p) /\ CallsType /\ PagesType /\ DraftStays
  <2>1. [pages[p] EXCEPT !.busy = TRUE, !.told = FALSE] \in Page
    BY <1>1 DEF Page
  <2>2. PagesType /\ pages'[p] = [pages[p] EXCEPT !.busy = TRUE, !.told = FALSE] /\ OtherPagesStay(p)
    BY <1>7, <2>1, Becoming DEF Press
  <2>3. Sends(p, kind, "sent") /\ CallsType
    BY <1>7, SendShape DEF Press, Kinds, Stages, Saving, Unsaved
  <2>4. Turns(p, TRUE, pages[p].form, pages[p].saved, pages[p].version, pages[p].saving)
    BY <1>1, <1>7, <2>2 DEF Turns, Page, Press
  <2> QED
    BY <1>7, <2>2, <2>3, <2>4 DEF Press, Send, SendsForm, DraftStays
<1>8. CASE Leave(p)
  <2>1. PagesType /\ pages'[p] = Closed /\ OtherPagesStay(p)
    BY <1>8, ClosedType, Becoming DEF Leave
  <2>2. ASSUME NEW d \in Slots, WaitsFor(d, p) PROVE Deserts(d) /\ calls'[d] \in Call
    <3>1. calls[d] # None /\ calls[d] \in Call
      BY <2>2 DEF WaitsFor, Sent, Free, Types
    <3>2. calls'[d] = [calls[d] EXCEPT !.page = None] /\ calls'[d] \in Call
      BY <1>8, <2>2, <3>1, CallFields DEF Leave, Stages, Saving, Unsaved
    <3> QED
      BY <3>1, <3>2, NoneIsNoCall DEF Deserts, Goes, Call
  <2>3. \A d \in Slots : ~ WaitsFor(d, p) => calls'[d] = calls[d]
    BY <1>8 DEF Leave
  <2>4. CallsType
    BY <1>8, <2>2, <2>3 DEF Leave, CallsType, Types
  <2> QED
    BY <1>8, <2>1, <2>2, <2>3, <2>4 DEF Leave, Leaves, DraftStays
<1> QED
  BY <1>3, <1>4, <1>5, <1>6, <1>7, <1>8, <1>2 DEF Edit, RefreshToken

\* The answer of the call in slot c will not come.
Lost(c) ==
    /\ Goes(c, calls[c].at, None, calls[c].version, calls[c].read)
    /\ calls'[c].kind = "lost"

\* The page that waited for the call in slot c takes its answer, or its failure.
Answered(c, form, saved, version) ==
    /\ calls'[c] = None \/ Lost(c)
    /\ OthersStay(c)
    /\ \/ calls[c].page = None /\ pages' = pages
       \/ \E p \in Pages :
             /\ calls[c].page = p
             /\ Turns(p, pages[p].open, form, saved, version,
                      IF calls[c].kind = "auto" THEN FALSE ELSE pages[p].saving)
             /\ OtherPagesStay(p)

\* The page that waits for the call in slot c.
PageOf(c) == pages[calls[c].page]

\* The answer is a failure, a saved form or a loaded draft; or it closes the page; or the
\* publication is asked for next.
Takes(c) ==
    \/ Answered(c, PageOf(c).form, PageOf(c).saved, PageOf(c).version)
    \/ /\ calls[c].at = "saved"
       /\ Answered(c, PageOf(c).form, {calls[c].shown}, calls[c].version)
    \/ /\ calls[c].at = "loaded"
       /\ calls[c].kind = "load"
       /\ Answered(c, calls[c].read, {calls[c].read}, calls[c].version)
    \/ \E p \in Pages :
          /\ calls[c].page = p
          /\ calls'[c] = None
          /\ \A d \in Slots \ {c} : IF WaitsFor(d, p) THEN Deserts(d) ELSE calls'[d] = calls[d]
          /\ pages'[p] = Closed
          /\ OtherPagesStay(p)
    \/ /\ Proceeds(c, "saved", "asked", calls[c].version, calls[c].read)
       /\ calls[c].kind # "auto"
       /\ \/ calls[c].page = None /\ pages' = pages
          \/ \E p \in Pages :
                /\ calls[c].page = p
                /\ Turns(p, pages[p].open, pages[p].form, {calls[c].shown}, calls[c].version, pages[p].saving)
                /\ OtherPagesStay(p)

\* Nobody waits for an answer that is lost.
LostAreLeft == \A c \in Sent : calls[c].kind = "lost" => calls[c].page = None

\* A step that takes or loses an answer has one of the shapes of Takes.
LEMMA TakeShape ==
    ASSUME Types, LostAreLeft, NEW c \in Slots, Take(c) \/ Lose(c)
    PROVE  /\ calls[c] # None
           /\ Takes(c)
           /\ UNCHANGED <<typed, raced>>
           /\ CallsType /\ PagesType /\ DraftStays
<1>1. calls[c] # None /\ c \in Sent
  BY DEF Take, Lose, TakeAutosaved, TakeSaved, TakeSavedToPublish, TakePublished, TakeDraft, TakeRefusal, Drop, Waits,
     At, Sent, Free
<1>2. UNCHANGED <<typed, raced>> /\ DraftStays
  BY DEF Take, Lose, TakeAutosaved, TakeSaved, TakeSavedToPublish, TakePublished, TakeDraft, TakeRefusal, Drop,
     DraftStays
<1>3. calls[c] \in Call /\ calls[c].page \in Pages \cup {None}
  BY <1>1 DEF Types, Call
<1>4. ASSUME End(c) PROVE calls'[c] = None /\ OthersStay(c) /\ CallsType
  BY <1>4 DEF End, Types, OthersStay, CallsType
<1>5. ASSUME calls' = [calls EXCEPT ![c].kind = "lost", ![c].page = None]
      PROVE  Lost(c) /\ OthersStay(c) /\ CallsType
  <2>1. [calls[c] EXCEPT !.kind = "lost", !.page = None] \in Call
    BY <1>3, CallFields DEF Stages, Saving, Unsaved
  <2>2. calls'[c] = [calls[c] EXCEPT !.kind = "lost", !.page = None] /\ OthersStay(c)
    BY <1>5 DEF Types, OthersStay
  <2>3. CallsType
    BY <1>5, <2>1 DEF Types, CallsType
  <2> QED
    BY <1>1, <1>3, <2>1, <2>2, <2>3, NoneIsNoCall DEF Lost, Goes, Call
<1>6. ASSUME calls[c].page = None, NEW page, Become(calls[c].page, page) PROVE pages' = pages /\ PagesType
  BY <1>6 DEF Become, PagesType, Types
<1>7. ASSUME NEW p \in Pages, calls[c].page = p, NEW page \in Page, Become(calls[c].page, page)
      PROVE  PagesType /\ pages'[p] = page /\ OtherPagesStay(p)
  BY <1>7, Becoming
<1>8. \A p \in Pages : pages[p] \in Page /\ pages[p].form \in SUBSET Edits
  BY DEF Types, Page
<1>9. /\ calls[c].version \in {None} \cup Nat
      /\ {calls[c].shown} \in SUBSET SUBSET Edits
      /\ calls[c].read \in SUBSET Edits
      /\ {calls[c].read} \in SUBSET SUBSET Edits
  BY <1>3 DEF Call
<1>10. CASE calls[c].page = None
  <2>1. ASSUME NEW page, Become(calls[c].page, page), End(c)
        PROVE  Answered(c, PageOf(c).form, PageOf(c).saved, PageOf(c).version) /\ CallsType /\ PagesType
    BY <1>4, <1>6, <1>10, <2>1 DEF Answered
  <2>2. CASE TakeAutosaved(c) \/ TakePublished(c) \/ TakeDraft(c) \/ TakeRefusal(c)
    BY <1>1, <1>2, <2>1, <2>2 DEF TakeAutosaved, TakePublished, TakeDraft, TakeRefusal, Takes
  <2>3. CASE Drop(c)
    BY <1>1, <1>2, <1>4, <1>10, <2>3 DEF Drop, Takes, Answered, PagesType, Types
  <2>4. CASE Lose(c)
    BY <1>1, <1>2, <1>5, <1>6, <1>10, <2>4 DEF Lose, Takes, Answered
  <2>5. CASE TakeSaved(c)
    <3>1. \A d \in Slots : d \in Sent /\ calls[d].page = None => [calls[d] EXCEPT !.page = None] = calls[d]
      BY DEF Sent, Free, Types, Call
    <3>2. calls' \in [Slots -> {None} \cup Call] /\ calls'[c] = None /\ OthersStay(c)
      BY <1>10, <2>5, <3>1 DEF TakeSaved, OthersStay, Types
    <3>3. pages' = pages /\ PagesType
      BY <1>6, <1>10, <2>5 DEF TakeSaved
    <3> QED
      BY <1>1, <1>2, <1>10, <3>2, <3>3 DEF Takes, Answered, CallsType
  <2>6. CASE TakeSavedToPublish(c)
    <3>1. CallsType /\ Proceeds(c, "saved", "asked", calls[c].version, calls[c].read)
      BY <1>1, <2>6, OnlyProceeding DEF TakeSavedToPublish, Waits, At, Stages, Publishing
    <3>2. pages' = pages /\ PagesType
      BY <1>6, <1>10, <2>6 DEF TakeSavedToPublish
    <3>3. calls[c].kind # "auto"
      BY <2>6 DEF TakeSavedToPublish, Waits
    <3> QED
      BY <1>1, <1>2, <1>10, <3>1, <3>2, <3>3 DEF Takes
  <2> QED
    BY <2>2, <2>3, <2>4, <2>5, <2>6 DEF Take
<1>11. ASSUME NEW p \in Pages, calls[c].page = p PROVE Takes(c) /\ CallsType /\ PagesType
  <2> DEFINE saving == IF calls[c].kind = "auto" THEN FALSE ELSE pages[p].saving
  <2>1. ASSUME NEW form, NEW saved, NEW version, calls'[c] = None \/ Lost(c), OthersStay(c),
               Turns(p, pages[p].open, form, saved, version, saving), OtherPagesStay(p)
        PROVE  Answered(c, form, saved, version)
    BY <1>11, <2>1 DEF Answered
  <2>2. ASSUME NEW page \in Page, Become(calls[c].page, page)
        PROVE  PagesType /\ pages'[p] = page /\ OtherPagesStay(p)
    BY <1>7, <1>11, <2>2
  <2>3. CASE TakeAutosaved(c)
    <3> DEFINE page == [[pages[p] EXCEPT !.version = calls[c].version, !.saved = {calls[c].shown}]
                          EXCEPT !.saving = FALSE]
    <3>1. page \in Page
      BY <1>8, <1>9 DEF Page
    <3>2. PagesType /\ pages'[p] = page /\ OtherPagesStay(p)
      BY <1>11, <2>2, <2>3, <3>1 DEF TakeAutosaved, Saved
    <3>3. calls[c].kind = "auto" /\ calls[c].at = "saved"
      BY <2>3 DEF TakeAutosaved, Waits, At
    <3>4. Turns(p, pages[p].open, pages[p].form, {calls[c].shown}, calls[c].version, saving)
      BY <1>8, <3>2, <3>3 DEF Turns, Page
    <3> QED
      BY <1>4, <1>11, <2>1, <2>3, <3>2, <3>3, <3>4 DEF TakeAutosaved, Takes, PageOf
  <2>4. CASE TakeSaved(c)
    <3>1. PagesType /\ pages'[p] = Closed /\ OtherPagesStay(p)
      BY <2>2, <2>4, ClosedType DEF TakeSaved
    <3>2. ASSUME NEW d \in Slots \ {c}, WaitsFor(d, p) PROVE Deserts(d) /\ calls'[d] \in Call
      <4>1. calls[d] # None /\ calls[d] \in Call
        BY <3>2 DEF WaitsFor, Sent, Free, Types
      <4>2. calls'[d] = [calls[d] EXCEPT !.page = None] /\ calls'[d] \in Call
        BY <1>11, <2>4, <3>2, <4>1, CallFields DEF TakeSaved, WaitsFor, Stages, Saving, Unsaved
      <4> QED
        BY <4>1, <4>2, NoneIsNoCall DEF Deserts, Goes, Call
    <3>3. calls'[c] = None /\ \A d \in Slots \ {c} : ~ WaitsFor(d, p) => calls'[d] = calls[d]
      BY <1>11, <2>4 DEF TakeSaved, WaitsFor
    <3>4. CallsType
      BY <2>4, <3>2, <3>3 DEF TakeSaved, CallsType, Types
    <3> QED
      BY <1>11, <3>1, <3>2, <3>3, <3>4 DEF Takes
  <2>5. CASE TakeSavedToPublish(c)
    <3> DEFINE page == [pages[p] EXCEPT !.version = calls[c].version, !.saved = {calls[c].shown}]
    <3>1. page \in Page
      BY <1>8, <1>9 DEF Page
    <3>2. PagesType /\ pages'[p] = page /\ OtherPagesStay(p)
      BY <1>11, <2>2, <2>5, <3>1 DEF TakeSavedToPublish, Saved
    <3>3. calls[c].kind # "auto" /\ calls[c].at = "saved"
      BY <2>5 DEF TakeSavedToPublish, Waits, At
    <3>4. Turns(p, pages[p].open, pages[p].form, {calls[c].shown}, calls[c].version, pages[p].saving)
      BY <1>8, <3>2 DEF Turns, Page
    <3>5. CallsType /\ Proceeds(c, "saved", "asked", calls[c].version, calls[c].read)
      BY <1>1, <2>5, <3>3, OnlyProceeding DEF TakeSavedToPublish, Stages, Publishing
    <3> QED
      BY <1>11, <3>2, <3>3, <3>4, <3>5 DEF Takes
  <2>6. CASE TakePublished(c)
    <3>1. [pages[p] EXCEPT !.busy = FALSE] \in Page
      BY <1>8 DEF Page
    <3>2. PagesType /\ pages'[p] = [pages[p] EXCEPT !.busy = FALSE] /\ OtherPagesStay(p)
      BY <1>11, <2>2, <2>6, <3>1 DEF TakePublished
    <3>3. Turns(p, pages[p].open, pages[p].form, pages[p].saved, pages[p].version, saving)
      BY <1>8, <2>6, <3>2 DEF Turns, Page, TakePublished, Waits
    <3> QED
      BY <1>4, <1>11, <2>1, <2>6, <3>2, <3>3 DEF TakePublished, Takes, PageOf
  <2>7. CASE TakeDraft(c)
    <3> DEFINE page == [pages[p] EXCEPT !.form = calls[c].read, !.saved = {calls[c].read},
                                        !.version = calls[c].version, !.busy = FALSE]
    <3>1. page \in Page
      BY <1>8, <1>9 DEF Page
    <3>2. PagesType /\ pages'[p] = page /\ OtherPagesStay(p)
      BY <1>11, <2>2, <2>7, <3>1 DEF TakeDraft
    <3>3. calls[c].kind = "load" /\ calls[c].at = "loaded"
      BY <2>7 DEF TakeDraft, Waits, At
    <3>4. Turns(p, pages[p].open, calls[c].read, {calls[c].read}, calls[c].version, saving)
      BY <1>8, <3>2, <3>3 DEF Turns, Page
    <3> QED
      BY <1>4, <1>11, <2>1, <2>7, <3>2, <3>3, <3>4 DEF TakeDraft, Takes, PageOf
  <2>8. CASE TakeRefusal(c) \/ Lose(c)
    <3> DEFINE kind == calls[c].kind
               page == [pages[p] EXCEPT !.told = TRUE,
                                        !.saving = IF kind = "auto" THEN FALSE ELSE @,
                                        !.busy = IF kind = "auto" THEN @ ELSE FALSE]
    <3>1. page \in Page
      <4>1. pages[p] \in Page /\ pages[p].saving \in BOOLEAN /\ pages[p].busy \in BOOLEAN
        BY <1>8 DEF Page
      <4>2. /\ (IF kind = "auto" THEN FALSE ELSE pages[p].saving) \in BOOLEAN
            /\ (IF kind = "auto" THEN pages[p].busy ELSE FALSE) \in BOOLEAN
        BY <4>1
      <4>3. \A s, b \in BOOLEAN : [pages[p] EXCEPT !.told = TRUE, !.saving = s, !.busy = b] \in Page
        BY <4>1 DEF Page
      <4> QED
        BY <4>2, <4>3
    <3>2. PagesType /\ pages'[p] = page /\ OtherPagesStay(p)
      BY <1>11, <2>2, <2>8, <3>1 DEF TakeRefusal, Lose, Failed
    <3>3. Turns(p, pages[p].open, pages[p].form, pages[p].saved, pages[p].version, saving)
      BY <1>8, <3>2 DEF Turns, Page
    <3>4. CallsType /\ OthersStay(c) /\ (calls'[c] = None \/ Lost(c))
      BY <1>4, <1>5, <2>8 DEF TakeRefusal, Lose
    <3> QED
      BY <1>11, <2>1, <3>2, <3>3, <3>4 DEF Takes, PageOf
  <2>9. CASE Drop(c)
    BY <1>1, <1>11, <2>9, ScenarioDraftAssumption DEF Drop, LostAreLeft
  <2> QED
    BY <2>3, <2>4, <2>5, <2>6, <2>7, <2>8, <2>9 DEF Take
<1> QED
  BY <1>1, <1>2, <1>3, <1>10, <1>11
-----------------------------------------------------------------------------
(***************************************************************************)
(* The inductive invariant.                                                *)
(***************************************************************************)
\* Page p waits for the automatic saving in slot c.
Autosaves(c, p) == WaitsFor(c, p) /\ calls[c].kind = "auto"

\* The page knows of its automatic saving, and has one at a time.
SavingIsOne(p) ==
    /\ pages[p].saving <=> \E c \in Slots : Autosaves(c, p)
    /\ \A c, d \in Slots : Autosaves(c, p) /\ Autosaves(d, p) => c = d

\* All pages do.
OneAutosave == \A p \in Pages : SavingIsOne(p)

\* What links the pages and their calls, in all interleavings.
LinkInv == OneAutosave /\ ClosedPages /\ LostAreLeft

\* Nobody knows of a draft that is yet to come.
Heard ==
    /\ \A p \in Pages : pages[p].version # None => pages[p].version <= draft.version
    /\ \A c \in Sent : calls[c].version # None => calls[c].version <= draft.version
    /\ \A c \in Sent : calls[c].at \in {"row", "loaded", "saved"} => calls[c].version # None

\* The version is that of the draft as it is now.
Current(version) == version = draft.version

\* A load whose draft is still the last one has read all of its scenes.
LoadsAreExact ==
    \A c \in Sent :
        calls[c].at = "loaded" /\ Current(calls[c].version) => calls[c].read = draft.content

\* A collaborator or a review is recorded: the draft has another version, with the same content.
Reviewed ==
    /\ draft' = [draft EXCEPT !.version = draft.version + 1]
    /\ UNCHANGED <<revisions, pages, calls, typed, raced>>

\* The shapes of all the steps.
Step ==
    \/ \E p \in Pages :
          /\ OpensOrReloads(p) \/ TypesIn(p) \/ SendsForm(p) \/ Leaves(p)
          /\ pages[p].open \/ OpensOrReloads(p)
          /\ OtherPagesStay(p)
          /\ DraftStays
    \/ \E c \in Slots : Serves(c) /\ UNCHANGED <<pages, typed, raced>>
    \/ \E c \in Slots : calls[c] # None /\ Takes(c) /\ DraftStays /\ UNCHANGED <<typed, raced>>
    \/ Reviewed
    \/ UNCHANGED <<draft, revisions, pages, calls, typed, raced>>

\* Every step has one of the shapes.
LEMMA StepShape ==
    ASSUME Types, LinkInv, [Next]_vars
    PROVE  Step /\ CallsType /\ PagesType
<1>1. ASSUME NEW p \in Pages, Edit(p) PROVE Step /\ CallsType /\ PagesType
  BY <1>1, EditShape DEF LinkInv, Step
<1>2. ASSUME NEW c \in Slots, Serve(c) PROVE Step /\ CallsType /\ PagesType
  BY <1>2, ServeShape DEF Step, PagesType, Types
<1>3. ASSUME NEW c \in Slots, Take(c) \/ Lose(c) PROVE Step /\ CallsType /\ PagesType
  BY <1>3, TakeShape DEF LinkInv, Step
<1>4. CASE Review
  BY <1>4 DEF Review, Step, Reviewed, CallsType, PagesType, Types
<1>5. CASE UNCHANGED vars
  BY <1>5 DEF vars, Step, CallsType, PagesType, Types
<1> QED
  BY <1>1, <1>2, <1>3, <1>4, <1>5 DEF Next

\* The types are kept.
LEMMA TypesStep ==
    ASSUME Types, LinkInv, [Next]_vars
    PROVE  Types'
<1>1. Step /\ CallsType /\ PagesType
  BY StepShape
<1>2. \A c \in Slots : calls[c] # None => calls[c].shown \in SUBSET Edits /\ calls[c].read \in SUBSET Edits
  BY DEF Types, Call
<1>3. draft' \in [version: Nat, content: SUBSET Edits] /\ revisions' \subseteq SUBSET Edits
  <2>1. ASSUME NEW c \in Slots, Serves(c)
        PROVE  draft' \in [version: Nat, content: SUBSET Edits] /\ revisions' \subseteq SUBSET Edits
    BY <1>2, <2>1 DEF Serves, Proceeds, Goes, DraftStays, Types
  <2> QED
    BY <1>1, <2>1 DEF Step, DraftStays, Reviewed, Types
<1>4. typed' \subseteq Edits /\ raced' \in BOOLEAN
  BY <1>1 DEF Step, OpensOrReloads, TypesIn, SendsForm, Leaves, Reviewed, Types
<1> QED
  BY <1>1, <1>3, <1>4 DEF CallsType, PagesType, Types

\* A call is over, or as it was, but for who waits for it.
Remains(d) ==
    \/ calls'[d] = None
    \/ /\ \E page \in {calls[d].page, None} : Goes(d, calls[d].at, page, calls[d].version, calls[d].read)
       /\ calls'[d].kind \in {calls[d].kind, "lost"}

\* The save is answered and the publication asked for.
Moves(d) ==
    /\ calls[d].at = "saved"
    /\ Goes(d, "asked", calls[d].page, calls[d].version, calls[d].read)
    /\ calls'[d].kind = calls[d].kind

\* What an answer makes of a page.
ShowsSame(p) == Turns(p, pages'[p].open, pages[p].form, pages[p].saved, pages[p].version, pages'[p].saving)

\* The page takes what it has sent for saved.
ShowsSaved(p, c) ==
    /\ calls[c].page = p
    /\ calls[c].at = "saved"
    /\ Turns(p, pages'[p].open, pages[p].form, {calls[c].shown}, calls[c].version, pages'[p].saving)

\* The page shows the draft it has been given.
ShowsLoaded(p, c) ==
    /\ calls[c].page = p
    /\ calls[c].at = "loaded"
    /\ calls[c].kind = "load"
    /\ Turns(p, pages'[p].open, calls[c].read, {calls[c].read}, calls[c].version, pages'[p].saving)

\* What an answer makes of each call and of each page.
LEMMA Taken ==
    ASSUME NEW c \in Slots, calls[c] # None, Takes(c)
    PROVE  /\ \A d \in Slots : Remains(d) \/ (d = c /\ Moves(d))
           /\ \A p \in Pages : pages'[p] = Closed \/ ShowsSame(p) \/ ShowsSaved(p, c) \/ ShowsLoaded(p, c)
<1>1. \A d \in Slots : calls'[d] = calls[d] => Remains(d)
  BY DEF Remains, Goes
<1>2. \A p \in Pages : pages'[p] = pages[p] => ShowsSame(p)
  BY DEF ShowsSame, Turns
<1>3. ASSUME NEW form, NEW saved, NEW version, Answered(c, form, saved, version)
      PROVE  /\ \A d \in Slots : Remains(d)
             /\ \A p \in Pages :
                   \/ pages'[p] = pages[p]
                   \/ calls[c].page = p /\ Turns(p, pages'[p].open, form, saved, version, pages'[p].saving)
  <2>1. Remains(c)
    BY <1>3 DEF Answered, Lost, Remains
  <2> QED
    BY <1>1, <1>3, <2>1 DEF Answered, OthersStay, OtherPagesStay, Turns
<1>4. CASE Answered(c, PageOf(c).form, PageOf(c).saved, PageOf(c).version)
  BY <1>2, <1>3, <1>4 DEF PageOf, ShowsSame
<1>5. CASE calls[c].at = "saved" /\ Answered(c, PageOf(c).form, {calls[c].shown}, calls[c].version)
  BY <1>2, <1>3, <1>5 DEF PageOf, ShowsSaved
<1>6. CASE /\ calls[c].at = "loaded"
           /\ calls[c].kind = "load"
           /\ Answered(c, calls[c].read, {calls[c].read}, calls[c].version)
  BY <1>2, <1>3, <1>6 DEF ShowsLoaded
<1>7. ASSUME NEW p \in Pages, calls'[c] = None, pages'[p] = Closed, OtherPagesStay(p),
             \A d \in Slots \ {c} : IF WaitsFor(d, p) THEN Deserts(d) ELSE calls'[d] = calls[d]
      PROVE  /\ \A d \in Slots : Remains(d)
             /\ \A q \in Pages : pages'[q] = Closed \/ ShowsSame(q)
  <2>1. \A d \in Slots \ {c} : Deserts(d) => Remains(d)
    BY DEF Deserts, Remains
  <2> QED
    BY <1>1, <1>2, <1>7, <2>1 DEF Remains, OtherPagesStay
<1>8. CASE /\ Proceeds(c, "saved", "asked", calls[c].version, calls[c].read)
           /\ \/ calls[c].page = None /\ pages' = pages
              \/ \E p \in Pages :
                    /\ calls[c].page = p
                    /\ Turns(p, pages[p].open, pages[p].form, {calls[c].shown}, calls[c].version, pages[p].saving)
                    /\ OtherPagesStay(p)
  <2>1. Moves(c) /\ \A d \in Slots \ {c} : Remains(d)
    BY <1>1, <1>8 DEF Proceeds, Moves, OthersStay
  <2>2. \A p \in Pages : ShowsSame(p) \/ ShowsSaved(p, c)
    BY <1>2, <1>8 DEF Proceeds, Turns, OtherPagesStay, ShowsSaved
  <2> QED
    BY <2>1, <2>2
<1> QED
  BY <1>4, <1>5, <1>6, <1>7, <1>8 DEF Takes

\* A request that has just been sent.
Begins(d, p) ==
    /\ calls[d] = None
    /\ calls'[d] # None
    /\ calls'[d].at \in {"sent", "get"}
    /\ calls'[d].page = p
    /\ calls'[d].shown = pages[p].form
    /\ calls'[d].version = pages[p].version

\* A form grows, or is forgotten with its page.
Grows(p) ==
    /\ pages[p].form \subseteq pages'[p].form
    /\ pages'[p].saved \subseteq pages[p].saved
    /\ pages'[p].version = pages[p].version

\* A step of the editor on page p.
EditsOn(p) == OpensOrReloads(p) \/ TypesIn(p) \/ SendsForm(p) \/ Leaves(p)

\* What an edit makes of each call and of each page.
LEMMA Edited ==
    ASSUME NEW p \in Pages, EditsOn(p), OtherPagesStay(p)
    PROVE  /\ \A d \in Slots : Remains(d) \/ Begins(d, p)
           /\ \A q \in Pages : pages'[q] = Closed \/ Grows(q)
<1>1. \A d \in Slots : calls'[d] = calls[d] => Remains(d)
  BY DEF Remains, Goes
<1>2. \A d \in Slots : Deserts(d) => Remains(d)
  BY DEF Deserts, Remains
<1>3. \A q \in Pages : pages'[q] = pages[q] => Grows(q)
  BY DEF Grows
<1>4. ASSUME NEW kind, NEW stage \in {"sent", "get"}, Sends(p, kind, stage)
      PROVE  \A d \in Slots : Remains(d) \/ Begins(d, p)
  BY <1>1, <1>2, <1>4 DEF Sends, Begins
<1>5. CASE OpensOrReloads(p)
  BY <1>3, <1>4, <1>5 DEF OpensOrReloads, Turns, OtherPagesStay, Grows
<1>6. CASE TypesIn(p)
  BY <1>1, <1>3, <1>6 DEF TypesIn, Turns, OtherPagesStay, Grows
<1>7. CASE SendsForm(p)
  BY <1>3, <1>4, <1>7 DEF SendsForm, Turns, OtherPagesStay, Grows
<1>8. CASE Leaves(p)
  BY <1>1, <1>2, <1>3, <1>8 DEF Leaves, OtherPagesStay
<1> QED
  BY <1>5, <1>6, <1>7, <1>8 DEF EditsOn

\* Versions only grow, and are learnt from the draft.
LEMMA HeardStep ==
    ASSUME Types, LinkInv, Heard, [Next]_vars
    PROVE  Heard'
<1>1. Step
  BY StepShape
<1>2. draft.version \in Nat /\ None \notin Nat
  BY ScenarioDraftAssumption DEF Types
<1>3. /\ \A p \in Pages : pages[p].version \in {None} \cup Nat
      /\ \A c \in Sent : calls[c].version \in {None} \cup Nat
  BY DEF Types, Page, Call, Sent, Free
<1>4. ASSUME NEW p \in Pages, EditsOn(p), OtherPagesStay(p), DraftStays PROVE Heard'
  BY <1>2, <1>3, <1>4, Edited DEF Heard, Remains, Begins, Goes, Grows, DraftStays, Closed, Sent, Free
<1>5. ASSUME NEW c \in Slots, Serves(c), pages' = pages PROVE Heard'
  BY <1>2, <1>3, <1>5 DEF Heard, Serves, Proceeds, Goes, OthersStay, DraftStays, Sent, Free
<1>6. ASSUME NEW c \in Slots, calls[c] # None, Takes(c), DraftStays PROVE Heard'
  <2>1. /\ \A d \in Slots : Remains(d) \/ (d = c /\ Moves(d))
        /\ \A p \in Pages : pages'[p] = Closed \/ ShowsSame(p) \/ ShowsSaved(p, c) \/ ShowsLoaded(p, c)
    BY <1>6, Taken
  <2>2. \A d \in Sent' : calls'[d].version # None => calls'[d].version <= draft'.version
    BY <1>6, <2>1 DEF Heard, Remains, Moves, Goes, DraftStays, Sent, Free
  <2>3. \A d \in Sent' : calls'[d].at \in {"row", "loaded", "saved"} => calls'[d].version # None
    BY <1>6, <2>1 DEF Heard, Remains, Moves, Goes, Sent, Free
  <2>4. \A p \in Pages : pages'[p].version # None => pages'[p].version <= draft'.version
    BY <1>6, <2>1 DEF Heard, ShowsSame, ShowsSaved, ShowsLoaded, Turns, Closed, DraftStays, Sent, Free
  <2> QED
    BY <2>2, <2>3, <2>4 DEF Heard
<1>7. CASE Reviewed
  BY <1>2, <1>3, <1>7 DEF Heard, Reviewed, Types, Sent, Free
<1>8. CASE UNCHANGED <<draft, revisions, pages, calls, typed, raced>>
  BY <1>8 DEF Heard, Sent, Free
<1> QED
  BY <1>1, <1>4, <1>5, <1>6, <1>7, <1>8 DEF Step, EditsOn

\* A load that reads scenes newer than its row has an old version.
LEMMA LoadsStep ==
    ASSUME Types, LinkInv, Heard, LoadsAreExact, [Next]_vars
    PROVE  LoadsAreExact'
<1>1. Step
  BY StepShape
<1>2. draft.version \in Nat /\ None \notin Nat
  BY ScenarioDraftAssumption DEF Types
<1>3. \A c \in Sent : calls[c].version \in {None} \cup Nat
  BY DEF Types, Call, Sent, Free
<1>4. ASSUME NEW p \in Pages, EditsOn(p), OtherPagesStay(p), DraftStays PROVE LoadsAreExact'
  BY <1>4, Edited DEF LoadsAreExact, Remains, Begins, Goes, DraftStays, Current, Sent, Free
<1>5. ASSUME NEW c \in Slots, Serves(c) PROVE LoadsAreExact'
  BY <1>2, <1>3, <1>5 DEF LoadsAreExact, Heard, Serves, Proceeds, Goes, OthersStay, DraftStays, Current, Sent, Free
<1>6. ASSUME NEW c \in Slots, calls[c] # None, Takes(c), DraftStays PROVE LoadsAreExact'
  BY <1>6, Taken DEF LoadsAreExact, Remains, Moves, Goes, DraftStays, Current, Sent, Free
<1>7. CASE Reviewed
  BY <1>2, <1>3, <1>7 DEF LoadsAreExact, Heard, Reviewed, Types, Current, Sent, Free
<1>8. CASE UNCHANGED <<draft, revisions, pages, calls, typed, raced>>
  BY <1>8 DEF LoadsAreExact, Current, Sent, Free
<1> QED
  BY <1>1, <1>4, <1>5, <1>6, <1>7, <1>8 DEF Step, EditsOn

\* A page and its automatic saving change together.
LEMMA LinkStep ==
    ASSUME Types, LinkInv, [Next]_vars
    PROVE  LinkInv'
<1>1. Step
  BY StepShape
<1>2. None \notin Pages /\ Closed.saving = FALSE
  BY ScenarioDraftAssumption DEF Closed
<1>3. \A p \in Pages : pages[p].saving \in BOOLEAN /\ pages[p].open \in BOOLEAN
  BY DEF Types, Page
<1>4. ASSUME NEW p \in Pages, pages'[p].saving = pages[p].saving,
             \A c \in Slots : Autosaves(c, p)' <=> Autosaves(c, p)
      PROVE  SavingIsOne(p)'
  BY <1>4 DEF LinkInv, OneAutosave, SavingIsOne
<1>5. ASSUME NEW c \in Slots, calls'[c] = calls[c] PROVE \A p \in Pages : Autosaves(c, p)' <=> Autosaves(c, p)
  BY <1>5 DEF Autosaves, WaitsFor, Sent, Free
<1>6. ASSUME NEW c \in Slots, Deserts(c) PROVE \A p \in Pages : ~ Autosaves(c, p)'
  BY <1>2, <1>6 DEF Deserts, Goes, Autosaves, WaitsFor, Sent, Free
<1>7. ASSUME NEW p \in Pages, EditsOn(p), OtherPagesStay(p) PROVE OneAutosave'
  <2>1. ASSUME NEW kind, NEW stage, Sends(p, kind, stage), NEW q \in Pages, kind # "auto" \/ q # p
        PROVE  \A c \in Slots : Autosaves(c, q)' <=> Autosaves(c, q)
    BY <1>2, <1>5, <1>6, <2>1 DEF Sends, Deserts, Goes, Autosaves, WaitsFor, Sent, Free
  <2>2. CASE OpensOrReloads(p)
    BY <1>4, <1>7, <2>1, <2>2 DEF OpensOrReloads, Turns, OtherPagesStay, OneAutosave
  <2>3. CASE TypesIn(p)
    BY <1>4, <1>5, <1>7, <2>3 DEF TypesIn, Turns, OtherPagesStay, OneAutosave
  <2>4. CASE SendsForm(p)
    <3>1. CASE Sends(p, "auto", "sent") /\ ~ pages[p].saving /\ pages'[p].saving
      <4>1. \A c \in Slots : ~ Autosaves(c, p)
        BY <3>1 DEF LinkInv, OneAutosave, SavingIsOne
      <4>2. \E n \in Slots : \A c \in Slots : Autosaves(c, p)' <=> c = n
        BY <1>2, <1>5, <1>6, <3>1, <4>1 DEF Sends, Autosaves, WaitsFor, Sent, Free
      <4>3. SavingIsOne(p)'
        BY <3>1, <4>2 DEF SavingIsOne
      <4> QED
        BY <1>4, <1>7, <2>1, <3>1, <4>3 DEF OtherPagesStay, OneAutosave
    <3>2. ASSUME NEW kind \in {"save", "publish"}, Sends(p, kind, "sent"), pages'[p].saving = pages[p].saving
          PROVE  OneAutosave'
      BY <1>4, <1>7, <2>1, <3>2 DEF OtherPagesStay, OneAutosave
    <3> QED
      BY <2>4, <3>1, <3>2 DEF SendsForm, Turns
  <2>5. CASE Leaves(p)
    <3>1. \A c \in Slots : ~ Autosaves(c, p)'
      BY <1>5, <1>6, <2>5 DEF Leaves, Autosaves
    <3>2. SavingIsOne(p)'
      BY <1>2, <2>5, <3>1 DEF Leaves, SavingIsOne
    <3>3. ASSUME NEW q \in Pages, q # p, NEW c \in Slots PROVE Autosaves(c, q)' <=> Autosaves(c, q)
      BY <1>5, <1>6, <2>5, <3>3 DEF Leaves, Autosaves, WaitsFor
    <3> QED
      BY <1>4, <1>7, <3>2, <3>3 DEF OtherPagesStay, OneAutosave
  <2> QED
    BY <1>7, <2>2, <2>3, <2>4, <2>5 DEF EditsOn
<1>8. ASSUME NEW c \in Slots, Serves(c), pages' = pages PROVE OneAutosave'
  <2>1. \A p \in Pages : Autosaves(c, p)' <=> Autosaves(c, p)
    BY <1>8 DEF Serves, Proceeds, Goes, Autosaves, WaitsFor, Sent, Free
  <2>2. OthersStay(c)
    BY <1>8 DEF Serves, Proceeds
  <2> QED
    BY <1>4, <1>5, <1>8, <2>1, <2>2 DEF OthersStay, OneAutosave
<1>9. ASSUME NEW c \in Slots, calls[c] # None, Takes(c) PROVE OneAutosave'
  <2>1. ASSUME NEW form, NEW saved, NEW version, Answered(c, form, saved, version) PROVE OneAutosave'
    <3>1. \A p \in Pages : ~ Autosaves(c, p)'
      BY <1>2, <2>1 DEF Answered, Lost, Goes, Autosaves, WaitsFor, Sent, Free
    <3>2. \A d \in Slots \ {c}, p \in Pages : Autosaves(d, p)' <=> Autosaves(d, p)
      BY <1>5, <2>1 DEF Answered, OthersStay
    <3>3. ASSUME NEW p \in Pages, ~ Autosaves(c, p), pages'[p].saving = pages[p].saving PROVE SavingIsOne(p)'
      BY <1>4, <3>1, <3>2, <3>3
    <3>4. CASE calls[c].page = None /\ pages' = pages
      BY <1>2, <3>3, <3>4 DEF Autosaves, WaitsFor, OneAutosave
    <3>5. ASSUME NEW p \in Pages, calls[c].page = p, OtherPagesStay(p),
                 pages'[p].saving = (IF calls[c].kind = "auto" THEN FALSE ELSE pages[p].saving)
          PROVE  OneAutosave'
      <4>1. ASSUME NEW q \in Pages, q # p PROVE SavingIsOne(q)'
        BY <3>3, <3>5, <4>1 DEF Autosaves, WaitsFor, OtherPagesStay
      <4>2. CASE calls[c].kind # "auto"
        BY <3>3, <3>5, <4>1, <4>2 DEF Autosaves, OneAutosave
      <4>3. CASE calls[c].kind = "auto"
        <5>1. Autosaves(c, p)
          BY <2>1, <3>5, <4>3, <1>9 DEF Autosaves, WaitsFor, Sent, Free
        <5>2. \A d \in Slots : ~ Autosaves(d, p)'
          BY <3>1, <3>2, <5>1 DEF LinkInv, OneAutosave, SavingIsOne
        <5>3. SavingIsOne(p)'
          BY <3>5, <4>3, <5>2 DEF SavingIsOne
        <5> QED
          BY <4>1, <5>3 DEF OneAutosave
      <4> QED
        BY <4>2, <4>3
    <3> QED
      BY <2>1, <3>4, <3>5 DEF Answered, Turns
  <2>2. ASSUME NEW p \in Pages, calls[c].page = p, calls'[c] = None, pages'[p] = Closed, OtherPagesStay(p),
               \A d \in Slots \ {c} : IF WaitsFor(d, p) THEN Deserts(d) ELSE calls'[d] = calls[d]
        PROVE  OneAutosave'
    <3>1. \A q \in Pages : ~ Autosaves(c, q)'
      BY <2>2 DEF Autosaves, WaitsFor, Sent, Free
    <3>2. \A d \in Slots : ~ Autosaves(d, p)'
      BY <1>5, <1>6, <2>2, <3>1 DEF Autosaves
    <3>3. SavingIsOne(p)'
      BY <1>2, <2>2, <3>2 DEF SavingIsOne
    <3>4. ASSUME NEW q \in Pages, q # p, NEW d \in Slots PROVE Autosaves(d, q)' <=> Autosaves(d, q)
      BY <1>5, <1>6, <2>2, <3>1, <3>4 DEF Autosaves, WaitsFor
    <3> QED
      BY <1>4, <2>2, <3>3, <3>4 DEF OtherPagesStay, OneAutosave
  <2>3. CASE /\ Proceeds(c, "saved", "asked", calls[c].version, calls[c].read)
             /\ \/ calls[c].page = None /\ pages' = pages
                \/ \E p \in Pages :
                      /\ calls[c].page = p
                      /\ Turns(p, pages[p].open, pages[p].form, {calls[c].shown}, calls[c].version, pages[p].saving)
                      /\ OtherPagesStay(p)
    <3>1. \A p \in Pages : Autosaves(c, p)' <=> Autosaves(c, p)
      BY <2>3 DEF Proceeds, Goes, Autosaves, WaitsFor, Sent, Free
    <3>2. \A d \in Slots, p \in Pages : Autosaves(d, p)' <=> Autosaves(d, p)
      BY <1>5, <2>3, <3>1 DEF Proceeds, OthersStay
    <3>3. \A p \in Pages : pages'[p].saving = pages[p].saving
      BY <2>3 DEF Turns, OtherPagesStay
    <3> QED
      BY <1>4, <3>2, <3>3 DEF OneAutosave
  <2> QED
    BY <1>9, <2>1, <2>2, <2>3 DEF Takes
<1>10. CASE Reviewed \/ UNCHANGED <<draft, revisions, pages, calls, typed, raced>>
  BY <1>10 DEF Reviewed, LinkInv, OneAutosave, SavingIsOne, ClosedPages, LostAreLeft, Autosaves, WaitsFor, Sent, Free
<1>11. OneAutosave'
  BY <1>1, <1>7, <1>8, <1>9, <1>10 DEF Step, EditsOn, LinkInv
<1>12. ASSUME NEW p \in Pages, EditsOn(p), pages[p].open \/ OpensOrReloads(p), OtherPagesStay(p) PROVE ClosedPages'
  <2>1. \A q \in Pages : pages'[q].open \/ pages'[q] = Closed
    BY <1>12 DEF EditsOn, OpensOrReloads, TypesIn, SendsForm, Leaves, Turns, OtherPagesStay, LinkInv, ClosedPages
  <2>2. \A q \in Pages \ {p}, c \in Slots : WaitsFor(c, q)' => WaitsFor(c, q)
    BY <1>2, <1>12, Edited DEF Remains, Begins, Goes, WaitsFor, Sent, Free
  <2>3. \A q \in Pages \ {p}, c \in Slots : WaitsFor(c, q)' => pages'[q].open
    BY <1>12, <2>2 DEF OtherPagesStay, LinkInv, ClosedPages
  <2>4. \A c \in Slots : WaitsFor(c, p)' => pages'[p].open
    <3>1. CASE OpensOrReloads(p) \/ TypesIn(p) \/ SendsForm(p)
      BY <3>1 DEF OpensOrReloads, TypesIn, SendsForm, Turns
    <3>2. CASE Leaves(p)
      BY <1>2, <3>2 DEF Leaves, Deserts, Goes, WaitsFor, Sent, Free
    <3> QED
      BY <1>12, <3>1, <3>2 DEF EditsOn
  <2> QED
    BY <2>1, <2>3, <2>4 DEF ClosedPages
<1>13. ASSUME NEW c \in Slots, Serves(c), pages' = pages PROVE ClosedPages'
  BY <1>13 DEF Serves, Proceeds, Goes, OthersStay, LinkInv, ClosedPages, WaitsFor, Sent, Free
<1>14. ASSUME NEW c \in Slots, calls[c] # None, Takes(c) PROVE ClosedPages'
  <2>1. \A d \in Slots, p \in Pages : WaitsFor(d, p)' => WaitsFor(d, p)
    BY <1>2, <1>14, Taken DEF Remains, Moves, Goes, WaitsFor, Sent, Free
  <2>2. \A p \in Pages : pages'[p].open = pages[p].open \/ (pages'[p] = Closed /\ \A d \in Slots : ~ WaitsFor(d, p)')
    BY <1>2, <1>14 DEF Takes, Answered, Turns, OtherPagesStay, Deserts, Goes, WaitsFor, Sent, Free
  <2>3. \A p \in Pages : ~ pages[p].open => pages'[p] = Closed
    BY <1>14 DEF Takes, Answered, Turns, OtherPagesStay, LinkInv, ClosedPages, WaitsFor, Sent, Free
  <2> QED
    BY <1>3, <2>1, <2>2, <2>3 DEF LinkInv, ClosedPages
<1>15. ClosedPages'
  BY <1>1, <1>10, <1>12, <1>13, <1>14 DEF Step, EditsOn, LinkInv
<1>16. ASSUME NEW p \in Pages, EditsOn(p), OtherPagesStay(p) PROVE LostAreLeft'
  <2>1. \A d \in Slots : calls'[d] = calls[d] \/ Deserts(d) =>
           ~ (calls'[d] # None /\ calls'[d].kind = "lost" /\ calls'[d].page # None)
    BY DEF Deserts, Goes, LinkInv, LostAreLeft, Sent, Free
  <2>2. ASSUME NEW kind, kind # "lost", NEW stage, Sends(p, kind, stage) PROVE LostAreLeft'
    BY <2>1, <2>2 DEF Sends, LostAreLeft, Sent, Free
  <2>3. CASE OpensOrReloads(p) \/ SendsForm(p)
    BY <2>2, <2>3 DEF OpensOrReloads, SendsForm
  <2>4. CASE TypesIn(p) \/ Leaves(p)
    BY <2>1, <2>4 DEF TypesIn, Leaves, LostAreLeft, Sent, Free
  <2> QED
    BY <1>16, <2>3, <2>4 DEF EditsOn
<1>17. ASSUME NEW c \in Slots, Serves(c) PROVE LostAreLeft'
  BY <1>17 DEF Serves, Proceeds, Goes, OthersStay, LinkInv, LostAreLeft, Sent, Free
<1>18. ASSUME NEW c \in Slots, calls[c] # None, Takes(c) PROVE LostAreLeft'
  <2> DEFINE Fine(d) == ~ (calls'[d] # None /\ calls'[d].kind = "lost" /\ calls'[d].page # None)
  <2>1. \A d \in Slots : calls'[d] = calls[d] \/ Deserts(d) \/ Lost(d) => Fine(d)
    BY DEF Lost, Deserts, Goes, LinkInv, LostAreLeft, Sent, Free
  <2>2. ASSUME Proceeds(c, "saved", "asked", calls[c].version, calls[c].read) PROVE Fine(c)
    BY <1>18, <2>2 DEF Proceeds, Goes, LinkInv, LostAreLeft, Sent, Free
  <2>3. \A d \in Slots : Fine(d)
    <3>1. ASSUME NEW form, NEW saved, NEW version, Answered(c, form, saved, version) PROVE \A d \in Slots : Fine(d)
      BY <2>1, <3>1 DEF Answered, OthersStay
    <3>2. CASE Proceeds(c, "saved", "asked", calls[c].version, calls[c].read)
      <4> HIDE DEF Fine
      <4> QED
        BY <2>1, <2>2, <3>2 DEF Proceeds, OthersStay
    <3>3. CASE /\ calls'[c] = None
               /\ \E p \in Pages : \A d \in Slots \ {c} :
                     IF WaitsFor(d, p) THEN Deserts(d) ELSE calls'[d] = calls[d]
      BY <2>1, <3>3
    <3> QED
      <4> HIDE DEF Fine
      <4> QED
        BY <1>18, <3>1, <3>2, <3>3 DEF Takes
  <2> QED
    BY <2>3 DEF LostAreLeft, Sent, Free
<1>19. LostAreLeft'
  BY <1>1, <1>10, <1>16, <1>17, <1>18 DEF Step, EditsOn, LinkInv
<1> QED
  BY <1>11, <1>15, <1>19 DEF LinkInv
-----------------------------------------------------------------------------
(***************************************************************************)
(* What holds while no two requests have raced.                            *)
(***************************************************************************)
\* The call in slot c is at one of the stages.
IsAt(c, stages) == calls[c] # None /\ calls[c].at \in stages

\* The save in slot c is in the draft, or may come to be.
InHand(c) == IsAt(c, Saving) \/ (IsAt(c, {"saved"}) /\ Current(calls[c].version))

\* No two saves are under way.
OneSave == \A c, d \in Slots : IsAt(c, Saving) /\ IsAt(d, Saving) => c = d

\* A save in slot c that can be admitted holds all that is in the draft.
AddsTo(c) ==
    /\ IsAt(c, {"sent"}) => calls[c].version # None
    /\ IsAt(c, {"sent"}) /\ Current(calls[c].version) => draft.content \subseteq calls[c].shown
    /\ IsAt(c, {"checked"}) => draft.content \subseteq calls[c].shown
    /\ IsAt(c, {"committed"}) => draft.content = calls[c].shown
    /\ IsAt(c, {"saved"}) /\ Current(calls[c].version) => draft.content = calls[c].shown

\* Every save adds to the draft.
SavesAddTo == \A c \in Slots : AddsTo(c)

\* A page with the last version shows at least the draft, and takes only the draft for saved.
FormsAreAhead ==
    \A p \in Pages : Current(pages[p].version) =>
        draft.content \subseteq pages[p].form /\ pages[p].saved \subseteq {draft.content}

\* The page that waits for a save still shows what it has sent.
SavedFormsStay ==
    \A c \in Slots, p \in Pages : InHand(c) /\ calls[c].page = p => calls[c].shown \subseteq pages[p].form

\* Page p waits for the load in slot d.
LoadsFor(d, p) == calls[d] # None /\ calls[d].kind = "load" /\ calls[d].page = p

\* A page that loads the draft while it waits for a save finds the save in it.
LoadsAfterSaves ==
    \A c, d \in Slots, p \in Pages :
        InHand(c) /\ calls[c].page = p /\ LoadsFor(d, p) =>
            ~ IsAt(c, Unsaved) /\ (IsAt(d, {"loaded"}) => calls[d].read = draft.content)

\* What has been saved is in the draft, and in what is read of it to publish.
InDraft ==
    \A c \in Slots :
        /\ IsAt(c, {"committed", "saved", "asked"}) => calls[c].shown \subseteq draft.content
        /\ IsAt(c, {"scenes"}) => calls[c].shown \subseteq calls[c].read

\* All of this, as long as no requests have raced.
Calm == OneSave /\ SavesAddTo /\ FormsAreAhead /\ SavedFormsStay /\ LoadsAfterSaves /\ InDraft

\* Page p has just sent a save, and nothing that it could race with is under way.
NewSave(d, p) ==
    /\ Begins(d, p)
    /\ calls'[d].at = "sent"
    /\ calls'[d].kind # "load"
    /\ pages[p].version # None
    /\ \A c \in Slots : ~ IsAt(c, Saving) /\ ~ LoadsFor(c, p)
    /\ \A c \in Slots \ {d} : Remains(c)

\* Page p has just asked for the draft, and none of its saves can still be written.
NewLoad(d, p) ==
    /\ Begins(d, p)
    /\ calls'[d].at = "get"
    /\ \A c \in Slots : IsAt(c, Unsaved) => calls[c].page # p
    /\ \A c \in Slots \ {d} : Remains(c)

\* An edit that races with nothing sends at most one request, of one of the two kinds.
LEMMA CalmEdited ==
    ASSUME Types, NEW p \in Pages, EditsOn(p), OtherPagesStay(p), ~ raced'
    PROVE  \A d \in Slots : Remains(d) \/ NewSave(d, p) \/ NewLoad(d, p)
<1>1. \A d \in Slots : Remains(d) \/ Begins(d, p)
  BY Edited
<1>2. ASSUME NEW kind, NEW stage, Sends(p, kind, stage)
      PROVE  \E n \in Slots : /\ \A c \in Slots \ {n} : Remains(c)
                              /\ calls'[n] # None /\ calls'[n].at = stage /\ calls'[n].kind = kind
  BY <1>2 DEF Sends, Remains, Deserts, Goes
<1>3. CASE OpensOrReloads(p)
  <2>1. \A c \in Slots : IsAt(c, Unsaved) => calls[c].page # p
    BY <1>3 DEF OpensOrReloads, Races, IsAt, WaitsFor, Sent, Free
  <2> QED
    BY <1>1, <1>2, <1>3, <2>1 DEF OpensOrReloads, NewLoad
<1>4. CASE SendsForm(p)
  <2>1. pages[p].version # None /\ \A c \in Slots : ~ IsAt(c, Saving) /\ ~ LoadsFor(c, p)
    BY <1>4 DEF SendsForm, Races, IsAt, LoadsFor, WaitsFor, Sent, Free
  <2>2. PICK kind : kind # "load" /\ Sends(p, kind, "sent")
    BY <1>4 DEF SendsForm
  <2> QED
    BY <1>1, <1>2, <2>1, <2>2 DEF NewSave
<1>5. CASE TypesIn(p) \/ Leaves(p)
  BY <1>5 DEF TypesIn, Leaves, Remains, Deserts, Goes
<1> QED
  BY <1>3, <1>4, <1>5 DEF EditsOn

\* Edits that race with nothing keep Calm.
LEMMA CalmEdit ==
    ASSUME Types, ClosedPages', Calm, NEW p \in Pages, EditsOn(p), OtherPagesStay(p), DraftStays, ~ raced'
    PROVE  Calm'
<1>1. \A d \in Slots : Remains(d) \/ NewSave(d, p) \/ NewLoad(d, p)
  BY CalmEdited
<1>2. \A q \in Pages : pages'[q] = Closed \/ Grows(q)
  BY Edited
<1>3. None \notin Pages /\ draft.version # None /\ draft' = draft /\ Closed.version = None /\ Closed.open = FALSE
  BY ScenarioDraftAssumption DEF DraftStays, Types, Closed
<1>4. OneSave'
  BY <1>1 DEF Calm, OneSave, IsAt, Remains, Goes, NewSave, NewLoad, Saving, Unsaved
<1>5. SavesAddTo'
  <2>1. ASSUME NEW c \in Slots, Remains(c) PROVE AddsTo(c)'
    BY <1>3, <2>1 DEF Calm, SavesAddTo, AddsTo, IsAt, Remains, Goes, Current
  <2>2. ASSUME NEW c \in Slots, NewSave(c, p) PROVE AddsTo(c)'
    BY <1>3, <2>2 DEF Calm, FormsAreAhead, AddsTo, IsAt, NewSave, Begins, Current
  <2>3. ASSUME NEW c \in Slots, NewLoad(c, p) PROVE AddsTo(c)'
    BY <2>3 DEF AddsTo, IsAt, NewLoad
  <2> QED
    BY <1>1, <2>1, <2>2, <2>3 DEF SavesAddTo
<1>6. FormsAreAhead'
  BY <1>2, <1>3 DEF Calm, FormsAreAhead, Current, Grows
<1>7. SavedFormsStay'
  <2> SUFFICES ASSUME NEW c \in Slots, NEW q \in Pages, InHand(c)', calls'[c].page = q
               PROVE  calls'[c].shown \subseteq pages'[q].form
    BY DEF SavedFormsStay
  <2>1. Grows(q)
    BY <1>2, <1>3 DEF ClosedPages, InHand, IsAt, WaitsFor, Sent, Free
  <2>2. CASE Remains(c)
    BY <1>3, <2>1, <2>2 DEF Calm, SavedFormsStay, InHand, IsAt, Current, Remains, Goes, Grows
  <2>3. CASE NewSave(c, p)
    BY <2>1, <2>3 DEF NewSave, Begins, Grows
  <2>4. CASE NewLoad(c, p)
    BY <2>4 DEF NewLoad, InHand, IsAt, Saving, Unsaved
  <2> QED
    BY <1>1, <2>2, <2>3, <2>4
<1>8. LoadsAfterSaves'
  <2> SUFFICES ASSUME NEW c \in Slots, NEW d \in Slots, NEW q \in Pages,
                      InHand(c)', calls'[c].page = q, LoadsFor(d, q)'
               PROVE  ~ IsAt(c, Unsaved)' /\ (IsAt(d, {"loaded"})' => calls'[d].read = draft'.content)
    BY DEF LoadsAfterSaves
  <2>1. ASSUME Remains(c) PROVE InHand(c) /\ calls[c].page = q /\ (IsAt(c, Unsaved)' => IsAt(c, Unsaved))
    BY <1>3, <2>1 DEF Remains, Goes, InHand, IsAt, Current
  <2>2. ASSUME Remains(d)
        PROVE  LoadsFor(d, q) /\ (IsAt(d, {"loaded"})' => IsAt(d, {"loaded"}) /\ calls'[d].read = calls[d].read)
    BY <1>3, <2>2 DEF Remains, Goes, LoadsFor, IsAt
  <2>3. CASE Remains(c) /\ Remains(d)
    BY <1>3, <2>1, <2>2, <2>3 DEF Calm, LoadsAfterSaves
  <2>4. CASE NewSave(c, p)
    <3>1. q = p /\ d # c
      BY <2>4 DEF NewSave, Begins, LoadsFor
    <3> QED
      BY <2>2, <2>4, <3>1 DEF NewSave
  <2>5. CASE Remains(c) /\ NewLoad(d, p)
    BY <2>1, <2>5 DEF NewLoad, Begins, LoadsFor, IsAt
  <2>6. CASE NewLoad(c, p)
    BY <2>6 DEF NewLoad, InHand, IsAt, Saving, Unsaved
  <2>7. CASE Remains(c) /\ NewSave(d, p)
    BY <2>7 DEF NewSave, LoadsFor
  <2> QED
    BY <1>1, <2>3, <2>4, <2>5, <2>6, <2>7
<1>9. InDraft'
  BY <1>1, <1>3 DEF Calm, InDraft, IsAt, Remains, Goes, NewSave, NewLoad
<1> QED
  BY <1>4, <1>5, <1>6, <1>7, <1>8, <1>9 DEF Calm

\* Nothing that is known is the last draft once it has changed.
LEMMA NewDraft ==
    ASSUME Types, Heard, draft'.version = draft.version + 1
    PROVE  /\ \A p \in Pages : pages[p].version # draft'.version
           /\ \A c \in Slots : calls[c] # None => calls[c].version # draft'.version
<1>1. draft.version \in Nat /\ None \notin Nat
  BY ScenarioDraftAssumption DEF Types
<1>2. \A p \in Pages : pages[p].version \in {None} \cup Nat
  BY DEF Types, Page
<1>3. \A c \in Slots : calls[c] # None => calls[c].version \in {None} \cup Nat
  BY DEF Types, Call
<1> QED
  BY <1>1, <1>2, <1>3 DEF Heard, Current, Sent, Free

\* A save that is written makes every version known before an old one.
LEMMA CalmCommit ==
    ASSUME Types, Heard, Calm, NEW c \in Slots, pages' = pages,
           Proceeds(c, "checked", "committed", calls[c].version, calls[c].read),
           draft' = [version |-> draft.version + 1, content |-> calls[c].shown]
    PROVE  Calm'
<1>1. /\ calls[c] # None /\ calls'[c] # None
      /\ calls[c].at = "checked" /\ calls'[c].at = "committed"
      /\ calls'[c].page = calls[c].page /\ calls'[c].shown = calls[c].shown /\ calls'[c].kind = calls[c].kind
      /\ calls'[c].version = calls[c].version /\ calls'[c].read = calls[c].read
      /\ \A d \in Slots \ {c} : calls'[d] = calls[d]
  BY DEF Proceeds, Goes, OthersStay
<1>2. \A d \in Slots \ {c} : ~ IsAt(d, Saving)
  BY <1>1 DEF Calm, OneSave, IsAt, Saving, Unsaved
<1>3. /\ \A p \in Pages : ~ Current(pages[p].version)'
      /\ \A d \in Slots : calls'[d] # None => ~ Current(calls[d].version)'
  BY <1>1, NewDraft DEF Current
<1>4. draft.content \subseteq calls[c].shown /\ draft'.content = calls[c].shown
  BY <1>1 DEF Calm, SavesAddTo, AddsTo, IsAt
<1>5. OneSave'
  BY <1>1, <1>2 DEF OneSave, IsAt
<1>6. SavesAddTo'
  <2>1. ASSUME NEW d \in Slots \ {c} PROVE AddsTo(d)'
    BY <1>1, <1>2, <1>3, <2>1 DEF Calm, SavesAddTo, AddsTo, IsAt, Saving, Unsaved, Current
  <2>2. AddsTo(c)'
    BY <1>1, <1>4 DEF AddsTo, IsAt
  <2> QED
    BY <2>1, <2>2 DEF SavesAddTo
<1>7. FormsAreAhead'
  BY <1>3 DEF FormsAreAhead
<1>8. \A d \in Slots : InHand(d)' => d = c
  BY <1>1, <1>2, <1>3 DEF InHand, IsAt, Current
<1>9. InHand(c) /\ IsAt(c, Unsaved)
  BY <1>1 DEF InHand, IsAt, Saving, Unsaved
<1>10. SavedFormsStay'
  BY <1>1, <1>8, <1>9 DEF Calm, SavedFormsStay
<1>11. LoadsAfterSaves'
  <2>1. \A d \in Slots, p \in Pages : LoadsFor(d, p)' => LoadsFor(d, p)
    BY <1>1 DEF LoadsFor
  <2>2. \A d \in Slots, p \in Pages : ~ (calls[c].page = p /\ LoadsFor(d, p))
    BY <1>9 DEF Calm, LoadsAfterSaves
  <2> QED
    BY <1>1, <1>8, <2>1, <2>2 DEF LoadsAfterSaves
<1>12. InDraft'
  BY <1>1, <1>2, <1>4 DEF Calm, InDraft, IsAt, Saving, Unsaved
<1> QED
  BY <1>5, <1>6, <1>7, <1>10, <1>11, <1>12 DEF Calm

\* The server keeps Calm.
LEMMA CalmServe ==
    ASSUME Types, Heard, Calm, NEW c \in Slots, Serves(c), pages' = pages
    PROVE  Calm'
<1> SUFFICES ASSUME NEW from, NEW to, NEW version, NEW read, Proceeds(c, from, to, version, read), draft' = draft,
                    \/ from = "sent" /\ to \in {"checked", "refused"}
                    \/ from = "committed" /\ to = "saved"
                    \/ from = "asked" /\ to = "scenes" /\ read = draft.content
                    \/ from = "scenes" /\ to \in {"refused", "published"}
                    \/ from = "get" /\ to = "row"
                    \/ from = "row" /\ to = "loaded" /\ read = draft.content,
                    to = "checked" => calls[c].version \in {None, draft.version}
             PROVE  Calm'
  BY CalmCommit DEF Serves, DraftStays
<1>1. /\ calls[c] # None /\ calls'[c] # None
      /\ calls[c].at = from /\ calls'[c].at = to
      /\ calls'[c].page = calls[c].page /\ calls'[c].shown = calls[c].shown /\ calls'[c].kind = calls[c].kind
      /\ calls'[c].version = version /\ calls'[c].read = read
      /\ \A d \in Slots \ {c} : calls'[d] = calls[d]
  BY DEF Proceeds, Goes, OthersStay
<1>2. \A d \in Slots : IsAt(d, Saving)' => IsAt(d, Saving)
  BY <1>1 DEF IsAt, Saving, Unsaved
<1>3. \A d \in Slots : InHand(d)' => InHand(d) /\ (IsAt(d, Unsaved)' => IsAt(d, Unsaved))
  BY <1>1 DEF InHand, IsAt, Saving, Unsaved, Current
<1>4. OneSave'
  BY <1>2 DEF Calm, OneSave
<1>5. SavesAddTo'
  <2>1. ASSUME NEW d \in Slots \ {c} PROVE AddsTo(d)'
    BY <1>1, <2>1 DEF Calm, SavesAddTo, AddsTo, IsAt, Current
  <2>2. AddsTo(c)'
    BY <1>1 DEF Calm, SavesAddTo, AddsTo, IsAt, Current
  <2> QED
    BY <2>1, <2>2 DEF SavesAddTo
<1>6. FormsAreAhead'
  BY DEF Calm, FormsAreAhead, Current
<1>7. SavedFormsStay'
  BY <1>1, <1>3 DEF Calm, SavedFormsStay
<1>8. LoadsAfterSaves'
  <2>1. \A d \in Slots, p \in Pages : LoadsFor(d, p)' => LoadsFor(d, p)
    BY <1>1 DEF LoadsFor
  <2>2. \A d \in Slots : IsAt(d, {"loaded"})' =>
           \/ calls'[d].read = draft.content
           \/ IsAt(d, {"loaded"}) /\ calls'[d].read = calls[d].read
    BY <1>1 DEF IsAt
  <2>3. \A d \in Slots : calls'[d].page = calls[d].page
    BY <1>1
  <2> QED
    BY <1>3, <2>1, <2>2, <2>3 DEF Calm, LoadsAfterSaves
<1>9. InDraft'
  BY <1>1 DEF Calm, InDraft, IsAt
<1> QED
  BY <1>4, <1>5, <1>6, <1>7, <1>8, <1>9 DEF Calm

\* The answers keep Calm: what a page takes for saved or loads is the draft, if its version is.
LEMMA CalmTake ==
    ASSUME Types, ClosedPages', LoadsAreExact, Calm, NEW c \in Slots, calls[c] # None, Takes(c), DraftStays
    PROVE  Calm'
<1>1. /\ \A d \in Slots : Remains(d) \/ (d = c /\ Moves(d))
      /\ \A p \in Pages : pages'[p] = Closed \/ ShowsSame(p) \/ ShowsSaved(p, c) \/ ShowsLoaded(p, c)
  BY Taken
<1>2. None \notin Pages /\ draft.version # None /\ draft' = draft /\ Closed.version = None /\ Closed.open = FALSE
  BY ScenarioDraftAssumption DEF DraftStays, Types, Closed
<1>3. \A d \in Slots : InHand(d)' => /\ InHand(d) /\ Remains(d) /\ calls'[d].shown = calls[d].shown
                                    /\ (IsAt(d, Unsaved)' => IsAt(d, Unsaved))
  BY <1>1, <1>2 DEF InHand, IsAt, Saving, Unsaved, Current, Remains, Moves, Goes
<1>4. \A d \in Slots, p \in Pages : calls'[d] # None /\ calls'[d].page = p => calls[d] # None /\ calls[d].page = p
  BY <1>1, <1>2 DEF Remains, Moves, Goes
<1>5. OneSave'
  BY <1>1 DEF Calm, OneSave, IsAt, Saving, Unsaved, Remains, Moves, Goes
<1>6. SavesAddTo'
  <2>1. ASSUME NEW d \in Slots, Remains(d) PROVE AddsTo(d)'
    BY <1>2, <2>1 DEF Calm, SavesAddTo, AddsTo, IsAt, Current, Remains, Goes
  <2>2. ASSUME NEW d \in Slots, Moves(d) PROVE AddsTo(d)'
    BY <2>2 DEF AddsTo, IsAt, Moves, Goes
  <2> QED
    BY <1>1, <2>1, <2>2 DEF SavesAddTo
<1>7. FormsAreAhead'
  <2> SUFFICES ASSUME NEW p \in Pages, Current(pages[p].version)'
               PROVE  draft.content \subseteq pages'[p].form /\ pages'[p].saved \subseteq {draft.content}
    BY <1>2 DEF FormsAreAhead
  <2>1. CASE pages'[p] = Closed
    BY <1>2, <2>1 DEF Current
  <2>2. CASE ShowsSame(p)
    BY <1>2, <2>2 DEF Calm, FormsAreAhead, Current, ShowsSame, Turns
  <2>3. CASE ShowsSaved(p, c)
    <3>1. InHand(c) /\ IsAt(c, {"saved"}) /\ Current(calls[c].version)
      BY <1>2, <2>3 DEF InHand, IsAt, Current, ShowsSaved, Turns
    <3> QED
      BY <2>3, <3>1 DEF Calm, SavesAddTo, AddsTo, SavedFormsStay, ShowsSaved, Turns
  <2>4. CASE ShowsLoaded(p, c)
    BY <1>2, <2>4 DEF LoadsAreExact, Current, ShowsLoaded, Turns, Sent, Free
  <2> QED
    BY <1>1, <2>1, <2>2, <2>3, <2>4
<1>8. SavedFormsStay'
  <2> SUFFICES ASSUME NEW d \in Slots, NEW p \in Pages, InHand(d)', calls'[d].page = p
               PROVE  calls'[d].shown \subseteq pages'[p].form
    BY DEF SavedFormsStay
  <2>1. InHand(d) /\ calls[d].page = p /\ calls'[d] # None /\ calls'[d].shown = calls[d].shown
    BY <1>3, <1>4 DEF InHand, IsAt
  <2>2. pages'[p] # Closed
    BY <1>2, <2>1 DEF ClosedPages, WaitsFor, Sent, Free
  <2>3. CASE ShowsSame(p) \/ ShowsSaved(p, c)
    BY <2>1, <2>3 DEF Calm, SavedFormsStay, ShowsSame, ShowsSaved, Turns
  <2>4. CASE ShowsLoaded(p, c)
    <3>1. ~ IsAt(d, Unsaved) /\ calls[c].read = draft.content
      BY <2>1, <2>4 DEF Calm, LoadsAfterSaves, LoadsFor, IsAt, ShowsLoaded
    <3>2. calls[d].shown = draft.content
      BY <2>1, <3>1 DEF Calm, SavesAddTo, AddsTo, InHand, IsAt, Saving
    <3> QED
      BY <2>1, <2>4, <3>1, <3>2 DEF ShowsLoaded, Turns
  <2> QED
    BY <1>1, <2>2, <2>3, <2>4
<1>9. LoadsAfterSaves'
  <2>1. \A d \in Slots, p \in Pages : LoadsFor(d, p)' => LoadsFor(d, p)
    BY <1>1, <1>4 DEF LoadsFor, Remains, Moves, Goes
  <2>2. \A d \in Slots : IsAt(d, {"loaded"})' => IsAt(d, {"loaded"}) /\ calls'[d].read = calls[d].read
    BY <1>1 DEF IsAt, Remains, Moves, Goes
  <2>3. \A d \in Slots, p \in Pages : InHand(d)' /\ calls'[d].page = p => calls[d].page = p
    BY <1>4 DEF InHand, IsAt
  <2> QED
    BY <1>2, <1>3, <2>1, <2>2, <2>3 DEF Calm, LoadsAfterSaves
<1>10. InDraft'
  BY <1>1, <1>2 DEF Calm, InDraft, IsAt, Remains, Moves, Goes
<1> QED
  BY <1>5, <1>6, <1>7, <1>8, <1>9, <1>10 DEF Calm

\* A review keeps Calm: it only makes versions old.
LEMMA CalmReview ==
    ASSUME Types, Heard, Calm, Reviewed
    PROVE  Calm'
<1>1. draft'.version = draft.version + 1 /\ draft'.content = draft.content /\ pages' = pages /\ calls' = calls
  BY DEF Reviewed, Types
<1>2. /\ \A p \in Pages : ~ Current(pages[p].version)'
      /\ \A c \in Slots : calls[c] # None => ~ Current(calls[c].version)'
  BY <1>1, NewDraft DEF Current
<1>3. \A c \in Slots : InHand(c)' => InHand(c)
  BY <1>1, <1>2 DEF InHand, IsAt
<1>4. SavesAddTo'
  BY <1>1, <1>2 DEF Calm, SavesAddTo, AddsTo, IsAt
<1>5. FormsAreAhead'
  BY <1>2 DEF FormsAreAhead
<1> QED
  BY <1>1, <1>3, <1>4, <1>5 DEF Calm, OneSave, SavedFormsStay, LoadsAfterSaves, LoadsFor, InDraft, IsAt
-----------------------------------------------------------------------------
\* The inductive invariant.
Inv == Types /\ LinkInv /\ Heard /\ LoadsAreExact /\ (~ raced => Calm)

\* The inductive invariant holds at first ...
LEMMA InvInit == Init => Inv
<1> SUFFICES ASSUME Init PROVE Inv
  OBVIOUS
<1>1. Closed.open = FALSE /\ Closed.saving = FALSE /\ Closed.version = None
  BY DEF Closed
<1>2. \A p \in Pages : pages[p] = Closed
  BY DEF Init
<1>3. \A c \in Slots : calls[c] = None
  BY DEF Init
<1>4. Types
  BY ClosedType DEF Init, Types
<1>5. LinkInv
  BY <1>1, <1>2, <1>3 DEF LinkInv, OneAutosave, SavingIsOne, ClosedPages, LostAreLeft, Autosaves, WaitsFor, Sent, Free
<1>6. Heard /\ LoadsAreExact
  BY <1>1, <1>2, <1>3 DEF Heard, LoadsAreExact, Sent, Free
<1>7. Calm
  <2>1. \A c \in Slots : ~ InHand(c) /\ \A stages : ~ IsAt(c, stages)
    BY <1>3 DEF InHand, IsAt
  <2>2. FormsAreAhead
    BY <1>1, <1>2, ScenarioDraftAssumption DEF FormsAreAhead, Current, Init
  <2> QED
    BY <2>1, <2>2 DEF Calm, OneSave, SavesAddTo, AddsTo, SavedFormsStay, LoadsAfterSaves, InDraft
<1> QED
  BY <1>4, <1>5, <1>6, <1>7 DEF Inv

\* ... is kept by every step ...
LEMMA InvStep == Inv /\ [Next]_vars => Inv'
<1> SUFFICES ASSUME Inv, [Next]_vars PROVE Inv'
  OBVIOUS
<1>1. Types' /\ LinkInv' /\ Heard' /\ LoadsAreExact'
  BY TypesStep, LinkStep, HeardStep, LoadsStep DEF Inv
<1>2. Step
  BY StepShape DEF Inv
<1>3. ASSUME ~ raced' PROVE Calm'
  <2>1. ASSUME NEW p \in Pages, EditsOn(p), OtherPagesStay(p), DraftStays PROVE ~ raced
    BY <1>3, <2>1 DEF EditsOn, OpensOrReloads, TypesIn, SendsForm, Leaves
  <2>2. ~ raced
    BY <1>2, <1>3, <2>1 DEF Step, EditsOn, Reviewed
  <2>3. Calm
    BY <2>2 DEF Inv
  <2>4. ASSUME NEW p \in Pages, EditsOn(p), OtherPagesStay(p), DraftStays PROVE Calm'
    BY <1>1, <1>3, <2>3, <2>4, CalmEdit DEF Inv, LinkInv
  <2>5. ASSUME NEW c \in Slots, Serves(c), pages' = pages PROVE Calm'
    BY <2>3, <2>5, CalmServe DEF Inv
  <2>6. ASSUME NEW c \in Slots, calls[c] # None, Takes(c), DraftStays PROVE Calm'
    BY <1>1, <2>3, <2>6, CalmTake DEF Inv, LinkInv
  <2>7. CASE Reviewed
    BY <2>3, <2>7, CalmReview DEF Inv
  <2>8. CASE UNCHANGED <<draft, revisions, pages, calls, typed, raced>>
    BY <2>3, <2>8 DEF Calm, OneSave, SavesAddTo, AddsTo, FormsAreAhead, SavedFormsStay, LoadsAfterSaves, LoadsFor,
       InDraft, InHand, IsAt, Current
  <2> QED
    BY <1>2, <2>4, <2>5, <2>6, <2>7, <2>8 DEF Step, EditsOn
<1> QED
  BY <1>1, <1>3 DEF Inv

\* ... and so holds always.
LEMMA Invariance == Spec => []Inv
<1>1. Init => Inv
  BY InvInit
<1>2. Inv /\ [Next]_vars => Inv'
  BY InvStep
<1> QED
  BY <1>1, <1>2, PTL DEF Spec
-----------------------------------------------------------------------------
\* Every variable keeps its type, and autoSaveBusyRef is set exactly while one automatic saving
\* of the page is under way: no second one starts, and none is forgotten.
THEOREM TypeCorrect == Spec => []TypeOK
<1>1. Inv => TypeOK
  <2> SUFFICES ASSUME Inv PROVE TypeOK
    OBVIOUS
  <2> USE DEF Inv
  <2>1. ASSUME NEW p \in Pages
        PROVE  pages[p].saving <=> Cardinality({c \in Sent : calls[c].kind = "auto" /\ WaitsFor(c, p)}) = 1
    <3> DEFINE autosaves == {c \in Sent : calls[c].kind = "auto" /\ WaitsFor(c, p)}
    <3>1. \A c : c \in autosaves <=> c \in Slots /\ Autosaves(c, p)
      BY DEF Autosaves, WaitsFor, Sent
    <3>2. SavingIsOne(p)
      BY DEF LinkInv, OneAutosave
    <3> HIDE DEF autosaves
    <3>3. CASE pages[p].saving
      <4>1. PICK c \in autosaves : autosaves = {c}
        BY <3>1, <3>2, <3>3 DEF SavingIsOne
      <4> QED
        BY <3>3, <4>1, FS_Singleton DEF autosaves
    <3>4. CASE ~ pages[p].saving
      <4>1. autosaves = {}
        BY <3>1, <3>2, <3>4 DEF SavingIsOne
      <4>2. Cardinality(autosaves) = 0
        BY <4>1, FS_EmptySet
      <4> QED
        BY <3>4, <4>2 DEF autosaves
    <3> QED
      BY <3>3, <3>4
  <2> QED
    BY <2>1 DEF Types, TypeOK
<1> QED
  BY <1>1, Invariance, PTL

\* A page that takes its form for saved, with the draft's last version, shows the draft, unless
\* requests have raced.
THEOREM SavedPagesShowTheDraft == Spec => []SavedMeansSaved
<1>1. Inv => SavedMeansSaved
  BY DEF Inv, Calm, FormsAreAhead, Current, SavedMeansSaved
<1> QED
  BY <1>1, Invariance, PTL

\* What publishScenario copies holds all that its author saw, unless requests have raced.
THEOREM PublicationsHoldWhatIsShown == Spec => []PublishesWhatIsShown
<1>1. Inv => PublishesWhatIsShown
  BY DEF Inv, Calm, InDraft, IsAt, At, Sent, Free, PublishesWhatIsShown
<1> QED
  BY <1>1, Invariance, PTL

\* The check of expectedUpdatedAt lets no save take an edit out of the draft, unless requests have
\* raced: whatever other pages, lost answers and reviews come between.
THEOREM NoSaveTakesEditsOut == Spec => EditsAreKept
<1> DEFINE Kept == \A c \in Sent : At(c, "checked") /\ calls'[c] # None /\ calls'[c].at = "committed" /\ ~ raced
                                 => draft.content \subseteq draft'.content
<1>1. Inv /\ [Next]_vars => Kept
  <2> SUFFICES ASSUME Inv, [Next]_vars, ~ raced PROVE draft.content \subseteq draft'.content
    OBVIOUS
  <2>1. Step
    BY StepShape DEF Inv
  <2>2. ASSUME NEW c \in Slots, Serves(c) PROVE draft.content \subseteq draft'.content
    <3>1. CASE draft' = draft
      BY <3>1
    <3>2. CASE Proceeds(c, "checked", "committed", calls[c].version, calls[c].read) /\ draft'.content = calls[c].shown
      BY <3>2 DEF Proceeds, Goes, Inv, Calm, SavesAddTo, AddsTo, IsAt
    <3> QED
      BY <2>2, <3>1, <3>2 DEF Serves, DraftStays
  <2>3. CASE draft' = draft
    BY <2>3
  <2>4. CASE Reviewed
    BY <2>4 DEF Reviewed, Inv, Types
  <2> QED
    BY <2>1, <2>2, <2>3, <2>4 DEF Step, DraftStays
<1>2. Spec => [][Kept]_vars
  BY <1>1, Invariance, PTL DEF Spec
<1> QED
  BY <1>2 DEF EditsAreKept
=============================================================================
