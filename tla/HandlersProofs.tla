--------------------------- MODULE HandlersProofs ---------------------------
(* Proofs about Handlers, for any number of updates at once, any chats,      *)
(* messages, catalog and class store, and any number of crashes.            *)
EXTENDS HandlersHistory, SessionStoreProofs, WellFoundedInduction

(* Where a handler is tells what its variables hold. What they hold of the   *)
(* world outside is the chat of a session and of a message, which both keep  *)
(* for as long as they are there.                                           *)
Owner == [s \in Allocated |-> heap[s].chat]
Shown == [m \in Displayed |-> tg[m].chat]

Extends(f, g) == DOMAIN f \subseteq DOMAIN g /\ \A x \in DOMAIN f : g[x] = f[x]

Edits ==
  [to : MessageIds \union {Nil}, of : SessionIds, keys : SUBSET Buttons,
   next : {"idle", "answer", "run"}]

Commands == [option : {"target", "--release", "-source"}, preview : BOOLEAN]

Jobs ==
  [language : Languages, release : Release, target : TargetIds \union {Nil, Torn},
   suffix : Languages, command : Commands]

Locals ==
  [chat : Chats \union {Nil}, s : SessionIds \union {Nil},
   press : Buttons \union StrayButtons \union {Nil}, query : Queries \union {Nil},
   language : Languages \union {Nil}, release : Release \union {Nil},
   target : TargetIds \union {Nil, Torn}, sent : MessageIds \union {Nil},
   edit : Edits \union {Nil}, job : Jobs \union {Nil}]

OwnJob(job) ==
  /\ job.release \in ToSet(Releases(job.language))
  /\ Supports(job.release, job.target)
  /\ job.suffix = job.language
  /\ job.command.preview => job.language = Java /\ job.target = <<job.release.major>>

Querying == {"queryFill", "queryGet", "sendName", "storeName", "writeName"}
Pressing == {"press", "update", "discard"}
Compiling ==
  {"compile", "compileLanguage", "compileRelease", "compileTarget", "announce", "run",
   "report", "reportFailure"}
WithSession ==
  {"sendKeyboard", "storeMessage", "sendName", "storeName", "writeName", "serve", "servePages",
   "update", "repaint", "discard", "dropped"} \union Compiling
WithMessage == {"storeMessage", "storeName", "writeName"}

(* What holds of a handler's variables at a label.                           *)
At(label, l, owner, shown) ==
  /\ label \in Querying \union Pressing \union WithSession => l.chat \in Chats
  /\ label \in WithSession => l.s \in DOMAIN owner /\ owner[l.s] = l.chat
  /\ label \in WithMessage => l.sent \in DOMAIN shown /\ shown[l.sent] = l.chat
  /\ label = "queryFill" => l.query \in Queries /\ l.release \in ToSet(Releases(Java))
  /\ label \in {"press", "update"} => l.press \in Buttons \union StrayButtons
  /\ label = "update" => Dispatch(l.press) = "update"
  /\ label = "compileRelease" => Known(l.language)
  /\ label \in {"compileTarget", "announce", "run"} =>
       l.language \in CatalogLanguages /\ l.release \in ToSet(Releases(l.language))

EditFits(e, owner, shown) ==
  /\ e \in Edits /\ e.of \in DOMAIN owner
  /\ e.to # Nil => e.to \in DOMAIN shown /\ shown[e.to] = owner[e.of]

LocalsFit(label, l, owner, shown) ==
  /\ label \in Labels /\ l \in Locals
  /\ l.s # Nil => l.s \in DOMAIN owner
  /\ l.sent # Nil => l.sent \in DOMAIN shown
  /\ l.job # Nil => OwnJob(l.job)
  /\ At(label, l, owner, shown)
  /\ label = "edit" => EditFits(l.edit, owner, shown) /\ At(l.edit.next, l, owner, shown)

HandlersFit == \A p \in Procs : LocalsFit(pc[p], loc[p], Owner, Shown)

VarsFit ==
  /\ pc \in [Procs -> Labels]
  /\ loc \in [Procs -> Locals]
  /\ spinning \in [Procs -> BOOLEAN]
  /\ tg \in [MessageIds -> Message \union {Nil}]

(* What is on a screen is of the chat it is on, and the message a session    *)
(* knows is on its chat's screen.                                           *)
ScreensFit ==
  /\ \A m \in Displayed :
       /\ tg[m].owner \in Allocated /\ heap[tg[m].owner].chat = tg[m].chat
       /\ tg[m].of \in Allocated /\ heap[tg[m].of].chat = tg[m].chat
  /\ \A s \in Allocated : heap[s].message # Nil =>
       heap[s].message \in Displayed /\ tg[heap[s].message].chat = heap[s].chat

HandlersInv == StoreInv /\ VarsFit /\ ScreensFit /\ HandlersFit
-----------------------------------------------------------------------------
(* The catalog: a search through a chain finds a release of that chain.     *)
LEMMA LeastIsIn ==
  ASSUME NEW T \in SUBSET Nat, T # {}
  PROVE  Min(T) \in T
<1>1. PICK x \in T : \A y \in T : <<y, x>> \notin OpToRel(<, Nat)
  BY NatLessThanWellFounded, WFMin, Zenon
<1>2. \A y \in T : ~(y < x)
  BY <1>1 DEF OpToRel
<1>3. \A y \in T : x <= y
  BY <1>2
<1> QED
  BY <1>3 DEF Min

LEMMA ReleasesAreTyped ==
  ASSUME NEW language
  PROVE  /\ Known(language) => language \in CatalogLanguages
         /\ Releases(language) \in Seq(Release)
         /\ \A r \in ToSet(Releases(language)) : r \in Release
<1>1. Known(language) => language \in CatalogLanguages
  BY DEF Known, CatalogLanguages, Releases
<1>2. Releases(language) \in Seq(Release)
  <2>1. CASE Known(language)
    BY <2>1, <1>1, HandlersAssumption DEF HandlersAssumption, CatalogLanguages, Releases
  <2>2. CASE ~Known(language)
    BY <2>2 DEF Known
  <2> QED
    BY <2>1, <2>2
<1> QED
  BY <1>1, <1>2 DEF ToSet

LEMMA FindReleaseFinds ==
  ASSUME NEW language, NEW id
  PROVE  FindRelease(language, id) \in ToSet(Releases(language)) \union {Nil}
<1> DEFINE I == {i \in 1 .. Len(Releases(language)) : Releases(language)[i].id = id}
<1>1. I \subseteq DOMAIN Releases(language) /\ I \in SUBSET Nat /\ 0 \notin I
  BY ReleasesAreTyped
<1>2. I # {} => Min(I) \in I
  BY <1>1, LeastIsIn
<1> QED
  BY <1>1, <1>2 DEF FindRelease, FirstRelease, SelectInSeq, ToSet

LEMMA NewestStockedFinds ==
  ASSUME NEW language, NEW stocked
  PROVE  NewestStocked(language, stocked) \in ToSet(Releases(language)) \union {Nil}
<1> DEFINE I == {i \in 1 .. Len(Releases(language)) : Releases(language)[i].major \in stocked}
<1>1. I \subseteq DOMAIN Releases(language) /\ I \in SUBSET Nat /\ 0 \notin I
  BY ReleasesAreTyped
<1>2. I # {} => Min(I) \in I
  BY <1>1, LeastIsIn
<1> QED
  BY <1>1, <1>2 DEF NewestStocked, FirstRelease, SelectInSeq, ToSet

LEMMA DefaultReleaseIsThere ==
  ASSUME NEW language, Known(language)
  PROVE  DefaultRelease(language) \in ToSet(Releases(language))
<1> DEFINE I == {i \in 1 .. Len(Releases(language)) : Releases(language)[i].default}
           marked == IF I # {} THEN Releases(language)[Min(I)] ELSE Nil
<1>1. I \subseteq DOMAIN Releases(language) /\ I \in SUBSET Nat /\ 0 \notin I
  BY ReleasesAreTyped
<1>2. I # {} => Min(I) \in I
  BY <1>1, LeastIsIn
<1>3. Releases(language)[1] \in ToSet(Releases(language))
  BY ReleasesAreTyped DEF Known, ToSet
<1>4. marked # Nil => marked \in ToSet(Releases(language))
  BY <1>1, <1>2 DEF ToSet
<1>5. DefaultRelease(language) \in {marked, Releases(language)[1]}
      /\ (DefaultRelease(language) = marked => marked # Nil \/ marked = Releases(language)[1])
  BY <1>1, <1>2 DEF DefaultRelease, FirstRelease, SelectInSeq
<1> QED
  BY <1>3, <1>4, <1>5

LEMMA ReleaseOrDefaultIsThere ==
  ASSUME NEW language, NEW id, Known(language)
  PROVE  ReleaseOrDefault(language, id) \in ToSet(Releases(language))
BY FindReleaseFinds, DefaultReleaseIsThere DEF ReleaseOrDefault

LEMMA DefaultTargetFits ==
  ASSUME NEW r \in Release
  PROVE  DefaultTarget(r) \in TargetIds \union {Nil}
<1>1. r.targets \in Seq(TargetIds)
  BY DEF Release
<1> QED
  BY <1>1 DEF DefaultTarget

LEMMA CommandIsTyped ==
  ASSUME NEW language, NEW release, NEW target
  PROVE  Command(language, release, target) \in Commands
<1> DEFINE option == IF language # Java THEN "target"
                     ELSE IF release.flag \/ Previews(release, target) THEN "--release"
                     ELSE "-source"
           preview == language = Java /\ Previews(release, target)
<1>1. option \in {"target", "--release", "-source"}
  OBVIOUS
<1>2. preview \in BOOLEAN
  OBVIOUS
<1> HIDE DEF option, preview
<1>3. [option |-> option, preview |-> preview] \in Commands
  BY <1>1, <1>2 DEF Commands
<1> QED
  BY <1>3 DEF option, preview, Command

-----------------------------------------------------------------------------
(* The keyboards.                                                           *)
LEMMA MainPanelIsButtons ==
  ASSUME NEW session
  PROVE  MainPanel(session) \in SUBSET Buttons
BY DEF MainPanel, Button, Buttons

LEMMA PanelIsButtons ==
  ASSUME NEW session, NEW panel
  PROVE  Panel(session, panel) \in SUBSET Buttons
<1> DEFINE l == session.language
           release == ReleaseOrDefault(l, session.release)
<1>1. Button("open", "main") \in Buttons
  BY DEF Button, Buttons
<1>2. {Button("lang", x) : x \in CatalogLanguages} \subseteq Buttons
  BY HandlersAssumption DEF HandlersAssumption, Button, Buttons
<1>3. {Button("rel", r.id) : r \in OfferedReleases(session)} \subseteq Buttons
  <2>1. \A r \in OfferedReleases(session) : r \in Release
    BY ReleasesAreTyped DEF OfferedReleases
  <2>2. \A r \in Release : r.id \in ReleaseIds
    BY DEF Release
  <2> QED
    BY <2>1, <2>2 DEF Button, Buttons
<1>4. Known(l) => {Button("tgt", t) : t \in ToSet(release.targets)} \subseteq Buttons
  <2>1. Known(l) => release.targets \in Seq(TargetIds)
    BY ReleaseOrDefaultIsThere, ReleasesAreTyped DEF Release
  <2>2. Known(l) => ToSet(release.targets) \subseteq TargetIds
    BY <2>1 DEF ToSet
  <2> QED
    BY <2>2 DEF Button, Buttons
<1>5. {Button("view", f) : f \in ViewFlags} \subseteq Buttons
  BY DEF Button, Buttons
<1> QED
  BY <1>1, <1>2, <1>3, <1>4, <1>5, MainPanelIsButtons DEF Panel

-----------------------------------------------------------------------------
(* What a handler knows stays true while sessions and messages are added.   *)
LEMMA LocalsStay ==
  ASSUME NEW label, NEW l, NEW owner, NEW shown, NEW owner2, NEW shown2,
         Extends(owner, owner2), Extends(shown, shown2),
         LocalsFit(label, l, owner, shown)
  PROVE  LocalsFit(label, l, owner2, shown2)
<1>1. \A at : At(at, l, owner, shown) => At(at, l, owner2, shown2)
  BY DEF Extends, At
<1>2. EditFits(l.edit, owner, shown) => EditFits(l.edit, owner2, shown2)
  BY DEF Extends, EditFits
<1> QED
  BY <1>1, <1>2 DEF Extends, LocalsFit

LEMMA IdleFits ==
  ASSUME NEW label \in {"idle", "answer"}, NEW owner, NEW shown
  PROVE  LocalsFit(label, Idle, owner, shown)
<1>1. Idle \in Locals
  BY DEF Idle, Locals
<1> QED
  BY <1>1
  DEF Idle, LocalsFit, At, Labels, Querying, Pressing, WithSession, WithMessage, Compiling

LEMMA OthersFit ==
  ASSUME VarsFit, HandlersFit, Extends(Owner, Owner'), Extends(Shown, Shown'),
         NEW p \in Procs, NEW label, NEW l,
         pc' = [pc EXCEPT ![p] = label], loc' = [loc EXCEPT ![p] = l],
         LocalsFit(label, l, Owner', Shown')
  PROVE  HandlersFit' /\ pc' \in [Procs -> Labels] /\ loc' \in [Procs -> Locals]
<1>1. pc' \in [Procs -> Labels] /\ loc' \in [Procs -> Locals]
  BY DEF VarsFit, LocalsFit
<1>2. ASSUME NEW q \in Procs
      PROVE  LocalsFit(pc'[q], loc'[q], Owner', Shown')
  <2>1. CASE q = p
    BY <2>1 DEF VarsFit
  <2>2. CASE q # p
    <3>1. pc'[q] = pc[q] /\ loc'[q] = loc[q]
      BY <2>2 DEF VarsFit
    <3>2. LocalsFit(pc[q], loc[q], Owner, Shown)
      BY DEF HandlersFit
    <3> QED
      BY <3>1, <3>2, LocalsStay
  <2> QED
    BY <2>1, <2>2
<1> QED
  BY <1>1, <1>2 DEF HandlersFit

(* A step of a handler that changes no session and no screen.               *)
LEMMA HandlerMoves ==
  ASSUME HandlersInv, StoreInv', UNCHANGED <<heap, tg>>, NEW p \in Procs, NEW label, NEW l,
         pc' = [pc EXCEPT ![p] = label], loc' = [loc EXCEPT ![p] = l],
         LocalsFit(label, l, Owner, Shown), spinning' \in [Procs -> BOOLEAN]
  PROVE  HandlersInv'
<1>1. Owner' = Owner /\ Shown' = Shown /\ Allocated' = Allocated /\ Displayed' = Displayed
  BY DEF Owner, Shown, Allocated, Displayed
<1>2. Extends(Owner, Owner') /\ Extends(Shown, Shown')
  BY <1>1 DEF Extends
<1>3. ScreensFit'
  BY <1>1 DEF HandlersInv, ScreensFit
<1>4. HandlersFit' /\ VarsFit'
  BY <1>1, <1>2, OthersFit DEF HandlersInv, VarsFit
<1> QED
  BY <1>3, <1>4 DEF HandlersInv

(* A handler puts text and buttons together for a session of its chat.      *)
LEMMA ComposedFits ==
  ASSUME HandlersInv, NEW label \in Labels, NEW l, LocalsFit(label, l, Owner, Shown),
         NEW s \in Allocated, NEW keys \in SUBSET Buttons,
         NEW next \in {"idle", "answer", "run"}, At(next, l, Owner, Shown)
  PROVE  LocalsFit("edit", [l EXCEPT !.edit =
           [to |-> heap[s].message, of |-> s, keys |-> keys, next |-> next]], Owner, Shown)
<1> DEFINE e == [to |-> heap[s].message, of |-> s, keys |-> keys, next |-> next]
           l2 == [l EXCEPT !.edit = e]
<1>1. heap[s] \in Session
  BY AllocatedIsTyped DEF HandlersInv, StoreInv, Allocated
<1>2. EditFits(e, Owner, Shown) /\ e \in Edits
  BY <1>1 DEF HandlersInv, ScreensFit, Owner, Shown, EditFits, Edits, Session, Allocated
<1> HIDE DEF e
<1>3. l \in Locals
  BY DEF LocalsFit
<1>4. /\ l2 \in Locals /\ l2.edit = e /\ l2.s = l.s /\ l2.sent = l.sent /\ l2.job = l.job
      /\ l2.chat = l.chat /\ l2.query = l.query /\ l2.release = l.release
      /\ l2.press = l.press /\ l2.language = l.language
  BY <1>2, <1>3 DEF Locals
<1> HIDE DEF l2
<1>5. e.next = next
  BY DEF e
<1>6. At(next, l2, Owner, Shown)
  BY <1>4 DEF At
<1>7. At("edit", l2, Owner, Shown)
  BY DEF At, Querying, Pressing, WithSession, WithMessage, Compiling
<1>8. LocalsFit("edit", l2, Owner, Shown)
  BY <1>2, <1>4, <1>5, <1>6, <1>7 DEF LocalsFit, Labels
<1> QED
  BY <1>8 DEF l2, e

LEMMA LastEditFits ==
  ASSUME HandlersInv, UNCHANGED <<storeVars, tg, spinning>>, NEW p \in Procs,
         NEW s \in Allocated, NEW keys \in SUBSET Buttons, LastEdit(p, s, keys)
  PROVE  HandlersInv'
<1>1. PICK next \in {"idle", "answer"} :
        /\ pc' = [pc EXCEPT ![p] = "edit"]
        /\ loc' = [loc EXCEPT ![p] = [Idle EXCEPT !.edit =
              [to |-> heap[s].message, of |-> s, keys |-> keys, next |-> next]]]
  BY DEF LastEdit, ComposeEdit, Goto, Set
<1>2. LocalsFit(next, Idle, Owner, Shown) /\ At(next, Idle, Owner, Shown)
  BY IdleFits DEF LocalsFit
<1>3. next \in Labels
  BY DEF Labels
<1>4. LocalsFit("edit", [Idle EXCEPT !.edit =
        [to |-> heap[s].message, of |-> s, keys |-> keys, next |-> next]], Owner, Shown)
  BY <1>2, <1>3, ComposedFits
<1>5. spinning' \in [Procs -> BOOLEAN] /\ StoreInv' /\ UNCHANGED <<heap, tg>>
  BY NextKeeps DEF HandlersInv, VarsFit, storeVars
<1> QED
  BY <1>1, <1>4, <1>5, HandlerMoves

LEMMA HandlerKnows ==
  ASSUME HandlersInv, NEW p \in Procs
  PROVE  /\ LocalsFit(pc[p], loc[p], Owner, Shown)
         /\ pc[p] \in Querying \union Pressing \union WithSession => loc[p].chat \in Chats
         /\ pc[p] \in WithSession =>
              loc[p].s \in Allocated /\ heap[loc[p].s].chat = loc[p].chat
BY DEF HandlersInv, HandlersFit, LocalsFit, At, Owner

LEMMA ForgetFits ==
  ASSUME HandlersInv, StoreInv', UNCHANGED <<heap, tg>>, NEW p \in Procs,
         spinning' \in [Procs -> BOOLEAN], Return(p) \/ Finish(p)
  PROVE  HandlersInv'
<1>1. PICK label \in {"idle", "answer"} :
        pc' = [pc EXCEPT ![p] = label] /\ loc' = [loc EXCEPT ![p] = Idle]
  BY DEF Return, Finish, Goto, Set
<1>2. LocalsFit(label, Idle, Owner, Shown)
  BY IdleFits
<1> QED
  BY <1>1, <1>2, HandlerMoves

-----------------------------------------------------------------------------
(* The handlers, step by step. First those that leave the store alone.      *)
LEMMA CallbackStepsFit ==
  ASSUME HandlersInv, NEW p \in Procs,
         IgnorePress(p) \/ Repaint(p) \/ Dropped(p) \/ Answer(p)
           \/ Report(p) \/ ReportFailure(p) \/ ServePages(p) \/ Serve(p)
  PROVE  HandlersInv'
<1> USE HandlerKnows DEF WithSession, Compiling
<1>1. UNCHANGED <<heap, tg>> /\ UNCHANGED storeVars /\ StoreInv'
  BY NextKeeps DEF IgnorePress, Repaint, Dropped, Answer, Report, ReportFailure, ServePages, Serve,
                   storeVars, HandlersInv
<1>2. CASE IgnorePress(p)
  BY <1>1, <1>2, ForgetFits DEF IgnorePress, HandlersInv, VarsFit
<1>3. CASE Repaint(p)
  <2>1. PICK panel : LastEdit(p, loc[p].s, Panel(heap[loc[p].s], panel))
    BY <1>3 DEF Repaint
  <2> QED
    BY <1>1, <1>3, <2>1, PanelIsButtons, LastEditFits DEF Repaint
<1>4. CASE Dropped(p)
  <2>1. {} \in SUBSET Buttons
    OBVIOUS
  <2> QED
    BY <1>1, <1>4, <2>1, LastEditFits DEF Dropped
<1>5. CASE Answer(p)
  BY <1>1, <1>5, ForgetFits DEF Answer, HandlersInv, VarsFit
<1>6. CASE Report(p)
  BY <1>1, <1>6, MainPanelIsButtons, LastEditFits DEF Report
<1>7. CASE ReportFailure(p)
  BY <1>1, <1>7, MainPanelIsButtons, LastEditFits DEF ReportFailure
<1>8. CASE ServePages(p)
  BY <1>1, <1>8, MainPanelIsButtons, LastEditFits DEF ServePages
<1>9. CASE Serve(p)
  <2>1. CASE LastEdit(p, loc[p].s, Panel(heap[loc[p].s], "rel"))
    BY <1>1, <1>9, <2>1, PanelIsButtons, LastEditFits DEF Serve
  <2>2. CASE Goto(p, "servePages") /\ UNCHANGED loc
    <3>1. /\ pc' = [pc EXCEPT ![p] = "servePages"] /\ loc' = [loc EXCEPT ![p] = loc[p]]
          /\ pc[p] = "serve" /\ spinning' \in [Procs -> BOOLEAN]
      BY <1>9, <2>2 DEF Serve, Goto, HandlersInv, VarsFit
    <3>2. LocalsFit("servePages", loc[p], Owner, Shown)
      BY <3>1 DEF LocalsFit, At, Labels, Querying, Pressing, WithMessage
    <3> QED
      BY <1>1, <3>1, <3>2, HandlerMoves
  <2> QED
    BY <1>9, <2>1, <2>2 DEF Serve
<1> QED
  BY <1>2, <1>3, <1>4, <1>5, <1>6, <1>7, <1>8, <1>9

(* compileAndSend reads one field after the other. What it reads may be what *)
(* no update ever wrote, and is only used as far as the catalog knows it.    *)
LEMMA CompileBeginsFits ==
  ASSUME HandlersInv, NEW p \in Procs, Compile(p)
  PROVE  HandlersInv'
<1> USE HandlerKnows DEF WithSession, Compiling
<1>1. /\ UNCHANGED <<heap, tg>> /\ StoreInv' /\ spinning' \in [Procs -> BOOLEAN]
      /\ pc[p] = "compile"
  BY NextKeeps DEF Compile, storeVars, HandlersInv, VarsFit
<1>2. CASE Goto(p, "compileLanguage") /\ UNCHANGED loc
  <2>1. /\ pc' = [pc EXCEPT ![p] = "compileLanguage"] /\ loc' = [loc EXCEPT ![p] = loc[p]]
    BY <1>2 DEF Goto, HandlersInv, VarsFit
  <2>2. LocalsFit("compileLanguage", loc[p], Owner, Shown)
    BY <1>1 DEF LocalsFit, At, Labels, Querying, Pressing, WithMessage
  <2> QED
    BY <1>1, <2>1, <2>2, HandlerMoves
<1>3. CASE Finish(p)
  BY <1>1, <1>3, ForgetFits
<1>4. CASE \E release \in Release :
             Goto(p, "serve") /\ Set(p, [loc[p] EXCEPT !.release = release])
  <2>1. PICK release \in Release :
          /\ pc' = [pc EXCEPT ![p] = "serve"]
          /\ loc' = [loc EXCEPT ![p] = [loc[p] EXCEPT !.release = release]]
    BY <1>4 DEF Goto, Set
  <2>2. LocalsFit("serve", [loc[p] EXCEPT !.release = release], Owner, Shown)
    BY <1>1 DEF LocalsFit, At, Labels, Querying, Pressing, WithMessage, Locals
  <2> QED
    BY <1>1, <2>1, <2>2, HandlerMoves
<1>5. QED
  <2> DEFINE chosen == FindRelease(Java, heap[loc[p].s].release)
             release == IF chosen # Nil THEN chosen ELSE NewestStocked(Java, Stocked)
  <2>1. release # Nil => release \in Release
    BY FindReleaseFinds, NewestStockedFinds, ReleasesAreTyped
  <2> HIDE DEF release
  <2>2. \/ Goto(p, "compileLanguage") /\ UNCHANGED loc
        \/ Finish(p)
        \/ release # Nil /\ Goto(p, "serve") /\ Set(p, [loc[p] EXCEPT !.release = release])
    BY DEF Compile, release
  <2> QED
    BY <1>2, <1>3, <1>4, <2>1, <2>2

LEMMA CompileChoosesFit ==
  ASSUME HandlersInv, NEW p \in Procs,
         CompileLanguage(p) \/ CompileRelease(p) \/ CompileTarget(p)
  PROVE  HandlersInv'
<1> USE HandlerKnows DEF WithSession, Compiling
<1>1. /\ UNCHANGED <<heap, tg>> /\ UNCHANGED storeVars /\ StoreInv'
      /\ spinning' \in [Procs -> BOOLEAN]
  BY NextKeeps
  DEF CompileLanguage, CompileRelease, CompileTarget, storeVars, HandlersInv, VarsFit
<1>2. CASE CompileLanguage(p)
  <2>1. CASE LastEdit(p, loc[p].s, Panel(heap[loc[p].s], "lang"))
    BY <1>1, <1>2, <2>1, PanelIsButtons, LastEditFits DEF CompileLanguage
  <2>2. ASSUME NEW language, Known(language),
               Goto(p, "compileRelease"), Set(p, [loc[p] EXCEPT !.language = language])
        PROVE  HandlersInv'
    <3>1. pc' = [pc EXCEPT ![p] = "compileRelease"]
          /\ loc' = [loc EXCEPT ![p] = [loc[p] EXCEPT !.language = language]]
      BY <2>2 DEF Goto, Set
    <3>2. language \in Languages /\ pc[p] = "compileLanguage"
      BY <1>2, <2>2, ReleasesAreTyped, HandlersAssumption DEF HandlersAssumption, CompileLanguage
    <3>3. LocalsFit("compileRelease", [loc[p] EXCEPT !.language = language], Owner, Shown)
      BY <2>2, <3>2 DEF LocalsFit, At, Labels, Querying, Pressing, WithMessage, Locals
    <3> QED
      BY <1>1, <3>1, <3>3, HandlerMoves
  <2> QED
    BY <1>2, <2>1, <2>2 DEF CompileLanguage
<1>3. CASE CompileRelease(p)
  <2>1. PICK id :
          /\ pc[p] = "compileRelease" /\ pc' = [pc EXCEPT ![p] = "compileTarget"]
          /\ loc' = [loc EXCEPT ![p] =
                [loc[p] EXCEPT !.release = ReleaseOrDefault(loc[p].language, id)]]
    BY <1>3 DEF CompileRelease, Goto, Set
  <2> DEFINE r == ReleaseOrDefault(loc[p].language, id)
  <2>2. Known(loc[p].language)
    BY <2>1 DEF LocalsFit, At
  <2>3. r \in ToSet(Releases(loc[p].language)) /\ r \in Release
        /\ loc[p].language \in CatalogLanguages
    BY <2>2, ReleaseOrDefaultIsThere, ReleasesAreTyped
  <2> HIDE DEF r
  <2>4. LocalsFit("compileTarget", [loc[p] EXCEPT !.release = r], Owner, Shown)
    BY <2>1, <2>3 DEF LocalsFit, At, Labels, Querying, Pressing, WithMessage, Locals
  <2> QED
    BY <1>1, <2>1, <2>4, HandlerMoves DEF r
<1>4. CASE CompileTarget(p)
  <2>1. PICK target \in Reads(p, "target") :
          /\ pc[p] = "compileTarget" /\ pc' = [pc EXCEPT ![p] = "announce"]
          /\ loc' = [loc EXCEPT ![p] =
                [loc[p] EXCEPT !.target = TargetOrDefault(loc[p].release, target)]]
    BY <1>4 DEF CompileTarget, Goto, Set
  <2> DEFINE t == TargetOrDefault(loc[p].release, target)
  <2>2. heap[loc[p].s] \in Session /\ loc[p].release \in Release
    BY <2>1, AllocatedIsTyped, ReleasesAreTyped
    DEF HandlersInv, StoreInv, Allocated, LocalsFit, At
  <2>3. target \in TargetIds \union {Nil, Torn}
    BY <2>2 DEF Reads, Session
  <2>4. t \in TargetIds \union {Nil, Torn}
    BY <2>2, <2>3, DefaultTargetFits DEF TargetOrDefault
  <2> HIDE DEF t
  <2>5. LocalsFit("announce", [loc[p] EXCEPT !.target = t], Owner, Shown)
    BY <2>1, <2>4 DEF LocalsFit, At, Labels, Querying, Pressing, WithMessage, Locals
  <2> QED
    BY <1>1, <2>1, <2>5, HandlerMoves DEF t
<1> QED
  BY <1>2, <1>3, <1>4

LEMMA CompileRunsFit ==
  ASSUME HandlersInv, NEW p \in Procs, Announce(p) \/ Run(p)
  PROVE  HandlersInv'
<1> USE HandlerKnows DEF WithSession, Compiling
<1> DEFINE l == loc[p]
<1>1. UNCHANGED <<heap, tg>> /\ StoreInv' /\ spinning' \in [Procs -> BOOLEAN]
  BY NextKeeps DEF Announce, Run, storeVars, HandlersInv, VarsFit
<1>2. CASE Announce(p)
  <2> DEFINE l2 == [l EXCEPT !.edit =
               [to |-> heap[l.s].message, of |-> l.s, keys |-> {}, next |-> "run"]]
  <2>1. pc[p] = "announce" /\ pc' = [pc EXCEPT ![p] = "edit"] /\ loc' = [loc EXCEPT ![p] = l2]
    BY <1>2 DEF Announce, ComposeEdit, Goto, Set
  <2>2. At("run", l, Owner, Shown)
    BY <2>1 DEF LocalsFit, At, Querying, Pressing, WithMessage
  <2>3. LocalsFit("run", l, Owner, Shown)
    <3>1. LocalsFit("announce", l, Owner, Shown)
      BY <2>1
    <3>2. "run" \in Labels
      BY DEF Labels
    <3> QED
      BY <2>2, <3>1, <3>2 DEF LocalsFit
  <2>4. l.s \in Allocated /\ "run" \in Labels /\ {} \in SUBSET Buttons
    BY <2>1 DEF Labels
  <2> HIDE DEF l
  <2>5. LocalsFit("edit", l2, Owner, Shown)
    BY <2>2, <2>3, <2>4, ComposedFits
  <2> QED
    BY <1>1, <2>1, <2>5, HandlerMoves DEF l
<1>3. CASE Run(p)
  <2> DEFINE job == [language |-> l.language, release |-> l.release, target |-> l.target,
               suffix |-> SourceSuffix(heap[l.s].files, l.language),
               command |-> Command(l.language, l.release, l.target)]
  <2>1. /\ pc[p] = "run" /\ l \in Locals
        /\ l.language \in CatalogLanguages /\ l.release \in ToSet(Releases(l.language))
        /\ l.language \in Languages /\ l.release \in Release
    BY <1>3, ReleasesAreTyped, HandlersAssumption DEF HandlersAssumption, Run, LocalsFit, At
  <2>2. ASSUME NEW outcome \in {"report", "reportFailure"}, NEW l2 \in Locals,
               l2.job # Nil => OwnJob(l2.job), l2.s = l.s, l2.chat = l.chat, l2.sent = l.sent,
               pc' = [pc EXCEPT ![p] = outcome], loc' = [loc EXCEPT ![p] = l2]
        PROVE  HandlersInv'
    <3>1. LocalsFit(outcome, l2, Owner, Shown)
      BY <2>1, <2>2 DEF LocalsFit, At, Labels, Querying, Pressing, WithMessage
    <3> QED
      BY <1>1, <2>2, <3>1, HandlerMoves
  <2>3. CASE Accepts(l.s, l.release, l.target)
    <3>1. OwnJob(job)
      <4>1. Supports(l.release, l.target)
        BY <2>3 DEF Accepts
      <4>2. l.language = Java => l.release.id[2] = l.release.major
        BY <2>1, HandlersAssumption DEF HandlersAssumption
      <4> QED
        BY <2>1, <4>1, <4>2 DEF OwnJob, SourceSuffix, Command, Previews
    <3>2. job \in Jobs
      <4>1. l.target \in TargetIds \union {Nil, Torn}
        BY <2>1 DEF Locals
      <4>2. Command(l.language, l.release, l.target) \in Commands
        BY CommandIsTyped
      <4> QED
        BY <2>1, <4>1, <4>2 DEF Jobs, SourceSuffix
    <3> HIDE DEF job
    <3>3. /\ [l EXCEPT !.job = job] \in Locals
          /\ [l EXCEPT !.job = job].job = job /\ [l EXCEPT !.job = job].s = l.s
          /\ [l EXCEPT !.job = job].chat = l.chat /\ [l EXCEPT !.job = job].sent = l.sent
      BY <2>1, <3>2 DEF Locals
    <3>4. PICK outcome \in {"report", "reportFailure"} :
            pc' = [pc EXCEPT ![p] = outcome] /\ loc' = [loc EXCEPT ![p] = [l EXCEPT !.job = job]]
      BY <1>3, <2>3 DEF Run, Goto, Set, job
    <3> QED
      BY <2>2, <3>1, <3>3, <3>4
  <2>4. CASE ~Accepts(l.s, l.release, l.target)
    <3>1. pc' = [pc EXCEPT ![p] = "reportFailure"] /\ loc' = [loc EXCEPT ![p] = l]
      BY <1>3, <2>4 DEF Run, Goto, HandlersInv, VarsFit
    <3>2. l.job # Nil => OwnJob(l.job)
      BY DEF LocalsFit
    <3> QED
      BY <2>1, <2>2, <3>1, <3>2
  <2> QED
    BY <2>3, <2>4
<1> QED
  BY <1>2, <1>3

-----------------------------------------------------------------------------
(* Steps that look a session up or drop it: no session changes.             *)
LEMMA PressFits ==
  ASSUME HandlersInv, NEW p \in Procs, NEW m \in Displayed,
         NEW button \in tg[m].keys \union StrayButtons, Press(p, m, button)
  PROVE  HandlersInv'
<1> DEFINE l == [Idle EXCEPT !.chat = tg[m].chat, !.press = button]
<1>1. /\ UNCHANGED <<heap, tg>> /\ StoreInv' /\ spinning' \in [Procs -> BOOLEAN]
      /\ pc' = [pc EXCEPT ![p] = "press"] /\ loc' = [loc EXCEPT ![p] = l]
  BY NextKeeps DEF Press, storeVars, Goto, Set, HandlersInv, VarsFit
<1>2. tg[m].chat \in Chats /\ button \in Buttons \union StrayButtons
  BY DEF HandlersInv, VarsFit, Displayed, Message
<1>3. LocalsFit("press", l, Owner, Shown)
  BY <1>2
  DEF Idle, Locals, LocalsFit, At, Labels, Querying, Pressing, WithSession, WithMessage, Compiling
<1> QED
  BY <1>1, <1>3, HandlerMoves

LEMMA LookingUpFits ==
  ASSUME HandlersInv, NEW p \in Procs, Get(loc[p].chat), loc[p].chat \in Chats
  PROVE  LET s == GetResult(loc[p].chat) IN
         StoreInv' /\ (s # Nil => s \in DOMAIN Owner /\ Owner[s] = loc[p].chat)
<1>1. StoreInv'
  BY NextKeeps DEF HandlersInv, StoreNext
<1> QED
  BY <1>1 DEF GetResult, Live, HandlersInv, StoreInv, EntryBelongsToChat, Owner

LEMMA LookupStepsFit ==
  ASSUME HandlersInv, NEW p \in Procs, QueryGet(p) \/ Callback(p) \/ Discard(p)
  PROVE  HandlersInv'
<1> USE HandlerKnows DEF Querying, Pressing, WithSession, Compiling
<1> DEFINE l == loc[p]
           s == GetResult(l.chat)
<1>1. l \in Locals /\ UNCHANGED <<heap, tg>>
  BY DEF LocalsFit, QueryGet, Get, Callback, Discard, Delete
<1>2. CASE QueryGet(p)
  <2>1. /\ pc[p] = "queryGet" /\ l.chat \in Chats /\ spinning' \in [Procs -> BOOLEAN]
        /\ Get(l.chat)
    BY <1>2 DEF QueryGet, HandlersInv, VarsFit
  <2>2. StoreInv' /\ (s # Nil => s \in DOMAIN Owner /\ Owner[s] = l.chat)
    BY <2>1, LookingUpFits
  <2>3. CASE s = Nil
    BY <1>1, <1>2, <2>1, <2>2, <2>3, ForgetFits DEF QueryGet
  <2>4. CASE s # Nil
    <3>1. /\ pc' = [pc EXCEPT ![p] = "sendName"]
          /\ loc' = [loc EXCEPT ![p] = [l EXCEPT !.s = s]]
      BY <1>2, <2>4 DEF QueryGet, Goto, Set
    <3>2. s \in DOMAIN Owner /\ Owner[s] = l.chat /\ s \in SessionIds
      BY <2>2, <2>4 DEF Owner, Allocated
    <3> HIDE DEF s
    <3>3. LocalsFit("sendName", [l EXCEPT !.s = s], Owner, Shown)
      BY <1>1, <2>1, <3>2 DEF Locals, LocalsFit, At, Labels, WithMessage
    <3> QED
      BY <1>1, <2>1, <2>2, <3>1, <3>3, HandlerMoves
  <2> QED
    BY <2>3, <2>4
<1>3. CASE Callback(p)
  <2>1. /\ pc[p] = "press" /\ l.chat \in Chats /\ spinning' \in [Procs -> BOOLEAN]
        /\ Get(l.chat)
    BY <1>3 DEF Callback, HandlersInv, VarsFit
  <2>2. StoreInv' /\ (s # Nil => s \in DOMAIN Owner /\ Owner[s] = l.chat)
    BY <2>1, LookingUpFits
  <2>3. CASE Finish(p)
    BY <1>1, <2>1, <2>2, <2>3, ForgetFits
  <2>4. ASSUME s # Nil, Dispatch(l.press) # "answer",
               Goto(p, Dispatch(l.press)), Set(p, [l EXCEPT !.s = s])
        PROVE  HandlersInv'
    <3> DEFINE label == Dispatch(l.press)
    <3>1. pc' = [pc EXCEPT ![p] = label] /\ loc' = [loc EXCEPT ![p] = [l EXCEPT !.s = s]]
      BY <2>4 DEF Goto, Set
    <3>2. s \in DOMAIN Owner /\ Owner[s] = l.chat /\ s \in SessionIds
      BY <2>2, <2>4 DEF Owner, Allocated
    <3>3. label \in {"repaint", "update", "compile", "discard"}
      BY <2>4 DEF Dispatch
    <3>4. label = "update" => Dispatch([l EXCEPT !.s = s].press) = "update"
      BY <1>1 DEF Locals
    <3>5. l.press \in Buttons \union StrayButtons
      BY <2>1 DEF LocalsFit, At
    <3> HIDE DEF s, label
    <3>6. LocalsFit(label, [l EXCEPT !.s = s], Owner, Shown)
      BY <1>1, <2>1, <3>2, <3>3, <3>4, <3>5 DEF Locals, LocalsFit, At, Labels, WithMessage
    <3> QED
      BY <1>1, <2>1, <2>2, <3>1, <3>6, HandlerMoves
  <2> QED
    BY <1>3, <2>3, <2>4 DEF Callback
<1>4. CASE Discard(p)
  <2>1. /\ pc[p] = "discard" /\ l.chat \in Chats /\ spinning' \in [Procs -> BOOLEAN]
        /\ Delete(l.chat)
        /\ pc' = [pc EXCEPT ![p] = "dropped"] /\ loc' = [loc EXCEPT ![p] = l]
    BY <1>4 DEF Discard, Goto, HandlersInv, VarsFit
  <2>2. StoreInv'
    BY <2>1, NextKeeps DEF StoreNext, HandlersInv
  <2>3. LocalsFit("dropped", l, Owner, Shown)
    BY <2>1 DEF LocalsFit, At, Labels, WithMessage
  <2> QED
    BY <1>1, <2>1, <2>2, <2>3, HandlerMoves
<1> QED
  BY <1>2, <1>3, <1>4

-----------------------------------------------------------------------------
(* Steps that show something.                                               *)
LEMMA SendFits ==
  ASSUME HandlersInv, UNCHANGED <<storeVars, spinning>>, NEW p \in Procs,
         pc[p] \in {"sendKeyboard", "sendName"},
         NEW keys \in SUBSET Buttons, NEW next \in {"storeMessage", "storeName"},
         Send(p, loc[p].s, keys, next)
  PROVE  HandlersInv'
<1> USE HandlerKnows DEF Querying, Pressing, WithSession, Compiling
<1> DEFINE l == loc[p]
<1>1. /\ StoreInv' /\ spinning' \in [Procs -> BOOLEAN] /\ UNCHANGED heap
      /\ Owner' = Owner /\ Allocated' = Allocated
      /\ l \in Locals /\ l.chat \in Chats /\ l.s \in Allocated /\ heap[l.s].chat = l.chat
  BY NextKeeps DEF HandlersInv, VarsFit, storeVars, Owner, Allocated, LocalsFit
<1>2. CASE UNCHANGED tg /\ Return(p)
  BY <1>1, <1>2, ForgetFits
<1>3. ASSUME NEW m \in MessageIds \ Displayed,
             tg' = [tg EXCEPT ![m] = [chat |-> l.chat, owner |-> l.s, of |-> l.s, keys |-> keys]],
             Goto(p, next), Set(p, [l EXCEPT !.sent = m])
      PROVE  HandlersInv'
  <2> DEFINE message == [chat |-> l.chat, owner |-> l.s, of |-> l.s, keys |-> keys]
  <2>1. message \in Message /\ message # Nil
    BY <1>1, HandlersAssumption DEF Message, HandlersAssumption, Allocated
  <2>2. message.chat = l.chat /\ message.owner = l.s /\ message.of = l.s
    OBVIOUS
  <2> HIDE DEF message
  <2>3. /\ tg' = [tg EXCEPT ![m] = message] /\ tg' \in [MessageIds -> Message \union {Nil}]
        /\ Displayed' = Displayed \union {m}
    BY <1>3, <2>1 DEF Displayed, HandlersInv, VarsFit, message
  <2>4. /\ tg'[m] = message /\ \A n \in Displayed : n # m /\ tg'[n] = tg[n]
    BY <1>3, <2>3 DEF HandlersInv, VarsFit, Displayed
  <2>5. ScreensFit'
    BY <1>1, <2>2, <2>3, <2>4 DEF HandlersInv, ScreensFit
  <2>6. Extends(Owner, Owner') /\ Extends(Shown, Shown')
    BY <1>1, <2>3, <2>4 DEF Extends, Shown
  <2>7. m \in DOMAIN Shown' /\ Shown'[m] = l.chat
    BY <2>2, <2>3, <2>4 DEF Shown
  <2>8. LocalsFit(pc[p], l, Owner', Shown')
    BY <2>6, LocalsStay
  <2>9. LocalsFit(next, [l EXCEPT !.sent = m], Owner', Shown')
    BY <1>1, <2>7, <2>8 DEF Locals, LocalsFit, At, Labels, WithMessage
  <2>10. pc' = [pc EXCEPT ![p] = next] /\ loc' = [loc EXCEPT ![p] = [l EXCEPT !.sent = m]]
    BY <1>3 DEF Goto, Set
  <2>11. HandlersFit' /\ pc' \in [Procs -> Labels] /\ loc' \in [Procs -> Locals]
    BY <2>6, <2>9, <2>10, OthersFit DEF HandlersInv
  <2> QED
    BY <1>1, <2>3, <2>5, <2>11 DEF HandlersInv, VarsFit
<1> QED
  BY <1>2, <1>3 DEF Send

LEMMA EditFitsIn ==
  ASSUME HandlersInv, NEW p \in Procs, Edit(p)
  PROVE  HandlersInv'
<1> DEFINE l == loc[p]
           e == l.edit
<1>1. /\ StoreInv' /\ spinning' \in [Procs -> BOOLEAN] /\ UNCHANGED heap
      /\ Owner' = Owner /\ Allocated' = Allocated
      /\ pc' = [pc EXCEPT ![p] = e.next] /\ loc' = [loc EXCEPT ![p] = [l EXCEPT !.edit = Nil]]
  BY NextKeeps DEF Edit, Goto, Set, HandlersInv, VarsFit, storeVars, Owner, Allocated
<1>2. LocalsFit("edit", l, Owner, Shown) /\ l \in Locals
  BY HandlerKnows DEF Edit, LocalsFit
<1>3. e \in Edits /\ EditFits(e, Owner, Shown) /\ At(e.next, l, Owner, Shown)
  BY <1>2 DEF LocalsFit, EditFits
<1>4. e.next \in {"idle", "answer", "run"} /\ e.of \in SessionIds /\ e.keys \in SUBSET Buttons
  BY <1>3 DEF Edits
<1> DEFINE SameScreen(m) ==
             /\ tg'[m].chat = tg[m].chat /\ tg'[m].owner = tg[m].owner
             /\ \/ tg'[m].of = tg[m].of
                \/ tg'[m].of \in Allocated /\ heap[tg'[m].of].chat = tg[m].chat
<1>5. /\ Displayed' = Displayed /\ tg' \in [MessageIds -> Message \union {Nil}]
      /\ \A m \in Displayed : SameScreen(m)
  <2>1. CASE UNCHANGED tg
    <3>1. Displayed' = Displayed /\ \A m \in Displayed : SameScreen(m)
      BY <2>1 DEF Displayed
    <3> QED
      BY <2>1, <3>1 DEF HandlersInv, VarsFit
  <2>2. CASE e.to \in Displayed /\ tg' = [tg EXCEPT ![e.to].of = e.of, ![e.to].keys = e.keys]
    <3> DEFINE message == [[tg[e.to] EXCEPT !.of = e.of] EXCEPT !.keys = e.keys]
    <3>1. e.to \in MessageIds /\ tg[e.to] \in Message /\ e.to # Nil
      BY <2>2, NilAssumption DEF Displayed, HandlersInv, VarsFit
    <3>2. /\ message \in Message /\ message.of = e.of
          /\ message.chat = tg[e.to].chat /\ message.owner = tg[e.to].owner
      BY <1>4, <3>1 DEF Message
    <3>3. message # Nil
      BY <3>2, HandlersAssumption DEF HandlersAssumption
    <3>4. tg' = [tg EXCEPT ![e.to] = message]
      BY <2>2, <3>1 DEF HandlersInv, VarsFit
    <3>5. e.of \in Allocated /\ heap[e.of].chat = tg[e.to].chat
      BY <1>3, <3>1 DEF EditFits, Owner, Shown
    <3> HIDE DEF message, e
    <3>6. tg'[e.to] = message /\ \A m \in MessageIds \ {e.to} : tg'[m] = tg[m]
      BY <3>1, <3>4 DEF HandlersInv, VarsFit
    <3>7. Displayed' = Displayed /\ \A m \in Displayed : SameScreen(m)
      BY <2>2, <3>2, <3>3, <3>5, <3>6 DEF Displayed
    <3> QED
      BY <3>1, <3>2, <3>4, <3>7 DEF HandlersInv, VarsFit
  <2> QED
    BY <2>1, <2>2 DEF Edit
<1>6. ScreensFit'
  BY <1>1, <1>5 DEF HandlersInv, ScreensFit
<1>7. Shown' = Shown
  BY <1>5 DEF Shown
<1>8. LocalsFit(e.next, [l EXCEPT !.edit = Nil], Owner, Shown)
  BY <1>2, <1>3, <1>4
  DEF Locals, LocalsFit, At, Labels, WithMessage, Querying, Pressing, WithSession, Compiling
<1>9. HandlersFit' /\ pc' \in [Procs -> Labels] /\ loc' \in [Procs -> Locals]
  <2>1. Extends(Owner, Owner') /\ Extends(Shown, Shown')
    BY <1>1, <1>7 DEF Extends
  <2> HIDE DEF e, l
  <2> QED
    BY <1>1, <1>7, <1>8, <2>1, OthersFit DEF HandlersInv
<1> QED
  BY <1>1, <1>5, <1>6, <1>9 DEF HandlersInv, VarsFit

-----------------------------------------------------------------------------
(* Steps that change sessions. None takes a session from its chat, and the   *)
(* message one is given is on that chat's screen.                           *)
MessagesFit ==
  \A s \in Allocated' : heap'[s].message # Nil =>
    \/ s \in Allocated /\ heap'[s].message = heap[s].message
    \/ heap'[s].message \in Displayed /\ tg[heap'[s].message].chat = heap'[s].chat

LEMMA SessionsChange ==
  ASSUME HandlersInv, StoreInv', UNCHANGED <<tg, spinning>>, Extends(Owner, Owner'), MessagesFit,
         NEW p \in Procs, NEW label, NEW l,
         pc' = [pc EXCEPT ![p] = label], loc' = [loc EXCEPT ![p] = l],
         LocalsFit(label, l, Owner', Shown')
  PROVE  HandlersInv'
<1>1. /\ Shown' = Shown /\ Displayed' = Displayed /\ Extends(Shown, Shown')
      /\ spinning' \in [Procs -> BOOLEAN] /\ tg' \in [MessageIds -> Message \union {Nil}]
  BY DEF Shown, Displayed, Extends, HandlersInv, VarsFit
<1>2. \A s \in Allocated : s \in Allocated' /\ heap'[s].chat = heap[s].chat
  BY DEF Extends, Owner
<1>3. ScreensFit'
  <2>1. ASSUME NEW s \in Allocated', heap'[s].message # Nil
        PROVE  heap'[s].message \in Displayed /\ tg[heap'[s].message].chat = heap'[s].chat
    <3>1. CASE s \in Allocated /\ heap'[s].message = heap[s].message
      BY <2>1, <3>1, <1>2 DEF HandlersInv, ScreensFit
    <3> QED
      BY <2>1, <3>1 DEF MessagesFit
  <2>2. ASSUME NEW m \in Displayed
        PROVE  /\ tg[m].owner \in Allocated' /\ heap'[tg[m].owner].chat = tg[m].chat
               /\ tg[m].of \in Allocated' /\ heap'[tg[m].of].chat = tg[m].chat
    BY <1>2 DEF HandlersInv, ScreensFit
  <2> QED
    BY <1>1, <2>1, <2>2 DEF ScreensFit
<1>4. HandlersFit' /\ pc' \in [Procs -> Labels] /\ loc' \in [Procs -> Locals]
  BY <1>1, OthersFit DEF HandlersInv
<1> QED
  BY <1>1, <1>3, <1>4 DEF HandlersInv, VarsFit

LEMMA StartChanges ==
  ASSUME HandlersInv, NEW c \in Chats, NEW s \in SessionIds, NEW l \in Languages,
         NEW files \in {Nil, l}, Start(c, s, files, l)
  PROVE  /\ StoreInv' /\ Extends(Owner, Owner') /\ MessagesFit
         /\ s \in DOMAIN Owner' /\ Owner'[s] = c
<1> DEFINE fresh == NewSession(c, files, l)
<1>1. /\ StoreInv' /\ heap' = [heap EXCEPT ![s] = fresh] /\ s \notin Allocated
      /\ heap \in [SessionIds -> Session \union {Nil}]
  BY StartKeeps DEF Start, HandlersInv, StoreInv, StoreTypeOK
<1>2. fresh \in Session /\ fresh.chat = c /\ fresh.message = Nil
  BY DEF NewSession, Session, HandlersInv, StoreInv, StoreTypeOK
<1> HIDE DEF fresh
<1>3. /\ heap'[s] = fresh /\ \A x \in SessionIds \ {s} : heap'[x] = heap[x]
      /\ Allocated' = Allocated \union {s}
  BY <1>1, <1>2, NilAssumption DEF Allocated
<1>4. MessagesFit
  BY <1>1, <1>2, <1>3 DEF MessagesFit, Allocated
<1> QED
  BY <1>1, <1>2, <1>3, <1>4 DEF Owner, Extends, Allocated

(* A message for the session: the one it has, or one of its chat.           *)
MessageOf(new, old) ==
  \/ new.message = old.message
  \/ new.message \in Displayed /\ tg[new.message].chat = old.chat

LEMMA UpdateChanges ==
  ASSUME HandlersInv, NEW c \in Chats, NEW new, Update(c, new),
         byChat[c] # Nil =>
           Changed(heap[byChat[c]], new) /\ MessageOf(new, heap[byChat[c]])
  PROVE  /\ StoreInv' /\ Owner' = Owner /\ Extends(Owner, Owner') /\ MessagesFit
         /\ byChat[c] # Nil => byChat[c] \in DOMAIN Owner /\ Owner[byChat[c]] = c
<1>1. StoreInv' /\ Allocated' = Allocated
  BY UpdateKeeps DEF HandlersInv
<1>2. byChat[c] # Nil => byChat[c] \in Allocated /\ heap[byChat[c]].chat = c
  BY DEF HandlersInv, StoreInv, EntryBelongsToChat
<1>3. CASE byChat[c] = Nil
  <2>1. heap' = heap
    BY <1>3 DEF Update
  <2> QED
    BY <1>1, <1>3, <2>1 DEF Owner, Extends, MessagesFit
<1>4. CASE byChat[c] # Nil
  <2> DEFINE s == byChat[c]
             stored == [new EXCEPT !.updated = now]
  <2>1. /\ heap' = [heap EXCEPT ![s] = stored] /\ s \in Allocated /\ s \in SessionIds
        /\ heap \in [SessionIds -> Session \union {Nil}]
    BY <1>2, <1>4 DEF Update, HandlersInv, StoreInv, StoreTypeOK, Allocated
  <2>2. stored.chat = heap[s].chat /\ stored.message = new.message
    BY <1>4 DEF Changed, Session
  <2>3. MessageOf(new, heap[s])
    BY <1>4
  <2> HIDE DEF s, stored
  <2>4. heap'[s] = stored /\ \A x \in SessionIds \ {s} : heap'[x] = heap[x]
    BY <2>1
  <2>5. \A x \in Allocated : heap'[x].chat = heap[x].chat
    BY <2>2, <2>4 DEF Allocated
  <2>6. MessagesFit
    BY <1>1, <2>2, <2>3, <2>4 DEF MessagesFit, MessageOf, Allocated
  <2> QED
    BY <1>1, <1>2, <2>5, <2>6 DEF Owner, Extends
<1> QED
  BY <1>3, <1>4

LEMMA WriteChanges ==
  ASSUME HandlersInv, NEW s \in Allocated, NEW m \in Displayed, WriteMessage(s, m),
         tg[m].chat = heap[s].chat
  PROVE  StoreInv' /\ Owner' = Owner /\ Extends(Owner, Owner') /\ MessagesFit
<1>1. s \in SessionIds /\ m \in MessageIds /\ heap[s] \in Session
  BY AllocatedIsTyped DEF Allocated, Displayed, HandlersInv, StoreInv
<1>2. StoreInv' /\ Allocated' = Allocated
  BY <1>1, WriteMessageKeeps DEF HandlersInv
<1> DEFINE written == [heap[s] EXCEPT !.message = m]
<1>3. written.chat = heap[s].chat /\ written.message = m
  BY <1>1 DEF Session
<1>4. heap' = [heap EXCEPT ![s] = written] /\ heap \in [SessionIds -> Session \union {Nil}]
  BY DEF WriteMessage, HandlersInv, StoreInv, StoreTypeOK
<1> HIDE DEF written
<1>5. heap'[s] = written /\ \A x \in SessionIds \ {s} : heap'[x] = heap[x]
  BY <1>1, <1>4
<1>6. \A x \in Allocated : heap'[x].chat = heap[x].chat
  BY <1>3, <1>5 DEF Allocated
<1>7. MessagesFit
  BY <1>2, <1>3, <1>5 DEF MessagesFit, Allocated
<1> QED
  BY <1>2, <1>6, <1>7 DEF Owner, Extends

LEMMA ShownStays ==
  ASSUME UNCHANGED tg
  PROVE  Shown' = Shown /\ Extends(Shown, Shown')
BY DEF Shown, Displayed, Extends

LEMMA StartsFit ==
  ASSUME HandlersInv, NEW p \in Procs, NEW c \in Chats, NEW s \in SessionIds,
         \/ \E language \in Languages : CodeStart(p, c, s, language)
         \/ \E query \in Queries : QueryStart(p, c, s, query)
  PROVE  HandlersInv'
<1> USE DEF Labels, Querying, Pressing, WithSession, WithMessage, Compiling
<1>1. ASSUME NEW language \in Languages, CodeStart(p, c, s, language)
      PROVE  HandlersInv'
  <2> DEFINE l == [Idle EXCEPT !.chat = c, !.s = s]
  <2>1. /\ UNCHANGED <<tg, spinning>> /\ Start(c, s, language, language)
        /\ pc' = [pc EXCEPT ![p] = "sendKeyboard"] /\ loc' = [loc EXCEPT ![p] = l]
    BY <1>1 DEF CodeStart, Goto, Set
  <2>2. /\ StoreInv' /\ Extends(Owner, Owner') /\ MessagesFit
        /\ s \in DOMAIN Owner' /\ Owner'[s] = c
    BY <2>1, StartChanges
  <2>3. LocalsFit("sendKeyboard", l, Owner', Shown')
    BY <2>2 DEF Idle, Locals, LocalsFit, At
  <2> QED
    BY <2>1, <2>2, <2>3, SessionsChange
<1>2. ASSUME NEW query \in Queries, QueryStart(p, c, s, query)
      PROVE  HandlersInv'
  <2> DEFINE r == NewestStocked(Java, Stocked)
             l == [Idle EXCEPT !.chat = c, !.query = query, !.release = r]
  <2>1. /\ UNCHANGED <<tg, spinning>> /\ Start(c, s, Nil, Java) /\ r # Nil
        /\ pc' = [pc EXCEPT ![p] = "queryFill"] /\ loc' = [loc EXCEPT ![p] = l]
    BY <1>2 DEF QueryStart, Goto, Set
  <2>2. StoreInv' /\ Extends(Owner, Owner') /\ MessagesFit
    BY <2>1, StartChanges, HandlersAssumption DEF HandlersAssumption
  <2>3. r \in ToSet(Releases(Java)) /\ r \in Release
    BY <2>1, NewestStockedFinds, ReleasesAreTyped
  <2> HIDE DEF r
  <2>4. LocalsFit("queryFill", l, Owner', Shown')
    BY <2>3 DEF Idle, Locals, LocalsFit, At
  <2> QED
    BY <2>1, <2>2, <2>4, SessionsChange
<1> QED
  BY <1>1, <1>2

(* What an update writes is made from the chat's own session, whatever the   *)
(* button says.                                                             *)
LEMMA SettersChange ==
  ASSUME NEW old \in Session
  PROVE  /\ \A l \in Languages : SetLanguage(old, l) \in Changes(old)
         /\ \A r \in ReleaseIds : SetRelease(old, r) \in Changes(old)
         /\ \A t \in TargetIds : SetTarget(old, t) \in Changes(old)
         /\ \A f \in ViewFlags : ToggleView(old, f) \in Changes(old)
         /\ \A m \in MessageIds : SetMessage(old, m) \in Changes(old)
         /\ \A q \in Queries, r \in ReleaseIds \union {Nil}, t \in TargetIds \union {Nil} :
              SetQuery(old, q, r, t) \in Changes(old)
<1>1. \A l \in Languages : SetLanguage(old, l) \in Changes(old)
  BY DEF Changes
<1>2. \A r \in ReleaseIds : SetRelease(old, r) \in Changes(old)
  BY DEF Changes
<1>3. \A t \in TargetIds : SetTarget(old, t) \in Changes(old)
  BY DEF Changes
<1>4. \A f \in ViewFlags : ToggleView(old, f) \in Changes(old)
  BY DEF Changes
<1>5. \A m \in MessageIds : SetMessage(old, m) \in Changes(old)
  BY DEF Changes
<1>6. \A q \in Queries, r \in ReleaseIds \union {Nil}, t \in TargetIds \union {Nil} :
        SetQuery(old, q, r, t) \in Changes(old)
  <2> DEFINE S == {SetQuery(old, q, r, t) : q \in Queries,
                     r \in ReleaseIds \union {Nil}, t \in TargetIds \union {Nil}}
  <2>1. S \subseteq Changes(old)
    BY DEF Changes
  <2> QED
    BY <2>1
<1> QED
  BY <1>1, <1>2, <1>3, <1>4, <1>5, <1>6

LEMMA SettersKeepMessage ==
  ASSUME NEW old \in Session, NEW x, NEW y, NEW z
  PROVE  /\ SetLanguage(old, x).message = old.message
         /\ SetRelease(old, x).message = old.message
         /\ SetTarget(old, x).message = old.message
         /\ ToggleView(old, x).message = old.message
         /\ SetQuery(old, x, y, z).message = old.message
BY DEF Session, SetLanguage, SetRelease, SetTarget, ToggleView, SetQuery

LEMMA ChangeIsSound ==
  ASSUME NEW old \in Session, NEW press \in Buttons \union StrayButtons, Dispatch(press) = "update"
  PROVE  Change(old, press) \in Changes(old) /\ Change(old, press).message = old.message
<1> USE SettersChange, SettersKeepMessage
<1>1. \/ press.action \in {"lang", "rel", "tgt"}
      \/ press.action = "view" /\ press.value \in ViewFlags
  BY DEF Dispatch
<1>2. /\ press.action = "lang" => press.value \in Languages
      /\ press.action = "rel" => press.value \in ReleaseIds
      /\ press.action = "tgt" => press.value \in TargetIds
  BY HandlersAssumption DEF HandlersAssumption, Buttons
<1>3. CASE press.action = "lang"
  BY <1>2, <1>3 DEF Change
<1>4. CASE press.action = "rel"
  BY <1>2, <1>4 DEF Change
<1>5. CASE press.action = "tgt"
  BY <1>2, <1>5 DEF Change
<1>6. CASE press.action = "view" /\ press.value \in ViewFlags
  BY <1>6 DEF Change
<1> QED
  BY <1>1, <1>3, <1>4, <1>5, <1>6

LEMMA EntryIsTyped ==
  ASSUME HandlersInv, NEW c \in Chats, byChat[c] # Nil
  PROVE  byChat[c] \in SessionIds /\ heap[byChat[c]] \in Session /\ heap[byChat[c]].chat = c
BY AllocatedIsTyped DEF HandlersInv, StoreInv, EntryBelongsToChat, Allocated

(* The three kinds of update that handlers make.                            *)
UpdateOf(p) ==
  LET l == loc[p]
      old == heap[byChat[l.chat]]
  IN  CASE pc[p] = "queryFill" -> SetQuery(old, l.query, l.release.id, DefaultTarget(l.release))
        [] pc[p] = "update" -> Change(old, l.press)
        [] pc[p] \in {"storeMessage", "storeName"} -> SetMessage(old, l.sent)

LEMMA UpdateOfIsSound ==
  ASSUME HandlersInv, NEW p \in Procs,
         pc[p] \in {"queryFill", "update", "storeMessage", "storeName"},
         byChat[loc[p].chat] # Nil
  PROVE  LET old == heap[byChat[loc[p].chat]] IN
         UpdateOf(p) \in Changes(old) /\ Changed(old, UpdateOf(p)) /\ MessageOf(UpdateOf(p), old)
<1> USE HandlerKnows DEF Querying, Pressing, WithSession, WithMessage, Compiling
<1> DEFINE l == loc[p]
           old == heap[byChat[l.chat]]
<1>1. old \in Session /\ old.chat = l.chat
  BY EntryIsTyped
<1> HIDE DEF old
<1>2. CASE pc[p] = "queryFill"
  <2> DEFINE t == DefaultTarget(l.release)
  <2>1. l.query \in Queries /\ l.release \in Release
    BY <1>2, ReleasesAreTyped DEF LocalsFit, At
  <2>2. l.release.id \in ReleaseIds /\ t \in TargetIds \union {Nil}
    BY <2>1, DefaultTargetFits DEF Release
  <2>3. UpdateOf(p) = SetQuery(old, l.query, l.release.id, t)
    BY <1>2 DEF UpdateOf, old
  <2> HIDE DEF t
  <2>4. UpdateOf(p) \in Changes(old) /\ UpdateOf(p).message = old.message
    BY <1>1, <2>1, <2>2, <2>3, SettersChange, SettersKeepMessage
  <2> QED
    BY <1>1, <2>4, ChangesAreSound DEF MessageOf, old
<1>3. CASE pc[p] = "update"
  <2>1. l.press \in Buttons \union StrayButtons /\ Dispatch(l.press) = "update"
    BY <1>3 DEF LocalsFit, At
  <2>2. UpdateOf(p) = Change(old, l.press)
    BY <1>3 DEF UpdateOf, old
  <2>3. UpdateOf(p) \in Changes(old) /\ UpdateOf(p).message = old.message
    BY <1>1, <2>1, <2>2, ChangeIsSound
  <2> QED
    BY <1>1, <2>3, ChangesAreSound DEF MessageOf, old
<1>4. CASE pc[p] \in {"storeMessage", "storeName"}
  <2>1. l.sent \in Displayed /\ l.sent \in MessageIds /\ tg[l.sent].chat = l.chat
    BY <1>4 DEF LocalsFit, At, Shown, Displayed
  <2>2. UpdateOf(p) = SetMessage(old, l.sent)
    BY <1>4 DEF UpdateOf, old
  <2>3. UpdateOf(p) \in Changes(old) /\ UpdateOf(p).message = l.sent
    BY <1>1, <2>1, <2>2, SettersChange DEF SetMessage, Session
  <2> QED
    BY <1>1, <2>1, <2>3, ChangesAreSound DEF MessageOf, old
<1> QED
  BY <1>2, <1>3, <1>4

LEMMA HandlerUpdates ==
  ASSUME NEW p \in Procs,
         QueryFill(p) \/ ApplyPress(p) \/ CodeStoreMessage(p) \/ QueryStoreMessage(p)
  PROVE  /\ pc[p] \in {"queryFill", "update", "storeMessage", "storeName"}
         /\ Update(loc[p].chat, UpdateOf(p)) /\ UNCHANGED <<tg, spinning>>
<1>1. CASE QueryFill(p)
  BY <1>1 DEF QueryFill, UpdateOf
<1>2. CASE ApplyPress(p)
  BY <1>2 DEF ApplyPress, UpdateOf
<1>3. CASE CodeStoreMessage(p)
  BY <1>3 DEF CodeStoreMessage, UpdateOf
<1>4. CASE QueryStoreMessage(p)
  BY <1>4 DEF QueryStoreMessage, UpdateOf
<1> QED
  BY <1>1, <1>2, <1>3, <1>4

LEMMA UpdatesFit ==
  ASSUME HandlersInv, NEW p \in Procs,
         QueryFill(p) \/ ApplyPress(p) \/ CodeStoreMessage(p) \/ QueryStoreMessage(p)
  PROVE  HandlersInv'
<1> USE HandlerKnows DEF Labels, Querying, Pressing, WithSession, WithMessage, Compiling
<1> DEFINE l == loc[p]
           c == l.chat
<1>1. /\ pc[p] \in {"queryFill", "update", "storeMessage", "storeName"}
      /\ Update(c, UpdateOf(p)) /\ UNCHANGED <<tg, spinning>>
  BY HandlerUpdates
<1>2. l \in Locals /\ c \in Chats
  BY <1>1 DEF LocalsFit
<1>3. /\ StoreInv' /\ Owner' = Owner /\ Extends(Owner, Owner') /\ MessagesFit
      /\ byChat[c] # Nil => byChat[c] \in DOMAIN Owner /\ Owner[byChat[c]] = c
  BY <1>1, <1>2, UpdateOfIsSound, UpdateChanges
<1>4. ASSUME NEW label, NEW l2, pc' = [pc EXCEPT ![p] = label], loc' = [loc EXCEPT ![p] = l2],
             LocalsFit(label, l2, Owner, Shown)
      PROVE  HandlersInv'
  BY <1>1, <1>3, <1>4, ShownStays, SessionsChange
<1>5. CASE QueryFill(p)
  <2>1. /\ pc[p] = "queryFill"
        /\ pc' = [pc EXCEPT ![p] = "queryGet"] /\ loc' = [loc EXCEPT ![p] = l]
    BY <1>5 DEF QueryFill, Goto, HandlersInv, VarsFit
  <2>2. LocalsFit("queryGet", l, Owner, Shown)
    BY <2>1 DEF LocalsFit, At
  <2> QED
    BY <1>4, <2>1, <2>2
<1>6. CASE ApplyPress(p)
  <2>1. CASE byChat[c] = Nil
    <3>1. pc' = [pc EXCEPT ![p] = "answer"] /\ loc' = [loc EXCEPT ![p] = Idle]
      BY <1>6, <2>1 DEF ApplyPress, Finish, Goto, Set
    <3> QED
      BY <1>4, <3>1, IdleFits
  <2>2. CASE byChat[c] # Nil
    <3> DEFINE s == byChat[c]
               l2 == [l EXCEPT !.s = s]
    <3>1. /\ pc[p] = "update" /\ pc' = [pc EXCEPT ![p] = "repaint"]
          /\ loc' = [loc EXCEPT ![p] = l2]
      BY <1>6, <2>2 DEF ApplyPress, Goto, Set
    <3>2. s \in DOMAIN Owner /\ Owner[s] = c /\ s \in SessionIds
      BY <1>3, <2>2 DEF Owner, Allocated
    <3> HIDE DEF s
    <3>3. LocalsFit("repaint", l2, Owner, Shown)
      BY <1>2, <3>1, <3>2 DEF Locals, LocalsFit, At
    <3> HIDE DEF l2
    <3> QED
      BY <1>4, <3>1, <3>3
  <2> QED
    BY <2>1, <2>2
<1>7. CASE CodeStoreMessage(p)
  <2>1. pc' = [pc EXCEPT ![p] = "idle"] /\ loc' = [loc EXCEPT ![p] = Idle]
    BY <1>7 DEF CodeStoreMessage, Return, Goto, Set
  <2> QED
    BY <1>4, <2>1, IdleFits
<1>8. CASE QueryStoreMessage(p)
  <2>1. /\ pc[p] = "storeName"
        /\ pc' = [pc EXCEPT ![p] = "writeName"] /\ loc' = [loc EXCEPT ![p] = l]
    BY <1>8 DEF QueryStoreMessage, Goto, HandlersInv, VarsFit
  <2>2. LocalsFit("writeName", l, Owner, Shown)
    BY <2>1 DEF LocalsFit, At
  <2> HIDE DEF l
  <2> QED
    BY <1>4, <2>1, <2>2
<1> QED
  BY <1>5, <1>6, <1>7, <1>8

LEMMA WriteFits ==
  ASSUME HandlersInv, NEW p \in Procs, QueryWriteMessage(p)
  PROVE  HandlersInv'
<1> USE HandlerKnows DEF Labels, Querying, Pressing, WithSession, WithMessage, Compiling
<1> DEFINE l == loc[p]
           l2 == [l EXCEPT !.sent = Nil, !.query = Nil]
<1>1. /\ l \in Locals /\ UNCHANGED <<tg, spinning>> /\ l.chat \in Chats
      /\ l.sent \in Displayed /\ tg[l.sent].chat = l.chat
      /\ l.s \in Allocated /\ heap[l.s].chat = l.chat
  BY DEF LocalsFit, At, QueryWriteMessage, Shown
<1>2. /\ pc' = [pc EXCEPT ![p] = "serve"] /\ loc' = [loc EXCEPT ![p] = l2]
      /\ pc[p] = "writeName" /\ WriteMessage(l.s, l.sent)
  BY DEF QueryWriteMessage, Goto, Set
<1>3. StoreInv' /\ Owner' = Owner /\ Extends(Owner, Owner') /\ MessagesFit
  BY <1>1, <1>2, WriteChanges
<1>4. l2 \in Locals /\ l2.s = l.s /\ l2.sent = Nil /\ l2.job = l.job /\ l2.chat = l.chat
  BY <1>1 DEF Locals
<1> HIDE DEF l2
<1>5. LocalsFit("serve", l2, Owner, Shown)
  BY <1>1, <1>2, <1>4 DEF LocalsFit, At
<1> QED
  BY <1>1, <1>2, <1>3, <1>5, ShownStays, SessionsChange

-----------------------------------------------------------------------------
(* The whole bot.                                                           *)
LEMMA StepKeepsInv ==
  ASSUME HandlersInv, NEW p \in Procs, Step(p)
  PROVE  HandlersInv'
<1>1. CASE CodeSend(p)
  BY <1>1, MainPanelIsButtons, SendFits DEF CodeSend
<1>2. CASE QuerySend(p)
  <2>1. {} \in SUBSET Buttons
    OBVIOUS
  <2> QED
    BY <1>2, <2>1, SendFits DEF QuerySend
<1>3. CASE QueryWriteMessage(p)
  BY <1>3, WriteFits
<1>4. CASE QueryFill(p) \/ ApplyPress(p) \/ CodeStoreMessage(p) \/ QueryStoreMessage(p)
  BY <1>4, UpdatesFit
<1>5. CASE QueryGet(p) \/ Callback(p) \/ Discard(p)
  BY <1>5, LookupStepsFit
<1>6. CASE IgnorePress(p) \/ Repaint(p) \/ Dropped(p) \/ Answer(p)
             \/ Report(p) \/ ReportFailure(p) \/ ServePages(p) \/ Serve(p)
  BY <1>6, CallbackStepsFit
<1>7. CASE Compile(p)
  BY <1>7, CompileBeginsFits
<1>8. CASE CompileLanguage(p) \/ CompileRelease(p) \/ CompileTarget(p)
  BY <1>8, CompileChoosesFit
<1>9. CASE Announce(p) \/ Run(p)
  BY <1>9, CompileRunsFit
<1>10. CASE Edit(p)
  BY <1>10, EditFitsIn
<1> QED
  BY <1>1, <1>2, <1>3, <1>4, <1>5, <1>6, <1>7, <1>8, <1>9, <1>10 DEF Step

\* Sweeps, the clock and crashes change no session, and handlers only in a crash.
LEMMA OutsideKeepsInv ==
  ASSUME HandlersInv, UNCHANGED <<heap, tg>>, StoreInv',
         \/ UNCHANGED <<pc, loc, spinning>>
         \/ /\ pc' = [p \in Procs |-> "idle"]
            /\ loc' = [p \in Procs |-> Idle]
            /\ spinning' = [p \in Procs |-> FALSE]
  PROVE  HandlersInv'
<1>1. Owner' = Owner /\ Shown' = Shown /\ Allocated' = Allocated /\ Displayed' = Displayed
  BY DEF Owner, Shown, Allocated, Displayed
<1>2. ScreensFit'
  BY <1>1 DEF HandlersInv, ScreensFit
<1>3. CASE UNCHANGED <<pc, loc, spinning>>
  BY <1>1, <1>2, <1>3 DEF HandlersInv, HandlersFit, VarsFit
<1>4. CASE /\ pc' = [p \in Procs |-> "idle"]
           /\ loc' = [p \in Procs |-> Idle]
           /\ spinning' = [p \in Procs |-> FALSE]
  <2>1. LocalsFit("idle", Idle, Owner', Shown')
    BY IdleFits
  <2>2. Idle \in Locals /\ "idle" \in Labels
    BY <2>1 DEF LocalsFit
  <2> QED
    BY <1>2, <1>4, <2>1, <2>2 DEF HandlersInv, HandlersFit, VarsFit
<1> QED
  BY <1>3, <1>4

LEMMA NextKeepsHandlers ==
  ASSUME HandlersInv, [Next]_vars
  PROVE  HandlersInv'
<1>1. ASSUME NEW p \in Procs, Step(p)
      PROVE  HandlersInv'
  BY <1>1, StepKeepsInv
<1>2. ASSUME NEW p \in Procs, NEW c \in Chats, NEW s \in SessionIds, NEW l \in Languages,
             CodeStart(p, c, s, l)
      PROVE  HandlersInv'
  BY <1>2, StartsFit
<1>3. ASSUME NEW p \in Procs, NEW c \in Chats, NEW s \in SessionIds, NEW q \in Queries,
             QueryStart(p, c, s, q)
      PROVE  HandlersInv'
  BY <1>3, StartsFit
<1>4. ASSUME NEW p \in Procs, NEW m \in Displayed, NEW button \in tg[m].keys \union StrayButtons,
             Press(p, m, button)
      PROVE  HandlersInv'
  BY <1>4, PressFits
<1>5. CASE (Sweep \/ Tick) /\ UNCHANGED handlerVars
  <2>1. StoreInv'
    BY <1>5, NextKeeps DEF StoreNext, HandlersInv
  <2> QED
    BY <1>5, <2>1, OutsideKeepsInv DEF Sweep, Tick, handlerVars
<1>6. CASE Crash
  <2>1. StoreInv'
    BY <1>6, NextKeeps DEF Crash, StoreNext, HandlersInv
  <2> QED
    BY <1>6, <2>1, OutsideKeepsInv DEF Crash, Restart
<1>7. CASE UNCHANGED vars
  <2>1. StoreInv'
    BY <1>7, NextKeeps DEF vars, storeVars, HandlersInv
  <2> QED
    BY <1>7, <2>1, OutsideKeepsInv DEF vars
<1> QED
  BY <1>1, <1>2, <1>3, <1>4, <1>5, <1>6, <1>7 DEF Next

LEMMA HandlersInitHolds == Init => HandlersInv
<1> SUFFICES ASSUME Init PROVE HandlersInv
  OBVIOUS
<1>1. StoreInv
  BY InitHolds DEF Init
<1>2. ScreensFit
  BY DEF Init, StoreInit, ScreensFit, Allocated, Displayed
<1>3. LocalsFit("idle", Idle, Owner, Shown) /\ Idle \in Locals /\ "idle" \in Labels
  BY IdleFits DEF LocalsFit
<1>4. HandlersFit /\ VarsFit
  BY <1>3 DEF Init, HandlersFit, VarsFit
<1> QED
  BY <1>1, <1>2, <1>4 DEF HandlersInv

(* Whatever handlers run at once, and wherever the process dies.            *)
THEOREM HandlersInvariant == Spec => []HandlersInv
<1> QED
  BY HandlersInitHolds, NextKeepsHandlers, PTL DEF Spec

(* Types of the store and of what handlers and screens refer to.            *)
THEOREM HandlersTypeCorrect == Spec => []HandlersTypeOK
<1>1. HandlersInv => HandlersTypeOK
  <2> SUFFICES ASSUME HandlersInv PROVE HandlersTypeOK
    OBVIOUS
  <2>1. ASSUME NEW p \in Procs
        PROVE  /\ loc[p].chat \in Chats \union {Nil}
               /\ loc[p].s \in Allocated \union {Nil}
               /\ loc[p].sent \in Displayed \union {Nil}
    BY DEF HandlersInv, HandlersFit, LocalsFit, Locals, Owner, Shown
  <2> QED
    BY <2>1 DEF HandlersTypeOK, HandlersInv, StoreInv, VarsFit, ScreensFit
<1> QED
  BY <1>1, HandlersInvariant, PTL

(* No order of edits puts one chat's session on another chat's screen.      *)
THEOREM ScreensStayApart == Spec => []ChatsDoNotMix
<1>1. HandlersInv => ChatsDoNotMix
  BY DEF HandlersInv, ScreensFit, ChatsDoNotMix
<1> QED
  BY <1>1, HandlersInvariant, PTL

(* Whatever presses, torn reads and stale keyboards a compile picks up, it   *)
(* runs a release of its own language at a level that release has.          *)
THEOREM CompilersGetTheirOwn == Spec => []CompilerGetsItsOwn
<1>1. HandlersInv => CompilerGetsItsOwn
  BY DEF HandlersInv, HandlersFit, LocalsFit, OwnJob, CompilerGetsItsOwn
<1> QED
  BY <1>1, HandlersInvariant, PTL

-----------------------------------------------------------------------------
(* Refinement: every call of the store a handler makes is one SessionStore   *)
(* allows.                                                                  *)
LEMMA UpdateImplements ==
  ASSUME HandlersInv, NEW p \in Procs,
         QueryFill(p) \/ ApplyPress(p) \/ CodeStoreMessage(p) \/ QueryStoreMessage(p)
  PROVE  StoreNext
<1> DEFINE c == loc[p].chat
<1>1. /\ pc[p] \in {"queryFill", "update", "storeMessage", "storeName"}
      /\ Update(c, UpdateOf(p))
  BY HandlerUpdates
<1>2. c \in Chats
  BY <1>1, HandlerKnows DEF Querying, Pressing, WithSession
<1>3. Updates(c)
  <2>1. CASE byChat[c] = Nil
    <3>1. UNCHANGED <<heap, byChat, now>>
      BY <1>1, <2>1 DEF Update
    <3>2. Update(c, Nil)
      BY <2>1, <3>1 DEF Update
    <3> QED
      BY <2>1, <3>2 DEF Updates
  <2>2. CASE byChat[c] # Nil
    BY <1>1, <2>2, UpdateOfIsSound DEF Updates
  <2> QED
    BY <2>1, <2>2
<1> QED
  BY <1>2, <1>3 DEF StoreNext

LEMMA StepImplements ==
  ASSUME HandlersInv, NEW p \in Procs, Step(p)
  PROVE  [StoreNext]_storeVars
<1> USE HandlerKnows DEF Querying, Pressing, WithSession
<1>1. CASE QueryFill(p) \/ ApplyPress(p) \/ CodeStoreMessage(p) \/ QueryStoreMessage(p)
  BY <1>1, UpdateImplements
<1>2. CASE QueryGet(p)
  BY <1>2 DEF QueryGet, StoreNext
<1>3. CASE Callback(p)
  BY <1>3 DEF Callback, StoreNext
<1>4. CASE Discard(p)
  BY <1>4 DEF Discard, StoreNext
<1>5. CASE QueryWriteMessage(p)
  <2>1. WriteMessage(loc[p].s, loc[p].sent) /\ loc[p].sent \in MessageIds
    BY <1>5 DEF QueryWriteMessage, LocalsFit, At, WithMessage, Shown, Displayed
  <2>2. loc[p].s \in SessionIds
    BY <2>1 DEF WriteMessage, Allocated
  <2> QED
    BY <2>1, <2>2 DEF StoreNext
<1>6. CASE UNCHANGED storeVars
  BY <1>6
<1> QED
  BY <1>1, <1>2, <1>3, <1>4, <1>5, <1>6
  DEF Step, CodeSend, QuerySend, IgnorePress, Repaint, Dropped, Compile, CompileLanguage,
      CompileRelease, CompileTarget, Announce, Run, Report, ReportFailure, Serve, ServePages,
      Edit, Answer

LEMMA NextImplementsStore ==
  ASSUME HandlersInv, [Next]_vars
  PROVE  [StoreNext]_storeVars
<1>1. ASSUME NEW p \in Procs, Step(p)
      PROVE  [StoreNext]_storeVars
  BY <1>1, StepImplements
<1>2. ASSUME NEW p \in Procs, NEW c \in Chats, NEW s \in SessionIds, NEW l \in Languages,
             CodeStart(p, c, s, l)
      PROVE  StoreNext
  BY <1>2 DEF CodeStart, StoreNext
<1>3. ASSUME NEW p \in Procs, NEW c \in Chats, NEW s \in SessionIds, NEW q \in Queries,
             QueryStart(p, c, s, q)
      PROVE  StoreNext
  BY <1>3, HandlersAssumption DEF HandlersAssumption, QueryStart, StoreNext
<1>4. ASSUME NEW p \in Procs, NEW m \in Displayed, NEW button \in tg[m].keys \union StrayButtons,
             Press(p, m, button)
      PROVE  UNCHANGED storeVars
  BY <1>4 DEF Press
<1>5. CASE (Sweep \/ Tick) /\ UNCHANGED handlerVars
  BY <1>5 DEF StoreNext
<1>6. CASE Crash
  BY <1>6 DEF Crash, StoreNext
<1>7. CASE UNCHANGED vars
  BY <1>7 DEF vars, storeVars
<1> QED
  BY <1>1, <1>2, <1>3, <1>4, <1>5, <1>6, <1>7 DEF Next

(* The bot uses the store as SessionStore allows, so that what is proved of  *)
(* the store holds while the bot runs.                                      *)
THEOREM HandlersImplementStore == Spec => ImplementsStore
<1>1. Init => StoreInit
  BY DEF Init
<1> QED
  BY <1>1, NextImplementsStore, HandlersInvariant, PTL DEF Spec, ImplementsStore

(* Down to the slot: while the bot runs and crashes, a snippet that a chat   *)
(* replaced, discarded or let expire is never served to it again.           *)
THEOREM HandlersImplementSlot == Spec => ImplementsSlot
<1>1. Init => Slot!SlotInit
  BY InitImplements DEF Init
<1>2. HandlersInv /\ [StoreNext]_storeVars => [Slot!SlotNext]_(Slot!slotVars)
  BY NextImplements DEF HandlersInv
<1> QED
  BY <1>1, <1>2, NextImplementsStore, HandlersInvariant, PTL
  DEF Spec, ImplementsSlot, Slot!SlotSpec

-----------------------------------------------------------------------------
(* What becomes of a session's message. A handler that sets a session up has *)
(* it by the chat, and another may have put its own there: from then on the  *)
(* two are mixed, and either may get the other's message, class name and     *)
(* text. What is shown is that nothing goes from one session to another      *)
(* unless both are mixed: they go together.                                  *)
Together(m, s, t) == s = t \/ (s \in m /\ t \in m)

PairedIn(m) ==
  /\ \A s \in Allocated \ m : HasOneKind(s)
  /\ \A s \in Allocated : heap[s].message # Nil =>
       Together(m, s, tg[heap[s].message].owner)
  /\ \A x \in Displayed : Together(m, tg[x].of, tg[x].owner)

SetsUp == {"sendKeyboard", "storeMessage", "sendName", "storeName"}

(* What a handler at a label goes by: l are its variables, s is the session  *)
(* its chat has, with these files, and owner tells whose a message is.      *)
GoesBy(m, label, l, s, files, owner) ==
  /\ label = "queryFill" => s = Nil \/ s \in m \/ files = Nil
  /\ label \in SetsUp => s = Nil \/ Together(m, s, l.s)
  /\ label \in WithMessage => owner[l.sent] = l.s
  /\ label = "edit" /\ l.edit.to # Nil => Together(m, l.edit.of, owner[l.edit.to])

Senders == [x \in Displayed |-> tg[x].owner]

FollowsIn(m, p) ==
  LET s == byChat[loc[p].chat] IN
  GoesBy(m, pc[p], loc[p], s, heap[s].files, Senders)

HistoryInv == PairedIn(mixed) /\ \A p \in Procs : FollowsIn(mixed, p)

(* A handler goes on by the same while others add to the mixed sessions and  *)
(* to the messages, and take its chat's session away, or put one in its      *)
(* place that is mixed with its own.                                        *)
LEMMA GoesByStays ==
  ASSUME NEW m, NEW m2, m \subseteq m2, NEW label, NEW l, NEW s, NEW s2,
         NEW files, NEW files2, NEW owner, NEW owner2, Extends(owner, owner2),
         label \in WithMessage => l.sent \in DOMAIN owner,
         label = "edit" /\ l.edit.to # Nil => l.edit.to \in DOMAIN owner,
         \/ s2 = Nil
         \/ s2 = s /\ (files = Nil => files2 = Nil)
         \/ label \in SetsUp \union {"queryFill"} =>
              s2 \in m2 /\ (label \in SetsUp => l.s \in m2),
         GoesBy(m, label, l, s, files, owner)
  PROVE  GoesBy(m2, label, l, s2, files2, owner2)
<1>1. label = "queryFill" => s2 = Nil \/ s2 \in m2 \/ files2 = Nil
  BY DEF GoesBy
<1>2. label \in SetsUp => s2 = Nil \/ Together(m2, s2, l.s)
  BY DEF GoesBy, Together
<1>3. label \in WithMessage => owner2[l.sent] = l.s
  BY DEF GoesBy, Extends
<1>4. label = "edit" /\ l.edit.to # Nil => Together(m2, l.edit.of, owner2[l.edit.to])
  BY DEF GoesBy, Together, Extends
<1> QED
  BY <1>1, <1>2, <1>3, <1>4 DEF GoesBy

LEMMA SendersKnown ==
  ASSUME HandlersInv, NEW q \in Procs
  PROVE  /\ pc[q] \in WithMessage => loc[q].sent \in DOMAIN Senders
         /\ pc[q] = "edit" /\ loc[q].edit.to # Nil => loc[q].edit.to \in DOMAIN Senders
<1>1. DOMAIN Senders = DOMAIN Shown
  BY DEF Senders, Shown
<1> QED
  BY <1>1, HandlerKnows DEF LocalsFit, At, EditFits

(* What any step but a Start leaves to the handlers that do not take it.     *)
Settled ==
  /\ \A c \in Chats : byChat'[c] \in {byChat[c], Nil}
  /\ \A s \in Allocated : heap[s].files = Nil => heap'[s].files = Nil
  /\ Extends(Senders, Senders')

LEMMA OthersFollow ==
  ASSUME HandlersInv, mixed \subseteq mixed', Settled, NEW q \in Procs,
         FollowsIn(mixed, q), pc'[q] = pc[q], loc'[q] = loc[q]
  PROVE  FollowsIn(mixed, q)'
<1> DEFINE l == loc[q]
           s == byChat[l.chat]
           s2 == byChat'[l.chat]
<1>1. GoesBy(mixed, pc[q], l, s, heap[s].files, Senders)
  BY DEF FollowsIn
<1>2. \/ s2 = Nil
      \/ s2 = s /\ (heap[s].files = Nil => heap'[s2].files = Nil)
      \/ pc[q] \notin SetsUp \union {"queryFill"}
  <2> SUFFICES ASSUME s2 # Nil, pc[q] \in SetsUp \union {"queryFill"}
               PROVE  s2 = s /\ (heap[s].files = Nil => heap'[s2].files = Nil)
    OBVIOUS
  <2>1. l.chat \in Chats
    BY HandlerKnows DEF SetsUp, WithSession, Querying
  <2>2. s2 = s
    BY <2>1 DEF Settled
  <2>3. s \in Allocated
    BY <2>1, <2>2, EntryIsTyped, NilAssumption DEF Allocated
  <2> QED
    BY <2>2, <2>3 DEF Settled
<1>3. Extends(Senders, Senders')
  BY DEF Settled
<1> HIDE DEF l, s, s2
<1>4. GoesBy(mixed', pc[q], l, s2, heap'[s2].files, Senders')
  BY <1>1, <1>2, <1>3, SendersKnown, GoesByStays DEF l
<1> QED
  BY <1>4 DEF FollowsIn, l, s2

LEMMA PairedStays ==
  ASSUME PairedIn(mixed), UNCHANGED <<heap, tg>>, mixed \subseteq mixed'
  PROVE  PairedIn(mixed)'
BY DEF PairedIn, Together, HasOneKind, Allocated, Displayed

\* A handler that puts an edit together has it from a session and its message.
LEMMA ComposedFollows ==
  ASSUME HandlersInv, PairedIn(mixed), UNCHANGED <<heap, byChat, tg>>, mixed \subseteq mixed',
         NEW p \in Procs, NEW l \in Locals, NEW s \in Allocated, NEW keys, NEW next,
         pc' = [pc EXCEPT ![p] = "edit"],
         loc' = [loc EXCEPT ![p] = [l EXCEPT !.edit =
           [to |-> heap[s].message, of |-> s, keys |-> keys, next |-> next]]]
  PROVE  FollowsIn(mixed, p)'
<1> DEFINE e == [to |-> heap[s].message, of |-> s, keys |-> keys, next |-> next]
<1>1. e.to = heap[s].message /\ e.of = s
  OBVIOUS
<1> HIDE DEF e
<1>2. [l EXCEPT !.edit = e].edit = e
  BY DEF Locals
<1>3. pc'[p] = "edit" /\ loc'[p].edit = e
  BY <1>2 DEF HandlersInv, VarsFit, e
<1>4. e.to # Nil => e.to \in Displayed /\ Together(mixed, e.of, tg[e.to].owner)
  BY <1>1 DEF PairedIn, HandlersInv, ScreensFit
<1>5. Senders' = Senders
  BY DEF Senders, Displayed
<1>6. e.to # Nil => Together(mixed', e.of, Senders'[e.to])
  BY <1>4, <1>5 DEF Senders, Together
<1> QED
  BY <1>3, <1>6 DEF FollowsIn, GoesBy, SetsUp, WithMessage

LEMMA LastEditFollows ==
  ASSUME HandlersInv, PairedIn(mixed), UNCHANGED <<heap, byChat, tg>>, mixed \subseteq mixed',
         NEW p \in Procs, NEW s \in Allocated, NEW keys, LastEdit(p, s, keys)
  PROVE  FollowsIn(mixed, p)'
<1>1. PICK next :
        /\ pc' = [pc EXCEPT ![p] = "edit"]
        /\ loc' = [loc EXCEPT ![p] = [Idle EXCEPT !.edit =
              [to |-> heap[s].message, of |-> s, keys |-> keys, next |-> next]]]
  BY DEF LastEdit, ComposeEdit, Goto, Set
<1>2. Idle \in Locals
  BY DEF Idle, Locals
<1> QED
  BY <1>1, <1>2, ComposedFollows

LEMMA AnnounceFollows ==
  ASSUME HandlersInv, PairedIn(mixed), mixed \subseteq mixed', NEW p \in Procs, Announce(p)
  PROVE  FollowsIn(mixed, p)'
<1>1. loc[p].s \in Allocated /\ loc[p] \in Locals
  BY HandlerKnows DEF Announce, WithSession, Compiling, HandlersInv, VarsFit
<1>2. /\ pc' = [pc EXCEPT ![p] = "edit"] /\ UNCHANGED <<heap, byChat, tg>>
      /\ loc' = [loc EXCEPT ![p] = [loc[p] EXCEPT !.edit =
           [to |-> heap[loc[p].s].message, of |-> loc[p].s, keys |-> {}, next |-> "run"]]]
  BY DEF Announce, ComposeEdit, Goto, Set, storeVars
<1> QED
  BY <1>1, <1>2, ComposedFollows

\* At the other labels a handler does not go by anything.
LEMMA NothingToFollow ==
  ASSUME HandlersInv, NEW p \in Procs, NEW label, Goto(p, label),
         label \notin SetsUp \union WithMessage \union {"queryFill", "edit"}
  PROVE  FollowsIn(mixed, p)'
<1>1. pc'[p] = label
  BY DEF Goto, HandlersInv, VarsFit
<1> QED
  BY <1>1 DEF FollowsIn, GoesBy

LEMMA ForgottenFollows ==
  ASSUME HandlersInv, NEW p \in Procs, Return(p) \/ Finish(p)
  PROVE  FollowsIn(mixed, p)'
<1>1. Goto(p, "idle") \/ Goto(p, "answer")
  BY DEF Return, Finish
<1> QED
  BY <1>1, NothingToFollow DEF SetsUp, WithMessage

(* The steps that change no session and no message.                         *)
LEMMA QuietStepsSettle ==
  ASSUME HandlersInv, UNCHANGED <<heap, tg>>, \A c \in Chats : byChat'[c] \in {byChat[c], Nil}
  PROVE  Settled
<1>1. Senders' = Senders
  BY DEF Senders, Displayed
<1> QED
  BY <1>1 DEF Settled, Extends

LEMMA LookupSettles ==
  ASSUME HandlersInv, UNCHANGED <<heap, tg>>, NEW c,
         UNCHANGED byChat \/ Get(c) \/ Delete(c)
  PROVE  Settled
<1>1. byChat \in [Chats -> SessionIds \union {Nil}]
  BY DEF HandlersInv, StoreInv, StoreTypeOK
<1>2. CASE UNCHANGED byChat
  BY <1>2, QuietStepsSettle
<1>3. CASE Get(c) \/ Delete(c)
  <2>1. PICK x \in {byChat[c], Nil} : byChat' = [byChat EXCEPT ![c] = x]
    BY <1>3 DEF Get, GetResult, Delete
  <2>2. \A d \in Chats : byChat'[d] \in {byChat[d], Nil}
    BY <1>1, <2>1
  <2> QED
    BY <2>2, QuietStepsSettle
<1> QED
  BY <1>2, <1>3

QuietStep(p) ==
  \/ IgnorePress(p) \/ Callback(p) \/ Repaint(p) \/ Discard(p) \/ Dropped(p) \/ Answer(p)
  \/ Compile(p) \/ CompileLanguage(p) \/ CompileRelease(p) \/ CompileTarget(p)
  \/ Announce(p) \/ Run(p) \/ Report(p) \/ ReportFailure(p) \/ Serve(p) \/ ServePages(p)
  \/ \E m \in Displayed : \E button \in tg[m].keys \union StrayButtons : Press(p, m, button)

LEMMA QuietSteps ==
  ASSUME HandlersInv, PairedIn(mixed), mixed \subseteq mixed', NEW p \in Procs, QuietStep(p)
  PROVE  PairedIn(mixed)' /\ Settled /\ FollowsIn(mixed, p)'
<1>1. UNCHANGED <<storeVars, tg>> \/ Callback(p) \/ Discard(p)
  <2>1. CASE IgnorePress(p) \/ Answer(p) \/ Repaint(p) \/ Dropped(p) \/ Serve(p) \/ ServePages(p)
             \/ Report(p) \/ ReportFailure(p) \/ Announce(p)
    BY <2>1 DEF IgnorePress, Answer, Repaint, Dropped, Serve, ServePages, Report, ReportFailure,
                Announce
  <2>2. CASE Compile(p) \/ CompileLanguage(p) \/ CompileRelease(p) \/ CompileTarget(p) \/ Run(p)
    BY <2>2 DEF Compile, CompileLanguage, CompileRelease, CompileTarget, Run
  <2>3. CASE \E m \in Displayed : \E button \in tg[m].keys \union StrayButtons : Press(p, m, button)
    BY <2>3 DEF Press
  <2> QED
    BY <2>1, <2>2, <2>3 DEF QuietStep
<1>2. /\ UNCHANGED <<heap, tg>>
      /\ UNCHANGED byChat \/ Get(loc[p].chat) \/ Delete(loc[p].chat)
  BY <1>1 DEF storeVars, Callback, Discard, Get, Delete
<1>3. Settled /\ PairedIn(mixed)'
  BY <1>2, LookupSettles, PairedStays
<1> SUFFICES FollowsIn(mixed, p)'
  BY <1>3
<1>4. ASSUME NEW label, Goto(p, label), label \in Labels \ {"edit", "queryFill", "writeName"},
             label \notin SetsUp
      PROVE  FollowsIn(mixed, p)'
  BY <1>4, NothingToFollow DEF SetsUp, WithMessage
<1>5. ASSUME NEW keys, LastEdit(p, loc[p].s, keys), UNCHANGED storeVars, pc[p] \in WithSession
      PROVE  FollowsIn(mixed, p)'
  BY <1>2, <1>5, HandlerKnows, LastEditFollows DEF storeVars
<1>6. CASE IgnorePress(p) \/ Answer(p)
  BY <1>6, ForgottenFollows DEF IgnorePress, Answer
<1>7. CASE Callback(p)
  <2>1. Dispatch(loc[p].press) \in {"repaint", "update", "compile", "discard", "answer"}
    BY DEF Dispatch
  <2>2. Dispatch(loc[p].press) \in Labels \ {"edit", "queryFill", "writeName"}
        /\ Dispatch(loc[p].press) \notin SetsUp
    BY <2>1 DEF Labels, SetsUp
  <2>3. Finish(p) \/ Goto(p, Dispatch(loc[p].press))
    BY <1>7 DEF Callback
  <2> QED
    BY <1>4, <2>2, <2>3, ForgottenFollows
<1>8. CASE Repaint(p) \/ Dropped(p) \/ Report(p) \/ ReportFailure(p) \/ ServePages(p)
  <2>1. pc[p] \in WithSession /\ UNCHANGED storeVars
    BY <1>8 DEF Repaint, Dropped, Report, ReportFailure, ServePages, WithSession, Compiling
  <2>2. \E keys : LastEdit(p, loc[p].s, keys)
    BY <1>8 DEF Repaint, Dropped, Report, ReportFailure, ServePages
  <2> QED
    BY <1>5, <2>1, <2>2
<1>9. CASE Serve(p) \/ CompileLanguage(p)
  <2>1. pc[p] \in WithSession /\ UNCHANGED storeVars
    BY <1>9 DEF Serve, CompileLanguage, WithSession, Compiling
  <2>2. \/ Goto(p, "servePages") \/ Goto(p, "compileRelease")
        \/ \E keys : LastEdit(p, loc[p].s, keys)
    BY <1>9 DEF Serve, CompileLanguage
  <2> QED
    BY <1>4, <1>5, <2>1, <2>2 DEF Labels, SetsUp
<1>10. CASE Compile(p) \/ CompileRelease(p) \/ CompileTarget(p) \/ Discard(p) \/ Run(p)
  <2>1. PICK label \in {"compileLanguage", "serve", "compileTarget", "announce", "dropped",
                        "report", "reportFailure", "none"} :
          Finish(p) \/ (label # "none" /\ Goto(p, label))
    BY <1>10 DEF Compile, CompileRelease, CompileTarget, Discard, Run
  <2> QED
    BY <1>4, <2>1, ForgottenFollows DEF Labels, SetsUp
<1>11. CASE Announce(p)
  BY <1>11, AnnounceFollows
<1>12. CASE \E m \in Displayed : \E button \in tg[m].keys \union StrayButtons : Press(p, m, button)
  BY <1>4, <1>12 DEF Press, Labels, SetsUp
<1> QED
  BY <1>6, <1>7, <1>8, <1>9, <1>10, <1>11, <1>12 DEF QuietStep

(* A Start. Whoever goes by the chat's session meanwhile is interrupted: its *)
(* own session and the new one are mixed from then on.                      *)
LEMMA StartFollows ==
  ASSUME HandlersInv, HistoryInv, Record, NEW p \in Procs, NEW c \in Chats, NEW s \in SessionIds,
         \/ \E language \in Languages : CodeStart(p, c, s, language)
         \/ \E query \in Queries : QueryStart(p, c, s, query)
  PROVE  HistoryInv'
<1>1. PICK files, language, label, l :
        /\ files \in Languages \union {Nil} /\ language \in Languages
        /\ Start(c, s, files, language) /\ tg' = tg
        /\ pc' = [pc EXCEPT ![p] = label] /\ loc' = [loc EXCEPT ![p] = l]
  <2>1. ASSUME NEW language \in Languages, CodeStart(p, c, s, language)
        PROVE  /\ Start(c, s, language, language) /\ tg' = tg
               /\ pc' = [pc EXCEPT ![p] = "sendKeyboard"]
               /\ loc' = [loc EXCEPT ![p] = [Idle EXCEPT !.chat = c, !.s = s]]
    BY <2>1 DEF CodeStart, Goto, Set
  <2>2. ASSUME NEW query \in Queries, QueryStart(p, c, s, query)
        PROVE  /\ Start(c, s, Nil, Java) /\ tg' = tg
               /\ pc' = [pc EXCEPT ![p] = "queryFill"]
               /\ \E l : loc' = [loc EXCEPT ![p] = l]
    BY ONLY <2>2 DEF QueryStart, Goto, Set
  <2>3. Java \in Languages
    BY HandlersAssumption DEF HandlersAssumption
  <2> QED
    BY <2>1, <2>2, <2>3
<1> DEFINE fresh == NewSession(c, files, language)
<1>2. /\ heap' = [heap EXCEPT ![s] = fresh] /\ byChat' = [byChat EXCEPT ![c] = s]
      /\ s \notin Allocated /\ tg' = tg
  BY <1>1 DEF Start
<1>3. /\ heap \in [SessionIds -> Session \union {Nil}]
      /\ byChat \in [Chats -> SessionIds \union {Nil}]
      /\ pc \in [Procs -> Labels] /\ loc \in [Procs -> Locals]
  BY DEF HandlersInv, StoreInv, StoreTypeOK, VarsFit
<1>4. /\ fresh.query = Nil /\ fresh.message = Nil /\ fresh.files = files /\ fresh.chat = c
      /\ fresh \in Session
  BY <1>1 DEF NewSession, Session, HandlersInv, StoreInv, StoreTypeOK
<1> HIDE DEF fresh
<1>5. byChat'[c] = s /\ heap'[s] = fresh /\ \A x \in SessionIds \ {s} : heap'[x] = heap[x]
  BY <1>2, <1>3
<1>6. s \in Started /\ Allocated' = Allocated \union {s}
  BY <1>2, <1>4, <1>5, NilAssumption DEF Allocated, Started
<1>7. mixed \subseteq mixed' /\ Senders' = Senders /\ Displayed' = Displayed
  BY <1>2 DEF Record, Senders, Displayed
<1>8. PairedIn(mixed)'
  <2>1. \A x \in Allocated' \ mixed' : (heap'[x].query = Nil \/ heap'[x].files = Nil)
    BY <1>4, <1>5, <1>6, <1>7 DEF HistoryInv, PairedIn, HasOneKind, Allocated
  <2>2. \A x \in Allocated' : heap'[x].message # Nil =>
          Together(mixed', x, tg'[heap'[x].message].owner)
    BY <1>2, <1>4, <1>5, <1>6, <1>7 DEF HistoryInv, PairedIn, Together, Allocated
  <2>3. \A x \in Displayed' : Together(mixed', tg'[x].of, tg'[x].owner)
    BY <1>2, <1>7 DEF HistoryInv, PairedIn, Together
  <2> QED
    BY <2>1, <2>2, <2>3 DEF PairedIn, HasOneKind
<1>9. FollowsIn(mixed, p)'
  <2>1. ASSUME NEW lang \in Languages, CodeStart(p, c, s, lang)
        PROVE  FollowsIn(mixed, p)'
    <3>1. pc' = [pc EXCEPT ![p] = "sendKeyboard"]
          /\ loc' = [loc EXCEPT ![p] = [Idle EXCEPT !.chat = c, !.s = s]]
      BY <2>1 DEF CodeStart, Goto, Set
    <3>2. pc'[p] = "sendKeyboard" /\ loc'[p].chat = c /\ loc'[p].s = s
      BY <1>3, <3>1 DEF Idle
    <3>3. byChat'[loc'[p].chat] = loc'[p].s
      BY <1>5, <3>2
    <3> QED
      BY <3>2, <3>3 DEF FollowsIn, GoesBy, SetsUp, Together, WithMessage
  <2>2. ASSUME NEW q \in Queries, QueryStart(p, c, s, q)
        PROVE  FollowsIn(mixed, p)'
    <3> DEFINE r == NewestStocked(Java, Stocked)
    <3>1. /\ pc' = [pc EXCEPT ![p] = "queryFill"] /\ Start(c, s, Nil, Java)
          /\ loc' = [loc EXCEPT ![p] = [Idle EXCEPT !.chat = c, !.query = q, !.release = r]]
      BY ONLY <2>2 DEF QueryStart, Goto, Set
    <3> HIDE DEF r
    <3>2. pc'[p] = "queryFill" /\ loc'[p].chat = c
      BY <1>3, <3>1 DEF Idle
    <3>3. heap' = [heap EXCEPT ![s] = NewSession(c, Nil, Java)]
      BY <3>1 DEF Start
    <3>4. heap'[s] = NewSession(c, Nil, Java)
      BY <1>3, <3>3
    <3>5. heap'[s].files = Nil
      BY <3>4 DEF NewSession
    <3> QED
      BY <1>5, <3>2, <3>5 DEF FollowsIn, GoesBy, SetsUp, WithMessage
  <2> QED
    BY <2>1, <2>2
<1>10. ASSUME NEW q \in Procs \ {p}
       PROVE  FollowsIn(mixed, q)'
  <2> DEFINE own == loc[q]
             t == byChat[own.chat]
             t2 == byChat'[own.chat]
  <2>1. pc'[q] = pc[q] /\ loc'[q] = own
    BY <1>1, <1>3
  <2>2. GoesBy(mixed, pc[q], own, t, heap[t].files, Senders)
    BY DEF HistoryInv, FollowsIn
  <2>3. \/ t2 = Nil
        \/ t2 = t /\ (heap[t].files = Nil => heap'[t2].files = Nil)
        \/ pc[q] \in SetsUp \union {"queryFill"} =>
             t2 \in mixed' /\ (pc[q] \in SetsUp => own.s \in mixed')
    <3> SUFFICES ASSUME pc[q] \in SetsUp \union {"queryFill"}
                 PROVE  \/ t2 = Nil
                        \/ t2 = t /\ (heap[t].files = Nil => heap'[t2].files = Nil)
                        \/ t2 \in mixed' /\ (pc[q] \in SetsUp => own.s \in mixed')
      OBVIOUS
    <3>1. own.chat \in Chats
      BY HandlerKnows DEF SetsUp, WithSession, Querying
    <3>2. CASE own.chat = c
      <4>1. q \in Interrupted
        BY <1>4, <1>5, <1>6, <3>2 DEF Interrupted, SettingUp, SetsUp
      <4>2. pc[q] \in SetsUp => own.s # Nil
        BY HandlerKnows, NilAssumption DEF SetsUp, WithSession, Allocated
      <4> QED
        BY <1>5, <1>6, <3>2, <4>1, <4>2 DEF Record
    <3>3. CASE own.chat # c
      <4>1. t2 = t
        BY <1>2, <1>3, <3>1, <3>3
      <4>2. t # s
        BY <1>2, <3>1, <3>3, EntryIsTyped, NilAssumption DEF Allocated
      <4>3. t \in SessionIds => heap'[t] = heap[t]
        BY <1>5, <4>2
      <4> QED
        BY <1>3, <3>1, <4>1, <4>3
    <3> QED
      BY <3>2, <3>3
  <2>4. Extends(Senders, Senders')
    BY <1>7 DEF Extends
  <2> HIDE DEF own, t, t2
  <2>5. GoesBy(mixed', pc[q], own, t2, heap'[t2].files, Senders')
    BY <1>7, <2>2, <2>3, <2>4, SendersKnown, GoesByStays DEF own
  <2> QED
    BY <2>1, <2>5 DEF FollowsIn, own, t2
<1> QED
  BY <1>8, <1>9, <1>10 DEF HistoryInv

\* What becomes of the session QueryGet finds is what its handler goes by.
LEMMA QueryGetFollows ==
  ASSUME HandlersInv, PairedIn(mixed), mixed \subseteq mixed', NEW p \in Procs, QueryGet(p)
  PROVE  PairedIn(mixed)' /\ Settled /\ FollowsIn(mixed, p)'
<1> DEFINE l == loc[p]
           c == l.chat
           s == GetResult(c)
<1>1. /\ UNCHANGED <<heap, tg>> /\ Get(c) /\ byChat' = [byChat EXCEPT ![c] = s]
      /\ pc[p] = "queryGet" /\ c \in Chats /\ l \in Locals
  BY HandlerKnows DEF QueryGet, Get, Querying, LocalsFit
<1>2. Settled /\ PairedIn(mixed)'
  BY <1>1, LookupSettles, PairedStays
<1>3. byChat'[c] = s
  BY <1>1 DEF HandlersInv, StoreInv, StoreTypeOK
<1>4. CASE s = Nil
  BY <1>2, <1>4, ForgottenFollows DEF QueryGet
<1>5. CASE s # Nil
  <2>1. pc' = [pc EXCEPT ![p] = "sendName"] /\ loc' = [loc EXCEPT ![p] = [l EXCEPT !.s = s]]
    BY <1>5 DEF QueryGet, Goto, Set
  <2> HIDE DEF s
  <2>2. [l EXCEPT !.s = s].s = s /\ [l EXCEPT !.s = s].chat = c
    BY <1>1 DEF Locals
  <2>3. pc'[p] = "sendName" /\ loc'[p].s = s /\ loc'[p].chat = c
    BY <2>1, <2>2 DEF HandlersInv, VarsFit
  <2>4. byChat'[loc'[p].chat] = loc'[p].s
    BY <1>3, <2>3
  <2> QED
    BY <1>2, <2>3, <2>4 DEF FollowsIn, GoesBy, SetsUp, Together, WithMessage
<1> QED
  BY <1>4, <1>5

LEMMA SendFollows ==
  ASSUME HandlersInv, HistoryInv, mixed \subseteq mixed', NEW p \in Procs,
         CodeSend(p) \/ QuerySend(p)
  PROVE  PairedIn(mixed)' /\ Settled /\ FollowsIn(mixed, p)'
<1> DEFINE l == loc[p]
<1>1. /\ pc[p] \in {"sendKeyboard", "sendName"} /\ UNCHANGED <<heap, byChat>> /\ l \in Locals
      /\ byChat[l.chat] = Nil \/ Together(mixed, byChat[l.chat], l.s)
  BY HandlerKnows
  DEF CodeSend, QuerySend, storeVars, HistoryInv, FollowsIn, GoesBy, SetsUp, LocalsFit
<1>2. PICK keys \in SUBSET Buttons, next \in {"storeMessage", "storeName"} :
        Send(p, l.s, keys, next)
  <2>1. CASE CodeSend(p)
    BY <2>1, MainPanelIsButtons DEF CodeSend
  <2>2. CASE QuerySend(p)
    BY <2>2 DEF QuerySend
  <2> QED
    BY <2>1, <2>2
<1>3. CASE UNCHANGED tg /\ Return(p)
  <2>1. Settled /\ PairedIn(mixed)'
    BY <1>1, <1>3, QuietStepsSettle, PairedStays DEF HistoryInv
  <2> QED
    BY <1>3, <2>1, ForgottenFollows
<1>4. ASSUME NEW m \in MessageIds \ Displayed,
             tg' = [tg EXCEPT ![m] =
               [chat |-> l.chat, owner |-> l.s, of |-> l.s, keys |-> keys]],
             Goto(p, next), Set(p, [l EXCEPT !.sent = m])
      PROVE  PairedIn(mixed)' /\ Settled /\ FollowsIn(mixed, p)'
  <2> DEFINE sent == [chat |-> l.chat, owner |-> l.s, of |-> l.s, keys |-> keys]
             l2 == [l EXCEPT !.sent = m]
  <2>1. sent.owner = l.s /\ sent.of = l.s
    OBVIOUS
  <2>2. sent \in Message /\ sent # Nil
    BY <1>1, HandlerKnows, HandlersAssumption
    DEF Message, HandlersAssumption, WithSession, Allocated
  <2> HIDE DEF sent
  <2>3. tg'[m] = sent /\ \A x \in MessageIds \ {m} : tg'[x] = tg[x]
    BY <1>4 DEF sent, HandlersInv, VarsFit
  <2>4. Displayed \subseteq Displayed' /\ Displayed' \subseteq Displayed \union {m}
    BY <2>3 DEF Displayed
  <2>5. PairedIn(mixed)'
    <3>1. \A s \in Allocated : heap[s].message # Nil => heap[s].message \in Displayed
      BY DEF HandlersInv, ScreensFit
    <3>2. \A x \in Displayed : tg'[x] = tg[x]
      BY <2>3 DEF Displayed
    <3>3. \A s \in Allocated : heap[s].message # Nil =>
            Together(mixed', s, tg'[heap[s].message].owner)
      BY <3>1, <3>2 DEF HistoryInv, PairedIn, Together
    <3>4. \A x \in Displayed' : Together(mixed', tg'[x].of, tg'[x].owner)
      BY <2>1, <2>3, <2>4, <3>2 DEF HistoryInv, PairedIn, Together
    <3>5. \A s \in Allocated \ mixed' : HasOneKind(s)
      BY DEF HistoryInv, PairedIn
    <3> QED
      BY <1>1, <3>3, <3>4, <3>5 DEF PairedIn, Allocated, HasOneKind
  <2>6. Extends(Senders, Senders')
    BY <2>3, <2>4 DEF Extends, Senders, Displayed
  <2>7. Settled
    BY <1>1, <2>6 DEF Settled
  <2>8. l2.s = l.s /\ l2.chat = l.chat /\ l2.sent = m
    BY <1>1 DEF Locals
  <2>9. pc'[p] = next /\ loc'[p] = l2
    BY <1>4 DEF Goto, Set, HandlersInv, VarsFit
  <2> HIDE DEF l2
  <2>10. m \in Displayed'
    BY <2>2, <2>3 DEF Displayed
  <2>11. Senders'[m] = l.s
    BY <2>1, <2>3, <2>10 DEF Senders
  <2>12. byChat'[l2.chat] = Nil \/ Together(mixed', byChat'[l2.chat], l2.s)
    BY <1>1, <2>8 DEF Together
  <2> QED
    BY <2>5, <2>7, <2>8, <2>9, <2>11, <2>12 DEF FollowsIn, GoesBy, SetsUp, WithMessage
<1> QED
  BY <1>2, <1>3, <1>4 DEF Send

LEMMA EditFollows ==
  ASSUME HandlersInv, HistoryInv, mixed \subseteq mixed', NEW p \in Procs, Edit(p)
  PROVE  PairedIn(mixed)' /\ Settled /\ FollowsIn(mixed, p)'
<1> DEFINE e == loc[p].edit
<1>1. /\ pc[p] = "edit" /\ UNCHANGED <<heap, byChat>> /\ EditFits(e, Owner, Shown)
      /\ e.to # Nil => Together(mixed, e.of, Senders[e.to])
      /\ Goto(p, e.next)
  BY HandlerKnows DEF Edit, storeVars, HistoryInv, FollowsIn, GoesBy, LocalsFit
<1>2. e.next \in {"idle", "answer", "run"} /\ e.of \in SessionIds /\ e.keys \in SUBSET Buttons
  BY <1>1 DEF EditFits, Edits
<1>3. FollowsIn(mixed, p)'
  BY <1>1, <1>2, NothingToFollow DEF SetsUp, WithMessage
<1>4. CASE UNCHANGED tg
  BY <1>1, <1>3, <1>4, QuietStepsSettle, PairedStays DEF HistoryInv
<1>5. CASE e.to \in Displayed /\ tg' = [tg EXCEPT ![e.to].of = e.of, ![e.to].keys = e.keys]
  <2> DEFINE m == e.to
             edited == [tg[m] EXCEPT !.of = e.of, !.keys = e.keys]
  <2>1. m \in MessageIds /\ m # Nil /\ tg[m] \in Message
    BY <1>5, NilAssumption DEF Displayed, HandlersInv, VarsFit
  <2>2. edited.owner = tg[m].owner /\ edited.of = e.of /\ edited \in Message
    BY <1>2, <2>1 DEF Message
  <2>3. tg' = [tg EXCEPT ![m] = edited]
    BY <1>5
  <2>4. Together(mixed', e.of, tg[m].owner)
    BY <1>1, <1>5, <2>1 DEF Senders, Together
  <2> HIDE DEF edited
  <2>5. tg'[m] = edited /\ \A x \in MessageIds \ {m} : tg'[x] = tg[x]
    BY <2>1, <2>3 DEF HandlersInv, VarsFit
  <2>6. Displayed' = Displayed
    BY <1>5, <2>2, <2>5, HandlersAssumption DEF Displayed, HandlersAssumption
  <2> HIDE DEF m, e
  <2>7. \A x \in Displayed : tg'[x].owner = tg[x].owner
    BY <2>2, <2>5 DEF Displayed
  <2>8. Settled
    BY <1>1, <2>6, <2>7 DEF Settled, Extends, Senders
  <2>9. PairedIn(mixed)'
    <3>1. \A s \in Allocated : heap[s].message # Nil =>
            Together(mixed', s, tg'[heap[s].message].owner)
      BY <2>7 DEF HistoryInv, PairedIn, Together, HandlersInv, ScreensFit
    <3>2. \A x \in Displayed : Together(mixed', tg'[x].of, tg'[x].owner)
      BY <2>2, <2>4, <2>5, <2>7 DEF HistoryInv, PairedIn, Together, Displayed
    <3>3. \A s \in Allocated \ mixed' : HasOneKind(s)
      BY DEF HistoryInv, PairedIn
    <3> QED
      BY <1>1, <2>6, <3>1, <3>2, <3>3 DEF PairedIn, Allocated, HasOneKind
  <2> QED
    BY <1>3, <2>8, <2>9
<1> QED
  BY <1>4, <1>5 DEF Edit

\* A session remains what it is: a snippet, or the name of a class.
SameKind(new, old) == new.query = old.query /\ (old.files = Nil => new.files = Nil)

LEMMA SettersKeepKind ==
  ASSUME NEW old \in Session, NEW x
  PROVE  /\ SameKind(SetLanguage(old, x), old) /\ SameKind(SetRelease(old, x), old)
         /\ SameKind(SetTarget(old, x), old) /\ SameKind(ToggleView(old, x), old)
         /\ SameKind(SetMessage(old, x), old)
BY DEF SameKind, Session, SetLanguage, SetRelease, SetTarget, ToggleView, SetMessage

LEMMA ChangeKeepsKind ==
  ASSUME NEW old \in Session, NEW press, Dispatch(press) = "update"
  PROVE  SameKind(Change(old, press), old)
<1>1. press.action \in {"lang", "rel", "tgt", "view"}
  BY DEF Dispatch
<1> QED
  BY <1>1, SettersKeepKind DEF Change

(* What an update makes of a session: a class name is given to one without   *)
(* files, and a message to the one it was sent for, unless they are mixed.  *)
LEMMA UpdateOfFollows ==
  ASSUME HandlersInv, HistoryInv, NEW p \in Procs,
         pc[p] \in {"queryFill", "update", "storeMessage", "storeName"},
         byChat[loc[p].chat] # Nil
  PROVE  LET s == byChat[loc[p].chat]
             new == UpdateOf(p)
         IN  /\ heap[s].files = Nil => new.files = Nil
             /\ s \notin mixed => new.query = Nil \/ new.files = Nil
             /\ \/ new.message = heap[s].message
                \/ new.message \in Displayed /\ Together(mixed, s, tg[new.message].owner)
<1> USE HandlerKnows DEF Querying, Pressing, WithSession, WithMessage, Compiling
<1> DEFINE l == loc[p]
           s == byChat[l.chat]
           old == heap[s]
<1>1. old \in Session /\ s \in Allocated
  BY EntryIsTyped, NilAssumption DEF Allocated
<1>2. s \notin mixed => old.query = Nil \/ old.files = Nil
  BY <1>1 DEF HistoryInv, PairedIn, HasOneKind
<1>3. GoesBy(mixed, pc[p], l, s, old.files, Senders)
  BY DEF HistoryInv, FollowsIn
<1> HIDE DEF old, s
<1>4. CASE pc[p] = "queryFill"
  <2> DEFINE t == DefaultTarget(l.release)
  <2>1. UpdateOf(p) = SetQuery(old, l.query, l.release.id, t)
    BY <1>4 DEF UpdateOf, old, s
  <2>2. s \in mixed \/ old.files = Nil
    BY <1>3, <1>4 DEF GoesBy, s
  <2> HIDE DEF t
  <2>3. UpdateOf(p).files = old.files /\ UpdateOf(p).message = old.message
    BY <1>1, <2>1 DEF SetQuery, Session
  <2> QED
    BY <2>2, <2>3 DEF old, s
<1>5. CASE pc[p] = "update"
  <2>1. l.press \in Buttons \union StrayButtons /\ Dispatch(l.press) = "update"
    BY <1>5 DEF LocalsFit, At
  <2>2. UpdateOf(p) = Change(old, l.press)
    BY <1>5 DEF UpdateOf, old, s
  <2>3. UpdateOf(p).message = old.message /\ SameKind(UpdateOf(p), old)
    BY <1>1, <2>1, <2>2, ChangeIsSound, ChangeKeepsKind
  <2> QED
    BY <1>2, <2>3 DEF SameKind, old, s
<1>6. CASE pc[p] \in {"storeMessage", "storeName"}
  <2>1. l.sent \in Displayed
    BY <1>6 DEF LocalsFit, At, Shown
  <2>2. Together(mixed, s, tg[l.sent].owner)
    BY <1>1, <1>3, <1>6, <2>1, NilAssumption DEF GoesBy, SetsUp, Senders, Allocated
  <2>3. UpdateOf(p) = SetMessage(old, l.sent)
    BY <1>6 DEF UpdateOf, old, s
  <2>4. UpdateOf(p).message = l.sent /\ SameKind(UpdateOf(p), old)
    BY <1>1, <2>3, SettersKeepKind DEF SetMessage, Session
  <2> QED
    BY <1>2, <2>1, <2>2, <2>4 DEF SameKind, old, s
<1> QED
  BY <1>4, <1>5, <1>6

\* A session whose kind and message are as they should be may take another's place.
LEMMA SessionRewritten ==
  ASSUME HandlersInv, HistoryInv, mixed \subseteq mixed', UNCHANGED <<tg, byChat>>,
         NEW s \in Allocated, NEW new \in Session, heap' = [heap EXCEPT ![s] = new],
         heap[s].files = Nil => new.files = Nil,
         s \notin mixed => new.query = Nil \/ new.files = Nil,
         \/ new.message = heap[s].message
         \/ new.message \in Displayed /\ Together(mixed, s, tg[new.message].owner)
  PROVE  PairedIn(mixed)' /\ Settled
<1>1. heap'[s] = new /\ \A x \in SessionIds \ {s} : heap'[x] = heap[x]
  BY DEF HandlersInv, StoreInv, StoreTypeOK, Allocated
<1>2. Allocated' = Allocated /\ Displayed' = Displayed /\ Senders' = Senders
  BY <1>1, NilAssumption DEF Allocated, Displayed, Senders
<1>3. \A x \in Allocated \ mixed' : heap'[x].query = Nil \/ heap'[x].files = Nil
  BY <1>1 DEF HistoryInv, PairedIn, HasOneKind, Allocated
<1>4. \A x \in Allocated : heap'[x].message # Nil =>
        Together(mixed', x, tg[heap'[x].message].owner)
  BY <1>1 DEF HistoryInv, PairedIn, Together, Allocated
<1>5. \A x \in Displayed : Together(mixed', tg[x].of, tg[x].owner)
  BY DEF HistoryInv, PairedIn, Together
<1>6. PairedIn(mixed)'
  BY <1>2, <1>3, <1>4, <1>5 DEF PairedIn, HasOneKind
<1>7. \A x \in Allocated : heap[x].files = Nil => heap'[x].files = Nil
  BY <1>1 DEF Allocated
<1> QED
  BY <1>2, <1>6, <1>7 DEF Settled, Extends

LEMMA UpdateFollows ==
  ASSUME HandlersInv, HistoryInv, mixed \subseteq mixed', NEW p \in Procs,
         QueryFill(p) \/ ApplyPress(p) \/ CodeStoreMessage(p) \/ QueryStoreMessage(p)
  PROVE  PairedIn(mixed)' /\ Settled /\ FollowsIn(mixed, p)'
<1> DEFINE l == loc[p]
           s == byChat[l.chat]
           new == UpdateOf(p)
<1>1. /\ pc[p] \in {"queryFill", "update", "storeMessage", "storeName"}
      /\ Update(l.chat, new) /\ UNCHANGED <<tg, byChat>>
  BY HandlerUpdates DEF Update
<1>2. PairedIn(mixed)' /\ Settled
  <2>1. CASE s = Nil
    BY <1>1, <2>1, PairedStays, QuietStepsSettle DEF Update, HistoryInv
  <2>2. CASE s # Nil
    <3> DEFINE stored == [new EXCEPT !.updated = now]
    <3>1. heap' = [heap EXCEPT ![s] = stored] /\ s \in SessionIds /\ heap[s] \in Session
          /\ Changed(heap[s], new) /\ now \in Nat
      BY <1>1, <2>2, EntryIsTyped, UpdateOfIsSound, HandlerKnows
      DEF Update, HandlersInv, StoreInv, StoreTypeOK, Querying, Pressing, WithSession
    <3>2. /\ heap[s].files = Nil => new.files = Nil
          /\ s \notin mixed => new.query = Nil \/ new.files = Nil
          /\ \/ new.message = heap[s].message
             \/ new.message \in Displayed /\ Together(mixed, s, tg[new.message].owner)
      BY <1>1, <2>2, UpdateOfFollows
    <3>3. stored.query = new.query /\ stored.files = new.files /\ stored.message = new.message
          /\ stored \in Session
      BY <3>1 DEF Changed, Session
    <3>4. s \in Allocated
      BY <3>1, NilAssumption DEF Allocated
    <3> HIDE DEF stored, new, s
    <3> QED
      BY <1>1, <3>1, <3>2, <3>3, <3>4, SessionRewritten
  <2> QED
    BY <2>1, <2>2
<1>3. CASE QueryFill(p) \/ ApplyPress(p) \/ CodeStoreMessage(p)
  <2>1. Goto(p, "queryGet") \/ Goto(p, "repaint") \/ Finish(p) \/ Return(p)
    BY <1>3 DEF QueryFill, ApplyPress, CodeStoreMessage
  <2> QED
    BY <1>2, <2>1, ForgottenFollows, NothingToFollow DEF SetsUp, WithMessage
<1>4. CASE QueryStoreMessage(p)
  <2>1. pc[p] = "storeName" /\ pc'[p] = "writeName" /\ loc' = loc
    BY <1>4 DEF QueryStoreMessage, Goto, HandlersInv, VarsFit
  <2>2. Senders[l.sent] = l.s /\ Senders' = Senders
    BY <1>1, <2>1 DEF HistoryInv, FollowsIn, GoesBy, WithMessage, Senders, Displayed
  <2> QED
    BY <1>2, <2>1, <2>2 DEF FollowsIn, GoesBy, SetsUp, WithMessage
<1> QED
  BY <1>3, <1>4

LEMMA WriteFollows ==
  ASSUME HandlersInv, HistoryInv, mixed \subseteq mixed', NEW p \in Procs, QueryWriteMessage(p)
  PROVE  PairedIn(mixed)' /\ Settled /\ FollowsIn(mixed, p)'
<1> DEFINE l == loc[p]
<1>1. /\ pc[p] = "writeName" /\ UNCHANGED <<byChat, tg>> /\ l.sent \in Displayed
      /\ l.s \in Allocated /\ Goto(p, "serve")
  BY HandlerKnows
  DEF QueryWriteMessage, WriteMessage, LocalsFit, At, WithSession, WithMessage, Shown
<1>2. tg[l.sent].owner = l.s
  BY <1>1 DEF HistoryInv, FollowsIn, GoesBy, WithMessage, Senders
<1> DEFINE written == [heap[l.s] EXCEPT !.message = l.sent]
<1>3. heap' = [heap EXCEPT ![l.s] = written] /\ heap[l.s] \in Session /\ l.sent \in MessageIds
  BY <1>1, AllocatedIsTyped
  DEF QueryWriteMessage, WriteMessage, HandlersInv, StoreInv, Allocated, Displayed
<1>4. /\ written.query = heap[l.s].query /\ written.files = heap[l.s].files
      /\ written.message = l.sent /\ written \in Session
  BY <1>3 DEF Session
<1> HIDE DEF written
<1>5. l.s \notin mixed => written.query = Nil \/ written.files = Nil
  BY <1>1, <1>4 DEF HistoryInv, PairedIn, HasOneKind
<1>6. PairedIn(mixed)' /\ Settled
  BY <1>1, <1>2, <1>3, <1>4, <1>5, SessionRewritten DEF Together
<1> QED
  BY <1>1, <1>6, NothingToFollow DEF SetsUp, WithMessage

\* The sweeper, the clock and a crash take sessions away and change none.
LEMMA OutsideFollows ==
  ASSUME HandlersInv, HistoryInv, mixed \subseteq mixed',
         \/ (Sweep \/ Tick) /\ UNCHANGED handlerVars
         \/ Crash
         \/ UNCHANGED vars
  PROVE  HistoryInv'
<1>1. /\ UNCHANGED <<heap, tg>> /\ \A c \in Chats : byChat'[c] \in {byChat[c], Nil}
      /\ UNCHANGED <<pc, loc>> \/ \A p \in Procs : pc'[p] = "idle"
  BY DEF Sweep, Tick, GetResult, Crash, Restart, handlerVars, vars
<1>2. PairedIn(mixed)' /\ Settled
  BY <1>1, PairedStays, QuietStepsSettle DEF HistoryInv
<1>3. CASE UNCHANGED <<pc, loc>>
  BY <1>2, <1>3, OthersFollow DEF HistoryInv
<1>4. CASE \A p \in Procs : pc'[p] = "idle"
  BY <1>2, <1>4 DEF HistoryInv, FollowsIn, GoesBy, SetsUp, WithMessage
<1> QED
  BY <1>1, <1>3, <1>4

\* A step of one handler leaves the others where they are.
LEMMA OthersWait ==
  ASSUME HandlersInv, NEW p \in Procs,
         \/ Step(p)
         \/ \E m \in Displayed : \E button \in tg[m].keys \union StrayButtons : Press(p, m, button)
  PROVE  \A q \in Procs \ {p} : pc'[q] = pc[q] /\ loc'[q] = loc[q]
<1> SUFFICES \E label, l :
               /\ Goto(p, label)
               /\ Set(p, l) \/ UNCHANGED loc
  BY DEF Goto, Set, HandlersInv, VarsFit
<1> USE DEF Return, Finish
<1>1. ASSUME NEW s, NEW keys, LastEdit(p, s, keys)
      PROVE  \E label, l : Goto(p, label) /\ Set(p, l)
  BY <1>1 DEF LastEdit, ComposeEdit
<1>2. CASE CodeSend(p) \/ QuerySend(p)
  BY <1>2 DEF CodeSend, QuerySend, Send
<1>3. CASE CodeStoreMessage(p) \/ QueryFill(p) \/ QueryStoreMessage(p) \/ QueryWriteMessage(p)
           \/ ApplyPress(p)
  BY <1>3 DEF CodeStoreMessage, QueryFill, QueryStoreMessage, QueryWriteMessage, ApplyPress
<1>4. CASE QueryGet(p) \/ IgnorePress(p) \/ Callback(p) \/ Discard(p) \/ Answer(p) \/ Edit(p)
  BY <1>4 DEF QueryGet, IgnorePress, Callback, Discard, Answer, Edit
<1>5. CASE Repaint(p) \/ Dropped(p) \/ Report(p) \/ ReportFailure(p) \/ ServePages(p) \/ Serve(p)
  BY <1>1, <1>5 DEF Repaint, Dropped, Report, ReportFailure, ServePages, Serve
<1>6. CASE Compile(p) \/ CompileLanguage(p) \/ CompileRelease(p) \/ CompileTarget(p)
  BY <1>1, <1>6 DEF Compile, CompileLanguage, CompileRelease, CompileTarget
<1>7. CASE Announce(p) \/ Run(p)
  BY <1>7 DEF Announce, ComposeEdit, Run
<1>8. CASE \E m \in Displayed : \E button \in tg[m].keys \union StrayButtons : Press(p, m, button)
  <2>1. PICK m, button : Press(p, m, button)
    BY <1>8
  <2> QED
    BY ONLY <2>1 DEF Press
<1> QED
  BY <1>2, <1>3, <1>4, <1>5, <1>6, <1>7, <1>8 DEF Step

LEMMA HistoryStep ==
  ASSUME HandlersInv, HistoryInv, [HistoryNext]_historyVars
  PROVE  HistoryInv'
<1>1. mixed \subseteq mixed'
  BY DEF HistoryNext, Record, historyVars
<1>2. ASSUME NEW p \in Procs, PairedIn(mixed)', Settled, FollowsIn(mixed, p)',
             \A q \in Procs \ {p} : pc'[q] = pc[q] /\ loc'[q] = loc[q]
      PROVE  HistoryInv'
  <2>1. \A q \in Procs \ {p} : FollowsIn(mixed, q)'
    BY <1>1, <1>2, OthersFollow DEF HistoryInv
  <2> QED
    BY <1>2, <2>1 DEF HistoryInv
<1>3. ASSUME NEW p \in Procs, Step(p)
      PROVE  HistoryInv'
  <2>1. PairedIn(mixed)' /\ Settled /\ FollowsIn(mixed, p)'
    <3>1. CASE CodeSend(p) \/ QuerySend(p)
      BY <1>1, <3>1, SendFollows
    <3>2. CASE QueryFill(p) \/ ApplyPress(p) \/ CodeStoreMessage(p) \/ QueryStoreMessage(p)
      BY <1>1, <3>2, UpdateFollows
    <3>3. CASE QueryGet(p)
      BY <1>1, <3>3, QueryGetFollows DEF HistoryInv
    <3>4. CASE QueryWriteMessage(p)
      BY <1>1, <3>4, WriteFollows
    <3>5. CASE Edit(p)
      BY <1>1, <3>5, EditFollows
    <3>6. CASE QuietStep(p)
      BY <1>1, <3>6, QuietSteps DEF HistoryInv
    <3> QED
      BY <1>3, <3>1, <3>2, <3>3, <3>4, <3>5, <3>6 DEF Step, QuietStep
  <2> QED
    BY <1>2, <1>3, <2>1, OthersWait
<1>4. ASSUME NEW p \in Procs, NEW c \in Chats, NEW s \in SessionIds, Record,
             \/ \E language \in Languages : CodeStart(p, c, s, language)
             \/ \E query \in Queries : QueryStart(p, c, s, query)
      PROVE  HistoryInv'
  BY <1>4, StartFollows
<1>5. ASSUME NEW p \in Procs,
             \E m \in Displayed : \E button \in tg[m].keys \union StrayButtons : Press(p, m, button)
      PROVE  HistoryInv'
  <2>1. PairedIn(mixed)' /\ Settled /\ FollowsIn(mixed, p)'
    BY <1>1, <1>5, QuietSteps DEF HistoryInv, QuietStep
  <2> QED
    BY <1>2, <1>5, <2>1, OthersWait
<1>6. CASE \/ (Sweep \/ Tick) /\ UNCHANGED handlerVars
           \/ Crash
           \/ UNCHANGED vars
  BY <1>1, <1>6, OutsideFollows
<1>7. CASE UNCHANGED historyVars
  BY <1>6, <1>7 DEF historyVars
<1>8. CASE HistoryNext
  BY <1>3, <1>4, <1>5, <1>6, <1>8 DEF HistoryNext, Next
<1> QED
  BY <1>7, <1>8

LEMMA HistoryInvariant == HistorySpec => [](HandlersInv /\ HistoryInv)
<1>1. HistoryInit => HandlersInv /\ HistoryInv
  <2> SUFFICES ASSUME HistoryInit PROVE HandlersInv /\ HistoryInv
    OBVIOUS
  <2>1. HandlersInv
    BY HandlersInitHolds DEF HistoryInit
  <2>2. PairedIn(mixed)
    BY DEF HistoryInit, Init, StoreInit, PairedIn, Allocated, Displayed
  <2>3. \A p \in Procs : pc[p] = "idle"
    BY DEF HistoryInit, Init
  <2> QED
    BY <2>1, <2>2, <2>3 DEF HistoryInv, FollowsIn, GoesBy, SetsUp, WithMessage
<1>2. [HistoryNext]_historyVars => [Next]_vars
  BY DEF HistoryNext, historyVars
<1>3. HandlersInv /\ HistoryInv /\ [HistoryNext]_historyVars => (HandlersInv /\ HistoryInv)'
  BY <1>2, HistoryStep, NextKeepsHandlers
<1> QED
  BY <1>1, <1>3, PTL DEF HistorySpec

(* "One message per snippet, rewritten in place" (bot.go:3), for any number  *)
(* of updates at once: a session that was not set up while another one of    *)
(* its chat was has the message that was sent for it, which shows it. The    *)
(* goroutine each update has (bot.go:101-115) breaks it in that way only.   *)
THEOREM MessagesStayPaired == HistorySpec => []MessageIsItsOwn
<1>1. HandlersInv /\ HistoryInv => MessageIsItsOwn
  <2> SUFFICES ASSUME HandlersInv, HistoryInv, NEW s \in Allocated \ mixed, heap[s].message # Nil
               PROVE  /\ heap[s].message \in Displayed
                      /\ tg[heap[s].message].owner = s /\ tg[heap[s].message].of = s
    BY DEF MessageIsItsOwn, HasOwnMessage
  <2>1. heap[s].message \in Displayed
    BY DEF HandlersInv, ScreensFit
  <2> QED
    BY <2>1 DEF HistoryInv, PairedIn, Together
<1> QED
  BY <1>1, HistoryInvariant, PTL

(* A session that was not set up while another one of its chat was never has *)
(* both a query and a snippet (session.go:27), by which compileAndSend       *)
(* (bot.go:350) tells the two apart, however many updates there are at once.*)
THEOREM QueriesHaveNoFiles == HistorySpec => []KindIsItsOwn
<1>1. HistoryInv => KindIsItsOwn
  BY DEF HistoryInv, PairedIn, KindIsItsOwn
<1> QED
  BY <1>1, HistoryInvariant, PTL
=============================================================================
