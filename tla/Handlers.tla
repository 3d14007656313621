------------------------------ MODULE Handlers ------------------------------
(* internal/bot/bot.go: the message and callback handlers. The Telegram     *)
(* library starts a goroutine for every update, so any number of handlers   *)
(* run at once. A handler is a sequence of steps, one between two points at *)
(* which others can get in: a call of the session store (atomic, under its  *)
(* mutex), a call to Telegram, a run of the compiler, and the reads of the  *)
(* session's fields, which go through the pointer the store returned, after *)
(* the mutex was released.                                                  *)
EXTENDS SessionStore, FiniteSets

CONSTANTS
  Procs,         \* goroutines: bounds how many updates are handled at once
  Chains,        \* the catalog, see Catalog
  Java,          \* detect.Java, see Catalog
  ClassesIn,     \* JDK major |-> the classes the store holds for it
  StrayButtons,  \* buttons on keyboards left by another version of the bot
  Torn,          \* a string read while it was being written
  MaxRestarts

INSTANCE Catalog

VARIABLES
  pc,        \* where each handler is
  loc,       \* its local variables
  spinning,  \* whether the call that answers its last button is still to be made
  tg,        \* the messages on the users' screens
  restarts

handlerVars == <<pc, loc, spinning, tg, restarts>>
vars == <<heap, byChat, now, pc, loc, spinning, tg, restarts>>

Idle == [chat |-> Nil, s |-> Nil, press |-> Nil, query |-> Nil, language |-> Nil,
         release |-> Nil, target |-> Nil, sent |-> Nil, edit |-> Nil, job |-> Nil]

Init ==
  /\ StoreInit
  /\ pc = [p \in Procs |-> "idle"]
  /\ loc = [p \in Procs |-> Idle]
  /\ spinning = [p \in Procs |-> FALSE]
  /\ tg = [m \in MessageIds |-> Nil]
  /\ restarts = 0

Displayed == {m \in MessageIds : tg[m] # Nil}

Goto(p, label) == pc' = [pc EXCEPT ![p] = label]
Set(p, locals) == loc' = [loc EXCEPT ![p] = locals]

Return(p) == Goto(p, "idle") /\ Set(p, Idle)

-----------------------------------------------------------------------------
(* The keyboards of internal/ui/keyboard.go, as the buttons they offer.     *)
Button(action, value) == [action |-> action, value |-> value]

Buttons ==
  [action : {"open"}, value : {"main", "lang", "rel", "tgt", "view"}] \union
  [action : {"lang"}, value : Languages] \union
  [action : {"rel"}, value : ReleaseIds] \union
  [action : {"tgt"}, value : TargetIds] \union
  [action : {"view"}, value : ViewFlags] \union
  [action : {"compile", "cancel"}, value : {Nil}]

Release ==
  [id : ReleaseIds, targets : Seq(TargetIds), default : BOOLEAN, major : Nat,
   preview : BOOLEAN, flag : BOOLEAN]

Message ==
  [chat : Chats, owner : SessionIds, of : SessionIds, keys : SUBSET Buttons]

(* A catalog as FromLock makes it, where a Java release is named after its   *)
(* major version. What another version's button chooses need not be there    *)
(* any more, but is a language, an id or a level.                            *)
ASSUME HandlersAssumption ==
  /\ Nil \notin Message
  /\ Java \in Languages /\ CatalogLanguages \subseteq Languages
  /\ \A l \in CatalogLanguages : Chains[l] \in Seq(Release)
  /\ \A r \in ToSet(Releases(Java)) : r.id[2] = r.major
  /\ \A b \in StrayButtons : b.action \in {"lang", "rel", "tgt"} => b \in Buttons

Stocked == DOMAIN ClassesIn

MainPanel(session) ==
  {Button("open", "lang"), Button("cancel", Nil)} \union
  IF Known(session.language)
  THEN {Button("open", "view"), Button("open", "rel"), Button("open", "tgt"),
        Button("compile", Nil)}
  ELSE {}

\* Majors of an empty store are a nil slice, which filters nothing out.
OfferedReleases(session) ==
  {r \in ToSet(Releases(session.language)) :
     session.query = Nil \/ Stocked = {} \/ r.major \in Stocked}

Panel(session, panel) ==
  LET back == Button("open", "main")
      release == ReleaseOrDefault(session.language, session.release)
  IN  CASE panel = "lang" ->
             {Button("lang", l) : l \in CatalogLanguages} \union {back}
        [] panel = "rel" /\ Known(session.language) ->
             {Button("rel", r.id) : r \in OfferedReleases(session)} \union {back}
        [] panel = "tgt" /\ Known(session.language) ->
             {Button("tgt", t) : t \in ToSet(release.targets)} \union {back}
        [] panel = "view" ->
             {Button("view", f) : f \in ViewFlags} \union {back}
        [] OTHER -> MainPanel(session)

-----------------------------------------------------------------------------
(* Telegram. A message is known by the session it was sent for (owner), the *)
(* session its text is about now (of) and the buttons under it. Any call    *)
(* may fail, and an edit of message 0 always does.                          *)
Send(p, s, keys, next) ==
  \/ \E m \in MessageIds \ Displayed :
       /\ tg' = [tg EXCEPT ![m] =
                   [chat |-> loc[p].chat, owner |-> s, of |-> s, keys |-> keys]]
       /\ Goto(p, next) /\ Set(p, [loc[p] EXCEPT !.sent = m])
  \/ UNCHANGED tg /\ Return(p)

(* The text and keyboard of an edit are made first, from the fields of the  *)
(* session as they are then; the call that shows them is a step of its own. *)
ComposeEdit(p, locals, s, keys, next) ==
  /\ Goto(p, "edit")
  /\ Set(p, [locals EXCEPT
       !.edit = [to |-> heap[s].message, of |-> s, keys |-> keys, next |-> next]])

\* The last edit of a handler, which needs none of its locals any more. One
\* that was started by a button still has to answer it.
LastEdit(p, s, keys) ==
  ComposeEdit(p, Idle, s, keys, IF loc[p].press = Nil THEN "idle" ELSE "answer")

\* Mutant of Finish: a return that forgets the answer.
FinishSilently(p) == Return(p)

Finish(p) == Goto(p, "answer") /\ Set(p, Idle)

Edit(p) ==
  LET e == loc[p].edit IN
  /\ pc[p] = "edit"
  /\ \/ /\ e.to \in Displayed
        /\ tg' = [tg EXCEPT ![e.to].of = e.of, ![e.to].keys = e.keys]
     \/ UNCHANGED tg
  /\ Goto(p, e.next) /\ Set(p, [loc[p] EXCEPT !.edit = Nil])
  /\ UNCHANGED <<storeVars, spinning, restarts>>

-----------------------------------------------------------------------------
\* Mutant of CodeStart: the chat's session object is reused in place.
CodeStartInPlace(p, c, s, language) ==
  /\ pc[p] = "idle"
  /\ IF byChat[c] = Nil THEN Start(c, s, language, language)
     ELSE /\ heap' = [heap EXCEPT ![byChat[c]] = NewSession(c, language, language)]
          /\ UNCHANGED <<byChat, now>>
  /\ Goto(p, "sendKeyboard")
  /\ Set(p, [Idle EXCEPT !.chat = c, !.s = IF byChat[c] = Nil THEN s ELSE byChat[c]])
  /\ UNCHANGED <<spinning, tg, restarts>>

(* code: a snippet. Text that is too short or too long starts nothing and   *)
(* is left out, as is a language the detector cannot tell from the text: it *)
(* may answer any.                                                          *)
CodeStart(p, c, s, language) ==
  /\ pc[p] = "idle"
  /\ Start(c, s, language, language)
  /\ Goto(p, "sendKeyboard") /\ Set(p, [Idle EXCEPT !.chat = c, !.s = s])
  /\ UNCHANGED <<spinning, tg, restarts>>

CodeSend(p) ==
  /\ pc[p] = "sendKeyboard"
  /\ Send(p, loc[p].s, MainPanel(heap[loc[p].s]), "storeMessage")
  /\ UNCHANGED <<storeVars, spinning, restarts>>

\* The update is addressed to the chat, and lands on whatever session that has.
CodeStoreMessage(p) ==
  /\ pc[p] = "storeMessage"
  /\ Update(loc[p].chat, SetMessage(heap[byChat[loc[p].chat]], loc[p].sent))
  /\ Return(p)
  /\ UNCHANGED <<spinning, tg, restarts>>

-----------------------------------------------------------------------------
(* systemClass: a class name, when the store has it for the newest JDK it   *)
(* holds; the other outcomes are a message and no session.                  *)
LookupFinds(release, query) ==
  release.major \in Stocked /\ query \in ClassesIn[release.major]

\* Mutant of QueryStart: a class name goes into the session the chat has.
QueryIntoSession(p, c, s, query) ==
  LET release == NewestStocked(Java, Stocked) IN
  /\ pc[p] = "idle"
  /\ release # Nil
  /\ LookupFinds(release, query)
  /\ IF byChat[c] = Nil THEN Start(c, s, Nil, Java) ELSE UNCHANGED storeVars
  /\ Goto(p, "queryFill")
  /\ Set(p, [Idle EXCEPT !.chat = c, !.query = query, !.release = release])
  /\ UNCHANGED <<spinning, tg, restarts>>

QueryStart(p, c, s, query) ==
  LET release == NewestStocked(Java, Stocked) IN
  /\ pc[p] = "idle"
  /\ release # Nil
  /\ LookupFinds(release, query)
  /\ Start(c, s, Nil, Java)
  /\ Goto(p, "queryFill")
  /\ Set(p, [Idle EXCEPT !.chat = c, !.query = query, !.release = release])
  /\ UNCHANGED <<spinning, tg, restarts>>

QueryFill(p) ==
  LET c == loc[p].chat
      r == loc[p].release
  IN
  /\ pc[p] = "queryFill"
  /\ Update(c, SetQuery(heap[byChat[c]], loc[p].query, r.id, DefaultTarget(r)))
  /\ Goto(p, "queryGet") /\ UNCHANGED <<loc, spinning, tg, restarts>>

QueryGet(p) ==
  LET s == GetResult(loc[p].chat) IN
  /\ pc[p] = "queryGet"
  /\ Get(loc[p].chat)
  /\ IF s = Nil THEN Return(p)
     ELSE Goto(p, "sendName") /\ Set(p, [loc[p] EXCEPT !.s = s])
  /\ UNCHANGED <<spinning, tg, restarts>>

QuerySend(p) ==
  /\ pc[p] = "sendName"
  /\ Send(p, loc[p].s, {}, "storeName")
  /\ UNCHANGED <<storeVars, spinning, restarts>>

QueryStoreMessage(p) ==
  /\ pc[p] = "storeName"
  /\ Update(loc[p].chat, SetMessage(heap[byChat[loc[p].chat]], loc[p].sent))
  /\ Goto(p, "writeName") /\ UNCHANGED <<loc, spinning, tg, restarts>>

QueryWriteMessage(p) ==
  /\ pc[p] = "writeName"
  /\ WriteMessage(loc[p].s, loc[p].sent)
  /\ Goto(p, "serve") /\ Set(p, [loc[p] EXCEPT !.sent = Nil, !.query = Nil])
  /\ UNCHANGED <<spinning, tg, restarts>>

(* serveSystemClass: look the session's query up again; then render its     *)
(* pages, send them, and put the keyboard back. Whatever fails of that only *)
(* changes the text: what is left on the screen is the main panel.          *)
Serve(p) ==
  LET s == loc[p].s IN
  /\ pc[p] = "serve"
  /\ IF LookupFinds(loc[p].release, heap[s].query)
     THEN Goto(p, "servePages") /\ UNCHANGED loc
     ELSE LastEdit(p, s, Panel(heap[s], "rel"))
  /\ UNCHANGED <<storeVars, spinning, tg, restarts>>

ServePages(p) ==
  /\ pc[p] = "servePages"
  /\ LastEdit(p, loc[p].s, MainPanel(heap[loc[p].s]))
  /\ UNCHANGED <<storeVars, spinning, tg, restarts>>

-----------------------------------------------------------------------------
(* callback: a press of a button that is on the screen, or a stray one. The *)
(* message it sits on only tells the handler the chat; what the press acts  *)
(* on is the session the chat has by then. A press whose data does not      *)
(* decode ("foreign") is dropped without an answer.                         *)
Press(p, m, button) ==
  /\ pc[p] = "idle"
  /\ m \in Displayed
  /\ button \in tg[m].keys \union StrayButtons
  /\ spinning' = [spinning EXCEPT ![p] = TRUE]
  /\ Goto(p, "press")
  /\ Set(p, [Idle EXCEPT !.chat = tg[m].chat, !.press = button])
  /\ UNCHANGED <<storeVars, tg, restarts>>

Dispatch(press) ==
  CASE press.action = "open" -> "repaint"
    [] press.action \in {"lang", "rel", "tgt"} -> "update"
    [] press.action = "view" /\ press.value \in ViewFlags -> "update"
    [] press.action = "compile" -> "compile"
    [] press.action = "cancel" -> "discard"
    [] OTHER -> "answer"

Ours(press) == press.action # "foreign"

IgnorePress(p) ==
  /\ pc[p] = "press"
  /\ ~Ours(loc[p].press)
  /\ Return(p)
  /\ UNCHANGED <<storeVars, spinning, tg, restarts>>

\* Without a session the press is answered at once, and once more on return.
Callback(p) ==
  LET s == GetResult(loc[p].chat) IN
  /\ pc[p] = "press"
  /\ Ours(loc[p].press)
  /\ Get(loc[p].chat)
  /\ IF s = Nil
     THEN Finish(p) /\ spinning' = [spinning EXCEPT ![p] = FALSE]
     ELSE /\ IF Dispatch(loc[p].press) = "answer" THEN Finish(p)
             ELSE Goto(p, Dispatch(loc[p].press)) /\ Set(p, [loc[p] EXCEPT !.s = s])
          /\ UNCHANGED spinning
  /\ UNCHANGED <<tg, restarts>>

\* Mutant of Change: a level is stored where a release belongs.
ChangeMixedUp(session, press) ==
  CASE press.action = "lang" -> SetLanguage(session, press.value)
    [] press.action \in {"rel", "tgt"} -> SetRelease(session, press.value)
    [] press.action = "view" -> ToggleView(session, press.value)

Change(session, press) ==
  CASE press.action = "lang" -> SetLanguage(session, press.value)
    [] press.action = "rel" -> SetRelease(session, press.value)
    [] press.action = "tgt" -> SetTarget(session, press.value)
    [] press.action = "view" -> ToggleView(session, press.value)

\* Update returns the chat's session, which need not be the one Get returned.
ApplyPress(p) ==
  LET c == loc[p].chat IN
  /\ pc[p] = "update"
  /\ Update(c, Change(heap[byChat[c]], loc[p].press))
  /\ IF byChat[c] = Nil THEN Finish(p)
     ELSE Goto(p, "repaint") /\ Set(p, [loc[p] EXCEPT !.s = byChat[c]])
  /\ UNCHANGED <<spinning, tg, restarts>>

Repaint(p) ==
  LET s == loc[p].s
      press == loc[p].press
      panel == CASE press.action = "open" -> press.value
                 [] press.action = "view" -> "view"
                 [] OTHER -> "main"
  IN
  /\ pc[p] = "repaint"
  /\ LastEdit(p, s, Panel(heap[s], panel))
  /\ UNCHANGED <<storeVars, spinning, tg, restarts>>

Discard(p) ==
  /\ pc[p] = "discard"
  /\ Delete(loc[p].chat)
  /\ Goto(p, "dropped") /\ UNCHANGED <<loc, spinning, tg, restarts>>

Dropped(p) ==
  /\ pc[p] = "dropped"
  /\ LastEdit(p, loc[p].s, {})
  /\ UNCHANGED <<storeVars, spinning, tg, restarts>>

(* The deferred call: it is made when the handler returns. It may fail, like *)
(* any other; that is logged and not made good for.                         *)
Answer(p) ==
  /\ pc[p] = "answer"
  /\ spinning' = [spinning EXCEPT ![p] = FALSE]
  /\ Return(p)
  /\ UNCHANGED <<storeVars, tg, restarts>>

-----------------------------------------------------------------------------
(* compileAndSend. The fields it reads of the session can be under an       *)
(* update's pen at that moment: a string read then is the old one, the new  *)
(* one, or torn, which is no value the catalog knows.                       *)
Writes(p) ==
  CASE pc[p] = "queryFill" -> {"query", "release", "target"}
    [] pc[p] = "update" /\ loc[p].press.action = "lang" -> {"language", "release", "target"}
    [] pc[p] = "update" /\ loc[p].press.action = "rel" -> {"release", "target"}
    [] pc[p] = "update" /\ loc[p].press.action = "tgt" -> {"target"}
    [] OTHER -> {}

Reads(p, field) ==
  {heap[loc[p].s][field]} \union
  IF \E q \in Procs \ {p} : field \in Writes(q) /\ byChat[loc[q].chat] = loc[p].s
  THEN {Torn} ELSE {}

Compile(p) ==
  LET s == loc[p].s
      chosen == FindRelease(Java, heap[s].release)
      release == IF chosen # Nil THEN chosen ELSE NewestStocked(Java, Stocked)
  IN
  /\ pc[p] = "compile"
  /\ IF heap[s].query = Nil
     THEN Goto(p, "compileLanguage") /\ UNCHANGED loc
     ELSE IF ~Known(Java) \/ release = Nil
     THEN Finish(p)
     ELSE Goto(p, "serve") /\ Set(p, [loc[p] EXCEPT !.release = release])
  /\ UNCHANGED <<storeVars, spinning, tg, restarts>>

CompileLanguage(p) ==
  LET s == loc[p].s IN
  /\ pc[p] = "compileLanguage"
  /\ \E language \in Reads(p, "language") :
       IF Known(language)
       THEN Goto(p, "compileRelease") /\ Set(p, [loc[p] EXCEPT !.language = language])
       ELSE LastEdit(p, s, Panel(heap[s], "lang"))
  /\ UNCHANGED <<storeVars, spinning, tg, restarts>>

CompileRelease(p) ==
  /\ pc[p] = "compileRelease"
  /\ \E id \in Reads(p, "release") :
       Set(p, [loc[p] EXCEPT !.release = ReleaseOrDefault(loc[p].language, id)])
  /\ Goto(p, "compileTarget")
  /\ UNCHANGED <<storeVars, spinning, tg, restarts>>

CompileTarget(p) ==
  /\ pc[p] = "compileTarget"
  /\ \E target \in Reads(p, "target") :
       Set(p, [loc[p] EXCEPT !.target = TargetOrDefault(loc[p].release, target)])
  /\ Goto(p, "announce")
  /\ UNCHANGED <<storeVars, spinning, tg, restarts>>

\* "Compiling with ...", and no keyboard while it lasts.
Announce(p) ==
  /\ pc[p] = "announce"
  /\ ComposeEdit(p, loc[p], loc[p].s, {}, "run")
  /\ UNCHANGED <<storeVars, spinning, tg, restarts>>

(* compile.go. Compile turns down a session without files and a target the  *)
(* release cannot emit; otherwise it writes the files, under the compiler's *)
(* own suffix, and runs the container, which yields classes or fails (no    *)
(* classes, a timeout, an error of its own).                                *)
SourceSuffix(files, language) == language

\* Mutant of Accepts: the target is passed on as it is.
AcceptsAnyTarget(s, release, target) == heap[s].files # Nil

Accepts(s, release, target) == heap[s].files # Nil /\ Supports(release, target)

Run(p) ==
  LET l == loc[p]
      job == [language |-> l.language, release |-> l.release, target |-> l.target,
              suffix |-> SourceSuffix(heap[l.s].files, l.language),
              command |-> Command(l.language, l.release, l.target)]
  IN
  /\ pc[p] = "run"
  /\ IF Accepts(l.s, l.release, l.target)
     THEN /\ Set(p, [l EXCEPT !.job = job])
          /\ \E outcome \in {"report", "reportFailure"} : Goto(p, outcome)
     ELSE Goto(p, "reportFailure") /\ UNCHANGED loc
  /\ UNCHANGED <<storeVars, spinning, tg, restarts>>

\* Classes: render and send them; what fails of that changes only the text.
Report(p) ==
  /\ pc[p] = "report"
  /\ LastEdit(p, loc[p].s, MainPanel(heap[loc[p].s]))
  /\ UNCHANGED <<storeVars, spinning, tg, restarts>>

\* None: send the compiler's output as a picture if there is any, and as text.
ReportFailure(p) ==
  /\ pc[p] = "reportFailure"
  /\ LastEdit(p, loc[p].s, MainPanel(heap[loc[p].s]))
  /\ UNCHANGED <<storeVars, spinning, tg, restarts>>

-----------------------------------------------------------------------------
(* The process dies: sessions and handlers are gone, the screens stay.      *)
Crash ==
  /\ restarts < MaxRestarts
  /\ restarts' = restarts + 1
  /\ Restart
  /\ pc' = [p \in Procs |-> "idle"]
  /\ loc' = [p \in Procs |-> Idle]
  /\ spinning' = [p \in Procs |-> FALSE]
  /\ UNCHANGED tg

Step(p) ==
  \/ CodeSend(p) \/ CodeStoreMessage(p)
  \/ QueryFill(p) \/ QueryGet(p) \/ QuerySend(p)
  \/ QueryStoreMessage(p) \/ QueryWriteMessage(p)
  \/ IgnorePress(p) \/ Callback(p) \/ ApplyPress(p) \/ Repaint(p) \/ Discard(p) \/ Dropped(p)
  \/ Compile(p) \/ CompileLanguage(p) \/ CompileRelease(p) \/ CompileTarget(p)
  \/ Announce(p) \/ Run(p) \/ Report(p) \/ ReportFailure(p)
  \/ Serve(p) \/ ServePages(p) \/ Edit(p) \/ Answer(p)

Next ==
  \/ \E p \in Procs : Step(p)
  \/ \E p \in Procs, c \in Chats, s \in SessionIds, l \in Languages : CodeStart(p, c, s, l)
  \/ \E p \in Procs, c \in Chats, s \in SessionIds, q \in Queries : QueryStart(p, c, s, q)
  \/ \E p \in Procs, m \in Displayed :
       \E button \in tg[m].keys \union StrayButtons : Press(p, m, button)
  \/ (Sweep \/ Tick) /\ UNCHANGED handlerVars
  \/ Crash

(* The runtime schedules every goroutine, and every call a handler waits    *)
(* for returns: Telegram's through the client's timeout, the compiler's     *)
(* through its own. Nobody has to send an update.                           *)
Spec == Init /\ [][Next]_vars /\ \A p \in Procs : WF_vars(Step(p))

-----------------------------------------------------------------------------
Labels ==
  {"idle", "sendKeyboard", "storeMessage", "queryFill", "queryGet", "sendName", "storeName",
   "writeName", "serve", "servePages", "press", "update", "repaint", "discard", "dropped",
   "compile", "compileLanguage", "compileRelease", "compileTarget", "announce", "run",
   "report", "reportFailure", "edit", "answer"}

(* The store is well formed, and handlers and screens only refer to sessions *)
(* and messages that are there.                                             *)
HandlersTypeOK ==
  /\ StoreTypeOK
  /\ pc \in [Procs -> Labels]
  /\ spinning \in [Procs -> BOOLEAN]
  /\ \A p \in Procs :
       /\ loc[p].chat \in Chats \union {Nil}
       /\ loc[p].s \in Allocated \union {Nil}
       /\ loc[p].sent \in Displayed \union {Nil}
  /\ \A m \in Displayed : tg[m].owner \in Allocated /\ tg[m].of \in Allocated

(* The handlers use the store as SessionStore allows: whatever holds of the *)
(* store for every order of calls holds while the bot runs, crashes and the *)
(* write that goes around the mutex included.                               *)
ImplementsStore == StoreInit /\ [][StoreNext]_storeVars

(* However updates, stale keyboards and torn reads mix up the settings a    *)
(* compile picks up one by one, a container only ever runs a release of the *)
(* language's own chain, at a level it emits, on a file with its suffix, and *)
(* with preview features only at the release's own level (catalog.go:138).  *)
CompilerGetsItsOwn ==
  \A p \in Procs : loc[p].job # Nil =>
    LET job == loc[p].job IN
    /\ job.release \in ToSet(Releases(job.language))
    /\ Supports(job.release, job.target)
    /\ job.suffix = job.language
    /\ job.command.preview => job.language = Java /\ job.target = <<job.release.major>>

(* What a chat reads on any of its messages, and the keyboard under it, is  *)
(* of a session of that chat, whichever handlers edited it in which order.  *)
ChatsDoNotMix ==
  \A m \in Displayed :
    heap[tg[m].owner].chat = tg[m].chat /\ heap[tg[m].of].chat = tg[m].chat

(* For every press of a button of ours the call that answers it is made in   *)
(* the end, on every path through the callback: expired, unknown button,     *)
(* compiler failing. A process that dies first takes the press with it.      *)
EveryPressAnswered ==
  \A p \in Procs :
    (pc[p] = "press" /\ Ours(loc[p].press)) ~> (pc[p] = "idle" /\ ~spinning[p])

(* "One message per snippet, rewritten in place" (bot.go:3): the message a   *)
(* session edits is the one that was sent for it, and it shows that session. *)
HasOwnMessage(s) ==
  LET m == heap[s].message IN
  m # Nil => m \in Displayed /\ tg[m].owner = s /\ tg[m].of = s

OneMessagePerSnippet == \A s \in Allocated : HasOwnMessage(s)

(* "Query is set instead of Files" (session.go:27): a session has either a   *)
(* snippet or the name of a JDK class, never both. Compile tells the two    *)
(* kinds apart by Query alone.                                              *)
HasOneKind(s) == heap[s].query = Nil \/ heap[s].files = Nil

QueryOrFiles == \A s \in Allocated : HasOneKind(s)

(* "Targets are the bytecode levels this compiler can emit" (catalog.go:28): *)
(* a level that reaches javac as --release is spelled as in the list javac   *)
(* gives of the releases it supports (main.go:382-392), which are numbers.   *)
ReleaseIsListed ==
  \A p \in Procs : loc[p].job # Nil /\ loc[p].job.command.option = "--release" =>
    Len(loc[p].job.target) = 1
=============================================================================
