# A TLA+ model of bytekodex-telegram

The bot takes a snippet of JVM source (or the name of a JDK class) in a Telegram chat, guesses the
language, shows a keyboard, and on request compiles it in a container and sends back pictures of the
bytecode. The modules here model the parts of it whose correctness depends on who does what when:
handlers that run concurrently on shared sessions, an index that is rebuilt under its readers, a pool
of native renderers, a tool that resolves a lock against servers which fail and change their minds, and
one that prepares the host and may die at any step; and three sequential pieces whose results are easy
to get almost right: collecting class files, finding a class by name, blanking out literals. They are
translated from the Go source; `PROJECT.json` maps every definition to the lines it stands for.

## Inventory

| Component | State | Operations | Used by |
|---|---|---|---|
| Session store, `internal/session/session.go` | map chat → session, behind a mutex; the session objects themselves | Start, Get, Update, Delete, Sweep, SweepEvery | handlers, main |
| Bot handlers, `internal/bot/bot.go` | none of their own; local copies of session pointers | code, systemClass, callback, compileAndSend, serveSystemClass, repaint, edit, answer | one goroutine per Telegram update |
| Keyboards, `internal/ui/keyboard.go` | none | Caption, Header, Keyboard, Encode, Decode | handlers |
| Toolchain catalog, `internal/toolchain/catalog.go` | read-only after start-up, made from the lock | Catalog, For, Languages, Release, DefaultRelease, Supports, DefaultTarget, Command | handlers, keyboards, sync |
| Compiler runner, `internal/compile/compile.go` | scratch directory per call | Compile, writeSources, collect | handlers |
| System class store, `internal/sysclass/store.go` | atomic snapshot pointer, build mutex, directory tree | Majors, Available, Lookup, load, build | handlers, keyboards |
| Renderer pool, `internal/render/render.go` | channel of native handles, pool of buffers, per-thread error message | New, Render, Pages, Close, Image.Close | handlers, main |
| Host sync, `cmd/toolchainctl/sync.go` | images, class directories, jars on the host | pullImages, syncSysclasses, syncDeps | deploys |
| Lock resolver, `internal/toolchain/resolve.go`, `manifest.go`, `cmd/toolchainctl/main.go` | the lock file; a lock in the making | Resolve, do, digestForURL, Save, plan | CI, deploys |
| Language detector, `internal/detect/detect.go` | none | Source, stripNonCode | handlers |
| Formatting, `internal/bot/format.go`; main; CI and Docker files | none | | |

How they interact. The Telegram library starts a goroutine for every update. A handler calls the
session store, which is atomic under its mutex but returns a *pointer*; the handler then reads (and in
one place writes) the session's fields through it without the mutex, sends and edits messages, runs
the compiler, and leases native renderers, while other handlers do the same to the same session. The
keyboard of a message outlives its session, its handler and the process. `main` starts the sweeper and
closes the renderer when polling stops. The class store's tree is on a volume that a deploy's host
sync fills while the bot of the deploy before it still runs and reads it. The lock is written by
`resolve` in CI and read by everything else: the catalog is made from it at start-up, images are built
in the order `plan` prints, and the host sync works through it.

What is hard: updates addressed to a chat that land on a session the sender never saw; pointers to
sessions that were replaced or expired; unlocked field reads; edits that arrive in another order than they
were composed in; a crash with keyboards still on screen; callers queueing for a walk that is superseded
or hangs; native memory and buffers with exactly one owner on every path; shutdown with calls in flight; a
deploy that keeps no record of its own and is run again after it died anywhere; checksums of archives that
are republished under the same URL, and errors that one part of the resolver survives and another does
not; containers that outlive the command that started them. `PROJECT.json` lists each hazard at its line,
with the property that is about it or the reason why there is none.

What makes each component correct:

* session store: one snippet per chat; an entry belongs to its chat; a session that left never comes
  back; settings stay consistent under overrides; expired source leaves memory;
* handlers: every press is answered; chats do not mix; a message belongs to the snippet it was sent
  for; what runs in a container is a release, a target and a file that fit each other;
* class index: walk only when needed, one at a time; never give up a complete index; serve the old
  answer during a retry; recover without a restart;
* renderer pool: exclusive leases, single ownership of buffers, intact pictures, every call returns;
* host sync: what looks finished is finished, what is finished is never taken away, jars match the
  lock, success means that everything is there, and a failure is never in the way of the next deploy;
* lock resolver: a pinned checksum was served in this very run; no error makes a second choice pass for
  the first; what is saved has everything its readers rely on; an interrupt stops it; it ends;
* catalog: a level is one its release can emit, however it is spelled;
* compiler runner: a result is read when nobody writes any more, and is as much as the limits allow; a
  hanging container is a timeout;
* class lookup: the best match and no other, and an ambiguity that the full name settles;
* detector: what is blanked out depends on the literal or comment it is in and on nothing after its line.

## Modules

* **SnippetSlot** – the abstract specification of the store: every chat has a slot, `Put` fills it
  with a snippet that was never used before, `Drop` empties any set of slots.
* **SessionStore** – the store. `heap` is the session objects, `byChat` the map, `now` the clock.
  Every method holds the mutex throughout and is one action; `Update` takes the session its closure
  makes. `Restart` is the process dying: the objects of the old process stay in `heap` as garbage
  nobody can reach. The instance `Slot` maps `byChat` to `slot` and the allocated objects to `spent`.
* **LockFile** – a lock, the questions its readers ask of it, and the plan of images.
* **CatalogFromLock** – the chains the catalog makes from a lock: releases in their order, levels from
  the floor to the ceiling with the change of spelling at 9, defaults. A ceiling that does not parse is
  offered as it is. `CatalogServes` is what handlers and keyboards rely on in such a catalog.
* **Catalog** – the lookups of the catalog as operators over `Chains`, and what `Command` makes of a
  release and a level.
* **Handlers** – extends SessionStore with the goroutines. `pc` and `loc` are a handler's position and
  locals; a step ends wherever another handler can get in: a store call, a Telegram call, the compile,
  and each of the unlocked reads `compileAndSend` makes of the session. A read that overlaps an
  `Update` of the same field (`Writes`) yields the old value, the new one or `Torn`: a Go string is two
  words. An edit is composed from the fields at one moment and shown by the step `Edit`, later.
  `job` is what `Compile` is called with,
  the command it runs included. `tg` is the screens: who a message was sent for (`owner`), whose text it shows (`of`) and its buttons.
* **HandlersHistory** – Handlers, and a history variable. From the Start of a session to the Update that
  stores its message a handler goes by the chat, not by the session (`SettingUp`); `mixed` records the
  sessions that were started while another handler was setting one up for the same chat, and that one.
  It only watches: every behaviour of Handlers is one of HandlersHistory with `mixed` hidden.
* **SysclassIndex** – `load` and `build`. `replaced[p]` says that the pointer a caller loaded is no
  longer the current one, which is what the code compares; snapshots may be equal and still be
  different pointers. `due` is the retry interval having passed since the walk *began*, as `builtAt` is
  set before the tree is read. The disk changes between any two steps of a walk.
* **RendererPool** – the channel of handles with its queue of receivers, the sync.Pool (which may hand
  out any spare buffer, a new one, and lose spare ones to the collector), images, `Close`, and the
  library as its header describes it: a status, and a message that stays with the *thread*. A goroutine
  can be on another thread at its next cgo call.
* **HostContents** – the abstract specification of a deploy, as the bot sees it: it adds what its lock
  names, each version in one step and once, each jar in the place of another content of it, takes nothing
  away, and is kept only when all of it is there. It knows nothing of containers, half-done copies or
  crashes: a deploy that broke off is like one that has not got further.
* **HostSync** – a deploy's walk through its lock. `pc` and `rest` are where it is and what is left of
  the list at hand; everything else is the disk and the container runtime, which outlive it. A directory
  of classes is `absent`, `bare` (no `java` in it), `part` or `complete`; a file is its hash or `cut`
  short. `docker cp` and `os.RemoveAll` take several steps on a tree, and `Crash` may come between any
  two steps of anything. `Begin` starts any of the locks, older ones too, in any order and repeatedly.
  The tool's steps that end in an error share `Fault`, whose number is bounded by `MaxFaults`; an error
  the code drops (`rm -f`, the removal of the old directory) goes on to the next step. The instance
  `Contents` maps the disk to HostContents: a version is stocked when its directory is complete, the
  deploy is underway while `pc` is anywhere in it.
* **Resolver** – `toolchainctl resolve`. Every request is a step at a `pc` of its own; `run` is the
  variables of the loops at hand: the versions, architectures and queries that are left, the offers that
  are left, as positions in foojay's list, and the lock so far. `Exchange` is `do`:
  answered, failed, or throttled and made again. `ArchFails` and `Stop` are the two things an error does,
  and `digestForURL` is the third, where it means "no digest".
  The servers are `host`, the edition of each archive that is republished, and `since` remembers it from
  when the run began. foojay may be any number of editions behind. `Save` is two steps, as WriteFile is. It extends
  CatalogFromLock, as the catalog is one of the readers of what it saves.
* **Compiler** – `Compile` with its container, which is an actor of its own: it writes classes in two
  steps each, and may hang, be killed, or go on after the deadline has killed the command.
  What is kept is a set, and the two orders say what comes first. The model keeps the output directory;
  the scratch directory around it is made anew for each call.
* **Lookup** – `resolve`, `pick` and `rank` over names that are sequences of parts, with an index that
  may be older than the directory the bytes are read from. `Winners` is pick's loop, from match to match.
* **Detect** – `stripNonCode` over sequences of the characters it tells apart. `Round` is one round of its
  loop, what it blanks out and where it goes on; the loop, and the two inner ones that look for the end of
  a comment and of a literal, are recursive functions of the position. A snippet grows by one character
  at a time, so that TLC sees all of them.
* **MC…** – instances for TLC. MCHandlers builds its chains with `FromLock`, so that what Handlers is
  checked with are chains that a lock gives. MCHistory does the same for HandlersHistory, with fewer
  buttons. MCParts puts SessionStore, Compiler, Lookup and Detect side by side: in each behaviour one of
  them works and the others have not begun. **…Proofs** – the theorems; HandlersProofs has those of
  Handlers and HandlersHistory,
  AlgorithmsProofs has those of Compiler, Lookup and Detect.

Operators that are called a mutant in their comment are not part of the model: each is a plausible slip
in the code, substituted for the definition it is named after to see that the property notices.

## Runs

| Run | Instance | Shows |
|---|---|---|
| `parts` | 2 chats, 2 session objects, 2 languages, lifetime 1, the clock to 2; 3 classes, 2 outputs, 3 bytes; 5 names, 5 queries; all snippets of 5 characters | the store implements the slot, entries belong to their chats, expired sessions are swept, suffixes follow the language; a result is what was written, every compile ends; the best match is the answer and a question is settled; stripping is local |
| `serial` | 1 handler, 2 sessions, 2 languages, foreign and outdated buttons, the clock to 2, 1 crash | every press is answered, on every path through the callback |
| `presses` | 2 handlers, 1 session, full catalog, foreign and outdated buttons, 1 crash | the settings a compile picks up fit together |
| `chats` | 2 handlers, 2 chats, 2 sessions, snippets and class names, the clock to 2, 1 crash | chats do not mix; a session that was not set up at the same time as another of its chat edits its own message, and has a query or files; the handlers use the store as its specification allows |
| `index` | 2 callers, 1 version, a disk that changes, walks that may hang | walks are needed, a complete index is kept, answers do not get worse, callers are served during a retry, a store that becomes well is picked up |
| `render` | 2 callers, 2 handles, 2 buffers, Close at any point or never | leases, buffers and pictures have one owner; in service every call returns |
| `sync` | 2 locks, 2 versions, 2 jars, 3 errors or crashes | a deploy implements HostContents, half-done work is not taken for finished, jars match a lock, success is complete, deploys recover |
| `resolve` | 2 valid manifests and 2 that are not, 8 builds, 2 archives that move, 5 attempts | pinned checksums were served, the favourites are locked, a saved lock serves its readers (plan, deploy and catalog), an interrupt stops the run, every run ends |

Each of the remaining runs checks one sentence that a comment or a test of the repository states and
that the code does not keep. TLC finds the counterexample; the findings in `PROJECT.json` quote the
sentence.

| Run | Counterexample |
|---|---|
| `wrong_message` | two snippets: the first one's message ID is stored in the second one's session |
| `wrong_kind` | a class name and a snippet: the name is written into the snippet's session, which has a query and files then |
| `message` | the goroutine changes threads before it asks for the error's message |
| `old_levels` | a press on level 1.8 under a JDK that takes `--release`: 1.8 is on no list of releases |

`wrong_message` and `wrong_kind` are two ways in which setting up two sessions of a chat at once goes
wrong: code and systemClass start a session and then, after other calls, write the message's ID
(bot.go:115, 212) or the class name (bot.go:193) into whatever session the chat has by then. Nothing keeps
a second update of the same chat from being handled in between, as every update has a goroutine of its
own. `MessageIsItsOwn` and `KindIsItsOwn` in `chats` say that this is all: the sessions before and after
are not affected, nor are those of other chats, however many updates are handled at once and whatever
presses, sweeps and crashes come in between.

Some more differences between what is written and what is done were met while modelling; they are in
the models' behaviours and have no run of their own:

* bot.go:124 says that the answer to a press "comes first"; it is deferred, and comes after the compile
  and the uploads. `EveryPressAnswered` says that it comes.
* session.go:61-62 says that a second snippet replaces the first "rather than stacking up keyboards";
  the first one's keyboard stays on its message, and its buttons act on the second session.
* The header (keyboard.go:158) goes by the session's language and Compile (bot.go:350-361) by the kind
  of the query: after an override of a class session they name different compilers.
* A `Render` that starts after `Close` waits for a handle for ever (render.go:206).
* `Close` drains what is in the channel (render.go:194) and returns while a call is still in the
  library, though render.go:184 says that it waits for renderers in use.
* `Update` (session.go:119) renews a session that has expired and not been swept, though by
  session.go:95-96 `Get` reports it as gone.
* Any error drops an architecture from a version and the run goes on (resolve.go:46-50), throttling and
  an interrupt included. `InterruptStops` holds because the requests for the tools, which come after,
  end an interrupted run; a manifest without Kotlin and Groovy has none, and would be saved.
* Two architectures of a version may come from builds of different status, of which `Representative`
  (resolve.go:670-671) sees the first.
* `plan -platform` leaves out versions not resolved for the platform and keeps the tools built on them.
* `Save` (manifest.go:216) is not atomic: a process that dies in it leaves `file` cut.
* An escape at the end of a line hides the line break (detect.go:386), so that a lone quote pairs with
  one of the next line. `LinesAreFinal` makes an exception of it.
* When the first class of the walk exceeds `MaxBytes`, `Compile` reports a failed compilation although
  it wrote classes.

### Bounds, symmetry, deadlock

`SessionIds`, `MessageIds` and `Buffers` are addresses: their number bounds how many snippets, messages
and buffers there ever are. Two sessions in a chat are what it takes to replace one; two handlers are what
it takes to interleave; a third session, which comes after two that were mixed up, is covered by the
theorems about `MessageIsItsOwn` and `KindIsItsOwn` only; two index callers are one that walks and one
that queues or asks for a retry. `MaxTime` bounds the clock at one tick past the lifetime, so a session
can be fresh, at its limit and expired. `MaxRestarts` bounds crashes; `MaxImages` the images a caller
holds. `presses` leaves time out (`MaxTime = 0`): what a compile picks up does not depend on when a
session ends, beyond what a replaced or discarded one does. `serial` and `chats` have both, and get by
with `SerialSpec` and `ChatsSpec`: time passes and the process dies while there has been one session at
most; in `serial` addresses are used in order, and in `chats` the buttons that are pressed are one that
opens a panel, one that changes the session, compile and discard. The store in `parts` has no targets and
no view flags: they are fields like the release, they vary in the runs of Handlers, and the theorems do
not bound them. In `sync` one lock adds a version and an image to the other and gives a jar another
content; three faults are enough for a deploy to die, for the next to fail on what it left, and for a
third.

In `resolve` the manifests cover what the loops distinguish: a version with early access builds only,
one that lacks an architecture, a musl build listed first, a build without a URL, a host with a digest
and one without, a Kotlin whose coroutines have their old name; two manifests are there to be refused.
An archive is republished once (`MaxEdition`), which is enough for foojay and a digest to disagree;
`MaxAttempts` is the code's own. In `parts` the limits are below what three classes need, both by
number and by bytes, in an order of the walk that is not the order of names. Among the names are two
that differ in capitals only, one that ends in another, two of equal rank, and a preferred package; the
index and the tree differ in one class at most (`WalkedOften`), as a lookup reads one file. Five
characters hold a literal with something in it, or a line, and what follows.

Symmetry is declared over identities only, and only in `presses` and `chats`, which have no liveness
property. The runs of Handlers, `chats` and `parts` say `CHECK_DEADLOCK FALSE` because the supply
of addresses ends: when every message and session has been used the model has nothing to do, where the
program would go on, and a snippet of the greatest length does not grow any more. Those of the renderer
say it because after Close the callers really do wait for ever. `index`, `sync` and
`resolve` check for deadlock.

### Fairness

* SessionStore: weak fairness of `Sweep`; `SweepEvery` calls it on a ticker for as long as the process
  lives.
* Handlers: weak fairness of each handler's steps. The Go scheduler runs every goroutine, Telegram
  calls end at the client's timeout and the compile at its own, which `EveryCompileEnds` shows. No fairness for users or crashes.
* SysclassIndex: `Spec` is fair to the steps that do not touch the disk, so a walk may hang; a caller
  that waits must still be served. The mutex is modelled without a queue and no starvation property is
  stated of the first walk's waiters. `RecoveryIsPickedUp` has as its premise `Busy`: walks end, people
  keep asking and time passes. It is a premise of that property and not a part of `Spec` because the
  others must hold without it.
* RendererPool: weak fairness of each caller's steps, which includes closing the images it holds (a
  deferred loop in bot.go). The channel serves receivers in order, which `waiting` models; no strong
  fairness is needed. `EveryCallReturns` is about a renderer that is never closed, as the bot calls
  `Close` only when it stops.
* HostSync: commands end, and people go on deploying. Errors and crashes have no fairness; that there
  are finitely many is what `DeploysRecover` is conditional on.
* Resolver: weak fairness of its steps: the client has a timeout, and a wait its limit. Nothing is
  assumed of the servers.
* Compiler: weak fairness of the program's own steps and of the deadline, which a context with a
  timeout brings. None of the container.

## Theorems

All for any values of the constants, under the assumptions named in the modules:

* `NilAssumption`: the null value is none of the others; `RendererAssumption`: likewise, pictures have
  sizes that are numbers, and there is at least one handle, which `New` sees to;
* `TimeAssumption`: the lifetime is positive, which `NewStore` sees to;
* `HandlersAssumption`: the chains are of the catalog's types, a Java release's ID ends in its major
  version, and what a stray button chooses is in `Languages`, `ReleaseIds` or `TargetIds`; these are all
  that a button may say, and it need not be in the catalog;
* `SyncAssumption`: a lock names one content for each path of a jar, and a file cut short has no hash
  that a lock names;
* `ResolverAssumption`: manifests and builds have their types, the line of a tool is a function of its
  version (it is computed from it), and an archive that is republished is an early access build;
* `CompilerAssumption`: the walk and the names are two orders of the same classes;
* `LookupAssumption`: there are finitely many classes, a name has one part more than it has packages at
  least, every part has a spelling in lower case, and no two classes differ only in a dot for a dollar.

* **SnippetSlotProofs**: `OneSlot`, `NeverBackHolds`. `OneSlotPerSnippet` is inductive: a snippet in a
  slot is spent, and only an unspent one is put.
* **SessionStoreProofs**: `StoreTypeCorrect`, `EntriesBelong`, `SuffixesFollow`,
  `StoreImplementsSlot`, `NeverServedAgain`. The inductive invariant `StoreInv` is the conjunction of
  type correctness, `EntryBelongsToChat` and `FilesFollowLanguage`: each needs the others, since an
  `Update` writes the object an entry points to, whose type is only known because entries are allocated.
  The lemma `ChangesAreSound` says once, of every closure, that it keeps the chat and keeps the files
  with the language; `UpdateKeeps` then covers all updates. The refinement follows step by step: `Start`
  is `Put`, `Get`, `Delete`, `Sweep` and `Restart` are `Drop`, everything else stutters.
  `NeverServedAgain` carries the slot's promise over to the store.
* **SysclassIndexProofs**: `IndexTypeCorrect`, `WalksAreNeededHolds`, `CompleteIsKeptHolds`,
  `AnswersDoNotRegressHolds`. `IndexInv` adds to the type invariant who holds the lock (`OneHolder`),
  what a caller's pointer is worth (`PointersAreWorth`: a caller past the first test has seen no
  complete index, and while its pointer is in place that index is still due), that only callers whose
  pointer is in place walk (`WalkersAreFirst`), and that what is returned is current. Without
  `PointersAreWorth` a second walker could not be told from one that is about to replace a good index.

* **HostSyncProofs**: `SyncTypeCorrect`, `FinishedIsCompleteHolds`, `JarsAreLockedHolds`,
  `DoneIsReadyHolds`, `SyncImplementsContents`, `DeploysOnlyAdd`, `DeploysKeepTheirPromise`,
  `StockedStaysHolds`. None of these is inductive by itself. `SyncInv` adds what a
  deploy knows of the item at hand (`ItemAtHand`: it was not finished when it was looked at, a copy that
  is about to be renamed is whole, a download that is about to be renamed has the right hash) and what
  it may conclude of the items behind it (`ImagesSoFar`, `MajorsSoFar`, `JarsSoFar`: what is no longer on
  the list is in place; `ScratchSoFar`). Each kind of step has a lemma (`ExtractingKeeps`,
  `FetchingKeeps`, `FinishingKeeps`, and `OverKeeps` for everything that ends a deploy, death included),
  and only `Rename` and `RenameJar`, which publish, need an argument of their own. The proof for
  `RenameJar` uses that a lock names one content for each path: otherwise a later item would undo an
  earlier one.

  The refinement needs one fact more, `RestIsAsked`: what is left of a list is in the lock that is being
  deployed, so that what is added was asked for. `PullImage`, `Rename` and `RenameJar` are then the steps
  `Pull`, `Stock` and `Install`, the last step of a deploy is `Keep`, which `DoneIsReady` allows, a fault or
  a crash is `Break`, and every other step is not seen: the one directory that is removed or replaced has no
  `java` in it. What HostContents promises of itself carries over (`DeploysOnlyAdd`,
  `DeploysKeepTheirPromise`); `StockedStaysHolds` is a corollary.

* **RendererPoolProofs**: `PoolTypeCorrect`, `LeasesAreExclusive`, `BuffersAreOwned`,
  `PicturesStayIntact`. `PoolInv` ties what a goroutine has to where it is: it has a handle exactly at
  the labels between the lease and its return (`LeasesFit`), and a buffer exactly while it fills one
  (`BuffersFit`). `LeaseIsExclusive` is not inductive without `FreedStayOut` (what `Close` has freed is
  not in the channel), and `ImagesStayIntact` needs `FillsFit`: a buffer is wrapped with the caller's
  picture in it and with room for it, and the buffer of an image is in nobody else's hands.

* **AlgorithmsProofs**: `ResultsAreWhatWasWritten`, `AnswerIsBestHolds`, `QuestionsAreSettledHolds`,
  `StrippingIsLocalHolds`. Of a compile, `CompileInv` says that what the walk kept comes
  before what is left, and that it stopped only at a class that does not fit (`WalkFits`); and of the
  container that it is not running when the directory is read: if it outlives its command, nobody
  looks (`ContainerFits`).

  A lookup: `WinnersAreBest` says of pick's loop that after any number of matches the winners are the best
  of those it has seen, and `LowestTierIsBest` that whoever is in the lowest tier with a match goes before
  whoever is in another. `SuffixIsTheEnd` connects the names' own suffix test with its definition. A
  question is settled by a full name because such a name is in the first tier and alone in it
  (`FullNameIsItsClass`).

  A scan: what is to be shown is that a *window* of a text, its end or some lines of it, is blanked out as
  if it were a text of its own. `RoundsAgree` shows it of one round: the same characters are there
  (`PrefixAgrees`), and the ends of comments and literals that begin in a window are found in the same
  place (`CommentsAgree`, `LiteralsAgree`, `IndexAgrees`) or both beyond it. `BlanksAgree` extends it to the
  whole scan, `LinesAreFinalIn` and `LiteralsAreOpaqueIn` draw the two conclusions.
  Two lemmas stand in for the induction over data that the prover does not offer: `FromTheEnd` (what holds
  of a position whenever it holds of all later ones holds of all, by a greatest counterexample) and
  `ScanIsDefined` (a function defined by recursion towards the end of a text exists, by the same argument,
  so that the recursive definitions mean what they say).

* **HandlersProofs**: for any number of handlers, `HandlersTypeCorrect`, `ScreensStayApart`,
  `CompilersGetTheirOwn`, `HandlersImplementStore` and `HandlersImplementSlot`. What a handler at a
  label has in its locals is `At`; `LocalsFit` adds the edit it is about to make and the job it runs.
  All of it is about the rest of the world through two functions only, `Owner` (the chat of each
  session) and `Shown` (the chat of each message). No step of anybody changes either where it is
  defined, so that `LocalsStay` settles the steps of all other handlers at once, and the proof of a step
  is about the handler that makes it. `CompilersGetTheirOwn` holds with torn reads because each value is
  looked up in the chain that was read before it, never trusted. The refinement goes step by step to
  SessionStore, and from there, by the store's own lemmas, to the slot: what is proved of the store and
  of the slot holds of the running bot.

  `MessagesStayPaired` and `QueriesHaveNoFiles` are about HandlersHistory, and hold for any number of
  handlers too. Neither is inductive by itself, because a handler may at any step act on sessions that are
  mixed. `HistoryInv` adds that two sessions which have to do with one message, the one that edits it, the
  one it was sent for and the one it shows, are the same or are both mixed (`Together`, `PairedIn`), and the
  like of a handler that is setting up or about to edit: the chat's session is its own, or both are mixed,
  or there is none (`GoesBy`). A handler that starts a session makes every other handler setting one up in
  that chat true to this, since all of their sessions become mixed; every other step leaves a chat's session
  or takes it away, adds no files to one and never changes whom a message was sent for (`Settled`), so that
  `OthersFollow` settles the other handlers at once.

* **ResolverProofs**: `ResolverTypeCorrect`, `ChecksumsWereServed`, `FavouritesAreLocked`,
  `SavedLocksServe`, `InterruptsStop`. `ResolverInv` says what is in the lock at every label (`LockFits`:
  each build is `Preferred` and its checksum was served in this run; a tool has the jars of its language)
  and how far the loops are: versions that are behind are locked (`JDKsIn`, `ToolsIn`), queries and offers
  that were passed have nothing to download (`QueriesFit`, `OffersFit`). That last part is what
  `FavouritesAreLocked` rests on: an error never goes on to a second choice. `SavedLocksServe` adds that
  a lock about to be saved is `Complete`. For the catalog (`CompleteFillsTheCatalog`) it needs that a lock
  has builds of the manifest's versions only, and that these have a major version each: then what is read
  from `Representative` is the same whichever build stands for a version (`RepresentativesAre`). IDs of
  tools differ because no two are on one line, and levels because each is spelled in one way.
  `InterruptsStop` has the hypothesis that every manifest has a
  tool. Without it the theorem is false, for the reason given under "Runs"; the repository's manifest
  has tools.

The assumptions meet: what HostSync assumes of a lock, one content for each path of a jar, is part of what
`SavedLocksServe` proves of every lock that `resolve` saves (`JarsNamedOnce`), and so is what Handlers
assumes of its chains (`IsChain` of `CatalogServes`). The catalog's IDs also keep a press
from choosing another release than the button names.

Two things came to light in the proofs. `Tier`, `Command`, `CommentEnd` and `LiteralEnd` had been
CASE expressions with overlapping conditions, of which TLA+ takes any: TLC takes the first, as Go does, so that
no run could tell; they are IFs now. And `StockedStays` turned out to be a consequence of more, that
a deploy only adds what is asked for; the run `sync` checks the refinement itself.

What is only model-checked: all liveness properties (`ExpiredIsSwept`, `EveryPressAnswered`,
`ServedDuringRetry`, `RecoveryIsPickedUp`, `EveryCallReturns`, `DeploysRecover`, `ResolveEnds`,
`EveryCompileEnds`), which rest on fairness and are out of the prover's reach. `InterruptStops` is proved
for manifests that have tools, as its theorem says. Every other invariant and action property of the runs
that pass is proved for any values of the constants.

## Not modelled

The text of messages and captions; the detector's scores over regular expressions (the Handlers' model
lets it answer any language); `Normalize` and `LooksLikeQuery`, which rewrite and recognise text before a
lookup; the container's flags; the commands `show`, `majors`, `deps` and `probe`, which print what they
read; Telegram's own reordering of calls made by one handler (a handler waits for
each call to return); the container runtime; the bot's start-up failures. A callback query whose message
is no longer accessible makes `callback` dereference nil (bot.go:127): the library recovers nothing, the
process would die, which is the action `Crash`. A press whose data does not decode is dropped without
an answer (`IgnorePress`); `EveryPressAnswered` is about the bot's own buttons.

HostSync rests on four assumptions about a host. Deploys come one after the other (nothing in the tool
locks the directories). `os.RemoveAll` of an old `.partial` succeeds: its error is dropped (sync.go:114),
and if the old copy stayed, `docker cp` would put the new one inside it and a rename would publish the
old one. `os.Stat` and the hash of a jar fail only when there is nothing to read. What was written is on
the disk after a crash: nothing is flushed explicitly, so a power failure is another matter than the
death of a process. It is run as root, as a deploy does; a lock that cannot be read ends the tool before
it has done anything.

Compiler assumes that the command ends by itself only with its container, and Lookup that no two classes
differ only in a dot for a dollar, which no JDK has. A lookup may fail, on a missing index or a file that
cannot be read or is too large; what `Normalize` refuses is left out. Resolver assumes that a released
archive does not change under its URL (`ResolverAssumption`), as the code does when it takes foojay's word
for one. What is hashed for want of any published checksum (`Hash`, `ToolHash`) is taken for what the host
serves: a download that is damaged and still ends without an error would be pinned (resolve.go:620-642), and
nothing at hand could tell. A jar without a checksum next to it, or with an empty one, counts as one that
does not exist, in the code (resolve.go:344-345) and so in the model: `Absent` is such jars, and
`PreferredIsLocked` says that the old name of the coroutines is used for those only.

The call that answers a press may fail and is only logged; `EveryPressAnswered` is about its being made,
and a process that dies takes its presses with it (`Crash`).

## Plan

Done, in this order: SnippetSlot, SessionStore, Catalog, Handlers, SysclassIndex, RendererPool, HostSync;
LockFile, CatalogFromLock, Resolver, Compiler, Lookup, Detect; the proofs of SnippetSlot, SessionStore,
SysclassIndex and HostSync, then of RendererPool, Compiler, Handlers and Resolver; HostContents and the
proof that HostSync implements it; the proofs of Lookup and Detect; the catalog of a saved lock;
HandlersHistory and its proofs.

Not done, and worth doing next:

1. HostContents composed with SysclassIndex, in which a deploy runs under a walk and the bot is restarted
   after it. SysclassIndex allows for more, a disk that changes in any way between two steps of a walk, so
   that its theorems hold of the composition; what it would add is a statement of what the bot comes to see.
2. SysclassIndex under Handlers: `systemClass` loads the index twice (bot.go:186-191). `AnswersDoNotRegress`
   keeps a complete index from changing in between; one loaded while incomplete may yet lose the chosen version.
3. A lock that is read back. `file` is cut short by a crash in `Save`, and the commands that read it then fail.
