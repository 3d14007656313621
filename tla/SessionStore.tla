---------------------------- MODULE SessionStore ----------------------------
(* internal/session/session.go: the sessions of the chats, kept in a map    *)
(* behind one mutex. Every method holds the mutex from its first line to    *)
(* its last, so each is one action. What a method returns is a pointer, and *)
(* callers go on using it after the mutex is released: the heap of session  *)
(* objects is therefore a variable of its own, apart from the map, and an   *)
(* object that has left the map is still there for whoever holds it.        *)
EXTENDS Integers

CONSTANTS
  Chats,       \* chat IDs
  SessionIds,  \* addresses of session objects; their number bounds the Starts
  Languages,   \* detect.Language, Unknown and languages without a compiler included
  ReleaseIds, TargetIds, ViewFlags, Queries, MessageIds,
  Nil,         \* nil pointer, empty string, message 0, empty slice
  Lifetime,    \* how long a session survives without an update
  MaxTime      \* bound on the clock

\* NewStore replaces a lifetime that is not positive by half an hour.
ASSUME TimeAssumption == Lifetime \in Nat \ {0} /\ MaxTime \in Nat

VARIABLES
  heap,    \* the session objects; Nil is an address not yet allocated
  byChat,  \* Store.byChat
  now      \* the clock behind time.Now

storeVars == <<heap, byChat, now>>

(* Files is one snippet whose content is told apart by the session it came  *)
(* with; what is kept of it is the language whose suffix its name carries.  *)
(* View holds the sections that can be toggled: methods always show.        *)
Session ==
  [chat : Chats, message : MessageIds \union {Nil},
   files : Languages \union {Nil}, query : Queries \union {Nil},
   language : Languages, release : ReleaseIds \union {Nil},
   target : TargetIds \union {Nil}, view : SUBSET ViewFlags, updated : Nat]

ASSUME NilAssumption ==
  /\ Nil \notin SessionIds /\ Nil \notin Languages /\ Nil \notin ReleaseIds
  /\ Nil \notin TargetIds /\ Nil \notin Queries /\ Nil \notin MessageIds
  /\ Nil \notin Session

Allocated == {s \in SessionIds : heap[s] # Nil}

StoreInit ==
  /\ heap = [s \in SessionIds |-> Nil]
  /\ byChat = [c \in Chats |-> Nil]
  /\ now = 0

\* Mutant of NewSession: the guessed language is not recorded.
UnguessedSession(c, files, language) ==
  [chat |-> c, message |-> Nil, files |-> files, query |-> Nil,
   language |-> Nil, release |-> Nil, target |-> Nil, view |-> {},
   updated |-> now]

\* Mutant of NewSession: the new snippet goes on in the old one's message.
SameMessageSession(c, files, language) ==
  [chat |-> c, message |-> IF byChat[c] = Nil THEN Nil ELSE heap[byChat[c]].message,
   files |-> files, query |-> Nil, language |-> language, release |-> Nil,
   target |-> Nil, view |-> {}, updated |-> now]

NewSession(c, files, language) ==
  [chat |-> c, message |-> Nil, files |-> files, query |-> Nil,
   language |-> language, release |-> Nil, target |-> Nil, view |-> {},
   updated |-> now]

\* Mutant of Start: session objects come from a pool and may be in use.
PooledStart(c, s, files, language) ==
  /\ heap' = [heap EXCEPT ![s] = NewSession(c, files, language)]
  /\ byChat' = [byChat EXCEPT ![c] = s]
  /\ UNCHANGED now

Start(c, s, files, language) ==
  /\ s \notin Allocated
  /\ heap' = [heap EXCEPT ![s] = NewSession(c, files, language)]
  /\ byChat' = [byChat EXCEPT ![c] = s]
  /\ UNCHANGED now

Expired(s) == now - heap[s].updated > Lifetime

Live(c) == byChat[c] # Nil /\ ~Expired(byChat[c])

Delete(c) ==
  /\ byChat' = [byChat EXCEPT ![c] = Nil]
  /\ UNCHANGED <<heap, now>>

(* Get returns the session of a live chat and drops an expired one; what it *)
(* returns is GetResult in the state before the step.                       *)
GetResult(c) == IF Live(c) THEN byChat[c] ELSE Nil

Get(c) ==
  /\ byChat' = [byChat EXCEPT ![c] = GetResult(c)]
  /\ UNCHANGED <<heap, now>>

(* Update(c, changed) writes the session the closure made of the chat's     *)
(* current one. There is no expiry check. Without a session it does nothing *)
(* and returns nil: the result is byChat[c] either way.                     *)
Update(c, changed) ==
  /\ heap' = IF byChat[c] = Nil THEN heap
             ELSE [heap EXCEPT ![byChat[c]] = [changed EXCEPT !.updated = now]]
  /\ UNCHANGED <<byChat, now>>

\* Mutant of Sweep: it allows a session twice its lifetime.
LaxSweep ==
  /\ byChat' = [c \in Chats |->
       IF byChat[c] # Nil /\ now - heap[byChat[c]].updated > 2 * Lifetime
       THEN Nil ELSE byChat[c]]
  /\ UNCHANGED <<heap, now>>

Sweep ==
  /\ byChat' = [c \in Chats |-> GetResult(c)]
  /\ UNCHANGED <<heap, now>>

\* Mutant of SetLanguage: the files keep the suffix of the first guess.
SetLanguageOnly(session, language) ==
  [session EXCEPT !.language = language, !.release = Nil, !.target = Nil]

(* The closures callers pass to Update.                                     *)
SetLanguage(session, language) ==
  [session EXCEPT !.language = language, !.release = Nil, !.target = Nil,
                  !.files = IF @ = Nil THEN Nil ELSE language]
SetRelease(session, release) ==
  [session EXCEPT !.release = release, !.target = Nil]
SetTarget(session, target) == [session EXCEPT !.target = target]
ToggleView(session, flag) ==
  [session EXCEPT !.view = (@ \ {flag}) \union ({flag} \ @)]
SetMessage(session, message) == [session EXCEPT !.message = message]
SetQuery(session, query, release, target) ==
  [session EXCEPT !.query = query, !.release = release, !.target = target]

(* systemClass also writes MessageID through the pointer it holds, without  *)
(* the mutex and whether or not the object is still in the map.             *)
WriteMessage(s, message) ==
  /\ s \in Allocated
  /\ heap' = [heap EXCEPT ![s].message = message]
  /\ UNCHANGED <<byChat, now>>

Tick ==
  /\ now < MaxTime
  /\ now' = now + 1
  /\ UNCHANGED <<heap, byChat>>

(* Nothing is persisted: a process that dies and comes back has no session. *)
Restart ==
  /\ byChat' = [c \in Chats |-> Nil]
  /\ UNCHANGED <<heap, now>>

\* What the callbacks and systemClass may make of a session.
Changes(session) ==
  {SetLanguage(session, l) : l \in Languages} \union
  {SetRelease(session, r) : r \in ReleaseIds} \union
  {SetTarget(session, t) : t \in TargetIds} \union
  {ToggleView(session, f) : f \in ViewFlags} \union
  {SetMessage(session, m) : m \in MessageIds} \union
  {SetQuery(session, q, r, t) : q \in Queries,
     r \in ReleaseIds \union {Nil}, t \in TargetIds \union {Nil}}

Updates(c) ==
  \/ byChat[c] = Nil /\ Update(c, Nil)
  \/ byChat[c] # Nil /\ \E changed \in Changes(heap[byChat[c]]) : Update(c, changed)

(* Callers are concurrent handlers and may call in any order. A snippet is  *)
(* named after the language it is guessed to be in.                         *)
StoreNext ==
  \/ \E c \in Chats, s \in SessionIds, l \in Languages :
       \E files \in {Nil, l} : Start(c, s, files, l)
  \/ \E c \in Chats : Get(c)
  \/ \E c \in Chats : Updates(c)
  \/ \E c \in Chats : Delete(c)
  \/ \E s \in SessionIds, m \in MessageIds : WriteMessage(s, m)
  \/ Sweep
  \/ Tick
  \/ Restart

(* SweepEvery runs Sweep on a ticker for as long as the process lives.      *)
StoreSpec == StoreInit /\ [][StoreNext]_storeVars /\ WF_storeVars(Sweep)

-----------------------------------------------------------------------------
StoreTypeOK ==
  /\ heap \in [SessionIds -> Session \union {Nil}]
  /\ byChat \in [Chats -> SessionIds \union {Nil}]
  /\ now \in Nat

(* A chat's entry is an allocated session that was started for that very    *)
(* chat: handlers reply to session.ChatID, so an entry under another chat's *)
(* key would put one chat's snippet on another chat's screen.               *)
EntryBelongsToChat ==
  \A c \in Chats : byChat[c] # Nil =>
    byChat[c] \in Allocated /\ heap[byChat[c]].chat = c

(* The suffix of a session's snippet is that of its language through any    *)
(* sequence of overrides: the compiler picks its frontend by suffix.        *)
FilesFollowLanguage ==
  \A s \in Allocated : heap[s].files # Nil => heap[s].files = heap[s].language

(* A snippet sent to a chat holds its source in memory for a bounded time:  *)
(* once expired it leaves the map, unless it is touched again first, even   *)
(* when the chat never comes back to call Get.                              *)
ExpiredIsSwept ==
  \A c \in Chats, s \in SessionIds :
    (byChat[c] = s /\ Expired(s)) ~> (byChat[c] # s \/ ~Expired(s))

(* The store implements the slot: one snippet per chat, and one that was    *)
(* replaced, dropped or expired out of the map is never served again.       *)
Slot == INSTANCE SnippetSlot WITH slot <- byChat, spent <- Allocated
ImplementsSlot == Slot!SlotSpec
=============================================================================
