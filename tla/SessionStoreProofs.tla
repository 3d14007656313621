------------------------- MODULE SessionStoreProofs -------------------------
(* Proofs about SessionStore, for any chats, session objects, settings and  *)
(* lifetime.                                                                *)
EXTENDS SessionStore, TLAPS

(* What a caller may hand to Update: a session made from the chat's own.    *)
(* Whatever it changes, the chat and, file suffix and language together,    *)
(* the kind of file stay.                                                   *)
Changed(old, new) ==
  /\ new \in Session
  /\ new.chat = old.chat
  /\ (old.files # Nil => old.files = old.language) =>
       (new.files # Nil => new.files = new.language)

LEMMA ChangesAreSound ==
  ASSUME NEW old \in Session
  PROVE  \A new \in Changes(old) : Changed(old, new)
<1>1. \A l \in Languages : Changed(old, SetLanguage(old, l))
  BY DEF Changed, SetLanguage, Session
<1>2. \A r \in ReleaseIds : Changed(old, SetRelease(old, r))
  BY DEF Changed, SetRelease, Session
<1>3. \A t \in TargetIds : Changed(old, SetTarget(old, t))
  BY DEF Changed, SetTarget, Session
<1>4. \A f \in ViewFlags : Changed(old, ToggleView(old, f))
  BY DEF Changed, ToggleView, Session
<1>5. \A m \in MessageIds : Changed(old, SetMessage(old, m))
  BY DEF Changed, SetMessage, Session
<1>6. \A q \in Queries, r \in ReleaseIds \union {Nil}, t \in TargetIds \union {Nil} :
        Changed(old, SetQuery(old, q, r, t))
  BY DEF Changed, SetQuery, Session
<1> QED
  BY <1>1, <1>2, <1>3, <1>4, <1>5, <1>6 DEF Changes

(* The inductive invariant: types, entries and suffixes hold each other up. *)
StoreInv == StoreTypeOK /\ EntryBelongsToChat /\ FilesFollowLanguage

LEMMA AllocatedIsTyped ==
  ASSUME StoreTypeOK, NEW s \in SessionIds
  PROVE  /\ s \in Allocated <=> heap[s] \in Session
         /\ s \notin Allocated <=> heap[s] = Nil
  BY NilAssumption DEF StoreTypeOK, Allocated

LEMMA UpdateKeeps ==
  ASSUME StoreInv, NEW c \in Chats, NEW new,
         byChat[c] # Nil => Changed(heap[byChat[c]], new),
         Update(c, new)
  PROVE  StoreInv' /\ Allocated' = Allocated /\ byChat' = byChat
<1>1. CASE byChat[c] = Nil
  BY <1>1 DEF Update, StoreInv, StoreTypeOK, EntryBelongsToChat, FilesFollowLanguage, Allocated
<1>2. CASE byChat[c] # Nil
  <2> DEFINE s == byChat[c]
             stored == [new EXCEPT !.updated = now]
  <2>1. s \in SessionIds /\ s \in Allocated /\ heap[s] \in Session
    BY <1>2, AllocatedIsTyped DEF StoreInv, StoreTypeOK, EntryBelongsToChat
  <2>2. Changed(heap[s], new)
    BY <1>2
  <2>3. /\ stored \in Session
        /\ stored.chat = heap[s].chat
        /\ stored.files # Nil => stored.files = stored.language
    <3>1. heap[s].files # Nil => heap[s].files = heap[s].language
      BY <2>1 DEF StoreInv, FilesFollowLanguage
    <3>2. now \in Nat
      BY DEF StoreInv, StoreTypeOK
    <3>3. /\ stored \in Session
          /\ stored.chat = new.chat /\ stored.files = new.files
          /\ stored.language = new.language
      BY <2>2, <3>2 DEF Changed, Session
    <3> QED
      BY <2>2, <3>1, <3>3 DEF Changed
  <2>4. heap' = [heap EXCEPT ![s] = stored] /\ byChat' = byChat /\ now' = now
    BY <1>2 DEF Update
  <2> HIDE DEF s, stored
  <2>5. StoreTypeOK'
    BY <2>1, <2>3, <2>4 DEF StoreInv, StoreTypeOK
  <2>6. Allocated' = Allocated
    BY <2>1, <2>3, <2>4, NilAssumption DEF Allocated, StoreInv, StoreTypeOK
  <2>7. EntryBelongsToChat'
    BY <2>1, <2>3, <2>4, <2>6 DEF StoreInv, EntryBelongsToChat, Allocated, StoreTypeOK
  <2>8. FilesFollowLanguage'
    BY <2>1, <2>3, <2>4, <2>6 DEF StoreInv, FilesFollowLanguage, Allocated, StoreTypeOK
  <2> QED
    BY <2>4, <2>5, <2>6, <2>7, <2>8 DEF StoreInv
<1> QED
  BY <1>1, <1>2

LEMMA DropKeeps ==
  ASSUME StoreInv, UNCHANGED <<heap, now>>,
         byChat' \in [Chats -> SessionIds \union {Nil}],
         \A c \in Chats : byChat'[c] \in {byChat[c], Nil}
  PROVE  StoreInv'
  BY DEF StoreInv, StoreTypeOK, EntryBelongsToChat, FilesFollowLanguage, Allocated

LEMMA GetResultIsEntryOrNil ==
  ASSUME StoreTypeOK, NEW c \in Chats
  PROVE  GetResult(c) \in {byChat[c], Nil} /\ GetResult(c) \in SessionIds \union {Nil}
  BY DEF GetResult, StoreTypeOK

LEMMA StartKeeps ==
  ASSUME StoreInv, NEW c \in Chats, NEW s \in SessionIds, NEW l \in Languages,
         NEW files \in {Nil, l}, Start(c, s, files, l)
  PROVE  StoreInv' /\ Slot!Put(c, s)
<1> DEFINE fresh == NewSession(c, files, l)
<1>1. fresh \in Session /\ fresh.chat = c /\ fresh.language = l /\ fresh.files = files
  BY DEF NewSession, Session, StoreInv, StoreTypeOK
<1>2. /\ heap' = [heap EXCEPT ![s] = fresh]
      /\ byChat' = [byChat EXCEPT ![c] = s]
      /\ now' = now
      /\ s \notin Allocated
  BY DEF Start
<1> HIDE DEF fresh
<1>3. StoreTypeOK'
  BY <1>1, <1>2 DEF StoreInv, StoreTypeOK
<1>4. Allocated' = Allocated \union {s}
  BY <1>1, <1>2, NilAssumption DEF Allocated, StoreInv, StoreTypeOK
<1>5. EntryBelongsToChat'
  BY <1>1, <1>2, <1>4 DEF StoreInv, StoreTypeOK, EntryBelongsToChat, Allocated
<1>6. FilesFollowLanguage'
  BY <1>1, <1>2, <1>4 DEF StoreInv, StoreTypeOK, FilesFollowLanguage, Allocated
<1> QED
  BY <1>2, <1>3, <1>4, <1>5, <1>6 DEF StoreInv, Slot!Put

LEMMA WriteMessageKeeps ==
  ASSUME StoreInv, NEW s \in SessionIds, NEW m \in MessageIds, WriteMessage(s, m)
  PROVE  StoreInv' /\ Allocated' = Allocated /\ byChat' = byChat
<1> DEFINE written == [heap[s] EXCEPT !.message = m]
<1>1. s \in Allocated /\ heap[s] \in Session
  BY AllocatedIsTyped DEF WriteMessage, StoreInv
<1>2. /\ written \in Session /\ written.chat = heap[s].chat
      /\ written.files = heap[s].files /\ written.language = heap[s].language
  BY <1>1 DEF Session
<1>3. heap' = [heap EXCEPT ![s] = written] /\ byChat' = byChat /\ now' = now
  BY DEF WriteMessage
<1> HIDE DEF written
<1>4. Allocated' = Allocated
  BY <1>1, <1>2, <1>3, NilAssumption DEF Allocated, StoreInv, StoreTypeOK
<1> QED
  BY <1>1, <1>2, <1>3, <1>4
  DEF StoreInv, StoreTypeOK, EntryBelongsToChat, FilesFollowLanguage, Allocated

LEMMA UpdatesKeep ==
  ASSUME StoreInv, NEW c \in Chats, Updates(c)
  PROVE  StoreInv' /\ Allocated' = Allocated /\ byChat' = byChat
<1>1. byChat[c] # Nil => heap[byChat[c]] \in Session
  BY AllocatedIsTyped DEF StoreInv, StoreTypeOK, EntryBelongsToChat
<1>2. PICK new : Update(c, new) /\ (byChat[c] # Nil => Changed(heap[byChat[c]], new))
  BY <1>1, ChangesAreSound DEF Updates
<1> QED
  BY <1>2, UpdateKeeps

LEMMA NextKeeps == StoreInv /\ [StoreNext]_storeVars => StoreInv'
<1> SUFFICES ASSUME StoreInv, [StoreNext]_storeVars
             PROVE  StoreInv'
  OBVIOUS
<1>1. ASSUME NEW c \in Chats, NEW s \in SessionIds, NEW l \in Languages,
             NEW files \in {Nil, l}, Start(c, s, files, l)
      PROVE  StoreInv'
  BY <1>1, StartKeeps
<1>2. ASSUME NEW c \in Chats, Get(c)
      PROVE  StoreInv'
  BY <1>2, GetResultIsEntryOrNil, DropKeeps DEF Get, StoreInv, StoreTypeOK
<1>3. ASSUME NEW c \in Chats, Updates(c)
      PROVE  StoreInv'
  BY <1>3, UpdatesKeep
<1>4. ASSUME NEW c \in Chats, Delete(c)
      PROVE  StoreInv'
  BY <1>4, DropKeeps DEF Delete, StoreInv, StoreTypeOK
<1>5. ASSUME NEW s \in SessionIds, NEW m \in MessageIds, WriteMessage(s, m)
      PROVE  StoreInv'
  BY <1>5, WriteMessageKeeps
<1>6. CASE Sweep
  BY <1>6, GetResultIsEntryOrNil, DropKeeps DEF Sweep, StoreInv
<1>7. CASE Tick
  BY <1>7
  DEF Tick, StoreInv, StoreTypeOK, EntryBelongsToChat, FilesFollowLanguage, Allocated
<1>8. CASE Restart
  BY <1>8, DropKeeps DEF Restart
<1>9. CASE UNCHANGED storeVars
  BY <1>9
  DEF storeVars, StoreInv, StoreTypeOK, EntryBelongsToChat, FilesFollowLanguage, Allocated
<1> QED
  BY <1>1, <1>2, <1>3, <1>4, <1>5, <1>6, <1>7, <1>8, <1>9 DEF StoreNext

LEMMA InitHolds == StoreInit => StoreInv
  BY DEF StoreInit, StoreInv, StoreTypeOK, EntryBelongsToChat, FilesFollowLanguage, Allocated

THEOREM StoreInvariant == StoreInit /\ [][StoreNext]_storeVars => []StoreInv
  BY InitHolds, NextKeeps, PTL

(* Every session object, the map and the clock keep their types.            *)
THEOREM StoreTypeCorrect == StoreSpec => []StoreTypeOK
  BY StoreInvariant, PTL DEF StoreSpec, StoreInv

(* A chat's entry is always a session that was started for that chat.       *)
THEOREM EntriesBelong == StoreSpec => []EntryBelongsToChat
  BY StoreInvariant, PTL DEF StoreSpec, StoreInv

(* No order of guesses and overrides leaves a snippet under a suffix that   *)
(* is not its language's.                                                   *)
THEOREM SuffixesFollow == StoreSpec => []FilesFollowLanguage
  BY StoreInvariant, PTL DEF StoreSpec, StoreInv

-----------------------------------------------------------------------------
(* Refinement: only Start brings an object into a slot, and a new one.      *)
LEMMA InitImplements == StoreInit => Slot!SlotInit
  BY DEF StoreInit, Slot!SlotInit, Allocated

LEMMA NextImplements ==
  StoreInv /\ [StoreNext]_storeVars => [Slot!SlotNext]_(Slot!slotVars)
<1> SUFFICES ASSUME StoreInv, [StoreNext]_storeVars
             PROVE  Slot!SlotNext \/ UNCHANGED Slot!slotVars
  OBVIOUS
<1> USE DEF Slot!SlotNext, Slot!slotVars
<1>1. ASSUME NEW c \in Chats, NEW s \in SessionIds, NEW l \in Languages,
             NEW files \in {Nil, l}, Start(c, s, files, l)
      PROVE  Slot!SlotNext
  BY <1>1, StartKeeps
<1>2. ASSUME UNCHANGED heap,
             byChat' \in [Chats -> SessionIds \union {Nil}],
             \A c \in Chats : byChat'[c] \in {byChat[c], Nil}
      PROVE  Slot!SlotNext
  <2> DEFINE D == {c \in Chats : byChat'[c] = Nil}
  <2>1. byChat' = [c \in Chats |-> IF c \in D THEN Nil ELSE byChat[c]]
    BY <1>2
  <2>2. Allocated' = Allocated
    BY <1>2 DEF Allocated
  <2> QED
    BY <2>1, <2>2 DEF Slot!Drop
<1>3. ASSUME NEW c \in Chats, Get(c)
      PROVE  Slot!SlotNext
  BY <1>2, <1>3, GetResultIsEntryOrNil DEF Get, StoreInv, StoreTypeOK
<1>4. ASSUME NEW c \in Chats, Updates(c)
      PROVE  UNCHANGED Slot!slotVars
  BY <1>4, UpdatesKeep
<1>5. ASSUME NEW c \in Chats, Delete(c)
      PROVE  Slot!SlotNext
  BY <1>2, <1>5 DEF Delete, StoreInv, StoreTypeOK
<1>6. ASSUME NEW s \in SessionIds, NEW m \in MessageIds, WriteMessage(s, m)
      PROVE  UNCHANGED Slot!slotVars
  BY <1>6, WriteMessageKeeps
<1>7. CASE Sweep
  BY <1>2, <1>7, GetResultIsEntryOrNil DEF Sweep, StoreInv
<1>8. CASE Tick
  BY <1>8 DEF Tick, Allocated
<1>9. CASE Restart
  BY <1>2, <1>9 DEF Restart
<1>10. CASE UNCHANGED storeVars
  BY <1>10 DEF storeVars, Allocated
<1> QED
  BY <1>1, <1>3, <1>4, <1>5, <1>6, <1>7, <1>8, <1>9, <1>10 DEF StoreNext

(* The store implements the slot.                                           *)
THEOREM StoreImplementsSlot == StoreSpec => ImplementsSlot
  BY StoreInvariant, InitImplements, NextImplements, PTL
  DEF StoreSpec, ImplementsSlot, Slot!SlotSpec

(* A session that was replaced, discarded, expired or lost to a restart is  *)
(* never again the one a chat's buttons act on.                             *)
SlotProofs == INSTANCE SnippetSlotProofs WITH slot <- byChat, spent <- Allocated

THEOREM NeverServedAgain == StoreSpec => Slot!NeverBack
<1>1. SlotProofs!SlotSpec => SlotProofs!NeverBack
  BY SlotProofs!NeverBackHolds
<1>2. SlotProofs!SlotSpec <=> Slot!SlotSpec
  BY DEF SlotProofs!SlotSpec, Slot!SlotSpec, SlotProofs!SlotInit, Slot!SlotInit,
         SlotProofs!SlotNext, Slot!SlotNext, SlotProofs!slotVars, Slot!slotVars,
         SlotProofs!Put, Slot!Put, SlotProofs!Drop, Slot!Drop
<1>3. SlotProofs!NeverBack <=> Slot!NeverBack
  BY DEF SlotProofs!NeverBack, Slot!NeverBack, SlotProofs!slotVars, Slot!slotVars
<1> QED
  BY <1>1, <1>2, <1>3, StoreImplementsSlot, PTL DEF ImplementsSlot
=============================================================================
