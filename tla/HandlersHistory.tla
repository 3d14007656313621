--------------------------- MODULE HandlersHistory ---------------------------
(* Handlers, and a record of which sessions were set up at the same time.    *)
(* From the Start of a session to the Update that stores its message, code   *)
(* and systemClass go by the chat, and take the session it has for the one   *)
(* they started. Nothing keeps another handler from starting one meanwhile.  *)
EXTENDS Handlers

VARIABLE mixed  \* history: the sessions that overlapped so with another

historyVars == <<vars, mixed>>

SettingUp(p) ==
  pc[p] \in {"sendKeyboard", "storeMessage", "queryFill", "queryGet", "sendName", "storeName"}

Started == Allocated' \ Allocated

Interrupted == {p \in Procs : SettingUp(p) /\ \E s \in Started : heap'[s].chat = loc[p].chat}

Record ==
  mixed' = IF Interrupted = {} THEN mixed
           ELSE mixed \union Started \union ({loc[p].s : p \in Interrupted} \ {Nil})

HistoryInit == Init /\ mixed = {}
HistoryNext == Next /\ Record
HistorySpec == HistoryInit /\ [][HistoryNext]_historyVars

-----------------------------------------------------------------------------
(* The two ways in which setting up two sessions at once goes wrong are all  *)
(* there are: a session that did not overlap with another has its own        *)
(* message, which shows it, whatever buttons are pressed at once, however    *)
(* the sessions before and after it were mixed up, with sweeps and crashes.  *)
MessageIsItsOwn == \A s \in Allocated \ mixed : HasOwnMessage(s)

(* And such a session is a snippet or a class, never both.                   *)
KindIsItsOwn == \A s \in Allocated \ mixed : HasOneKind(s)
=============================================================================
