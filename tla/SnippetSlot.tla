---------------------------- MODULE SnippetSlot ----------------------------
(* What the session store promises a chat, free of fields, locks and time:  *)
(* a chat holds at most one snippet, a new snippet takes the place of the   *)
(* old one, and a snippet that has left its chat never comes back.          *)
CONSTANTS Chats, SessionIds, Nil

VARIABLES
  slot,   \* the snippet each chat holds, or Nil
  spent   \* the snippets that have ever been put in a slot

slotVars == <<slot, spent>>

SlotTypeOK ==
  /\ slot \in [Chats -> SessionIds \union {Nil}]
  /\ spent \subseteq SessionIds

SlotInit ==
  /\ slot = [c \in Chats |-> Nil]
  /\ spent = {}

Put(c, s) ==
  /\ s \notin spent
  /\ slot' = [slot EXCEPT ![c] = s]
  /\ spent' = spent \union {s}

\* Any number of chats may lose their snippet in one step: a sweep does.
Drop(D) ==
  /\ slot' = [c \in Chats |-> IF c \in D THEN Nil ELSE slot[c]]
  /\ UNCHANGED spent

SlotNext ==
  \/ \E c \in Chats, s \in SessionIds : Put(c, s)
  \/ \E D \in SUBSET Chats : Drop(D)

SlotSpec == SlotInit /\ [][SlotNext]_slotVars

(* A snippet is in the slot of at most one chat, and was put there.          *)
OneSlotPerSnippet ==
  /\ \A c, d \in Chats : slot[c] = slot[d] /\ slot[c] # Nil => c = d
  /\ \A c \in Chats : slot[c] # Nil => slot[c] \in spent

(* A snippet that is spent and out of a chat's slot stays out of it: neither *)
(* a late update nor a sweep brings a replaced or dropped snippet back.      *)
NeverBack ==
  [][\A c \in Chats : \A s \in spent \ {Nil} : slot[c] # s => slot'[c] # s]_slotVars
=============================================================================
