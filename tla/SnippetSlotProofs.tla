------------------------- MODULE SnippetSlotProofs -------------------------
(* Proofs about SnippetSlot, for any sets of chats and snippets.            *)
EXTENDS SnippetSlot, TLAPS

(* Slots and spent snippets keep their types.                               *)
THEOREM SlotTypeCorrect == SlotSpec => []SlotTypeOK
<1>1. SlotInit => SlotTypeOK
  BY DEF SlotInit, SlotTypeOK
<1>2. SlotTypeOK /\ [SlotNext]_slotVars => SlotTypeOK'
  <2> SUFFICES ASSUME SlotTypeOK, [SlotNext]_slotVars
               PROVE  SlotTypeOK'
    OBVIOUS
  <2>1. ASSUME NEW c \in Chats, NEW s \in SessionIds, Put(c, s)
        PROVE  SlotTypeOK'
    BY <2>1 DEF SlotTypeOK, Put
  <2>2. ASSUME NEW D \in SUBSET Chats, Drop(D)
        PROVE  SlotTypeOK'
    BY <2>2 DEF SlotTypeOK, Drop
  <2>3. CASE UNCHANGED slotVars
    BY <2>3 DEF SlotTypeOK, slotVars
  <2> QED
    BY <2>1, <2>2, <2>3 DEF SlotNext
<1> QED
  BY <1>1, <1>2, PTL DEF SlotSpec

(* No two chats hold the same snippet, because only an unspent one is put   *)
(* in a slot: session.Store.Start makes a new object every time.            *)
THEOREM OneSlot == SlotSpec => []OneSlotPerSnippet
<1>1. SlotInit => OneSlotPerSnippet
  BY DEF SlotInit, OneSlotPerSnippet
<1>2. SlotTypeOK /\ OneSlotPerSnippet /\ [SlotNext]_slotVars => OneSlotPerSnippet'
  <2> SUFFICES ASSUME SlotTypeOK, OneSlotPerSnippet, [SlotNext]_slotVars
               PROVE  OneSlotPerSnippet'
    OBVIOUS
  <2>1. ASSUME NEW c \in Chats, NEW s \in SessionIds, Put(c, s)
        PROVE  OneSlotPerSnippet'
    BY <2>1 DEF SlotTypeOK, OneSlotPerSnippet, Put
  <2>2. ASSUME NEW D \in SUBSET Chats, Drop(D)
        PROVE  OneSlotPerSnippet'
    BY <2>2 DEF SlotTypeOK, OneSlotPerSnippet, Drop
  <2>3. CASE UNCHANGED slotVars
    BY <2>3 DEF OneSlotPerSnippet, slotVars
  <2> QED
    BY <2>1, <2>2, <2>3 DEF SlotNext
<1> QED
  BY <1>1, <1>2, SlotTypeCorrect, PTL DEF SlotSpec

(* A snippet that was replaced or dropped never returns to a slot.          *)
THEOREM NeverBackHolds == SlotSpec => NeverBack
<1>1. SlotTypeOK /\ [SlotNext]_slotVars =>
        [\A c \in Chats : \A s \in spent \ {Nil} : slot[c] # s => slot'[c] # s]_slotVars
  <2> SUFFICES ASSUME SlotTypeOK, [SlotNext]_slotVars,
                      NEW c \in Chats, NEW s \in spent \ {Nil}, slot[c] # s
               PROVE  slot'[c] # s \/ UNCHANGED slotVars
    OBVIOUS
  <2>1. ASSUME NEW d \in Chats, NEW t \in SessionIds, Put(d, t)
        PROVE  slot'[c] # s
    BY <2>1 DEF SlotTypeOK, Put
  <2>2. ASSUME NEW D \in SUBSET Chats, Drop(D)
        PROVE  slot'[c] # s
    BY <2>2 DEF SlotTypeOK, Drop
  <2> QED
    BY <2>1, <2>2 DEF SlotNext
<1> QED
  BY <1>1, SlotTypeCorrect, PTL DEF SlotSpec, NeverBack
=============================================================================
