------------------------------ MODULE MCHistory ------------------------------
(* A small instance of HandlersHistory for TLC. Of the buttons, those that    *)
(* are pressed open a panel, change the session, compile and discard; the    *)
(* others take the same paths through callback, which MCHandlers has.        *)
EXTENDS HandlersHistory, MCHandlers

FewButtons ==
  {Button("open", "lang"), Button("lang", Java), Button("compile", Nil), Button("cancel", Nil)}

OnlyFew == \A p \in Procs : loc[p].press \in FewButtons \union {Nil}

ChatsSpec == HistoryInit /\ [][HistoryNext /\ OnlyFew' /\ Early]_historyVars
=============================================================================
