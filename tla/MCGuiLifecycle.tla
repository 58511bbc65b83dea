--------------------------- MODULE MCGuiLifecycle ---------------------------
(* GuiLifecycle for TLC.  Nothing but equality is asked of shells and pids.*)
EXTENDS GuiLifecycle, TLC

Alike == Permutations(Shells) \cup Permutations(Pids)
=============================================================================
