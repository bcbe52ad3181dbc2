------------------------- MODULE MCTerminalLifecycle -------------------------
(* Bounded instances of TerminalLifecycle for TLC. *)
EXTENDS TerminalLifecycle
=============================================================================
