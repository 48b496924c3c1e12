-------------------------- MODULE MCScreenManager --------------------------
(* A delay of two ticks; sorting waits for two timeouts instead of five, and*)
(* the loop ends after four early ones instead of a hundred.                *)
EXTENDS ScreenManager
=============================================================================
