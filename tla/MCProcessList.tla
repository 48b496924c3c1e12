--------------------------- MODULE MCProcessList ---------------------------
(****************************************************************************)
(* Instances of ProcessList for TLC: how many pids, and which commands the  *)
(* user has.                                                                *)
(****************************************************************************)
EXTENDS ProcessList

TwoPids == 1..2

\* Some commands next to the highlighting of old and new rows.
OptionCommands == {"highlight", "hideKernel", "collapse"}

\* The others, which are those that change the panel most.
RowCommands == {"hideUserland", "follow", "filter", "tree", "pause", "invert",
                "updateNames"}

PauseCommands == {"tree", "pause", "invert"}
=============================================================================
