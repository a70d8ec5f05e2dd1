------------------------------ MODULE Machine -------------------------------
(***************************************************************************)
(* The machine that the commands run on.                                   *)
(***************************************************************************)
CONSTANTS
  Processes,   \* processes that run one command after the other
  Dirs         \* directories
=============================================================================
