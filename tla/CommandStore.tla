---------------------------- MODULE CommandStore ----------------------------
(***************************************************************************)
(* What is common to the use of the command store (ActionCommands) and to  *)
(* its opening (LeaseMigration): the processes that share the SQLite file, *)
(* and the counter in it that no fencing token may repeat.                 *)
(***************************************************************************)

CONSTANTS
    Procs,      \* server processes opening the database
    MaxToken,   \* MAX_FENCING_TOKEN
    None        \* "no row", "no holder"

VARIABLE
    watermark   \* row of workspace_fencing_high_watermarks, 0 if absent
=============================================================================
