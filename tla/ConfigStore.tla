----------------------------- MODULE ConfigStore -----------------------------
(***************************************************************************)
(* What the engine promises about the configuration: what is in force is a *)
(* valid configuration, an edit takes effect in memory and in the file at  *)
(* once or not at all, anything else that comes into force was read from   *)
(* the file, and only a person changes the file otherwise.                 *)
(***************************************************************************)
CONSTANTS
  Valid(_),  \* Validate accepts the configuration
  Read(_),   \* what Load makes of a file
  ByHand     \* what a person may leave in the file

VARIABLES
  mem,   \* the configuration in force
  file   \* the configuration file

storeVars == <<mem, file>>

StoreInit == Valid(mem)

\* mutate, or New with a file of the old schema.
Edit == Valid(mem') /\ file' = mem'

\* New, or Reload.
Reread == mem' = Read(file) /\ Valid(mem') /\ UNCHANGED file

HandEdit == file' \in ByHand /\ UNCHANGED mem

StoreNext == Edit \/ Reread \/ HandEdit

StoreSpec == StoreInit /\ [][StoreNext]_storeVars
=============================================================================
