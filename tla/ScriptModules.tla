---------------------------- MODULE ScriptModules ---------------------------
(***************************************************************************)
(* Executions of a Talon script.  A reload executes the file again; what   *)
(* the former module has put on sys, or has registered with Talon, stays.  *)
(***************************************************************************)
CONSTANTS Modules,          \* loaded modules; a forgotten one is used again
          NoModule          \* none is loaded; nothing is retained

ASSUME NoModuleAssumption == NoModule \notin Modules
=============================================================================
