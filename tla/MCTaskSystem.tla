---------------------------- MODULE MCTaskSystem ----------------------------
(***************************************************************************)
(* Small instances of TaskSystem: one client beside the controller and the *)
(* worker, so that an insertion can meet the worker in any of its states   *)
(* while a third thread stops the system.                                  *)
(***************************************************************************)
EXTENDS TaskSystem
=============================================================================
