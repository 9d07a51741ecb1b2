---------------------------- MODULE MCEventQueue ----------------------------
(* Small instances of EventQueue.                                          *)
EXTENDS EventQueue
=============================================================================
