---------------------------- MODULE MCDiskQueue ----------------------------
(***************************************************************************)
(* A small instance of DiskQueue, and the invariant its proofs rest on:    *)
(* MCDiskQueue.cfg fills the queue past both caps on a wall clock that     *)
(* moves forward and may be set back.                                      *)
(***************************************************************************)
EXTENDS DiskQueue
=============================================================================
