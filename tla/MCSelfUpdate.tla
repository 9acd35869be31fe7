---------------------------- MODULE MCSelfUpdate ----------------------------
(***************************************************************************)
(* Small instances of SelfUpdate.                                          *)
(***************************************************************************)
EXTENDS SelfUpdate

Release(v) == [says |-> v, holds |-> v, sum |-> TRUE]

\* A release that is taken back to one between it and what runs, and one after it.
TakenBack == <<Release(1), Release(3), Release(2), Release(4)>>

Growing == <<Release(1), Release(2), Release(3)>>

\* Failing updates; one accident of each kind.
TwoFailed == [failure |-> 2, crash |-> 0, byHand |-> 0]
Mixed     == [failure |-> 1, crash |-> 1, byHand |-> 1]
=============================================================================
