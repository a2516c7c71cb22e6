------------------------------ MODULE MCUdpFlow ------------------------------
(***************************************************************************)
(* Small instances of UdpFlow.                                             *)
(***************************************************************************)
EXTENDS UdpFlow, TLC

\* Tasks and slots are only names of permits and of storage.
Symmetry == Permutations(Tasks) \cup Permutations(Slots)
=============================================================================
