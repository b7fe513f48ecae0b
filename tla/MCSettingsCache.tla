-------------------------- MODULE MCSettingsCache --------------------------
(* Instances of SettingsCache for TLC. *)
EXTENDS SettingsCache, TLC

CONSTANTS r1, r2, w1, w2

ThreadSymmetry == Permutations(Readers) \cup Permutations(WebThreads)
=============================================================================
