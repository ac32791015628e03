----------------------------- MODULE MCSettings -----------------------------
(* SettingsCache with interchangeable requests and processes.                *)
EXTENDS SettingsCache, TLC

Symmetry == Permutations(Requests) \cup Permutations(Servers)
=============================================================================
