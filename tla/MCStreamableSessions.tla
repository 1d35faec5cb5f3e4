------------------------ MODULE MCStreamableSessions ------------------------
(* StreamableSessions on a few exchanges and sessions, for TLC. *)
EXTENDS StreamableSessions, TLC

\* Exchanges are interchangeable, and so are session ids.
Symmetry == Permutations(Reqs) \cup Permutations(Sessions)
=============================================================================
