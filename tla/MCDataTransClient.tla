-------------------------- MODULE MCDataTransClient --------------------------
(* Instance of DataTransClient for TLC.                                      *)
EXTENDS DataTransClient

\* Two pages; three, so that a block can be too small for the next file; and
\* four, of which the last has no number.
MCFiles == {3, 5, 7}
MCLens == MCFiles
MCCycles == {1, 2}
=============================================================================
