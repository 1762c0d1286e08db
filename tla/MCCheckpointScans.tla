-------------------------- MODULE MCCheckpointScans --------------------------
(* Small instances of CheckpointScans: one person, whose commands concern no *)
(* other person's readings.                                                  *)
EXTENDS CheckpointScans

\* Bound: when requests have overlapped, the last command is never given.
FewerWhenOverlapped == overlapped => commands < MaxCommands

=============================================================================
