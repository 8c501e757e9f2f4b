---------------------------- MODULE MCSessionMgr ----------------------------
(* Instances of SessionMgr for TLC. *)
EXTENDS SessionMgr, TLC

CONSTANTS receiver, restarted, bluetooth

\* The receiver, the one that is started in its place, and the bluetooth manager:
\* any of them may do what the others do.
MCCallers == {receiver, restarted, bluetooth}
MCTypesOf == [c \in MCCallers |-> {File, Socket}]
MCAlike == Permutations(MCCallers)
\* Output is converted on this device.
MCConversions == {TRUE}
\* The one the device has and one that is refused.
MCFrequencies == {Default, "max"}
\* Each side of the maximum.
MCDurations == {MaxDuration - 1, MaxDuration + 1}
=============================================================================
