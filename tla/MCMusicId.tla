------------------------------ MODULE MCMusicId ------------------------------
(* Instances of MusicId for TLC. *)
EXTENDS MusicId

CONSTANTS stereo48, stereo24

\* A unit is a quarter of a second of 48 kHz stereo.
MCProperties == {stereo48, stereo24}
MCRates == [p \in MCProperties |-> IF p = stereo48 THEN 4 ELSE 2]
=============================================================================
