-------------------------- MODULE MCCaptureControl --------------------------
(* Instances of CaptureControl for TLC. *)
EXTENDS CaptureControl, TLC

CONSTANTS t1, t2, c1, c2, f1, f2, r1, r2

MCThreads == {t1, t2}
MCOneThread == {t1}
MCClients == {c1, c2}
MCOneClient == {c1}
MCFormats == {f1, f2}
MCOneFormat == {f1}
MCFreqs == {r1, r2}
=============================================================================
