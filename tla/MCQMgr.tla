------------------------------- MODULE MCQMgr -------------------------------
(* Instances of QMgr for TLC. *)
EXTENDS QMgrInductive

CONSTANTS c1, c2

MCClients == {c1, c2}

\* c1 keeps its buffers, as music_id_client does; who does not keep them
\* releases them in the callback, as ip_out_client does.
MCRetaining == {c1}
MCBothRetaining == {c1, c2}
=============================================================================
