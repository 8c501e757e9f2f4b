----------------------------- MODULE ClipSource -----------------------------
(***************************************************************************)
(* What music_id_client promises about clips that go to a socket: they are *)
(* numbered as they are made, wait in an outbox in that order, and each is *)
(* taken once, by whoever comes first, or dropped when the source closes.  *)
(***************************************************************************)
EXTENDS Naturals, Sequences

VARIABLES made, m_outbox, closed

clipVars == <<made, m_outbox, closed>>

ClipInit ==
    /\ made = 0
    /\ m_outbox = <<>>
    /\ closed = FALSE

MakeClip ==
    /\ ~closed
    /\ made' = made + 1
    /\ m_outbox' = Append(m_outbox, made + 1)
    /\ UNCHANGED closed

TakeClip ==
    /\ m_outbox # <<>>
    /\ m_outbox' = Tail(m_outbox)
    /\ UNCHANGED <<made, closed>>

\* A clip cut while the source is closing is dropped with the others.
CloseSource ==
    /\ ~closed
    /\ closed' = TRUE
    /\ m_outbox' = <<>>
    /\ UNCHANGED made

ClipNext == MakeClip \/ TakeClip \/ CloseSource

ClipSpec == ClipInit /\ [][ClipNext]_clipVars
=============================================================================
