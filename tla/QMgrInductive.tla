---------------------------- MODULE QMgrInductive ----------------------------
(***************************************************************************)
(* The inductive invariants behind the theorems of QMgrProofs: what relates *)
(* the two queues, the clients' queues, the position of process_data and   *)
(* the reference counts in every reachable state of QMgr.                  *)
(***************************************************************************)
EXTENDS QMgr

\* Until ~q_mgr posts, a post stands for data the sleeping processor asked for:
\* none is pending while it is awake, and it wakes up to a non-empty queue.  One
\* that ended leaves its request behind, and the next buffer posts for nobody.
PostsMeanData ==
    owner \notin {"joining", "gone"} /\ pc # "exited" =>
        /\ pc # "wait" => m_sem = 0
        /\ pc = "wait" /\ m_sem # 0 => m_sem = 1 /\ m_current_incoming_q # << >>
        /\ m_notify_new_data => pc = "wait" /\ m_sem = 0
        /\ pc \in {"woken", "swap"} => m_current_incoming_q # << >>

WakeupInv == NoLostWakeup /\ PostsMeanData

\* While callbacks run, the cursor is on an outgoing buffer, and the clients
\* still to be called are registered.
CursorOK ==
    /\ pc = "callback" => cursor \in 1 .. Len(m_current_outgoing_q)
    /\ todo \subseteq m_clients
    /\ pc # "callback" => todo = {}

\* Between the drain and the next swap the outgoing queue is empty.
DrainedOK == pc \in {"check", "wait", "woken", "swap"} => m_current_outgoing_q = << >>

\* A queue in the order of creation, without repetitions.
Increasing(s) == \A i, j \in DOMAIN s : i < j => s[i] < s[j]

\* Both queues are in the order of creation, outgoing before incoming.
QueuesOrdered ==
    /\ Increasing(m_current_incoming_q)
    /\ Increasing(m_current_outgoing_q)
    /\ \A b \in Range(m_current_outgoing_q), d \in Range(m_current_incoming_q) : b < d
    /\ \A b \in Range(m_current_outgoing_q) \cup Range(m_current_incoming_q) : b <= made

\* The buffer process_data is handing out.
Current == m_current_outgoing_q[cursor]

\* What a client was last handed precedes everything it may still be handed.
LastBehind ==
    \A c \in Clients :
        /\ last[c] <= made
        /\ \A b \in Waiting : last[c] < b
        /\ pc = "callback" /\ c \in todo => last[c] < Current

\* A client keeps its buffers in the order it was handed them.
HeldOrdered ==
    \A c \in Clients : Increasing(held[c]) /\ \A b \in Range(held[c]) : b <= last[c]

\* The order of everything: the part of the invariant about who has what.
OrderInv == TypeOK /\ CursorOK /\ DrainedOK /\ QueuesOrdered /\ LastBehind /\ HeldOrdered

\* A buffer is deleted at most once and not before its creation, and neither
\* while it waits nor while somebody keeps it or will get it; as long as somebody
\* does, its reference count is the number of those.
BufferOK(b) ==
    /\ frees[b] <= 1
    /\ b > made => frees[b] = 0
    /\ b \in Waiting => frees[b] = 0
    /\ Holders(b) \cup Owed(b) # {} =>
           /\ frees[b] = 0
           /\ m_refcount[b] = Cardinality(Holders(b)) + Cardinality(Owed(b))

MemoryInv == OrderInv /\ \A b \in Buffers : BufferOK(b)
=============================================================================
