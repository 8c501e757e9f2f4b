------------------------------ MODULE IpOutProofs ------------------------------
(***************************************************************************)
(* Theorems about ip_out_client (module IpOut), for any number of          *)
(* connections and whatever the applications do.                           *)
(***************************************************************************)
EXTENDS IpOut, NumberLemmas, TLAPS

-----------------------------------------------------------------------------
(* The inductive invariant *)

\* Who writes has the lock, and the owner keeps it from the message to the end.
LockInv ==
    /\ callback = "write" <=> m_mutex = "processor"
    /\ owner = "join" => m_mutex = "owner"
    /\ m_mutex = "owner" => owner \in {"join", "undefined"}
    /\ callback = "write" => m_write_fd # NoFd

\* The connection behind m_write_fd is the one that is open, and is counted.
ConnectionInv ==
    /\ \A k \in Connections : connection[k] = "accepted" <=> k = m_write_fd
    /\ m_num_connections = IF m_write_fd = NoFd THEN 0 ELSE 1

\* The worker calls accept only when a connection waits for it.
WorkerInv == worker = "new_connection" => Queued # {}

\* The processor does not know a client that is being deleted.
RegistrationInv ==
    /\ callback # "none" => registered
    /\ owner # "idle" => ~registered

\* A client without a path has no worker, no connection and nothing queued; one
\* that is removed has no worker left, if the worker could be told.
PathInv ==
    /\ m_data_path <=> worker # "none" /\ owner \in {"idle", "close", "join"}
    /\ worker = "none" => \A k \in Connections : connection[k] = "none"
    /\ owner \in {"idle", "close"} => ~control_pipe
    /\ owner \in {"removed", "destroyed"} /\ control_pipe =>
           worker \in {"none", "exited"} /\ m_write_fd = NoFd
    /\ owner = "undefined" => worker = "none" \/ ~control_pipe

IpOutInv == TypeOK /\ LockInv /\ ConnectionInv /\ WorkerInv /\ RegistrationInv /\ PathInv

-----------------------------------------------------------------------------
\* The connection that has waited longest exists.
LEMMA FirstQueued ==
    ASSUME Queued # {}
    PROVE  (CHOOSE k \in Queued : \A j \in Queued : k <= j) \in Queued
<1>1. Queued \subseteq Nat
  BY MaxConnectionsNatural DEF Queued, Connections
<1>. QED BY <1>1, LeastNumber

\* Closing the connection in use leaves none open, and the others as they were.
LEMMA Closed ==
    ASSUME TypeOK, ConnectionInv, m_write_fd # NoFd, CloseWriteFd
    PROVE  /\ connection' \in [Connections -> {"none", "queued", "accepted", "closed"}]
           /\ m_write_fd' = NoFd
           /\ m_num_connections' = 0
           /\ \A k \in Connections :
               /\ connection'[k] # "accepted"
               /\ k # m_write_fd => connection'[k] = connection[k]
           /\ connection[m_write_fd] = "accepted"
           /\ connection'[m_write_fd] = "closed"
BY DEF TypeOK, ConnectionInv, CloseWriteFd

\* The end of close_output leaves no connection open.
LEMMA Removed ==
    ASSUME IpOutInv, RemoveOutput,
           \/ owner = "join" /\ worker \in {"none", "exited"}
           \/ owner = "close" /\ m_mutex = "free"
    PROVE  IpOutInv'
<1> USE MaxConnectionsNatural DEF IpOutInv, socketVars, Connections, NoFd, RemoveOutput
<1>0. \/ m_write_fd # NoFd /\ CloseWriteFd
      \/ m_write_fd = NoFd /\ UNCHANGED socketVars
  BY DEF TypeOK, PathInv, ConnectionInv
<1>1. TypeOK'
  <2>1. m_data_path' \in BOOLEAN
    BY Zenon
  <2>. QED BY <1>0, <2>1, Closed DEF TypeOK
<1>2. LockInv'
  BY <1>0, Closed DEF TypeOK, LockInv
<1>3. ConnectionInv'
  BY <1>0, Closed DEF TypeOK, ConnectionInv
<1>4. WorkerInv'
  BY <1>0, Closed DEF TypeOK, ConnectionInv, WorkerInv, Queued
<1>5. RegistrationInv'
  BY DEF TypeOK, RegistrationInv
<1>6. PathInv'
  BY <1>0, Closed DEF TypeOK, ConnectionInv, PathInv
<1>. QED BY <1>1, <1>2, <1>3, <1>4, <1>5, <1>6

LEMMA IpOutInvInit == Init => IpOutInv
<1> SUFFICES ASSUME Init PROVE IpOutInv
  OBVIOUS
<1>1. m_data_path \in BOOLEAN /\ control_pipe \in BOOLEAN /\ registered \in BOOLEAN
  BY Zenon DEF Init
<1>2. TypeOK
  BY <1>1, MaxConnectionsNatural DEF Init, TypeOK
<1>3. LockInv /\ ConnectionInv /\ WorkerInv /\ RegistrationInv /\ PathInv
  BY MaxConnectionsNatural
  DEF Init, LockInv, ConnectionInv, WorkerInv, RegistrationInv, PathInv, NoFd, Connections
<1>. QED BY <1>2, <1>3 DEF IpOutInv

LEMMA IpOutInvNext == IpOutInv /\ [Next]_vars => IpOutInv'
<1> SUFFICES ASSUME IpOutInv, [Next]_vars PROVE IpOutInv'
  OBVIOUS
<1> USE MaxConnectionsNatural DEF IpOutInv, socketVars, Connections, NoFd
<1>1. CASE (\E k \in Connections : Connect(k))
  <2> USE <1>1 DEF Connect
  <2>1. TypeOK'
    BY DEF TypeOK, ConnectionInv
  <2>2. LockInv'
    BY DEF TypeOK, LockInv
  <2>3. ConnectionInv'
    BY DEF TypeOK, ConnectionInv
  <2>4. WorkerInv'
    BY DEF TypeOK, ConnectionInv, WorkerInv, Queued
  <2>5. RegistrationInv'
    BY DEF TypeOK, RegistrationInv
  <2>6. PathInv'
    BY DEF TypeOK, ConnectionInv, PathInv
  <2>. QED BY <2>1, <2>2, <2>3, <2>4, <2>5, <2>6
<1>2. CASE (\E k \in Connections : Stall(k) \/ ReadOn(k) \/ Leave(k))
  <2> USE <1>2 DEF Stall, ReadOn, Leave, ApplicationDoes
  <2>1. TypeOK'
    BY DEF TypeOK, ConnectionInv
  <2>2. LockInv'
    BY DEF TypeOK, LockInv
  <2>3. ConnectionInv'
    BY DEF TypeOK, ConnectionInv
  <2>4. WorkerInv'
    BY DEF TypeOK, ConnectionInv, WorkerInv, Queued
  <2>5. RegistrationInv'
    BY DEF TypeOK, RegistrationInv
  <2>6. PathInv'
    BY DEF TypeOK, ConnectionInv, PathInv
  <2>. QED BY <2>1, <2>2, <2>3, <2>4, <2>5, <2>6
<1>3. CASE BeginCallback
  <2> USE <1>3 DEF BeginCallback
  <2>1. TypeOK'
    BY DEF TypeOK, ConnectionInv
  <2>2. LockInv'
    BY DEF TypeOK, LockInv
  <2>3. ConnectionInv'
    BY DEF TypeOK, ConnectionInv
  <2>4. WorkerInv'
    BY DEF TypeOK, ConnectionInv, WorkerInv, Queued
  <2>5. RegistrationInv'
    BY DEF TypeOK, RegistrationInv
  <2>6. PathInv'
    BY DEF TypeOK, ConnectionInv, PathInv
  <2>. QED BY <2>1, <2>2, <2>3, <2>4, <2>5, <2>6
<1>4. CASE CallbackLock
  <2> USE <1>4 DEF CallbackLock
  <2>1. TypeOK'
    BY DEF TypeOK, ConnectionInv
  <2>2. LockInv'
    BY DEF TypeOK, LockInv
  <2>3. ConnectionInv'
    BY DEF TypeOK, ConnectionInv
  <2>4. WorkerInv'
    BY DEF TypeOK, ConnectionInv, WorkerInv, Queued
  <2>5. RegistrationInv'
    BY DEF TypeOK, RegistrationInv
  <2>6. PathInv'
    BY DEF TypeOK, ConnectionInv, PathInv
  <2>. QED BY <2>1, <2>2, <2>3, <2>4, <2>5, <2>6
<1>5. CASE Write
  <2> USE <1>5, Closed DEF Write
  <2>0. m_write_fd # NoFd /\ (CloseWriteFd \/ UNCHANGED socketVars)
    BY DEF LockInv
  <2>1. TypeOK'
    BY <2>0 DEF TypeOK
  <2>2. LockInv'
    BY <2>0 DEF TypeOK, LockInv
  <2>3. ConnectionInv'
    BY <2>0 DEF TypeOK, ConnectionInv
  <2>4. WorkerInv'
    BY <2>0 DEF TypeOK, ConnectionInv, WorkerInv, Queued
  <2>5. RegistrationInv'
    BY DEF TypeOK, RegistrationInv
  <2>6. PathInv'
    BY <2>0 DEF TypeOK, ConnectionInv, PathInv
  <2>. QED BY <2>1, <2>2, <2>3, <2>4, <2>5, <2>6
<1>6. CASE Select
  <2> USE <1>6 DEF Select
  <2>1. TypeOK'
    BY DEF TypeOK, ConnectionInv
  <2>2. LockInv'
    BY DEF TypeOK, LockInv
  <2>3. ConnectionInv'
    BY DEF TypeOK, ConnectionInv
  <2>4. WorkerInv'
    BY DEF TypeOK, ConnectionInv, WorkerInv, Queued
  <2>5. RegistrationInv'
    BY DEF TypeOK, RegistrationInv
  <2>6. PathInv'
    BY DEF TypeOK, ConnectionInv, PathInv
  <2>. QED BY <2>1, <2>2, <2>3, <2>4, <2>5, <2>6
<1>7. CASE SelectFails
  <2> USE <1>7 DEF SelectFails
  <2>1. TypeOK'
    BY DEF TypeOK, ConnectionInv
  <2>2. LockInv'
    BY DEF TypeOK, LockInv
  <2>3. ConnectionInv'
    BY DEF TypeOK, ConnectionInv
  <2>4. WorkerInv'
    BY DEF TypeOK, ConnectionInv, WorkerInv, Queued
  <2>5. RegistrationInv'
    BY DEF TypeOK, RegistrationInv
  <2>6. PathInv'
    BY DEF TypeOK, ConnectionInv, PathInv
  <2>. QED BY <2>1, <2>2, <2>3, <2>4, <2>5, <2>6
<1>8. CASE ProcessNewConnection
  <2> DEFINE first == CHOOSE k \in Queued : \A j \in Queued : k <= j
             old == {k \in {m_write_fd} : k > 0}
             trashed == [k \in Connections |-> IF k \in old THEN "closed" ELSE connection[k]]
  <2>1. first \in Queued
    BY <1>8, FirstQueued DEF ProcessNewConnection, WorkerInv
  <2>2. /\ trashed \in [Connections -> {"none", "queued", "accepted", "closed"}]
        /\ \A k \in Connections : trashed[k] # "accepted"
        /\ \A k \in Connections : trashed[k] = "none" => connection[k] = "none"
    BY DEF TypeOK, ConnectionInv
  <2>3. m_num_connections - Cardinality(old) = 0
    <3>1. old = IF m_write_fd = NoFd THEN {} ELSE {m_write_fd}
      BY DEF TypeOK
    <3>2. Cardinality(old) = IF m_write_fd = NoFd THEN 0 ELSE 1
      BY <3>1, FS_EmptySet, FS_Singleton
    <3>. QED BY <3>2 DEF ConnectionInv
  <2>4. \/ /\ m_write_fd' = first
           /\ connection' = [trashed EXCEPT ![first] = "accepted"]
           /\ m_num_connections' = 1
        \/ /\ m_write_fd' = NoFd
           /\ connection' = trashed
           /\ m_num_connections' = 0
    BY <1>8, <2>3 DEF ProcessNewConnection
  <2> HIDE DEF first, old, trashed
  <2> USE <1>8, <2>1, <2>2, <2>4 DEF ProcessNewConnection
  <2>5. TypeOK' /\ ConnectionInv'
    BY DEF TypeOK, ConnectionInv, Queued
  <2>6. LockInv' /\ WorkerInv' /\ RegistrationInv' /\ PathInv'
    BY DEF Exists, TypeOK, LockInv, WorkerInv, RegistrationInv, PathInv
  <2>. QED BY <2>5, <2>6
<1>9. CASE StartStop
  <2> USE <1>9 DEF StartStop
  <2>1. TypeOK'
    BY DEF TypeOK, ConnectionInv
  <2>2. LockInv'
    BY DEF TypeOK, LockInv
  <2>3. ConnectionInv'
    BY DEF TypeOK, ConnectionInv
  <2>4. WorkerInv'
    BY DEF TypeOK, ConnectionInv, WorkerInv, Queued
  <2>5. RegistrationInv'
    BY DEF TypeOK, RegistrationInv
  <2>6. PathInv'
    BY DEF TypeOK, ConnectionInv, PathInv
  <2>. QED BY <2>1, <2>2, <2>3, <2>4, <2>5, <2>6
<1>10. CASE Delete
  <2> USE <1>10 DEF Delete
  <2>1. TypeOK'
    BY DEF TypeOK, ConnectionInv
  <2>2. LockInv'
    BY DEF TypeOK, LockInv
  <2>3. ConnectionInv'
    BY DEF TypeOK, ConnectionInv
  <2>4. WorkerInv'
    BY DEF TypeOK, ConnectionInv, WorkerInv, Queued
  <2>5. RegistrationInv'
    BY DEF TypeOK, RegistrationInv
  <2>6. PathInv'
    BY DEF TypeOK, ConnectionInv, PathInv
  <2>. QED BY <2>1, <2>2, <2>3, <2>4, <2>5, <2>6
<1>11. CASE CloseOutput
  <2> USE <1>11 DEF CloseOutput
  <2>1. TypeOK'
    BY DEF TypeOK, ConnectionInv
  <2>2. LockInv'
    BY DEF TypeOK, LockInv
  <2>3. ConnectionInv'
    BY DEF TypeOK, ConnectionInv
  <2>4. WorkerInv'
    BY DEF TypeOK, ConnectionInv, WorkerInv, Queued
  <2>5. RegistrationInv'
    BY DEF TypeOK, RegistrationInv
  <2>6. PathInv'
    BY DEF TypeOK, ConnectionInv, PathInv
  <2>. QED BY <2>1, <2>2, <2>3, <2>4, <2>5, <2>6
<1>12. CASE Join
  BY <1>12, Removed DEF Join, WorkerJoined
<1>13. CASE JoinUnset
  <2>1. CASE RemoveOutput
    BY <1>13, <2>1, Removed DEF JoinUnset
  <2>2. CASE ~RemoveOutput
    BY <1>13, <2>2
    DEF JoinUnset, TypeOK, LockInv, ConnectionInv, WorkerInv, Queued, RegistrationInv, PathInv
  <2>. QED BY <2>1, <2>2
<1>14. CASE CloseOutputUntold
  BY <1>14, Removed DEF CloseOutputUntold
<1>15. CASE Destroy \/ WorkerOutlivesClient
  <2> USE <1>15 DEF Destroy, WorkerOutlivesClient
  <2>1. TypeOK'
    BY DEF TypeOK, ConnectionInv
  <2>2. LockInv'
    BY DEF TypeOK, LockInv
  <2>3. ConnectionInv'
    BY DEF TypeOK, ConnectionInv
  <2>4. WorkerInv'
    BY DEF TypeOK, ConnectionInv, WorkerInv, Queued
  <2>5. RegistrationInv'
    BY DEF TypeOK, RegistrationInv
  <2>6. PathInv'
    BY DEF TypeOK, ConnectionInv, PathInv
  <2>. QED BY <2>1, <2>2, <2>3, <2>4, <2>5, <2>6
<1>16. CASE UNCHANGED vars
  <2> USE <1>16 DEF vars
  <2>1. TypeOK'
    BY DEF TypeOK, ConnectionInv
  <2>2. LockInv'
    BY DEF TypeOK, LockInv
  <2>3. ConnectionInv'
    BY DEF TypeOK, ConnectionInv
  <2>4. WorkerInv'
    BY DEF TypeOK, ConnectionInv, WorkerInv, Queued
  <2>5. RegistrationInv'
    BY DEF TypeOK, RegistrationInv
  <2>6. PathInv'
    BY DEF TypeOK, ConnectionInv, PathInv
  <2>. QED BY <2>1, <2>2, <2>3, <2>4, <2>5, <2>6
<1>. QED BY <1>1, <1>2, <1>3, <1>4, <1>5, <1>6, <1>7, <1>8, <1>9, <1>10, <1>11, <1>12, <1>13,
            <1>14, <1>15, <1>16 DEF Next

-----------------------------------------------------------------------------
(* The theorems *)

\* The whole invariant: the lock, the connection, and who still runs.
THEOREM IpOutKept == Spec => []IpOutInv
BY IpOutInvInit, IpOutInvNext, PTL DEF Spec

\* m_write_fd is the one open connection, whatever the processor, the worker and
\* the destructor do to it and in whatever order; none is leaked or used closed.
THEOREM ConnectionKept == Spec => []OneConnection
<1>1. IpOutInv => OneConnection
  <2> SUFFICES ASSUME IpOutInv PROVE OneConnection
    OBVIOUS
  <2> DEFINE open == {k \in Connections : connection[k] = "accepted"}
  <2>1. open = IF m_write_fd = NoFd THEN {} ELSE {m_write_fd}
    BY MaxConnectionsNatural DEF IpOutInv, TypeOK, ConnectionInv, Connections, NoFd
  <2>2. open = {k \in {m_write_fd} : k > 0}
    BY <2>1, MaxConnectionsNatural DEF IpOutInv, TypeOK, Connections, NoFd
  <2>3. Cardinality(open) = IF m_write_fd = NoFd THEN 0 ELSE 1
    BY <2>1, FS_EmptySet, FS_Singleton
  <2>. QED BY <2>2, <2>3 DEF IpOutInv, ConnectionInv, OneConnection
<1>. QED BY <1>1, IpOutKept, PTL

\* A client that has been destroyed is used by no thread and has nothing open, but
\* where close_output could not tell the worker to exit.
THEOREM QuietWhenDestroyed == Spec => []DestroyedQuiet
<1>1. IpOutInv => DestroyedQuiet
  BY MaxConnectionsNatural
  DEF IpOutInv, RegistrationInv, PathInv, ConnectionInv, DestroyedQuiet, Connections, NoFd
<1>. QED BY <1>1, IpOutKept, PTL
=============================================================================
