-------------------------------- MODULE IpOut --------------------------------
(***************************************************************************)
(* ip_out_client (src/src/ip_out.cpp): a client of q_mgr that writes every *)
(* buffer to the one application connected to its UNIX socket.             *)
(*                                                                         *)
(* Three threads use it: the processor of q_mgr calls data_callback, the   *)
(* worker accepts connections, and the owner (a handler of the session     *)
(* manager) starts, stops and deletes the client.  The applications at the *)
(* other end connect, stop reading, read on and leave as they please.  A   *)
(* connection is known by the order in which it was made; m_write_fd is    *)
(* the connection behind the descriptor, or -1.                            *)
(***************************************************************************)
EXTENDS Integers, FiniteSets

CONSTANT MaxConnections  \* bound on the connections applications make

ASSUME MaxConnectionsNatural == MaxConnections \in Nat

Connections == 1 .. MaxConnections
NoFd == -1

VARIABLES
    m_data_path,        \* the socket is bound to a path
    m_write_fd, m_num_connections,
    m_mutex,            \* who holds the client's lock over a call that may wait
    control_pipe,       \* MSG_EXIT has been written
    worker,             \* none, select, new_connection, exited
    callback,           \* the processor in data_callback: none, lock, write
    registered,         \* with q_mgr
    owner,              \* idle, close, join, removed, destroyed, undefined
    connection,         \* of each: none, queued, accepted, closed (by the client)
    application         \* its other end: none, reading, stalled, gone

vars == <<m_data_path, m_write_fd, m_num_connections, m_mutex, control_pipe, worker,
          callback, registered, owner, connection, application>>
socketVars == <<m_write_fd, m_num_connections, connection>>

\* The constructor: open_output binds a path and launches the worker, or fails
\* and leaves m_thread as it was, unset.
Init ==
    /\ \/ m_data_path = TRUE /\ worker = "select"
       \/ m_data_path = FALSE /\ worker = "none"
    /\ m_write_fd = NoFd
    /\ m_num_connections = 0
    /\ m_mutex = "free"
    /\ control_pipe = FALSE
    /\ callback = "none"
    /\ registered = FALSE
    /\ owner = "idle"
    /\ connection = [k \in Connections |-> "none"]
    /\ application = [k \in Connections |-> "none"]

-----------------------------------------------------------------------------
(* The applications and the kernel (external) *)

\* The connections wait for accept in the order they were made.
Connect(k) ==
    /\ m_data_path
    /\ connection[k] = "none"
    /\ \A j \in 1 .. k - 1 : connection[j] # "none"
    /\ connection' = [connection EXCEPT ![k] = "queued"]
    /\ application' = [application EXCEPT ![k] = "reading"]
    /\ UNCHANGED <<m_data_path, m_write_fd, m_num_connections, m_mutex, control_pipe,
                   worker, callback, registered, owner>>

ApplicationDoes(k, before, after) ==
    /\ application[k] \in before
    /\ application' = [application EXCEPT ![k] = after]
    /\ UNCHANGED <<m_data_path, socketVars, m_mutex, control_pipe, worker, callback,
                   registered, owner>>

\* The socket's buffer is full: writing waits until the application reads on.
Stall(k)  == ApplicationDoes(k, {"reading"}, "stalled")
ReadOn(k) == ApplicationDoes(k, {"stalled"}, "reading")
Leave(k)  == ApplicationDoes(k, {"reading", "stalled"}, "gone")

-----------------------------------------------------------------------------
(* data_callback, in the processor thread *)

\* The processor calls registered clients only, and registration waits for it.
BeginCallback ==
    /\ registered
    /\ callback = "none"
    /\ callback' = "lock"
    /\ UNCHANGED <<m_data_path, socketVars, m_mutex, control_pipe, worker, registered,
                   owner, application>>

\* Without a connection the buffer is released at once.
CallbackLock ==
    /\ callback = "lock"
    /\ m_mutex = "free"
    /\ IF m_write_fd > 0
         THEN callback' = "write" /\ m_mutex' = "processor"
         ELSE callback' = "none" /\ UNCHANGED m_mutex
    /\ UNCHANGED <<m_data_path, socketVars, control_pipe, worker, registered, owner,
                   application>>

\* Mutant: the count is left alone when a connection is closed.
CloseWriteFd_NotCounted ==
    /\ connection' = [connection EXCEPT ![m_write_fd] = "closed"]
    /\ m_write_fd' = NoFd
    /\ UNCHANGED m_num_connections

CloseWriteFd ==
    /\ connection' = [connection EXCEPT ![m_write_fd] = "closed"]
    /\ m_write_fd' = NoFd
    /\ m_num_connections' = m_num_connections - 1

\* Mutant: the lock is kept when write fails.
Write_ErrorKeepsLock ==
    /\ callback = "write"
    /\ application[m_write_fd] # "stalled"
    /\ callback' = "none"
    /\ IF application[m_write_fd] = "gone"
         THEN CloseWriteFd /\ UNCHANGED m_mutex
         ELSE m_mutex' = "free" /\ UNCHANGED socketVars
    /\ UNCHANGED <<m_data_path, control_pipe, worker, registered, owner, application>>

\* write waits on a full socket with the lock held.  When the application has
\* left it returns an error, and the connection is closed, or what was taken before
\* that ("Incomplete buffer write!"), and it is kept, as after a whole one.  The
\* buffer is released in every case.
Write ==
    /\ callback = "write"
    /\ application[m_write_fd] # "stalled"
    /\ callback' = "none"
    /\ m_mutex' = "free"
    /\ \/ application[m_write_fd] = "gone" /\ CloseWriteFd
       \/ UNCHANGED socketVars
    /\ UNCHANGED <<m_data_path, control_pipe, worker, registered, owner, application>>

-----------------------------------------------------------------------------
(* The worker thread *)

Queued == {k \in Connections : connection[k] = "queued"}

\* The destructor has not returned: the members are there to be used.
Exists == owner \notin {"destroyed", "undefined"}

\* select returns for the control pipe, which is looked at first, or for a
\* connection.
Select ==
    /\ Exists
    /\ worker = "select"
    /\ control_pipe \/ Queued # {}
    /\ worker' = IF control_pipe THEN "exited" ELSE "new_connection"
    /\ UNCHANGED <<m_data_path, socketVars, m_mutex, control_pipe, callback, registered,
                   owner, application>>

\* select fails, which ends the thread.
SelectFails ==
    /\ Exists
    /\ worker = "select"
    /\ worker' = "exited"
    /\ UNCHANGED <<m_data_path, socketVars, m_mutex, control_pipe, callback, registered,
                   owner, application>>

\* Mutant: the old connection is not closed.
ProcessNewConnection_OldKept ==
    /\ Exists
    /\ worker = "new_connection"
    /\ m_mutex = "free"
    /\ worker' = "select"
    /\ m_write_fd' = CHOOSE k \in Queued : \A j \in Queued : k <= j
    /\ connection' = [connection EXCEPT ![m_write_fd'] = "accepted"]
    /\ m_num_connections' = m_num_connections + 1
    /\ UNCHANGED <<m_data_path, m_mutex, control_pipe, callback, registered, owner, application>>

\* process_new_connection, under the lock: the connection in use makes way for
\* the first that waits, or for none when accept fails.
ProcessNewConnection ==
    /\ Exists
    /\ worker = "new_connection"
    /\ m_mutex = "free"
    /\ worker' = "select"
    /\ LET old == {k \in {m_write_fd} : k > 0}
           trashed == [k \in Connections |-> IF k \in old THEN "closed" ELSE connection[k]]
           remaining == m_num_connections - Cardinality(old)
           first == CHOOSE k \in Queued : \A j \in Queued : k <= j
       IN  \/ /\ m_write_fd' = first
              /\ connection' = [trashed EXCEPT ![first] = "accepted"]
              /\ m_num_connections' = remaining + 1
           \/ /\ m_write_fd' = NoFd
              /\ connection' = trashed
              /\ m_num_connections' = remaining
    /\ UNCHANGED <<m_data_path, m_mutex, control_pipe, callback, registered, owner, application>>

\* A worker that was not joined goes on with a client that is gone, which is
\* undefined.
WorkerOutlivesClient ==
    /\ owner = "destroyed"
    /\ worker \in {"select", "new_connection"}
    /\ owner' = "undefined"
    /\ UNCHANGED <<m_data_path, socketVars, m_mutex, control_pipe, worker, callback,
                   registered, application>>

-----------------------------------------------------------------------------
(* The owner *)

\* start and stop register and unregister with q_mgr, between two callbacks.
StartStop ==
    /\ owner = "idle"
    /\ callback = "none"
    /\ registered' = ~registered
    /\ UNCHANGED <<m_data_path, socketVars, m_mutex, control_pipe, worker, callback, owner,
                   application>>

\* The session manager deletes a client that it has stopped.
Delete ==
    /\ owner = "idle"
    /\ ~registered
    /\ owner' = "close"
    /\ UNCHANGED <<m_data_path, socketVars, m_mutex, control_pipe, worker, callback,
                   registered, application>>

\* Mutant: the worker is not told to exit.
CloseOutput_NoMessage ==
    /\ owner = "close"
    /\ m_mutex = "free"
    /\ m_mutex' = "owner"
    /\ owner' = "join"
    /\ UNCHANGED <<m_data_path, socketVars, control_pipe, worker, callback, registered,
                   application>>

\* close_output takes the lock, writes MSG_EXIT and joins the worker with it.
CloseOutput ==
    /\ owner = "close"
    /\ m_mutex = "free"
    /\ m_mutex' = "owner"
    /\ control_pipe' = TRUE
    /\ owner' = "join"
    /\ UNCHANGED <<m_data_path, socketVars, worker, callback, registered, application>>

\* Mutant: the worker may still run when the client is gone.
WorkerJoined_NotAwaited == TRUE

WorkerJoined == worker = "exited"

\* The rest of close_output, up to the release of the lock.  m_listen_fd is never
\* closed: what is queued on it stays queued.
RemoveOutput ==
    /\ m_data_path' = FALSE
    /\ m_mutex' = "free"
    /\ IF m_data_path /\ m_write_fd > 0 THEN CloseWriteFd ELSE UNCHANGED socketVars
    /\ owner' = "removed"
    /\ UNCHANGED <<control_pipe, worker, callback, registered, application>>

\* MSG_EXIT cannot be written ("Couldn't trigger worker thread shutdown."), as when
\* the constructor's pipe2 failed and was only reported: close_output goes on
\* without joining the worker.
CloseOutputUntold ==
    /\ owner = "close"
    /\ m_mutex = "free"
    /\ RemoveOutput

Join ==
    /\ owner = "join"
    /\ worker # "none"
    /\ WorkerJoined
    /\ RemoveOutput

\* Joining a thread that was never created is undefined: pthread_join reports
\* an error, or anything else happens.
JoinUnset ==
    /\ owner = "join"
    /\ worker = "none"
    /\ \/ RemoveOutput
       \/ owner' = "undefined" /\ UNCHANGED <<m_data_path, socketVars, m_mutex, control_pipe,
                                              worker, callback, registered, application>>

\* The rest of the destructor, after which the memory is free.
Destroy ==
    /\ owner = "removed"
    /\ owner' = "destroyed"
    /\ UNCHANGED <<m_data_path, socketVars, m_mutex, control_pipe, worker, callback,
                   registered, application>>

-----------------------------------------------------------------------------
Next ==
    \/ \E k \in Connections : Connect(k) \/ Stall(k) \/ ReadOn(k) \/ Leave(k)
    \/ BeginCallback \/ CallbackLock \/ Write
    \/ Select \/ SelectFails \/ ProcessNewConnection \/ WorkerOutlivesClient
    \/ StartStop \/ Delete \/ CloseOutput \/ CloseOutputUntold \/ Join \/ JoinUnset \/ Destroy

Spec == Init /\ [][Next]_vars

\* The threads run, and whoever waits for a lock that is free again and again,
\* or for room in a socket that is read again and again, gets it in the end.
\* An application that stalls reads on or leaves in the end: an assumption
\* about the other end, for nothing in the client limits how long write waits.
Fairness ==
    /\ SF_vars(CallbackLock) /\ SF_vars(Write)
    /\ WF_vars(Select) /\ SF_vars(ProcessNewConnection)
    /\ SF_vars(CloseOutput \/ CloseOutputUntold)
    /\ WF_vars(Join) /\ WF_vars(JoinUnset) /\ WF_vars(Destroy)
    /\ \A k \in Connections : WF_vars(ReadOn(k) \/ Leave(k))

FairSpec == Spec /\ Fairness

-----------------------------------------------------------------------------
(* Properties *)

\* The types of the variables: the unsigned m_num_connections never wraps.
TypeOK ==
    /\ m_data_path \in BOOLEAN /\ control_pipe \in BOOLEAN /\ registered \in BOOLEAN
    /\ m_write_fd \in {NoFd} \cup Connections
    /\ m_num_connections \in 0 .. 1
    /\ m_mutex \in {"free", "processor", "owner"}
    /\ worker \in {"none", "select", "new_connection", "exited"}
    /\ callback \in {"none", "lock", "write"}
    /\ owner \in {"idle", "close", "join", "removed", "destroyed", "undefined"}
    /\ connection \in [Connections -> {"none", "queued", "accepted", "closed"}]
    /\ application \in [Connections -> {"none", "reading", "stalled", "gone"}]

\* Three threads close and replace the connection: m_write_fd is always the one
\* that is open (never a closed descriptor, none leaked), and the count is right.
OneConnection ==
    LET open == {k \in Connections : connection[k] = "accepted"}
    IN  /\ TypeOK
        /\ open = {k \in {m_write_fd} : k > 0}
        /\ m_num_connections = Cardinality(open)

\* No thread uses a client that has been destroyed and no connection it accepted is
\* left open, but where the message to the worker could not be written: control_pipe
\* says that it was.  A join that never had a thread is the other way to go wrong.
DestroyedQuiet ==
    /\ owner = "destroyed" => callback = "none"
    /\ owner = "destroyed" /\ control_pipe =>
           /\ worker \in {"none", "exited"}
           /\ \A k \in Connections : connection[k] # "accepted"
    /\ owner = "undefined" => worker = "none" \/ ~control_pipe

\* A destructor that does not return waits for a worker that waits for the lock
\* the destructor holds; there is no other way to hang.
OnlyKnownHang ==
    owner = "close" ~>
        \/ owner \in {"destroyed", "undefined"}
        \/ worker = "new_connection" /\ m_mutex = "owner"

\* A callback returns, so that the processor can go on to the other clients and
\* whoever waits for m_client_mutex gets it.
CallbackReturns == callback = "lock" ~> callback = "none"

\* ip_out.cpp:180, of close_output: "Shut down worker thread that listens to
\* incoming connections."  The worker does not exit when it has seen a
\* connection: it waits for the lock that close_output holds.
WorkerShutsDown == owner = "join" /\ worker # "none" ~> worker = "exited"
=============================================================================
