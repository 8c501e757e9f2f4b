---------------------------- MODULE SocketAdaptor ----------------------------
(***************************************************************************)
(* socket_adaptor (src/src/socket_adaptor.cpp): one application at a time  *)
(* is connected to a UNIX socket; a worker thread accepts it and calls     *)
(* back the owner of the adaptor, who writes to the connection and ends    *)
(* it.  The module has the adaptor's own steps and the kernel's; a module  *)
(* that composes it with its user says what the callback does with         *)
(* WriteData and TerminateCurrentConnection.                               *)
(*                                                                         *)
(* The lock is never held over a call that waits, so a critical section is *)
(* one step, but for the two writes of register_data_ready_callback, which *)
(* the worker may read between.  A connection is known by the order in     *)
(* which it was made; m_write_fd is the one behind the descriptor, or -1.  *)
(***************************************************************************)
EXTENDS Integers, Sequences, FiniteSets

CONSTANT MaxConnections  \* bound on the connections applications make

ASSUME MaxConnectionsNatural == MaxConnections \in Nat

Connections == 1 .. MaxConnections
NoFd == -1

VARIABLES
    m_path,             \* the socket is bound to its path
    m_write_fd, m_num_connections,
    m_callback, m_callback_data,  \* whether they have been set
    m_mutex,            \* free, or held by the owner between its two writes
    control_pipe,       \* messages to the worker
    pipe_made,          \* the constructor's pipe2 did not fail
    worker,             \* none, select, control, accept, ready, callback, reset, exited, undefined
    listen_ready,       \* what the last select said of m_listen_fd
    owner,              \* listen, register, register_data, notify, up, stop, join, remove,
                        \* removed; unjoined, terminated
    connection,         \* of each: none, queued, accepted, closed (by the adaptor)
    application         \* its other end: none, reading, stalled, gone

socketVars == <<m_write_fd, m_num_connections, connection>>
callbackVars == <<m_callback, m_callback_data, m_mutex>>
workerVars == <<worker, listen_ready>>
pipeVars == <<control_pipe, pipe_made>>
adaptorVars == <<m_path, socketVars, callbackVars, pipeVars, workerVars, owner, application>>

\* The constructor goes on, and says so, when it gets no pipe.
AdaptorInit ==
    /\ m_path = FALSE
    /\ m_write_fd = NoFd /\ m_num_connections = 0
    /\ m_callback = FALSE /\ m_callback_data = FALSE
    /\ m_mutex = "free"
    /\ control_pipe = <<>>
    /\ pipe_made \in BOOLEAN
    /\ worker = "none" /\ listen_ready = FALSE
    /\ owner = "listen"
    /\ connection = [k \in Connections |-> "none"]
    /\ application = [k \in Connections |-> "none"]

Queued == {k \in Connections : connection[k] = "queued"}

-----------------------------------------------------------------------------
(* The applications and the kernel (external) *)

Connect(k) ==
    /\ m_path
    /\ connection[k] = "none"
    /\ \A j \in 1 .. k - 1 : connection[j] # "none"
    /\ connection' = [connection EXCEPT ![k] = "queued"]
    /\ application' = [application EXCEPT ![k] = "reading"]
    /\ UNCHANGED <<m_path, m_write_fd, m_num_connections, callbackVars, pipeVars, workerVars,
                   owner>>

ApplicationDoes(k, before, after) ==
    /\ application[k] \in before
    /\ application' = [application EXCEPT ![k] = after]
    /\ UNCHANGED <<m_path, socketVars, callbackVars, pipeVars, workerVars, owner>>

Stall(k)  == ApplicationDoes(k, {"reading"}, "stalled")
ReadOn(k) == ApplicationDoes(k, {"stalled"}, "reading")
Leave(k)  == ApplicationDoes(k, {"reading", "stalled"}, "gone")

-----------------------------------------------------------------------------
(* The owner *)

OwnerGoes(from, to) == owner = from /\ owner' = to

\* start_listening: a path in use is unlinked and bound again, and the worker
\* launched; or there is no socket, or it cannot be bound, and no worker.
StartListening ==
    /\ OwnerGoes("listen", "register")
    /\ \/ m_path' = TRUE /\ worker' = "select"
       \/ UNCHANGED <<m_path, worker>>
    /\ UNCHANGED <<socketVars, callbackVars, pipeVars, listen_ready, application>>

\* register_data_ready_callback writes the callback, then its data, under the lock.
RegisterCallback ==
    /\ OwnerGoes("register", "register_data")
    /\ m_mutex = "free"
    /\ m_mutex' = "owner"
    /\ m_callback' = TRUE
    /\ UNCHANGED <<m_path, socketVars, m_callback_data, pipeVars, workerVars, application>>

RegisterData ==
    /\ OwnerGoes("register_data", "notify")
    /\ m_mutex' = "free"
    /\ m_callback_data' = TRUE
    /\ UNCHANGED <<m_path, socketVars, m_callback, pipeVars, workerVars, application>>

\* Mutant: the worker is not told of the callback.
NotifyWorker_Not ==
    /\ OwnerGoes("notify", "up")
    /\ UNCHANGED <<m_path, socketVars, callbackVars, pipeVars, workerVars, application>>

\* Whether the message could be written is not looked at.
NotifyWorker ==
    /\ OwnerGoes("notify", "up")
    /\ control_pipe' = IF pipe_made THEN Append(control_pipe, "NEW_CALLBACK") ELSE control_pipe
    /\ UNCHANGED <<m_path, socketVars, callbackVars, pipe_made, workerVars, application>>

\* Mutant: the message is forgotten.
StopListening_NoMessage ==
    /\ OwnerGoes("stop", "join")
    /\ UNCHANGED <<m_path, socketVars, callbackVars, pipeVars, workerVars, application>>

\* stop_listening: a worker is told to exit and joined, without the lock.
StopListening ==
    /\ \/ worker = "none" /\ OwnerGoes("stop", "remove") /\ UNCHANGED control_pipe
       \/ /\ worker # "none" /\ pipe_made
          /\ OwnerGoes("stop", "join")
          /\ control_pipe' = Append(control_pipe, "EXIT")
    /\ UNCHANGED <<m_path, socketVars, callbackVars, pipe_made, workerVars, application>>

\* Mutant: the worker is left to itself.
WorkerJoined_NotAwaited == TRUE

WorkerJoined == worker = "exited"

Join ==
    /\ OwnerGoes("join", "remove")
    /\ WorkerJoined
    /\ UNCHANGED <<m_path, socketVars, callbackVars, pipeVars, workerVars, application>>

CloseWriteFd ==
    /\ connection' = [connection EXCEPT ![m_write_fd] = "closed"]
    /\ m_write_fd' = NoFd
    /\ m_num_connections' = m_num_connections - 1

\* The rest of stop_listening; m_listen_fd stays open.
RemovePath(from, to) ==
    /\ OwnerGoes(from, to)
    /\ IF m_write_fd > 0 THEN CloseWriteFd ELSE UNCHANGED socketVars
    /\ m_path' = FALSE
    /\ UNCHANGED <<callbackVars, pipeVars, workerVars, application>>

\* "Couldn't trigger worker thread shutdown.": without a pipe it goes on, with the
\* lock, and does not join the worker ...
StopUntold ==
    /\ worker # "none" /\ ~pipe_made
    /\ RemovePath("stop", "unjoined")

\* ... so that the destructor of m_thread, which is still joinable, terminates the
\* process.
Terminate ==
    /\ OwnerGoes("unjoined", "terminated")
    /\ UNCHANGED <<m_path, socketVars, callbackVars, pipeVars, workerVars, application>>

-----------------------------------------------------------------------------
(* The worker thread *)

WorkerGoes(from, to) ==
    /\ owner # "terminated"
    /\ worker = from
    /\ worker' = to
    /\ UNCHANGED <<m_path, owner, application>>

\* select returns when a message or a connection has come; it looks at both.
Select ==
    /\ control_pipe # <<>> \/ Queued # {}
    /\ WorkerGoes("select", IF control_pipe # <<>> THEN "control" ELSE "accept")
    /\ listen_ready' = (Queued # {})
    /\ UNCHANGED <<socketVars, callbackVars, pipeVars>>

SelectFails ==
    /\ WorkerGoes("select", "exited")
    /\ UNCHANGED <<listen_ready, socketVars, callbackVars, pipeVars>>

ListenNext == IF listen_ready THEN "accept" ELSE "select"

\* A message is read: EXIT ends the thread, a new callback is called for the
\* connection that may have been waiting for it.
ProcessControlMessage ==
    /\ m_mutex = "free"
    /\ WorkerGoes("control",
          IF Head(control_pipe) = "EXIT" THEN "exited"
          ELSE IF m_callback /\ m_num_connections # 0 THEN "callback"
          ELSE ListenNext)
    /\ control_pipe' = Tail(control_pipe)
    /\ UNCHANGED <<listen_ready, socketVars, callbackVars, pipe_made>>

\* Mutant: the old connection is not closed.
Trashed_Not == connection

\* A connection in use makes way for the new one.
Trashed == [k \in Connections |-> IF k = m_write_fd THEN "closed" ELSE connection[k]]

\* Mutant: the old connection is still counted.
Remaining_NotCounted == m_num_connections

Remaining == IF m_write_fd > 0 THEN m_num_connections - 1 ELSE m_num_connections

\* process_new_connection takes the connection that has waited longest.
Accept ==
    /\ m_mutex = "free"
    /\ WorkerGoes("accept", "ready")
    /\ listen_ready' = FALSE
    /\ m_write_fd' = CHOOSE k \in Queued : \A j \in Queued : k <= j
    /\ connection' = [Trashed EXCEPT ![m_write_fd'] = "accepted"]
    /\ m_num_connections' = Remaining + 1
    /\ UNCHANGED <<callbackVars, pipeVars>>

\* accept fails, for want of descriptors, and the connection goes on waiting.
AcceptFails ==
    /\ m_mutex = "free"
    /\ WorkerGoes("accept", "ready")
    /\ listen_ready' = FALSE
    /\ m_write_fd' = NoFd
    /\ connection' = Trashed
    /\ m_num_connections' = Remaining
    /\ UNCHANGED <<callbackVars, pipeVars>>

\* The callback is called, even if there is no new connection, if it is seen
\* without the lock; its data may not be there yet, and what happens with the
\* data of nobody is undefined.
CallDataReady ==
    /\ WorkerGoes("ready", CASE ~m_callback     -> "select"
                             [] m_callback_data -> "callback"
                             [] OTHER           -> "undefined")
    /\ UNCHANGED <<listen_ready, socketVars, callbackVars, pipeVars>>

-----------------------------------------------------------------------------
(* What the user of the adaptor does within the callback *)

\* write waits as long as the application does not read, and writes all of it.
WriteWhole(from, to) ==
    /\ m_write_fd > 0 /\ application[m_write_fd] = "reading"
    /\ WorkerGoes(from, to)
    /\ UNCHANGED <<listen_ready, socketVars, callbackVars, pipeVars>>

\* The application left while it was reading: a part has been written.
WritePart(from, to) ==
    /\ m_write_fd > 0 /\ application[m_write_fd] = "gone"
    /\ WorkerGoes(from, to)
    /\ UNCHANGED <<listen_ready, socketVars, callbackVars, pipeVars>>

\* There is no connection or nobody at its other end: write_data closes the
\* descriptor, and only then takes the lock to forget it.
WriteError(from) ==
    /\ m_write_fd > 0 => application[m_write_fd] = "gone"
    /\ WorkerGoes(from, "reset")
    /\ connection' = [k \in Connections |-> IF k = m_write_fd THEN "closed" ELSE connection[k]]
    /\ UNCHANGED <<listen_ready, m_write_fd, m_num_connections, callbackVars, pipeVars>>

ResetWriteFd(to) ==
    /\ m_mutex = "free"
    /\ WorkerGoes("reset", to)
    /\ IF m_write_fd > 0 THEN CloseWriteFd ELSE UNCHANGED socketVars
    /\ UNCHANGED <<listen_ready, callbackVars, pipeVars>>

\* Mutant: the connection is left open.
TerminateCurrentConnection_Not(from) ==
    /\ m_mutex = "free"
    /\ WorkerGoes(from, ListenNext)
    /\ UNCHANGED <<listen_ready, socketVars, callbackVars, pipeVars>>

\* terminate_current_connection, with which the callback returns.
TerminateCurrentConnection(from) ==
    /\ m_mutex = "free"
    /\ WorkerGoes(from, ListenNext)
    /\ IF m_write_fd > 0 THEN CloseWriteFd ELSE UNCHANGED socketVars
    /\ UNCHANGED <<listen_ready, callbackVars, pipeVars>>

-----------------------------------------------------------------------------
ApplicationNext == \E k \in Connections : Connect(k) \/ Stall(k) \/ ReadOn(k) \/ Leave(k)

Construct == StartListening \/ RegisterCallback \/ RegisterData \/ NotifyWorker
Destruct ==
    \/ StopListening \/ Join \/ RemovePath("remove", "removed")
    \/ StopUntold \/ Terminate
AdaptorWorker == Select \/ ProcessControlMessage \/ CallDataReady

AdaptorNext ==
    \/ ApplicationNext \/ Construct \/ Destruct
    \/ AdaptorWorker \/ SelectFails \/ Accept \/ AcceptFails

AdaptorTypeOK ==
    /\ m_path \in BOOLEAN /\ m_callback \in BOOLEAN /\ m_callback_data \in BOOLEAN
    /\ listen_ready \in BOOLEAN /\ pipe_made \in BOOLEAN
    /\ m_write_fd \in {NoFd} \cup Connections
    /\ m_num_connections \in 0 .. 1
    /\ m_mutex \in {"free", "owner"}
    /\ control_pipe \in Seq({"NEW_CALLBACK", "EXIT"}) /\ Len(control_pipe) <= 2
    /\ connection \in [Connections -> {"none", "queued", "accepted", "closed"}]
    /\ application \in [Connections -> {"none", "reading", "stalled", "gone"}]
=============================================================================
