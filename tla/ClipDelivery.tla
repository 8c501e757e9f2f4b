---------------------------- MODULE ClipDelivery ----------------------------
(***************************************************************************)
(* How clips reach applications: the socket adaptor's worker thread runs   *)
(* music_id_client's send_clip_via_socket for every connection, which      *)
(* takes the first clip of the outbox, if there is one, writes it and ends *)
(* the connection.  The clips come from a ClipSource, which MusicId        *)
(* implements.                                                             *)
(***************************************************************************)
EXTENDS SocketAdaptor, ClipSource

CONSTANT MaxClips  \* bound on the clips that are cut

ASSUME MaxClipsNatural == MaxClips \in Nat

VARIABLES
    sink_ptr,                \* the clip taken from the outbox, or 0
    log                      \* clips that were written: [clip, to, whole]

deliveryVars == <<sink_ptr, log>>
vars == <<adaptorVars, clipVars, deliveryVars>>

NoClip == 0

Init ==
    /\ AdaptorInit
    /\ ClipInit
    /\ sink_ptr = NoClip
    /\ log = <<>>

-----------------------------------------------------------------------------
(* The worker and the handlers of music_id_client *)

\* A clip is cut, which needs an opened session.
CutClip ==
    /\ owner = "up"
    /\ made < MaxClips
    /\ MakeClip
    /\ UNCHANGED <<adaptorVars, deliveryVars>>

\* ~music_id_client, whose own worker has ended: no more clips are cut.
DeleteAdaptor ==
    /\ OwnerGoes("up", "stop")
    /\ UNCHANGED <<m_path, socketVars, callbackVars, pipeVars, workerVars, application>>
    /\ UNCHANGED <<clipVars, deliveryVars>>

FlushOutbox ==
    /\ OwnerGoes("removed", "gone")
    /\ CloseSource
    /\ UNCHANGED <<m_path, socketVars, callbackVars, pipeVars, workerVars, application>>
    /\ UNCHANGED deliveryVars

-----------------------------------------------------------------------------
(* send_clip_via_socket, in the adaptor's worker thread *)

NothingToSend ==
    /\ m_outbox = <<>>
    /\ WorkerGoes("callback", "terminate")
    /\ UNCHANGED <<listen_ready, socketVars, callbackVars, pipeVars>>
    /\ UNCHANGED <<clipVars, deliveryVars>>

\* Mutant: the clip is looked at and left in the outbox.
TakeFirst_Left ==
    /\ m_outbox # <<>>
    /\ sink_ptr' = Head(m_outbox)
    /\ WorkerGoes("callback", "write")
    /\ UNCHANGED <<listen_ready, socketVars, callbackVars, pipeVars, clipVars, log>>

TakeFirst ==
    /\ TakeClip
    /\ sink_ptr' = Head(m_outbox)
    /\ WorkerGoes("callback", "write")
    /\ UNCHANGED <<listen_ready, socketVars, callbackVars, pipeVars, log>>

\* The clip is deleted, whatever became of the write.
Written(whole) ==
    /\ log' = Append(log, [clip |-> sink_ptr, to |-> m_write_fd, whole |-> whole])
    /\ sink_ptr' = NoClip
    /\ UNCHANGED clipVars

WriteClip ==
    \/ WriteWhole("write", "terminate") /\ Written(TRUE)
    \/ WritePart("write", "terminate") /\ Written(FALSE)
    \/ WriteError("write") /\ Written(FALSE)

ForgetConnection == ResetWriteFd("terminate") /\ UNCHANGED <<clipVars, deliveryVars>>

EndConnection == TerminateCurrentConnection("terminate") /\ UNCHANGED <<clipVars, deliveryVars>>

SendClip == NothingToSend \/ TakeFirst \/ WriteClip \/ ForgetConnection \/ EndConnection

-----------------------------------------------------------------------------
Next ==
    \/ AdaptorNext /\ UNCHANGED <<clipVars, deliveryVars>>
    \/ CutClip \/ DeleteAdaptor \/ FlushOutbox
    \/ SendClip

Spec == Init /\ [][Next]_vars

\* The constructor goes on, the destructor once it has begun, and the worker.
\* An application that has stalled reads on or leaves in the end, and accept
\* does not fail for ever: assumptions about the outside, for the code has no
\* time limit and no other way out.  A write that waits ends as soon as the
\* application reads, so it is not missed because the application stalls again.
Fairness ==
    /\ WF_vars(Construct /\ UNCHANGED <<clipVars, deliveryVars>>)
    /\ WF_vars(Destruct /\ UNCHANGED <<clipVars, deliveryVars>>)
    /\ WF_vars(FlushOutbox)
    /\ WF_vars((AdaptorWorker \/ Accept \/ AcceptFails) /\ UNCHANGED <<clipVars, deliveryVars>>)
    /\ SF_vars(Accept /\ UNCHANGED <<clipVars, deliveryVars>>)
    /\ SF_vars(SendClip)
    /\ \A k \in Connections :
        WF_vars((ReadOn(k) \/ Leave(k)) /\ UNCHANGED <<clipVars, deliveryVars>>)

FairSpec == Spec /\ Fairness

-----------------------------------------------------------------------------
(* Properties *)

\* The types of the variables; the count of connections never wraps.
TypeOK ==
    /\ AdaptorTypeOK
    /\ worker \in {"none", "select", "control", "accept", "ready", "callback", "write", "reset",
                   "terminate", "exited", "undefined"}
    /\ owner \in {"listen", "register", "register_data", "notify", "up", "stop", "join", "remove",
                  "removed", "unjoined", "terminated", "gone"}
    /\ sink_ptr \in 0 .. made

\* m_write_fd is the one connection that is open, and it is counted, except
\* while write_data has closed it and not yet taken the lock to say so.
OneConnection ==
    LET open == {k \in Connections : connection[k] = "accepted"}
    IN  /\ TypeOK
        /\ worker # "reset" =>
            /\ open = {k \in {m_write_fd} : k > 0}
            /\ m_num_connections = Cardinality(open)

\* Clips go out in the order they were cut, each of them once, and a connection
\* gets one clip at most: with none in the outbox it is ended.
OneClipPerConnection ==
    \A i, j \in DOMAIN log :
        i < j =>
            /\ log[i].clip < log[j].clip
            /\ log[j].to # NoFd => log[i].to < log[j].to

\* No clip disappears: it waits, or is being sent, or was written, and then it
\* arrived unless its application has left or the connection was not accepted.
ClipsAccounted ==
    ~closed =>
        /\ made = Len(m_outbox) + Len(log) + (IF sink_ptr = NoClip THEN 0 ELSE 1)
        /\ \A i \in DOMAIN log :
            log[i].whole \/ log[i].to = NoFd \/ application[log[i].to] = "gone"

\* When the client is gone no thread uses what it deleted, and nothing is left
\* open, unsent or taken.
DestroyedQuiet ==
    owner = "gone" =>
        /\ worker \in {"none", "exited"}
        /\ \A k \in Connections : connection[k] # "accepted"
        /\ m_outbox = <<>> /\ sink_ptr = NoClip

\* Whoever connects is let go in the end, with a clip or without, also one who
\* connected before the callback was registered; unless there is no pipe to tell
\* the worker with, or select failed, or the callback was called without its data.
ConnectionEnds ==
    \A k \in Connections :
        connection[k] \in {"queued", "accepted"}
        ~> connection[k] = "closed" \/ worker \in {"exited", "undefined"} \/ ~pipe_made

\* The destructor returns; but without a pipe it ends the process, when there is a
\* worker to join.
DestructorReturns ==
    owner = "stop" ~>
        \/ owner = "gone"
        \/ worker = "undefined"
        \/ owner = "terminated" /\ ~pipe_made
=============================================================================
