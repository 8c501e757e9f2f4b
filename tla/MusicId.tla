------------------------------- MODULE MusicId -------------------------------
(***************************************************************************)
(* music_id_client (src/src/music_id.cpp): a client of q_mgr that keeps    *)
(* the last seconds of audio in a queue and cuts clips from it, of what    *)
(* was captured already or, some seconds later, of what is captured next.  *)
(*                                                                         *)
(* Its lock is held by one thread at a time: the processor of q_mgr (one   *)
(* step), the session's handler (one step), the socket adaptor's thread    *)
(* (one step), or the worker thread, which wakes up once a second.  Under  *)
(* it the manager's data rate is read, without q_mgr's lock: any session   *)
(* may change it between two steps of the worker.                          *)
(*                                                                         *)
(* Bytes are in units; a clip is known by the order in which it was cut.   *)
(***************************************************************************)
EXTENDS Integers, Sequences, SequencesExt, FiniteSetsExt

CONSTANTS AudioProperties,  \* audio properties the manager may have
          DataRate,         \* of each: units in a second
          BufferSizes,      \* sizes of the manager's buffers: a second at most
          Durations,        \* lengths that callers ask for, in seconds
          InitialPrecapture, \* DEFAULT_PRECAPTURE_DURATION_SEC
          MaxBuffers, MaxCalls, MaxChanges  \* bounds on buffers, calls, changes of the properties

ASSUME DataRates == DataRate \in [AudioProperties -> Nat \ {0}]
ASSUME BufferSizesSmall ==
    BufferSizes \subseteq {n \in Nat \ {0} : \A p \in AudioProperties : n <= DataRate[p]}
ASSUME DurationsNatural == Durations \subseteq Nat /\ InitialPrecapture \in Nat
ASSUME Bounds == MaxBuffers \in Nat /\ MaxCalls \in Nat /\ MaxChanges \in Nat

VARIABLES
    properties,                    \* the manager's
    m_delivery_method,             \* FILE_OUTPUT or SOCKET_OUTPUT
    m_queue, m_total_size,         \* buffers as [id, size]; their size in all
    m_precapture_duration_seconds,
    m_queue_upper_limit_bytes,
    m_requests,                    \* as [id, length, time_remaining]
    m_outbox,                      \* clips, each known by its number
    worker,                        \* awake, lock, scan, erase, exited
    iter,                          \* the request the worker looks at
    owner,                         \* up, join, adaptor, gone
    released, answers,             \* per buffer and request: how often released, answered
    arrived, clips, calls, changes, \* counters
    reconciled                     \* the limit was computed at the present data rate

queueVars == <<m_queue, m_total_size, released>>
requestVars == <<m_requests, answers>>
clipVars == <<m_outbox, clips>>
limitVars == <<m_precapture_duration_seconds, m_queue_upper_limit_bytes, reconciled>>
workerVars == <<worker, iter>>
vars == <<properties, changes, m_delivery_method, queueVars, arrived, limitVars, requestVars,
          clipVars, workerVars, owner, calls>>

data_rate == DataRate[properties]

\* The lock, which the worker holds over several steps.
lock == IF worker \in {"scan", "erase"} THEN "worker" ELSE "free"

Init ==
    /\ properties \in AudioProperties
    /\ m_delivery_method \in {"FILE_OUTPUT", "SOCKET_OUTPUT"}
    /\ m_queue = <<>> /\ m_total_size = 0
    /\ m_precapture_duration_seconds = InitialPrecapture
    /\ m_queue_upper_limit_bytes = InitialPrecapture * data_rate
    /\ m_requests = <<>> /\ m_outbox = <<>>
    /\ worker = "awake" /\ iter = 1
    /\ owner = "up"
    /\ released = <<>> /\ answers = <<>>
    /\ arrived = 0 /\ clips = 0 /\ calls = 0 /\ changes = 0
    /\ reconciled = TRUE

-----------------------------------------------------------------------------
(* The queue *)

Bytes(q) ==
    LET sum[n \in 0 .. Len(q)] == IF n = 0 THEN 0 ELSE sum[n - 1] + q[n].size
    IN  sum[Len(q)]
First(q, n) == SubSeq(q, 1, n)

ReleasedAll(q) == [id \in DOMAIN released |->
    released[id] + Cardinality({i \in DOMAIN q : q[i].id = id})]

\* Mutant: the total is not counted down.
TrimQueue_TotalKept(limit) ==
    LET excess == m_total_size - limit
        n == Max({0} \cup {k \in DOMAIN m_queue : Bytes(First(m_queue, k)) <= excess})
    IN  /\ m_queue' = SubSeq(m_queue, n + 1, Len(m_queue))
        /\ UNCHANGED m_total_size
        /\ released' = ReleasedAll(First(m_queue, n))

\* Mutant: a buffer that would leave exactly the limit is kept.
TrimQueue_Strict(limit) ==
    LET excess == m_total_size - limit
        n == Max({0} \cup {k \in DOMAIN m_queue : Bytes(First(m_queue, k)) < excess})
    IN  /\ m_queue' = SubSeq(m_queue, n + 1, Len(m_queue))
        /\ m_total_size' = m_total_size - Bytes(First(m_queue, n))
        /\ released' = ReleasedAll(First(m_queue, n))

\* trim_queue drops buffers from the front as long as what is left is not less
\* than the limit.
TrimQueue(limit) ==
    LET excess == m_total_size - limit
        n == Max({0} \cup {k \in DOMAIN m_queue : Bytes(First(m_queue, k)) <= excess})
    IN  /\ m_queue' = SubSeq(m_queue, n + 1, Len(m_queue))
        /\ m_total_size' = m_total_size - Bytes(First(m_queue, n))
        /\ released' = ReleasedAll(First(m_queue, n))

MaxLength(seconds, requests) == Max({seconds} \cup {requests[i].length : i \in DOMAIN requests})

\* Mutant: requests are forgotten.
QueueSize_PrecaptureOnly(seconds, requests) == seconds * data_rate

\* compute_queue_size
QueueSize(seconds, requests) == MaxLength(seconds, requests) * data_rate

\* The processor delivers a buffer.
DataCallback ==
    /\ owner = "up"
    /\ lock = "free"
    /\ arrived < MaxBuffers
    /\ \E size \in BufferSizes :
        /\ m_queue' = Append(m_queue, [id |-> arrived + 1, size |-> size])
        /\ m_total_size' = m_total_size + size
    /\ arrived' = arrived + 1
    /\ released' = Append(released, 0)
    /\ UNCHANGED <<properties, changes, m_delivery_method, limitVars, requestVars, clipVars,
                   workerVars, owner, calls>>

\* set_audio_properties of this session or of another.  Of this client only
\* m_precapture_size_bytes follows, which no later step depends on.
SetAudioProperties ==
    /\ owner # "gone"
    /\ changes < MaxChanges
    /\ changes' = changes + 1
    /\ properties' \in AudioProperties \ {properties}
    /\ reconciled' = (reconciled /\ data_rate' = data_rate)
    /\ UNCHANGED <<m_delivery_method, queueVars, arrived, m_precapture_duration_seconds,
                   m_queue_upper_limit_bytes, requestVars, clipVars, workerVars,
                   owner, calls>>

-----------------------------------------------------------------------------
(* The session's handler *)

Call ==
    /\ owner = "up"
    /\ lock = "free"
    /\ calls < MaxCalls
    /\ calls' = calls + 1

SetPrecaptureDuration ==
    /\ Call
    /\ \E seconds \in Durations :
        LET limit == QueueSize(seconds, m_requests)
        IN  /\ m_precapture_duration_seconds' = seconds
            /\ m_queue_upper_limit_bytes' = limit
            /\ TrimQueue(limit)
    /\ reconciled' = TRUE
    /\ UNCHANGED <<properties, changes, m_delivery_method, arrived, requestVars, clipVars,
                   workerVars, owner>>

GrabFreshSample ==
    /\ Call
    /\ \E seconds \in Durations :
        LET request == [id |-> Len(answers) + 1, length |-> seconds, time_remaining |-> seconds]
        IN  /\ m_requests' = Append(m_requests, request)
            /\ m_queue_upper_limit_bytes' =
                   QueueSize(m_precapture_duration_seconds, m_requests')
    /\ answers' = Append(answers, 0)
    /\ reconciled' = TRUE
    /\ UNCHANGED <<properties, changes, m_delivery_method, queueVars, arrived,
                   m_precapture_duration_seconds, clipVars, workerVars, owner>>

ToSocket == m_delivery_method = "SOCKET_OUTPUT"

\* Mutant: the newest clip is sent first.
PutClip_AtFront ==
    IF ToSocket THEN m_outbox' = <<clips + 1>> \o m_outbox /\ clips' = clips + 1
                ELSE UNCHANGED clipVars

\* grab_last_n_seconds cuts a clip, into the outbox, whatever the converter says,
\* or into a file, if one can be opened.
PutClip ==
    IF ToSocket THEN m_outbox' = Append(m_outbox, clips + 1) /\ clips' = clips + 1
                ELSE UNCHANGED clipVars

\* With an empty queue the handler has nothing to cut and replies an error.
GrabPrecapturedSample ==
    /\ Call
    /\ m_queue # <<>>
    /\ PutClip
    /\ UNCHANGED <<properties, changes, m_delivery_method, queueVars, arrived, limitVars,
                   requestVars, workerVars, owner>>

-----------------------------------------------------------------------------
(* The worker thread *)

WorkerGoes(from, to) ==
    /\ worker = from
    /\ worker' = to
    /\ UNCHANGED <<properties, changes, m_delivery_method, arrived, owner, calls>>

\* m_worker_thread_alive, tested before the lock is taken.
TestAlive ==
    /\ WorkerGoes("awake", IF owner = "up" THEN "lock" ELSE "exited")
    /\ UNCHANGED <<iter, queueVars, limitVars, requestVars, clipVars>>

WorkerLocks ==
    /\ lock = "free"
    /\ WorkerGoes("lock", "scan")
    /\ UNCHANGED <<iter, queueVars, limitVars, requestVars, clipVars>>

\* Mutant: the time is looked at and not counted.
CountDown_NotCounted ==
    /\ iter \in DOMAIN m_requests
    /\ m_requests[iter].time_remaining > 0
    /\ WorkerGoes("scan", "scan")
    /\ iter' = iter + 1
    /\ UNCHANGED <<requestVars, queueVars, limitVars, clipVars>>

\* A request whose time is not up is counted down.
CountDown ==
    /\ iter \in DOMAIN m_requests
    /\ m_requests[iter].time_remaining > 0
    /\ WorkerGoes("scan", "scan")
    /\ m_requests' = [m_requests EXCEPT ![iter].time_remaining = @ - 1]
    /\ iter' = iter + 1
    /\ UNCHANGED <<answers, queueVars, limitVars, clipVars>>

\* One whose time is up gets its clip, if there is anything to cut.
RequestIsUp ==
    /\ iter \in DOMAIN m_requests
    /\ m_requests[iter].time_remaining = 0
    /\ WorkerGoes("scan", "erase")
    /\ IF m_queue = <<>> THEN UNCHANGED clipVars ELSE PutClip
    /\ UNCHANGED <<iter, queueVars, limitVars, requestVars>>

\* Mutant: the request stays in the list.
Erase_Kept ==
    /\ WorkerGoes("erase", "scan")
    /\ answers' = [answers EXCEPT ![m_requests[iter].id] = @ + 1]
    /\ iter' = iter + 1
    /\ m_queue_upper_limit_bytes' = QueueSize(m_precapture_duration_seconds, m_requests)
    /\ reconciled' = TRUE
    /\ UNCHANGED <<m_precapture_duration_seconds, queueVars, m_requests, clipVars>>

\* The request's callback is told, and the limit computed without it.
Erase ==
    /\ WorkerGoes("erase", "scan")
    /\ answers' = [answers EXCEPT ![m_requests[iter].id] = @ + 1]
    /\ m_requests' = RemoveAt(m_requests, iter)
    /\ m_queue_upper_limit_bytes' = QueueSize(m_precapture_duration_seconds, m_requests')
    /\ reconciled' = TRUE
    /\ UNCHANGED <<iter, m_precapture_duration_seconds, queueVars, clipVars>>

EndTick ==
    /\ iter \notin DOMAIN m_requests
    /\ WorkerGoes("scan", "awake")
    /\ TrimQueue(m_queue_upper_limit_bytes)
    /\ iter' = 1
    /\ UNCHANGED <<limitVars, requestVars, clipVars>>

-----------------------------------------------------------------------------
(* The socket adaptor's thread and the destructor *)

\* send_clip_via_socket takes the first clip.
TakeClip ==
    /\ lock = "free"
    /\ m_outbox # <<>>
    /\ m_outbox' = Tail(m_outbox)
    /\ UNCHANGED <<properties, changes, m_delivery_method, queueVars, arrived, limitVars,
                   requestVars, clips, workerVars, owner, calls>>

\* The session manager stops the client and deletes it, between two calls.
Destroy ==
    /\ owner = "up"
    /\ owner' = "join"
    /\ UNCHANGED <<properties, changes, m_delivery_method, queueVars, arrived, limitVars,
                   requestVars, clipVars, workerVars, calls>>

\* Mutant: buffers are not given back.
FlushQueues_NotReleased ==
    /\ owner = "join"
    /\ worker = "exited"
    /\ owner' = IF ToSocket THEN "adaptor" ELSE "gone"
    /\ m_requests' = <<>>
    /\ m_queue' = <<>>
    /\ UNCHANGED <<properties, changes, m_delivery_method, m_total_size, released, arrived,
                   limitVars, answers, clipVars, workerVars, calls>>

\* With the worker joined, requests are dropped and buffers given back.
FlushQueues ==
    /\ owner = "join"
    /\ worker = "exited"
    /\ owner' = IF ToSocket THEN "adaptor" ELSE "gone"
    /\ m_requests' = <<>>
    /\ m_queue' = <<>>
    /\ released' = ReleasedAll(m_queue)
    /\ UNCHANGED <<properties, changes, m_delivery_method, m_total_size, arrived, limitVars,
                   answers, clipVars, workerVars, calls>>

\* The adaptor is deleted, which ends its thread, then what it left in the outbox.
FlushOutbox ==
    /\ owner = "adaptor"
    /\ owner' = "gone"
    /\ m_outbox' = <<>>
    /\ UNCHANGED <<properties, changes, m_delivery_method, queueVars, arrived, limitVars,
                   requestVars, clips, workerVars, calls>>

-----------------------------------------------------------------------------
Worker == TestAlive \/ CountDown \/ RequestIsUp \/ Erase \/ EndTick

Next ==
    \/ DataCallback \/ SetAudioProperties
    \/ SetPrecaptureDuration \/ GrabFreshSample \/ GrabPrecapturedSample
    \/ Worker \/ WorkerLocks
    \/ TakeClip \/ Destroy \/ FlushQueues \/ FlushOutbox

Spec == Init /\ [][Next]_vars

\* The worker runs: who holds the lock waits for nothing, and gives it up soon.
\* The destructor goes on.
Fairness ==
    /\ WF_vars(Worker \/ WorkerLocks)
    /\ WF_vars(FlushQueues \/ FlushOutbox)

FairSpec == Spec /\ Fairness

-----------------------------------------------------------------------------
(* Properties *)

\* The types of the variables; the total is what is in the queue.
TypeOK ==
    /\ properties \in AudioProperties
    /\ worker \in {"awake", "lock", "scan", "erase", "exited"}
    /\ owner \in {"up", "join", "adaptor", "gone"}
    /\ worker = "erase" => iter \in DOMAIN m_requests
    /\ m_queue_upper_limit_bytes \in Nat
    /\ m_total_size \in Nat
    /\ owner \in {"up", "join"} => m_total_size = Bytes(m_queue)

\* Every buffer q_mgr handed over is in the queue or has been given back once,
\* through trimming by the worker and by set_precapture_duration, and the end.
BuffersAccounted ==
    /\ TypeOK
    /\ \A id \in 1 .. arrived :
        released[id] + Cardinality({i \in DOMAIN m_queue : m_queue[i].id = id}) = 1

\* What a precapture and the requests need.
Demand == MaxLength(m_precapture_duration_seconds, m_requests) * data_rate

\* The worker's trim, and that of set_precapture_duration when it drops anything.
Trims ==
    /\ owner = "up"
    /\ \/ worker = "scan" /\ worker' = "awake"
       \/ released' # released /\ arrived' = arrived

\* Trimming never takes audio that a precapture or a request still needs, and
\* leaves less than a buffer more: unless the data rate has changed and nobody
\* has computed the limit since.
TrimmedToDemand ==
    [][Trims /\ reconciled'
       => /\ m_total_size' < m_total_size => m_total_size' >= Demand'
          /\ m_queue' # <<>> => m_total_size' - Head(m_queue').size < Demand']_vars

\* Every request waits, or has been answered once, or was dropped by the
\* destructor: the worker erases from the list it walks through.
RequestsAnsweredOnce ==
    \A id \in DOMAIN answers :
        LET waiting == Cardinality({i \in DOMAIN m_requests : m_requests[i].id = id})
        IN  \/ answers[id] + waiting = 1
            \/ owner \in {"adaptor", "gone"} /\ answers[id] = 0 /\ waiting = 0

\* Requests are answered, or dropped by the destructor, in the end (calls are
\* bounded, so none can follow for ever), whatever else is called and whatever
\* the queue holds.
EveryRequestEnds == m_requests # <<>> ~> m_requests = <<>>

Source == INSTANCE ClipSource WITH
    made <- clips,
    m_outbox <- m_outbox,
    closed <- owner = "gone"

\* The clips of the client are those of a ClipSource: numbered, in order, each
\* taken once.
ImplementsClipSource == Source!ClipSpec
=============================================================================
