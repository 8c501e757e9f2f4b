-------------------------------- MODULE QMgr --------------------------------
(***************************************************************************)
(* The data path of q_mgr (src/src/audio_capture_manager.cpp) with the     *)
(* reference-counted buffers of src/src/audio_buffer.cpp: the device's     *)
(* callback thread fills the incoming queue, the processor thread swaps    *)
(* the queues and hands every buffer to every registered client, clients   *)
(* release the buffers they keep from threads of their own, and the owner  *)
(* destroys the manager.                                                   *)
(*                                                                         *)
(* Buffers are named by the order of their creation.  A step is what a     *)
(* thread does between two points where another can interfere: one         *)
(* critical section of m_q_mutex, m_client_mutex or the global buffer      *)
(* mutex, or one unprotected read or write of a shared variable.  The only *)
(* mutex held over several steps is m_client_mutex, by process_data: it is *)
(* held exactly while pc = "callback".                                     *)
(***************************************************************************)
EXTENDS Integers, Sequences, FiniteSets, Functions

CONSTANTS Clients,     \* audio_capture_client objects
          Retaining,   \* those whose data_callback keeps the buffer for later
          QueueSizes,  \* the values m_max_queue_size takes as properties change
          MaxBuffers   \* bound on the number of device callbacks

ASSUME ClientsFinite == IsFiniteSet(Clients)
ASSUME RetainingClients == Retaining \subseteq Clients
\* The limit is an unsigned int.
ASSUME QueueSizesNat == QueueSizes \subseteq Nat /\ IsFiniteSet(QueueSizes)
ASSUME MaxBuffersNat == MaxBuffers \in Nat

Buffers == 1 .. MaxBuffers

VARIABLES
    m_current_incoming_q, m_current_outgoing_q,  \* Seq(Buffers)
    m_max_queue_size,
    m_notify_new_data, m_sem,                    \* the wake-up protocol
    m_processing_thread_alive,
    m_clients, m_started,
    pc,          \* where the processor thread is
    cursor,      \* process_data: index of the buffer being handed out
    todo,        \* process_data: clients whose data_callback is still to come
    owner,       \* where the owner is in ~q_mgr
    made,        \* number of buffers created
    m_refcount,  \* Buffers -> Int
    frees,       \* Buffers -> Nat: how often the buffer was deleted
    held,        \* Clients -> Seq(Buffers): the queue of a retaining client
    last,        \* history, Clients -> the last buffer handed to the client
    unheard      \* history: the buffers processed while nobody was registered

queueVars  == <<m_current_incoming_q, m_current_outgoing_q>>
signalVars == <<m_notify_new_data, m_sem>>
batchVars  == <<cursor, todo>>
memVars    == <<m_refcount, frees>>
clientVars == <<held, last>>
vars == <<queueVars, m_max_queue_size, signalVars, m_processing_thread_alive,
          m_clients, m_started, pc, batchVars, owner, made, memVars,
          clientVars, unheard>>

PCs == {"launch", "test", "drain", "callback", "clear", "check", "wait",
        "woken", "swap", "exited"}
OwnerPCs == {"up", "closed", "posting", "joining", "gone"}

-----------------------------------------------------------------------------
(* audio_buffer.cpp *)

\* m_refcount and frees after every buffer of the set S was deleted.
DeleteAll(S) == frees' = [b \in Buffers |-> frees[b] + IF b \in S THEN 1 ELSE 0]

\* Mutant: the count is tested as if it had been decremented already.
UnrefAudioBuffer_OffByOne(b) ==
    IF m_refcount[b] = 0
    THEN DeleteAll({b}) /\ UNCHANGED m_refcount
    ELSE m_refcount' = [m_refcount EXCEPT ![b] = @ - 1] /\ UNCHANGED frees

\* unref_audio_buffer: the last reference deletes, any other decrements.
UnrefAudioBuffer(b) ==
    IF m_refcount[b] = 1
    THEN /\ DeleteAll({b})
         /\ UNCHANGED m_refcount
    ELSE /\ m_refcount' = [m_refcount EXCEPT ![b] = @ - 1]
         /\ UNCHANGED frees

-----------------------------------------------------------------------------
Init ==
    /\ m_current_incoming_q = << >>
    /\ m_current_outgoing_q = << >>
    /\ m_max_queue_size \in QueueSizes
    /\ m_notify_new_data = FALSE
    /\ m_sem = 0
    /\ m_processing_thread_alive = FALSE
    /\ m_clients = {}
    /\ m_started = FALSE
    /\ pc = "launch"
    /\ cursor = 0
    /\ todo = {}
    /\ owner = "up"
    /\ made = 0
    /\ m_refcount = [b \in Buffers |-> 0]
    /\ frees = [b \in Buffers |-> 0]
    /\ held = [c \in Clients |-> << >>]
    /\ last = [c \in Clients |-> 0]
    /\ unheard = {}

-----------------------------------------------------------------------------
(* The device's callback thread.  data_callback -> add_data runs under     *)
(* m_q_mutex; the device calls it only between start and stop.             *)

\* Mutant: the request to be notified is not reset.
NotifyDataReady_FlagKept ==
    /\ m_sem' = IF m_notify_new_data THEN m_sem + 1 ELSE m_sem
    /\ UNCHANGED m_notify_new_data

\* notify_data_ready: post once for each time the processor asked.
NotifyDataReady ==
    IF m_notify_new_data
    THEN m_sem' = m_sem + 1 /\ m_notify_new_data' = FALSE
    ELSE UNCHANGED signalVars

\* Mutant: off by one.
Overflowing_OffByOne == m_max_queue_size + 1 < Len(m_current_incoming_q)

Overflowing == m_max_queue_size < Len(m_current_incoming_q)

AddData ==
    /\ m_started
    /\ made < MaxBuffers
    /\ made' = made + 1
    /\ m_refcount' = [m_refcount EXCEPT ![made + 1] = Cardinality(m_clients)]
    /\ IF Overflowing
       THEN /\ DeleteAll(Range(m_current_incoming_q))
            /\ m_current_incoming_q' = <<made + 1>>
       ELSE /\ m_current_incoming_q' = Append(m_current_incoming_q, made + 1)
            /\ UNCHANGED frees
    /\ NotifyDataReady
    /\ UNCHANGED <<m_current_outgoing_q, m_max_queue_size,
                   m_processing_thread_alive, m_clients, m_started, pc,
                   batchVars, owner, clientVars, unheard>>

-----------------------------------------------------------------------------
(* The processor thread: data_processor_thread and what it calls.          *)

ProcessorFrame == UNCHANGED <<m_max_queue_size, m_clients, m_started, owner, made>>

\* The thread's first statement.
Launch ==
    /\ pc = "launch"
    /\ m_processing_thread_alive' = TRUE
    /\ pc' = "test"
    /\ ProcessorFrame
    /\ UNCHANGED <<queueVars, signalVars, batchVars, memVars, clientVars, unheard>>

TestAlive ==
    /\ pc = "test"
    /\ pc' = IF m_processing_thread_alive THEN "drain" ELSE "exited"
    /\ ProcessorFrame
    /\ UNCHANGED <<queueVars, signalVars, m_processing_thread_alive, batchVars,
                   memVars, clientVars, unheard>>

\* Mutant: the references counted when the buffer was created are kept.
UpdateBufferReferences_Omitted == UNCHANGED m_refcount

\* update_buffer_references: one reference per client for every outgoing buffer.
UpdateBufferReferences ==
    m_refcount' = [b \in Buffers |->
                     IF b \in Range(m_current_outgoing_q)
                     THEN Cardinality(m_clients) ELSE m_refcount[b]]

\* process_data up to its first callback: it takes m_client_mutex and counts the
\* references under the global buffer mutex.
BeginProcessData ==
    /\ pc = "drain"
    /\ m_current_outgoing_q # << >>
    /\ UpdateBufferReferences
    /\ cursor' = 1
    /\ todo' = m_clients
    /\ unheard' = IF m_clients = {} THEN unheard \cup Range(m_current_outgoing_q)
                                    ELSE unheard
    /\ pc' = "callback"
    /\ ProcessorFrame
    /\ UNCHANGED <<queueVars, signalVars, m_processing_thread_alive, frees, clientVars>>

\* One data_callback.  A retaining client (music_id_client) appends the buffer
\* to its queue; the others (audio_capture_client, ip_out_client) are done with
\* it when the callback returns and release it there.
DataCallback(c) ==
    /\ pc = "callback"
    /\ c \in todo
    /\ todo' = todo \ {c}
    /\ LET b == m_current_outgoing_q[cursor] IN
         /\ last' = [last EXCEPT ![c] = b]
         /\ IF c \in Retaining
            THEN /\ held' = [held EXCEPT ![c] = Append(@, b)]
                 /\ UNCHANGED memVars
            ELSE /\ UnrefAudioBuffer(b)
                 /\ UNCHANGED held
    /\ ProcessorFrame
    /\ UNCHANGED <<queueVars, signalVars, m_processing_thread_alive, pc, cursor, unheard>>

\* The loop moves to the next outgoing buffer.
NextBuffer ==
    /\ pc = "callback"
    /\ todo = {}
    /\ cursor < Len(m_current_outgoing_q)
    /\ cursor' = cursor + 1
    /\ todo' = m_clients
    /\ ProcessorFrame
    /\ UNCHANGED <<queueVars, signalVars, m_processing_thread_alive, pc, memVars,
                   clientVars, unheard>>

\* The loop is over: m_client_mutex is released ...
EndCallbacks ==
    /\ pc = "callback"
    /\ todo = {}
    /\ cursor = Len(m_current_outgoing_q)
    /\ cursor' = 0
    /\ pc' = "clear"
    /\ ProcessorFrame
    /\ UNCHANGED <<queueVars, signalVars, m_processing_thread_alive, todo, memVars,
                   clientVars, unheard>>

\* Mutant: process_data leaves the outgoing queue as it is.
ClearOutgoing_Forgotten ==
    /\ pc = "clear"
    /\ pc' = "drain"
    /\ ProcessorFrame
    /\ UNCHANGED <<queueVars, signalVars, m_processing_thread_alive, batchVars,
                   memVars, clientVars, unheard>>

\* ... and the outgoing queue emptied, without deleting anything.
ClearOutgoing ==
    /\ pc = "clear"
    /\ m_current_outgoing_q' = << >>
    /\ pc' = "drain"
    /\ ProcessorFrame
    /\ UNCHANGED <<m_current_incoming_q, signalVars, m_processing_thread_alive,
                   batchVars, memVars, clientVars, unheard>>

OutgoingDrained ==
    /\ pc = "drain"
    /\ m_current_outgoing_q = << >>
    /\ pc' = "check"
    /\ ProcessorFrame
    /\ UNCHANGED <<queueVars, signalVars, m_processing_thread_alive, batchVars,
                   memVars, clientVars, unheard>>

\* swap_queues flushes what the outgoing queue still holds, then swaps.
SwapQueues ==
    /\ DeleteAll(Range(m_current_outgoing_q))
    /\ m_current_incoming_q' = << >>
    /\ m_current_outgoing_q' = m_current_incoming_q

\* Mutant: the thread goes to sleep without asking to be woken.
AskForNotification_Forgotten == UNCHANGED m_notify_new_data

AskForNotification == m_notify_new_data' = TRUE

\* Under m_q_mutex: swap when there is data, otherwise ask to be notified.
CheckIncoming ==
    /\ pc = "check"
    /\ \/ /\ m_current_incoming_q # << >>
          /\ SwapQueues
          /\ pc' = "test"
          /\ UNCHANGED signalVars
       \/ /\ m_current_incoming_q = << >>
          /\ AskForNotification
          /\ pc' = "wait"
          /\ UNCHANGED <<queueVars, m_sem, frees>>
    /\ ProcessorFrame
    /\ UNCHANGED <<m_processing_thread_alive, batchVars, m_refcount, clientVars, unheard>>

\* Mutant: sem_wait returns without a post.
SemWait_NoBlock ==
    /\ pc = "wait"
    /\ m_sem' = m_sem - 1
    /\ pc' = "woken"
    /\ ProcessorFrame
    /\ UNCHANGED <<queueVars, m_notify_new_data, m_processing_thread_alive, batchVars,
                   memVars, clientVars, unheard>>

SemWait ==
    /\ pc = "wait"
    /\ m_sem > 0
    /\ m_sem' = m_sem - 1
    /\ pc' = "woken"
    /\ ProcessorFrame
    /\ UNCHANGED <<queueVars, m_notify_new_data, m_processing_thread_alive, batchVars,
                   memVars, clientVars, unheard>>

\* sem_wait returns an error, as it does when a signal is handled: "Critical
\* semaphore error. Exiting", and the thread is not started again.
SemWaitFails ==
    /\ pc = "wait"
    /\ pc' = "exited"
    /\ ProcessorFrame
    /\ UNCHANGED <<queueVars, signalVars, m_processing_thread_alive, batchVars,
                   memVars, clientVars, unheard>>

\* "Just in case the semaphore was posted to shut down this thred..."
TestShutdown ==
    /\ pc = "woken"
    /\ pc' = IF m_processing_thread_alive THEN "swap" ELSE "exited"
    /\ ProcessorFrame
    /\ UNCHANGED <<queueVars, signalVars, m_processing_thread_alive, batchVars,
                   memVars, clientVars, unheard>>

SwapAfterWake ==
    /\ pc = "swap"
    /\ SwapQueues
    /\ pc' = "test"
    /\ ProcessorFrame
    /\ UNCHANGED <<signalVars, m_processing_thread_alive, batchVars, m_refcount,
                   clientVars, unheard>>

Processor ==
    \/ Launch \/ TestAlive \/ BeginProcessData \/ NextBuffer \/ EndCallbacks
    \/ ClearOutgoing \/ OutgoingDrained \/ CheckIncoming \/ SemWait
    \/ TestShutdown \/ SwapAfterWake
    \/ \E c \in Clients : DataCallback(c)

-----------------------------------------------------------------------------
(* Threads of the application.  register_client, unregister_client and the *)
(* settings change run under m_client_mutex.                               *)

\* Mutant: registration does not take m_client_mutex.
ClientMutexFree_Ignored == TRUE

ClientMutexFree == pc # "callback"
AppFrame == UNCHANGED <<queueVars, signalVars, m_processing_thread_alive, pc,
                        batchVars, owner, made, last, unheard>>

\* The first client starts the device.
RegisterClient(c) ==
    /\ owner = "up"
    /\ ClientMutexFree
    /\ m_clients' = m_clients \cup {c}
    /\ m_started' = (m_started \/ (c \notin m_clients /\ m_clients = {}))
    /\ AppFrame
    /\ UNCHANGED <<m_max_queue_size, memVars, held>>

\* Whenever no client is left the device is stopped.
UnregisterClient(c) ==
    /\ owner = "up"
    /\ ClientMutexFree
    /\ m_clients' = m_clients \ {c}
    /\ m_started' = (m_started /\ m_clients' # {})
    /\ AppFrame
    /\ UNCHANGED <<m_max_queue_size, memVars, held>>

\* The public start() and stop() take no mutex and ask for no client
\* (rmfAudioCaptureTestApp offers both).
StartStop ==
    /\ owner = "up"
    /\ m_started' \in BOOLEAN
    /\ AppFrame
    /\ UNCHANGED <<m_max_queue_size, m_clients, memVars, held>>

\* set_audio_properties, its m_q_mutex section.  Its m_client_mutex section
\* stops and restarts a started device: every variable here keeps its value
\* (CaptureControl models that section).
SetAudioProperties ==
    /\ owner = "up"
    /\ m_max_queue_size' \in QueueSizes \ {m_max_queue_size}
    /\ AppFrame
    /\ UNCHANGED <<m_clients, m_started, memVars, held>>

\* A retaining client lets go of its oldest buffer: trim_queue while it is
\* alive, registered or not, and its destructor.
ReleaseBuffer(c) ==
    /\ held[c] # << >>
    /\ UnrefAudioBuffer(Head(held[c]))
    /\ held' = [held EXCEPT ![c] = Tail(@)]
    /\ AppFrame
    /\ UNCHANGED <<m_max_queue_size, m_clients, m_started>>

-----------------------------------------------------------------------------
(* ~q_mgr, called once, after the last call of the application.            *)

OwnerFrame == UNCHANGED <<m_max_queue_size, m_notify_new_data, m_clients, pc,
                          batchVars, made, m_refcount, clientVars, unheard>>

CloseDevice ==
    /\ owner = "up"
    /\ owner' = "closed"
    /\ m_started' = FALSE
    /\ OwnerFrame
    /\ UNCHANGED <<queueVars, m_sem, m_processing_thread_alive, frees>>

ClearAlive ==
    /\ owner = "closed"
    /\ owner' = "posting"
    /\ m_processing_thread_alive' = FALSE
    /\ OwnerFrame
    /\ UNCHANGED <<queueVars, m_sem, m_started, frees>>

\* Mutant: ~q_mgr joins the thread without waking it.
PostShutdown_Forgotten ==
    /\ owner = "posting"
    /\ owner' = "joining"
    /\ OwnerFrame
    /\ UNCHANGED <<queueVars, m_sem, m_processing_thread_alive, m_started, frees>>

PostShutdown ==
    /\ owner = "posting"
    /\ owner' = "joining"
    /\ m_sem' = m_sem + 1
    /\ OwnerFrame
    /\ UNCHANGED <<queueVars, m_processing_thread_alive, m_started, frees>>

\* pthread_join, then both queues are flushed.
JoinAndFlush ==
    /\ owner = "joining"
    /\ pc = "exited"
    /\ owner' = "gone"
    /\ frees' = [b \in Buffers |->
                   frees[b] + (IF b \in Range(m_current_incoming_q) THEN 1 ELSE 0)
                            + (IF b \in Range(m_current_outgoing_q) THEN 1 ELSE 0)]
    /\ m_current_incoming_q' = << >>
    /\ m_current_outgoing_q' = << >>
    /\ OwnerFrame
    /\ UNCHANGED <<m_sem, m_processing_thread_alive, m_started>>

Owner == CloseDevice \/ ClearAlive \/ PostShutdown \/ JoinAndFlush

-----------------------------------------------------------------------------
Application == \/ \E c \in Clients : RegisterClient(c) \/ UnregisterClient(c) \/ ReleaseBuffer(c)
               \/ StartStop
               \/ SetAudioProperties

Next == AddData \/ Processor \/ SemWaitFails \/ Application \/ Owner

Spec == Init /\ [][Next]_vars

(* The processor is a thread that blocks only on mutexes held for finitely *)
(* many steps and on m_sem, so it keeps moving whenever it can.  Once      *)
(* ~q_mgr has begun, its thread runs to the end.  Nothing obliges sem_wait  *)
(* to fail, or spares the processor from it.                               *)
FairSpec == /\ Spec
            /\ WF_vars(Processor)
            /\ WF_vars(ClearAlive \/ PostShutdown \/ JoinAndFlush)

-----------------------------------------------------------------------------
(* Derived state *)

\* The outgoing buffers nobody was called for yet, in delivery order; while a
\* buffer is being handed out it is the first of them.
Undelivered == IF pc = "clear" THEN << >>
               ELSE IF pc = "callback"
                    THEN SubSeq(m_current_outgoing_q, cursor, Len(m_current_outgoing_q))
                    ELSE m_current_outgoing_q

\* The buffers accepted from the device and not handed out yet.
Backlog == Undelivered \o m_current_incoming_q

\* The buffers whose hand-out has not begun: NotBegun in the outgoing queue.
NotBegun == {m_current_outgoing_q[k] :
               k \in {k \in DOMAIN m_current_outgoing_q :
                        pc # "clear" /\ (pc = "callback" => k > cursor)}}
Waiting == Range(m_current_incoming_q) \cup NotBegun

\* Clients that keep b, and clients that process_data still has to call with b.
Holders(b) == {c \in Clients : b \in Range(held[c])}
Owed(b) == IF pc # "callback" THEN {}
           ELSE IF b = m_current_outgoing_q[cursor] THEN todo
                ELSE IF b \in NotBegun THEN m_clients ELSE {}

-----------------------------------------------------------------------------
(* Properties *)

QueueTypes ==
    /\ m_current_incoming_q \in Seq(Buffers)
    /\ m_current_outgoing_q \in Seq(Buffers)
    /\ held \in [Clients -> Seq(Buffers)]

MemoryTypes ==
    /\ m_refcount \in [Buffers -> Int]
    /\ frees \in [Buffers -> Nat]
    /\ last \in [Clients -> 0 .. MaxBuffers]
    /\ unheard \in SUBSET Buffers

CounterTypes ==
    /\ m_max_queue_size \in QueueSizes
    /\ m_sem \in Nat
    /\ cursor \in Nat
    /\ made \in 0 .. MaxBuffers

ThreadTypes ==
    /\ m_notify_new_data \in BOOLEAN
    /\ m_processing_thread_alive \in BOOLEAN
    /\ m_started \in BOOLEAN
    /\ m_clients \in SUBSET Clients
    /\ todo \in SUBSET Clients
    /\ pc \in PCs
    /\ owner \in OwnerPCs

TypeOK == QueueTypes /\ MemoryTypes /\ CounterTypes /\ ThreadTypes

\* The processor never sleeps on a semaphore nobody will post: when it is
\* blocked in sem_wait, add_data has nothing queued that it did not post for,
\* and the request to be notified is still standing.
NoLostWakeup ==
    pc = "wait" /\ m_sem = 0 => m_current_incoming_q = << >> /\ m_notify_new_data

\* "New data available in incoming queue": until ~q_mgr posts, the second
\* swap of the thread's loop always finds data, so a post is never left over
\* from data that an earlier swap already took.
WakeupFindsData ==
    pc = "swap" /\ owner \notin {"joining", "gone"} => m_current_incoming_q # << >>

\* However long the clients' callbacks take, the two queues together hold at
\* most two full incoming queues of the largest size in force.
BacklogBounded ==
    \E size \in QueueSizes :
        /\ \A other \in QueueSizes : other <= size
        /\ Len(Backlog) <= 2 * (size + 1)

\* No buffer is deleted twice: not by two clients that release it, not by a
\* client and a flush of a queue that still names it.
NoDoubleFree == \A b \in Buffers : frees[b] <= 1

\* A buffer in a client's queue, or still to be handed to a client, or waiting
\* in either queue, was not deleted.
NoDanglingBuffer ==
    \A b \in Buffers : Holders(b) \cup Owed(b) # {} \/ b \in Waiting => frees[b] = 0

\* While a batch is handed out and as long as clients keep its buffers, the
\* reference count is the number of clients that keep the buffer or will get it.
RefcountExact ==
    \A b \in Buffers :
        Holders(b) \cup Owed(b) # {} =>
            m_refcount[b] = Cardinality(Holders(b)) + Cardinality(Owed(b))

\* A buffer that is neither deleted nor reachable is lost memory.  That happens
\* to the buffers process_data handles while no client is registered, and to
\* no others.
OnlyUnheardBuffersLeak ==
    \A b \in 1 .. made :
        frees[b] = 0 /\ b \notin Range(Backlog) /\ Holders(b) = {} => b \in unheard

\* The step in which process_data calls c: c leaves those that are still to come.
HandedOut(c) == c \in todo /\ c \notin todo'

\* A client is handed each buffer at most once and in the order of capture,
\* across swaps, overflows and unregistering and registering again: whenever it is
\* called, it is with a later buffer than the last time, and not with the same.
DeliveredInOrder == [][\A c \in Clients : HandedOut(c) => last[c] < last'[c]]_vars

\* The data path is the ordered, lossy broadcast of AudioFeed: a registered
\* client misses no buffer but the ones an overflow or ~q_mgr flushed.
Feed == INSTANCE AudioFeed WITH
            backlog <- Backlog,
            busy <- pc = "callback",
            owed <- todo,
            members <- m_clients,
            heard <- last
ImplementsFeed == Feed!FeedSpec

\* The processor ended by itself, on a semaphore error, and ~q_mgr has not begun.
ProcessorLost == pc = "exited" /\ m_processing_thread_alive

\* What the device delivered is handed out, or flushed, in the end, unless the
\* processor is lost: then the backlog stays until ~q_mgr, which flushes it still.
QueuedBuffersMoveOn ==
    \A b \in Buffers : b \in Range(Backlog) ~> b \notin Range(Backlog) \/ ProcessorLost

\* ~q_mgr returns, provided the processor thread ran its first statement
\* before ~q_mgr cleared m_processing_thread_alive.
DestructorReturns ==
    owner = "posting" /\ pc # "launch" /\ ~m_processing_thread_alive ~> owner = "gone"
=============================================================================
