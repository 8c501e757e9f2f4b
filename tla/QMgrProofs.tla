------------------------------ MODULE QMgrProofs ------------------------------
(***************************************************************************)
(* Theorems about the data path of q_mgr (module QMgr), for every set of   *)
(* clients, every set of queue sizes and any number of buffers.            *)
(***************************************************************************)
EXTENDS QMgrInductive, NumberLemmas, SequenceTheorems, FiniteSetTheorems, TLAPS

-----------------------------------------------------------------------------
(* Who writes what: every step leaves a variable as it is or is one of the  *)
(* actions listed for it.                                                  *)

LEMMA WritersOfIncoming ==
    [Next]_vars =>
        \/ UNCHANGED m_current_incoming_q
        \/ AddData
        \/ CheckIncoming
        \/ SwapAfterWake
        \/ JoinAndFlush
BY DEF Next, Processor, Application, Owner, vars, ProcessorFrame, AppFrame, OwnerFrame,
    queueVars, signalVars, batchVars, memVars, clientVars,
    Launch, TestAlive, BeginProcessData, NextBuffer, EndCallbacks, ClearOutgoing,
    OutgoingDrained, SemWait, SemWaitFails, TestShutdown, DataCallback, RegisterClient,
    UnregisterClient, ReleaseBuffer, StartStop, SetAudioProperties, CloseDevice,
    ClearAlive, PostShutdown

LEMMA WritersOfOutgoing ==
    [Next]_vars =>
        \/ UNCHANGED m_current_outgoing_q
        \/ ClearOutgoing
        \/ CheckIncoming
        \/ SwapAfterWake
        \/ JoinAndFlush
BY DEF Next, Processor, Application, Owner, vars, ProcessorFrame, AppFrame, OwnerFrame,
    queueVars, signalVars, batchVars, memVars, clientVars,
    AddData, Launch, TestAlive, BeginProcessData, NextBuffer, EndCallbacks,
    OutgoingDrained, SemWait, SemWaitFails, TestShutdown, DataCallback, RegisterClient,
    UnregisterClient, ReleaseBuffer, StartStop, SetAudioProperties, CloseDevice,
    ClearAlive, PostShutdown

LEMMA WritersOfMemory ==
    [Next]_vars =>
        \/ UNCHANGED <<memVars, unheard>>
        \/ AddData
        \/ BeginProcessData
        \/ \E c \in Clients : DataCallback(c)
        \/ CheckIncoming
        \/ SwapAfterWake
        \/ \E c \in Clients : ReleaseBuffer(c)
        \/ JoinAndFlush
BY DEF Next, Processor, Application, Owner, vars, ProcessorFrame, AppFrame, OwnerFrame,
    queueVars, signalVars, batchVars, memVars, clientVars,
    Launch, TestAlive, NextBuffer, EndCallbacks, ClearOutgoing, OutgoingDrained,
    SemWait, SemWaitFails, TestShutdown, RegisterClient, UnregisterClient, StartStop,
    SetAudioProperties, CloseDevice, ClearAlive, PostShutdown

LEMMA WritersOfHeld ==
    [Next]_vars =>
        \/ UNCHANGED held
        \/ \E c \in Clients : DataCallback(c)
        \/ \E c \in Clients : ReleaseBuffer(c)
BY DEF Next, Processor, Application, Owner, vars, ProcessorFrame, AppFrame, OwnerFrame,
    queueVars, signalVars, batchVars, memVars, clientVars,
    AddData, Launch, TestAlive, BeginProcessData, NextBuffer, EndCallbacks,
    ClearOutgoing, OutgoingDrained, CheckIncoming, SemWait, SemWaitFails, TestShutdown,
    SwapAfterWake, RegisterClient, UnregisterClient, StartStop, SetAudioProperties,
    CloseDevice, ClearAlive, PostShutdown, JoinAndFlush

LEMMA WritersOfLast ==
    [Next]_vars =>
        \/ UNCHANGED last
        \/ \E c \in Clients : DataCallback(c)
BY DEF Next, Processor, Application, Owner, vars, ProcessorFrame, AppFrame, OwnerFrame,
    queueVars, signalVars, batchVars, memVars, clientVars,
    AddData, Launch, TestAlive, BeginProcessData, NextBuffer, EndCallbacks,
    ClearOutgoing, OutgoingDrained, CheckIncoming, SemWait, SemWaitFails, TestShutdown,
    SwapAfterWake, RegisterClient, UnregisterClient, ReleaseBuffer, StartStop,
    SetAudioProperties, CloseDevice, ClearAlive, PostShutdown, JoinAndFlush

LEMMA WritersOfCounters ==
    [Next]_vars =>
        \/ UNCHANGED <<m_max_queue_size, m_sem, cursor, made>>
        \/ AddData
        \/ BeginProcessData
        \/ NextBuffer
        \/ EndCallbacks
        \/ SemWait
        \/ SetAudioProperties
        \/ PostShutdown
BY DEF Next, Processor, Application, Owner, vars, ProcessorFrame, AppFrame, OwnerFrame,
    queueVars, signalVars, batchVars, memVars, clientVars,
    Launch, TestAlive, ClearOutgoing, OutgoingDrained, CheckIncoming, SemWaitFails, TestShutdown,
    SwapAfterWake, DataCallback, RegisterClient, UnregisterClient, ReleaseBuffer,
    StartStop, CloseDevice, ClearAlive, JoinAndFlush

-----------------------------------------------------------------------------
(* Type correctness *)

LEMMA TypeOKInit == Init => TypeOK
<1>1. Init => QueueTypes
  BY DEF Init, QueueTypes
<1>2. Init => MemoryTypes
  BY MaxBuffersNat DEF Init, MemoryTypes
<1>3. Init => CounterTypes
  BY MaxBuffersNat DEF Init, CounterTypes
<1>4. Init => ThreadTypes
  BY DEF Init, ThreadTypes, PCs, OwnerPCs
<1>. QED BY <1>1, <1>2, <1>3, <1>4 DEF TypeOK

\* The number of the next buffer, and the buffer under the cursor.
LEMMA NewBuffer == TypeOK /\ AddData => made + 1 \in Buffers
BY MaxBuffersNat DEF TypeOK, CounterTypes, AddData, Buffers

LEMMA BufferAtCursor ==
    TypeOK /\ CursorOK /\ pc = "callback" => m_current_outgoing_q[cursor] \in Buffers
BY DEF TypeOK, QueueTypes, CursorOK

LEMMA QueueTypesNext == TypeOK /\ CursorOK /\ [Next]_vars => QueueTypes'
<1> SUFFICES ASSUME TypeOK, CursorOK, [Next]_vars PROVE QueueTypes'
  OBVIOUS
<1> USE DEF TypeOK, QueueTypes
<1>1. m_current_incoming_q' \in Seq(Buffers)
  <2>1. CASE AddData
    <3>1. CASE m_current_incoming_q' = <<made + 1>>
      BY <2>1, <3>1, NewBuffer
    <3>2. CASE m_current_incoming_q' = Append(m_current_incoming_q, made + 1)
      BY <2>1, <3>2, NewBuffer
    <3>. QED BY <2>1, <3>1, <3>2 DEF AddData
  <2>2. CASE CheckIncoming
    <3>1. CASE m_current_incoming_q' = m_current_incoming_q
      BY <3>1
    <3>2. CASE m_current_incoming_q' = << >>
      BY <3>2
    <3>. QED BY <2>2, <3>1, <3>2 DEF CheckIncoming, SwapQueues, queueVars
  <2>3. CASE SwapAfterWake
    BY <2>3 DEF SwapAfterWake, SwapQueues
  <2>4. CASE JoinAndFlush
    BY <2>4 DEF JoinAndFlush
  <2>. QED BY <2>1, <2>2, <2>3, <2>4, WritersOfIncoming
<1>2. m_current_outgoing_q' \in Seq(Buffers)
  <2>1. CASE ClearOutgoing
    BY <2>1 DEF ClearOutgoing
  <2>2. CASE CheckIncoming
    BY <2>2 DEF CheckIncoming, SwapQueues, queueVars
  <2>3. CASE SwapAfterWake
    BY <2>3 DEF SwapAfterWake, SwapQueues
  <2>4. CASE JoinAndFlush
    BY <2>4 DEF JoinAndFlush
  <2>. QED BY <2>1, <2>2, <2>3, <2>4, WritersOfOutgoing
<1>3. held' \in [Clients -> Seq(Buffers)]
  <2>1. ASSUME NEW c \in Clients, DataCallback(c)
        PROVE  held' \in [Clients -> Seq(Buffers)]
    <3>1. m_current_outgoing_q[cursor] \in Buffers
      BY <2>1, BufferAtCursor DEF DataCallback
    <3>2. CASE held' = [held EXCEPT ![c] = Append(@, m_current_outgoing_q[cursor])]
      BY <3>1, <3>2
    <3>3. CASE UNCHANGED held
      BY <3>3
    <3>. QED BY <2>1, <3>2, <3>3 DEF DataCallback
  <2>2. ASSUME NEW c \in Clients, ReleaseBuffer(c)
        PROVE  held' \in [Clients -> Seq(Buffers)]
    BY <2>2 DEF ReleaseBuffer
  <2>. QED BY <2>1, <2>2, WritersOfHeld
<1>. QED BY <1>1, <1>2, <1>3

\* Deleting and releasing keep the types of the reference counts.
LEMMA DeleteAllType ==
    ASSUME TypeOK, NEW S, DeleteAll(S) PROVE frees' \in [Buffers -> Nat]
BY DEF TypeOK, MemoryTypes, DeleteAll

LEMMA UnrefType ==
    ASSUME TypeOK, NEW b \in Buffers, UnrefAudioBuffer(b)
    PROVE  m_refcount' \in [Buffers -> Int] /\ frees' \in [Buffers -> Nat]
BY DeleteAllType DEF TypeOK, MemoryTypes, UnrefAudioBuffer

LEMMA CountOfClients == TypeOK => Cardinality(m_clients) \in Nat
BY ClientsFinite, FS_Subset, FS_CardinalityType DEF TypeOK, ThreadTypes

LEMMA MemoryTypesNext == TypeOK /\ CursorOK /\ [Next]_vars => MemoryTypes'
<1> SUFFICES ASSUME TypeOK, CursorOK, [Next]_vars PROVE MemoryTypes'
  OBVIOUS
<1>0. MemoryTypes
  BY DEF TypeOK
<1> USE DEF MemoryTypes
<1>1. CASE AddData
  BY <1>0, <1>1, DeleteAllType, NewBuffer, CountOfClients DEF AddData, clientVars
<1>2. CASE BeginProcessData
  <2>1. Range(m_current_outgoing_q) \subseteq Buffers
    BY DEF TypeOK, QueueTypes, Range
  <2>. QED BY <1>0, <1>2, <2>1, CountOfClients
           DEF BeginProcessData, UpdateBufferReferences, clientVars
<1>3. ASSUME NEW c \in Clients, DataCallback(c) PROVE MemoryTypes'
  <2>1. m_current_outgoing_q[cursor] \in Buffers
    BY <1>3, BufferAtCursor DEF DataCallback
  <2>2. last' \in [Clients -> 0 .. MaxBuffers] /\ unheard' \in SUBSET Buffers
    BY <1>0, <1>3, <2>1, MaxBuffersNat DEF DataCallback, Buffers
  <2>. QED BY <1>0, <1>3, <2>1, <2>2, UnrefType DEF DataCallback, memVars
<1>4. ASSUME NEW c \in Clients, ReleaseBuffer(c) PROVE MemoryTypes'
  <2>1. Head(held[c]) \in Buffers
    BY <1>4 DEF ReleaseBuffer, TypeOK, QueueTypes
  <2>. QED BY <1>0, <1>4, <2>1, UnrefType DEF ReleaseBuffer, AppFrame
<1>5. CASE CheckIncoming \/ SwapAfterWake
  BY <1>0, <1>5, DeleteAllType DEF CheckIncoming, SwapAfterWake, SwapQueues, clientVars
<1>6. CASE JoinAndFlush
  BY <1>0, <1>6 DEF JoinAndFlush, OwnerFrame, clientVars
<1>7. CASE UNCHANGED <<memVars, unheard, last>>
  BY <1>0, <1>7 DEF memVars
<1>. QED BY <1>1, <1>2, <1>3, <1>4, <1>5, <1>6, <1>7, WritersOfMemory, WritersOfLast

LEMMA CounterTypesNext == TypeOK /\ CursorOK /\ [Next]_vars => CounterTypes'
<1> SUFFICES ASSUME TypeOK, CursorOK, [Next]_vars PROVE CounterTypes'
  OBVIOUS
<1> USE MaxBuffersNat DEF TypeOK, CounterTypes
<1>1. CASE AddData
  BY <1>1 DEF AddData, NotifyDataReady, signalVars, batchVars
<1>2. CASE BeginProcessData \/ NextBuffer \/ EndCallbacks
  BY <1>2 DEF BeginProcessData, NextBuffer, EndCallbacks, ProcessorFrame, signalVars
<1>3. CASE SemWait
  BY <1>3 DEF SemWait, ProcessorFrame, batchVars
<1>4. CASE SetAudioProperties
  BY <1>4 DEF SetAudioProperties, AppFrame, batchVars, signalVars
<1>5. CASE PostShutdown
  BY <1>5 DEF PostShutdown, OwnerFrame, batchVars
<1>6. CASE UNCHANGED <<m_max_queue_size, m_sem, cursor, made>>
  BY <1>6
<1>. QED BY <1>1, <1>2, <1>3, <1>4, <1>5, <1>6, WritersOfCounters

\* The cursor is set when a batch begins and moves only while it has somewhere
\* to go; the clients still to be called are among the registered ones, because
\* registration waits for the batch to end.
LEMMA ThreadsNext == TypeOK /\ CursorOK /\ [Next]_vars => ThreadTypes' /\ CursorOK'
<1> SUFFICES ASSUME TypeOK, CursorOK, [Next]_vars PROVE ThreadTypes' /\ CursorOK'
  OBVIOUS
<1>0. ThreadTypes
  BY DEF TypeOK
<1> USE <1>0 DEF ThreadTypes, CursorOK, PCs, OwnerPCs
<1>1. CASE AddData
  BY <1>1 DEF AddData, NotifyDataReady, signalVars, batchVars
<1>2. CASE Launch \/ TestAlive \/ OutgoingDrained \/ SemWaitFails \/ TestShutdown
  BY <1>2 DEF Launch, TestAlive, OutgoingDrained, SemWaitFails, TestShutdown, ProcessorFrame,
              signalVars, batchVars
<1>3. CASE BeginProcessData
  <2>1. 1 \in 1 .. Len(m_current_outgoing_q)
    BY <1>3 DEF BeginProcessData, TypeOK, QueueTypes
  <2>. QED BY <1>3, <2>1 DEF BeginProcessData, ProcessorFrame, queueVars, signalVars
<1>4. ASSUME NEW c \in Clients, DataCallback(c) PROVE ThreadTypes' /\ CursorOK'
  BY <1>4 DEF DataCallback, ProcessorFrame, queueVars, signalVars
<1>5. CASE NextBuffer
  <2>1. cursor + 1 \in 1 .. Len(m_current_outgoing_q)
    BY <1>5 DEF NextBuffer, TypeOK, QueueTypes, CounterTypes
  <2>. QED BY <1>5, <2>1 DEF NextBuffer, ProcessorFrame, queueVars, signalVars
<1>6. CASE EndCallbacks \/ ClearOutgoing \/ SemWait
  BY <1>6 DEF EndCallbacks, ClearOutgoing, SemWait, ProcessorFrame, signalVars, batchVars
<1>7. CASE CheckIncoming \/ SwapAfterWake
  BY <1>7 DEF CheckIncoming, SwapAfterWake, AskForNotification, ProcessorFrame, signalVars,
              batchVars
<1>8. ASSUME NEW c \in Clients, RegisterClient(c) \/ UnregisterClient(c)
      PROVE  ThreadTypes' /\ CursorOK'
  BY <1>8 DEF RegisterClient, UnregisterClient, ClientMutexFree, AppFrame, queueVars,
              signalVars, batchVars
<1>9. ASSUME NEW c \in Clients, ReleaseBuffer(c) PROVE ThreadTypes' /\ CursorOK'
  BY <1>9 DEF ReleaseBuffer, AppFrame, queueVars, signalVars, batchVars
<1>10. CASE StartStop \/ SetAudioProperties
  BY <1>10 DEF StartStop, SetAudioProperties, AppFrame, queueVars, signalVars, batchVars
<1>11. CASE CloseDevice \/ ClearAlive \/ PostShutdown
  BY <1>11 DEF CloseDevice, ClearAlive, PostShutdown, OwnerFrame, queueVars, batchVars
<1>12. CASE JoinAndFlush
  BY <1>12 DEF JoinAndFlush, OwnerFrame, batchVars
<1>13. CASE UNCHANGED vars
  BY <1>13 DEF vars, queueVars, signalVars, batchVars
<1>. QED BY <1>1, <1>2, <1>3, <1>4, <1>5, <1>6, <1>7, <1>8, <1>9, <1>10, <1>11, <1>12, <1>13
         DEF Next, Processor, Application, Owner

\* Every variable keeps its type, and the cursor of process_data stays inside
\* the outgoing queue.
THEOREM TypeCorrect == Spec => [](TypeOK /\ CursorOK)
<1>1. Init => TypeOK /\ CursorOK
  BY TypeOKInit DEF Init, CursorOK
<1>2. TypeOK /\ CursorOK /\ [Next]_vars => TypeOK' /\ CursorOK'
  BY QueueTypesNext, MemoryTypesNext, CounterTypesNext, ThreadsNext DEF TypeOK
<1>. QED BY <1>1, <1>2, PTL DEF Spec

-----------------------------------------------------------------------------
(* The wake-up protocol *)

LEMMA AppendNotEmpty == ASSUME NEW s \in Seq(Buffers), NEW b \in Buffers
                        PROVE Append(s, b) # << >>
BY AppendProperties

\* add_data leaves the incoming queue non-empty ...
LEMMA AddDataFills == TypeOK /\ AddData => m_current_incoming_q' # << >>
<1> SUFFICES ASSUME TypeOK, AddData PROVE m_current_incoming_q' # << >>
  OBVIOUS
<1>1. CASE m_current_incoming_q' = <<made + 1>>
  BY <1>1
<1>2. CASE m_current_incoming_q' = Append(m_current_incoming_q, made + 1)
  BY <1>2, NewBuffer, AppendNotEmpty DEF TypeOK, QueueTypes
<1>. QED BY <1>1, <1>2 DEF AddData

\* ... and posts if, and only if, the processor asked.
LEMMA AddDataPosts ==
    AddData => /\ ~m_notify_new_data'
               /\ m_notify_new_data => m_sem' = m_sem + 1
               /\ ~m_notify_new_data => m_sem' = m_sem
               /\ UNCHANGED <<pc, owner>>
BY DEF AddData, NotifyDataReady, signalVars

\* The steps that touch neither the semaphore, nor the request to be notified,
\* nor the incoming queue, and go nowhere near sem_wait.
LEMMA WakeupElsewhere ==
    [Next]_vars =>
        \/ AddData \/ CheckIncoming \/ SemWait \/ SemWaitFails \/ TestShutdown
        \/ SwapAfterWake \/ ClearAlive \/ PostShutdown \/ JoinAndFlush \/ CloseDevice
        \/ /\ UNCHANGED <<m_sem, m_notify_new_data, m_current_incoming_q, owner>>
           /\ \/ UNCHANGED pc
              \/ /\ pc \notin {"wait", "woken", "swap", "exited"}
                 /\ pc' \notin {"wait", "woken", "swap"}
BY DEF Next, Processor, Application, Owner, vars, ProcessorFrame, AppFrame,
    queueVars, signalVars, batchVars, memVars, clientVars,
    Launch, TestAlive, BeginProcessData, NextBuffer, EndCallbacks, ClearOutgoing,
    OutgoingDrained, DataCallback, RegisterClient, UnregisterClient, ReleaseBuffer,
    StartStop, SetAudioProperties

LEMMA WakeupNext == TypeOK /\ WakeupInv /\ [Next]_vars => WakeupInv'
<1> SUFFICES ASSUME TypeOK, WakeupInv, [Next]_vars PROVE WakeupInv'
  OBVIOUS
<1> USE DEF WakeupInv, NoLostWakeup, PostsMeanData
<1>0. m_sem \in Nat /\ m_notify_new_data \in BOOLEAN
  BY DEF TypeOK, CounterTypes, ThreadTypes
<1>1. CASE AddData
  <2>1. CASE m_notify_new_data
    BY <1>0, <1>1, <2>1, AddDataFills, AddDataPosts
  <2>2. CASE ~m_notify_new_data
    BY <1>0, <1>1, <2>2, AddDataFills, AddDataPosts
  <2>. QED BY <2>1, <2>2
<1>2. CASE CheckIncoming
  <2>1. owner' = owner /\ pc = "check" /\ pc' \in {"test", "wait"} /\ m_sem' = m_sem
    BY <1>2 DEF CheckIncoming, ProcessorFrame, signalVars
  <2>2. CASE m_current_incoming_q = << >>
    BY <1>2, <2>1, <2>2 DEF CheckIncoming, AskForNotification, queueVars
  <2>3. CASE m_current_incoming_q # << >>
    BY <1>2, <2>1, <2>3 DEF CheckIncoming, signalVars
  <2>. QED BY <2>2, <2>3
<1>3. CASE SemWait
  <2>1. /\ pc = "wait" /\ pc' = "woken" /\ m_sem # 0 /\ m_sem' = m_sem - 1
        /\ UNCHANGED <<m_current_incoming_q, m_notify_new_data, owner>>
    BY <1>0, <1>3 DEF SemWait, ProcessorFrame, queueVars
  <2>. QED BY <1>0, <2>1
<1>4. CASE TestShutdown
  <2>1. /\ pc = "woken" /\ pc' \in {"swap", "exited"}
        /\ UNCHANGED <<m_sem, m_current_incoming_q, m_notify_new_data, owner>>
    BY <1>4 DEF TestShutdown, ProcessorFrame, queueVars, signalVars
  <2>. QED BY <2>1
<1>5. CASE SwapAfterWake
  <2>1. pc = "swap" /\ pc' = "test" /\ UNCHANGED <<m_sem, m_notify_new_data, owner>>
    BY <1>5 DEF SwapAfterWake, ProcessorFrame, signalVars
  <2>. QED BY <2>1
<1>6. CASE CloseDevice \/ ClearAlive
  <2>1. /\ UNCHANGED <<pc, m_sem, m_current_incoming_q, m_notify_new_data>>
        /\ owner \notin {"joining", "gone"}
    BY <1>6 DEF CloseDevice, ClearAlive, OwnerFrame, queueVars
  <2>. QED BY <2>1
<1>7. CASE PostShutdown
  <2>1. owner' = "joining" /\ m_sem' = m_sem + 1 /\ m_sem' # 0
    BY <1>0, <1>7 DEF PostShutdown
  <2>. QED BY <2>1
<1>8. CASE JoinAndFlush
  <2>1. owner' = "gone" /\ pc' = "exited"
    BY <1>8 DEF JoinAndFlush, OwnerFrame
  <2>. QED BY <2>1
<1>9. CASE SemWaitFails
  BY <1>9 DEF SemWaitFails
<1>10. CASE /\ UNCHANGED <<m_sem, m_notify_new_data, m_current_incoming_q, owner>>
            /\ \/ UNCHANGED pc
               \/ /\ pc \notin {"wait", "woken", "swap", "exited"}
                  /\ pc' \notin {"wait", "woken", "swap"}
  BY <1>10
<1>. QED BY <1>1, <1>2, <1>3, <1>4, <1>5, <1>6, <1>7, <1>8, <1>9, <1>10, WakeupElsewhere

\* The processor never sleeps while data is queued for it and no post is
\* pending: the request made under m_q_mutex before sem_wait is not lost.
THEOREM WakeupNeverLost == Spec => []NoLostWakeup
<1>1. Init => WakeupInv
  BY DEF Init, WakeupInv, NoLostWakeup, PostsMeanData
<1>2. TypeOK /\ WakeupInv /\ [Next]_vars => WakeupInv'
  BY WakeupNext
<1>3. WakeupInv => NoLostWakeup
  BY DEF WakeupInv
<1>. QED BY <1>1, <1>2, <1>3, TypeCorrect, PTL DEF Spec

\* Whenever the processor wakes up to swap, before ~q_mgr posts, there is data.
THEOREM WakeupHasData == Spec => []WakeupFindsData
<1>1. Init => WakeupInv
  BY DEF Init, WakeupInv, NoLostWakeup, PostsMeanData
<1>2. TypeOK /\ WakeupInv /\ [Next]_vars => WakeupInv'
  BY WakeupNext
<1>3. WakeupInv => WakeupFindsData
  BY DEF WakeupInv, PostsMeanData, WakeupFindsData
<1>. QED BY <1>1, <1>2, <1>3, TypeCorrect, PTL DEF Spec

-----------------------------------------------------------------------------
(* Queues in the order of creation *)

LEMMA QueueRange == ASSUME NEW s \in Seq(Buffers) PROVE Range(s) \subseteq Buffers
<1>1. DOMAIN s = 1 .. Len(s)
  BY LenProperties
<1>2. \A i \in 1 .. Len(s) : s[i] \in Buffers
  BY ElementOfSeq
<1>. QED BY <1>1, <1>2 DEF Range

LEMMA IncreasingAppend ==
    ASSUME NEW s \in Seq(Buffers), Increasing(s), NEW b \in Buffers, \A d \in Range(s) : d < b
    PROVE  Increasing(Append(s, b)) /\ Range(Append(s, b)) = Range(s) \cup {b}
<1> DEFINE t == Append(s, b)
<1>1. /\ t \in Seq(Buffers) /\ Len(t) = Len(s) + 1 /\ t[Len(s) + 1] = b
      /\ \A i \in 1 .. Len(s) : t[i] = s[i]
  BY AppendProperties
<1>2. /\ Len(s) \in Nat /\ DOMAIN s = 1 .. Len(s) /\ DOMAIN t = 1 .. Len(s) + 1
  BY <1>1, LenProperties
<1> HIDE DEF t
<1>3. \A i \in 1 .. Len(s) : s[i] < b
  BY <1>2 DEF Range
<1>4. Increasing(t)
  BY <1>1, <1>2, <1>3 DEF Increasing
<1>5. Range(t) = Range(s) \cup {b}
  BY <1>1, <1>2 DEF Range
<1>. QED BY <1>4, <1>5 DEF t

LEMMA IncreasingTail ==
    ASSUME NEW s \in Seq(Buffers), Increasing(s), s # << >>
    PROVE  /\ Increasing(Tail(s))
           /\ Head(s) \in Range(s)
           /\ Range(Tail(s)) = Range(s) \ {Head(s)}
<1> DEFINE t == Tail(s)
<1>1. /\ t \in Seq(Buffers) /\ Len(t) = Len(s) - 1 /\ Head(s) = s[1]
      /\ \A i \in 1 .. Len(t) : t[i] = s[i + 1]
  BY HeadTailProperties
<1>2. /\ Len(s) \in Nat \ {0} /\ DOMAIN s = 1 .. Len(s) /\ DOMAIN t = 1 .. Len(s) - 1
  BY <1>1, LenProperties, EmptySeq
<1> HIDE DEF t
<1>3. \A i \in 2 .. Len(s) : s[1] < s[i] /\ s[i] = t[i - 1]
  BY <1>1, <1>2 DEF Increasing
<1>4. Increasing(t)
  <2> SUFFICES ASSUME NEW i \in 1 .. Len(s) - 1, NEW j \in 1 .. Len(s) - 1, i < j
               PROVE  t[i] < t[j]
    BY <1>2 DEF Increasing
  <2>1. i + 1 \in DOMAIN s /\ j + 1 \in DOMAIN s /\ i + 1 < j + 1
    BY <1>2
  <2>2. s[i + 1] < s[j + 1]
    BY <2>1 DEF Increasing
  <2>. QED BY <1>1, <1>2, <2>2
<1>5. \A x \in Range(t) : x \in Range(s) /\ x # s[1]
  <2> SUFFICES ASSUME NEW i \in 1 .. Len(s) - 1
               PROVE  t[i] \in Range(s) /\ t[i] # s[1]
    BY <1>2 DEF Range
  <2>1. i + 1 \in 2 .. Len(s) /\ t[i] = s[i + 1]
    BY <1>1, <1>2
  <2>2. s[1] \in Buffers /\ s[i + 1] \in Buffers
    BY <1>2, <2>1, ElementOfSeq
  <2>. QED BY <1>2, <1>3, <2>1, <2>2 DEF Range, Buffers
<1>6. \A x \in Range(s) : x # s[1] => x \in Range(t)
  <2> SUFFICES ASSUME NEW i \in 1 .. Len(s), s[i] # s[1]
               PROVE  s[i] \in Range(t)
    BY <1>2 DEF Range
  <2>1. i \in 2 .. Len(s) /\ i - 1 \in 1 .. Len(s) - 1
    BY <1>2
  <2>. QED BY <1>2, <1>3, <2>1 DEF Range
<1>7. Range(t) = Range(s) \ {s[1]}
  BY <1>5, <1>6
<1>8. Head(s) \in Range(s)
  BY <1>1, <1>2 DEF Range
<1>. QED BY <1>1, <1>4, <1>7, <1>8 DEF t

LEMMA IncreasingShort ==
    ASSUME NEW b PROVE /\ Increasing(<< >>) /\ Range(<< >>) = {}
                       /\ Increasing(<<b>>) /\ Range(<<b>>) = {b}
BY DEF Increasing, Range

-----------------------------------------------------------------------------
(* What the steps do to the buffers that wait to be handed out *)

\* The indices of the outgoing queue.
LEMMA OutgoingDomain ==
    TypeOK => /\ Len(m_current_outgoing_q) \in Nat
              /\ DOMAIN m_current_outgoing_q = 1 .. Len(m_current_outgoing_q)
              /\ \A i \in 1 .. Len(m_current_outgoing_q) : m_current_outgoing_q[i] \in Buffers
BY LenProperties, ElementOfSeq DEF TypeOK, QueueTypes

LEMMA WaitingBuffers ==
    TypeOK => NotBegun \subseteq Range(m_current_outgoing_q) /\ Waiting \subseteq Buffers
<1> SUFFICES ASSUME TypeOK
             PROVE  NotBegun \subseteq Range(m_current_outgoing_q) /\ Waiting \subseteq Buffers
  OBVIOUS
<1>1. NotBegun \subseteq Range(m_current_outgoing_q)
  BY DEF NotBegun, Range
<1>2. Range(m_current_outgoing_q) \subseteq Buffers /\ Range(m_current_incoming_q) \subseteq Buffers
  BY QueueRange DEF TypeOK, QueueTypes
<1>. QED BY <1>1, <1>2 DEF Waiting

\* Outside of process_data every outgoing buffer waits.
LEMMA AllWaitOutside ==
    pc \notin {"callback", "clear"} => NotBegun = Range(m_current_outgoing_q)
BY DEF NotBegun, Range

\* process_data begins with the oldest outgoing buffer.
LEMMA BeginTakesFirst ==
    ASSUME TypeOK, QueuesOrdered, BeginProcessData
    PROVE  /\ Current' \in Range(m_current_outgoing_q)
           /\ NotBegun = Range(m_current_outgoing_q)
           /\ NotBegun' = NotBegun \ {Current'}
           /\ \A b \in NotBegun' : Current' < b
           /\ \A b \in Range(m_current_incoming_q) : Current' < b
<1> DEFINE out == m_current_outgoing_q
<1>1. /\ pc = "drain" /\ pc' = "callback" /\ cursor' = 1 /\ out # << >>
      /\ UNCHANGED <<m_current_outgoing_q, m_current_incoming_q>>
  BY DEF BeginProcessData, queueVars
<1>2. /\ Len(out) \in Nat \ {0} /\ DOMAIN out = 1 .. Len(out)
      /\ \A i \in 1 .. Len(out) : out[i] \in Buffers
  BY <1>1, OutgoingDomain, EmptySeq DEF TypeOK, QueueTypes
<1>3. Current' = out[1]
  BY <1>1 DEF Current
<1>4. NotBegun' = {out[k] : k \in 2 .. Len(out)}
  BY <1>1, <1>2 DEF NotBegun
<1>5. \A k \in 2 .. Len(out) : out[1] < out[k]
  BY <1>2 DEF QueuesOrdered, Increasing
<1>6. Range(out) = {out[1]} \cup {out[k] : k \in 2 .. Len(out)}
  BY <1>2 DEF Range
<1>7. \A b \in NotBegun' : Current' < b
  BY <1>3, <1>4, <1>5
<1>8. Current' \notin NotBegun'
  BY <1>2, <1>3, <1>4, <1>5 DEF Buffers
<1>9. NotBegun = Range(out)
  BY <1>1, AllWaitOutside
<1>10. Current' \in Range(out)
  BY <1>3, <1>6
<1>11. \A b \in Range(m_current_incoming_q) : Current' < b
  BY <1>10 DEF QueuesOrdered
<1>. QED BY <1>3, <1>4, <1>6, <1>7, <1>8, <1>9, <1>10, <1>11

\* The loop of process_data moves on to the oldest buffer that waits.
LEMMA NextTakesFirst ==
    ASSUME TypeOK, CursorOK, QueuesOrdered, NextBuffer
    PROVE  /\ Current' \in NotBegun
           /\ NotBegun' = NotBegun \ {Current'}
           /\ \A b \in NotBegun' : Current' < b
           /\ \A b \in Range(m_current_incoming_q) : Current' < b
           /\ Current # Current' /\ Current \notin NotBegun
<1> DEFINE out == m_current_outgoing_q
<1>1. /\ pc = "callback" /\ pc' = "callback" /\ cursor' = cursor + 1 /\ cursor < Len(out)
      /\ UNCHANGED <<m_current_outgoing_q, m_current_incoming_q>>
  BY DEF NextBuffer, queueVars, ProcessorFrame
<1>2. /\ Len(out) \in Nat /\ DOMAIN out = 1 .. Len(out) /\ cursor \in 1 .. Len(out)
      /\ \A i \in 1 .. Len(out) : out[i] \in Buffers
  BY <1>1, OutgoingDomain DEF CursorOK
<1>3. Current' = out[cursor + 1] /\ Current = out[cursor]
  BY <1>1 DEF Current
<1>4. NotBegun = {out[k] : k \in cursor + 1 .. Len(out)}
  BY <1>1, <1>2 DEF NotBegun
<1>5. NotBegun' = {out[k] : k \in cursor + 2 .. Len(out)}
  BY <1>1, <1>2 DEF NotBegun
<1>6. \A k \in cursor + 2 .. Len(out) : out[cursor + 1] < out[k]
  BY <1>1, <1>2 DEF QueuesOrdered, Increasing
<1>7. \A k \in cursor + 1 .. Len(out) : out[cursor] < out[k]
  BY <1>1, <1>2 DEF QueuesOrdered, Increasing
<1>8. NotBegun = {Current'} \cup NotBegun'
  <2>1. \A k \in cursor + 1 .. Len(out) : k = cursor + 1 \/ k \in cursor + 2 .. Len(out)
    BY <1>2
  <2>2. /\ cursor + 1 \in cursor + 1 .. Len(out)
        /\ cursor + 2 .. Len(out) \subseteq cursor + 1 .. Len(out)
    BY <1>1, <1>2
  <2>. QED BY <1>3, <1>4, <1>5, <2>1, <2>2
<1>9. \A b \in NotBegun' : Current' < b
  BY <1>3, <1>5, <1>6
<1>10. Current' \notin NotBegun'
  <2>1. out[cursor + 1] \in Buffers
    BY <1>1, <1>2
  <2>. QED BY <1>3, <1>9, <2>1 DEF Buffers
<1>11. \A b \in NotBegun : Current < b
  BY <1>3, <1>4, <1>7
<1>12. Current \notin NotBegun
  <2>1. out[cursor] \in Buffers
    BY <1>2
  <2>. QED BY <1>3, <1>11, <2>1 DEF Buffers
<1>13. \A b \in Range(m_current_incoming_q) : Current' < b
  <2>1. Current' \in Range(out)
    BY <1>1, <1>2, <1>3 DEF Range
  <2>. QED BY <2>1 DEF QueuesOrdered
<1>. QED BY <1>8, <1>9, <1>10, <1>12, <1>13

\* A swap happens when the outgoing queue is empty: nothing is deleted, and the
\* incoming buffers become the ones that wait in the outgoing queue.
LEMMA SwapMovesAll ==
    ASSUME TypeOK, DrainedOK, pc \in {"check", "swap"}, pc' = "test", SwapQueues
    PROVE  /\ m_current_outgoing_q = << >> /\ NotBegun = {}
           /\ m_current_incoming_q' = << >> /\ m_current_outgoing_q' = m_current_incoming_q
           /\ NotBegun' = Range(m_current_incoming_q) /\ Range(m_current_incoming_q') = {}
           /\ UNCHANGED frees
<1>1. m_current_outgoing_q = << >>
  BY DEF DrainedOK
<1>2. Range(<< >>) = {}
  BY IncreasingShort
<1>3. NotBegun = {}
  BY <1>1, <1>2, AllWaitOutside
<1>4. m_current_incoming_q' = << >> /\ m_current_outgoing_q' = m_current_incoming_q
  BY DEF SwapQueues
<1>5. NotBegun' = Range(m_current_incoming_q)
  BY <1>4 DEF NotBegun, Range
<1>6. frees' = [b \in Buffers |-> frees[b] + IF b \in {} THEN 1 ELSE 0]
  BY <1>1, <1>2 DEF SwapQueues, DeleteAll
<1>7. frees' = frees
  BY <1>6 DEF TypeOK, MemoryTypes
<1>. QED BY <1>1, <1>2, <1>3, <1>4, <1>5, <1>7

\* After a flush in ~q_mgr nothing waits.
LEMMA FlushLeavesNothing ==
    JoinAndFlush => NotBegun' = {} /\ Range(m_current_incoming_q') = {}
<1> SUFFICES ASSUME JoinAndFlush
             PROVE  NotBegun' = {} /\ Range(m_current_incoming_q') = {}
  OBVIOUS
<1>1. m_current_incoming_q' = << >> /\ m_current_outgoing_q' = << >>
  BY DEF JoinAndFlush
<1>. QED BY <1>1 DEF NotBegun, Range

\* The steps that leave the set NotBegun as it is.
LEMMA NotBegunKept ==
    ASSUME TypeOK, CursorOK, [Next]_vars,
           ~BeginProcessData, ~NextBuffer, ~CheckIncoming, ~SwapAfterWake, ~JoinAndFlush
    PROVE  NotBegun' = NotBegun
<1>1. CASE EndCallbacks
  <2>1. NotBegun = {}
    BY <1>1, OutgoingDomain DEF EndCallbacks, NotBegun
  <2>2. NotBegun' = {}
    BY <1>1 DEF EndCallbacks, NotBegun
  <2>. QED BY <2>1, <2>2
<1>2. CASE ClearOutgoing
  <2>1. NotBegun = {}
    BY <1>2 DEF ClearOutgoing, NotBegun
  <2>2. m_current_outgoing_q' = << >>
    BY <1>2 DEF ClearOutgoing
  <2>3. NotBegun' = {}
    BY <2>2 DEF NotBegun
  <2>. QED BY <2>1, <2>3
<1>3. CASE \/ Launch \/ TestAlive \/ OutgoingDrained \/ SemWait \/ SemWaitFails
            \/ TestShutdown
  <2>1. /\ m_current_outgoing_q' = m_current_outgoing_q
        /\ pc \notin {"callback", "clear"} /\ pc' \notin {"callback", "clear"}
    BY <1>3 DEF Launch, TestAlive, OutgoingDrained, SemWait, SemWaitFails, TestShutdown, queueVars
  <2>. QED BY <2>1 DEF NotBegun
<1>4. CASE UNCHANGED <<m_current_outgoing_q, pc, cursor>>
  BY <1>4 DEF NotBegun
<1>5. \/ UNCHANGED <<m_current_outgoing_q, pc, cursor>>
      \/ EndCallbacks \/ ClearOutgoing
      \/ Launch \/ TestAlive \/ OutgoingDrained \/ SemWait \/ SemWaitFails \/ TestShutdown
  BY DEF Next, Processor, Application, Owner, vars, ProcessorFrame, AppFrame, OwnerFrame,
     queueVars, signalVars, batchVars, memVars, clientVars, AddData, DataCallback,
     RegisterClient, UnregisterClient, ReleaseBuffer, StartStop, SetAudioProperties,
     CloseDevice, ClearAlive, PostShutdown
<1>. QED BY <1>1, <1>2, <1>3, <1>4, <1>5

\* add_data is the only step that adds to the buffers that wait, one new buffer
\* at a time.
LEMMA WaitingNext ==
    ASSUME TypeOK, CursorOK, DrainedOK, QueuesOrdered, [Next]_vars
    PROVE  \A b \in Waiting' : b \in Waiting \/ (AddData /\ b = made + 1)
<1> USE DEF Waiting
<1>1. CASE AddData
  <2>1. Range(m_current_incoming_q') \subseteq Range(m_current_incoming_q) \cup {made + 1}
    <3>1. CASE m_current_incoming_q' = <<made + 1>>
      BY <3>1, IncreasingShort
    <3>2. CASE m_current_incoming_q' = Append(m_current_incoming_q, made + 1)
      <4>1. m_current_incoming_q \in Seq(Buffers) /\ Increasing(m_current_incoming_q)
        BY DEF TypeOK, QueueTypes, QueuesOrdered
      <4>2. \A d \in Range(m_current_incoming_q) : d < made + 1
        BY QueueRange DEF QueuesOrdered, TypeOK, QueueTypes, CounterTypes, Buffers
      <4>. QED BY <1>1, <3>2, <4>1, <4>2, NewBuffer, IncreasingAppend
    <3>. QED BY <1>1, <3>1, <3>2 DEF AddData
  <2>2. NotBegun' = NotBegun
    <3>1. UNCHANGED <<m_current_outgoing_q, pc, cursor>>
      BY <1>1 DEF AddData, batchVars
    <3>. QED BY <3>1 DEF NotBegun
  <2>. QED BY <1>1, <2>1, <2>2
<1>2. CASE BeginProcessData
  BY <1>2, BeginTakesFirst DEF BeginProcessData, queueVars
<1>3. CASE NextBuffer
  BY <1>3, NextTakesFirst DEF NextBuffer, queueVars
<1>4. CASE CheckIncoming
  <2>1. CASE m_current_incoming_q # << >>
    BY <1>4, <2>1, SwapMovesAll DEF CheckIncoming
  <2>2. CASE m_current_incoming_q = << >>
    <3>1. UNCHANGED queueVars /\ pc = "check" /\ pc' = "wait"
      BY <1>4, <2>2 DEF CheckIncoming
    <3>. QED BY <3>1 DEF queueVars, NotBegun
  <2>. QED BY <2>1, <2>2
<1>5. CASE SwapAfterWake
  BY <1>5, SwapMovesAll DEF SwapAfterWake
<1>6. CASE JoinAndFlush
  BY <1>6, FlushLeavesNothing
<1>7. CASE UNCHANGED m_current_incoming_q /\ NotBegun' = NotBegun
  BY <1>7
<1>. QED BY <1>1, <1>2, <1>3, <1>4, <1>5, <1>6, <1>7, NotBegunKept, WritersOfIncoming

-----------------------------------------------------------------------------
(* The order of delivery *)

LEMMA DrainedNext == DrainedOK /\ [Next]_vars => DrainedOK'
<1> SUFFICES ASSUME DrainedOK, [Next]_vars PROVE DrainedOK'
  OBVIOUS
<1> USE DEF DrainedOK
<1>1. CASE UNCHANGED <<pc, m_current_outgoing_q>>
  BY <1>1
<1>2. CASE pc' \notin {"check", "wait", "woken", "swap"}
  BY <1>2
<1>3. CASE OutgoingDrained
  BY <1>3 DEF OutgoingDrained, queueVars
<1>4. CASE CheckIncoming
  BY <1>4 DEF CheckIncoming, queueVars
<1>5. CASE SemWait \/ SemWaitFails \/ TestShutdown
  BY <1>5 DEF SemWait, SemWaitFails, TestShutdown, queueVars
<1>6. \/ UNCHANGED <<pc, m_current_outgoing_q>>
      \/ pc' \notin {"check", "wait", "woken", "swap"}
      \/ OutgoingDrained \/ CheckIncoming \/ SemWait \/ SemWaitFails \/ TestShutdown
  BY DEF Next, Processor, Application, Owner, vars, ProcessorFrame, AppFrame, OwnerFrame,
     queueVars, signalVars, batchVars, memVars, clientVars, AddData, Launch, TestAlive,
     BeginProcessData, DataCallback, NextBuffer, EndCallbacks, ClearOutgoing, SwapAfterWake,
     RegisterClient, UnregisterClient, ReleaseBuffer, StartStop, SetAudioProperties,
     CloseDevice, ClearAlive, PostShutdown, JoinAndFlush
<1>. QED BY <1>1, <1>2, <1>3, <1>4, <1>5, <1>6

\* made only grows, and grows with add_data alone.
LEMMA MadeNext ==
    TypeOK /\ [Next]_vars => /\ AddData => made' = made + 1
                             /\ ~AddData => made' = made
                             /\ made' \in Nat /\ made \in Nat /\ made <= made'
<1> SUFFICES ASSUME TypeOK, [Next]_vars
             PROVE  /\ AddData => made' = made + 1
                    /\ ~AddData => made' = made
                    /\ made' \in Nat /\ made \in Nat /\ made <= made'
  OBVIOUS
<1>1. made \in Nat
  BY MaxBuffersNat DEF TypeOK, CounterTypes
<1>2. AddData => made' = made + 1
  BY DEF AddData
<1>3. ~AddData => made' = made
  BY DEF Next, Processor, Application, Owner, vars, ProcessorFrame, AppFrame, OwnerFrame,
     queueVars, signalVars, batchVars, memVars, clientVars, Launch, TestAlive,
     BeginProcessData, DataCallback, NextBuffer, EndCallbacks, ClearOutgoing, OutgoingDrained,
     CheckIncoming, SemWait, SemWaitFails, TestShutdown, SwapAfterWake, RegisterClient,
     UnregisterClient, ReleaseBuffer, StartStop, SetAudioProperties, CloseDevice, ClearAlive,
     PostShutdown, JoinAndFlush
<1>. QED BY <1>1, <1>2, <1>3

LEMMA QueuesOrderedNext ==
    ASSUME TypeOK, CursorOK, DrainedOK, QueuesOrdered, [Next]_vars
    PROVE  QueuesOrdered'
<1> DEFINE in == m_current_incoming_q
           out == m_current_outgoing_q
<1>0. /\ in \in Seq(Buffers) /\ out \in Seq(Buffers)
      /\ Range(in) \subseteq Buffers /\ Range(out) \subseteq Buffers
  BY QueueRange DEF TypeOK, QueueTypes
<1>1. CASE AddData
  <2>1. out' = out /\ made' = made + 1 /\ made \in Nat
    BY <1>1, MadeNext DEF AddData
  <2>2. \A d \in Range(in) : d < made + 1
    BY <1>0, <2>1 DEF QueuesOrdered, Buffers
  <2>3. \A b \in Range(out) : b < made + 1 /\ b <= made'
    BY <1>0, <2>1 DEF QueuesOrdered, Buffers
  <2>4. Increasing(in') /\ Range(in') \subseteq Range(in) \cup {made + 1}
    <3>1. CASE in' = <<made + 1>>
      BY <3>1, IncreasingShort
    <3>2. CASE in' = Append(in, made + 1)
      BY <1>0, <1>1, <2>2, <3>2, NewBuffer, IncreasingAppend DEF QueuesOrdered
    <3>. QED BY <1>1, <3>1, <3>2 DEF AddData
  <2>5. \A b \in Range(out), d \in Range(in') : b < d
    BY <2>3, <2>4 DEF QueuesOrdered
  <2>6. \A d \in Range(in') : d <= made'
    BY <1>0, <2>1, <2>2, <2>4 DEF Buffers
  <2>. QED BY <2>1, <2>3, <2>4, <2>5, <2>6 DEF QueuesOrdered
<1>2. CASE ClearOutgoing \/ JoinAndFlush
  <2>1. out' = << >> /\ in' \in {in, << >>} /\ made' = made
    BY <1>2 DEF ClearOutgoing, JoinAndFlush, ProcessorFrame, OwnerFrame
  <2>. QED BY <2>1, IncreasingShort DEF QueuesOrdered
<1>3. CASE (CheckIncoming /\ in # << >>) \/ SwapAfterWake
  <2>1. pc \in {"check", "swap"} /\ pc' = "test" /\ SwapQueues /\ made' = made
    BY <1>3 DEF CheckIncoming, SwapAfterWake, ProcessorFrame
  <2>2. in' = << >> /\ out' = in
    BY <2>1, SwapMovesAll
  <2>. QED BY <2>1, <2>2, IncreasingShort DEF QueuesOrdered
<1>4. CASE UNCHANGED <<in, out>> /\ ~AddData
  BY <1>4, MadeNext DEF QueuesOrdered
<1>5. CASE CheckIncoming /\ in = << >>
  BY <1>5, MadeNext DEF CheckIncoming, queueVars, ProcessorFrame, QueuesOrdered
<1>. QED BY <1>1, <1>2, <1>3, <1>4, <1>5, WritersOfIncoming, WritersOfOutgoing

\* The buffer being handed out precedes everything that waits.
LEMMA CurrentFirst ==
    ASSUME TypeOK, CursorOK, QueuesOrdered, pc = "callback"
    PROVE  /\ Current \in Buffers /\ Current \in Range(m_current_outgoing_q)
           /\ Current <= made
           /\ \A b \in Waiting : Current < b
<1> DEFINE out == m_current_outgoing_q
<1>1. /\ Len(out) \in Nat /\ DOMAIN out = 1 .. Len(out) /\ cursor \in 1 .. Len(out)
      /\ \A i \in 1 .. Len(out) : out[i] \in Buffers
  BY OutgoingDomain DEF CursorOK
<1>2. Current \in Buffers /\ Current \in Range(out)
  BY <1>1 DEF Current, Range
<1>3. Current <= made
  BY <1>2 DEF QueuesOrdered
<1>4. \A b \in NotBegun : Current < b
  BY <1>1 DEF NotBegun, Current, QueuesOrdered, Increasing
<1>5. \A b \in Range(m_current_incoming_q) : Current < b
  BY <1>2 DEF QueuesOrdered
<1>. QED BY <1>2, <1>3, <1>4, <1>5 DEF Waiting

\* Between two moves of the loop process_data stays on its buffer, and no
\* client is added to those it has to call.
LEMMA CurrentKept ==
    ASSUME [Next]_vars, ~BeginProcessData, ~NextBuffer, pc' = "callback"
    PROVE  pc = "callback" /\ Current' = Current /\ todo' \subseteq todo
<1>1. pc = "callback" /\ UNCHANGED <<cursor, m_current_outgoing_q>> /\ todo' \subseteq todo
  BY DEF Next, Processor, Application, Owner, vars, ProcessorFrame, AppFrame, OwnerFrame,
     queueVars, signalVars, batchVars, memVars, clientVars, AddData, Launch, TestAlive,
     DataCallback, EndCallbacks, ClearOutgoing, OutgoingDrained, CheckIncoming, SemWait,
     SemWaitFails, TestShutdown, SwapAfterWake, RegisterClient, UnregisterClient, ReleaseBuffer,
     StartStop, SetAudioProperties, CloseDevice, ClearAlive, PostShutdown, JoinAndFlush
<1>. QED BY <1>1 DEF Current

\* A client leaves those still to be called in its callback only.
LEMMA LeavesByCallback ==
    ASSUME CursorOK, [Next]_vars, NEW c \in todo, c \notin todo'
    PROVE  \E d \in Clients : DataCallback(d)
<1>1. \/ \E d \in Clients : DataCallback(d)
      \/ todo' = todo
      \/ todo = {}
      \/ pc # "callback"
  BY DEF Next, Processor, Application, Owner, vars, ProcessorFrame, AppFrame, OwnerFrame,
     queueVars, signalVars, batchVars, memVars, clientVars, AddData, Launch, TestAlive,
     BeginProcessData, NextBuffer, EndCallbacks, ClearOutgoing, OutgoingDrained, CheckIncoming,
     SemWait, SemWaitFails, TestShutdown, SwapAfterWake, RegisterClient, UnregisterClient,
     ReleaseBuffer, StartStop, SetAudioProperties, CloseDevice, ClearAlive, PostShutdown,
     JoinAndFlush
<1>. QED BY <1>1 DEF CursorOK

LEMMA LastBehindNext ==
    ASSUME TypeOK, CursorOK, DrainedOK, QueuesOrdered, LastBehind, [Next]_vars
    PROVE  LastBehind'
<1>0. /\ made \in Nat /\ made' \in Nat /\ made <= made'
      /\ last \in [Clients -> 0 .. MaxBuffers]
      /\ Waiting \subseteq Buffers
  BY MadeNext, WaitingBuffers DEF TypeOK, MemoryTypes
<1>1. ASSUME NEW c \in Clients, DataCallback(c) PROVE LastBehind'
  <2>1. /\ pc = "callback" /\ todo' = todo \ {c} /\ UNCHANGED <<m_current_incoming_q, made>>
        /\ last' = [last EXCEPT ![c] = Current]
        /\ Current' = Current
    BY <1>1 DEF DataCallback, ProcessorFrame, queueVars, Current
  <2>2. NotBegun' = NotBegun
    BY <1>1 DEF DataCallback, ProcessorFrame, queueVars, NotBegun
  <2>3. Waiting' = Waiting
    BY <2>1, <2>2 DEF Waiting
  <2>4. last'[c] <= made' /\ \A b \in Waiting' : last'[c] < b
    BY <1>0, <2>1, <2>3, CurrentFirst
  <2>5. \A d \in Clients : d # c => last'[d] = last[d]
    BY <1>0, <2>1
  <2>. QED BY <2>1, <2>3, <2>4, <2>5 DEF LastBehind
<1>2. ASSUME UNCHANGED last, ~AddData PROVE \A c \in Clients : \A b \in Waiting' : last'[c] < b
  BY <1>2, WaitingNext DEF LastBehind
<1>3. ASSUME UNCHANGED last, AddData PROVE \A c \in Clients : \A b \in Waiting' : last'[c] < b
  <2>1. \A c \in Clients : last[c] \in Nat /\ last[c] <= made
    BY <1>0, MaxBuffersNat DEF LastBehind
  <2>2. \A c \in Clients : last'[c] < made + 1
    BY <1>0, <1>3, <2>1
  <2>. QED BY <1>3, <2>2, WaitingNext DEF LastBehind
<1>4. ASSUME UNCHANGED last PROVE \A c \in Clients : last'[c] <= made'
  <2>1. \A c \in Clients : last[c] \in Nat /\ last[c] <= made
    BY <1>0, MaxBuffersNat DEF LastBehind
  <2>. QED BY <1>0, <1>4, <2>1
<1>5. ASSUME UNCHANGED last, BeginProcessData \/ NextBuffer
      PROVE  \A c \in Clients : last'[c] < Current'
  <2>1. Current' \in Waiting
    BY <1>5, BeginTakesFirst, NextTakesFirst DEF Waiting
  <2>. QED BY <1>5, <2>1 DEF LastBehind
<1>6. ASSUME UNCHANGED last, ~BeginProcessData, ~NextBuffer, pc' = "callback"
      PROVE  \A c \in Clients : c \in todo' => last'[c] < Current'
  BY <1>6, CurrentKept DEF LastBehind
<1>7. CASE UNCHANGED last
  BY <1>2, <1>3, <1>4, <1>5, <1>6, <1>7 DEF LastBehind
<1>. QED BY <1>1, <1>7, WritersOfLast

LEMMA HeldOrderedNext ==
    ASSUME TypeOK, CursorOK, QueuesOrdered, LastBehind, HeldOrdered, [Next]_vars
    PROVE  HeldOrdered'
<1>0. /\ held \in [Clients -> Seq(Buffers)] /\ last \in [Clients -> 0 .. MaxBuffers]
      /\ \A c \in Clients : Range(held[c]) \subseteq Buffers
  BY QueueRange DEF TypeOK, QueueTypes, MemoryTypes
<1>1. ASSUME NEW c \in Clients, DataCallback(c) PROVE HeldOrdered'
  <2>1. /\ pc = "callback" /\ c \in todo /\ last' = [last EXCEPT ![c] = Current]
        /\ \/ held' = [held EXCEPT ![c] = Append(@, Current)]
           \/ held' = held
    BY <1>1 DEF DataCallback, Current
  <2>2. Current \in Buffers /\ last[c] < Current /\ last[c] \in Nat /\ Current \in Nat
    BY <1>0, <2>1, CurrentFirst DEF LastBehind, Buffers
  <2>3. \A b \in Range(held[c]) : b < Current
    BY <1>0, <2>2 DEF HeldOrdered, Buffers
  <2>4. Increasing(held'[c]) /\ \A b \in Range(held'[c]) : b <= Current
    <3>1. CASE held' = [held EXCEPT ![c] = Append(@, Current)]
      <4>1. held'[c] = Append(held[c], Current) /\ held[c] \in Seq(Buffers)
        BY <1>0, <3>1
      <4>2. Increasing(held'[c]) /\ Range(held'[c]) = Range(held[c]) \cup {Current}
        BY <2>2, <2>3, <4>1, IncreasingAppend DEF HeldOrdered
      <4>. QED BY <1>0, <2>2, <2>3, <4>2 DEF Buffers
    <3>2. CASE held' = held
      BY <1>0, <2>2, <2>3, <3>2 DEF HeldOrdered, Buffers
    <3>. QED BY <2>1, <3>1, <3>2
  <2>5. last'[c] = Current /\ \A d \in Clients : d # c => last'[d] = last[d]
    BY <1>0, <2>1
  <2>6. \A d \in Clients : d # c => held'[d] = held[d]
    <3>1. CASE held' = [held EXCEPT ![c] = Append(@, Current)]
      BY <1>0, <3>1
    <3>2. CASE held' = held
      BY <3>2
    <3>. QED BY <2>1, <3>1, <3>2
  <2>. QED BY <2>4, <2>5, <2>6 DEF HeldOrdered
<1>2. ASSUME NEW c \in Clients, ReleaseBuffer(c) PROVE HeldOrdered'
  <2>1. held[c] # << >> /\ held' = [held EXCEPT ![c] = Tail(@)] /\ last' = last
    BY <1>2 DEF ReleaseBuffer, AppFrame
  <2>2. held'[c] = Tail(held[c]) /\ \A d \in Clients : d # c => held'[d] = held[d]
    BY <1>0, <2>1
  <2>3. Increasing(held'[c]) /\ Range(held'[c]) \subseteq Range(held[c])
    BY <1>0, <2>1, <2>2, IncreasingTail DEF HeldOrdered
  <2>. QED BY <2>1, <2>2, <2>3 DEF HeldOrdered
<1>3. CASE UNCHANGED <<held, last>>
  BY <1>3 DEF HeldOrdered
<1>. QED BY <1>1, <1>2, <1>3, WritersOfHeld, WritersOfLast

LEMMA OrderInvInit == Init => OrderInv
<1> SUFFICES ASSUME Init PROVE OrderInv
  OBVIOUS
<1>1. TypeOK
  BY TypeOKInit
<1>2. CursorOK /\ DrainedOK
  BY DEF Init, CursorOK, DrainedOK
<1>3. /\ m_current_incoming_q = << >> /\ m_current_outgoing_q = << >> /\ made = 0 /\ todo = {}
      /\ held = [c \in Clients |-> << >>] /\ last = [c \in Clients |-> 0] /\ pc = "launch"
  BY DEF Init
<1>4. QueuesOrdered
  BY <1>3, IncreasingShort DEF QueuesOrdered
<1>5. Waiting = {}
  BY <1>3, IncreasingShort, AllWaitOutside DEF Waiting
<1>6. LastBehind
  BY <1>3, <1>5 DEF LastBehind
<1>7. HeldOrdered
  BY <1>3, IncreasingShort DEF HeldOrdered
<1>. QED BY <1>1, <1>2, <1>4, <1>6, <1>7 DEF OrderInv

LEMMA OrderInvNext == OrderInv /\ [Next]_vars => OrderInv'
<1> SUFFICES ASSUME OrderInv, [Next]_vars PROVE OrderInv'
  OBVIOUS
<1>1. TypeOK /\ CursorOK /\ DrainedOK /\ QueuesOrdered /\ LastBehind /\ HeldOrdered
  BY DEF OrderInv
<1>2. TypeOK' /\ CursorOK'
  BY <1>1, QueueTypesNext, MemoryTypesNext, CounterTypesNext, ThreadsNext DEF TypeOK
<1>3. DrainedOK' /\ QueuesOrdered' /\ LastBehind' /\ HeldOrdered'
  BY <1>1, DrainedNext, QueuesOrderedNext, LastBehindNext, HeldOrderedNext
<1>. QED BY <1>2, <1>3 DEF OrderInv

\* Both queues, and the queues of the clients, stay in the order of capture,
\* and what a client heard last stays behind all it may still hear.
THEOREM OrderKept == Spec => []OrderInv
BY OrderInvInit, OrderInvNext, PTL DEF Spec

\* Every client is handed the buffers in the order of capture, and none of them
\* twice: each hand-out is of a later buffer than the one before it.
THEOREM OrderOfDelivery == Spec => DeliveredInOrder
<1>1. OrderInv /\ [Next]_vars => \A c \in Clients : HandedOut(c) => last[c] < last'[c]
  <2> SUFFICES ASSUME OrderInv, [Next]_vars, NEW d \in Clients, HandedOut(d)
               PROVE  last[d] < last'[d]
    OBVIOUS
  <2>0. TypeOK /\ CursorOK
    BY DEF OrderInv
  <2>1. PICK c \in Clients : DataCallback(c)
    BY <2>0, LeavesByCallback DEF HandedOut
  <2>2. /\ pc = "callback" /\ c \in todo /\ todo' = todo \ {c}
        /\ last' = [last EXCEPT ![c] = Current]
        /\ last \in [Clients -> 0 .. MaxBuffers]
    BY <2>0, <2>1 DEF DataCallback, Current, TypeOK, MemoryTypes
  <2>3. d = c /\ last'[d] = Current
    BY <2>2 DEF HandedOut
  <2>4. last[d] < Current
    BY <2>2, <2>3 DEF OrderInv, LastBehind
  <2>. QED BY <2>3, <2>4
<1>. QED BY <1>1, OrderKept, PTL DEF Spec, DeliveredInOrder

-----------------------------------------------------------------------------
(* The memory of the buffers *)

\* Who keeps a buffer and who will get it are finite sets of clients.
LEMMA SharesFinite ==
    ASSUME TypeOK, CursorOK, NEW b \in Buffers
    PROVE  /\ Holders(b) \subseteq Clients /\ Owed(b) \subseteq Clients
           /\ IsFiniteSet(Holders(b)) /\ IsFiniteSet(Owed(b))
<1>1. Holders(b) \subseteq Clients
  BY DEF Holders
<1>2. Owed(b) \subseteq Clients
  BY DEF Owed, TypeOK, ThreadTypes
<1>. QED BY <1>1, <1>2, ClientsFinite, FS_Subset

\* A buffer that waits, or that is not created yet, is kept by nobody.
LEMMA WaitingUnheld ==
    ASSUME OrderInv, NEW b \in Buffers, b \in Waiting \/ b > made
    PROVE  Holders(b) = {}
<1> SUFFICES ASSUME NEW c \in Clients, b \in Range(held[c]) PROVE FALSE
  BY DEF Holders
<1>1. b <= last[c] /\ last[c] <= made /\ (b \in Waiting => last[c] < b)
  BY DEF OrderInv, HeldOrdered, LastBehind
<1>2. b \in Nat /\ last[c] \in Nat /\ made \in Nat
  BY MaxBuffersNat DEF OrderInv, TypeOK, MemoryTypes, CounterTypes, Buffers
<1>. QED BY <1>1, <1>2

\* Nobody who is still to be called with a buffer keeps it already.
LEMMA CurrentUnheld ==
    ASSUME OrderInv, pc = "callback", NEW c \in todo
    PROVE  c \notin Holders(Current)
<1> SUFFICES ASSUME Current \in Range(held[c]) PROVE FALSE
  BY DEF Holders
<1>1. c \in Clients
  BY DEF OrderInv, TypeOK, ThreadTypes
<1>2. Current <= last[c] /\ last[c] < Current
  BY <1>1 DEF OrderInv, HeldOrdered, LastBehind
<1>3. Current \in Nat /\ last[c] \in Nat
  BY <1>1, MaxBuffersNat, CurrentFirst DEF OrderInv, TypeOK, MemoryTypes, Buffers
<1>. QED BY <1>2, <1>3

\* Only outgoing buffers are owed to anybody.
LEMMA OwedOutgoing ==
    ASSUME OrderInv, NEW b \in Buffers, Owed(b) # {}
    PROVE  /\ pc = "callback" /\ b \in Range(m_current_outgoing_q) /\ b <= made
           /\ b \notin Range(m_current_incoming_q)
<1>1. pc = "callback" /\ (b = Current \/ b \in NotBegun)
  BY DEF Owed, Current
<1>2. b \in Range(m_current_outgoing_q)
  BY <1>1, CurrentFirst, WaitingBuffers DEF OrderInv
<1>3. b <= made
  BY <1>2 DEF OrderInv, QueuesOrdered
<1>4. ASSUME b \in Range(m_current_incoming_q) PROVE FALSE
  <2>1. b < b
    BY <1>2, <1>4 DEF OrderInv, QueuesOrdered
  <2>. QED BY <2>1 DEF Buffers
<1>. QED BY <1>1, <1>2, <1>3, <1>4

\* The steps outside of the callbacks owe nothing before and after.
LEMMA OwedOutside ==
    ASSUME NEW b \in Buffers
    PROVE  /\ pc # "callback" => Owed(b) = {}
           /\ pc' # "callback" => Owed(b)' = {}
BY DEF Owed

LEMMA HoldersKept == ASSUME UNCHANGED held, NEW b \in Buffers PROVE Holders(b)' = Holders(b)
BY DEF Holders

LEMMA OwedKept ==
    ASSUME UNCHANGED <<m_current_outgoing_q, pc, cursor, todo, m_clients>>, NEW b \in Buffers
    PROVE  Owed(b)' = Owed(b)
BY DEF Owed, NotBegun

\* A step that leaves a buffer's count, its keepers and its debtors alone.
LEMMA SteadyBuffer ==
    ASSUME OrderInv, NEW b \in Buffers, BufferOK(b),
           frees'[b] = frees[b], m_refcount'[b] = m_refcount[b],
           Holders(b)' = Holders(b), Owed(b)' = Owed(b),
           b \in Waiting' => b \in Waiting \/ b > made,
           made' \in Nat, made <= made'
    PROVE  BufferOK(b)'
<1>1. b \in Nat /\ made \in Nat
  BY MaxBuffersNat DEF OrderInv, TypeOK, CounterTypes, Buffers
<1>2. b > made' => b > made
  BY <1>1
<1>. QED BY <1>2 DEF BufferOK

LEMMA UnrefEffect ==
    ASSUME TypeOK, NEW b \in Buffers, UnrefAudioBuffer(b)
    PROVE  /\ \A d \in Buffers : d # b => frees'[d] = frees[d] /\ m_refcount'[d] = m_refcount[d]
           /\ m_refcount[b] = 1 => frees'[b] = frees[b] + 1 /\ m_refcount'[b] = m_refcount[b]
           /\ m_refcount[b] # 1 => frees'[b] = frees[b] /\ m_refcount'[b] = m_refcount[b] - 1
BY DEF TypeOK, MemoryTypes, UnrefAudioBuffer, DeleteAll

\* The steps that bear on what process_data still owes.
LEMMA WritersOfDebts ==
    [Next]_vars =>
        \/ UNCHANGED <<m_current_outgoing_q, pc, cursor, todo, m_clients>>
        \/ pc # "callback" /\ pc' # "callback"
        \/ BeginProcessData
        \/ \E c \in Clients : DataCallback(c)
        \/ NextBuffer
        \/ EndCallbacks
BY DEF Next, Processor, Application, Owner, vars, ProcessorFrame, AppFrame, OwnerFrame,
    queueVars, signalVars, batchVars, memVars, clientVars, AddData, Launch, TestAlive,
    ClearOutgoing, OutgoingDrained, CheckIncoming, SemWait, SemWaitFails, TestShutdown,
    SwapAfterWake, RegisterClient, UnregisterClient, ClientMutexFree, ReleaseBuffer, StartStop,
    SetAudioProperties, CloseDevice, ClearAlive, PostShutdown, JoinAndFlush

\* Who has the buffers after a callback: a retaining client becomes a holder of
\* the current buffer, any other is just not owed it any more.
LEMMA CallbackShares ==
    ASSUME OrderInv, NEW c \in Clients, DataCallback(c), NEW b \in Buffers
    PROVE  /\ Current \in Buffers /\ Current <= made /\ Current \notin Waiting
           /\ Owed(Current) = todo /\ c \in todo /\ c \notin Holders(Current)
           /\ NotBegun' = NotBegun /\ Waiting' = Waiting /\ Current' = Current
           /\ Owed(b)' = IF b = Current THEN Owed(b) \ {c} ELSE Owed(b)
           /\ Holders(b)' = IF b = Current /\ c \in Retaining THEN Holders(b) \cup {c}
                                                              ELSE Holders(b)
<1>0. TypeOK /\ CursorOK /\ QueuesOrdered
  BY DEF OrderInv
<1>1. /\ pc = "callback" /\ pc' = "callback" /\ c \in todo /\ todo' = todo \ {c}
      /\ UNCHANGED <<m_current_outgoing_q, m_current_incoming_q, cursor, made, m_clients>>
      /\ Current' = Current
  BY DEF DataCallback, ProcessorFrame, queueVars, Current
<1>2. /\ Current \in Buffers /\ Current <= made /\ Current \notin Waiting
      /\ NotBegun' = NotBegun /\ Waiting' = Waiting
  BY <1>0, <1>1, CurrentFirst DEF Waiting, NotBegun, Buffers
<1>3. /\ Owed(Current) = todo
      /\ Owed(b)' = IF b = Current THEN Owed(b) \ {c} ELSE Owed(b)
  BY <1>1, <1>2 DEF Owed, Current
<1>4. c \notin Holders(Current)
  BY <1>1, CurrentUnheld
<1>5. CASE c \in Retaining
  <2>1. held' = [held EXCEPT ![c] = Append(@, Current)]
    BY <1>5 DEF DataCallback, Current
  <2>2. /\ held \in [Clients -> Seq(Buffers)]
        /\ held'[c] = Append(held[c], Current)
        /\ \A d \in Clients : d # c => held'[d] = held[d]
    BY <1>0, <2>1 DEF TypeOK, QueueTypes
  <2>3. \A d \in Range(held[c]) : d < Current
    <3>1. Range(held[c]) \subseteq Buffers
      BY <2>2, QueueRange
    <3>2. last[c] < Current /\ last[c] \in Nat
      BY <1>0, <1>1, MaxBuffersNat DEF OrderInv, LastBehind, TypeOK, MemoryTypes
    <3>. QED BY <1>2, <3>1, <3>2 DEF OrderInv, HeldOrdered, Buffers
  <2>4. Range(held'[c]) = Range(held[c]) \cup {Current}
    <3>1. held[c] \in Seq(Buffers) /\ Increasing(held[c])
      BY <2>2 DEF OrderInv, HeldOrdered
    <3>. QED BY <1>2, <2>2, <2>3, <3>1, IncreasingAppend
  <2>5. ASSUME NEW d \in Clients
        PROVE  b \in Range(held'[d]) <=> b \in Range(held[d]) \/ (d = c /\ b = Current)
    BY <2>2, <2>4
  <2>6. Holders(b)' = {d \in Clients : b \in Range(held'[d])}
    BY DEF Holders
  <2>7. Holders(b)' = IF b = Current THEN Holders(b) \cup {c} ELSE Holders(b)
    BY <2>5, <2>6 DEF Holders
  <2>. QED BY <1>1, <1>2, <1>3, <1>4, <1>5, <2>7
<1>6. CASE c \notin Retaining
  <2>1. Holders(b)' = Holders(b)
    BY <1>6, HoldersKept DEF DataCallback
  <2>. QED BY <1>1, <1>2, <1>3, <1>4, <1>6, <2>1
<1>. QED BY <1>5, <1>6

\* Who has the buffers after a retaining client let go of its oldest one.
LEMMA ReleaseShares ==
    ASSUME OrderInv, NEW c \in Clients, ReleaseBuffer(c), NEW b \in Buffers
    PROVE  /\ Head(held[c]) \in Buffers /\ c \in Holders(Head(held[c]))
           /\ UnrefAudioBuffer(Head(held[c]))
           /\ Holders(b)' = IF b = Head(held[c]) THEN Holders(b) \ {c} ELSE Holders(b)
           /\ Owed(b)' = Owed(b)
           /\ NotBegun' = NotBegun /\ Waiting' = Waiting
<1> DEFINE h == Head(held[c])
<1>1. /\ held[c] # << >> /\ held' = [held EXCEPT ![c] = Tail(@)] /\ UnrefAudioBuffer(h)
      /\ UNCHANGED <<m_current_incoming_q, m_current_outgoing_q, pc, cursor, todo, m_clients>>
  BY DEF ReleaseBuffer, AppFrame, queueVars, batchVars
<1>2. /\ held \in [Clients -> Seq(Buffers)] /\ held[c] \in Seq(Buffers)
      /\ Increasing(held[c]) /\ Range(held[c]) \subseteq Buffers
  BY QueueRange DEF OrderInv, TypeOK, QueueTypes, HeldOrdered
<1>3. h \in Range(held[c]) /\ h \in Buffers /\ Range(Tail(held[c])) = Range(held[c]) \ {h}
  BY <1>1, <1>2, IncreasingTail
<1>4. Holders(b)' = IF b = h THEN Holders(b) \ {c} ELSE Holders(b)
  <2>1. \A d \in Clients : held'[d] = IF d = c THEN Tail(held[c]) ELSE held[d]
    BY <1>1, <1>2
  <2>2. \A d \in Clients : b \in Range(held'[d]) <=> b \in Range(held[d]) /\ ~(d = c /\ b = h)
    BY <1>3, <2>1
  <2>3. Holders(b)' = {d \in Clients : b \in Range(held'[d])}
    BY DEF Holders
  <2>. QED BY <2>2, <2>3 DEF Holders
<1>5. Owed(b)' = Owed(b)
  BY <1>1, OwedKept
<1>6. c \in Holders(h)
  BY <1>3 DEF Holders
<1>7. NotBegun' = NotBegun /\ Waiting' = Waiting
  BY <1>1 DEF Waiting, NotBegun
<1>. QED BY <1>1, <1>3, <1>4, <1>5, <1>6, <1>7

\* No other step than the callbacks and the moves of the loop changes what
\* process_data owes.
LEMMA OwedStays ==
    ASSUME TypeOK, [Next]_vars, ~BeginProcessData, ~NextBuffer,
           \A c \in Clients : ~DataCallback(c), NEW b \in Buffers
    PROVE  Owed(b)' = Owed(b)
<1>1. CASE EndCallbacks
  <2>1. pc' = "clear" /\ todo = {} /\ cursor = Len(m_current_outgoing_q)
    BY <1>1 DEF EndCallbacks
  <2>2. NotBegun = {}
    BY <1>1, <2>1, OutgoingDomain DEF NotBegun, EndCallbacks
  <2>. QED BY <2>1, <2>2 DEF Owed
<1>2. CASE pc # "callback" /\ pc' # "callback"
  BY <1>2, OwedOutside
<1>3. CASE UNCHANGED <<m_current_outgoing_q, pc, cursor, todo, m_clients>>
  BY <1>3, OwedKept
<1>. QED BY <1>1, <1>2, <1>3, WritersOfDebts

\* One of those who share a buffer lets go of it.
LEMMA ShareReleased ==
    ASSUME TypeOK, CursorOK, NEW b \in Buffers, BufferOK(b), UnrefAudioBuffer(b),
           NEW c, b \notin Waiting', made' = made, b <= made,
           \/ c \in Holders(b) /\ Holders(b)' = Holders(b) \ {c} /\ Owed(b)' = Owed(b)
           \/ c \in Owed(b) /\ Holders(b)' = Holders(b) /\ Owed(b)' = Owed(b) \ {c}
    PROVE  BufferOK(b)'
<1> DEFINE hs == Cardinality(Holders(b))
           os == Cardinality(Owed(b))
           hs1 == Cardinality(Holders(b)')
           os1 == Cardinality(Owed(b)')
<1>0. /\ IsFiniteSet(Holders(b)) /\ IsFiniteSet(Owed(b))
      /\ IsFiniteSet(Holders(b)') /\ IsFiniteSet(Owed(b)')
  BY SharesFinite, FS_Subset
<1>1. /\ hs \in Nat /\ os \in Nat /\ hs1 \in Nat /\ os1 \in Nat
      /\ hs1 = 0 <=> Holders(b)' = {}
      /\ os1 = 0 <=> Owed(b)' = {}
  BY <1>0, FS_CardinalityType, FS_EmptySet
<1>2. hs1 + os1 = hs + os - 1
  BY <1>0, <1>1, FS_RemoveElement
<1>3. frees[b] = 0 /\ m_refcount[b] = hs + os
  BY DEF BufferOK
<1>4. /\ frees'[b] <= 1
      /\ Holders(b)' \cup Owed(b)' # {} => frees'[b] = 0 /\ m_refcount'[b] = hs1 + os1
  <2>1. CASE m_refcount[b] = 1
    <3>1. hs1 = 0 /\ os1 = 0 /\ frees'[b] = 1
      BY <1>1, <1>2, <1>3, <2>1, UnrefEffect
    <3>. QED BY <1>1, <3>1
  <2>2. CASE m_refcount[b] # 1
    BY <1>1, <1>2, <1>3, <2>2, UnrefEffect
  <2>. QED BY <2>1, <2>2
<1>5. ~(b > made')
  BY MaxBuffersNat DEF TypeOK, CounterTypes, Buffers
<1>. QED BY <1>4, <1>5 DEF BufferOK

\* add_data: what an overflow flushes nobody has, and the new buffer is new.
LEMMA AddDataMemory ==
    ASSUME MemoryInv, AddData, [Next]_vars, NEW b \in Buffers PROVE BufferOK(b)'
<1> DEFINE in == m_current_incoming_q
<1>0. /\ OrderInv /\ BufferOK(b) /\ TypeOK /\ CursorOK /\ DrainedOK /\ QueuesOrdered
  BY DEF MemoryInv, OrderInv
<1>1. /\ UNCHANGED <<m_current_outgoing_q, pc, cursor, todo, m_clients, held>>
      /\ made' = made + 1 /\ made \in Nat /\ made + 1 \in Buffers /\ b \in Nat
  BY <1>0, MadeNext, NewBuffer DEF AddData, batchVars, clientVars, Buffers
<1>2. Holders(b)' = Holders(b) /\ Owed(b)' = Owed(b)
  BY <1>1, HoldersKept, OwedKept
<1>3. b \in Waiting' => b \in Waiting \/ b > made
  BY <1>0, <1>1, WaitingNext
<1>4. CASE b = made + 1
  <2>1. Holders(b) = {} /\ Owed(b) = {}
    BY <1>0, <1>1, <1>4, WaitingUnheld, OwedOutgoing
  <2>2. frees'[b] = frees[b]
    <3>1. b \notin Range(in)
      BY <1>0, <1>1, <1>4 DEF QueuesOrdered
    <3>. QED BY <3>1, <1>0 DEF AddData, DeleteAll, TypeOK, MemoryTypes
  <2>. QED BY <1>0, <1>1, <1>2, <1>4, <2>1, <2>2 DEF BufferOK
<1>5. CASE b # made + 1 /\ frees'[b] = frees[b]
  <2>1. m_refcount'[b] = m_refcount[b]
    BY <1>0, <1>1, <1>5 DEF AddData, TypeOK, MemoryTypes
  <2>. QED BY <1>0, <1>1, <1>2, <1>3, <1>5, <2>1, SteadyBuffer
<1>6. CASE b # made + 1 /\ frees'[b] # frees[b]
  <2>1. /\ in' = <<made + 1>> /\ b \in Range(in) /\ frees'[b] = frees[b] + 1
    BY <1>0, <1>6 DEF AddData, DeleteAll, TypeOK, MemoryTypes
  <2>2. b \in Waiting /\ b <= made
    BY <1>0, <2>1 DEF Waiting, QueuesOrdered
  <2>3. Holders(b) = {} /\ Owed(b) = {} /\ frees[b] = 0
    BY <1>0, <2>1, <2>2, WaitingUnheld, OwedOutgoing DEF BufferOK
  <2>4. b \notin Waiting'
    <3>1. Range(in') = {made + 1}
      BY <2>1, IncreasingShort
    <3>2. NotBegun' = NotBegun
      BY <1>1 DEF NotBegun
    <3>3. b \notin NotBegun
      <4>1. b \in Range(m_current_outgoing_q) => b < b
        BY <1>0, <2>1 DEF QueuesOrdered
      <4>. QED BY <1>0, <1>1, <4>1, WaitingBuffers
    <3>. QED BY <1>6, <3>1, <3>2, <3>3 DEF Waiting
  <2>. QED BY <1>1, <1>2, <2>1, <2>2, <2>3, <2>4 DEF BufferOK
<1>. QED BY <1>4, <1>5, <1>6

\* process_data: every outgoing buffer is owed to every registered client, and
\* that is what its count says now.
LEMMA BeginMemory ==
    ASSUME MemoryInv, BeginProcessData, [Next]_vars, NEW b \in Buffers PROVE BufferOK(b)'
<1> DEFINE out == m_current_outgoing_q
<1>0. OrderInv /\ BufferOK(b) /\ TypeOK /\ CursorOK /\ DrainedOK /\ QueuesOrdered
  BY DEF MemoryInv, OrderInv
<1>1. /\ pc = "drain" /\ pc' = "callback" /\ todo' = m_clients
      /\ UNCHANGED <<out, held, frees, made, m_clients>>
  BY DEF BeginProcessData, ProcessorFrame, queueVars, clientVars
<1>2. /\ Holders(b)' = Holders(b) /\ Owed(b) = {}
      /\ b \in Waiting' => b \in Waiting
  BY <1>0, <1>1, HoldersKept, OwedOutside, WaitingNext DEF AddData, BeginProcessData
<1>3. NotBegun = Range(out) /\ Current' \in Range(out) /\ NotBegun' = Range(out) \ {Current'}
  BY <1>0, BeginTakesFirst
<1>4. Owed(b)' = IF b \in Range(out) THEN m_clients ELSE {}
  BY <1>1, <1>3 DEF Owed, Current
<1>5. made' \in Nat /\ made <= made'
  BY <1>0, MadeNext
<1>6. CASE b \in Range(out)
  <2>1. Holders(b) = {} /\ b \in Waiting /\ frees[b] = 0 /\ b <= made
    BY <1>0, <1>3, <1>6, WaitingUnheld DEF Waiting, BufferOK, QueuesOrdered
  <2>2. m_refcount'[b] = Cardinality(m_clients)
    BY <1>6 DEF BeginProcessData, UpdateBufferReferences
  <2>3. Cardinality(m_clients) \in Nat /\ Cardinality({}) = 0
    BY <1>0, CountOfClients, FS_EmptySet
  <2>. QED BY <1>1, <1>2, <1>4, <1>6, <2>1, <2>2, <2>3 DEF BufferOK
<1>7. CASE b \notin Range(out)
  <2>1. m_refcount'[b] = m_refcount[b]
    BY <1>7 DEF BeginProcessData, UpdateBufferReferences
  <2>. QED BY <1>0, <1>1, <1>2, <1>4, <1>5, <1>7, <2>1, SteadyBuffer
<1>. QED BY <1>6, <1>7

\* A callback: a retaining client takes its share, any other lets go of it.
LEMMA CallbackMemory ==
    ASSUME MemoryInv, NEW c \in Clients, DataCallback(c), [Next]_vars, NEW b \in Buffers
    PROVE  BufferOK(b)'
<1>0. OrderInv /\ BufferOK(b) /\ TypeOK /\ CursorOK
  BY DEF MemoryInv, OrderInv
<1>1. /\ Current \in Buffers /\ Current <= made /\ Current \notin Waiting
      /\ c \in Owed(Current) /\ c \notin Holders(Current) /\ Waiting' = Waiting
      /\ Owed(b)' = IF b = Current THEN Owed(b) \ {c} ELSE Owed(b)
      /\ Holders(b)' = IF b = Current /\ c \in Retaining THEN Holders(b) \cup {c}
                                                         ELSE Holders(b)
  BY <1>0, CallbackShares
<1>2. made' \in Nat /\ made' = made
  BY <1>0, MadeNext DEF DataCallback, ProcessorFrame
<1>3. CASE c \in Retaining
  <2>1. UNCHANGED <<m_refcount, frees>>
    BY <1>3 DEF DataCallback, memVars
  <2>2. CASE b = Current
    <3>1. /\ frees[b] = 0 /\ ~(b > made')
          /\ m_refcount[b] = Cardinality(Holders(b)) + Cardinality(Owed(b))
      BY <1>0, <1>1, <1>2, <2>2 DEF BufferOK, Buffers
    <3>2. /\ Cardinality(Holders(b) \cup {c}) = Cardinality(Holders(b)) + 1
          /\ Cardinality(Owed(b) \ {c}) = Cardinality(Owed(b)) - 1
          /\ Cardinality(Holders(b)) \in Nat /\ Cardinality(Owed(b)) \in Nat
      BY <1>0, <1>1, <2>2, SharesFinite, FS_AddElement, FS_RemoveElement, FS_CardinalityType
    <3>. QED BY <1>1, <1>3, <2>1, <2>2, <3>1, <3>2 DEF BufferOK
  <2>3. CASE b # Current
    BY <1>0, <1>1, <1>2, <2>1, <2>3, SteadyBuffer
  <2>. QED BY <2>2, <2>3
<1>4. CASE c \notin Retaining
  <2>1. UnrefAudioBuffer(Current)
    BY <1>4 DEF DataCallback, Current
  <2>2. CASE b = Current
    BY <1>0, <1>1, <1>2, <1>4, <2>1, <2>2, ShareReleased
  <2>3. CASE b # Current
    <3>1. frees'[b] = frees[b] /\ m_refcount'[b] = m_refcount[b]
      BY <1>0, <1>1, <2>1, <2>3, UnrefEffect
    <3>. QED BY <1>0, <1>1, <1>2, <2>3, <3>1, SteadyBuffer
  <2>. QED BY <2>2, <2>3
<1>. QED BY <1>3, <1>4

\* The loop moves on: nobody is owed the old buffer any more, and the clients
\* owed the new one are the same as before.
LEMMA NextMemory ==
    ASSUME MemoryInv, NextBuffer, [Next]_vars, NEW b \in Buffers PROVE BufferOK(b)'
<1>0. OrderInv /\ BufferOK(b) /\ TypeOK /\ CursorOK /\ DrainedOK /\ QueuesOrdered
  BY DEF MemoryInv, OrderInv
<1>1. /\ pc = "callback" /\ pc' = "callback" /\ todo = {} /\ todo' = m_clients
      /\ UNCHANGED <<m_current_outgoing_q, held, frees, m_refcount, made, m_clients>>
  BY DEF NextBuffer, ProcessorFrame, queueVars, memVars, clientVars
<1>2. /\ Current' \in NotBegun /\ NotBegun' = NotBegun \ {Current'}
      /\ Current # Current' /\ Current \notin NotBegun
  BY <1>0, NextTakesFirst
<1>3. Owed(b) = IF b \in NotBegun THEN m_clients ELSE {}
  BY <1>1, <1>2 DEF Owed, Current
<1>4. Owed(b)' = IF b \in NotBegun THEN m_clients ELSE {}
  BY <1>1, <1>2 DEF Owed, Current
<1>5. Holders(b)' = Holders(b) /\ (b \in Waiting' => b \in Waiting)
  <2>1. ~AddData
    BY <1>0, <1>1, MadeNext
  <2>. QED BY <1>0, <1>1, <2>1, HoldersKept, WaitingNext
<1>6. made' \in Nat /\ made <= made'
  BY <1>0, MadeNext
<1>. QED BY <1>0, <1>1, <1>3, <1>4, <1>5, <1>6, SteadyBuffer

\* A retaining client lets go of its oldest buffer.
LEMMA ReleaseMemory ==
    ASSUME MemoryInv, NEW c \in Clients, ReleaseBuffer(c), [Next]_vars, NEW b \in Buffers
    PROVE  BufferOK(b)'
<1> DEFINE h == Head(held[c])
<1>0. OrderInv /\ BufferOK(b) /\ TypeOK /\ CursorOK
  BY DEF MemoryInv, OrderInv
<1>1. /\ h \in Buffers /\ c \in Holders(h) /\ UnrefAudioBuffer(h)
      /\ Holders(b)' = IF b = h THEN Holders(b) \ {c} ELSE Holders(b)
      /\ Owed(b)' = Owed(b) /\ Waiting' = Waiting
  BY <1>0, ReleaseShares
<1>2. made' \in Nat /\ made' = made
  BY <1>0, MadeNext DEF ReleaseBuffer, AppFrame
<1>3. CASE b = h
  <2>1. ~(b \in Waiting \/ b > made)
    BY <1>0, <1>1, <1>3, WaitingUnheld
  <2>2. b <= made
    BY <1>0, <2>1, MaxBuffersNat DEF TypeOK, CounterTypes, Buffers
  <2>. QED BY <1>0, <1>1, <1>2, <1>3, <2>1, <2>2, ShareReleased
<1>4. CASE b # h
  <2>1. frees'[b] = frees[b] /\ m_refcount'[b] = m_refcount[b]
    BY <1>0, <1>1, <1>4, UnrefEffect
  <2>. QED BY <1>0, <1>1, <1>2, <1>4, <2>1, SteadyBuffer
<1>. QED BY <1>3, <1>4

\* ~q_mgr flushes queues that have no buffer in common, and nobody has any of theirs.
LEMMA FlushMemory ==
    ASSUME MemoryInv, JoinAndFlush, [Next]_vars, NEW b \in Buffers PROVE BufferOK(b)'
<1> DEFINE in == m_current_incoming_q
           out == m_current_outgoing_q
<1>0. OrderInv /\ BufferOK(b) /\ TypeOK /\ CursorOK /\ DrainedOK /\ QueuesOrdered
  BY DEF MemoryInv, OrderInv
<1>1. /\ pc = "exited" /\ pc' = "exited" /\ UNCHANGED <<held, made, m_refcount>>
  BY DEF JoinAndFlush, OwnerFrame, clientVars
<1>2. Holders(b)' = Holders(b) /\ Owed(b) = {} /\ Owed(b)' = {} /\ Waiting' = {}
  BY <1>1, HoldersKept, OwedOutside, FlushLeavesNothing DEF Waiting
<1>3. Waiting = Range(in) \cup Range(out)
  BY <1>1, AllWaitOutside DEF Waiting
<1>4. ~(b \in Range(in) /\ b \in Range(out))
  <2>1. b \in Range(in) /\ b \in Range(out) => b < b
    BY <1>0 DEF QueuesOrdered
  <2>. QED BY <2>1 DEF Buffers
<1>5. frees[b] \in Nat /\ frees'[b] = frees[b] + (IF b \in Range(in) THEN 1 ELSE 0)
                                              + (IF b \in Range(out) THEN 1 ELSE 0)
  BY <1>0 DEF JoinAndFlush, TypeOK, MemoryTypes
<1>6. CASE b \in Waiting
  <2>1. Holders(b) = {} /\ b <= made
    BY <1>0, <1>3, <1>6, WaitingUnheld DEF QueuesOrdered
  <2>2. frees[b] = 0
    BY <1>0, <1>6 DEF BufferOK
  <2>3. frees'[b] = 1
    <3>1. CASE b \in Range(in)
      BY <1>4, <1>5, <2>2, <3>1
    <3>2. CASE b \in Range(out)
      BY <1>4, <1>5, <2>2, <3>2
    <3>. QED BY <1>3, <1>6, <3>1, <3>2
  <2>4. ~(b > made')
    BY <1>0, <1>1, <2>1, MaxBuffersNat DEF TypeOK, CounterTypes, Buffers
  <2>. QED BY <1>2, <2>1, <2>3, <2>4 DEF BufferOK
<1>7. CASE b \notin Waiting
  <2>1. frees'[b] = frees[b]
    BY <1>3, <1>5, <1>7
  <2>2. made' \in Nat /\ made <= made'
    BY <1>0, MadeNext
  <2>. QED BY <1>0, <1>1, <1>2, <2>1, <2>2, SteadyBuffer
<1>. QED BY <1>6, <1>7

\* No other step changes who has a buffer, or how often it was deleted.
LEMMA RestOfMemory ==
    ASSUME MemoryInv, [Next]_vars, ~AddData, ~BeginProcessData, ~NextBuffer, ~JoinAndFlush,
           \A c \in Clients : ~DataCallback(c) /\ ~ReleaseBuffer(c), NEW b \in Buffers
    PROVE  BufferOK(b)'
<1>0. OrderInv /\ BufferOK(b) /\ TypeOK /\ CursorOK /\ DrainedOK /\ QueuesOrdered
  BY DEF MemoryInv, OrderInv
<1>1. made' \in Nat /\ made <= made' /\ (b \in Waiting' => b \in Waiting)
  BY <1>0, MadeNext, WaitingNext
<1>2. frees'[b] = frees[b] /\ m_refcount'[b] = m_refcount[b]
  <2>1. CASE CheckIncoming
    <3>1. UNCHANGED m_refcount
      BY <2>1 DEF CheckIncoming
    <3>2. CASE m_current_incoming_q = << >>
      BY <2>1, <3>1, <3>2 DEF CheckIncoming
    <3>3. CASE m_current_incoming_q # << >>
      <4>1. pc = "check" /\ pc' = "test" /\ SwapQueues
        BY <2>1, <3>3 DEF CheckIncoming
      <4>. QED BY <1>0, <3>1, <4>1, SwapMovesAll
    <3>. QED BY <3>2, <3>3
  <2>2. CASE SwapAfterWake
    BY <1>0, <2>2, SwapMovesAll DEF SwapAfterWake
  <2>3. CASE UNCHANGED memVars
    BY <2>3 DEF memVars
  <2>. QED BY <2>1, <2>2, <2>3, WritersOfMemory
<1>3. Holders(b)' = Holders(b)
  BY WritersOfHeld, HoldersKept
<1>4. Owed(b)' = Owed(b)
  BY <1>0, OwedStays
<1>. QED BY <1>0, <1>1, <1>2, <1>3, <1>4, SteadyBuffer

LEMMA MemoryInvInit == Init => MemoryInv
<1> SUFFICES ASSUME Init, NEW b \in Buffers PROVE OrderInv /\ BufferOK(b)
  BY OrderInvInit DEF MemoryInv
<1>1. frees[b] = 0 /\ held = [c \in Clients |-> << >>] /\ pc = "launch"
  BY DEF Init
<1>2. Holders(b) = {} /\ Owed(b) = {}
  BY <1>1, IncreasingShort DEF Holders, Owed
<1>. QED BY <1>1, <1>2, OrderInvInit DEF BufferOK

LEMMA MemoryInvNext == MemoryInv /\ [Next]_vars => MemoryInv'
<1> SUFFICES ASSUME MemoryInv, [Next]_vars PROVE MemoryInv'
  OBVIOUS
<1>1. OrderInv'
  BY OrderInvNext DEF MemoryInv
<1>2. ASSUME NEW b \in Buffers PROVE BufferOK(b)'
  BY AddDataMemory, BeginMemory, CallbackMemory, NextMemory, ReleaseMemory, FlushMemory,
     RestOfMemory
<1>. QED BY <1>1, <1>2 DEF MemoryInv, Buffers

\* The whole invariant of the data path: order, and the fate of every buffer.
THEOREM MemoryKept == Spec => []MemoryInv
BY MemoryInvInit, MemoryInvNext, PTL DEF Spec

\* No buffer is deleted twice.
THEOREM DeletedOnce == Spec => []NoDoubleFree
<1>1. MemoryInv => NoDoubleFree
  BY DEF MemoryInv, BufferOK, NoDoubleFree
<1>. QED BY <1>1, MemoryKept, PTL

\* No buffer is deleted while it is queued, kept by a client, or promised to one.
THEOREM DeletedLast == Spec => []NoDanglingBuffer
<1>1. MemoryInv => NoDanglingBuffer
  BY DEF MemoryInv, BufferOK, NoDanglingBuffer
<1>. QED BY <1>1, MemoryKept, PTL

\* The reference count is the number of clients that keep the buffer or will
\* get it.
THEOREM CountedExactly == Spec => []RefcountExact
<1>1. MemoryInv => RefcountExact
  BY DEF MemoryInv, BufferOK, RefcountExact
<1>. QED BY <1>1, MemoryKept, PTL

-----------------------------------------------------------------------------
(* The length of the queues *)

\* Neither queue is longer than the largest limit allows, by one.
QueuesBounded ==
    \A size \in QueueSizes :
        (\A other \in QueueSizes : other <= size) =>
            /\ Len(m_current_incoming_q) <= size + 1
            /\ Len(m_current_outgoing_q) <= size + 1

LEMMA QueuesBoundedInit == Init => QueuesBounded
BY QueueSizesNat DEF Init, QueuesBounded

LEMMA QueuesBoundedNext == TypeOK /\ QueuesBounded /\ [Next]_vars => QueuesBounded'
<1> SUFFICES ASSUME TypeOK, QueuesBounded, [Next]_vars,
                    NEW size \in QueueSizes, \A other \in QueueSizes : other <= size
             PROVE  /\ Len(m_current_incoming_q') <= size + 1
                    /\ Len(m_current_outgoing_q') <= size + 1
  BY DEF QueuesBounded
<1>1. /\ Len(m_current_incoming_q) \in Nat /\ Len(m_current_incoming_q) <= size + 1
      /\ Len(m_current_outgoing_q) \in Nat /\ Len(m_current_outgoing_q) <= size + 1
      /\ size \in Nat /\ m_max_queue_size \in Nat /\ m_max_queue_size <= size
  BY QueueSizesNat DEF TypeOK, QueueTypes, CounterTypes, QueuesBounded
<1>2. CASE AddData
  <2>1. UNCHANGED m_current_outgoing_q
    BY <1>2 DEF AddData
  <2>2. CASE Overflowing
    <3>1. m_current_incoming_q' = <<made + 1>>
      BY <1>2, <2>2 DEF AddData
    <3>. QED BY <1>1, <2>1, <3>1
  <2>3. CASE ~Overflowing
    <3>1. /\ m_current_incoming_q' = Append(m_current_incoming_q, made + 1)
          /\ Len(m_current_incoming_q) <= m_max_queue_size
      BY <1>1, <1>2, <2>3 DEF AddData, Overflowing
    <3>2. Len(m_current_incoming_q') = Len(m_current_incoming_q) + 1
      BY <1>2, <3>1, NewBuffer, AppendProperties DEF TypeOK, QueueTypes
    <3>. QED BY <1>1, <2>1, <3>1, <3>2
  <2>. QED BY <2>2, <2>3
<1>3. CASE CheckIncoming \/ SwapAfterWake
  BY <1>1, <1>3 DEF CheckIncoming, SwapAfterWake, SwapQueues, queueVars
<1>4. CASE JoinAndFlush
  BY <1>1, <1>4 DEF JoinAndFlush
<1>5. CASE ClearOutgoing
  BY <1>1, <1>5 DEF ClearOutgoing
<1>6. CASE UNCHANGED queueVars
  BY <1>1, <1>6 DEF queueVars
<1>. QED BY <1>1, <1>2, <1>3, <1>4, <1>5, <1>6, WritersOfIncoming, WritersOfOutgoing DEF queueVars

-----------------------------------------------------------------------------
(* The backlog *)

\* The outgoing buffers that are not handed out yet are the end of their queue.
LEMMA UndeliveredTail ==
    ASSUME TypeOK, CursorOK
    PROVE  /\ Undelivered \in Seq(Buffers)
           /\ Len(Undelivered) <= Len(m_current_outgoing_q)
           /\ pc = "callback" =>
                /\ Len(Undelivered) = Len(m_current_outgoing_q) - cursor + 1
                /\ \A i \in 1 .. Len(Undelivered) :
                      Undelivered[i] = m_current_outgoing_q[cursor + i - 1]
<1> DEFINE out == m_current_outgoing_q
<1>1. out \in Seq(Buffers) /\ Len(out) \in Nat /\ \A i \in 1 .. Len(out) : out[i] \in Buffers
  BY OutgoingDomain DEF TypeOK, QueueTypes
<1>2. CASE pc = "callback"
  <2>1. cursor \in 1 .. Len(out) /\ Undelivered = SubSeq(out, cursor, Len(out))
    BY <1>2 DEF CursorOK, Undelivered
  <2>2. \A i \in cursor .. Len(out) : out[i] \in Buffers
    BY <1>1, <2>1
  <2>3. /\ Undelivered \in Seq(Buffers)
        /\ Len(Undelivered) = Len(out) - cursor + 1
        /\ \A i \in 1 .. Len(out) - cursor + 1 : Undelivered[i] = out[cursor + i - 1]
    BY <1>1, <2>1, <2>2, SubSeqProperties
  <2>. QED BY <1>1, <1>2, <2>1, <2>3
<1>3. CASE pc # "callback"
  BY <1>1, <1>3, EmptySeq DEF Undelivered
<1>. QED BY <1>2, <1>3

LEMMA BacklogIs ==
    ASSUME TypeOK, CursorOK
    PROVE  /\ Undelivered \in Seq(Buffers) /\ m_current_incoming_q \in Seq(Buffers)
           /\ Backlog \in Seq(Buffers)
           /\ Len(Backlog) = Len(Undelivered) + Len(m_current_incoming_q)
           /\ Range(Backlog) = Range(Undelivered) \cup Range(m_current_incoming_q)
<1>1. Undelivered \in Seq(Buffers) /\ m_current_incoming_q \in Seq(Buffers)
  BY UndeliveredTail DEF TypeOK, QueueTypes
<1>. QED BY <1>1, ConcatProperties, RangeConcatenation DEF Backlog

\* The backlog holds the buffers that wait and the one being handed out.
LEMMA BacklogHolds ==
    ASSUME TypeOK, CursorOK
    PROVE  /\ Waiting \subseteq Range(Backlog)
           /\ pc = "callback" => Current \in Range(Backlog)
<1> DEFINE out == m_current_outgoing_q
<1>0. /\ Len(out) \in Nat /\ DOMAIN out = 1 .. Len(out)
      /\ Undelivered \in Seq(Buffers)
      /\ Range(Backlog) = Range(Undelivered) \cup Range(m_current_incoming_q)
  BY OutgoingDomain, UndeliveredTail, BacklogIs
<1>1. DOMAIN Undelivered = 1 .. Len(Undelivered)
  BY <1>0, LenProperties
<1>2. CASE pc = "callback"
  <2>1. /\ cursor \in 1 .. Len(out) /\ Len(Undelivered) = Len(out) - cursor + 1
        /\ \A i \in 1 .. Len(Undelivered) : Undelivered[i] = out[cursor + i - 1]
    BY <1>2, UndeliveredTail DEF CursorOK
  <2>2. \A k \in cursor .. Len(out) : out[k] \in Range(Undelivered)
    <3> SUFFICES ASSUME NEW k \in cursor .. Len(out) PROVE out[k] \in Range(Undelivered)
      OBVIOUS
    <3>1. k - cursor + 1 \in 1 .. Len(Undelivered) /\ cursor + (k - cursor + 1) - 1 = k
      BY <1>0, <2>1
    <3>2. Undelivered[k - cursor + 1] = out[k]
      BY <2>1, <3>1
    <3>. QED BY <1>1, <3>1, <3>2 DEF Range
  <2>3. Current \in Range(Undelivered)
    BY <1>0, <2>1, <2>2 DEF Current
  <2>4. NotBegun \subseteq Range(Undelivered)
    BY <1>0, <1>2, <2>1, <2>2 DEF NotBegun
  <2>. QED BY <1>0, <2>3, <2>4 DEF Waiting
<1>3. CASE pc = "clear"
  <2>1. NotBegun = {}
    BY <1>3 DEF NotBegun
  <2>. QED BY <1>0, <1>3, <2>1 DEF Waiting
<1>4. CASE pc \notin {"callback", "clear"}
  <2>1. Undelivered = out /\ NotBegun = Range(out)
    BY <1>4, AllWaitOutside DEF Undelivered
  <2>. QED BY <1>0, <1>4, <2>1 DEF Waiting
<1>. QED BY <1>2, <1>3, <1>4

\* However slow the clients are, the queues of add_data and process_data
\* together hold at most two full incoming queues.
THEOREM BoundedBacklog == Spec => []BacklogBounded
<1>1. Init => QueuesBounded
  BY QueuesBoundedInit
<1>2. TypeOK /\ QueuesBounded /\ [Next]_vars => QueuesBounded'
  BY QueuesBoundedNext
<1>3. Spec => [](TypeOK /\ CursorOK /\ QueuesBounded)
  BY <1>1, <1>2, TypeCorrect, PTL DEF Spec
<1>4. TypeOK /\ CursorOK /\ QueuesBounded => BacklogBounded
  <2> SUFFICES ASSUME TypeOK, CursorOK, QueuesBounded PROVE BacklogBounded
    OBVIOUS
  <2>1. PICK size \in QueueSizes : \A other \in QueueSizes : other <= size
    BY QueueSizesNat, GreatestNumber DEF TypeOK, CounterTypes
  <2>2. Len(m_current_incoming_q) <= size + 1 /\ Len(m_current_outgoing_q) <= size + 1
    BY <2>1 DEF QueuesBounded
  <2>3. /\ Len(m_current_incoming_q) \in Nat /\ Len(m_current_outgoing_q) \in Nat
        /\ Len(Undelivered) \in Nat /\ Len(Undelivered) <= Len(m_current_outgoing_q)
        /\ Len(Backlog) = Len(Undelivered) + Len(m_current_incoming_q)
    BY UndeliveredTail, BacklogIs DEF TypeOK, QueueTypes
  <2>4. Len(Backlog) <= 2 * (size + 1)
    BY <2>2, <2>3, QueueSizesNat
  <2>. QED BY <2>1, <2>4 DEF BacklogBounded
<1>. QED BY <1>3, <1>4, PTL

-----------------------------------------------------------------------------
(* Lost memory *)

\* No other step than an overflow, a move of the loop and ~q_mgr takes a buffer
\* from those that wait.
LEMMA WaitingStays ==
    ASSUME OrderInv, [Next]_vars, ~AddData, ~BeginProcessData, ~NextBuffer, ~JoinAndFlush
    PROVE  Waiting' = Waiting
<1>0. TypeOK /\ CursorOK /\ DrainedOK
  BY DEF OrderInv
<1>1. CASE (CheckIncoming /\ m_current_incoming_q # << >>) \/ SwapAfterWake
  <2>1. pc \in {"check", "swap"} /\ pc' = "test" /\ SwapQueues
    BY <1>1 DEF CheckIncoming, SwapAfterWake
  <2>. QED BY <1>0, <2>1, SwapMovesAll DEF Waiting
<1>2. CASE CheckIncoming /\ m_current_incoming_q = << >>
  <2>1. UNCHANGED <<m_current_incoming_q, m_current_outgoing_q>> /\ pc = "check" /\ pc' = "wait"
    BY <1>2 DEF CheckIncoming, queueVars
  <2>. QED BY <2>1 DEF Waiting, NotBegun
<1>3. CASE UNCHANGED m_current_incoming_q /\ ~CheckIncoming /\ ~SwapAfterWake
  BY <1>0, <1>3, NotBegunKept DEF Waiting
<1>. QED BY <1>1, <1>2, <1>3, WritersOfIncoming

\* add_data: what waited still waits, or an overflow deleted it.
LEMMA AddDataKeepsOrFlushes ==
    ASSUME OrderInv, AddData, NEW b \in Buffers
    PROVE  /\ b \in Waiting => b \in Waiting' \/ frees'[b] = frees[b] + 1
           /\ made + 1 \in Waiting'
           /\ frees'[b] >= frees[b]
<1> DEFINE in == m_current_incoming_q
<1>0. /\ TypeOK /\ QueuesOrdered /\ in \in Seq(Buffers) /\ Increasing(in)
      /\ Range(in) \subseteq Buffers /\ frees \in [Buffers -> Nat]
  BY QueueRange DEF OrderInv, TypeOK, QueueTypes, MemoryTypes, QueuesOrdered
<1>1. NotBegun' = NotBegun
  BY DEF AddData, batchVars, NotBegun
<1>2. CASE in' = <<made + 1>> /\ DeleteAll(Range(in))
  <2>1. Range(in') = {made + 1}
    BY <1>2, IncreasingShort
  <2>2. frees'[b] = frees[b] + IF b \in Range(in) THEN 1 ELSE 0
    BY <1>2 DEF DeleteAll
  <2>. QED BY <1>0, <1>1, <2>1, <2>2 DEF Waiting
<1>3. CASE in' = Append(in, made + 1) /\ UNCHANGED frees
  <2>1. \A d \in Range(in) : d < made + 1
    BY <1>0 DEF QueuesOrdered, TypeOK, CounterTypes, Buffers
  <2>2. Range(in') = Range(in) \cup {made + 1}
    BY <1>0, <1>3, <2>1, NewBuffer, IncreasingAppend
  <2>. QED BY <1>0, <1>1, <1>3, <2>2 DEF Waiting
<1>. QED BY <1>2, <1>3 DEF AddData

\* A buffer that nobody has, that waits nowhere and was not deleted went
\* unheard; so do the buffers of a batch that began without clients.
Unreached(b) == frees[b] = 0 /\ b \notin Waiting /\ Holders(b) \cup Owed(b) = {}

LeakInv ==
    /\ \A b \in Buffers : b <= made /\ Unreached(b) => b \in unheard
    /\ pc = "callback" /\ m_clients = {} => NotBegun \cup {Current} \subseteq unheard

\* The last one to let go of a buffer deletes it.
LEMMA LastShareDeletes ==
    ASSUME MemoryInv, NEW b \in Buffers, UnrefAudioBuffer(b), NEW c,
           \/ c \in Holders(b) /\ Holders(b) \subseteq {c} /\ Owed(b) = {}
           \/ c \in Owed(b) /\ Owed(b) \subseteq {c} /\ Holders(b) = {}
    PROVE  frees'[b] = 1
<1>1. TypeOK /\ frees[b] = 0 /\ m_refcount[b] = Cardinality(Holders(b)) + Cardinality(Owed(b))
  BY DEF MemoryInv, OrderInv, BufferOK
<1>2. Cardinality({c}) = 1 /\ Cardinality({}) = 0
  BY FS_Singleton, FS_EmptySet
<1>3. m_refcount[b] = 1
  <2>1. CASE Holders(b) = {c} /\ Owed(b) = {}
    BY <1>1, <1>2, <2>1
  <2>2. CASE Owed(b) = {c} /\ Holders(b) = {}
    BY <1>1, <1>2, <2>2
  <2>. QED BY <2>1, <2>2
<1>. QED BY <1>1, <1>3, UnrefEffect

LEMMA LeakInvInit == Init => LeakInv
BY MaxBuffersNat DEF Init, LeakInv, Buffers

\* The steps that neither capture, nor hand out, nor release, nor flush.
LEMMA RestLeaksNothing ==
    ASSUME MemoryInv, LeakInv, [Next]_vars, ~AddData, ~BeginProcessData, ~NextBuffer,
           ~JoinAndFlush, \A c \in Clients : ~DataCallback(c) /\ ~ReleaseBuffer(c)
    PROVE  \A b \in Buffers : b <= made' /\ Unreached(b)' => b \in unheard'
<1> SUFFICES ASSUME NEW b \in Buffers, b <= made', Unreached(b)' PROVE b \in unheard'
  OBVIOUS
<1>0. OrderInv /\ TypeOK /\ DrainedOK
  BY DEF MemoryInv, OrderInv
<1>1. made' = made /\ Waiting' = Waiting /\ Holders(b)' = Holders(b) /\ Owed(b)' = Owed(b)
  BY <1>0, MadeNext, WaitingStays, WritersOfHeld, HoldersKept, OwedStays
<1>2. unheard' = unheard /\ frees'[b] = frees[b]
  <2>1. CASE (CheckIncoming /\ m_current_incoming_q # << >>) \/ SwapAfterWake
    <3>1. pc \in {"check", "swap"} /\ pc' = "test" /\ SwapQueues /\ unheard' = unheard
      BY <2>1 DEF CheckIncoming, SwapAfterWake
    <3>. QED BY <1>0, <3>1, SwapMovesAll
  <2>2. CASE CheckIncoming /\ m_current_incoming_q = << >>
    BY <2>2 DEF CheckIncoming
  <2>3. CASE UNCHANGED <<memVars, unheard>>
    BY <2>3 DEF memVars
  <2>. QED BY <2>1, <2>2, <2>3, WritersOfMemory
<1>3. Unreached(b)
  BY <1>1, <1>2 DEF Unreached
<1>. QED BY <1>1, <1>2, <1>3 DEF LeakInv

LEMMA LeaksNext ==
    ASSUME MemoryInv, LeakInv, [Next]_vars
    PROVE  \A b \in Buffers : b <= made' /\ Unreached(b)' => b \in unheard'
<1> SUFFICES ASSUME NEW b \in Buffers, b <= made', Unreached(b)' PROVE b \in unheard'
  OBVIOUS
<1>0. /\ OrderInv /\ TypeOK /\ CursorOK /\ DrainedOK /\ QueuesOrdered
      /\ frees \in [Buffers -> Nat] /\ made \in Nat /\ b \in Nat /\ frees[b] \in Nat
  BY MadeNext DEF MemoryInv, OrderInv, TypeOK, MemoryTypes, Buffers
<1>u. /\ frees'[b] = 0 /\ b \notin Waiting' /\ Holders(b)' = {} /\ Owed(b)' = {}
      /\ (b <= made /\ Unreached(b) => b \in unheard)
  BY DEF Unreached, LeakInv
<1>1. CASE AddData
  <2>1. made' = made + 1 /\ unheard' = unheard
    BY <1>1 DEF AddData
  <2>2. b # made + 1 /\ b \notin Waiting /\ frees[b] = 0
    BY <1>0, <1>1, <1>u, AddDataKeepsOrFlushes
  <2>3. Holders(b)' = Holders(b) /\ Owed(b)' = Owed(b)
    BY <1>1, HoldersKept, OwedKept DEF AddData, batchVars, clientVars
  <2>. QED BY <1>0, <1>u, <2>1, <2>2, <2>3 DEF Unreached
<1>2. CASE BeginProcessData
  <2>1. /\ pc = "drain" /\ pc' = "callback" /\ todo' = m_clients
        /\ UNCHANGED <<m_current_incoming_q, m_current_outgoing_q, held, frees, made, m_clients>>
    BY <1>2 DEF BeginProcessData, ProcessorFrame, queueVars, clientVars
  <2>2. Holders(b)' = Holders(b) /\ Owed(b) = {}
    BY <2>1, HoldersKept, OwedOutside
  <2>3. /\ NotBegun = Range(m_current_outgoing_q)
        /\ NotBegun' = Range(m_current_outgoing_q) \ {Current'}
    BY <1>0, <1>2, BeginTakesFirst
  <2>4. Owed(b)' = IF b = Current' \/ b \in NotBegun' THEN m_clients ELSE {}
    BY <2>1 DEF Owed, Current
  <2>5. CASE b \in Range(m_current_outgoing_q)
    <3>1. m_clients = {}
      BY <1>u, <2>3, <2>4, <2>5
    <3>. QED BY <1>2, <2>5, <3>1 DEF BeginProcessData
  <2>6. CASE b \notin Range(m_current_outgoing_q)
    <3>1. b \notin Waiting
      BY <1>u, <2>1, <2>3, <2>6 DEF Waiting
    <3>2. unheard \subseteq unheard'
      BY <1>2 DEF BeginProcessData
    <3>. QED BY <1>u, <2>1, <2>2, <3>1, <3>2 DEF Unreached
  <2>. QED BY <2>5, <2>6
<1>3. ASSUME NEW c \in Clients, DataCallback(c) PROVE b \in unheard'
  <2>1. made' = made /\ unheard' = unheard
    BY <1>3 DEF DataCallback, ProcessorFrame
  <2>2. b \notin Waiting
    BY <1>0, <1>u, <1>3, CallbackShares
  <2>3. CASE b = Current
    <3>1. c \notin Retaining
      BY <1>0, <1>u, <1>3, <2>3, CallbackShares
    <3>2. UnrefAudioBuffer(b)
      BY <1>3, <2>3, <3>1 DEF DataCallback, Current
    <3>3. /\ Holders(b) = {} /\ c \in Owed(b) /\ Owed(b) \subseteq {c}
      BY <1>0, <1>u, <1>3, <2>3, <3>1, CallbackShares
    <3>4. frees'[b] = 1
      BY <3>2, <3>3, LastShareDeletes
    <3>. QED BY <1>u, <3>4
  <2>4. CASE b # Current
    <3>1. Holders(b) = {} /\ Owed(b) = {} /\ Current \in Buffers
      BY <1>0, <1>u, <1>3, <2>4, CallbackShares
    <3>2. CASE c \in Retaining
      BY <1>u, <1>3, <2>1, <2>2, <3>1, <3>2 DEF DataCallback, memVars, Unreached
    <3>3. CASE c \notin Retaining
      <4>1. UnrefAudioBuffer(Current)
        BY <1>3, <3>3 DEF DataCallback, Current
      <4>2. frees'[b] = frees[b]
        BY <1>0, <2>4, <3>1, <4>1, UnrefEffect
      <4>. QED BY <1>u, <2>1, <2>2, <3>1, <4>2 DEF Unreached
    <3>. QED BY <3>2, <3>3
  <2>. QED BY <2>3, <2>4
<1>4. CASE NextBuffer
  <2>1. /\ pc = "callback" /\ pc' = "callback" /\ todo = {} /\ todo' = m_clients
        /\ UNCHANGED <<m_current_incoming_q, m_current_outgoing_q, held, frees, made, m_clients,
                       unheard>>
    BY <1>4 DEF NextBuffer, ProcessorFrame, queueVars, memVars, clientVars
  <2>2. /\ Current' \in NotBegun /\ NotBegun' = NotBegun \ {Current'}
        /\ Current # Current' /\ Current \notin NotBegun
    BY <1>0, <1>4, NextTakesFirst
  <2>3. Holders(b)' = Holders(b)
    BY <2>1, HoldersKept
  <2>4. Owed(b) = IF b \in NotBegun THEN m_clients ELSE {}
    BY <2>1, <2>2 DEF Owed, Current
  <2>5. Owed(b)' = IF b \in NotBegun THEN m_clients ELSE {}
    BY <2>1, <2>2 DEF Owed, Current
  <2>6. CASE b \in NotBegun
    <3>1. m_clients = {}
      BY <1>u, <2>5, <2>6
    <3>. QED BY <2>1, <2>6, <3>1 DEF LeakInv
  <2>7. CASE b \notin NotBegun
    <3>1. b \notin Waiting
      BY <1>u, <2>1, <2>7 DEF Waiting
    <3>. QED BY <1>u, <2>1, <2>3, <2>4, <2>7, <3>1 DEF Unreached
  <2>. QED BY <2>6, <2>7
<1>5. ASSUME NEW c \in Clients, ReleaseBuffer(c) PROVE b \in unheard'
  <2>1. made' = made /\ unheard' = unheard
    BY <1>5 DEF ReleaseBuffer, AppFrame
  <2>2. b \notin Waiting /\ Owed(b) = {}
    BY <1>0, <1>u, <1>5, ReleaseShares
  <2>3. CASE b = Head(held[c])
    <3>1. UnrefAudioBuffer(b) /\ c \in Holders(b) /\ Holders(b) \subseteq {c}
      BY <1>0, <1>u, <1>5, <2>3, ReleaseShares
    <3>2. frees'[b] = 1
      BY <2>2, <3>1, LastShareDeletes
    <3>. QED BY <1>u, <3>2
  <2>4. CASE b # Head(held[c])
    <3>1. Holders(b) = {} /\ Head(held[c]) \in Buffers /\ UnrefAudioBuffer(Head(held[c]))
      BY <1>0, <1>u, <1>5, <2>4, ReleaseShares
    <3>2. frees'[b] = frees[b]
      BY <1>0, <2>4, <3>1, UnrefEffect
    <3>. QED BY <1>u, <2>1, <2>2, <3>1, <3>2 DEF Unreached
  <2>. QED BY <2>3, <2>4
<1>6. CASE JoinAndFlush
  <2>1. /\ pc = "exited" /\ pc' = "exited" /\ UNCHANGED <<held, made, unheard>>
    BY <1>6 DEF JoinAndFlush, OwnerFrame, clientVars
  <2>2. Holders(b)' = Holders(b) /\ Owed(b) = {}
    BY <2>1, HoldersKept, OwedOutside
  <2>3. frees'[b] = frees[b] + (IF b \in Range(m_current_incoming_q) THEN 1 ELSE 0)
                             + (IF b \in Range(m_current_outgoing_q) THEN 1 ELSE 0)
    BY <1>6 DEF JoinAndFlush
  <2>4. b \notin Range(m_current_incoming_q) /\ b \notin Range(m_current_outgoing_q)
    BY <1>0, <1>u, <2>3
  <2>5. frees[b] = 0 /\ b \notin Waiting
    BY <1>0, <1>u, <2>1, <2>3, <2>4, AllWaitOutside DEF Waiting
  <2>. QED BY <1>u, <2>1, <2>2, <2>5 DEF Unreached
<1>. QED BY <1>1, <1>2, <1>3, <1>4, <1>5, <1>6, RestLeaksNothing

\* A batch that begins without clients ends without: registration waits.
LEMMA EmptyAudienceNext ==
    ASSUME MemoryInv, LeakInv, [Next]_vars, pc' = "callback", m_clients' = {}
    PROVE  NotBegun' \cup {Current'} \subseteq unheard'
<1>0. TypeOK /\ CursorOK /\ QueuesOrdered
  BY DEF MemoryInv, OrderInv
<1>1. CASE BeginProcessData
  <2>1. unheard' = unheard \cup Range(m_current_outgoing_q)
    BY <1>1 DEF BeginProcessData, ProcessorFrame
  <2>. QED BY <1>0, <1>1, <2>1, BeginTakesFirst
<1>2. CASE NextBuffer
  <2>1. pc = "callback" /\ unheard' = unheard /\ m_clients' = m_clients
    BY <1>2 DEF NextBuffer, ProcessorFrame
  <2>. QED BY <1>0, <1>2, <2>1, NextTakesFirst DEF LeakInv
<1>3. CASE ~BeginProcessData /\ ~NextBuffer
  <2>1. pc = "callback" /\ Current' = Current
    BY <1>3, CurrentKept
  <2>2. ~CheckIncoming /\ ~SwapAfterWake /\ ~JoinAndFlush
    BY <2>1 DEF CheckIncoming, SwapAfterWake, JoinAndFlush
  <2>3. NotBegun' = NotBegun
    BY <1>0, <1>3, <2>2, NotBegunKept
  <2>4. m_clients' = m_clients
    <3>1. \/ pc # "callback" /\ pc' # "callback"
          \/ UNCHANGED m_clients
      BY WritersOfDebts DEF BeginProcessData, DataCallback, NextBuffer, EndCallbacks,
                            ProcessorFrame
    <3>. QED BY <2>1, <3>1
  <2>5. unheard' = unheard
    BY <1>3, <2>2, WritersOfMemory DEF AddData, DataCallback, ReleaseBuffer, AppFrame
  <2>. QED BY <2>1, <2>3, <2>4, <2>5 DEF LeakInv
<1>. QED BY <1>1, <1>2, <1>3

\* Whatever is not deleted yet and nobody can reach was processed while no client
\* was registered: process_data loses those buffers and the program no others.
THEOREM OthersAreDeleted == Spec => []OnlyUnheardBuffersLeak
<1>1. MemoryInv /\ LeakInv /\ [Next]_vars => LeakInv'
  BY LeaksNext, EmptyAudienceNext DEF LeakInv
<1>2. Spec => [](MemoryInv /\ LeakInv)
  BY <1>1, LeakInvInit, MemoryKept, PTL DEF Spec
<1>3. MemoryInv /\ LeakInv => OnlyUnheardBuffersLeak
  <2> SUFFICES ASSUME MemoryInv, LeakInv, NEW b \in 1 .. made, frees[b] = 0,
                      b \notin Range(Backlog), Holders(b) = {}
               PROVE  b \in unheard
    BY DEF OnlyUnheardBuffersLeak
  <2>0. TypeOK /\ CursorOK /\ QueuesOrdered /\ b \in Buffers /\ b <= made
    BY MaxBuffersNat DEF MemoryInv, OrderInv, TypeOK, CounterTypes, Buffers
  <2>1. b \notin Waiting /\ (pc = "callback" => b # Current)
    BY <2>0, BacklogHolds
  <2>2. b \notin NotBegun
    BY <2>1 DEF Waiting
  <2>3. Owed(b) = {}
    BY <2>1, <2>2 DEF Owed, Current
  <2>. QED BY <2>0, <2>1, <2>3 DEF LeakInv, Unreached
<1>. QED BY <1>2, <1>3, PTL

-----------------------------------------------------------------------------
(* The data path implements AudioFeed *)

LEMMA AppendToConcat ==
    ASSUME NEW s \in Seq(Buffers), NEW t \in Seq(Buffers), NEW b \in Buffers
    PROVE  s \o Append(t, b) = Append(s \o t, b)
<1>1. <<b>> \in Seq(Buffers) /\ s \o t \in Seq(Buffers)
  BY ConcatProperties
<1>2. Append(t, b) = t \o <<b>> /\ Append(s \o t, b) = (s \o t) \o <<b>>
  BY <1>1, AppendIsConcat
<1>. QED BY <1>1, <1>2, ConcatAssociative

LEMMA PrefixOfConcat ==
    ASSUME NEW s \in Seq(Buffers), NEW t \in Seq(Buffers)
    PROVE  SubSeq(s \o t, 1, Len(s)) = s
<1>1. Len(s) \in Nat
  BY LenProperties
<1>2. CASE Len(s) = 0
  <2>1. s = << >>
    BY <1>2, EmptySeq
  <2>2. SubSeq(s \o t, 1, 0) = << >>
    BY SubSeqEmpty
  <2>. QED BY <1>2, <2>1, <2>2
<1>3. CASE Len(s) # 0
  <2>1. 1 \in 1 .. Len(s) /\ Len(s) \in 1 .. Len(s)
    BY <1>1, <1>3
  <2>. QED BY <2>1, SubSeqOfConcat1, SubSeqFull
<1>. QED BY <1>2, <1>3

LEMMA HeadTailOfConcat ==
    ASSUME NEW s \in Seq(Buffers), s # << >>, NEW t \in Seq(Buffers)
    PROVE  Head(s \o t) = s[1] /\ Tail(s \o t) = Tail(s) \o t
<1>1. /\ Len(s) \in Nat \ {0} /\ Len(t) \in Nat
      /\ s \o t \in Seq(Buffers) /\ Len(s \o t) = Len(s) + Len(t)
      /\ \A i \in 1 .. Len(s) + Len(t) :
            (s \o t)[i] = IF i <= Len(s) THEN s[i] ELSE t[i - Len(s)]
  BY EmptySeq, LenProperties, ConcatProperties
<1>2. s \o t # << >>
  BY <1>1, EmptySeq
<1>3. /\ Tail(s \o t) \in Seq(Buffers) /\ Len(Tail(s \o t)) = Len(s) + Len(t) - 1
      /\ \A i \in 1 .. Len(s) + Len(t) - 1 : Tail(s \o t)[i] = (s \o t)[i + 1]
  BY <1>1, <1>2, HeadTailProperties
<1>4. /\ Tail(s) \in Seq(Buffers) /\ Len(Tail(s)) = Len(s) - 1
      /\ \A i \in 1 .. Len(s) - 1 : Tail(s)[i] = s[i + 1]
  BY HeadTailProperties
<1>5. /\ Tail(s) \o t \in Seq(Buffers) /\ Len(Tail(s) \o t) = Len(s) - 1 + Len(t)
      /\ \A i \in 1 .. Len(s) - 1 + Len(t) :
            (Tail(s) \o t)[i] = IF i <= Len(s) - 1 THEN Tail(s)[i] ELSE t[i - (Len(s) - 1)]
  BY <1>4, ConcatProperties
<1>6. ASSUME NEW i \in 1 .. Len(s) + Len(t) - 1
      PROVE  Tail(s \o t)[i] = (Tail(s) \o t)[i]
  <2>1. i + 1 \in 1 .. Len(s) + Len(t) /\ i \in 1 .. Len(s) - 1 + Len(t)
    BY <1>1
  <2>2. Tail(s \o t)[i] = IF i + 1 <= Len(s) THEN s[i + 1] ELSE t[i + 1 - Len(s)]
    BY <1>1, <1>3, <2>1
  <2>3. CASE i + 1 <= Len(s)
    <3>1. i \in 1 .. Len(s) - 1
      BY <1>1, <2>3
    <3>. QED BY <1>4, <1>5, <2>1, <2>2, <2>3, <3>1
  <2>4. CASE ~(i + 1 <= Len(s))
    <3>1. ~(i <= Len(s) - 1) /\ i + 1 - Len(s) = i - (Len(s) - 1)
      BY <1>1, <2>4
    <3>. QED BY <1>5, <2>1, <2>2, <2>4, <3>1
  <2>. QED BY <2>3, <2>4
<1>7. Tail(s \o t) = Tail(s) \o t
  BY <1>1, <1>3, <1>5, <1>6, SeqEqual
<1>8. Head(s \o t) = (s \o t)[1]
  BY <1>1, <1>2
<1>9. (s \o t)[1] = s[1]
  BY <1>1
<1>. QED BY <1>7, <1>8, <1>9

LEMMA FeedInitially == Init => Feed!FeedInit
<1> SUFFICES ASSUME Init PROVE Feed!FeedInit
  OBVIOUS
<1>1. Backlog = << >>
  BY DEF Init, Backlog, Undelivered
<1>. QED BY <1>1 DEF Init, Feed!FeedInit

\* add_data: nothing of the backlog is lost, or the whole incoming queue is.
LEMMA AddDataCaptures == ASSUME OrderInv, AddData, [Next]_vars PROVE Feed!FeedCapture
<1> DEFINE in == m_current_incoming_q
<1>0. TypeOK /\ CursorOK /\ in \in Seq(Buffers) /\ made + 1 \in Buffers
  BY NewBuffer DEF OrderInv, TypeOK, QueueTypes
<1>1. /\ made' = made + 1 /\ made < MaxBuffers
      /\ UNCHANGED <<m_current_outgoing_q, pc, cursor, todo, m_clients, last>>
  BY DEF AddData, batchVars, clientVars
<1>2. Undelivered' = Undelivered
  BY <1>1 DEF Undelivered
<1>3. /\ Undelivered \in Seq(Buffers) /\ Len(Undelivered) \in Nat
      /\ Len(in) \in Nat /\ Len(Backlog) = Len(Undelivered) + Len(in)
      /\ Backlog \in Seq(Buffers)
      /\ pc = "callback" => Len(Undelivered) >= 1
  <2>1. pc = "callback" => Len(Undelivered) >= 1
    BY <1>0, UndeliveredTail, OutgoingDomain DEF CursorOK
  <2>. QED BY <1>0, <2>1, BacklogIs, LenProperties
<1>4. CASE in' = Append(in, made + 1)
  <2>1. Backlog' = Append(Backlog, made + 1)
    BY <1>0, <1>2, <1>3, <1>4, AppendToConcat DEF Backlog
  <2>2. SubSeq(Backlog, 1, Len(Backlog)) = Backlog
    BY <1>3, SubSeqFull
  <2>3. Len(Backlog) \in 0 .. Len(Backlog) /\ (pc = "callback" => Len(Backlog) >= 1)
    BY <1>3
  <2>. QED BY <1>1, <2>1, <2>2, <2>3 DEF Feed!FeedCapture
<1>5. CASE in' = <<made + 1>>
  <2>1. Backlog' = Append(Undelivered, made + 1)
    BY <1>0, <1>2, <1>3, <1>5, AppendIsConcat DEF Backlog
  <2>2. SubSeq(Backlog, 1, Len(Undelivered)) = Undelivered
    BY <1>0, <1>3, PrefixOfConcat DEF Backlog
  <2>3. Len(Undelivered) \in 0 .. Len(Backlog)
    BY <1>3
  <2>. QED BY <1>1, <1>3, <2>1, <2>2, <2>3 DEF Feed!FeedCapture
<1>. QED BY <1>4, <1>5 DEF AddData

\* process_data begins: its first buffer is announced to the registered clients.
LEMMA BeginAnnounces == ASSUME OrderInv, BeginProcessData PROVE Feed!FeedAnnounce
<1> DEFINE out == m_current_outgoing_q
<1>0. TypeOK /\ CursorOK /\ out \in Seq(Buffers)
  BY DEF OrderInv, TypeOK, QueueTypes
<1>1. /\ pc = "drain" /\ pc' = "callback" /\ cursor' = 1 /\ todo' = m_clients /\ out # << >>
      /\ UNCHANGED <<m_current_incoming_q, m_current_outgoing_q, made, m_clients, last>>
  BY DEF BeginProcessData, ProcessorFrame, queueVars, clientVars
<1>2. Undelivered = out /\ Undelivered' = SubSeq(out, 1, Len(out))
  BY <1>1 DEF Undelivered
<1>3. Backlog' = Backlog
  BY <1>0, <1>1, <1>2, SubSeqFull DEF Backlog
<1>4. Backlog # << >>
  <2>1. Len(out) \in Nat \ {0} /\ Len(Undelivered) = Len(out)
    BY <1>0, <1>1, <1>2, EmptySeq
  <2>2. Len(Backlog) = Len(Undelivered) + Len(m_current_incoming_q) /\ Backlog \in Seq(Buffers)
        /\ Len(m_current_incoming_q) \in Nat
    BY <1>0, BacklogIs, LenProperties
  <2>. QED BY <2>1, <2>2, EmptySeq
<1>. QED BY <1>1, <1>3, <1>4 DEF Feed!FeedAnnounce

\* A buffer is handed to one client, and it is the first of the backlog.
LEMMA CallbackHears ==
    ASSUME OrderInv, NEW c \in Clients, DataCallback(c) PROVE Feed!FeedHear(c)
<1> DEFINE out == m_current_outgoing_q
<1>0. TypeOK /\ CursorOK /\ m_current_incoming_q \in Seq(Buffers)
  BY DEF OrderInv, TypeOK, QueueTypes
<1>1. /\ pc = "callback" /\ pc' = "callback" /\ c \in todo /\ todo' = todo \ {c}
      /\ last' = [last EXCEPT ![c] = out[cursor]]
      /\ UNCHANGED <<m_current_incoming_q, m_current_outgoing_q, cursor, made, m_clients>>
  BY DEF DataCallback, ProcessorFrame, queueVars
<1>2. Backlog' = Backlog
  BY <1>1 DEF Backlog, Undelivered
<1>3. /\ Undelivered \in Seq(Buffers) /\ Undelivered # << >>
      /\ Undelivered[1] = out[cursor]
  <2>1. /\ Undelivered \in Seq(Buffers) /\ Len(Undelivered) = Len(out) - cursor + 1
        /\ \A i \in 1 .. Len(Undelivered) : Undelivered[i] = out[cursor + i - 1]
        /\ cursor \in 1 .. Len(out) /\ Len(out) \in Nat
    BY <1>0, <1>1, UndeliveredTail, OutgoingDomain DEF CursorOK
  <2>2. 1 \in 1 .. Len(Undelivered) /\ cursor + 1 - 1 = cursor
    BY <2>1
  <2>3. Undelivered[1] = out[cursor]
    BY <2>1, <2>2
  <2>. QED BY <2>1, <2>2, <2>3, EmptySeq
<1>4. Head(Backlog) = out[cursor]
  BY <1>0, <1>3, HeadTailOfConcat DEF Backlog
<1>. QED BY <1>1, <1>2, <1>4 DEF Feed!FeedHear

\* The loop moves on: the buffer everybody heard leaves the backlog, and the next
\* one is announced in the same step.
LEMMA NextRetires == ASSUME OrderInv, NextBuffer PROVE Feed!FeedRetire
<1> DEFINE out == m_current_outgoing_q
<1>0. TypeOK /\ CursorOK /\ m_current_incoming_q \in Seq(Buffers) /\ out \in Seq(Buffers)
  BY DEF OrderInv, TypeOK, QueueTypes
<1>1. /\ pc = "callback" /\ pc' = "callback" /\ todo = {} /\ todo' = m_clients
      /\ cursor < Len(out) /\ cursor' = cursor + 1
      /\ UNCHANGED <<m_current_incoming_q, m_current_outgoing_q, made, m_clients, last>>
  BY DEF NextBuffer, ProcessorFrame, queueVars, clientVars
<1>2. cursor \in 1 .. Len(out) /\ Len(out) \in cursor .. Len(out) /\ Len(out) \in Nat
  BY <1>0, <1>1, LenProperties DEF CursorOK
<1>3. /\ Undelivered = SubSeq(out, cursor, Len(out))
      /\ Undelivered' = SubSeq(out, cursor + 1, Len(out))
  BY <1>1 DEF Undelivered
<1>4. Undelivered' = Tail(Undelivered)
  BY <1>0, <1>2, <1>3, HeadTailOfSubSeq
<1>5. /\ Undelivered \in Seq(Buffers) /\ Len(Undelivered) > 1 /\ Undelivered # << >>
      /\ Len(Backlog) > 1
  <2>1. Len(Undelivered) = Len(out) - cursor + 1 /\ Undelivered \in Seq(Buffers)
    BY <1>0, <1>1, UndeliveredTail
  <2>2. Len(Undelivered) > 1
    BY <1>1, <1>2, <2>1
  <2>3. Len(Backlog) = Len(Undelivered) + Len(m_current_incoming_q)
        /\ Len(m_current_incoming_q) \in Nat /\ Len(Undelivered) \in Nat
    BY <1>0, <2>1, BacklogIs, LenProperties
  <2>. QED BY <2>1, <2>2, <2>3, EmptySeq
<1>6. Backlog' = Tail(Backlog)
  BY <1>0, <1>1, <1>4, <1>5, HeadTailOfConcat DEF Backlog
<1>. QED BY <1>1, <1>5, <1>6 DEF Feed!FeedRetire

\* The last buffer of the batch leaves the backlog.
LEMMA EndRetires == ASSUME OrderInv, EndCallbacks PROVE Feed!FeedRetire
<1> DEFINE out == m_current_outgoing_q
<1>0. TypeOK /\ CursorOK /\ m_current_incoming_q \in Seq(Buffers) /\ out \in Seq(Buffers)
  BY DEF OrderInv, TypeOK, QueueTypes
<1>1. /\ pc = "callback" /\ pc' = "clear" /\ todo = {} /\ todo' = {} /\ cursor = Len(out)
      /\ UNCHANGED <<m_current_incoming_q, m_current_outgoing_q, made, m_clients, last>>
  BY DEF EndCallbacks, ProcessorFrame, queueVars, clientVars
<1>2. Len(out) \in Nat /\ Undelivered' = << >>
  BY <1>0, <1>1, LenProperties DEF Undelivered
<1>3. /\ Undelivered \in Seq(Buffers) /\ Len(Undelivered) = 1
  BY <1>0, <1>1, <1>2, UndeliveredTail
<1>4. Undelivered # << >> /\ Tail(Undelivered) = << >>
  <2>1. Undelivered # << >>
    BY <1>3, EmptySeq
  <2>2. Tail(Undelivered) \in Seq(Buffers) /\ Len(Tail(Undelivered)) = 0
    BY <1>3, <2>1, HeadTailProperties
  <2>. QED BY <2>1, <2>2, EmptySeq
<1>5. Backlog' = Tail(Backlog)
  BY <1>0, <1>1, <1>2, <1>3, <1>4, HeadTailOfConcat DEF Backlog
<1>. QED BY <1>1, <1>5 DEF Feed!FeedRetire

\* A swap moves the whole backlog from one queue to the other.
LEMMA SwapKeepsBacklog ==
    ASSUME OrderInv, pc \in {"check", "swap"}, pc' = "test", SwapQueues
    PROVE  Backlog' = Backlog
<1>1. /\ m_current_outgoing_q = << >> /\ m_current_incoming_q \in Seq(Buffers)
      /\ m_current_incoming_q' = << >> /\ m_current_outgoing_q' = m_current_incoming_q
  BY SwapMovesAll DEF OrderInv, TypeOK, QueueTypes
<1>2. Backlog = << >> \o m_current_incoming_q /\ Backlog' = m_current_incoming_q \o << >>
  BY <1>1 DEF Backlog, Undelivered
<1>. QED BY <1>1, <1>2, ConcatEmptySeq

\* Every step of the data path is a step of the feed, or leaves the feed alone.
LEMMA FeedSteps == OrderInv /\ [Next]_vars => [Feed!FeedNext]_(Feed!feedVars)
<1> SUFFICES ASSUME OrderInv, [Next]_vars PROVE Feed!FeedNext \/ UNCHANGED Feed!feedVars
  OBVIOUS
<1>1. CASE AddData
  BY <1>1, AddDataCaptures DEF Feed!FeedNext
<1>2. CASE BeginProcessData
  BY <1>2, BeginAnnounces DEF Feed!FeedNext
<1>3. ASSUME NEW c \in Clients, DataCallback(c) PROVE Feed!FeedNext
  BY <1>3, CallbackHears DEF Feed!FeedNext
<1>4. CASE NextBuffer
  BY <1>4, NextRetires DEF Feed!FeedNext
<1>5. CASE EndCallbacks
  BY <1>5, EndRetires DEF Feed!FeedNext
<1>6. ASSUME NEW c \in Clients, RegisterClient(c) PROVE Feed!FeedNext
  <2>1. /\ pc # "callback" /\ pc' = pc /\ m_clients' = m_clients \cup {c}
        /\ UNCHANGED <<m_current_incoming_q, m_current_outgoing_q, cursor, todo, made, last>>
    BY <1>6 DEF RegisterClient, ClientMutexFree, AppFrame, queueVars, batchVars
  <2>2. Backlog' = Backlog
    BY <2>1 DEF Backlog, Undelivered
  <2>3. Feed!FeedJoin(c)
    BY <2>1, <2>2 DEF Feed!FeedJoin
  <2>. QED BY <2>3 DEF Feed!FeedNext
<1>7. ASSUME NEW c \in Clients, UnregisterClient(c) PROVE Feed!FeedNext
  <2>1. /\ pc # "callback" /\ pc' = pc /\ m_clients' = m_clients \ {c}
        /\ UNCHANGED <<m_current_incoming_q, m_current_outgoing_q, cursor, todo, made, last>>
    BY <1>7 DEF UnregisterClient, ClientMutexFree, AppFrame, queueVars, batchVars
  <2>2. Backlog' = Backlog
    BY <2>1 DEF Backlog, Undelivered
  <2>3. Feed!FeedLeave(c)
    BY <2>1, <2>2 DEF Feed!FeedLeave
  <2>. QED BY <2>3 DEF Feed!FeedNext
<1>8. CASE JoinAndFlush
  <2>1. /\ pc = "exited" /\ pc' = "exited"
        /\ m_current_incoming_q' = << >> /\ m_current_outgoing_q' = << >>
        /\ UNCHANGED <<made, todo, m_clients, last>>
    BY <1>8 DEF JoinAndFlush, OwnerFrame, batchVars, clientVars
  <2>2. Backlog' = << >> \o << >>
    BY <2>1 DEF Backlog, Undelivered
  <2>3. Backlog' = << >>
    BY <2>2, EmptySeq, ConcatEmptySeq
  <2>4. Feed!FeedClose
    BY <2>1, <2>3 DEF Feed!FeedClose
  <2>. QED BY <2>4 DEF Feed!FeedNext
<1>9. CASE (CheckIncoming /\ m_current_incoming_q # << >>) \/ SwapAfterWake
  <2>1. /\ pc \in {"check", "swap"} /\ pc' = "test" /\ SwapQueues
        /\ UNCHANGED <<made, todo, m_clients, last>>
    BY <1>9 DEF CheckIncoming, SwapAfterWake, ProcessorFrame, batchVars, clientVars
  <2>2. Backlog' = Backlog
    BY <2>1, SwapKeepsBacklog
  <2>. QED BY <2>1, <2>2 DEF Feed!feedVars
<1>10. CASE ClearOutgoing
  <2>1. /\ pc = "clear" /\ pc' = "drain" /\ m_current_outgoing_q' = << >>
        /\ UNCHANGED <<m_current_incoming_q, made, todo, m_clients, last>>
    BY <1>10 DEF ClearOutgoing, ProcessorFrame, batchVars, clientVars
  <2>2. Backlog' = Backlog
    BY <2>1 DEF Backlog, Undelivered
  <2>. QED BY <2>1, <2>2 DEF Feed!feedVars
<1>11. CASE \/ Launch \/ TestAlive \/ OutgoingDrained \/ SemWait \/ SemWaitFails
            \/ TestShutdown
            \/ (CheckIncoming /\ m_current_incoming_q = << >>)
  <2>1. /\ pc \notin {"callback", "clear"} /\ pc' \notin {"callback", "clear"}
        /\ UNCHANGED <<m_current_incoming_q, m_current_outgoing_q, made, todo, m_clients, last>>
    BY <1>11 DEF Launch, TestAlive, OutgoingDrained, SemWait, SemWaitFails, TestShutdown,
                 CheckIncoming, ProcessorFrame, queueVars, batchVars, clientVars
  <2>2. Backlog' = Backlog
    BY <2>1 DEF Backlog, Undelivered
  <2>. QED BY <2>1, <2>2 DEF Feed!feedVars
<1>12. CASE UNCHANGED <<m_current_incoming_q, m_current_outgoing_q, pc, cursor, made, todo,
                        m_clients, last>>
  <2>1. Backlog' = Backlog
    BY <1>12 DEF Backlog, Undelivered
  <2>. QED BY <1>12, <2>1 DEF Feed!feedVars
<1>13. ASSUME NEW c \in Clients, ReleaseBuffer(c)
       PROVE  UNCHANGED <<m_current_incoming_q, m_current_outgoing_q, pc, cursor, made, todo,
                          m_clients, last>>
  BY <1>13 DEF ReleaseBuffer, AppFrame, queueVars, batchVars
<1>14. ASSUME \/ StartStop \/ SetAudioProperties \/ CloseDevice \/ ClearAlive \/ PostShutdown
              \/ UNCHANGED vars
       PROVE  UNCHANGED <<m_current_incoming_q, m_current_outgoing_q, pc, cursor, made, todo,
                          m_clients, last>>
  BY <1>14 DEF StartStop, SetAudioProperties, CloseDevice, ClearAlive, PostShutdown, AppFrame,
               OwnerFrame, vars, queueVars, batchVars, clientVars
<1>. QED BY <1>1, <1>2, <1>3, <1>4, <1>5, <1>6, <1>7, <1>8, <1>9, <1>10, <1>11, <1>12, <1>13,
            <1>14 DEF Next, Processor, Application, Owner

\* The manager is the ordered broadcast of AudioFeed: a client that stays
\* registered hears every buffer in order, except those that an overflow or
\* ~q_mgr flushed, and the two queues, the swaps and the semaphore do not show.
THEOREM FeedImplemented == Spec => ImplementsFeed
<1>1. Init => Feed!FeedInit
  BY FeedInitially
<1>2. OrderInv /\ [Next]_vars => [Feed!FeedNext]_(Feed!feedVars)
  BY FeedSteps
<1>. QED BY <1>1, <1>2, OrderKept, PTL DEF Spec, ImplementsFeed, Feed!FeedSpec
=============================================================================
