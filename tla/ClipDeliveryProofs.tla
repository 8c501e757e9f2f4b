--------------------------- MODULE ClipDeliveryProofs ---------------------------
(***************************************************************************)
(* Theorems about the delivery of clips to applications (ClipDelivery with *)
(* SocketAdaptor), for any number of connections and clips.                *)
(***************************************************************************)
EXTENDS ClipDelivery, NumberLemmas

-----------------------------------------------------------------------------
(* The inductive invariant *)

Deliveries == [clip : Nat, to : {NoFd} \cup Connections, whole : BOOLEAN]

TypesInv ==
    /\ TypeOK
    /\ made \in Nat
    /\ m_outbox \in Seq(Nat)
    /\ closed \in BOOLEAN
    /\ log \in Seq(Deliveries)

\* Two messages are sent in all, and the worker reads when there is one.
PipeInv ==
    /\ owner \in {"listen", "register", "register_data", "notify"} => Len(control_pipe) = 0
    /\ owner \in {"up", "stop"} => Len(control_pipe) <= 1
    /\ worker = "control" => Len(control_pipe) > 0

\* The owner is done with the worker before it takes its objects from it.
OwnerInv ==
    /\ owner = "listen" => worker = "none"
    /\ owner \in {"remove", "removed", "gone"} => worker \in {"none", "exited"}
    /\ owner \in {"removed", "gone"} => m_write_fd = NoFd
    /\ closed <=> owner = "gone"

\* The connection behind m_write_fd is open and counted; write_data closes it
\* first and uncounts it then.
ConnectionInv ==
    /\ \A k \in Connections : connection[k] = "accepted" <=> k = m_write_fd /\ worker # "reset"
    /\ m_num_connections = IF m_write_fd = NoFd THEN 0 ELSE 1

\* Connections are accepted in the order in which they were made, and what
\* select has seen waiting still waits when accept is called.
QueueInv ==
    /\ \A k \in Connections : \A j \in Connections :
        j < k /\ connection[j] \in {"none", "queued"} => connection[k] \in {"none", connection[j]}
    /\ m_write_fd # NoFd => connection[m_write_fd] \in {"accepted", "closed"}
    /\ listen_ready => Queued # {}
    /\ worker = "accept" => listen_ready

\* The clips in the log, the one that is being sent and those in the outbox are
\* all that were cut, in order.
ClipsInv ==
    /\ sink_ptr # NoClip <=> worker = "write"
    /\ \A i \in 1 .. Len(m_outbox) : m_outbox[i] \in 1 .. made /\ m_outbox[i] > sink_ptr
    /\ \A i, j \in 1 .. Len(m_outbox) : i < j => m_outbox[i] < m_outbox[j]
    /\ \A i \in 1 .. Len(log) :
        /\ log[i].clip <= made
        /\ sink_ptr # NoClip => log[i].clip < sink_ptr
        /\ \A j \in 1 .. Len(m_outbox) : log[i].clip < m_outbox[j]
    /\ \A i, j \in 1 .. Len(log) : i < j => log[i].clip < log[j].clip
    /\ closed => m_outbox = <<>>
    /\ ~closed => made = Len(m_outbox) + Len(log) + (IF sink_ptr = NoClip THEN 0 ELSE 1)

\* A clip was written to a connection that had been accepted, later than those
\* written to before; the present one has none until the worker ends it; and
\* who did not get all of it has left.
LogInv ==
    /\ \A i \in 1 .. Len(log) :
        /\ log[i].to # NoFd => connection[log[i].to] \in {"accepted", "closed"}
        /\ m_write_fd # NoFd /\ worker \notin {"reset", "terminate"} => log[i].to < m_write_fd
        /\ log[i].whole \/ log[i].to = NoFd \/ application[log[i].to] = "gone"
    /\ \A i, j \in 1 .. Len(log) : i < j /\ log[j].to # NoFd => log[i].to < log[j].to

DeliveryInv ==
    TypesInv /\ PipeInv /\ OwnerInv /\ ConnectionInv /\ QueueInv /\ ClipsInv /\ LogInv

-----------------------------------------------------------------------------
(* What the steps do to the connections, the outbox and the log *)

\* The connection that has waited longest exists.
LEMMA FirstQueued ==
    ASSUME Queued # {}
    PROVE  LET first == CHOOSE k \in Queued : \A j \in Queued : k <= j
           IN  first \in Queued /\ \A j \in Queued : first <= j
<1>1. Queued \subseteq Nat
  BY MaxConnectionsNatural DEF Queued, Connections
<1>. QED BY <1>1, LeastNumber

\* The connection in use is closed: no other changes, and none is left.
LEMMA InUseTrashed ==
    ASSUME TypesInv, ConnectionInv, QueueInv
    PROVE  /\ Trashed \in [Connections -> {"none", "queued", "accepted", "closed"}]
           /\ Remaining = 0
           /\ \A k \in Connections :
               /\ Trashed[k] # "accepted"
               /\ Trashed[k] # connection[k] => connection[k] = "accepted" /\ Trashed[k] = "closed"
               /\ k = m_write_fd => Trashed[k] = "closed"
BY MaxConnectionsNatural
DEF TypesInv, TypeOK, AdaptorTypeOK, ConnectionInv, QueueInv, Trashed, Remaining, Connections, NoFd

LEMMA ConnectionClosed ==
    ASSUME TypesInv, ConnectionInv, QueueInv,
           IF m_write_fd > 0 THEN CloseWriteFd ELSE UNCHANGED socketVars
    PROVE  connection' = Trashed /\ m_write_fd' = NoFd /\ m_num_connections' = 0
<1> USE MaxConnectionsNatural DEF Connections, NoFd
<1>1. CASE m_write_fd > 0
  <2>1. CloseWriteFd
    BY <1>1
  <2>2. m_write_fd' = NoFd /\ m_num_connections' = 0
    BY <1>1, <2>1 DEF ConnectionInv, CloseWriteFd
  <2>3. connection' = Trashed
    BY <2>1 DEF TypesInv, TypeOK, AdaptorTypeOK, Trashed, CloseWriteFd
  <2>. QED BY <2>2, <2>3
<1>2. CASE ~(m_write_fd > 0)
  <2>1. UNCHANGED socketVars /\ m_write_fd = NoFd
    BY <1>2 DEF TypesInv, TypeOK, AdaptorTypeOK
  <2>. QED BY <2>1 DEF TypesInv, TypeOK, AdaptorTypeOK, ConnectionInv, Trashed, socketVars
<1>. QED BY <1>1, <1>2

\* What is in the log.
LEMMA LogEntries ==
    ASSUME TypesInv
    PROVE  /\ Len(log) \in Nat
           /\ \A i \in 1 .. Len(log) :
               /\ log[i].clip \in Nat
               /\ log[i].to \in {NoFd} \cup Connections
               /\ log[i].whole \in BOOLEAN
<1>1. Len(log) \in Nat /\ \A i \in 1 .. Len(log) : log[i] \in Deliveries
  BY DEF TypesInv
<1>2. \A entry \in Deliveries : /\ entry.clip \in Nat /\ entry.to \in {NoFd} \cup Connections
                                 /\ entry.whole \in BOOLEAN
  BY DEF Deliveries
<1>. QED BY <1>1, <1>2

LEMMA OneMoreWritten ==
    ASSUME TypesInv, NEW whole \in BOOLEAN, Written(whole)
    PROVE  /\ log' \in Seq(Deliveries)
           /\ Len(log') = Len(log) + 1
           /\ \A i \in 1 .. Len(log) : log'[i] = log[i]
           /\ log'[Len(log')] = [clip |-> sink_ptr, to |-> m_write_fd, whole |-> whole]
<1> DEFINE entry == [clip |-> sink_ptr, to |-> m_write_fd, whole |-> whole]
<1>1. entry \in Deliveries
  BY DEF TypesInv, TypeOK, AdaptorTypeOK, Deliveries, NoClip
<1>2. log \in Seq(Deliveries) /\ log' = Append(log, entry)
  BY DEF TypesInv, Written
<1> HIDE DEF entry
<1>3. log' \in Seq(Deliveries) /\ Len(log') = Len(log) + 1 /\ log'[Len(log')] = entry
      /\ \A i \in 1 .. Len(log) : log'[i] = log[i]
  BY <1>1, <1>2
<1>. QED BY <1>3 DEF entry

\* A clip that was written is the newest in the log, and the first its
\* connection gets.
LEMMA ClipWritten ==
    ASSUME TypesInv, ClipsInv, QueueInv, LogInv,
           NEW whole \in BOOLEAN, Written(whole),
           worker = "write", worker' \in {"terminate", "reset"},
           UNCHANGED <<m_write_fd, application>>,
           \A k \in Connections : connection[k] \in {"accepted", "closed"}
                                    => connection'[k] \in {"accepted", "closed"},
           whole \/ m_write_fd = NoFd \/ application[m_write_fd] = "gone"
    PROVE  ClipsInv' /\ LogInv'
<1>1. /\ log' \in Seq(Deliveries) /\ Len(log') = Len(log) + 1
      /\ \A i \in 1 .. Len(log) : log'[i] = log[i]
      /\ log'[Len(log')] = [clip |-> sink_ptr, to |-> m_write_fd, whole |-> whole]
  BY OneMoreWritten
<1>2. UNCHANGED <<m_outbox, made, closed>> /\ sink_ptr' = NoClip
  BY DEF Written, clipVars
<1>3. sink_ptr # NoClip /\ sink_ptr \in 0 .. made /\ made \in Nat
      /\ m_outbox \in Seq(Nat) /\ m_write_fd \in {NoFd} \cup Connections
  BY DEF ClipsInv, TypesInv, TypeOK, AdaptorTypeOK
<1>4. /\ Len(log) \in Nat
      /\ \A i \in 1 .. Len(log) : /\ log[i].clip \in Nat
                                  /\ log[i].to \in {NoFd} \cup Connections
  BY LogEntries
<1>e. /\ log'[Len(log')].clip = sink_ptr
      /\ log'[Len(log')].to = m_write_fd
      /\ log'[Len(log')].whole = whole
  BY <1>1
<1>n. Len(log) \in Nat /\ \A i \in 1 .. Len(log') : i \in 1 .. Len(log) \/ i = Len(log')
  BY <1>1, <1>4
<1>5. ClipsInv'
  <2>1. \A i \in 1 .. Len(log') :
           /\ log'[i].clip <= made
           /\ \A j \in 1 .. Len(m_outbox) : log'[i].clip < m_outbox[j]
    BY <1>1, <1>e, <1>n, <1>3 DEF ClipsInv
  <2>2. \A i, j \in 1 .. Len(log') : i < j => log'[i].clip < log'[j].clip
    BY <1>1, <1>e, <1>n, <1>3 DEF ClipsInv
  <2>3. \A i \in 1 .. Len(m_outbox) : m_outbox[i] \in 1 .. made /\ m_outbox[i] > 0
    BY <1>3 DEF ClipsInv
  <2>4. ~closed => made = Len(m_outbox) + Len(log')
    BY <1>1, <1>3 DEF ClipsInv
  <2>. QED BY <1>2, <2>1, <2>2, <2>3, <2>4 DEF ClipsInv, NoClip
<1>6. /\ \A i \in 1 .. Len(log) : log[i].to < m_write_fd \/ m_write_fd = NoFd
      /\ m_write_fd # NoFd => connection'[m_write_fd] \in {"accepted", "closed"}
  BY <1>3 DEF LogInv, QueueInv
<1>7. LogInv'
  <2>1. ASSUME NEW i \in 1 .. Len(log')
        PROVE  /\ log'[i].to # NoFd => connection'[log'[i].to] \in {"accepted", "closed"}
               /\ log'[i].whole \/ log'[i].to = NoFd \/ application[log'[i].to] = "gone"
    <3>1. CASE i \in 1 .. Len(log)
      BY <1>1, <1>4, <3>1 DEF LogInv
    <3>2. CASE i = Len(log')
      BY <1>e, <1>6, <3>2
    <3>. QED BY <1>n, <3>1, <3>2
  <2>2. ASSUME NEW i \in 1 .. Len(log'), NEW j \in 1 .. Len(log'), i < j, log'[j].to # NoFd
        PROVE  log'[i].to < log'[j].to
    <3>1. i \in 1 .. Len(log) /\ log'[i] = log[i]
      BY <1>1, <1>n, <2>2
    <3>2. CASE j \in 1 .. Len(log)
      BY <1>1, <2>2, <3>1, <3>2 DEF LogInv
    <3>3. CASE j = Len(log')
      BY <1>e, <1>6, <2>2, <3>1, <3>3
    <3>. QED BY <1>n, <3>2, <3>3
  <2>. QED BY <2>1, <2>2 DEF LogInv
<1>. QED BY <1>5, <1>7

-----------------------------------------------------------------------------
(* Every step keeps the invariant *)

LEMMA DeliveryInvInit == Init => DeliveryInv
<1> SUFFICES ASSUME Init PROVE DeliveryInv
  OBVIOUS
<1> USE MaxConnectionsNatural DEF Init, AdaptorInit, ClipInit, NoFd, NoClip, Connections
<1>0. m_path \in BOOLEAN /\ m_callback \in BOOLEAN /\ m_callback_data \in BOOLEAN
      /\ listen_ready \in BOOLEAN /\ closed \in BOOLEAN /\ pipe_made \in BOOLEAN
  BY Zenon
<1>1. TypesInv
  BY <1>0 DEF TypesInv, TypeOK, AdaptorTypeOK, PipeInv, ConnectionInv, OwnerInv
<1>2. PipeInv
  BY <1>0 DEF PipeInv, TypesInv, TypeOK, AdaptorTypeOK
<1>3. OwnerInv
  BY <1>0 DEF OwnerInv, TypesInv, TypeOK, AdaptorTypeOK
<1>4. ConnectionInv
  BY <1>0 DEF ConnectionInv, OwnerInv, TypesInv, TypeOK, AdaptorTypeOK
<1>5. QueueInv
  BY <1>0 DEF QueueInv, ConnectionInv, OwnerInv, TypesInv, TypeOK, AdaptorTypeOK, Queued
<1>6. ClipsInv
  BY <1>0 DEF ClipsInv, OwnerInv, TypesInv, TypeOK
<1>7. LogInv
  BY <1>0 DEF LogInv, OwnerInv, ConnectionInv, QueueInv, ClipsInv, TypesInv, TypeOK,
     AdaptorTypeOK, Queued
<1>. QED BY <1>1, <1>2, <1>3, <1>4, <1>5, <1>6, <1>7 DEF DeliveryInv

LEMMA DeliveryInvNext == DeliveryInv /\ [Next]_vars => DeliveryInv'
<1> SUFFICES ASSUME DeliveryInv, [Next]_vars PROVE DeliveryInv'
  OBVIOUS
<1> USE MaxConnectionsNatural DEF DeliveryInv, NoFd, NoClip, Connections, socketVars,
        callbackVars, pipeVars, workerVars, adaptorVars, clipVars, deliveryVars
<1>1. CASE (\E k \in Connections : Connect(k)) /\ UNCHANGED <<clipVars, deliveryVars>>
  <2> USE <1>1 DEF Connect
  <2>1. TypesInv'
    BY DEF TypesInv, TypeOK, AdaptorTypeOK, PipeInv, ConnectionInv, OwnerInv
  <2>2. PipeInv'
    BY DEF PipeInv, TypesInv, TypeOK, AdaptorTypeOK
  <2>3. OwnerInv'
    BY DEF OwnerInv, TypesInv, TypeOK, AdaptorTypeOK
  <2>4. ConnectionInv'
    BY DEF ConnectionInv, OwnerInv, TypesInv, TypeOK, AdaptorTypeOK
  <2>5. QueueInv'
    BY DEF QueueInv, ConnectionInv, OwnerInv, TypesInv, TypeOK, AdaptorTypeOK, Queued
  <2>6. ClipsInv'
    BY DEF ClipsInv, OwnerInv, TypesInv, TypeOK
  <2>7. LogInv'
    <3>1. UNCHANGED <<log, m_write_fd, worker>>
      OBVIOUS
    <3>2. ASSUME NEW i \in 1 .. Len(log), log[i].to # NoFd
          PROVE  /\ connection[log[i].to] \in {"accepted", "closed"}
                 /\ connection'[log[i].to] = connection[log[i].to]
                 /\ application'[log[i].to] = application[log[i].to]
      BY <3>2 DEF LogInv, TypesInv, TypeOK, AdaptorTypeOK
    <3>. QED BY <3>1, <3>2 DEF LogInv
  <2>. QED BY <2>1, <2>2, <2>3, <2>4, <2>5, <2>6, <2>7
<1>2. CASE /\ \E k \in Connections : Stall(k) \/ ReadOn(k) \/ Leave(k)
           /\ UNCHANGED <<clipVars, deliveryVars>>
  <2> USE <1>2 DEF Stall, ReadOn, Leave, ApplicationDoes
  <2>1. TypesInv'
    <3>1. application' \in [Connections -> {"none", "reading", "stalled", "gone"}]
      BY DEF TypesInv, TypeOK, AdaptorTypeOK
    <3>2. UNCHANGED <<m_path, socketVars, callbackVars, pipeVars, workerVars, owner>>
      OBVIOUS
    <3>. QED BY <3>1, <3>2 DEF TypesInv, TypeOK, AdaptorTypeOK
  <2>2. PipeInv'
    BY DEF PipeInv, TypesInv, TypeOK, AdaptorTypeOK
  <2>3. OwnerInv'
    BY DEF OwnerInv, TypesInv, TypeOK, AdaptorTypeOK
  <2>4. ConnectionInv'
    BY DEF ConnectionInv, OwnerInv, TypesInv, TypeOK, AdaptorTypeOK
  <2>5. QueueInv'
    BY DEF QueueInv, ConnectionInv, OwnerInv, TypesInv, TypeOK, AdaptorTypeOK, Queued
  <2>6. ClipsInv'
    BY DEF ClipsInv, OwnerInv, TypesInv, TypeOK
  <2>7. LogInv'
    <3>1. \A k \in Connections : application[k] = "gone" => application'[k] = "gone"
      BY DEF TypesInv, TypeOK, AdaptorTypeOK
    <3>. QED BY <3>1, LogEntries DEF LogInv
  <2>. QED BY <2>1, <2>2, <2>3, <2>4, <2>5, <2>6, <2>7
<1>3. CASE StartListening /\ UNCHANGED <<clipVars, deliveryVars>>
  <2> USE <1>3 DEF StartListening, OwnerGoes
  <2>1. TypesInv'
    <3>1. AdaptorTypeOK'
      BY DEF TypesInv, TypeOK, AdaptorTypeOK, PipeInv
    <3>. QED BY <3>1 DEF TypesInv, TypeOK
  <2>2. PipeInv'
    BY DEF PipeInv, TypesInv, TypeOK, AdaptorTypeOK
  <2>3. OwnerInv'
    BY DEF OwnerInv, TypesInv, TypeOK, AdaptorTypeOK
  <2>4. ConnectionInv'
    BY DEF ConnectionInv, OwnerInv, TypesInv, TypeOK, AdaptorTypeOK
  <2>5. QueueInv'
    BY DEF QueueInv, ConnectionInv, OwnerInv, TypesInv, TypeOK, AdaptorTypeOK, Queued
  <2>6. ClipsInv'
    BY DEF ClipsInv, OwnerInv, TypesInv, TypeOK
  <2>7. LogInv'
    BY DEF LogInv, OwnerInv
  <2>. QED BY <2>1, <2>2, <2>3, <2>4, <2>5, <2>6, <2>7
<1>4. CASE (RegisterCallback \/ RegisterData) /\ UNCHANGED <<clipVars, deliveryVars>>
  <2> USE <1>4 DEF RegisterCallback, RegisterData, OwnerGoes
  <2>1. TypesInv'
    BY DEF TypesInv, TypeOK, AdaptorTypeOK, PipeInv, ConnectionInv, OwnerInv
  <2>2. PipeInv'
    BY DEF PipeInv, TypesInv, TypeOK, AdaptorTypeOK
  <2>3. OwnerInv'
    BY DEF OwnerInv, TypesInv, TypeOK, AdaptorTypeOK
  <2>4. ConnectionInv'
    BY DEF ConnectionInv, OwnerInv, TypesInv, TypeOK, AdaptorTypeOK
  <2>5. QueueInv'
    BY DEF QueueInv, ConnectionInv, OwnerInv, TypesInv, TypeOK, AdaptorTypeOK, Queued
  <2>6. ClipsInv'
    BY DEF ClipsInv, OwnerInv, TypesInv, TypeOK
  <2>7. LogInv'
    BY DEF LogInv
  <2>. QED BY <2>1, <2>2, <2>3, <2>4, <2>5, <2>6, <2>7
<1>5. CASE NotifyWorker /\ UNCHANGED <<clipVars, deliveryVars>>
  <2> USE <1>5 DEF NotifyWorker, OwnerGoes
  <2>1. TypesInv'
    <3>0. control_pipe \in Seq({"NEW_CALLBACK", "EXIT"}) /\ Len(control_pipe) <= 1
      BY DEF TypesInv, TypeOK, AdaptorTypeOK, PipeInv
    <3>1. control_pipe' \in Seq({"NEW_CALLBACK", "EXIT"}) /\ Len(control_pipe') <= 2
      BY <3>0
    <3>2. AdaptorTypeOK'
      BY <3>1 DEF TypesInv, TypeOK, AdaptorTypeOK
    <3>. QED BY <3>2 DEF TypesInv, TypeOK
  <2>2. PipeInv'
    BY DEF PipeInv, TypesInv, TypeOK, AdaptorTypeOK
  <2>3. OwnerInv'
    BY DEF OwnerInv, TypesInv, TypeOK, AdaptorTypeOK
  <2>4. ConnectionInv'
    BY DEF ConnectionInv, OwnerInv, TypesInv, TypeOK, AdaptorTypeOK
  <2>5. QueueInv'
    BY DEF QueueInv, ConnectionInv, OwnerInv, TypesInv, TypeOK, AdaptorTypeOK, Queued
  <2>6. ClipsInv'
    BY DEF ClipsInv, OwnerInv, TypesInv, TypeOK
  <2>7. LogInv'
    BY DEF LogInv
  <2>. QED BY <2>1, <2>2, <2>3, <2>4, <2>5, <2>6, <2>7
<1>6. CASE StopListening /\ UNCHANGED <<clipVars, deliveryVars>>
  <2> USE <1>6 DEF StopListening, OwnerGoes
  <2>1. TypesInv'
    <3>0. control_pipe \in Seq({"NEW_CALLBACK", "EXIT"}) /\ Len(control_pipe) <= 1
      BY DEF TypesInv, TypeOK, AdaptorTypeOK, PipeInv
    <3>1. control_pipe' \in Seq({"NEW_CALLBACK", "EXIT"}) /\ Len(control_pipe') <= 2
      BY <3>0
    <3>2. AdaptorTypeOK'
      BY <3>1 DEF TypesInv, TypeOK, AdaptorTypeOK
    <3>. QED BY <3>2 DEF TypesInv, TypeOK
  <2>2. PipeInv'
    BY DEF PipeInv, TypesInv, TypeOK, AdaptorTypeOK
  <2>3. OwnerInv'
    BY DEF OwnerInv, TypesInv, TypeOK, AdaptorTypeOK
  <2>4. ConnectionInv'
    BY DEF ConnectionInv, OwnerInv, TypesInv, TypeOK, AdaptorTypeOK
  <2>5. QueueInv'
    BY DEF QueueInv, ConnectionInv, OwnerInv, TypesInv, TypeOK, AdaptorTypeOK, Queued
  <2>6. ClipsInv'
    BY DEF ClipsInv, OwnerInv, TypesInv, TypeOK
  <2>7. LogInv'
    BY DEF LogInv
  <2>. QED BY <2>1, <2>2, <2>3, <2>4, <2>5, <2>6, <2>7
<1>7. CASE Join /\ UNCHANGED <<clipVars, deliveryVars>>
  <2> USE <1>7 DEF Join, WorkerJoined, OwnerGoes
  <2>1. TypesInv'
    BY DEF TypesInv, TypeOK, AdaptorTypeOK, PipeInv, ConnectionInv, OwnerInv
  <2>2. PipeInv'
    BY DEF PipeInv, TypesInv, TypeOK, AdaptorTypeOK
  <2>3. OwnerInv'
    BY DEF OwnerInv, TypesInv, TypeOK, AdaptorTypeOK
  <2>4. ConnectionInv'
    BY DEF ConnectionInv, OwnerInv, TypesInv, TypeOK, AdaptorTypeOK
  <2>5. QueueInv'
    BY DEF QueueInv, ConnectionInv, OwnerInv, TypesInv, TypeOK, AdaptorTypeOK, Queued
  <2>6. ClipsInv'
    BY DEF ClipsInv, OwnerInv, TypesInv, TypeOK
  <2>7. LogInv'
    BY DEF LogInv
  <2>. QED BY <2>1, <2>2, <2>3, <2>4, <2>5, <2>6, <2>7
<1>8. CASE /\ RemovePath("remove", "removed") \/ StopUntold
           /\ UNCHANGED <<clipVars, deliveryVars>>
  <2> USE <1>8 DEF RemovePath, StopUntold, OwnerGoes
  <2>0. connection' = Trashed /\ m_write_fd' = NoFd /\ m_num_connections' = 0
    BY ConnectionClosed
  <2>1. TypesInv'
    <3>1. m_path' \in BOOLEAN
      BY Zenon
    <3>. QED BY <2>0, <3>1, InUseTrashed DEF TypesInv, TypeOK, AdaptorTypeOK
  <2>2. PipeInv'
    BY DEF PipeInv, TypesInv, TypeOK, AdaptorTypeOK
  <2>3. OwnerInv'
    BY <2>0 DEF OwnerInv
  <2>4. ConnectionInv'
    BY <2>0, InUseTrashed, MaxConnectionsNatural DEF ConnectionInv
  <2>5. QueueInv'
    BY <2>0, InUseTrashed DEF QueueInv, OwnerInv, Queued
  <2>6. ClipsInv'
    BY DEF ClipsInv, OwnerInv, TypesInv, TypeOK
  <2>7. LogInv'
    BY <2>0, InUseTrashed, LogEntries DEF LogInv, OwnerInv, ClipsInv
  <2>. QED BY <2>1, <2>2, <2>3, <2>4, <2>5, <2>6, <2>7
<1>9. CASE Select /\ UNCHANGED <<clipVars, deliveryVars>>
  <2> USE <1>9 DEF Select, WorkerGoes
  <2>1. TypesInv'
    BY DEF TypesInv, TypeOK, AdaptorTypeOK, PipeInv, ConnectionInv, OwnerInv
  <2>2. PipeInv'
    BY DEF PipeInv, TypesInv, TypeOK, AdaptorTypeOK
  <2>3. OwnerInv'
    BY DEF OwnerInv, TypesInv, TypeOK, AdaptorTypeOK
  <2>4. ConnectionInv'
    BY DEF ConnectionInv, OwnerInv, TypesInv, TypeOK, AdaptorTypeOK
  <2>5. QueueInv'
    BY DEF QueueInv, ConnectionInv, OwnerInv, TypesInv, TypeOK, AdaptorTypeOK, Queued
  <2>6. ClipsInv'
    BY DEF ClipsInv, OwnerInv, TypesInv, TypeOK
  <2>7. LogInv'
    BY DEF LogInv
  <2>. QED BY <2>1, <2>2, <2>3, <2>4, <2>5, <2>6, <2>7
<1>10. CASE SelectFails /\ UNCHANGED <<clipVars, deliveryVars>>
  <2> USE <1>10 DEF SelectFails, WorkerGoes
  <2>1. TypesInv'
    BY DEF TypesInv, TypeOK, AdaptorTypeOK, PipeInv, ConnectionInv, OwnerInv
  <2>2. PipeInv'
    BY DEF PipeInv, TypesInv, TypeOK, AdaptorTypeOK
  <2>3. OwnerInv'
    BY DEF OwnerInv, TypesInv, TypeOK, AdaptorTypeOK
  <2>4. ConnectionInv'
    BY DEF ConnectionInv, OwnerInv, TypesInv, TypeOK, AdaptorTypeOK
  <2>5. QueueInv'
    BY DEF QueueInv, ConnectionInv, OwnerInv, TypesInv, TypeOK, AdaptorTypeOK, Queued
  <2>6. ClipsInv'
    BY DEF ClipsInv, OwnerInv, TypesInv, TypeOK
  <2>7. LogInv'
    BY DEF LogInv
  <2>. QED BY <2>1, <2>2, <2>3, <2>4, <2>5, <2>6, <2>7
<1>11. CASE ProcessControlMessage /\ UNCHANGED <<clipVars, deliveryVars>>
  <2> USE <1>11 DEF ProcessControlMessage, ListenNext, WorkerGoes
  <2>1. TypesInv'
    BY DEF TypesInv, TypeOK, AdaptorTypeOK, PipeInv, ConnectionInv, OwnerInv
  <2>2. PipeInv'
    BY DEF PipeInv, TypesInv, TypeOK, AdaptorTypeOK
  <2>3. OwnerInv'
    BY DEF OwnerInv, TypesInv, TypeOK, AdaptorTypeOK
  <2>4. ConnectionInv'
    BY DEF ConnectionInv, OwnerInv, TypesInv, TypeOK, AdaptorTypeOK
  <2>5. QueueInv'
    BY DEF QueueInv, ConnectionInv, OwnerInv, TypesInv, TypeOK, AdaptorTypeOK, Queued
  <2>6. ClipsInv'
    BY DEF ClipsInv, OwnerInv, TypesInv, TypeOK
  <2>7. LogInv'
    BY DEF LogInv
  <2>. QED BY <2>1, <2>2, <2>3, <2>4, <2>5, <2>6, <2>7
<1>12. CASE CallDataReady /\ UNCHANGED <<clipVars, deliveryVars>>
  <2> USE <1>12 DEF CallDataReady, WorkerGoes
  <2>1. TypesInv'
    BY DEF TypesInv, TypeOK, AdaptorTypeOK, PipeInv, ConnectionInv, OwnerInv
  <2>2. PipeInv'
    BY DEF PipeInv, TypesInv, TypeOK, AdaptorTypeOK
  <2>3. OwnerInv'
    BY DEF OwnerInv, TypesInv, TypeOK, AdaptorTypeOK
  <2>4. ConnectionInv'
    BY DEF ConnectionInv, OwnerInv, TypesInv, TypeOK, AdaptorTypeOK
  <2>5. QueueInv'
    BY DEF QueueInv, ConnectionInv, OwnerInv, TypesInv, TypeOK, AdaptorTypeOK, Queued
  <2>6. ClipsInv'
    BY DEF ClipsInv, OwnerInv, TypesInv, TypeOK
  <2>7. LogInv'
    BY DEF LogInv
  <2>. QED BY <2>1, <2>2, <2>3, <2>4, <2>5, <2>6, <2>7
<1>13. CASE Accept /\ UNCHANGED <<clipVars, deliveryVars>>
  <2> USE <1>13 DEF Accept, WorkerGoes
  <2> DEFINE first == CHOOSE k \in Queued : \A j \in Queued : k <= j
  <2>0. first \in Queued /\ \A j \in Queued : first <= j
    BY FirstQueued DEF QueueInv
  <2>a. /\ m_write_fd' = first /\ m_num_connections' = 1
        /\ listen_ready' = FALSE /\ worker' = "ready"
        /\ first \in Connections /\ connection[first] = "queued" /\ worker = "accept"
        /\ connection' \in [Connections -> {"none", "queued", "accepted", "closed"}]
        /\ \A k \in Connections : connection'[k] = IF k = first THEN "accepted" ELSE Trashed[k]
    BY <2>0, InUseTrashed DEF Queued
  <2> HIDE DEF first
  <2>1. TypesInv'
    <3>1. listen_ready' \in BOOLEAN
      BY <2>a, Zenon
    <3>. QED BY <2>a, <3>1 DEF TypesInv, TypeOK, AdaptorTypeOK
  <2>2. PipeInv'
    BY DEF PipeInv, TypesInv, TypeOK, AdaptorTypeOK
  <2>3. OwnerInv'
    BY <2>a DEF OwnerInv
  <2>4. ConnectionInv'
    <3>1. first # NoFd
      BY <2>a
    <3>2. \A k \in Connections : connection'[k] = "accepted" <=> k = first
      BY <2>a, InUseTrashed
    <3>3. worker' # "reset"
      BY <2>a
    <3> HIDE DEF Connections, NoFd
    <3>. QED BY <2>a, <3>1, <3>2, <3>3 DEF ConnectionInv
  <2>5. QueueInv'
    <3>1. \A j \in Connections : connection[j] = "queued" => first <= j
      BY <2>0 DEF Queued
    <3>. QED BY <2>a, <3>1, InUseTrashed DEF QueueInv
  <2>6. ClipsInv'
    BY DEF ClipsInv, OwnerInv, TypesInv, TypeOK
  <2>7. LogInv'
    <3>1. \A i \in 1 .. Len(log) : log[i].to < first
      BY <2>a, LogEntries DEF LogInv, QueueInv
    <3>2. application' = application /\ log' = log
      BY DEF Accept, WorkerGoes
    <3>3. ASSUME NEW i \in 1 .. Len(log), log[i].to # NoFd
          PROVE  connection'[log[i].to] \in {"accepted", "closed"}
      <4>1. log[i].to \in Connections /\ connection[log[i].to] \in {"accepted", "closed"}
        BY <3>3, LogEntries DEF LogInv
      <4>2. Trashed[log[i].to] \in {"accepted", "closed"}
        BY <4>1, InUseTrashed
      <4>. QED BY <2>a, <4>1, <4>2
    <3>4. /\ \A i \in 1 .. Len(log) :
                log[i].whole \/ log[i].to = NoFd \/ application[log[i].to] = "gone"
          /\ \A i, j \in 1 .. Len(log) : i < j /\ log[j].to # NoFd => log[i].to < log[j].to
      BY DEF LogInv
    <3>5. m_write_fd' = first
      BY <2>a
    <3> HIDE <1>13 DEF NoFd, DeliveryInv, Accept, WorkerGoes
    <3>. QED BY <3>1, <3>2, <3>3, <3>4, <3>5 DEF LogInv
  <2>. QED BY <2>1, <2>2, <2>3, <2>4, <2>5, <2>6, <2>7
<1>14. CASE AcceptFails /\ UNCHANGED <<clipVars, deliveryVars>>
  <2> USE <1>14 DEF AcceptFails, WorkerGoes
  <2>0. connection' = Trashed /\ m_write_fd' = NoFd /\ m_num_connections' = 0
    BY InUseTrashed
  <2>1. TypesInv'
    <3>1. listen_ready' \in BOOLEAN
      BY Zenon
    <3>. QED BY <2>0, <3>1, InUseTrashed DEF TypesInv, TypeOK, AdaptorTypeOK
  <2>2. PipeInv'
    BY DEF PipeInv, TypesInv, TypeOK, AdaptorTypeOK
  <2>3. OwnerInv'
    BY <2>0 DEF OwnerInv
  <2>4. ConnectionInv'
    BY <2>0, InUseTrashed, MaxConnectionsNatural DEF ConnectionInv
  <2>5. QueueInv'
    BY <2>0, InUseTrashed DEF QueueInv, OwnerInv, Queued
  <2>6. ClipsInv'
    BY DEF ClipsInv, OwnerInv, TypesInv, TypeOK
  <2>7. LogInv'
    BY <2>0, InUseTrashed, LogEntries DEF LogInv, OwnerInv, ClipsInv
  <2>. QED BY <2>1, <2>2, <2>3, <2>4, <2>5, <2>6, <2>7
<1>15. CASE CutClip
  <2> USE <1>15 DEF CutClip, MakeClip
  <2>0. /\ m_outbox \in Seq(Nat) /\ m_outbox' \in Seq(Nat) /\ Len(m_outbox') = Len(m_outbox) + 1
        /\ \A i \in 1 .. Len(m_outbox') :
              m_outbox'[i] = IF i = Len(m_outbox') THEN made' ELSE m_outbox[i]
        /\ made' = made + 1 /\ made \in Nat
    BY DEF TypesInv
  <2>1. TypesInv'
    <3>1. AdaptorTypeOK'
      BY DEF TypesInv, TypeOK, AdaptorTypeOK
    <3>. QED BY <2>0, <3>1 DEF TypesInv, TypeOK
  <2>2. PipeInv'
    BY DEF PipeInv, TypesInv, TypeOK, AdaptorTypeOK
  <2>3. OwnerInv'
    BY DEF OwnerInv, TypesInv, TypeOK, AdaptorTypeOK
  <2>4. ConnectionInv'
    BY DEF ConnectionInv, OwnerInv, TypesInv, TypeOK, AdaptorTypeOK
  <2>5. QueueInv'
    BY DEF QueueInv, ConnectionInv, OwnerInv, TypesInv, TypeOK, AdaptorTypeOK, Queued
  <2>6. ClipsInv'
    <3>1. /\ \A i \in 1 .. Len(m_outbox') : m_outbox'[i] \in 1 .. made' /\ m_outbox'[i] > sink_ptr
          /\ \A i, j \in 1 .. Len(m_outbox') : i < j => m_outbox'[i] < m_outbox'[j]
      <4>1. \A i \in 1 .. Len(m_outbox') : m_outbox'[i] \in 1 .. made' /\ m_outbox'[i] > sink_ptr
        <5>1. sink_ptr < made' /\ made' \in 1 .. made'
          BY <2>0 DEF ClipsInv, TypesInv, TypeOK
        <5>2. ASSUME NEW i \in 1 .. Len(m_outbox'), i # Len(m_outbox')
              PROVE  m_outbox'[i] \in 1 .. made' /\ m_outbox'[i] > sink_ptr
          <6>1. i \in 1 .. Len(m_outbox) /\ m_outbox'[i] = m_outbox[i]
            BY <2>0, <5>2
          <6>. QED BY <2>0, <6>1 DEF ClipsInv
        <5>. QED BY <2>0, <5>1, <5>2
      <4>2. ASSUME NEW i \in 1 .. Len(m_outbox'), NEW j \in 1 .. Len(m_outbox'), i < j
            PROVE  m_outbox'[i] < m_outbox'[j]
        <5>1. i \in 1 .. Len(m_outbox) /\ m_outbox'[i] = m_outbox[i] /\ m_outbox[i] \in 1 .. made
          BY <2>0, <4>2 DEF ClipsInv
        <5>2. CASE j = Len(m_outbox')
          BY <2>0, <5>1, <5>2
        <5>3. CASE j # Len(m_outbox')
          <6>1. j \in 1 .. Len(m_outbox) /\ m_outbox'[j] = m_outbox[j]
            BY <2>0, <5>3
          <6>. QED BY <4>2, <5>1, <6>1 DEF ClipsInv
        <5>. QED BY <5>2, <5>3
      <4>. QED BY <4>1, <4>2
    <3>2. \A i \in 1 .. Len(log) : /\ log[i].clip <= made'
                                   /\ \A j \in 1 .. Len(m_outbox') : log[i].clip < m_outbox'[j]
      BY <2>0, LogEntries DEF ClipsInv
    <3>3. made' = Len(m_outbox') + Len(log) + (IF sink_ptr = NoClip THEN 0 ELSE 1)
      BY <2>0 DEF ClipsInv
    <3>. QED BY <3>1, <3>2, <3>3 DEF ClipsInv
  <2>7. LogInv'
    BY DEF LogInv
  <2>. QED BY <2>1, <2>2, <2>3, <2>4, <2>5, <2>6, <2>7
<1>16. CASE DeleteAdaptor
  <2> USE <1>16 DEF DeleteAdaptor, OwnerGoes
  <2>1. TypesInv'
    BY DEF TypesInv, TypeOK, AdaptorTypeOK, PipeInv, ConnectionInv, OwnerInv
  <2>2. PipeInv'
    BY DEF PipeInv, TypesInv, TypeOK, AdaptorTypeOK
  <2>3. OwnerInv'
    BY DEF OwnerInv, TypesInv, TypeOK, AdaptorTypeOK
  <2>4. ConnectionInv'
    BY DEF ConnectionInv, OwnerInv, TypesInv, TypeOK, AdaptorTypeOK
  <2>5. QueueInv'
    BY DEF QueueInv, ConnectionInv, OwnerInv, TypesInv, TypeOK, AdaptorTypeOK, Queued
  <2>6. ClipsInv'
    BY DEF ClipsInv, OwnerInv, TypesInv, TypeOK
  <2>7. LogInv'
    BY DEF LogInv
  <2>. QED BY <2>1, <2>2, <2>3, <2>4, <2>5, <2>6, <2>7
<1>17. CASE FlushOutbox
  <2> USE <1>17 DEF FlushOutbox, OwnerGoes, CloseSource
  <2>1. TypesInv'
    BY DEF TypesInv, TypeOK, AdaptorTypeOK, PipeInv, ConnectionInv, OwnerInv
  <2>2. PipeInv'
    BY DEF PipeInv, TypesInv, TypeOK, AdaptorTypeOK
  <2>3. OwnerInv'
    BY DEF OwnerInv, TypesInv, TypeOK, AdaptorTypeOK
  <2>4. ConnectionInv'
    BY DEF ConnectionInv, OwnerInv, TypesInv, TypeOK, AdaptorTypeOK
  <2>5. QueueInv'
    BY DEF QueueInv, ConnectionInv, OwnerInv, TypesInv, TypeOK, AdaptorTypeOK, Queued
  <2>6. ClipsInv'
    BY DEF ClipsInv, OwnerInv, TypesInv, TypeOK
  <2>7. LogInv'
    BY DEF LogInv
  <2>. QED BY <2>1, <2>2, <2>3, <2>4, <2>5, <2>6, <2>7
<1>18. CASE NothingToSend
  <2> USE <1>18 DEF NothingToSend, WorkerGoes
  <2>1. TypesInv'
    BY DEF TypesInv, TypeOK, AdaptorTypeOK, PipeInv, ConnectionInv, OwnerInv
  <2>2. PipeInv'
    BY DEF PipeInv, TypesInv, TypeOK, AdaptorTypeOK
  <2>3. OwnerInv'
    BY DEF OwnerInv, TypesInv, TypeOK, AdaptorTypeOK
  <2>4. ConnectionInv'
    BY DEF ConnectionInv, OwnerInv, TypesInv, TypeOK, AdaptorTypeOK
  <2>5. QueueInv'
    BY DEF QueueInv, ConnectionInv, OwnerInv, TypesInv, TypeOK, AdaptorTypeOK, Queued
  <2>6. ClipsInv'
    BY DEF ClipsInv, OwnerInv, TypesInv, TypeOK
  <2>7. LogInv'
    BY DEF LogInv
  <2>. QED BY <2>1, <2>2, <2>3, <2>4, <2>5, <2>6, <2>7
<1>19. CASE TakeFirst
  <2> USE <1>19 DEF TakeFirst, TakeClip, WorkerGoes
  <2>0. /\ m_outbox \in Seq(Nat) /\ Len(m_outbox) > 0 /\ sink_ptr' = m_outbox[1]
        /\ m_outbox' \in Seq(Nat) /\ Len(m_outbox') = Len(m_outbox) - 1
        /\ \A i \in 1 .. Len(m_outbox') : m_outbox'[i] = m_outbox[i + 1]
    BY DEF TypesInv
  <2>a. sink_ptr' \in 1 .. made
    BY <2>0 DEF ClipsInv
  <2>1. TypesInv'
    BY <2>0, <2>a DEF TypesInv, TypeOK, AdaptorTypeOK
  <2>2. PipeInv'
    BY DEF PipeInv, TypesInv, TypeOK, AdaptorTypeOK
  <2>3. OwnerInv'
    BY DEF OwnerInv, TypesInv, TypeOK, AdaptorTypeOK
  <2>4. ConnectionInv'
    BY DEF ConnectionInv, OwnerInv, TypesInv, TypeOK, AdaptorTypeOK
  <2>5. QueueInv'
    BY DEF QueueInv, ConnectionInv, OwnerInv, TypesInv, TypeOK, AdaptorTypeOK, Queued
  <2>6. ClipsInv'
    <3>1. /\ \A i \in 1 .. Len(m_outbox') : m_outbox'[i] \in 1 .. made /\ m_outbox'[i] > sink_ptr'
          /\ \A i, j \in 1 .. Len(m_outbox') : i < j => m_outbox'[i] < m_outbox'[j]
      BY <2>0 DEF ClipsInv
    <3>2. \A i \in 1 .. Len(log) : /\ log[i].clip <= made /\ log[i].clip < sink_ptr'
                                   /\ \A j \in 1 .. Len(m_outbox') : log[i].clip < m_outbox'[j]
      BY <2>0 DEF ClipsInv
    <3>3. ~closed => made = Len(m_outbox') + Len(log) + 1
      BY <2>0 DEF ClipsInv
    <3>4. closed => m_outbox' = <<>>
      BY <2>0 DEF ClipsInv
    <3>5. sink_ptr' # NoClip /\ worker' = "write"
      BY <2>a
    <3>. QED BY <3>1, <3>2, <3>3, <3>4, <3>5 DEF ClipsInv
  <2>7. LogInv'
    BY DEF LogInv
  <2>. QED BY <2>1, <2>2, <2>3, <2>4, <2>5, <2>6, <2>7
<1>20. CASE WriteWhole("write", "terminate") /\ Written(TRUE)
  <2> USE <1>20 DEF WriteWhole, Written, WorkerGoes
  <2>0. /\ log' \in Seq(Deliveries) /\ Len(log') = Len(log) + 1
        /\ \A i \in 1 .. Len(log) : log'[i] = log[i]
        /\ log'[Len(log')] = [clip |-> sink_ptr, to |-> m_write_fd, whole |-> TRUE]
    BY OneMoreWritten
  <2>1. TypesInv'
    <3>1. AdaptorTypeOK'
      BY DEF TypesInv, TypeOK, AdaptorTypeOK
    <3>. QED BY <2>0, <3>1 DEF TypesInv, TypeOK
  <2>2. PipeInv'
    BY DEF PipeInv, TypesInv, TypeOK, AdaptorTypeOK
  <2>3. OwnerInv'
    BY DEF OwnerInv, TypesInv, TypeOK, AdaptorTypeOK
  <2>4. ConnectionInv'
    BY DEF ConnectionInv, OwnerInv, TypesInv, TypeOK, AdaptorTypeOK
  <2>5. QueueInv'
    BY DEF QueueInv, ConnectionInv, OwnerInv, TypesInv, TypeOK, AdaptorTypeOK, Queued
  <2>6. ClipsInv' /\ LogInv'
    BY ClipWritten
  <2>. QED BY <2>1, <2>2, <2>3, <2>4, <2>5, <2>6
<1>21. CASE WritePart("write", "terminate") /\ Written(FALSE)
  <2> USE <1>21 DEF WritePart, Written, WorkerGoes
  <2>0. /\ log' \in Seq(Deliveries) /\ Len(log') = Len(log) + 1
        /\ \A i \in 1 .. Len(log) : log'[i] = log[i]
        /\ log'[Len(log')] = [clip |-> sink_ptr, to |-> m_write_fd, whole |-> FALSE]
    BY OneMoreWritten
  <2>1. TypesInv'
    <3>1. AdaptorTypeOK'
      BY DEF TypesInv, TypeOK, AdaptorTypeOK
    <3>. QED BY <2>0, <3>1 DEF TypesInv, TypeOK
  <2>2. PipeInv'
    BY DEF PipeInv, TypesInv, TypeOK, AdaptorTypeOK
  <2>3. OwnerInv'
    BY DEF OwnerInv, TypesInv, TypeOK, AdaptorTypeOK
  <2>4. ConnectionInv'
    BY DEF ConnectionInv, OwnerInv, TypesInv, TypeOK, AdaptorTypeOK
  <2>5. QueueInv'
    BY DEF QueueInv, ConnectionInv, OwnerInv, TypesInv, TypeOK, AdaptorTypeOK, Queued
  <2>6. ClipsInv' /\ LogInv'
    BY ClipWritten
  <2>. QED BY <2>1, <2>2, <2>3, <2>4, <2>5, <2>6
<1>22. CASE WriteError("write") /\ Written(FALSE)
  <2> USE <1>22 DEF WriteError, Written, WorkerGoes
  <2>0. /\ log' \in Seq(Deliveries) /\ Len(log') = Len(log) + 1
        /\ \A i \in 1 .. Len(log) : log'[i] = log[i]
        /\ log'[Len(log')] = [clip |-> sink_ptr, to |-> m_write_fd, whole |-> FALSE]
    BY OneMoreWritten
  <2>a. connection' = Trashed
    BY DEF Trashed
  <2>1. TypesInv'
    <3>1. AdaptorTypeOK'
      BY <2>a, InUseTrashed DEF TypesInv, TypeOK, AdaptorTypeOK
    <3>. QED BY <2>0, <3>1 DEF TypesInv, TypeOK
  <2>2. PipeInv'
    BY DEF PipeInv, TypesInv, TypeOK, AdaptorTypeOK
  <2>3. OwnerInv'
    BY DEF OwnerInv, TypesInv, TypeOK, AdaptorTypeOK
  <2>4. ConnectionInv'
    BY <2>a, InUseTrashed DEF ConnectionInv
  <2>5. QueueInv'
    <3>1. m_write_fd # NoFd => connection'[m_write_fd] = "closed"
      BY <2>a, InUseTrashed DEF TypesInv, TypeOK, AdaptorTypeOK
    <3>2. listen_ready' => Queued' # {}
      BY <2>a, InUseTrashed DEF QueueInv, Queued
    <3>. QED BY <2>a, <3>1, <3>2, InUseTrashed DEF QueueInv
  <2>6. ClipsInv' /\ LogInv'
    <3>1. \A k \in Connections : connection[k] \in {"accepted", "closed"}
                                => connection'[k] \in {"accepted", "closed"}
      OBVIOUS
    <3>2. m_write_fd = NoFd \/ application[m_write_fd] = "gone"
      BY DEF TypesInv, TypeOK, AdaptorTypeOK
    <3>. QED BY <3>1, <3>2, ClipWritten
  <2>. QED BY <2>1, <2>2, <2>3, <2>4, <2>5, <2>6
<1>23. CASE ForgetConnection
  <2> USE <1>23 DEF ForgetConnection, ResetWriteFd, WorkerGoes
  <2>0. connection' = Trashed /\ m_write_fd' = NoFd /\ m_num_connections' = 0
    BY ConnectionClosed
  <2>1. TypesInv'
    BY <2>0, InUseTrashed DEF TypesInv, TypeOK, AdaptorTypeOK
  <2>2. PipeInv'
    BY DEF PipeInv, TypesInv, TypeOK, AdaptorTypeOK
  <2>3. OwnerInv'
    BY <2>0 DEF OwnerInv
  <2>4. ConnectionInv'
    BY <2>0, InUseTrashed, MaxConnectionsNatural DEF ConnectionInv
  <2>5. QueueInv'
    BY <2>0, InUseTrashed DEF QueueInv, OwnerInv, Queued
  <2>6. ClipsInv'
    BY DEF ClipsInv, OwnerInv, TypesInv, TypeOK
  <2>7. LogInv'
    BY <2>0, InUseTrashed, LogEntries DEF LogInv, OwnerInv, ClipsInv
  <2>. QED BY <2>1, <2>2, <2>3, <2>4, <2>5, <2>6, <2>7
<1>24. CASE EndConnection
  <2> USE <1>24 DEF EndConnection, TerminateCurrentConnection, ListenNext, WorkerGoes
  <2>0. connection' = Trashed /\ m_write_fd' = NoFd /\ m_num_connections' = 0
    BY ConnectionClosed
  <2>1. TypesInv'
    BY <2>0, InUseTrashed DEF TypesInv, TypeOK, AdaptorTypeOK
  <2>2. PipeInv'
    BY DEF PipeInv, TypesInv, TypeOK, AdaptorTypeOK
  <2>3. OwnerInv'
    BY <2>0 DEF OwnerInv
  <2>4. ConnectionInv'
    BY <2>0, InUseTrashed, MaxConnectionsNatural DEF ConnectionInv
  <2>5. QueueInv'
    BY <2>0, InUseTrashed DEF QueueInv, OwnerInv, Queued
  <2>6. ClipsInv'
    BY DEF ClipsInv, OwnerInv, TypesInv, TypeOK
  <2>7. LogInv'
    BY <2>0, InUseTrashed, LogEntries DEF LogInv, OwnerInv, ClipsInv
  <2>. QED BY <2>1, <2>2, <2>3, <2>4, <2>5, <2>6, <2>7
<1>25. CASE Terminate /\ UNCHANGED <<clipVars, deliveryVars>>
  <2> USE <1>25 DEF Terminate, OwnerGoes
  <2>1. TypesInv'
    BY DEF TypesInv, TypeOK, AdaptorTypeOK, PipeInv, ConnectionInv, OwnerInv
  <2>2. PipeInv'
    BY DEF PipeInv, TypesInv, TypeOK, AdaptorTypeOK
  <2>3. OwnerInv'
    BY DEF OwnerInv, TypesInv, TypeOK, AdaptorTypeOK
  <2>4. ConnectionInv'
    BY DEF ConnectionInv, OwnerInv, TypesInv, TypeOK, AdaptorTypeOK
  <2>5. QueueInv'
    BY DEF QueueInv, ConnectionInv, OwnerInv, TypesInv, TypeOK, AdaptorTypeOK, Queued
  <2>6. ClipsInv'
    BY DEF ClipsInv, OwnerInv, TypesInv, TypeOK
  <2>7. LogInv'
    BY DEF LogInv
  <2>. QED BY <2>1, <2>2, <2>3, <2>4, <2>5, <2>6, <2>7
<1>26. CASE UNCHANGED vars
  <2> USE <1>26 DEF vars
  <2>1. TypesInv'
    BY DEF TypesInv, TypeOK, AdaptorTypeOK, PipeInv, ConnectionInv, OwnerInv
  <2>2. PipeInv'
    BY DEF PipeInv, TypesInv, TypeOK, AdaptorTypeOK
  <2>3. OwnerInv'
    BY DEF OwnerInv, TypesInv, TypeOK, AdaptorTypeOK
  <2>4. ConnectionInv'
    BY DEF ConnectionInv, OwnerInv, TypesInv, TypeOK, AdaptorTypeOK
  <2>5. QueueInv'
    BY DEF QueueInv, ConnectionInv, OwnerInv, TypesInv, TypeOK, AdaptorTypeOK, Queued
  <2>6. ClipsInv'
    BY DEF ClipsInv, OwnerInv, TypesInv, TypeOK
  <2>7. LogInv'
    BY DEF LogInv
  <2>. QED BY <2>1, <2>2, <2>3, <2>4, <2>5, <2>6, <2>7
<1>. QED BY <1>1, <1>2, <1>3, <1>4, <1>5, <1>6, <1>7, <1>8, <1>9, <1>10, <1>11, <1>12, <1>13,
            <1>14, <1>15, <1>16, <1>17, <1>18, <1>19, <1>20, <1>21, <1>22, <1>23, <1>24, <1>25,
            <1>26
         DEF Next, AdaptorNext, ApplicationNext, Construct, Destruct, AdaptorWorker, SendClip,
             WriteClip

\* The inductive invariant holds in every reachable state.
THEOREM DeliveryKept == Spec => []DeliveryInv
BY DeliveryInvInit, DeliveryInvNext, PTL DEF Spec

-----------------------------------------------------------------------------
(* The properties the runs check *)

\* socket_adaptor keeps one application connected at a time and counts it: the
\* connection behind m_write_fd is the one that is open, except between the
\* close of write_data and the lock it takes to forget the descriptor.
THEOREM ConnectionsKept == Spec => []OneConnection
<1>1. DeliveryInv => OneConnection
  <2> SUFFICES ASSUME DeliveryInv, worker # "reset"
               PROVE  LET open == {k \in Connections : connection[k] = "accepted"}
                      IN  /\ open = {k \in {m_write_fd} : k > 0}
                          /\ m_num_connections = Cardinality(open)
    BY DEF DeliveryInv, TypesInv, OneConnection
  <2> DEFINE open == {k \in Connections : connection[k] = "accepted"}
  <2> USE MaxConnectionsNatural DEF Connections, NoFd
  <2>1. m_write_fd \in {NoFd} \cup Connections
    BY DEF DeliveryInv, TypesInv, TypeOK, AdaptorTypeOK
  <2>2. open = {k \in {m_write_fd} : k > 0}
    BY <2>1 DEF DeliveryInv, ConnectionInv
  <2>3. CASE m_write_fd = NoFd
    <3>1. open = {}
      BY <2>2, <2>3
    <3>. QED BY <2>2, <2>3, <3>1, FS_EmptySet DEF DeliveryInv, ConnectionInv
  <2>4. CASE m_write_fd # NoFd
    <3>1. open = {m_write_fd}
      BY <2>1, <2>2, <2>4
    <3>2. Cardinality(open) = 1
      BY <3>1, FS_Singleton
    <3>. QED BY <2>2, <2>4, <3>2 DEF DeliveryInv, ConnectionInv
  <2>. QED BY <2>3, <2>4
<1>. QED BY <1>1, DeliveryKept, PTL

\* send_clip_via_socket sends clips in the order they were cut, each of them
\* once, and one at most over a connection.
THEOREM OneClipEach == Spec => []OneClipPerConnection
<1>1. DeliveryInv => OneClipPerConnection
  <2> SUFFICES ASSUME DeliveryInv PROVE OneClipPerConnection
    OBVIOUS
  <2>1. DOMAIN log = 1 .. Len(log)
    BY DEF DeliveryInv, TypesInv
  <2>. QED BY <2>1 DEF DeliveryInv, ClipsInv, LogInv, OneClipPerConnection
<1>. QED BY <1>1, DeliveryKept, PTL

\* No clip gets lost between the cut and the application: it waits in the
\* outbox, is being sent, or was written, in part only if its reader had left.
THEOREM NoClipLost == Spec => []ClipsAccounted
<1>1. DeliveryInv => ClipsAccounted
  <2> SUFFICES ASSUME DeliveryInv PROVE ClipsAccounted
    OBVIOUS
  <2>1. DOMAIN log = 1 .. Len(log)
    BY DEF DeliveryInv, TypesInv
  <2>. QED BY <2>1 DEF DeliveryInv, ClipsInv, LogInv, ClipsAccounted
<1>. QED BY <1>1, DeliveryKept, PTL

\* The destructors join the worker before they free what it uses, and leave no
\* connection open and no clip behind.
THEOREM QuietWhenDestroyed == Spec => []DestroyedQuiet
<1>1. DeliveryInv => DestroyedQuiet
  BY MaxConnectionsNatural
  DEF DeliveryInv, OwnerInv, ConnectionInv, ClipsInv, DestroyedQuiet, NoFd, Connections
<1>. QED BY <1>1, DeliveryKept, PTL
=============================================================================
