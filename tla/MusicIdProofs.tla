---------------------------- MODULE MusicIdProofs ----------------------------
(***************************************************************************)
(* Theorems about music_id_client (module MusicId), for every set of audio *)
(* properties and data rates, all buffer sizes and all durations.          *)
(***************************************************************************)
EXTENDS MusicId, NumberLemmas, SequenceTheorems

-----------------------------------------------------------------------------
(* Sums of sizes *)

Buffer == [id : Nat, size : Nat \ {0}]

LEMMA BufferFields ==
    ASSUME NEW q \in Seq(Buffer)
    PROVE  \A i \in 1 .. Len(q) : q[i] \in Buffer /\ q[i].id \in Nat /\ q[i].size \in Nat \ {0}
<1>1. \A i \in 1 .. Len(q) : q[i] \in Buffer
  BY ElementOfSeq
<1>. QED BY <1>1 DEF Buffer

\* The first n buffers.
LEMMA FirstIs ==
    ASSUME NEW q \in Seq(Buffer), NEW n \in 0 .. Len(q)
    PROVE  /\ First(q, n) \in Seq(Buffer) /\ Len(First(q, n)) = n
           /\ \A i \in 1 .. n : First(q, n)[i] = q[i]
<1>1. Len(q) \in Nat /\ n \in Nat /\ \A i \in 1 .. n : q[i] \in Buffer
  BY LenProperties, BufferFields
<1>. QED BY <1>1, SubSeqProperties DEF First

\* A function that adds up the sizes of the first n buffers of q.
IsSum(f, q) ==
    f = [n \in 0 .. Len(q) |-> IF n = 0 THEN 0 ELSE f[n - 1] + q[n].size]

LEMMA SumSteps ==
    ASSUME NEW q \in Seq(Buffer), NEW f, IsSum(f, q)
    PROVE  f[0] = 0 /\ \A n \in 1 .. Len(q) : f[n] = f[n - 1] + q[n].size
<1> DEFINE sum == [n \in 0 .. Len(q) |-> IF n = 0 THEN 0 ELSE f[n - 1] + q[n].size]
<1>0. Len(q) \in Nat
  BY LenProperties
<1>1. \A n \in 0 .. Len(q) : sum[n] = IF n = 0 THEN 0 ELSE f[n - 1] + q[n].size
  OBVIOUS
<1>2. f = sum
  BY DEF IsSum
<1> HIDE DEF sum
<1>3. \A n \in 0 .. Len(q) : f[n] = IF n = 0 THEN 0 ELSE f[n - 1] + q[n].size
  BY <1>1, <1>2
<1>4. 0 \in 0 .. Len(q) /\ \A n \in 1 .. Len(q) : n \in 0 .. Len(q) /\ n # 0
  BY <1>0
<1>. QED BY <1>3, <1>4

\* There is one, in the natural numbers.
LEMMA SumExists ==
    ASSUME NEW q \in Seq(Buffer)
    PROVE  \E f \in [0 .. Len(q) -> Nat] : IsSum(f, q)
<1> DEFINE L == Len(q)
           sizes == [n \in 1 .. L |-> q[n].size]
<1>0. L \in Nat /\ \A n \in 1 .. L : q[n].size \in Nat
  BY BufferFields, LenProperties
<1>1. \A n \in 1 .. L : sizes[n] = q[n].size
  OBVIOUS
<1> HIDE DEF L, sizes
<1>2. PICK f \in [0 .. L -> Nat] : ArePartialSums(f, sizes, L)
  BY <1>0, <1>1, PartialSumsExist
<1>3. \A n \in 0 .. L : n # 0 => sizes[n] = q[n].size
  BY <1>0, <1>1
<1>4. f = [n \in 0 .. L |-> IF n = 0 THEN 0 ELSE f[n - 1] + q[n].size]
  BY <1>2, <1>3 DEF ArePartialSums
<1>. QED BY <1>2, <1>4 DEF IsSum, L

\* Two such functions agree on what their queues have in common.
LEMMA SumsAgree ==
    ASSUME NEW q \in Seq(Buffer), NEW p \in Seq(Buffer),
           Len(p) <= Len(q), \A i \in 1 .. Len(p) : p[i] = q[i],
           NEW f, IsSum(f, q), NEW g, IsSum(g, p)
    PROVE  \A n \in 0 .. Len(p) : f[n] = g[n]
<1> DEFINE Apart == {n \in 0 .. Len(p) : f[n] # g[n]}
<1>0. Len(p) \in Nat /\ Len(q) \in Nat
  BY LenProperties
<1>1. /\ f[0] = 0 /\ g[0] = 0
      /\ \A n \in 1 .. Len(q) : f[n] = f[n - 1] + q[n].size
      /\ \A n \in 1 .. Len(p) : g[n] = g[n - 1] + p[n].size
  BY SumSteps
<1>2. Apart = {}
  <2> SUFFICES ASSUME Apart # {} PROVE FALSE
    OBVIOUS
  <2>1. PICK k \in Apart : \A j \in Apart : k <= j
    <3>1. Apart \subseteq Nat
      BY <1>0
    <3> HIDE DEF Apart
    <3>. QED BY <3>1, LeastNumber
  <2>2. k \in 0 .. Len(p) /\ f[k] # g[k] /\ k \in Nat /\ k # 0
    BY <1>0, <1>1
  <2>3. k - 1 \in 0 .. Len(p) /\ k - 1 \notin Apart
    <3> HIDE DEF Apart
    <3>. QED BY <1>0, <2>1, <2>2
  <2>4. f[k - 1] = g[k - 1] /\ k \in 1 .. Len(p) /\ k \in 1 .. Len(q)
    BY <1>0, <2>2, <2>3
  <2>. QED BY <1>1, <2>2, <2>4
<1>. QED BY <1>2

\* Bytes is the last value of such a function.
LEMMA BytesIs ==
    ASSUME NEW q \in Seq(Buffer)
    PROVE  \E f \in [0 .. Len(q) -> Nat] : IsSum(f, q) /\ Bytes(q) = f[Len(q)]
<1> DEFINE f == CHOOSE f : IsSum(f, q)
<1>1. PICK g \in [0 .. Len(q) -> Nat] : IsSum(g, q)
  BY SumExists
<1>2. IsSum(f, q)
  BY <1>1
<1>3. Bytes(q) = f[Len(q)]
  BY DEF Bytes, IsSum
<1> HIDE DEF f
<1>4. Len(q) \in Nat
  BY LenProperties
<1>5. f[Len(q)] = g[Len(q)]
  BY <1>1, <1>2, <1>4, SumsAgree
<1>. QED BY <1>1, <1>3, <1>5

\* The sum of a queue, of its beginning, and with one buffer more.
LEMMA BytesOfNone == Bytes(<<>>) = 0
<1>1. <<>> \in Seq(Buffer) /\ Len(<<>>) = 0
  BY EmptySeq
<1>2. PICK f \in [0 .. 0 -> Nat] : IsSum(f, <<>>) /\ Bytes(<<>>) = f[0]
  BY <1>1, BytesIs
<1>. QED BY <1>1, <1>2 DEF IsSum

LEMMA BytesOfFirst ==
    ASSUME NEW q \in Seq(Buffer), NEW p \in Seq(Buffer),
           Len(p) + 1 = Len(q), \A i \in 1 .. Len(p) : p[i] = q[i]
    PROVE  Bytes(q) = Bytes(p) + q[Len(q)].size
<1>0. Len(p) \in Nat /\ Len(q) \in Nat
  BY LenProperties
<1>1. PICK f \in [0 .. Len(q) -> Nat] : IsSum(f, q) /\ Bytes(q) = f[Len(q)]
  BY BytesIs
<1>2. PICK g \in [0 .. Len(p) -> Nat] : IsSum(g, p) /\ Bytes(p) = g[Len(p)]
  BY BytesIs
<1>3. f[Len(p)] = g[Len(p)]
  BY <1>0, <1>1, <1>2, SumsAgree
<1>4. f[Len(q)] = f[Len(q) - 1] + q[Len(q)].size
  <2>1. Len(q) \in 1 .. Len(q)
    BY <1>0
  <2>. QED BY <1>1, <2>1, SumSteps
<1>. QED BY <1>0, <1>1, <1>2, <1>3, <1>4

LEMMA BytesNatural == ASSUME NEW q \in Seq(Buffer) PROVE Bytes(q) \in Nat
<1>1. Len(q) \in Nat
  BY LenProperties
<1>. QED BY <1>1, BytesIs

LEMMA BytesOfAppend ==
    ASSUME NEW q \in Seq(Buffer), NEW b \in Buffer
    PROVE  Bytes(Append(q, b)) = Bytes(q) + b.size
<1>1. /\ Append(q, b) \in Seq(Buffer) /\ Len(Append(q, b)) = Len(q) + 1
      /\ \A i \in 1 .. Len(q) : Append(q, b)[i] = q[i]
      /\ Append(q, b)[Len(q) + 1] = b
  BY AppendProperties
<1>. QED BY <1>1, BytesOfFirst

\* Cutting a queue in two splits its sum.
LEMMA BytesOfRest ==
    ASSUME NEW q \in Seq(Buffer), NEW n \in 0 .. Len(q)
    PROVE  Bytes(SubSeq(q, n + 1, Len(q))) = Bytes(q) - Bytes(First(q, n))
<1> DEFINE L == Len(q)
           rest == SubSeq(q, n + 1, L)
           front == First(q, n)
<1>0. L \in Nat /\ n \in Nat /\ n <= L /\ \A i \in 1 .. L : q[i] \in Buffer /\ q[i].size \in Nat
  BY LenProperties, BufferFields
<1>1. /\ rest \in Seq(Buffer) /\ Len(rest) = L - n
      /\ \A i \in 1 .. L - n : rest[i] = q[n + i]
  <2>1. \A i \in n + 1 .. L : q[i] \in Buffer
    BY <1>0
  <2>. QED BY <1>0, <2>1, SubSeqProperties
<1>2. front \in Seq(Buffer) /\ Len(front) = n /\ \A i \in 1 .. n : front[i] = q[i]
  BY FirstIs
<1> HIDE DEF rest, front, L
<1>3. PICK f \in [0 .. L -> Nat] : IsSum(f, q) /\ Bytes(q) = f[L]
  BY BytesIs DEF L
<1>4. PICK g \in [0 .. L - n -> Nat] : IsSum(g, rest) /\ Bytes(rest) = g[L - n]
  BY <1>1, BytesIs
<1>5. PICK h \in [0 .. n -> Nat] : IsSum(h, front) /\ Bytes(front) = h[n]
  BY <1>2, BytesIs
<1>6. f[n] = h[n]
  BY <1>0, <1>2, <1>3, <1>5, SumsAgree DEF L
<1>7. /\ \A i \in 1 .. L : f[i] = f[i - 1] + q[i].size
      /\ g[0] = 0 /\ \A i \in 1 .. L - n : g[i] = g[i - 1] + rest[i].size
  <2>1. \A i \in 1 .. L : f[i] = f[i - 1] + q[i].size
    BY <1>3, SumSteps DEF L
  <2>2. g[0] = 0 /\ \A i \in 1 .. Len(rest) : g[i] = g[i - 1] + rest[i].size
    BY <1>1, <1>4, SumSteps
  <2>. QED BY <1>1, <2>1, <2>2
<1> DEFINE Apart == {i \in 0 .. L - n : f[n + i] # f[n] + g[i]}
<1>8. Apart = {}
  <2> SUFFICES ASSUME Apart # {} PROVE FALSE
    OBVIOUS
  <2>1. PICK k \in Apart : \A j \in Apart : k <= j
    <3>1. Apart \subseteq Nat
      BY <1>0
    <3> HIDE DEF Apart
    <3>. QED BY <3>1, LeastNumber
  <2>2. k \in 0 .. L - n /\ f[n + k] # f[n] + g[k] /\ k \in Nat /\ k # 0
    BY <1>0, <1>3, <1>7
  <2>3. k - 1 \in 0 .. L - n /\ k - 1 \notin Apart
    <3> HIDE DEF Apart
    <3>. QED BY <1>0, <2>1, <2>2
  <2>4. /\ f[n + (k - 1)] = f[n] + g[k - 1]
        /\ k \in 1 .. L - n /\ n + k \in 1 .. L /\ n + (k - 1) = (n + k) - 1
        /\ f[n] \in Nat /\ g[k - 1] \in Nat
    BY <1>0, <1>3, <1>4, <2>2, <2>3
  <2>5. f[n + k] = f[(n + k) - 1] + q[n + k].size /\ g[k] = g[k - 1] + rest[k].size
    BY <1>7, <2>4
  <2>6. rest[k] = q[n + k] /\ q[n + k].size \in Nat
    BY <1>0, <1>1, <2>4
  <2>. QED BY <2>2, <2>4, <2>5, <2>6
<1>9. L - n \in 0 .. L - n /\ n + (L - n) = L
  BY <1>0
<1>10. f[L] = f[n] + g[L - n]
  BY <1>8, <1>9
<1>11. f[L] \in Nat /\ f[n] \in Nat /\ g[L - n] \in Nat
  BY <1>0, <1>3, <1>4
<1>12. Bytes(rest) = Bytes(q) - Bytes(front)
  BY <1>3, <1>4, <1>5, <1>6, <1>10, <1>11
<1>. QED BY <1>12 DEF rest, front, L

-----------------------------------------------------------------------------
(* The inductive invariant *)

Request == [id : Nat, length : Nat, time_remaining : Nat]

\* What TypeOK leaves out, and the threads: whoever flushes the queues has joined
\* the worker.
ThreadsInv ==
    /\ properties \in AudioProperties
    /\ m_delivery_method \in {"FILE_OUTPUT", "SOCKET_OUTPUT"}
    /\ worker \in {"awake", "lock", "scan", "erase", "exited"}
    /\ owner \in {"up", "join", "adaptor", "gone"}
    /\ iter \in Nat \ {0}
    /\ worker = "erase" => iter \in DOMAIN m_requests
    /\ owner \in {"adaptor", "gone"} => worker = "exited"

\* The queue holds the newest buffers without a gap; the others were given back.
QueueInv ==
    /\ m_queue \in Seq(Buffer)
    /\ arrived \in Nat /\ Len(m_queue) <= arrived
    /\ \A i \in 1 .. Len(m_queue) : m_queue[i].id = arrived - Len(m_queue) + i
    /\ released \in Seq(Nat) /\ Len(released) = arrived
    /\ \A id \in 1 .. arrived : released[id] = IF id > arrived - Len(m_queue) THEN 0 ELSE 1

TotalInv ==
    /\ m_total_size \in Nat
    /\ owner \in {"up", "join"} => m_total_size = Bytes(m_queue)

\* The requests have their own numbers, and no answer yet; all others have one,
\* but those the destructor dropped.
RequestsInv ==
    /\ m_requests \in Seq(Request)
    /\ answers \in Seq(Nat)
    /\ \A i \in DOMAIN m_requests :
          /\ m_requests[i].id \in DOMAIN answers
          /\ answers[m_requests[i].id] = 0
          /\ \A j \in DOMAIN m_requests : m_requests[i].id = m_requests[j].id => i = j
    /\ \A id \in DOMAIN answers :
          \/ answers[id] = 1
          \/ answers[id] = 0 /\ \E i \in DOMAIN m_requests : m_requests[i].id = id
          \/ answers[id] = 0 /\ owner \in {"adaptor", "gone"}

\* The limit is what is needed, once somebody has computed it at this data rate.
LimitInv ==
    /\ m_precapture_duration_seconds \in Nat
    /\ m_queue_upper_limit_bytes \in Nat
    /\ reconciled \in BOOLEAN
    /\ owner = "up" /\ reconciled => m_queue_upper_limit_bytes = Demand

\* Clips for files never see the outbox, and a closed client has none.
OutboxInv ==
    /\ clips \in Nat
    /\ m_outbox \in Seq(Nat)
    /\ ~ToSocket => m_outbox = <<>>

MusicInv == ThreadsInv /\ QueueInv /\ TotalInv /\ RequestsInv /\ LimitInv /\ OutboxInv

-----------------------------------------------------------------------------
(* What the helpers do *)

LEMMA MaxOfNumbers ==
    ASSUME NEW S, S \subseteq Nat, S # {}, IsFiniteSet(S)
    PROVE  Max(S) \in S /\ \A x \in S : x <= Max(S)
<1>1. PICK u \in S : \A x \in S : x <= u
  BY GreatestNumber
<1>2. \A x \in S : u >= x
  BY <1>1
<1>3. Max(S) \in S /\ \A x \in S : Max(S) >= x
  BY <1>2 DEF Max
<1>. QED BY <1>3

LEMMA RequestFields ==
    ASSUME NEW requests \in Seq(Request)
    PROVE  /\ DOMAIN requests = 1 .. Len(requests) /\ Len(requests) \in Nat
           /\ \A i \in DOMAIN requests :
                 /\ requests[i] \in Request
                 /\ requests[i].id \in Nat /\ requests[i].length \in Nat
                 /\ requests[i].time_remaining \in Nat
<1>1. DOMAIN requests = 1 .. Len(requests) /\ Len(requests) \in Nat
  BY LenProperties
<1>2. \A i \in 1 .. Len(requests) : requests[i] \in Request
  BY ElementOfSeq
<1>. QED BY <1>1, <1>2 DEF Request

LEMMA QueueSizeNatural ==
    ASSUME NEW seconds \in Nat, NEW requests \in Seq(Request), ThreadsInv
    PROVE  QueueSize(seconds, requests) \in Nat
<1> DEFINE lengths == {requests[i].length : i \in DOMAIN requests}
<1>1. lengths \subseteq Nat
  BY RequestFields
<1>2. IsFiniteSet(lengths)
  <2>1. IsFiniteSet(DOMAIN requests)
    BY RequestFields, FS_Interval
  <2> DEFINE f == [i \in DOMAIN requests |-> requests[i].length]
  <2>2. f \in Surjection(DOMAIN requests, lengths)
    BY DEF Surjection
  <2> HIDE DEF f, lengths
  <2>. QED BY <2>1, <2>2, FS_Surjection
<1>3. {seconds} \cup lengths \subseteq Nat /\ IsFiniteSet({seconds} \cup lengths)
  BY <1>1, <1>2, FS_Singleton, FS_Union
<1> HIDE DEF lengths
<1>4. Max({seconds} \cup lengths) \in Nat
  BY <1>3, MaxOfNumbers
<1>5. MaxLength(seconds, requests) \in Nat
  BY <1>4 DEF MaxLength, lengths
<1>6. data_rate \in Nat
  BY DataRates DEF ThreadsInv, data_rate
<1>. QED BY <1>5, <1>6 DEF QueueSize

\* Giving back the oldest n buffers counts each of them once.
LEMMA ReleasedOldest ==
    ASSUME QueueInv, NEW n \in 0 .. Len(m_queue)
    PROVE  /\ ReleasedAll(First(m_queue, n)) \in Seq(Nat)
           /\ Len(ReleasedAll(First(m_queue, n))) = arrived
           /\ \A id \in 1 .. arrived :
                 ReleasedAll(First(m_queue, n))[id]
                    = IF id > arrived - Len(m_queue) + n THEN 0 ELSE 1
<1> DEFINE q == First(m_queue, n)
           gone == arrived - Len(m_queue)
           Named(id) == {i \in DOMAIN q : q[i].id = id}
<1>0. /\ Len(m_queue) \in Nat /\ arrived \in Nat /\ gone \in Nat /\ n \in Nat
      /\ n <= Len(m_queue)
      /\ DOMAIN released = 1 .. arrived
  BY LenProperties DEF QueueInv
<1>1. /\ q \in Seq(Buffer) /\ DOMAIN q = 1 .. n
      /\ \A i \in 1 .. n : q[i] = m_queue[i]
  BY FirstIs, LenProperties DEF QueueInv
<1> HIDE DEF q
<1>2. \A i \in 1 .. n : q[i].id = gone + i
  BY <1>0, <1>1 DEF QueueInv
<1>3. ASSUME NEW id \in 1 .. arrived
      PROVE  Cardinality(Named(id)) = IF id > gone /\ id <= gone + n THEN 1 ELSE 0
  <2>1. CASE id > gone /\ id <= gone + n
    <3>1. id - gone \in 1 .. n /\ \A i \in 1 .. n : gone + i = id <=> i = id - gone
      BY <1>0, <2>1
    <3>2. Named(id) = {id - gone}
      BY <1>1, <1>2, <3>1
    <3>. QED BY <2>1, <3>2, FS_Singleton
  <2>2. CASE ~(id > gone /\ id <= gone + n)
    <3>1. \A i \in 1 .. n : gone + i # id
      BY <1>0, <2>2
    <3>2. Named(id) = {}
      BY <1>1, <1>2, <3>1
    <3>. QED BY <2>2, <3>2, FS_EmptySet
  <2>. QED BY <2>1, <2>2
<1> DEFINE after == [id \in 1 .. arrived |-> released[id] + Cardinality(Named(id))]
<1>4. ReleasedAll(q) = after
  BY <1>0 DEF ReleasedAll
<1> HIDE DEF Named
<1>5. \A id \in 1 .. arrived : after[id] = IF id > gone + n THEN 0 ELSE 1
  <2> SUFFICES ASSUME NEW id \in 1 .. arrived
               PROVE  after[id] = IF id > gone + n THEN 0 ELSE 1
    OBVIOUS
  <2>1. after[id] = released[id] + Cardinality(Named(id))
    OBVIOUS
  <2>2. released[id] = IF id > gone THEN 0 ELSE 1
    BY DEF QueueInv
  <2>. QED BY <1>0, <1>3, <2>1, <2>2
<1>6. after \in [1 .. arrived -> Nat] /\ DOMAIN after = 1 .. arrived
  <2>1. \A id \in 1 .. arrived : after[id] \in Nat
    BY <1>5
  <2>. QED BY <2>1
<1> HIDE DEF after
<1>7. after \in Seq(Nat) /\ Len(after) = arrived
  BY <1>0, <1>6, LenProperties, SeqDef
<1>. QED BY <1>4, <1>5, <1>7 DEF q

\* Trimming takes the oldest n buffers: as many as can go without falling below
\* the limit, and no fewer.
LEMMA TrimEffect ==
    ASSUME QueueInv, TotalInv, owner \in {"up", "join"}, NEW limit \in Nat, TrimQueue(limit)
    PROVE  \E n \in 0 .. Len(m_queue) :
              /\ m_queue' = SubSeq(m_queue, n + 1, Len(m_queue))
              /\ released' = ReleasedAll(First(m_queue, n))
              /\ m_total_size' = m_total_size - Bytes(First(m_queue, n))
              /\ n > 0 => m_total_size' >= limit
              /\ n < Len(m_queue) => m_total_size' - m_queue[n + 1].size < limit
<1> DEFINE q == m_queue
           excess == m_total_size - limit
           Fits == {k \in DOMAIN m_queue : Bytes(First(m_queue, k)) <= excess}
           n == Max({0} \cup Fits)
<1>0. /\ q \in Seq(Buffer) /\ Len(q) \in Nat /\ DOMAIN q = 1 .. Len(q)
      /\ m_total_size \in Nat
  BY LenProperties DEF QueueInv, TotalInv
<1>1. /\ m_queue' = SubSeq(q, n + 1, Len(q))
      /\ m_total_size' = m_total_size - Bytes(First(q, n))
      /\ released' = ReleasedAll(First(q, n))
  BY DEF TrimQueue
<1>2. {0} \cup Fits \subseteq Nat /\ IsFiniteSet({0} \cup Fits)
  <2>1. Fits \subseteq 1 .. Len(q) /\ IsFiniteSet(1 .. Len(q))
    BY <1>0, FS_Interval
  <2>2. IsFiniteSet(Fits) /\ Fits \subseteq Nat
    BY <1>0, <2>1, FS_Subset
  <2> HIDE DEF Fits
  <2>3. IsFiniteSet(Fits \cup {0}) /\ Fits \cup {0} = {0} \cup Fits
    BY <2>2, FS_AddElement
  <2>4. {0} \cup Fits \subseteq Nat
    BY <2>2
  <2>. QED BY <2>3, <2>4
<1>3. n \in {0} \cup Fits /\ \A k \in {0} \cup Fits : k <= n
  <2> HIDE DEF Fits
  <2>. QED BY <1>2, MaxOfNumbers
<1> HIDE DEF n
<1>4. n \in 0 .. Len(q)
  BY <1>0, <1>3
<1>5. n > 0 => Bytes(First(q, n)) <= excess
  BY <1>3
<1>6. n < Len(q) => ~(Bytes(First(q, n + 1)) <= excess)
  <2> SUFFICES ASSUME n < Len(q), Bytes(First(q, n + 1)) <= excess PROVE FALSE
    OBVIOUS
  <2>1. n + 1 \in DOMAIN q
    BY <1>0, <1>4
  <2>2. n + 1 \in Fits
    BY <2>1
  <2> HIDE DEF Fits
  <2>. QED BY <1>3, <1>4, <2>2
<1>7. n < Len(q) => Bytes(First(q, n + 1)) = Bytes(First(q, n)) + q[n + 1].size
  <2> SUFFICES ASSUME n < Len(q)
               PROVE  Bytes(First(q, n + 1)) = Bytes(First(q, n)) + q[n + 1].size
    OBVIOUS
  <2>1. n + 1 \in 0 .. Len(q) /\ n + 1 \in 1 .. n + 1
    BY <1>0, <1>4
  <2>2. /\ First(q, n) \in Seq(Buffer) /\ Len(First(q, n)) = n
        /\ \A i \in 1 .. n : First(q, n)[i] = q[i]
    BY <1>0, <1>4, FirstIs
  <2>3. /\ First(q, n + 1) \in Seq(Buffer) /\ Len(First(q, n + 1)) = n + 1
        /\ \A i \in 1 .. n + 1 : First(q, n + 1)[i] = q[i]
    BY <1>0, <2>1, FirstIs
  <2>4. \A i \in 1 .. n : First(q, n)[i] = First(q, n + 1)[i]
    BY <1>4, <2>2, <2>3
  <2>5. Bytes(First(q, n + 1)) = Bytes(First(q, n)) + First(q, n + 1)[n + 1].size
    BY <2>2, <2>3, <2>4, BytesOfFirst
  <2>. QED BY <2>1, <2>3, <2>5
<1>8. Bytes(First(q, n)) \in Nat
  BY <1>0, <1>4, FirstIs, BytesNatural
<1>9. n > 0 => m_total_size' >= limit
  BY <1>0, <1>1, <1>5, <1>8
<1>10. n < Len(q) => m_total_size' - q[n + 1].size < limit
  <2> SUFFICES ASSUME n < Len(q) PROVE m_total_size' - q[n + 1].size < limit
    OBVIOUS
  <2>1. q[n + 1].size \in Nat
    <3>1. n + 1 \in 1 .. Len(q)
      BY <1>0, <1>4
    <3>. QED BY <1>0, <3>1, BufferFields
  <2>. QED BY <1>0, <1>1, <1>6, <1>7, <1>8, <2>1
<1>. QED BY <1>1, <1>4, <1>9, <1>10

\* Trimming keeps the queue without a gap and its total right.
LEMMA TrimKeeps ==
    ASSUME QueueInv, TotalInv, owner \in {"up", "join"}, NEW limit \in Nat, TrimQueue(limit),
           arrived' = arrived
    PROVE  QueueInv' /\ m_total_size' \in Nat /\ m_total_size' = Bytes(m_queue')
<1> DEFINE q == m_queue
           L == Len(q)
<1>1. PICK n \in 0 .. Len(m_queue) :
              /\ m_queue' = SubSeq(m_queue, n + 1, Len(m_queue))
              /\ released' = ReleasedAll(First(m_queue, n))
              /\ m_total_size' = m_total_size - Bytes(First(m_queue, n))
  BY TrimEffect
<1>0. /\ q \in Seq(Buffer) /\ L \in Nat /\ n \in Nat /\ n <= L
      /\ \A i \in 1 .. L : q[i] \in Buffer
      /\ arrived \in Nat /\ L <= arrived
  BY LenProperties, BufferFields DEF QueueInv
<1>2. /\ m_queue' \in Seq(Buffer) /\ Len(m_queue') = L - n
      /\ \A i \in 1 .. L - n : m_queue'[i] = q[n + i]
  <2>1. \A i \in n + 1 .. L : q[i] \in Buffer
    BY <1>0
  <2>. QED BY <1>0, <1>1, <2>1, SubSeqProperties
<1>3. \A i \in 1 .. L - n : m_queue'[i].id = arrived - (L - n) + i
  <2> SUFFICES ASSUME NEW i \in 1 .. L - n PROVE m_queue'[i].id = arrived - (L - n) + i
    OBVIOUS
  <2>1. n + i \in 1 .. L
    BY <1>0
  <2>2. q[n + i].id = arrived - L + (n + i)
    BY <2>1 DEF QueueInv
  <2>. QED BY <1>0, <1>2, <2>2
<1>4. /\ released' \in Seq(Nat) /\ Len(released') = arrived
      /\ \A id \in 1 .. arrived : released'[id] = IF id > arrived - L + n THEN 0 ELSE 1
  BY <1>1, ReleasedOldest
<1>5. arrived - L + n = arrived - (L - n) /\ L - n <= arrived
  BY <1>0
<1>6. QueueInv'
  BY <1>0, <1>2, <1>3, <1>4, <1>5 DEF QueueInv
<1>7. m_total_size = Bytes(q) /\ Bytes(m_queue') = Bytes(q) - Bytes(First(q, n))
  BY <1>0, <1>1, BytesOfRest DEF TotalInv
<1>. QED BY <1>1, <1>2, <1>6, <1>7, BytesNatural

-----------------------------------------------------------------------------
(* Who writes what *)

LEMMA WritersOfQueue ==
    [Next]_vars =>
        \/ UNCHANGED <<m_queue, m_total_size, released, arrived>>
        \/ DataCallback \/ SetPrecaptureDuration \/ EndTick \/ FlushQueues
BY DEF Next, Worker, vars, queueVars, Call, WorkerGoes, SetAudioProperties, GrabFreshSample,
    GrabPrecapturedSample, TestAlive, WorkerLocks, CountDown, RequestIsUp, Erase, TakeClip,
    Destroy, FlushOutbox

LEMMA WritersOfRequests ==
    [Next]_vars =>
        \/ UNCHANGED <<m_requests, answers>>
        \/ GrabFreshSample \/ CountDown \/ Erase \/ FlushQueues
BY DEF Next, Worker, vars, requestVars, Call, WorkerGoes, DataCallback, SetAudioProperties,
    SetPrecaptureDuration, GrabPrecapturedSample, TestAlive, WorkerLocks, RequestIsUp, EndTick,
    TakeClip, Destroy, FlushOutbox

LEMMA WritersOfLimit ==
    [Next]_vars =>
        \/ UNCHANGED <<properties, m_precapture_duration_seconds, m_queue_upper_limit_bytes,
                       reconciled>>
        \/ SetAudioProperties \/ SetPrecaptureDuration \/ GrabFreshSample \/ Erase
BY DEF Next, Worker, vars, limitVars, Call, WorkerGoes, DataCallback, GrabPrecapturedSample,
    TestAlive, WorkerLocks, CountDown, RequestIsUp, EndTick, TakeClip, Destroy, FlushQueues,
    FlushOutbox

LEMMA WritersOfOutbox ==
    [Next]_vars =>
        \/ UNCHANGED <<m_outbox, clips>>
        \/ GrabPrecapturedSample \/ RequestIsUp \/ TakeClip \/ FlushOutbox
BY DEF Next, Worker, vars, clipVars, Call, WorkerGoes, DataCallback, SetAudioProperties,
    SetPrecaptureDuration, GrabFreshSample, TestAlive, WorkerLocks, CountDown, Erase, EndTick,
    Destroy, FlushQueues

LEMMA WritersOfOwner ==
    [Next]_vars =>
        /\ m_delivery_method' = m_delivery_method
        /\ UNCHANGED owner \/ Destroy \/ FlushQueues \/ FlushOutbox
BY DEF Next, Worker, vars, Call, WorkerGoes, DataCallback, SetAudioProperties,
    SetPrecaptureDuration, GrabFreshSample, GrabPrecapturedSample, TestAlive, WorkerLocks,
    CountDown, RequestIsUp, Erase, EndTick, TakeClip, Destroy, FlushQueues, FlushOutbox

\* The owner goes one way.
LEMMA OwnerNext ==
    [Next]_vars =>
        /\ owner' \in {"up", "join"} => owner \in {"up", "join"}
        /\ owner' = "up" => owner = "up"
        /\ owner \in {"adaptor", "gone"} => owner' \in {"adaptor", "gone"}
<1>1. Destroy => owner = "up" /\ owner' = "join"
  BY DEF Destroy
<1>2. FlushQueues => owner = "join" /\ owner' \in {"adaptor", "gone"}
  BY DEF FlushQueues
<1>3. FlushOutbox => owner = "adaptor" /\ owner' = "gone"
  BY DEF FlushOutbox
<1>. QED BY <1>1, <1>2, <1>3, WritersOfOwner

-----------------------------------------------------------------------------
(* The invariant is kept *)

LEMMA ThreadsNext == ThreadsInv /\ RequestsInv /\ [Next]_vars => ThreadsInv'
<1> SUFFICES ASSUME ThreadsInv, RequestsInv, [Next]_vars PROVE ThreadsInv'
  OBVIOUS
<1> USE DEF ThreadsInv
<1>1. CASE DataCallback \/ SetPrecaptureDuration \/ GrabFreshSample \/ GrabPrecapturedSample
  <2>1. /\ worker \notin {"scan", "erase"}
        /\ UNCHANGED <<properties, m_delivery_method, worker, iter, owner>>
    BY <1>1 DEF DataCallback, SetPrecaptureDuration, GrabFreshSample, GrabPrecapturedSample,
                Call, lock, workerVars
  <2>. QED BY <2>1
<1>2. CASE SetAudioProperties \/ TakeClip
  <2>1. /\ properties' \in AudioProperties
        /\ UNCHANGED <<m_delivery_method, worker, iter, owner, m_requests>>
    BY <1>2 DEF SetAudioProperties, TakeClip, workerVars, requestVars
  <2>. QED BY <2>1
<1>3. CASE TestAlive \/ WorkerLocks
  <2>1. /\ worker \in {"awake", "lock"} /\ worker' \in {"lock", "exited", "scan"}
        /\ UNCHANGED <<properties, m_delivery_method, iter, owner>>
    BY <1>3 DEF TestAlive, WorkerLocks, WorkerGoes
  <2>. QED BY <2>1
<1>4. CASE CountDown
  <2>1. /\ worker = "scan" /\ worker' = "scan" /\ iter' = iter + 1
        /\ UNCHANGED <<properties, m_delivery_method, owner>>
    BY <1>4 DEF CountDown, WorkerGoes
  <2>. QED BY <2>1
<1>5. CASE RequestIsUp
  <2>1. /\ worker = "scan" /\ worker' = "erase" /\ iter' = iter /\ iter \in DOMAIN m_requests
        /\ UNCHANGED <<properties, m_delivery_method, owner, m_requests>>
    BY <1>5 DEF RequestIsUp, WorkerGoes, requestVars
  <2>. QED BY <2>1
<1>6. CASE Erase
  <2>1. /\ worker = "erase" /\ worker' = "scan" /\ iter' = iter
        /\ UNCHANGED <<properties, m_delivery_method, owner>>
    BY <1>6 DEF Erase, WorkerGoes
  <2>. QED BY <2>1
<1>7. CASE EndTick
  <2>1. /\ worker = "scan" /\ worker' = "awake" /\ iter' = 1
        /\ UNCHANGED <<properties, m_delivery_method, owner>>
    BY <1>7 DEF EndTick, WorkerGoes
  <2>. QED BY <2>1
<1>8. CASE Destroy
  <2>1. /\ owner' = "join"
        /\ UNCHANGED <<properties, m_delivery_method, worker, iter, m_requests>>
    BY <1>8 DEF Destroy, workerVars, requestVars
  <2>. QED BY <2>1
<1>9. CASE FlushQueues \/ FlushOutbox
  <2>1. /\ worker = "exited" /\ owner' \in {"adaptor", "gone"}
        /\ UNCHANGED <<properties, m_delivery_method, worker, iter>>
    BY <1>9 DEF FlushQueues, FlushOutbox, workerVars
  <2>. QED BY <2>1
<1>10. CASE UNCHANGED vars
  <2>1. UNCHANGED <<properties, m_delivery_method, worker, iter, owner, m_requests>>
    BY <1>10 DEF vars, workerVars, requestVars
  <2>. QED BY <2>1
<1>. QED BY <1>1, <1>2, <1>3, <1>4, <1>5, <1>6, <1>7, <1>8, <1>9, <1>10 DEF Next, Worker

LEMMA QueueNext == MusicInv /\ [Next]_vars => QueueInv' /\ TotalInv'
<1> SUFFICES ASSUME MusicInv, [Next]_vars PROVE QueueInv' /\ TotalInv'
  OBVIOUS
<1>0. ThreadsInv /\ QueueInv /\ TotalInv /\ RequestsInv /\ LimitInv
  BY DEF MusicInv
<1>1. CASE DataCallback
  <2>1. PICK size \in BufferSizes :
           /\ m_queue' = Append(m_queue, [id |-> arrived + 1, size |-> size])
           /\ m_total_size' = m_total_size + size
    BY <1>1 DEF DataCallback
  <2>2. arrived' = arrived + 1 /\ released' = Append(released, 0) /\ owner = "up"
    BY <1>1 DEF DataCallback
  <2> DEFINE b == [id |-> arrived + 1, size |-> size]
             L == Len(m_queue)
  <2>3. /\ arrived \in Nat /\ L \in Nat /\ L <= arrived /\ m_queue \in Seq(Buffer)
        /\ released \in Seq(Nat) /\ Len(released) = arrived
    BY <1>0, LenProperties DEF QueueInv
  <2>4. size \in Nat \ {0} /\ b \in Buffer /\ b.id = arrived + 1 /\ b.size = size
    BY <2>3, BufferSizesSmall DEF Buffer
  <2> HIDE DEF b
  <2>5. /\ m_queue' \in Seq(Buffer) /\ Len(m_queue') = L + 1 /\ m_queue'[L + 1] = b
        /\ \A i \in 1 .. L : m_queue'[i] = m_queue[i]
    BY <2>1, <2>3, <2>4, AppendProperties DEF b
  <2>6. /\ released' \in Seq(Nat) /\ Len(released') = arrived + 1
        /\ released'[arrived + 1] = 0
        /\ \A id \in 1 .. arrived : released'[id] = released[id]
    BY <2>2, <2>3, AppendProperties
  <2>7. \A i \in 1 .. L + 1 : m_queue'[i].id = (arrived + 1) - (L + 1) + i
    <3> SUFFICES ASSUME NEW i \in 1 .. L + 1
                 PROVE  m_queue'[i].id = (arrived + 1) - (L + 1) + i
      OBVIOUS
    <3>1. CASE i = L + 1
      BY <2>3, <2>4, <2>5, <3>1
    <3>2. CASE i # L + 1
      <4>1. i \in 1 .. L
        BY <2>3, <3>2
      <4>2. m_queue[i].id = arrived - L + i
        BY <1>0, <4>1 DEF QueueInv
      <4>. QED BY <2>3, <2>5, <4>1, <4>2
    <3>. QED BY <3>1, <3>2
  <2>8. \A id \in 1 .. arrived + 1 :
           released'[id] = IF id > (arrived + 1) - (L + 1) THEN 0 ELSE 1
    <3> SUFFICES ASSUME NEW id \in 1 .. arrived + 1
                 PROVE  released'[id] = IF id > (arrived + 1) - (L + 1) THEN 0 ELSE 1
      OBVIOUS
    <3>1. CASE id = arrived + 1
      BY <2>3, <2>6, <3>1
    <3>2. CASE id # arrived + 1
      <4>1. id \in 1 .. arrived
        BY <2>3, <3>2
      <4>2. released[id] = IF id > arrived - L THEN 0 ELSE 1
        BY <1>0, <4>1 DEF QueueInv
      <4>. QED BY <2>3, <2>6, <4>1, <4>2
    <3>. QED BY <3>1, <3>2
  <2>9. QueueInv'
    BY <2>2, <2>3, <2>5, <2>6, <2>7, <2>8 DEF QueueInv
  <2>10. Bytes(m_queue') = Bytes(m_queue) + size
    BY <2>1, <2>3, <2>4, BytesOfAppend DEF b
  <2>11. m_total_size' \in Nat /\ m_total_size' = Bytes(m_queue')
    BY <1>0, <2>1, <2>2, <2>4, <2>10 DEF TotalInv
  <2>. QED BY <2>9, <2>11 DEF TotalInv
<1>2. CASE SetPrecaptureDuration
  <2>1. PICK seconds \in Durations : TrimQueue(QueueSize(seconds, m_requests))
    BY <1>2 DEF SetPrecaptureDuration
  <2>2. QueueSize(seconds, m_requests) \in Nat
    BY <1>0, DurationsNatural, QueueSizeNatural DEF RequestsInv
  <2>3. owner = "up" /\ arrived' = arrived
    BY <1>2 DEF SetPrecaptureDuration, Call
  <2> HIDE DEF QueueInv, TotalInv
  <2>4. QueueInv' /\ m_total_size' \in Nat /\ m_total_size' = Bytes(m_queue')
    BY <1>0, <2>1, <2>2, <2>3, TrimKeeps
  <2>. QED BY <2>4 DEF TotalInv
<1>3. CASE EndTick
  <2>1. TrimQueue(m_queue_upper_limit_bytes) /\ worker = "scan" /\ arrived' = arrived
    BY <1>3 DEF EndTick, WorkerGoes
  <2>2. m_queue_upper_limit_bytes \in Nat
    BY <1>0 DEF LimitInv
  <2>3. owner \in {"up", "join"}
    BY <1>0, <2>1 DEF ThreadsInv
  <2>4. QueueInv' /\ m_total_size' \in Nat /\ m_total_size' = Bytes(m_queue')
    BY <1>0, <2>1, <2>2, <2>3, TrimKeeps
  <2>. QED BY <2>4 DEF TotalInv
<1>4. CASE FlushQueues
  <2> DEFINE L == Len(m_queue)
  <2>1. /\ m_queue' = <<>> /\ released' = ReleasedAll(m_queue) /\ arrived' = arrived
        /\ m_total_size' = m_total_size /\ owner' \in {"adaptor", "gone"}
    BY <1>4 DEF FlushQueues
  <2>2. L \in Nat /\ L \in 0 .. L /\ m_queue \in Seq(Buffer) /\ arrived \in Nat
    BY <1>0, LenProperties DEF QueueInv
  <2>3. First(m_queue, L) = m_queue
    BY <2>2, SubSeqFull DEF First
  <2>4. /\ released' \in Seq(Nat) /\ Len(released') = arrived
        /\ \A id \in 1 .. arrived : released'[id] = IF id > arrived - L + L THEN 0 ELSE 1
    BY <1>0, <2>1, <2>2, <2>3, ReleasedOldest
  <2>5. m_queue' \in Seq(Buffer) /\ Len(m_queue') = 0
    BY <2>1, EmptySeq
  <2>6. \A id \in 1 .. arrived : released'[id] = IF id > arrived - 0 THEN 0 ELSE 1
    BY <2>2, <2>4
  <2>7. QueueInv'
    BY <2>1, <2>2, <2>4, <2>5, <2>6 DEF QueueInv
  <2>. QED BY <1>0, <2>1, <2>7 DEF TotalInv
<1>5. CASE UNCHANGED <<m_queue, m_total_size, released, arrived>>
  <2>1. QueueInv'
    BY <1>0, <1>5 DEF QueueInv
  <2>2. TotalInv'
    BY <1>0, <1>5, OwnerNext DEF TotalInv
  <2>. QED BY <2>1, <2>2
<1>. QED BY <1>1, <1>2, <1>3, <1>4, <1>5, WritersOfQueue

\* Removing a request moves the later ones up.
LEMMA RemoveRequest ==
    ASSUME NEW requests \in Seq(Request), NEW k \in DOMAIN requests
    PROVE  /\ RemoveAt(requests, k) \in Seq(Request)
           /\ Len(RemoveAt(requests, k)) = Len(requests) - 1
           /\ \A i \in 1 .. Len(requests) - 1 :
                 RemoveAt(requests, k)[i] = requests[IF i < k THEN i ELSE i + 1]
<1> DEFINE L == Len(requests)
           front == SubSeq(requests, 1, k - 1)
           rest == SubSeq(requests, k + 1, L)
<1>0. L \in Nat /\ k \in 1 .. L /\ \A i \in 1 .. L : requests[i] \in Request
  BY LenProperties, ElementOfSeq
<1>1. /\ front \in Seq(Request) /\ Len(front) = k - 1
      /\ \A i \in 1 .. k - 1 : front[i] = requests[i]
  <2>1. \A i \in 1 .. k - 1 : requests[i] \in Request
    BY <1>0
  <2>. QED BY <1>0, <2>1, SubSeqProperties
<1>2. /\ rest \in Seq(Request) /\ Len(rest) = L - k
      /\ \A i \in 1 .. L - k : rest[i] = requests[k + i]
  <2>1. \A i \in k + 1 .. L : requests[i] \in Request
    BY <1>0
  <2>. QED BY <1>0, <2>1, SubSeqProperties
<1>3. RemoveAt(requests, k) = front \o rest
  BY DEF RemoveAt
<1> HIDE DEF front, rest, L
<1>4. /\ front \o rest \in Seq(Request) /\ Len(front \o rest) = L - 1
      /\ \A i \in 1 .. L - 1 : (front \o rest)[i] = IF i <= k - 1 THEN front[i]
                                                                  ELSE rest[i - (k - 1)]
  <2>1. /\ front \o rest \in Seq(Request) /\ Len(front \o rest) = Len(front) + Len(rest)
        /\ \A i \in 1 .. Len(front) + Len(rest) :
              (front \o rest)[i] = IF i <= Len(front) THEN front[i] ELSE rest[i - Len(front)]
    BY <1>1, <1>2, ConcatProperties
  <2>2. Len(front) + Len(rest) = L - 1
    BY <1>0, <1>1, <1>2
  <2>3. Len(front) = k - 1
    BY <1>1
  <2>. QED BY <2>1, <2>2, <2>3
<1>5. ASSUME NEW i \in 1 .. L - 1
      PROVE  (front \o rest)[i] = requests[IF i < k THEN i ELSE i + 1]
  <2>1. CASE i < k
    <3>1. i \in 1 .. k - 1 /\ i <= k - 1
      BY <1>0, <2>1
    <3>. QED BY <1>1, <1>4, <2>1, <3>1
  <2>2. CASE ~(i < k)
    <3>1. i - (k - 1) \in 1 .. L - k /\ ~(i <= k - 1) /\ k + (i - (k - 1)) = i + 1
      BY <1>0, <2>2
    <3>. QED BY <1>2, <1>4, <2>2, <3>1
  <2>. QED BY <2>1, <2>2
<1>. QED BY <1>3, <1>4, <1>5 DEF L

LEMMA CountedDown ==
    ASSUME NEW r \in Request, r.time_remaining > 0
    PROVE  LET new == [r EXCEPT !.time_remaining = @ - 1]
           IN  new \in Request /\ new.id = r.id /\ new.length = r.length
BY DEF Request

\* Counting down changes nothing but the time that is left.
LEMMA CountDownKeeps ==
    ASSUME RequestsInv, CountDown
    PROVE  /\ m_requests' \in Seq(Request) /\ DOMAIN m_requests' = DOMAIN m_requests
           /\ answers' = answers
           /\ \A i \in DOMAIN m_requests : /\ m_requests'[i].id = m_requests[i].id
                                           /\ m_requests'[i].length = m_requests[i].length
<1> DEFINE r == m_requests[iter]
           new == [r EXCEPT !.time_remaining = @ - 1]
<1>1. /\ m_requests' = [m_requests EXCEPT ![iter] = new]
      /\ iter \in DOMAIN m_requests /\ r.time_remaining > 0 /\ answers' = answers
  BY DEF CountDown
<1>2. /\ m_requests \in Seq(Request) /\ DOMAIN m_requests = 1 .. Len(m_requests)
      /\ r \in Request /\ r.time_remaining \in Nat
  BY <1>1, RequestFields DEF RequestsInv
<1>3. new \in Request /\ new.id = r.id /\ new.length = r.length
  BY <1>1, <1>2, CountedDown
<1> HIDE DEF new
<1>4. /\ m_requests' \in Seq(Request) /\ Len(m_requests') = Len(m_requests)
      /\ \A i \in 1 .. Len(m_requests) : m_requests'[i] = IF i = iter THEN new ELSE m_requests[i]
  BY <1>1, <1>2, <1>3, ExceptSeq
<1>5. DOMAIN m_requests' = DOMAIN m_requests
  BY <1>2, <1>4, LenProperties
<1>. QED BY <1>1, <1>2, <1>3, <1>4, <1>5

LEMMA RequestsNext == MusicInv /\ [Next]_vars => RequestsInv'
<1> SUFFICES ASSUME MusicInv, [Next]_vars PROVE RequestsInv'
  OBVIOUS
<1> DEFINE L == Len(m_requests)
           A == Len(answers)
<1>0. /\ ThreadsInv /\ RequestsInv
      /\ m_requests \in Seq(Request) /\ L \in Nat /\ DOMAIN m_requests = 1 .. L
      /\ answers \in Seq(Nat) /\ A \in Nat /\ DOMAIN answers = 1 .. A
  BY LenProperties DEF MusicInv, RequestsInv
<1>1. CASE GrabFreshSample
  <2>1. PICK seconds \in Durations :
           m_requests' = Append(m_requests, [id |-> A + 1, length |-> seconds,
                                             time_remaining |-> seconds])
    BY <1>1 DEF GrabFreshSample
  <2> DEFINE new == [id |-> A + 1, length |-> seconds, time_remaining |-> seconds]
  <2>2. answers' = Append(answers, 0) /\ owner = "up" /\ owner' = "up"
    BY <1>1 DEF GrabFreshSample, Call
  <2>3. new \in Request /\ new.id = A + 1
    BY <1>0, DurationsNatural DEF Request
  <2> HIDE DEF new
  <2>4. /\ m_requests' \in Seq(Request) /\ DOMAIN m_requests' = 1 .. L + 1
        /\ m_requests'[L + 1] = new
        /\ \A i \in 1 .. L : m_requests'[i] = m_requests[i]
    BY <1>0, <2>1, <2>3, AppendProperties, LenProperties DEF new
  <2>5. /\ answers' \in Seq(Nat) /\ DOMAIN answers' = 1 .. A + 1 /\ answers'[A + 1] = 0
        /\ \A id \in 1 .. A : answers'[id] = answers[id]
    BY <1>0, <2>2, AppendProperties, LenProperties
  <2>6. ASSUME NEW i \in 1 .. L
        PROVE  m_requests'[i].id \in 1 .. A /\ answers'[m_requests'[i].id] = 0
    BY <1>0, <2>4, <2>5 DEF RequestsInv
  <2>7. ASSUME NEW i \in 1 .. L + 1
        PROVE  /\ m_requests'[i].id \in 1 .. A + 1
               /\ answers'[m_requests'[i].id] = 0
    <3>1. CASE i = L + 1
      BY <1>0, <2>3, <2>4, <2>5, <3>1
    <3>2. CASE i \in 1 .. L
      BY <1>0, <2>6, <3>2
    <3>. QED BY <1>0, <3>1, <3>2
  <2>8. ASSUME NEW i \in 1 .. L + 1, NEW j \in 1 .. L + 1,
               m_requests'[i].id = m_requests'[j].id
        PROVE  i = j
    <3>1. CASE i \in 1 .. L /\ j \in 1 .. L
      BY <1>0, <2>4, <2>8, <3>1 DEF RequestsInv
    <3>2. CASE i = L + 1 /\ j \in 1 .. L
      <4>1. m_requests'[i].id = A + 1 /\ m_requests'[j].id \in 1 .. A
        BY <2>3, <2>4, <2>6, <3>2
      <4>. QED BY <1>0, <2>8, <4>1
    <3>3. CASE j = L + 1 /\ i \in 1 .. L
      <4>1. m_requests'[j].id = A + 1 /\ m_requests'[i].id \in 1 .. A
        BY <2>3, <2>4, <2>6, <3>3
      <4>. QED BY <1>0, <2>8, <4>1
    <3>4. CASE i = L + 1 /\ j = L + 1
      BY <3>4
    <3>. QED BY <1>0, <3>1, <3>2, <3>3, <3>4
  <2>9. ASSUME NEW id \in 1 .. A + 1
        PROVE  \/ answers'[id] = 1
               \/ answers'[id] = 0 /\ \E i \in 1 .. L + 1 : m_requests'[i].id = id
    <3>1. CASE id = A + 1
      <4>1. L + 1 \in 1 .. L + 1 /\ m_requests'[L + 1].id = A + 1
        BY <1>0, <2>3, <2>4
      <4>. QED BY <2>5, <3>1, <4>1
    <3>2. CASE id \in 1 .. A
      <4>1. \/ answers[id] = 1
            \/ answers[id] = 0 /\ \E i \in 1 .. L : m_requests[i].id = id
        BY <1>0, <2>2, <3>2 DEF RequestsInv
      <4>2. 1 .. L \subseteq 1 .. L + 1
        BY <1>0
      <4>. QED BY <2>4, <2>5, <3>2, <4>1, <4>2
    <3>. QED BY <1>0, <3>1, <3>2
  <2>. QED BY <2>4, <2>5, <2>7, <2>8, <2>9 DEF RequestsInv
<1>2. CASE CountDown
  <2>1. owner' = owner
    BY <1>2 DEF CountDown, WorkerGoes
  <2>. QED BY <1>0, <1>2, <2>1, CountDownKeeps DEF RequestsInv
<1>3. CASE Erase
  <2> DEFINE erased == m_requests[iter].id
             from(i) == IF i < iter THEN i ELSE i + 1
  <2>1. /\ iter \in 1 .. L /\ m_requests' = RemoveAt(m_requests, iter)
        /\ answers' = [answers EXCEPT ![erased] = @ + 1] /\ owner' = owner
    BY <1>0, <1>3 DEF Erase, WorkerGoes, ThreadsInv
  <2>2. /\ m_requests' \in Seq(Request) /\ DOMAIN m_requests' = 1 .. L - 1
        /\ \A i \in 1 .. L - 1 : m_requests'[i] = m_requests[from(i)]
    <3>1. /\ m_requests' \in Seq(Request) /\ Len(m_requests') = L - 1
          /\ \A i \in 1 .. L - 1 : m_requests'[i] = m_requests[from(i)]
      BY <1>0, <2>1, RemoveRequest
    <3>. QED BY <3>1, LenProperties
  <2>3. erased \in 1 .. A /\ answers[erased] = 0
    BY <1>0, <2>1 DEF RequestsInv
  <2>4. /\ answers' \in Seq(Nat) /\ DOMAIN answers' = 1 .. A
        /\ \A id \in 1 .. A : answers'[id] = IF id = erased THEN 1 ELSE answers[id]
    <3>1. answers' = [answers EXCEPT ![erased] = 1]
      BY <1>0, <2>1, <2>3
    <3>2. /\ answers' \in Seq(Nat) /\ Len(answers') = A
          /\ \A id \in 1 .. A : answers'[id] = IF id = erased THEN 1 ELSE answers[id]
      BY <1>0, <2>3, <3>1, ExceptSeq
    <3>. QED BY <3>2, LenProperties
  <2>5. \A i \in 1 .. L - 1 : from(i) \in 1 .. L /\ from(i) # iter
    BY <1>0, <2>1
  <2>6. \A i, j \in 1 .. L - 1 : from(i) = from(j) => i = j
    BY <1>0, <2>1
  <2>7. \A k \in 1 .. L : k # iter => \E i \in 1 .. L - 1 : from(i) = k
    <3> SUFFICES ASSUME NEW k \in 1 .. L, k # iter PROVE \E i \in 1 .. L - 1 : from(i) = k
      OBVIOUS
    <3>1. CASE k < iter
      <4>1. k \in 1 .. L - 1 /\ from(k) = k
        BY <1>0, <2>1, <3>1
      <4>. QED BY <4>1
    <3>2. CASE ~(k < iter)
      <4>1. k - 1 \in 1 .. L - 1 /\ from(k - 1) = k
        BY <1>0, <2>1, <3>2
      <4>. QED BY <4>1
    <3>. QED BY <3>1, <3>2
  <2>8. \A k \in 1 .. L : k # iter => /\ m_requests[k].id # erased
                                      /\ m_requests[k].id \in 1 .. A
                                      /\ answers[m_requests[k].id] = 0
    BY <1>0, <2>1 DEF RequestsInv
  <2>9. \A k, l \in 1 .. L : m_requests[k].id = m_requests[l].id => k = l
    BY <1>0 DEF RequestsInv
  <2> HIDE DEF from, erased
  <2>10. ASSUME NEW i \in 1 .. L - 1
         PROVE  /\ m_requests'[i].id \in 1 .. A /\ answers'[m_requests'[i].id] = 0
                /\ \A j \in 1 .. L - 1 : m_requests'[i].id = m_requests'[j].id => i = j
    <3>1. from(i) \in 1 .. L /\ from(i) # iter /\ m_requests'[i].id = m_requests[from(i)].id
      BY <2>2, <2>5
    <3>2. /\ m_requests[from(i)].id # erased
          /\ m_requests[from(i)].id \in 1 .. A
          /\ answers[m_requests[from(i)].id] = 0
      BY <2>8, <3>1
    <3>3. m_requests'[i].id \in 1 .. A /\ answers'[m_requests'[i].id] = 0
      BY <2>4, <3>1, <3>2
    <3>4. ASSUME NEW j \in 1 .. L - 1, m_requests'[i].id = m_requests'[j].id
          PROVE  i = j
      <4>1. from(j) \in 1 .. L /\ m_requests'[j].id = m_requests[from(j)].id
        BY <2>2, <2>5
      <4>2. from(i) = from(j)
        BY <2>9, <3>1, <3>4, <4>1
      <4>. QED BY <2>6, <4>2
    <3>. QED BY <3>3, <3>4
  <2>11. ASSUME NEW id \in 1 .. A
         PROVE  \/ answers'[id] = 1
                \/ answers'[id] = 0 /\ \E i \in 1 .. L - 1 : m_requests'[i].id = id
                \/ answers'[id] = 0 /\ owner' \in {"adaptor", "gone"}
    <3>1. CASE id = erased
      BY <2>4, <3>1
    <3>2. CASE id # erased
      <4>1. answers'[id] = answers[id]
        BY <2>4, <3>2
      <4>2. ASSUME NEW k \in 1 .. L, m_requests[k].id = id
            PROVE  \E i \in 1 .. L - 1 : m_requests'[i].id = id
        <5>1. k # iter
          BY <3>2, <4>2 DEF erased
        <5>. QED BY <2>2, <2>7, <4>2, <5>1
      <4>3. \/ answers[id] = 1
            \/ answers[id] = 0 /\ \E k \in 1 .. L : m_requests[k].id = id
            \/ answers[id] = 0 /\ owner \in {"adaptor", "gone"}
        BY <1>0 DEF RequestsInv
      <4>. QED BY <2>1, <4>1, <4>2, <4>3
    <3>. QED BY <3>1, <3>2
  <2>. QED BY <2>2, <2>4, <2>10, <2>11 DEF RequestsInv
<1>4. CASE FlushQueues
  <2>1. m_requests' = <<>> /\ answers' = answers /\ owner' \in {"adaptor", "gone"}
    BY <1>4 DEF FlushQueues
  <2>2. m_requests' \in Seq(Request) /\ DOMAIN m_requests' = {}
    <3>1. m_requests' \in Seq(Request) /\ Len(m_requests') = 0
      BY <2>1, EmptySeq
    <3>. QED BY <3>1, LenProperties
  <2>. QED BY <1>0, <2>1, <2>2 DEF RequestsInv
<1>5. CASE UNCHANGED <<m_requests, answers>>
  BY <1>0, <1>5, OwnerNext DEF RequestsInv
<1>. QED BY <1>1, <1>2, <1>3, <1>4, <1>5, WritersOfRequests

LEMMA LimitNext == MusicInv /\ [Next]_vars => LimitInv'
<1> SUFFICES ASSUME MusicInv, [Next]_vars PROVE LimitInv'
  OBVIOUS
<1>0. /\ ThreadsInv /\ RequestsInv /\ LimitInv /\ ThreadsInv' /\ RequestsInv'
  BY ThreadsNext, RequestsNext DEF MusicInv
<1>1. CASE SetPrecaptureDuration
  <2>1. PICK seconds \in Durations :
           /\ m_precapture_duration_seconds' = seconds
           /\ m_queue_upper_limit_bytes' = QueueSize(seconds, m_requests)
    BY <1>1 DEF SetPrecaptureDuration
  <2>2. reconciled' = TRUE /\ UNCHANGED <<properties, m_requests>>
    BY <1>1 DEF SetPrecaptureDuration, requestVars
  <2>3. m_queue_upper_limit_bytes' \in Nat
    BY <1>0, <2>1, DurationsNatural, QueueSizeNatural DEF RequestsInv
  <2>4. m_queue_upper_limit_bytes' = Demand'
    BY <2>1, <2>2 DEF QueueSize, Demand, data_rate
  <2>. QED BY <2>1, <2>2, <2>3, <2>4, DurationsNatural DEF LimitInv
<1>2. CASE GrabFreshSample \/ Erase
  <2>1. /\ m_queue_upper_limit_bytes' = QueueSize(m_precapture_duration_seconds, m_requests')
        /\ reconciled' = TRUE /\ UNCHANGED <<properties, m_precapture_duration_seconds>>
    BY <1>2 DEF GrabFreshSample, Erase, WorkerGoes
  <2>2. m_queue_upper_limit_bytes' \in Nat
    <3>1. m_requests' \in Seq(Request) /\ m_precapture_duration_seconds \in Nat
      BY <1>0 DEF RequestsInv, LimitInv
    <3>2. \A requests \in Seq(Request) :
             QueueSize(m_precapture_duration_seconds, requests) \in Nat
      BY <1>0, <3>1, QueueSizeNatural
    <3>. QED BY <2>1, <3>1, <3>2
  <2>3. m_queue_upper_limit_bytes' = Demand'
    BY <2>1 DEF QueueSize, Demand, data_rate
  <2>. QED BY <1>0, <2>1, <2>2, <2>3 DEF LimitInv
<1>3. CASE SetAudioProperties
  <2>1. /\ reconciled' = (reconciled /\ data_rate' = data_rate)
        /\ UNCHANGED <<m_precapture_duration_seconds, m_queue_upper_limit_bytes, m_requests, owner>>
    BY <1>3 DEF SetAudioProperties, requestVars
  <2>2. reconciled' \in BOOLEAN
    BY <2>1, Zenon
  <2>3. data_rate' = data_rate => Demand' = Demand
    BY <2>1 DEF Demand
  <2>4. owner' = "up" /\ reconciled' => m_queue_upper_limit_bytes' = Demand'
    BY <1>0, <2>1, <2>3 DEF LimitInv
  <2>. QED BY <1>0, <2>1, <2>2, <2>4 DEF LimitInv
<1>4. CASE /\ UNCHANGED <<properties, m_precapture_duration_seconds, m_queue_upper_limit_bytes,
                          reconciled>>
           /\ ~GrabFreshSample /\ ~Erase
  <2>1. CASE CountDown
    <3>1. \A i \in DOMAIN m_requests : m_requests'[i].length = m_requests[i].length
      BY <1>0, <2>1, CountDownKeeps
    <3>2. DOMAIN m_requests' = DOMAIN m_requests
      BY <1>0, <2>1, CountDownKeeps
    <3>3. {m_requests'[i].length : i \in DOMAIN m_requests'}
             = {m_requests[i].length : i \in DOMAIN m_requests}
      BY <3>1, <3>2
    <3>4. Demand' = Demand /\ owner' = owner
      BY <1>4, <2>1, <3>3 DEF Demand, MaxLength, data_rate, CountDown, WorkerGoes
    <3>. QED BY <1>0, <1>4, <3>4 DEF LimitInv
  <2>2. CASE FlushQueues
    <3>1. owner' # "up"
      BY <2>2 DEF FlushQueues
    <3>. QED BY <1>0, <1>4, <3>1 DEF LimitInv
  <2>3. CASE UNCHANGED <<m_requests, answers>>
    <3>1. Demand' = Demand
      BY <1>4, <2>3 DEF Demand, data_rate
    <3>. QED BY <1>0, <1>4, <3>1, OwnerNext DEF LimitInv
  <2>. QED BY <1>4, <2>1, <2>2, <2>3, WritersOfRequests
<1>. QED BY <1>1, <1>2, <1>3, <1>4, WritersOfLimit

LEMMA OutboxNext == OutboxInv /\ [Next]_vars => OutboxInv'
<1> SUFFICES ASSUME OutboxInv, [Next]_vars PROVE OutboxInv'
  OBVIOUS
<1>0. /\ clips \in Nat /\ m_outbox \in Seq(Nat) /\ (~ToSocket => m_outbox = <<>>)
      /\ (ToSocket)' = ToSocket
  BY WritersOfOwner DEF OutboxInv, ToSocket
<1>1. CASE PutClip
  <2>1. CASE ToSocket
    BY <1>0, <1>1, <2>1, AppendProperties DEF PutClip, OutboxInv
  <2>2. CASE ~ToSocket
    BY <1>0, <1>1, <2>2 DEF PutClip, OutboxInv, clipVars
  <2>. QED BY <2>1, <2>2
<1>2. CASE TakeClip
  <2>1. m_outbox # <<>> /\ m_outbox' = Tail(m_outbox) /\ clips' = clips
    BY <1>2 DEF TakeClip
  <2>. QED BY <1>0, <2>1, HeadTailProperties DEF OutboxInv
<1>3. CASE FlushOutbox
  BY <1>0, <1>3, EmptySeq DEF FlushOutbox, OutboxInv
<1>4. CASE UNCHANGED clipVars
  BY <1>0, <1>4 DEF clipVars, OutboxInv
<1>5. PutClip \/ TakeClip \/ FlushOutbox \/ UNCHANGED clipVars
  BY WritersOfOutbox DEF GrabPrecapturedSample, RequestIsUp, clipVars
<1>. QED BY <1>1, <1>2, <1>3, <1>4, <1>5

LEMMA MusicInit == Init => MusicInv
<1> SUFFICES ASSUME Init PROVE MusicInv
  OBVIOUS
<1>1. /\ ThreadsInv
  BY DEF Init, ThreadsInv
<1>2. QueueInv /\ TotalInv
  <2>1. <<>> \in Seq(Buffer) /\ <<>> \in Seq(Nat) /\ Len(<<>>) = 0
    BY EmptySeq
  <2>. QED BY <2>1, BytesOfNone DEF Init, QueueInv, TotalInv
<1>3. RequestsInv
  <2>1. <<>> \in Seq(Request) /\ <<>> \in Seq(Nat) /\ DOMAIN <<>> = {}
    BY EmptySeq
  <2>. QED BY <2>1 DEF Init, RequestsInv
<1>4. LimitInv
  <2>1. /\ m_precapture_duration_seconds = InitialPrecapture /\ m_requests = <<>>
        /\ m_queue_upper_limit_bytes = InitialPrecapture * data_rate /\ reconciled = TRUE
    BY DEF Init
  <2>2. InitialPrecapture \in Nat /\ data_rate \in Nat
    BY <1>1, DurationsNatural, DataRates DEF ThreadsInv, data_rate
  <2>3. {InitialPrecapture} \subseteq Nat /\ IsFiniteSet({InitialPrecapture})
    BY <2>2, FS_Singleton
  <2>4. Max({InitialPrecapture}) \in {InitialPrecapture}
    BY <2>3, MaxOfNumbers
  <2>5. {m_requests[i].length : i \in DOMAIN m_requests} = {}
    BY <2>1
  <2>6. MaxLength(InitialPrecapture, m_requests) = InitialPrecapture
    BY <2>4, <2>5 DEF MaxLength
  <2>7. m_queue_upper_limit_bytes = Demand
    BY <2>1, <2>6 DEF Demand
  <2>8. m_queue_upper_limit_bytes \in Nat
    BY <2>1, <2>2
  <2>. QED BY <2>1, <2>2, <2>7, <2>8 DEF LimitInv
<1>5. OutboxInv
  BY EmptySeq DEF Init, OutboxInv
<1>. QED BY <1>1, <1>2, <1>3, <1>4, <1>5 DEF MusicInv

\* The whole invariant of the client: the queue is the newest audio without a
\* gap, the requests are those not answered yet, the limit is what both need.
THEOREM MusicKept == Spec => []MusicInv
<1>1. MusicInv /\ [Next]_vars => MusicInv'
  BY ThreadsNext, QueueNext, RequestsNext, LimitNext, OutboxNext DEF MusicInv
<1>. QED BY <1>1, MusicInit, PTL DEF Spec
-----------------------------------------------------------------------------
(* What follows *)

\* Every buffer that q_mgr hands over is in the queue or has been given back
\* once, by a trim of the worker, by one of set_precapture_duration or by the
\* destructor: none is released twice (its reference count would go below the
\* number of its holders) and none is forgotten.
THEOREM BuffersAreAccounted == Spec => []BuffersAccounted
<1>1. MusicInv => BuffersAccounted
  <2> SUFFICES ASSUME MusicInv PROVE BuffersAccounted
    OBVIOUS
  <2>1. TypeOK
    BY DEF MusicInv, ThreadsInv, TotalInv, LimitInv, TypeOK
  <2> DEFINE L == Len(m_queue)
  <2>2. /\ L \in Nat /\ DOMAIN m_queue = 1 .. L /\ arrived \in Nat /\ L <= arrived
        /\ \A i \in 1 .. L : m_queue[i].id = arrived - L + i
        /\ \A id \in 1 .. arrived : released[id] = IF id > arrived - L THEN 0 ELSE 1
    BY LenProperties DEF MusicInv, QueueInv
  <2>3. ASSUME NEW id \in 1 .. arrived
        PROVE  released[id] + Cardinality({i \in DOMAIN m_queue : m_queue[i].id = id}) = 1
    <3> DEFINE Named == {i \in DOMAIN m_queue : m_queue[i].id = id}
    <3>1. CASE id > arrived - L
      <4>1. id - (arrived - L) \in 1 .. L
        BY <2>2, <3>1
      <4>2. \A i \in 1 .. L : arrived - L + i = id <=> i = id - (arrived - L)
        BY <2>2
      <4>3. Named = {id - (arrived - L)}
        BY <2>2, <4>1, <4>2
      <4>4. Cardinality(Named) = 1
        BY <4>3, FS_Singleton
      <4>5. released[id] = 0
        BY <2>2, <3>1
      <4>. QED BY <4>4, <4>5
    <3>2. CASE ~(id > arrived - L)
      <4>1. \A i \in 1 .. L : arrived - L + i # id
        BY <2>2, <3>2
      <4>2. Named = {}
        BY <2>2, <4>1
      <4>3. Cardinality(Named) = 0
        BY <4>2, FS_EmptySet
      <4>4. released[id] = 1
        BY <2>2, <3>2
      <4>. QED BY <4>3, <4>4
    <3>. QED BY <3>1, <3>2
  <2>. QED BY <2>1, <2>3 DEF BuffersAccounted
<1>. QED BY <1>1, MusicKept, PTL

\* Every request for a fresh sample waits, or was answered once, or was dropped
\* by the destructor, though the worker erases from the list that it walks through
\* and that the handler appends to.
THEOREM RequestsAreAnsweredOnce == Spec => []RequestsAnsweredOnce
<1>1. MusicInv => RequestsAnsweredOnce
  <2> SUFFICES ASSUME MusicInv, NEW id \in DOMAIN answers
               PROVE  LET waiting == Cardinality({i \in DOMAIN m_requests : m_requests[i].id = id})
                      IN  \/ answers[id] + waiting = 1
                          \/ owner \in {"adaptor", "gone"} /\ answers[id] = 0 /\ waiting = 0
    BY DEF RequestsAnsweredOnce
  <2> DEFINE Named == {i \in DOMAIN m_requests : m_requests[i].id = id}
  <2>1. /\ \A i \in DOMAIN m_requests : answers[m_requests[i].id] = 0
        /\ \A i, j \in DOMAIN m_requests : m_requests[i].id = m_requests[j].id => i = j
        /\ \/ answers[id] = 1
           \/ answers[id] = 0 /\ \E i \in DOMAIN m_requests : m_requests[i].id = id
           \/ answers[id] = 0 /\ owner \in {"adaptor", "gone"}
    BY DEF MusicInv, RequestsInv
  <2>2. CASE \E i \in DOMAIN m_requests : m_requests[i].id = id
    <3>1. PICK i \in DOMAIN m_requests : m_requests[i].id = id
      BY <2>2
    <3>2. Named = {i}
      BY <2>1, <3>1
    <3>3. Cardinality(Named) = 1
      BY <3>2, FS_Singleton
    <3>4. answers[id] = 0
      BY <2>1, <3>1
    <3>. QED BY <3>3, <3>4
  <2>3. CASE ~\E i \in DOMAIN m_requests : m_requests[i].id = id
    <3>1. Named = {}
      BY <2>3
    <3>2. Cardinality(Named) = 0
      BY <3>1, FS_EmptySet
    <3>. QED BY <2>1, <2>3, <3>2
  <2>. QED BY <2>2, <2>3
<1>. QED BY <1>1, MusicKept, PTL

\* A trim that takes anything leaves what a precapture and the requests need, and
\* less than a buffer more.
LEMMA TrimLeavesDemand ==
    ASSUME MusicInv, owner \in {"up", "join"}, NEW limit \in Nat, TrimQueue(limit)
    PROVE  /\ m_total_size' < m_total_size => m_total_size' >= limit
           /\ m_queue' # <<>> => m_total_size' - Head(m_queue').size < limit
<1> DEFINE q == m_queue
           L == Len(q)
<1>1. PICK n \in 0 .. L :
              /\ m_queue' = SubSeq(q, n + 1, L)
              /\ m_total_size' = m_total_size - Bytes(First(q, n))
              /\ n > 0 => m_total_size' >= limit
              /\ n < L => m_total_size' - q[n + 1].size < limit
  BY TrimEffect DEF MusicInv
<1>2. /\ q \in Seq(Buffer) /\ L \in Nat /\ n \in Nat /\ n <= L
      /\ \A i \in 1 .. L : q[i] \in Buffer
      /\ m_total_size \in Nat
  BY LenProperties, BufferFields DEF MusicInv, QueueInv, TotalInv
<1>3. n = 0 => m_total_size' = m_total_size
  <2> SUFFICES ASSUME n = 0 PROVE m_total_size' = m_total_size
    OBVIOUS
  <2>1. First(q, 0) \in Seq(Buffer) /\ Len(First(q, 0)) = 0
    BY <1>2, FirstIs
  <2>2. First(q, 0) = <<>>
    BY <2>1, EmptySeq
  <2>3. Bytes(First(q, n)) = 0
    BY <2>2, BytesOfNone
  <2>. QED BY <1>1, <1>2, <2>3
<1>4. m_queue' # <<>> => n < L /\ Head(m_queue') = q[n + 1]
  <2> SUFFICES ASSUME m_queue' # <<>> PROVE n < L /\ Head(m_queue') = q[n + 1]
    OBVIOUS
  <2>1. \A i \in n + 1 .. L : q[i] \in Buffer
    BY <1>2
  <2>2. /\ m_queue' \in Seq(Buffer) /\ Len(m_queue') = L - n
        /\ \A i \in 1 .. L - n : m_queue'[i] = q[n + i]
    BY <1>1, <1>2, <2>1, SubSeqProperties
  <2>3. Len(m_queue') # 0
    BY <2>2, EmptySeq
  <2>4. n < L /\ 1 \in 1 .. L - n
    BY <1>2, <2>2, <2>3
  <2>5. Head(m_queue') = m_queue'[1]
    BY <2>2, <2>3, HeadTailProperties
  <2>. QED BY <2>2, <2>4, <2>5
<1>. QED BY <1>1, <1>2, <1>3, <1>4

\* Neither the worker's trim nor that of set_precapture_duration takes audio that
\* a precapture or a waiting request needs, and each leaves less than a buffer
\* more, once the limit was computed at the present data rate.
THEOREM TrimsToDemand == Spec => TrimmedToDemand
<1> DEFINE Trimmed ==
        Trims /\ reconciled'
        => /\ m_total_size' < m_total_size => m_total_size' >= Demand'
           /\ m_queue' # <<>> => m_total_size' - Head(m_queue').size < Demand'
<1>1. MusicInv /\ [Next]_vars => [Trimmed]_vars
  <2> SUFFICES ASSUME MusicInv, [Next]_vars, Trims, reconciled'
               PROVE  /\ m_total_size' < m_total_size => m_total_size' >= Demand'
                      /\ m_queue' # <<>> => m_total_size' - Head(m_queue').size < Demand'
    OBVIOUS
  <2>1. owner = "up"
    BY DEF Trims
  <2>2. SetPrecaptureDuration \/ EndTick
    <3>1. CASE worker = "scan" /\ worker' = "awake"
      BY <3>1 DEF Next, Worker, vars, workerVars, WorkerGoes, DataCallback, SetAudioProperties,
          SetPrecaptureDuration, GrabFreshSample, GrabPrecapturedSample, TestAlive, WorkerLocks,
          CountDown, RequestIsUp, Erase, TakeClip, Destroy, FlushQueues, FlushOutbox
    <3>2. CASE released' # released /\ arrived' = arrived
      <4>1. ~FlushQueues
        BY <2>1 DEF FlushQueues
      <4>2. ~DataCallback
        <5>1. arrived \in Nat
          BY DEF MusicInv, QueueInv
        <5>. QED BY <3>2, <5>1 DEF DataCallback
      <4>. QED BY <3>2, <4>1, <4>2, WritersOfQueue
    <3>. QED BY <3>1, <3>2 DEF Trims
  <2>3. CASE SetPrecaptureDuration
    <3>1. PICK seconds \in Durations :
             /\ m_precapture_duration_seconds' = seconds
             /\ TrimQueue(QueueSize(seconds, m_requests))
      BY <2>3 DEF SetPrecaptureDuration
    <3>2. UNCHANGED <<properties, m_requests>>
      BY <2>3 DEF SetPrecaptureDuration, requestVars
    <3>3. Demand' = QueueSize(seconds, m_requests)
      BY <3>1, <3>2 DEF QueueSize, Demand, data_rate
    <3>4. QueueSize(seconds, m_requests) \in Nat
      BY DurationsNatural, QueueSizeNatural DEF MusicInv, RequestsInv
    <3>. QED BY <2>1, <3>1, <3>3, <3>4, TrimLeavesDemand
  <2>4. CASE EndTick
    <3>1. /\ TrimQueue(m_queue_upper_limit_bytes)
          /\ UNCHANGED <<properties, m_precapture_duration_seconds, m_requests, reconciled>>
      BY <2>4 DEF EndTick, WorkerGoes, limitVars, requestVars
    <3>2. Demand' = Demand
      BY <3>1 DEF Demand, data_rate
    <3>3. m_queue_upper_limit_bytes = Demand /\ m_queue_upper_limit_bytes \in Nat
      <4>1. reconciled
        BY <3>1, Zenon
      <4>. QED BY <2>1, <4>1 DEF MusicInv, LimitInv
    <3>. QED BY <2>1, <3>1, <3>2, <3>3, TrimLeavesDemand
  <2>. QED BY <2>2, <2>3, <2>4
<1>. QED BY <1>1, MusicKept, PTL DEF Spec, TrimmedToDemand

-----------------------------------------------------------------------------
(* The refinement *)

\* Each step makes a clip, takes the first, closes the source, or does none of it.
LEMMA SourceSteps == MusicInv /\ [Next]_vars => [Source!ClipNext]_(Source!clipVars)
<1> SUFFICES ASSUME MusicInv, [Next]_vars PROVE [Source!ClipNext]_(Source!clipVars)
  OBVIOUS
<1> USE DEF Source!clipVars, Source!ClipNext
<1>0. owner = "gone" => worker = "exited"
  BY DEF MusicInv, ThreadsInv
<1>1. CASE GrabPrecapturedSample \/ RequestIsUp
  <2>1. owner # "gone" /\ owner' = owner
    BY <1>0, <1>1 DEF GrabPrecapturedSample, RequestIsUp, Call, WorkerGoes
  <2>2. PutClip \/ UNCHANGED clipVars
    BY <1>1 DEF GrabPrecapturedSample, RequestIsUp
  <2>3. CASE UNCHANGED clipVars
    BY <2>1, <2>3 DEF clipVars
  <2>4. CASE PutClip /\ ~UNCHANGED clipVars
    <3>1. m_outbox' = Append(m_outbox, clips + 1) /\ clips' = clips + 1
      BY <2>4 DEF PutClip
    <3>2. Source!MakeClip
      BY <2>1, <3>1 DEF Source!MakeClip
    <3>. QED BY <3>2
  <2>. QED BY <2>2, <2>3, <2>4
<1>2. CASE TakeClip
  <2>1. Source!TakeClip
    BY <1>2 DEF TakeClip, Source!TakeClip
  <2>. QED BY <2>1
<1>3. CASE FlushOutbox
  <2>1. Source!CloseSource
    BY <1>3 DEF FlushOutbox, Source!CloseSource
  <2>. QED BY <2>1
<1>4. CASE FlushQueues
  <2>1. owner = "join" /\ UNCHANGED <<m_outbox, clips>>
    BY <1>4 DEF FlushQueues, clipVars
  <2>2. CASE ToSocket
    <3>1. owner' = "adaptor"
      BY <1>4, <2>2 DEF FlushQueues
    <3>. QED BY <2>1, <3>1
  <2>3. CASE ~ToSocket
    <3>1. owner' = "gone"
      BY <1>4, <2>3 DEF FlushQueues
    <3>2. m_outbox' = <<>>
      BY <2>1, <2>3 DEF MusicInv, OutboxInv
    <3>3. Source!CloseSource
      BY <2>1, <3>1, <3>2 DEF Source!CloseSource
    <3>. QED BY <3>3
  <2>. QED BY <2>2, <2>3
<1>5. CASE /\ UNCHANGED <<m_outbox, clips>>
           /\ UNCHANGED owner \/ Destroy
  <2>1. (owner = "gone")' = (owner = "gone")
    BY <1>5 DEF Destroy
  <2>. QED BY <1>5, <2>1
<1>. QED BY <1>1, <1>2, <1>3, <1>4, <1>5, WritersOfOutbox, WritersOfOwner

\* The client's clips are those of a ClipSource: numbered as they are cut, kept in
\* that order, each taken once or dropped with the client, whoever cuts them, the
\* handler or the worker.
THEOREM SourceImplemented == Spec => ImplementsClipSource
<1>1. Init => Source!ClipInit
  <2> SUFFICES ASSUME Init PROVE Source!ClipInit
    OBVIOUS
  <2>1. clips = 0 /\ m_outbox = <<>> /\ owner = "up"
    BY DEF Init
  <2>. QED BY <2>1 DEF Source!ClipInit
<1>. QED BY <1>1, MusicKept, SourceSteps, PTL DEF Spec, ImplementsClipSource, Source!ClipSpec
=============================================================================
