# A TLA+ model of audiocapturemgr

`audiocapturemgr` is the RDK daemon that captures the audio a set-top box plays
and hands it to applications: as clips for music recognition ("music id"), or as
a stream over a UNIX socket ("ip out"). This directory holds TLA+ modules that
model it, TLC configurations that check them, and TLAPS proofs of all they say
about safety.
Paths like `audio_capture_manager.cpp` are under `src/src/`, headers under
`src/include/`. `PROJECT.json` maps every definition to the lines it models.

## The system

| Component | State | Operations | Other parties |
|---|---|---|---|
| `q_mgr`, data path (`audio_capture_manager.cpp`) | incoming and outgoing queue of buffers, wake-up flag and semaphore, list of clients | `data_callback`/`add_data`, processor thread, `process_data`, `register_client`, `unregister_client`, `~q_mgr` | the device calls it; it calls every client's `data_callback` under `m_client_mutex` |
| `audio_buffer` (`audio_buffer.cpp`) | a reference count per buffer | create, `set_ref_audio_buffer`, `unref_audio_buffer`, free | queues, processor and clients share buffers |
| `q_mgr`, control path and data monitor | audio properties, `m_started`, monitor thread, byte counter | `set_audio_properties`, `start`, `stop`, `data_monitor` | the RMF capture device; the processor as a user of `m_client_mutex` |
| `acm_session_mgr` | list of sessions, counter; per session a client and an enable flag | ten bus calls: open, close, start, stop, get/set properties, get sample | IARM bus; owns the clients; answers by events |
| `ip_out_client` (`ip_out.cpp`) | listening socket, one connection, control pipe, worker thread | `open_output`, `close_output`, `data_callback`, worker | an application at the other end; `q_mgr`; its owner |
| `music_id_client` (`music_id.cpp`) | queue of buffers with a limit in bytes, requests, outbox of clips, worker thread | `data_callback`, grab precaptured or fresh sample, trim, send | `q_mgr`, `audio_converter`, `socket_adaptor` |
| `socket_adaptor` | listening socket, one connection, control pipe, callback, worker thread | start/stop listening, write, terminate, register callback | `music_id_client`, an application |
| `audio_converter` | parameters of a conversion | downmix, downsample, pass through, into a file or memory | called by `music_id_client` |
| `acm_main` | none | activate, wait, deactivate | |
| `acm_iarm_interface` | - | not built | |

The hard part is the concurrency. One device thread, one processor thread, one
monitor thread, one or two threads per client and the bus's threads meet in five
kinds of mutexes; several values are read or written outside them. Next come
life times: buffers that outlive a queue, clients that must not outlive their
registration, threads that must be joined before what they use goes. Then the
limits: queues that overflow, a slow client, counters that wrap, durations at
their maximum. Nothing is persisted; "restart" means that an application forgot
its session, or that capture was started again.

What makes each component correct:

* **data path**: no wake-up is lost, none is spurious; a client hears every
  buffer at most once and in order, and misses only what an overflow flushed;
  the backlog is bounded; a buffer is deleted once, after its last user.
* **control path**: the device runs exactly while a client is registered, with
  the properties last set; a monitor thread exists exactly while it runs; the
  stall report is right; no caller waits for ever.
* **sessions**: a session is listed, or being destroyed by one handler, or
  deleted once; a handler is left with a deleted one only if another destroyed it
  meanwhile; no deleted client is called; one music id client at most.
* **ip out**: one connection, counted exactly, never leaked or used closed;
  callbacks and the destructor return.
* **music id**: the queue is bounded, and never trimmed below what a precapture
  or a pending request needs; every request is answered once, and in the end;
  buffers and clips are neither lost nor kept, and clips leave in order.
* **socket adaptor**: one connection as above; a connection gets one clip at
  most and is let go; the destructor leaves nothing running or open.
* **converter**: what it writes fits the sink; how far beyond a buffer it reads,
  and how far the output is behind the input, is bounded by where the borders are.

## Modules

| Module | Models | |
|---|---|---|
| `AudioFeed` | the promise of the data path | abstract: one ordered backlog, broadcast buffer by buffer to the members of the moment, lossy before a broadcast begins |
| `QMgr` | data path and reference counts | detailed: implements `AudioFeed` |
| `CaptureControl` | control path and data monitor | |
| `SessionMgr` | session manager | |
| `IpOut` | ip out client | |
| `ClipSource` | what music id promises about clips for a socket | abstract: an outbox, first in, first out |
| `MusicId` | music id client | detailed: implements `ClipSource` |
| `SocketAdaptor` | socket adaptor, with the application at the other end | its worker's callback is left to whoever composes it |
| `ClipDelivery` | how clips reach applications | composes `SocketAdaptor` and `ClipSource` |
| `Conversion` | audio properties, rates, the converter's choice of operation | operators |
| `AudioConverter` | the converter's loops and sinks | uses `Conversion` |
| `QMgrInductive` | - | the inductive invariants of `QMgrProofs` |
| `NumberLemmas` | - | least and greatest numbers, sums of sequences |
| `*Proofs` | - | the theorems about the module named, with its inductive invariant |
| `MC*` | - | instances for TLC |

Type invariants are a conjunct of the invariant that needs them most
(but for `QMgr`, whose `TypeOK` is a property of its own): `MonitorFollowsCapture`,
`SessionsAccounted`, `OneConnection`, `BuffersAccounted`, `ReadsInBuffer`.

Some definitions have a mutated form (`Name_Bug`, its comment begins with
"Mutant"): a plausible slip in that code, which must make a property fail. They
are in no specification.

### QMgr

A step is what a thread does between two points where another may interfere: a
critical section, or one unprotected access of a shared variable. `pc` is where
the processor is: `launch` (it has not run yet), `test` (loop condition),
`callback` (inside `process_data`, `m_client_mutex` held), `clear`, `drain`,
`check`, `wait` (in `sem_wait`, which may return an error and end the thread,
`SemWaitFails`), `woken`, `swap`, `exited`. `owner` is where
`~q_mgr` is. Buffers are numbered as they are created; their bytes do not
matter. `m_refcount` and `frees` are the buffers' counts and the number of their
deletions, `held` what a client like `music_id_client` keeps (`Retaining`);
other clients release in the callback. `last` and `unheard` are history. The
size limit may change at any time to a member of `QueueSizes`, as
`set_audio_properties` does. `flush_system` has no caller and is left out.

### CaptureControl

`at[t]` is the next step of the call that thread `t` is in, from taking
`m_q_mutex` and `m_client_mutex` to each read in `start()`. Two of the five
property fields are modelled, so that a torn read can be seen; `m_q_mutex`
sections are one step. The device (external: RMF) records whether it runs and
with what. `start()` and `stop()` without the mutex are called only by a
program with a single thread, as `rmfAudioCaptureTestApp` is (`DirectCallers`).
The monitor waits on a condition variable: it times out, or is told.

### SessionMgr

A handler is its caller's `call` record: `at` (what it does next), `op`, `ptr`
(the session it has a pointer to) and, for a session it replaces, the one it
`opened`; `reply` is what the step just taken answered. Any caller may name any
session. `get_session` is the only place where the lock matters, everything after
it is a step of its own: test the flag, start or stop the client, set the flag,
delete, or, for the handlers that only read or change the session, `use`. Which of
these a handler is (`op` "use") is decided by what it does then, for until then
they are alike. `session` remembers every session ever opened, with the number of
its deletions. A handler whose session has been deleted can only go to
`undefined`, where it is not followed any further; a processor that would call a
deleted client does not. `contended` is history: the sessions that one handler
destroyed while another was at work on them, or that were started and stopped at
once. `delivering` is the processor with `m_client_mutex`, for which start and
stop wait. A client is what the session manager can see of it: registered or not,
pending requests, precapture duration. The frequency stands for the properties,
with the switch statements of the conversions and the refusal of a maximum
(`audio_capture_manager.cpp:234`).

### IpOut

`connection` and `application` are the two ends of each connection, in the order
in which they were made. The mutex is held over two steps only: by the processor
in `write` and by the owner in `pthread_join`; other critical sections are one
step. The constructor's two outcomes are the two initial states; a thread that
was never created and is joined is undefined behaviour, and `JoinUnset` has its
outcomes. `accept` and `select` may fail, and so may the message that tells the
worker to end (`CloseOutputUntold`): then `close_output` goes on without the join,
and a worker that runs after the destructor (`WorkerOutlivesClient`) is undefined.
That the write succeeds or not is free, since on a failed `pipe2` the descriptors
are whatever was in the member.

### MusicId

A buffer is its number and its size; a unit of size is a quarter of a second of
48 kHz stereo. The worker is `awake` (testing `m_worker_thread_alive`), wants the
`lock`, does a `scan` of the requests with `iter`, has cut a clip and will `erase`
its request; sleeping is being slow to take the next step. Only the worker holds
the lock over more than one step, because `SetAudioProperties` (of any session)
does not take it and may come in between; everybody else's critical section reads
the data rate once at most. How large a clip becomes is left to `AudioConverter`.
`released` and `answers` count per buffer and request; `reconciled` is history:
whether the limit was computed at the present data rate. `m_precapture_size_bytes`
is written and compared but never decides anything (`compute_queue_size` follows at
once), and is left out.

### SocketAdaptor and ClipDelivery

`owner` is the thread that constructs and destroys the client: `start_listening`,
the two writes and the message of `register_data_ready_callback`, `stop_listening`
up to the join, after it, and the removal of the path. `worker` is where the
adaptor's thread is: `select`, a message (`control`), a connection (`accept`),
the unlocked look at the callback (`ready`), then, in `ClipDelivery`, the
callback itself: `callback`, `write`, `reset` (`write_data` has closed the
descriptor and has yet to take the lock), `terminate`. A worker that calls back
without data is `undefined`. Connections are numbered, and `m_write_fd` is a
connection's number; a descriptor's number may be reused by the kernel, which
matters only if a closed one is used again, and that `OneConnection` excludes.
The lock is held over more than a step only between the two writes (`m_mutex`).
`pipe_made` is whether the constructor's `pipe2` succeeded: its failure is only
reported, every message is then lost, the destructor does not join the worker
(`StopUntold`), and the destructor of a joinable `std::thread` ends the process
(`Terminate`).
`ClipDelivery` takes its clips from `ClipSource`, which `MusicId` is shown to
implement, so that neither needs the state of the other.

### Conversion and AudioConverter

Rates are in units of 8 kHz; 44.1 kHz becomes 5 of them, which like the true rate
neither divides nor is divided by another. What is written is not bytes but
pieces: which buffer, from where, how many. Each turn of a loop is a step.
`buffer_size` is signed in one loop and unsigned in the others, as in the code:
an unsigned difference below zero is `undefined`, since the loop then runs on far
beyond the buffer. The loop over eight frames takes `Block`. Buffers may have any
size. `Beyond(i)` is by how much the last leap of the i-th buffer goes beyond its
end, which is where reading the next one begins; `Drift(i)` is the sum of that for
the buffers before the last one, by which the output is late there.

## Runs

| Run | Bounds | What it shows |
|---|---|---|
| `memory` | 2 clients that keep buffers, 3 buffers, queue limits 0 and 1 | counts exact, no deletion twice or early; only batches handled while nobody is registered leak; queued buffers leave the queues, and `~q_mgr` returns if the thread had started |
| `delivery` | 2 clients, 5 buffers, limits 0 and 1 | wake-ups, bounded backlog, order, and that `QMgr` implements `AudioFeed` |
| `control_threads` | 2 threads of 2 calls, 2 clients, 2x2 properties | device, registration, monitor and properties agree |
| `control_monitor` | 1 thread of 4 calls that also starts and stops directly, a counter that wraps at 3, the processor | stall report; every call returns |
| `sessions` | 3 callers with both types (symmetric) that name each other's sessions, 2 sessions, 1 pending request each, a frequency that is taken and one that is refused, durations on each side of the maximum | any sequence of calls, three handlers on one session: when a pointer may be stale, and that no session is lost |
| `ipout` | 3 connections | the one connection and the end of the client; callbacks and the destructor return, but for one deadlock; a thread outlives the client only if it could not be told |
| `ipout_close` (violation) | 1 connection | finding 1: that deadlock |
| `music` | 3 buffers of 1 or 2 units, 3 calls with 1 or 2 seconds, 1 change between two rates, each mode of delivery | queue, requests, outbox, destructor, in every order; implements `ClipSource` |
| `clips` | 3 connections, 2 clips | connection, clips and threads from construction to destruction |
| `converter` | every format at every rate, into itself and into mono and stereo of every rate; up to 3 buffers of 4 sizes or 5 of 2; clips of 0 to 2 seconds; blocks of 2 frames | the four operations and their borders |
| `converter_borders` (violation) | 48 to 16 kHz stereo, up to 3 buffers of 1 to 3 frames | finding 3 |
| `converter_sink` (violation) | 16-bit stereo to mono, up to 4 buffers of half a second or one | finding 2 |

Why the bounds are enough. A limit of 0 and of 1 lets an overflow flush one or
two buffers at each point of a batch, and five buffers are one more than both
queues may hold together (three are enough for the counts: one being handed out,
one flushed, one that follows); a client beyond the second plays no part the first two
do not. Two threads with two calls each give each pair of calls, begun while
capture is off or on, every interleaving. Two sessions allow one that replaces, or
outlives, the other; three callers let one destroy a session, a second replace or
close it too, and a third still hold its pointer. Three connections are one that
was replaced, one in use, one that waits. Three buffers of two sizes let a trim
fall short of the limit, reach it and pass it in the middle of a buffer, and three
calls give two requests of different lengths and a new precapture duration, around
each change of the rate. Among the converter's buffers are one
frame, one and a half, as many as a leap takes, and a second, so that each loop
ends at, before and behind the end of a buffer, and three of them in a row let the
leap of the first be lost in the second; a block of two frames has the
same borders as one of eight. None of this matters to the theorems, which hold for
all bounds; it matters to the liveness properties.

Deadlock is not checked where the bounds, or the end of the modelled object,
stop the system; it is checked in the session run, where something can always go on.

### Properties with a condition

Some properties say under what condition they hold, and the condition is where the
code does not promise more:

* `TrimmedToDemand` (`music`) holds when the limit has been computed since the data
  rate last changed: `set_audio_properties` (`music_id.cpp:115`) does not do it, and
  after a rise of the rate a trim takes what a precapture needs until the next
  request or duration.
* `ClipFits` (`converter`) holds when a queue that is downmixed is at most a second
  longer than the clip; without that it is finding 2. It is about one data rate: a
  cut reads the manager's rate and then its properties (`music_id.cpp:205`, `210`),
  and a change in between gives the clip a size of one rate and the sink of another.
* `ClipFits` also takes buffers of whole groups of frames (`Aligned`): reads beyond
  a buffer write more than the buffers hold. `ReadsInBuffer` and
  `OutputFollowsStream` have no condition: they say what is read and written for
  buffers of any size, what lies behind a buffer included (finding 3).
* `QueuedBuffersMoveOn` (`memory`) excepts a processor that a semaphore error has
  ended (`audio_capture_manager.cpp:337`): nothing starts another one.
* `StalePointerMeansOverlap` and `CalledClientsAlive` (`sessions`) say what holds of
  sessions on which handlers were not in each other's way. The others are excepted
  as far as a stale pointer, the enable flag and the list of clients go, and only
  they: `SessionsAccounted` and `OneMusicIdClient` hold for all.
* `DestroyedQuiet` (`ipout`) excepts a worker that could not be told to end
  (`ip_out.cpp:183`): it runs on with a deleted client.
* `ConnectionEnds` and `DestructorReturns` (`clips`) admit a worker that ended
  because `select` failed, the undefined call without data, and an adaptor whose
  constructor got no pipe: without it nobody is told of the callback, and the
  destructor ends the process (`socket_adaptor.cpp:158`).

### Fairness

* `QMgr!FairSpec`: the processor takes a step whenever it can; so does the
  destructor once begun. Both are threads that wait only for mutexes held
  briefly and for the semaphore. Nothing obliges the device to deliver, and
  nothing obliges or forbids `sem_wait` to fail.
* `CaptureControl!FairSpec`: begun calls go on, callbacks return, the monitor's
  wait ends. Applications need not call.
* `IpOut!FairSpec`: threads go on; a mutex, or room in the socket, that becomes
  available again and again is got in the end (strong fairness); and an
  application that has stalled reads on or leaves. The last is an assumption
  about the other end that the code does nothing to ensure: without it `write`
  blocks with the client's and `q_mgr`'s mutex.
* `MusicId!FairSpec`: the worker goes on, and the destructor once begun. Weak
  fairness is enough: nobody waits with the lock. Neither calls nor buffers need
  come.
* `ClipDelivery!FairSpec`: constructor and destructor go on once begun, the worker
  goes on; `accept` does not fail for ever, and a stalled application reads on or
  leaves, both as for `IpOut`. Nobody need destroy the client.

### Findings

1. `close_output` joins, with the lock held, a worker that may wait for it
   (`ip_out.cpp:190`).
2. The fast path of `downmix` writes the whole queue into a sink made for a clip
   (`audio_converter.cpp:193`). The daemon's queue is longer than a clip and its
   spare second whenever a longer request is pending.
3. What the last leap went beyond a buffer moves the pointer into the next one
   (`audio_converter.cpp:141`) but not the count of its bytes (`:147`): up to a leap
   is read from behind that buffer, and the output is late by as much from there on.
   A buffer of whole frames whose number is no multiple of the leap (up to three
   frames, from 48 kHz) is enough. The daemon's own music id output is 48 kHz, the
   highest rate, so only other users of the converter downsample.

Met on the way and modelled as they are, without a run of their own:

* A fresh sample that was queued is reported as `ACM_RESULT_GENERAL_FAILURE`, for
  the id that `grab_fresh_sample` returns is never assigned (`music_id.cpp:299`,
  `acm_session_mgr.cpp:730`); `musicIdTestApp.cpp:217` takes that for a failed call.
* `~q_mgr` may overtake the first statement of the processor thread, which sets
  the flag again (`audio_capture_manager.cpp:309`), and then joins it for ever;
  the comment at line 342 takes the case for covered. The daemon never deletes its
  manager; the library's users may.
* `set_audio_properties` returns 0 for properties another thread has stored and
  not yet applied (`:227`), where the header (line 114) promises a restart.
* `register_client` returns 0 although the device did not start (`:400`), and
  `start` sets `m_started` all the same, so no later call tries again.
* A second open of music id destroys the session that its comment says it reuses
  (`acm_session_mgr.cpp:243`).
* A default of 24 kHz has no case in the switch of
  `get_default_audio_props_handler` and is reported as 48 kHz; the maximum duration
  is reported by one handler and refused by the other (line 660).
* `grab_last_n_seconds` cuts from the front of the queue, the oldest audio. The
  queue is as long as the longest of precapture and pending requests, so a fresh
  sample that is shorter than the precapture (`music_id.h:98` promises the next
  seconds), or a precapture while a longer request is pending, is older than asked
  for.
* A format that cannot be converted gives an empty clip (`music_id.cpp:216` ignores
  what `convert` returns), and the request is answered as fulfilled.
* An interrupted `sem_wait` ends the processor thread for good
  (`audio_capture_manager.cpp:337`); buffers are then queued and flushed unheard.
* A failed `pipe2` is only reported. `~ip_out_client` then does not join its worker,
  which runs on with the deleted client (`ip_out.cpp:183`); `~socket_adaptor`
  terminates the process (`socket_adaptor.cpp:158`).
* `m_listen_fd` is closed by nobody (`ip_out.cpp:193`): each session leaks a descriptor,
  and an application whose connection is still queued never sees it end.
* Two handlers on one session: `get_session` gives up the lock with the pointer in
  hand (`acm_session_mgr.cpp:329`), and the session may be deleted before it is used.
  A start and a stop at once may leave the enable flag false and the client
  registered, so that a close deletes a client the source still calls.
* After a failed `accept` the callback takes a clip that nobody gets
  (`socket_adaptor.cpp:205`); `ClipsAccounted` says that this, and an application
  that leaves, are the only ways to lose one.

## Proofs

Every invariant, and every action property and refinement, that a passing run
checks on an instance is a theorem for all values of the constants that the
modules' assumptions admit. TLC evaluates those assumptions in every run.

| Module | Inductive invariant | Theorems (properties) |
|---|---|---|
| `QMgrProofs` | `WakeupInv`, `OrderInv`, `MemoryInv`, `QueuesBounded`, `LeakInv` | `TypeCorrect`, `WakeupNeverLost` (`NoLostWakeup`), `WakeupHasData` (`WakeupFindsData`), `OrderOfDelivery` (`DeliveredInOrder`), `DeletedOnce` (`NoDoubleFree`), `DeletedLast` (`NoDanglingBuffer`), `CountedExactly` (`RefcountExact`), `BoundedBacklog` (`BacklogBounded`), `OthersAreDeleted` (`OnlyUnheardBuffersLeak`), `FeedImplemented` (`ImplementsFeed`) |
| `CaptureControlProofs` | `ControlInv` | `PropertiesInForce` (`SettingsInForce`), `CaptureOnDemand` (`CaptureFollowsClients`), `MonitorOnDemand` (`MonitorFollowsCapture`), `StallsReportedExactly` (`StallReportExact`) |
| `SessionMgrProofs` | `MgrInv` | `StaleOnlyByOverlap` (`StalePointerMeansOverlap`), `NoDeadClientCalled` (`CalledClientsAlive`), `NoSessionLost` (`SessionsAccounted`), `OneMusicId` (`OneMusicIdClient`) |
| `IpOutProofs` | `IpOutInv` | `ConnectionKept` (`OneConnection`), `QuietWhenDestroyed` (`DestroyedQuiet`) |
| `ClipDeliveryProofs` | `DeliveryInv` | `ConnectionsKept` (`OneConnection`), `OneClipEach` (`OneClipPerConnection`), `NoClipLost` (`ClipsAccounted`), `QuietWhenDestroyed` (`DestroyedQuiet`) |
| `MusicIdProofs` | `MusicInv` | `BuffersAreAccounted` (`BuffersAccounted`), `RequestsAreAnsweredOnce` (`RequestsAnsweredOnce`), `TrimsToDemand` (`TrimmedToDemand`), `SourceImplemented` (`ImplementsClipSource`) |
| `AudioConverterProofs` | `ConvertInv` | `ReadsStayInBuffer` (`ReadsInBuffer`), `OutputIsTheStream` (`OutputFollowsStream`), `TakesItsFill` (`TakesWhatWasAsked`), `SinkIsLargeEnough` (`ClipFits`) |

Each invariant has a lemma for the initial states and one for the steps, with a
case per action; lemmas about what an action writes keep the obligations small.
Each was checked by TLC on the instance of its run before it was proved; to do so
again, give the run's MC module the definitions in front of the lemmas.

### Why the properties are not inductive, and what makes them so

* `QMgr`. That a post is not lost depends on the semaphore being 0 while the
  processor is awake (`PostsMeanData`). Order needs the two queues ordered between
  each other, and an outgoing queue that is empty from the drain to the swap, which
  would otherwise bring old buffers back (`DrainedOK`). Exact counts rest on no
  client holding a buffer twice, so `MemoryInv` has `OrderInv` in it, and counts per
  buffer those who hold it and those the batch has still to call. `LeakInv`: while a
  batch is processed with nobody registered, all that is left of it goes unheard.
  `QueuesBounded`: each queue is at most one longer than the largest limit.
* `AudioFeed` is implemented with the outgoing queue, from the cursor on, before the
  incoming one as backlog: a swap, the drain, the flag and the semaphore stutter, a
  callback is a broadcast, an overflow loses what is in the incoming queue only.
* `CaptureControl`. `StepInv` and `ClientsInv` say what the thread inside `start` or
  `stop` has read and nobody else can change; that there is one such thread is
  `LockInv`, or that who calls without the mutex is alone. `SettingsInv` follows the
  properties through the two reads of `start`. `StallInv`: the counter is ahead of
  the saved value by what arrived, or by that less the modulus.
* `SessionMgr`. A handler that destroys a session has taken it out of the list first,
  so no other can find it any more to destroy it as well, and it finds it whole
  (`HandlerInv`, `PairInv`); any other handler may find its session deleted, and
  then the two were on it at once, which the second to come has noted. `SessionInv`
  follows each session: listed, with its one destroyer, or deleted once; and as long
  as handlers were not in each other's way, flag and client list differ only between
  two steps of one of them.
* `IpOut` and `ClipDelivery`. The descriptor, the count and the connection's own state
  agree (`ConnectionInv`), which needs who holds the lock, or is between
  `write_data`'s close and its lock; `WorkerInv` and `QueueInv` that `accept`
  finds somebody. The order of clips needs that connections are accepted in order.
* `MusicId`. The queue is the newest buffers without a gap, so those given back are
  the others; `m_total_size` is their sum; the worker's iterator stays on a
  request it will erase, while the handler appends behind it.
* `AudioConverter`. In a buffer the pointer has moved by whole groups from where the
  leap before it ended, and pointer and bytes left add up to the buffer and that leap
  (`GroupInv`); so what the last leap goes beyond is the size rounded up to groups
  less the size, and as many pieces were written as groups were begun, but for the
  drift (`FollowInv`). What is left to take is what was asked for less the buffers
  done (`PlaceInv`), and a new buffer begins only while something is (`StopInv`).

Sums over a queue are recursive functions. What such a function returns for
every queue would need induction over data; instead `NumberLemmas` and the first
lemmas of `MusicIdProofs` take the least number for which a claim about partial sums
is false, and find one below it.

### Assumptions

They are the named `ASSUME`s of the modules. Those that say something:

* `QMgr`: finitely many clients; limits are natural numbers from a finite set
  (they are `unsigned int`). `CaptureControl`: finitely many threads and clients, at
  least one client; who calls `start` and `stop` directly is alone; the
  counter does not go round within an interval (5 s are under 5 MB).
* `SessionMgr`: finitely many callers; each may open any type and name any session.
* `MusicId`: data rates are positive, and a buffer is not empty and lasts a second at
  most. `AudioConverter`: a queue has buffers and they are not empty.
* Bounds such as `MaxBuffers` are any natural numbers.

`SinkIsLargeEnough`, `TrimsToDemand`, `StaleOnlyByOverlap`, `NoDeadClientCalled` and
IpOut's `QuietWhenDestroyed` keep the conditions given above (Properties with a
condition).

### What the proofs found

Two CASE expressions of the model, `Operation` (`Conversion`) and
`ProcessControlMessage` (`SocketAdaptor`), translated a chain of `if`s with
conditions that overlap. TLC takes the first arm that is true, but CASE does not say
which is taken, and the proofs got stuck there. They are IF and exclusive arms now.

### Checked by TLC only

Liveness under fairness is out of the prover's reach (it has no ENABLED):
`QueuedBuffersMoveOn`, `DestructorReturns`, `CallsReturn`, `OnlyKnownHang`,
`CallbackReturns`, `EveryRequestEnds`, `ConnectionEnds`. So are the four
violations, which are counterexamples.

## Assumptions about what is outside

* The RMF device makes one data callback at a time and none after its stop
  returned.
* Which bus calls run together is not stated in the repository: all of them may. What
  a handler does with a deleted session, and a processor with a deleted client, is
  undefined and not followed.
* The session manager deletes a music id client between two calls on it, and
  stops it first.
* Allocation, thread creation and mutex calls succeed; a message is written to a
  control pipe whenever the pipe was made.

## Not modelled

`acm_main` has no state, `acm_iarm_interface` is not built (`Makefile.am` does not
list it), the test applications are menus. Log output, path names, WAV headers and
the contents of files, bus initialisation and the delivery of events are left out,
as are samples: the converter's model knows where each came from. Division by a
zero threshold in `set_audio_properties` (`audio_capture_manager.cpp:245`) and the
unlocked copy in `get_audio_properties` have no property: nothing is promised, and
they are plain from the lines. `socket_adaptor::get_active_connections`, which
returns an unlocked read after it took a locked one, has no caller; neither has
`q_mgr::flush_system`.

## Plan

Done, in this order: `AudioFeed` and `QMgr` with its proofs (everything else
feeds on it), `CaptureControl`, `SessionMgr`, `IpOut`, `MusicId` with `ClipSource`,
`SocketAdaptor` with `ClipDelivery`, `Conversion` with `AudioConverter`, then the
proofs about each of them. To come:

1. Lemmas about the ends that the liveness properties need and that are safety:
   who waits for a lock finds a holder that can go on (`CaptureControl`, `QMgr`,
   and `IpOut` but for the deadlock found).
2. `Daemon`: `SessionMgr` with `IpOut` clients, so that a close that hangs is
   seen by the other sessions.
3. Which audio a clip has: buffers by their place in time, to say how old a clip
   may be.
