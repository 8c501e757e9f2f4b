--------------------------- MODULE CaptureControl ---------------------------
(***************************************************************************)
(* The control path of q_mgr (src/src/audio_capture_manager.cpp): threads  *)
(* of the application that register and unregister clients, change the     *)
(* audio properties and start or stop the device, beside the data monitor  *)
(* thread, the processor thread (only as a user of m_client_mutex) and the *)
(* capture device.                                                         *)
(*                                                                         *)
(* set_audio_properties takes m_q_mutex and then, separately,              *)
(* m_client_mutex; register_client and unregister_client take              *)
(* m_client_mutex.  start() and stop() run inside them, and read           *)
(* m_audio_properties without m_q_mutex, field by field.  The step names   *)
(* in `at` say what the thread does next.                                  *)
(***************************************************************************)
EXTENDS Integers, FiniteSets

CONSTANTS Threads,        \* threads of the application
          DirectCallers,  \* those that also call start() and stop() themselves
          Clients,
          Formats, Freqs, \* the two properties that stand for the five fields
          CounterMod,     \* m_inflow_byte_counter is unsigned: it wraps here
          MaxPerInterval, \* most data the device delivers in a monitor interval
          MaxCalls,       \* bound on the calls each thread makes
          MaxBatches      \* bound on the batches the processor hands out

\* start() and stop() take no mutex: a program that calls them itself has one
\* thread (rmfAudioCaptureTestApp).
ASSUME DirectCallsAreSequential ==
    DirectCallers \subseteq Threads /\ (DirectCallers # {} => Cardinality(Threads) = 1)
ASSUME ThreadsAndClientsFinite ==
    IsFiniteSet(Threads) /\ IsFiniteSet(Clients) /\ Clients # {}
\* The counter cannot go round within one monitor interval: 5 s of the highest
\* data rate are under 5 MB, unsigned int counts 4 GB.
ASSUME CounterDoesNotLap == CounterMod \in Nat \ {0} /\ MaxPerInterval \in 0 .. CounterMod - 1
ASSUME ControlBounds == MaxCalls \in Nat /\ MaxBatches \in Nat

Properties == [format : Formats, freq : Freqs]
Free == "free"
ProcessorHolds == "processor"
ASSUME ThreadNames == Free \notin Threads /\ ProcessorHolds \notin Threads

VARIABLES
    at, op, client, settings, ret,  \* each thread's call: step, kind, arguments, result
    calls,                          \* calls each thread has begun
    m_audio_properties,
    m_client_mutex, m_clients, m_started,
    device,                         \* [running, settings]: the capture device
    m_stop_data_monitor, monitor,   \* monitor thread: none, launched, waiting, exited
    m_inflow_byte_counter, saved_byte_counter, is_stalled,
    arrived,                        \* history: data since the monitor last looked
    batches

callVars    == <<op, client, ret, calls>>
controlVars == <<m_audio_properties, m_client_mutex, m_clients>>
monitorVars == <<m_stop_data_monitor, monitor>>
stallVars   == <<m_inflow_byte_counter, saved_byte_counter, is_stalled, arrived>>
vars == <<at, callVars, settings, controlVars, m_started, device, monitorVars, stallVars, batches>>

Steps == {"idle", "lock", "stop", "join", "stopDevice", "start", "readFreq",
          "startDevice", "startMonitor", "unlock"}
Ops == {"none", "set", "register", "unregister", "start", "stop"}

Init ==
    /\ at = [t \in Threads |-> "idle"]
    /\ op = [t \in Threads |-> "none"]
    /\ client = [t \in Threads |-> CHOOSE c \in Clients : TRUE]
    /\ ret = [t \in Threads |-> 0]
    /\ calls = [t \in Threads |-> 0]
    /\ m_audio_properties \in Properties
    /\ settings = [t \in Threads |-> m_audio_properties]
    /\ m_client_mutex = Free
    /\ m_clients = {}
    /\ m_started = FALSE
    /\ device = [running |-> FALSE, settings |-> m_audio_properties]
    /\ m_stop_data_monitor = TRUE
    /\ monitor = "none"
    /\ m_inflow_byte_counter = 0
    /\ saved_byte_counter = 0
    /\ is_stalled = FALSE
    /\ arrived = 0
    /\ batches = 0

-----------------------------------------------------------------------------
(* Calls of the application *)

\* Thread t begins a call of kind o: it may, and the call is counted.
Begins(t, o) ==
    /\ at[t] = "idle"
    /\ calls[t] < MaxCalls
    /\ calls' = [calls EXCEPT ![t] = @ + 1]
    /\ op' = [op EXCEPT ![t] = o]

Goto(t, step) == at' = [at EXCEPT ![t] = step]

\* set_audio_properties under m_q_mutex.  Properties that compare equal byte
\* for byte are no change; the struct ends in padding, so equal properties may
\* also compare unequal.  Properties beyond eMax are refused.
SetAudioProperties(t) ==
    /\ Begins(t, "set")
    /\ \/ \E p \in Properties :
             \/ /\ p = m_audio_properties
                /\ Goto(t, "idle")
                /\ ret' = [ret EXCEPT ![t] = 0]
                /\ UNCHANGED m_audio_properties
             \/ /\ m_audio_properties' = p
                /\ Goto(t, "lock")
                /\ UNCHANGED ret
       \/ /\ Goto(t, "idle")
          /\ ret' = [ret EXCEPT ![t] = -1]
          /\ UNCHANGED m_audio_properties
    /\ UNCHANGED <<client, settings, m_client_mutex, m_clients, m_started, device,
                   monitorVars, stallVars, batches>>

CallForClient(t, o, c) ==
    /\ Begins(t, o)
    /\ Goto(t, "lock")
    /\ client' = [client EXCEPT ![t] = c]
    /\ UNCHANGED <<settings, ret, controlVars, m_started, device, monitorVars,
                   stallVars, batches>>

\* The public start() and stop(), without m_client_mutex.
CallDirect(t) ==
    /\ t \in DirectCallers
    /\ \E o \in {"start", "stop"} : Begins(t, o) /\ Goto(t, o)
    /\ UNCHANGED <<client, settings, ret, controlVars, m_started, device, monitorVars,
                   stallVars, batches>>

-----------------------------------------------------------------------------
(* The sections under m_client_mutex, up to the start or stop they decide. *)

TakesClientMutex(t, o) ==
    /\ at[t] = "lock"
    /\ op[t] = o
    /\ m_client_mutex = Free
    /\ m_client_mutex' = t
    /\ UNCHANGED <<callVars, settings, m_audio_properties, m_started, device, monitorVars,
                   stallVars, batches>>

\* Mutant: the device is started again without being stopped.
RestartIfStarted_NoStop(t) ==
    /\ TakesClientMutex(t, "set")
    /\ Goto(t, IF m_started THEN "start" ELSE "unlock")
    /\ UNCHANGED m_clients

\* needs_restart is the m_started read here: the call stops the device exactly
\* when it will start it again.
RestartIfStarted(t) ==
    /\ TakesClientMutex(t, "set")
    /\ Goto(t, IF m_started THEN "stop" ELSE "unlock")
    /\ UNCHANGED m_clients

\* Only a client that was not present is added, and only the first one starts
\* the device.
AddsFirstClient(c) == c \notin m_clients /\ Cardinality(m_clients \cup {c}) = 1

RegisterClient(t) ==
    /\ TakesClientMutex(t, "register")
    /\ m_clients' = m_clients \cup {client[t]}
    /\ Goto(t, IF AddsFirstClient(client[t]) THEN "start" ELSE "unlock")

\* Mutant: the device is stopped while another client is still registered.
LastClientGone_OffByOne(remaining) == Cardinality(remaining) <= 1

LastClientGone(remaining) == Cardinality(remaining) = 0

UnregisterClient(t) ==
    /\ TakesClientMutex(t, "unregister")
    /\ m_clients' = m_clients \ {client[t]}
    /\ Goto(t, IF LastClientGone(m_clients \ {client[t]}) THEN "stop" ELSE "unlock")

\* A call under m_client_mutex ends by releasing it and returns 0; start() and
\* stop() of the device do not decide the result.
ReleaseClientMutex(t) ==
    /\ at[t] = "unlock"
    /\ m_client_mutex' = Free
    /\ Goto(t, "idle")
    /\ ret' = [ret EXCEPT ![t] = 0]
    /\ UNCHANGED <<op, client, settings, calls, m_audio_properties, m_clients, m_started, device,
                   monitorVars, stallVars, batches>>

-----------------------------------------------------------------------------
(* stop() *)

\* Where the caller goes when stop(), or start(), is over.
AfterStop(t) == CASE op[t] = "stop" -> "idle"
                  [] op[t] = "set" -> "start"
                  [] OTHER -> "unlock"
AfterStart(t) == IF op[t] = "start" THEN "idle" ELSE "unlock"

StopAlreadyStopped(t) ==
    /\ at[t] = "stop"
    /\ ~m_started
    /\ Goto(t, AfterStop(t))
    /\ ret' = [ret EXCEPT ![t] = 0]
    /\ UNCHANGED <<op, client, calls, settings, controlVars, m_started, device, monitorVars,
                   stallVars, batches>>

\* Mutant: the monitor is not told to stop.
TellMonitor_Forgotten == UNCHANGED m_stop_data_monitor

TellMonitor == m_stop_data_monitor' = TRUE

StopMonitor(t) ==
    /\ at[t] = "stop"
    /\ m_started
    /\ TellMonitor
    /\ Goto(t, "join")
    /\ UNCHANGED <<callVars, settings, controlVars, m_started, device, monitor, stallVars,
                   batches>>

\* Mutant: the monitor thread is stopped but never joined.
JoinMonitor_Forgotten(t) ==
    /\ at[t] = "join"
    /\ Goto(t, "stopDevice")
    /\ UNCHANGED <<callVars, settings, controlVars, m_started, device, monitorVars, stallVars,
                   batches>>

JoinMonitor(t) ==
    /\ at[t] = "join"
    /\ monitor = "exited"
    /\ monitor' = "none"
    /\ Goto(t, "stopDevice")
    /\ UNCHANGED <<callVars, settings, controlVars, m_started, device, m_stop_data_monitor,
                   stallVars, batches>>

\* Mutant: m_started is cleared, the device runs on.
StopDevice_Forgotten(t) ==
    /\ at[t] = "stopDevice"
    /\ m_started' = FALSE
    /\ Goto(t, AfterStop(t))
    /\ ret' = [ret EXCEPT ![t] = 0]
    /\ UNCHANGED <<op, client, calls, settings, controlVars, device, monitorVars, stallVars,
                   batches>>

StopDevice(t) ==
    /\ at[t] = "stopDevice"
    /\ device' = [device EXCEPT !.running = FALSE]
    /\ m_started' = FALSE
    /\ Goto(t, AfterStop(t))
    /\ ret' = [ret EXCEPT ![t] = 0]
    /\ UNCHANGED <<op, client, calls, settings, controlVars, monitorVars, stallVars, batches>>

-----------------------------------------------------------------------------
(* start() *)

StartAlreadyStarted(t) ==
    /\ at[t] = "start"
    /\ m_started
    /\ Goto(t, AfterStart(t))
    /\ ret' = [ret EXCEPT ![t] = 0]
    /\ UNCHANGED <<op, client, calls, settings, controlVars, m_started, device, monitorVars,
                   stallVars, batches>>

ResetCounter == m_inflow_byte_counter' = 0

\* The settings are read field by field, without m_q_mutex.
StartReadFormat(t) ==
    /\ at[t] = "start"
    /\ ~m_started
    /\ ResetCounter
    /\ arrived' = 0
    /\ settings' = [settings EXCEPT ![t].format = m_audio_properties.format]
    /\ Goto(t, "readFreq")
    /\ UNCHANGED <<callVars, controlVars, m_started, device, monitorVars, saved_byte_counter,
                   is_stalled, batches>>

StartReadFreq(t) ==
    /\ at[t] = "readFreq"
    /\ settings' = [settings EXCEPT ![t].freq = m_audio_properties.freq]
    /\ Goto(t, "startDevice")
    /\ UNCHANGED <<callVars, controlVars, m_started, device, monitorVars, stallVars, batches>>

\* RMF_AudioCapture_Start may fail: m_started is set all the same.
StartDevice(t) ==
    /\ at[t] = "startDevice"
    /\ \E ok \in BOOLEAN :
          /\ device' = [running |-> ok, settings |-> settings[t]]
          /\ ret' = [ret EXCEPT ![t] = IF ok THEN 0 ELSE -1]
    /\ m_started' = TRUE
    /\ Goto(t, "startMonitor")
    /\ UNCHANGED <<op, client, calls, settings, controlVars, monitorVars, stallVars, batches>>

\* Assigning to a joinable std::thread would terminate the process.
StartMonitor(t) ==
    /\ at[t] = "startMonitor"
    /\ m_stop_data_monitor' = FALSE
    /\ monitor' = IF monitor = "none" THEN "launched" ELSE "terminate"
    /\ Goto(t, AfterStart(t))
    /\ UNCHANGED <<callVars, settings, controlVars, m_started, device, stallVars, batches>>

-----------------------------------------------------------------------------
(* The data monitor thread; m_data_monitor_mutex makes each of these a step. *)

MonitorFrame == UNCHANGED <<at, callVars, settings, controlVars, m_started, device,
                            m_stop_data_monitor, m_inflow_byte_counter, batches>>

MonitorEnter ==
    /\ monitor = "launched"
    /\ saved_byte_counter' = 0
    /\ is_stalled' = FALSE
    /\ monitor' = IF m_stop_data_monitor THEN "exited" ELSE "waiting"
    /\ UNCHANGED arrived
    /\ MonitorFrame

\* Mutant: the counter is compared but not saved.
SaveCounter_Forgotten == UNCHANGED saved_byte_counter

SaveCounter == saved_byte_counter' = m_inflow_byte_counter

\* wait_for timed out: a stall is noticed once, and cleared by new data.
MonitorTimeout ==
    /\ monitor = "waiting"
    /\ ~m_stop_data_monitor
    /\ IF saved_byte_counter = m_inflow_byte_counter
       THEN is_stalled' = TRUE /\ UNCHANGED saved_byte_counter
       ELSE is_stalled' = FALSE /\ SaveCounter
    /\ arrived' = 0
    /\ UNCHANGED monitor
    /\ MonitorFrame

\* Notified, or timed out with the flag set: the loop ends.
MonitorExit ==
    /\ monitor = "waiting"
    /\ m_stop_data_monitor
    /\ monitor' = "exited"
    /\ UNCHANGED <<saved_byte_counter, is_stalled, arrived>>
    /\ MonitorFrame

-----------------------------------------------------------------------------
(* The device, and the processor thread's use of m_client_mutex. *)

InflowFrame == UNCHANGED <<at, callVars, settings, m_audio_properties, m_clients, m_started,
                           device, monitorVars, saved_byte_counter, is_stalled>>

\* add_data counts what the device delivered.
CountInflow ==
    /\ device.running
    /\ arrived < MaxPerInterval
    /\ m_inflow_byte_counter' = (m_inflow_byte_counter + 1) % CounterMod
    /\ arrived' = arrived + 1
    /\ InflowFrame
    /\ UNCHANGED <<m_client_mutex, batches>>

\* process_data holds m_client_mutex over the callbacks of a batch.
ProcessDataLock ==
    /\ batches < MaxBatches
    /\ m_client_mutex = Free
    /\ m_client_mutex' = ProcessorHolds
    /\ batches' = batches + 1
    /\ InflowFrame
    /\ UNCHANGED <<m_inflow_byte_counter, arrived>>

ProcessDataUnlock ==
    /\ m_client_mutex = ProcessorHolds
    /\ m_client_mutex' = Free
    /\ InflowFrame
    /\ UNCHANGED <<m_inflow_byte_counter, arrived, batches>>

-----------------------------------------------------------------------------
\* What thread t does inside a call it has begun.
Continue(t) ==
    \/ RestartIfStarted(t) \/ RegisterClient(t) \/ UnregisterClient(t) \/ ReleaseClientMutex(t)
    \/ StopAlreadyStopped(t) \/ StopMonitor(t) \/ JoinMonitor(t) \/ StopDevice(t)
    \/ StartAlreadyStarted(t) \/ StartReadFormat(t) \/ StartReadFreq(t) \/ StartDevice(t)
    \/ StartMonitor(t)

Call(t) ==
    \/ SetAudioProperties(t)
    \/ CallDirect(t)
    \/ \E c \in Clients : CallForClient(t, "register", c) \/ CallForClient(t, "unregister", c)

Monitor == MonitorEnter \/ MonitorTimeout \/ MonitorExit

Next == \/ \E t \in Threads : Call(t) \/ Continue(t)
        \/ Monitor
        \/ CountInflow
        \/ ProcessDataLock \/ ProcessDataUnlock

Spec == Init /\ [][Next]_vars

(* Threads run on; process_data's callbacks return; wait_for times out or is *)
(* notified.  Nothing obliges the application to call or the device to      *)
(* deliver.  The bounds end the contention for m_client_mutex, so weak      *)
(* fairness says no more of the mutex than that it is granted when free.    *)
FairSpec == /\ Spec
            /\ \A t \in Threads : WF_vars(Continue(t))
            /\ WF_vars(MonitorEnter) /\ WF_vars(MonitorExit)
            /\ WF_vars(ProcessDataUnlock)

-----------------------------------------------------------------------------
(* Properties *)

TypeOK ==
    /\ at \in [Threads -> Steps]
    /\ op \in [Threads -> Ops]
    /\ client \in [Threads -> Clients]
    /\ settings \in [Threads -> Properties]
    /\ ret \in [Threads -> {0, -1}]
    /\ calls \in [Threads -> 0 .. MaxCalls]
    /\ m_audio_properties \in Properties
    /\ m_client_mutex \in Threads \cup {Free, ProcessorHolds}
    /\ m_clients \in SUBSET Clients
    /\ m_started \in BOOLEAN
    /\ device \in [running : BOOLEAN, settings : Properties]
    /\ m_stop_data_monitor \in BOOLEAN
    /\ monitor \in {"none", "launched", "waiting", "exited"}   \* never "terminate"
    /\ m_inflow_byte_counter \in 0 .. CounterMod - 1
    /\ saved_byte_counter \in 0 .. CounterMod - 1
    /\ is_stalled \in BOOLEAN
    /\ arrived \in 0 .. MaxPerInterval
    /\ batches \in 0 .. MaxBatches

\* No thread is between the start and the end of start() or stop().
NobodyInside == \A t \in Threads : at[t] \in {"idle", "lock"}

\* The device runs with the properties last set, whatever the interleaving of
\* the two locks and of the unprotected reads in start(), as soon as no call of
\* set_audio_properties is waiting and nobody is inside start() or stop().
SettingsInForce ==
    /\ NobodyInside
    /\ \A t \in Threads : at[t] = "lock" => op[t] # "set"
    /\ m_started
    => device.settings = m_audio_properties

\* The device is never started while it still runs, on old settings, from an
\* earlier start.
NoSecondStart == \A t \in Threads : at[t] = "startDevice" => ~device.running

\* Capture is on exactly while somebody is registered, when start() and stop()
\* are left to the clients' registration, and is never begun twice.
CaptureFollowsClients ==
    /\ NoSecondStart
    /\ DirectCallers = {} /\ m_client_mutex \notin Threads => (m_started <=> m_clients # {})

\* A monitor thread is there to be joined exactly while capture is on: stop()
\* leaves none behind for the next start() to be assigned over.
MonitorFollowsCapture ==
    /\ TypeOK
    /\ NobodyInside => (m_started <=> monitor # "none")

\* A stall is reported for a monitor interval if and only if the device
\* delivered nothing in it, restarts included.
StallReportExact ==
    [][MonitorTimeout => (is_stalled' <=> arrived = 0)]_vars

\* No call is stuck behind m_client_mutex or the join of the monitor thread.
CallsReturn == \A t \in Threads : at[t] # "idle" ~> at[t] = "idle"
=============================================================================
