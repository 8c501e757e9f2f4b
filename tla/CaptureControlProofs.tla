------------------------ MODULE CaptureControlProofs ------------------------
(***************************************************************************)
(* Theorems about the control path of q_mgr (module CaptureControl), for   *)
(* any threads, clients, audio properties, device data and bounds.         *)
(***************************************************************************)
EXTENDS CaptureControl, FiniteSetTheorems, TLAPS

-----------------------------------------------------------------------------
(* The inductive invariant *)

Inside(t) == at[t] \notin {"idle", "lock"}
Direct(t) == op[t] \in {"start", "stop"}

Stopping(t) == at[t] \in {"stop", "join", "stopDevice"}
Starting(t) == at[t] \in {"start", "readFreq", "startDevice", "startMonitor"}

\* Who is inside start() or stop() has m_client_mutex, or called them directly.
LockInv ==
    \A t \in Threads :
        /\ at[t] = "lock" => op[t] \in {"set", "register", "unregister"}
        /\ Inside(t) => IF Direct(t) THEN t \in DirectCallers ELSE m_client_mutex = t
        /\ m_client_mutex = t => Inside(t) /\ op[t] \in {"set", "register", "unregister"}

\* What a thread inside knows of m_started: it read it, and nobody else writes it.
StepInv ==
    \A t \in Threads :
        /\ Stopping(t) => op[t] \in {"stop", "set", "unregister"}
        /\ Starting(t) => op[t] \in {"start", "set", "register"}
        /\ at[t] = "unlock" => ~Direct(t)
        /\ at[t] \in {"join", "stopDevice", "startMonitor"} => m_started
        /\ at[t] \in {"readFreq", "startDevice"} => ~m_started
        /\ at[t] = "stop" /\ op[t] = "set" => m_started
        /\ at[t] = "start" /\ op[t] = "set" => ~m_started

DeviceInv == device.running => m_started

\* The monitor thread exists while capture is on, but for the moment in which
\* stop() has joined it, or start() not yet launched it.
MonitorInv ==
    IF \E t \in Threads : at[t] \in {"stopDevice", "startMonitor"}
    THEN monitor = "none"
    ELSE m_started <=> monitor # "none"

\* What the thread that holds the mutex knows of the clients.
ClientsInv ==
    DirectCallers = {} =>
        /\ m_client_mutex \notin Threads => (m_started <=> m_clients # {})
        /\ \A t \in Threads :
            /\ at[t] = "unlock" => (m_started <=> m_clients # {})
            /\ Stopping(t) /\ op[t] = "unregister" => m_clients = {}
            /\ (Stopping(t) \/ Starting(t)) /\ op[t] \in {"set", "register"} => m_clients # {}

\* Unless a thread has set the properties and waits for the mutex, start() reads
\* those in force, and the device has them unless it is about to be restarted.
SettingsInv ==
    (\A t \in Threads : at[t] = "lock" => op[t] # "set") =>
        /\ m_started /\ (\A t \in Threads : Stopping(t) => op[t] # "set")
              => device.settings = m_audio_properties
        /\ \A t \in Threads :
            /\ at[t] = "readFreq" => settings[t].format = m_audio_properties.format
            /\ at[t] = "startDevice" => settings[t] = m_audio_properties

\* The counter has moved by what arrived since it was saved, and may have wrapped.
Moved(from) == m_inflow_byte_counter \in {from + arrived, from + arrived - CounterMod}

StallInv ==
    /\ monitor = "waiting" => Moved(saved_byte_counter)
    /\ monitor = "launched" => Moved(0)
    /\ \A t \in Threads : at[t] \in {"readFreq", "startDevice", "startMonitor"} => Moved(0)

ControlInv ==
    TypeOK /\ LockInv /\ StepInv /\ DeviceInv /\ MonitorInv /\ ClientsInv /\ SettingsInv /\ StallInv

-----------------------------------------------------------------------------
(* Who can be inside start() and stop() *)

LEMMA SingleCaller == ASSUME DirectCallers # {}, NEW t \in Threads, NEW u \in Threads PROVE t = u
BY DirectCallsAreSequential, ThreadsAndClientsFinite, FS_Singleton

LEMMA OneInside ==
    ASSUME LockInv, NEW t \in Threads, NEW u \in Threads, Inside(t), Inside(u)
    PROVE  t = u
<1>1. CASE Direct(t) \/ Direct(u)
  BY <1>1, SingleCaller DEF LockInv
<1>2. CASE ~Direct(t) /\ ~Direct(u)
  BY <1>2 DEF LockInv
<1>. QED BY <1>1, <1>2

\* Who finds the mutex free finds nobody inside.
LEMMA NobodyElse ==
    ASSUME LockInv, NEW t \in Threads, Continue(t), NEW u \in Threads, u # t
    PROVE  ~Inside(u)
<1>1. CASE Inside(t)
  BY <1>1, OneInside
<1>2. CASE at[t] = "lock" /\ m_client_mutex = Free
  BY <1>2, SingleCaller, ThreadNames DEF LockInv
<1>3. Inside(t) \/ (at[t] = "lock" /\ m_client_mutex = Free)
  BY DEF Inside, Continue, RestartIfStarted, RegisterClient, UnregisterClient, TakesClientMutex,
      ReleaseClientMutex, StopAlreadyStopped, StopMonitor, JoinMonitor, StopDevice,
      StartAlreadyStarted, StartReadFormat, StartReadFreq, StartDevice, StartMonitor
<1>. QED BY <1>1, <1>2, <1>3

LEMMA ControlInvInit == Init => ControlInv
<1> SUFFICES ASSUME Init PROVE ControlInv
  OBVIOUS
<1>1. TypeOK
  <2>1. /\ at \in [Threads -> Steps] /\ op \in [Threads -> Ops]
        /\ client \in [Threads -> Clients] /\ ret \in [Threads -> {0, -1}]
        /\ calls \in [Threads -> 0 .. MaxCalls]
    BY ThreadsAndClientsFinite, ControlBounds DEF Init, Steps, Ops
  <2>2. /\ m_audio_properties \in Properties
        /\ settings \in [Threads -> Properties]
        /\ device \in [running : BOOLEAN, settings : Properties]
    BY DEF Init
  <2>3. /\ m_inflow_byte_counter \in 0 .. CounterMod - 1
        /\ saved_byte_counter \in 0 .. CounterMod - 1
        /\ arrived \in 0 .. MaxPerInterval /\ batches \in 0 .. MaxBatches
    BY CounterDoesNotLap, ControlBounds DEF Init
  <2>. QED BY <2>1, <2>2, <2>3 DEF Init, TypeOK
<1>2. LockInv /\ StepInv /\ DeviceInv /\ MonitorInv /\ ClientsInv /\ SettingsInv
  BY ThreadNames
  DEF Init, LockInv, StepInv, DeviceInv, MonitorInv, ClientsInv, SettingsInv, Inside, Direct,
      Stopping, Starting
<1>3. StallInv
  BY DEF Init, StallInv, Moved
<1>. QED BY <1>1, <1>2, <1>3 DEF ControlInv

-----------------------------------------------------------------------------
(* A thread's own steps: nobody else is inside *)

\* What the two tests on the number of clients decide.
LEMMA FirstClient ==
    ASSUME TypeOK, NEW c \in Clients
    PROVE  AddsFirstClient(c) <=> m_clients = {}
<1>1. IsFiniteSet(m_clients \cup {c})
  BY ThreadsAndClientsFinite, FS_Subset, FS_AddElement DEF TypeOK
<1>2. Cardinality(m_clients \cup {c}) = 1 <=> \E x : m_clients \cup {c} = {x}
  BY <1>1, FS_Singleton
<1>. QED BY <1>2 DEF AddsFirstClient

LEMMA NoClientLeft ==
    ASSUME TypeOK, NEW c \in Clients
    PROVE  LastClientGone(m_clients \ {c}) <=> m_clients \ {c} = {}
BY ThreadsAndClientsFinite, FS_Subset, FS_EmptySet DEF TypeOK, LastClientGone

LEMMA ContinueKeeps == ASSUME ControlInv, NEW t \in Threads, Continue(t) PROVE ControlInv'
<1> USE DEF TypeOK, Steps, Goto, callVars, controlVars, monitorVars, stallVars
<1>0. \A u \in Threads : u # t => ~Inside(u)
  BY NobodyElse DEF ControlInv
<1>1. CASE RestartIfStarted(t)
  <2> USE <1>0, <1>1 DEF RestartIfStarted, TakesClientMutex, ControlInv, LockInv, StepInv, Inside,
          Direct, Stopping, Starting
  <2>1. TypeOK'
    OBVIOUS
  <2>2. LockInv' /\ StepInv'
    OBVIOUS
  <2>3. DeviceInv' /\ MonitorInv'
    BY DEF DeviceInv, MonitorInv
  <2>4. ClientsInv'
    BY FirstClient, ThreadNames DEF ClientsInv
  <2>5. SettingsInv'
    BY DEF SettingsInv
  <2>6. StallInv'
    BY DEF StallInv, Moved
  <2>. QED BY <2>1, <2>2, <2>3, <2>4, <2>5, <2>6
<1>2. CASE RegisterClient(t)
  <2> USE <1>0, <1>2 DEF RegisterClient, TakesClientMutex, ControlInv, LockInv, StepInv, Inside,
          Direct, Stopping, Starting
  <2>1. TypeOK'
    OBVIOUS
  <2>2. LockInv' /\ StepInv'
    OBVIOUS
  <2>3. DeviceInv' /\ MonitorInv'
    BY DEF DeviceInv, MonitorInv
  <2>4. ClientsInv'
    BY FirstClient, ThreadNames DEF ClientsInv
  <2>5. SettingsInv'
    BY DEF SettingsInv
  <2>6. StallInv'
    BY DEF StallInv, Moved
  <2>. QED BY <2>1, <2>2, <2>3, <2>4, <2>5, <2>6
<1>3. CASE UnregisterClient(t)
  <2> USE <1>0, <1>3 DEF UnregisterClient, TakesClientMutex, ControlInv, LockInv, StepInv, Inside,
          Direct, Stopping, Starting
  <2>1. TypeOK'
    OBVIOUS
  <2>2. LockInv' /\ StepInv'
    OBVIOUS
  <2>3. DeviceInv' /\ MonitorInv'
    BY DEF DeviceInv, MonitorInv
  <2>4. ClientsInv'
    BY NoClientLeft, ThreadNames DEF ClientsInv
  <2>5. SettingsInv'
    BY DEF SettingsInv
  <2>6. StallInv'
    BY DEF StallInv, Moved
  <2>. QED BY <2>1, <2>2, <2>3, <2>4, <2>5, <2>6
<1>4. CASE ReleaseClientMutex(t)
  <2> USE <1>0, <1>4 DEF ReleaseClientMutex, ControlInv, LockInv, StepInv, Inside, Direct,
          Stopping, Starting
  <2>1. TypeOK'
    OBVIOUS
  <2>2. LockInv' /\ StepInv'
    BY ThreadNames
  <2>3. DeviceInv' /\ MonitorInv'
    BY DEF DeviceInv, MonitorInv
  <2>4. ClientsInv'
    BY DEF ClientsInv
  <2>5. SettingsInv'
    BY DEF SettingsInv
  <2>6. StallInv'
    BY DEF StallInv, Moved
  <2>. QED BY <2>1, <2>2, <2>3, <2>4, <2>5, <2>6
<1>5. CASE StopAlreadyStopped(t)
  <2> USE <1>0, <1>5 DEF StopAlreadyStopped, AfterStop, ControlInv, LockInv, StepInv, Inside,
          Direct, Stopping, Starting
  <2>1. TypeOK'
    OBVIOUS
  <2>2. LockInv' /\ StepInv'
    OBVIOUS
  <2>3. DeviceInv' /\ MonitorInv'
    BY DEF DeviceInv, MonitorInv
  <2>4. ClientsInv'
    BY DEF ClientsInv
  <2>5. SettingsInv'
    BY DEF SettingsInv
  <2>6. StallInv'
    BY DEF StallInv, Moved
  <2>. QED BY <2>1, <2>2, <2>3, <2>4, <2>5, <2>6
<1>6. CASE StopMonitor(t)
  <2> USE <1>0, <1>6 DEF StopMonitor, TellMonitor, AfterStop, ControlInv, LockInv, StepInv,
          Inside, Direct, Stopping, Starting
  <2>1. TypeOK'
    OBVIOUS
  <2>2. LockInv' /\ StepInv'
    OBVIOUS
  <2>3. DeviceInv' /\ MonitorInv'
    BY DEF DeviceInv, MonitorInv
  <2>4. ClientsInv'
    BY DEF ClientsInv
  <2>5. SettingsInv'
    BY DEF SettingsInv
  <2>6. StallInv'
    BY DEF StallInv, Moved
  <2>. QED BY <2>1, <2>2, <2>3, <2>4, <2>5, <2>6
<1>7. CASE JoinMonitor(t)
  <2> USE <1>0, <1>7 DEF JoinMonitor, ControlInv, LockInv, StepInv, Inside, Direct, Stopping,
          Starting
  <2>1. TypeOK'
    OBVIOUS
  <2>2. LockInv' /\ StepInv'
    OBVIOUS
  <2>3. DeviceInv' /\ MonitorInv'
    BY DEF DeviceInv, MonitorInv
  <2>4. ClientsInv'
    BY DEF ClientsInv
  <2>5. SettingsInv'
    BY DEF SettingsInv
  <2>6. StallInv'
    BY DEF StallInv, Moved
  <2>. QED BY <2>1, <2>2, <2>3, <2>4, <2>5, <2>6
<1>8. CASE StopDevice(t)
  <2> USE <1>0, <1>8 DEF StopDevice, AfterStop, ControlInv, LockInv, StepInv, Inside, Direct,
          Stopping, Starting
  <2>1. TypeOK'
    OBVIOUS
  <2>2. LockInv' /\ StepInv'
    OBVIOUS
  <2>3. DeviceInv' /\ MonitorInv'
    BY DEF DeviceInv, MonitorInv
  <2>4. ClientsInv'
    BY DEF ClientsInv
  <2>5. SettingsInv'
    BY DEF SettingsInv
  <2>6. StallInv'
    BY DEF StallInv, Moved
  <2>. QED BY <2>1, <2>2, <2>3, <2>4, <2>5, <2>6
<1>9. CASE StartAlreadyStarted(t)
  <2> USE <1>0, <1>9 DEF StartAlreadyStarted, AfterStart, ControlInv, LockInv, StepInv, Inside,
          Direct, Stopping, Starting
  <2>1. TypeOK'
    OBVIOUS
  <2>2. LockInv' /\ StepInv'
    OBVIOUS
  <2>3. DeviceInv' /\ MonitorInv'
    BY DEF DeviceInv, MonitorInv
  <2>4. ClientsInv'
    BY DEF ClientsInv
  <2>5. SettingsInv'
    BY DEF SettingsInv
  <2>6. StallInv'
    BY DEF StallInv, Moved
  <2>. QED BY <2>1, <2>2, <2>3, <2>4, <2>5, <2>6
<1>10. CASE StartReadFormat(t)
  <2> USE <1>0, <1>10 DEF StartReadFormat, ResetCounter, AfterStart, ControlInv, LockInv, StepInv,
          Inside, Direct, Stopping, Starting
  <2>0. settings' = [settings EXCEPT ![t] = [format |-> m_audio_properties.format,
                                             freq |-> settings[t].freq]]
    <3>1. settings[t] \in [format : Formats, freq : Freqs]
      BY DEF Properties
    <3>2. [settings[t] EXCEPT !.format = m_audio_properties.format]
             = [format |-> m_audio_properties.format, freq |-> settings[t].freq]
      BY <3>1
    <3>. QED BY <3>2
  <2>1. TypeOK'
    BY <2>0, CounterDoesNotLap DEF Properties
  <2>2. LockInv' /\ StepInv'
    OBVIOUS
  <2>3. DeviceInv' /\ MonitorInv'
    BY DEF DeviceInv, MonitorInv
  <2>4. ClientsInv'
    BY DEF ClientsInv
  <2>5. SettingsInv'
    BY DEF SettingsInv
  <2>6. StallInv'
    BY CounterDoesNotLap DEF StallInv, Moved, MonitorInv
  <2>. QED BY <2>1, <2>2, <2>3, <2>4, <2>5, <2>6
<1>11. CASE StartReadFreq(t)
  <2> USE <1>0, <1>11 DEF StartReadFreq, AfterStart, ControlInv, LockInv, StepInv, Inside, Direct,
          Stopping, Starting
  <2>0. settings' = [settings EXCEPT ![t] = [format |-> settings[t].format,
                                             freq |-> m_audio_properties.freq]]
    <3>1. settings[t] \in [format : Formats, freq : Freqs]
      BY DEF Properties
    <3>2. [settings[t] EXCEPT !.freq = m_audio_properties.freq]
             = [format |-> settings[t].format, freq |-> m_audio_properties.freq]
      BY <3>1
    <3>. QED BY <3>2
  <2>1. TypeOK'
    BY <2>0 DEF Properties
  <2>2. LockInv' /\ StepInv'
    OBVIOUS
  <2>3. DeviceInv' /\ MonitorInv'
    BY DEF DeviceInv, MonitorInv
  <2>4. ClientsInv'
    BY DEF ClientsInv
  <2>5. SettingsInv'
    BY <2>0 DEF SettingsInv, Properties
  <2>6. StallInv'
    BY DEF StallInv, Moved
  <2>. QED BY <2>1, <2>2, <2>3, <2>4, <2>5, <2>6
<1>12. CASE StartDevice(t)
  <2> USE <1>0, <1>12 DEF StartDevice, AfterStart, ControlInv, LockInv, StepInv, Inside, Direct,
          Stopping, Starting
  <2>1. TypeOK'
    OBVIOUS
  <2>2. LockInv' /\ StepInv'
    OBVIOUS
  <2>3. DeviceInv' /\ MonitorInv'
    BY DEF DeviceInv, MonitorInv
  <2>4. ClientsInv'
    BY DEF ClientsInv
  <2>5. SettingsInv'
    BY DEF SettingsInv
  <2>6. StallInv'
    BY DEF StallInv, Moved
  <2>. QED BY <2>1, <2>2, <2>3, <2>4, <2>5, <2>6
<1>13. CASE StartMonitor(t)
  <2> USE <1>0, <1>13 DEF StartMonitor, AfterStart, ControlInv, LockInv, StepInv, Inside, Direct,
          Stopping, Starting
  <2>1. TypeOK'
    BY DEF MonitorInv
  <2>2. LockInv' /\ StepInv'
    OBVIOUS
  <2>3. DeviceInv' /\ MonitorInv'
    BY DEF DeviceInv, MonitorInv
  <2>4. ClientsInv'
    BY DEF ClientsInv
  <2>5. SettingsInv'
    BY DEF SettingsInv
  <2>6. StallInv'
    BY DEF StallInv, Moved
  <2>. QED BY <2>1, <2>2, <2>3, <2>4, <2>5, <2>6
<1>. QED BY <1>1, <1>2, <1>3, <1>4, <1>5, <1>6, <1>7, <1>8, <1>9, <1>10, <1>11, <1>12, <1>13
            DEF Continue

-----------------------------------------------------------------------------
(* Calls begin, and the other threads *)

LEMMA CallKeeps == ASSUME ControlInv, NEW t \in Threads, Call(t) PROVE ControlInv'
<1> USE DEF TypeOK, Steps, Ops, Goto, Begins, callVars, controlVars, monitorVars, stallVars
<1>1. CASE SetAudioProperties(t)
  <2> USE <1>1 DEF SetAudioProperties, ControlInv, LockInv, StepInv, Inside, Direct, Stopping,
                   Starting
  <2>1. TypeOK'
    BY ControlBounds
  <2>2. LockInv' /\ StepInv'
    OBVIOUS
  <2>3. DeviceInv' /\ MonitorInv'
    BY DEF DeviceInv, MonitorInv
  <2>4. ClientsInv'
    BY DEF ClientsInv
  <2>5. SettingsInv'
    BY DEF SettingsInv
  <2>6. StallInv'
    BY DEF StallInv, Moved
  <2>. QED BY <2>1, <2>2, <2>3, <2>4, <2>5, <2>6
<1>2. CASE CallDirect(t)
  <2> USE <1>2 DEF CallDirect, ControlInv, LockInv, StepInv, Inside, Direct, Stopping, Starting
  <2>1. TypeOK'
    BY ControlBounds
  <2>2. LockInv' /\ StepInv'
    OBVIOUS
  <2>3. DeviceInv' /\ MonitorInv'
    BY DEF DeviceInv, MonitorInv
  <2>4. ClientsInv'
    BY DEF ClientsInv
  <2>5. SettingsInv'
    BY DEF SettingsInv
  <2>6. StallInv'
    BY DEF StallInv, Moved
  <2>. QED BY <2>1, <2>2, <2>3, <2>4, <2>5, <2>6
<1>3. CASE \E c \in Clients : CallForClient(t, "register", c) \/ CallForClient(t, "unregister", c)
  <2> USE <1>3 DEF CallForClient, ControlInv, LockInv, StepInv, Inside, Direct, Stopping, Starting
  <2>1. TypeOK'
    BY ControlBounds
  <2>2. LockInv' /\ StepInv'
    OBVIOUS
  <2>3. DeviceInv' /\ MonitorInv'
    BY DEF DeviceInv, MonitorInv
  <2>4. ClientsInv'
    BY DEF ClientsInv
  <2>5. SettingsInv'
    BY DEF SettingsInv
  <2>6. StallInv'
    BY DEF StallInv, Moved
  <2>. QED BY <2>1, <2>2, <2>3, <2>4, <2>5, <2>6
<1>. QED BY <1>1, <1>2, <1>3 DEF Call

\* The unsigned counter wraps once at most between two looks of the monitor.
LEMMA CounterWraps ==
    ASSUME NEW n \in 0 .. CounterMod - 1
    PROVE  (n + 1) % CounterMod = IF n + 1 = CounterMod THEN 0 ELSE n + 1
BY CounterDoesNotLap

LEMMA MonitorKeeps == ASSUME ControlInv, Monitor PROVE ControlInv'
<1> USE DEF TypeOK, MonitorFrame, callVars, controlVars, monitorVars, stallVars, ControlInv
<1>1. TypeOK'
  <2>1. is_stalled' \in BOOLEAN
    BY Zenon DEF Monitor, MonitorEnter, MonitorTimeout, MonitorExit
  <2>2. /\ monitor' \in {"none", "launched", "waiting", "exited"}
        /\ saved_byte_counter' \in 0 .. CounterMod - 1
        /\ arrived' \in 0 .. MaxPerInterval
    BY CounterDoesNotLap DEF Monitor, MonitorEnter, MonitorTimeout, MonitorExit, SaveCounter
  <2>. QED BY <2>1, <2>2 DEF Monitor, MonitorEnter, MonitorTimeout, MonitorExit
<1>2. LockInv' /\ StepInv' /\ DeviceInv' /\ MonitorInv' /\ ClientsInv' /\ SettingsInv'
  BY DEF Monitor, MonitorEnter, MonitorTimeout, MonitorExit, LockInv, StepInv, Inside, Direct,
         Stopping, Starting, DeviceInv, MonitorInv, ClientsInv, SettingsInv
<1>3. StallInv'
  BY CounterDoesNotLap
  DEF Monitor, MonitorEnter, MonitorTimeout, MonitorExit, SaveCounter, StallInv, Moved,
      MonitorInv, StepInv
<1>. QED BY <1>1, <1>2, <1>3

LEMMA DeviceAndProcessorKeep ==
    ASSUME ControlInv, CountInflow \/ ProcessDataLock \/ ProcessDataUnlock
    PROVE  ControlInv'
<1> USE DEF TypeOK, InflowFrame, callVars, controlVars, monitorVars, stallVars, ControlInv,
            CountInflow, ProcessDataLock, ProcessDataUnlock
<1>1. TypeOK'
  BY CounterDoesNotLap, ControlBounds, CounterWraps
<1>2. LockInv' /\ StepInv' /\ DeviceInv' /\ MonitorInv' /\ ClientsInv' /\ SettingsInv'
  BY ThreadNames
  DEF LockInv, StepInv, Inside, Direct, Stopping, Starting, DeviceInv, MonitorInv, ClientsInv,
      SettingsInv
<1>3. StallInv'
  <2>1. CASE CountInflow
    <3>1. ASSUME NEW from \in 0 .. CounterMod - 1, Moved(from)
          PROVE  m_inflow_byte_counter' \in {from + arrived', from + arrived' - CounterMod}
      <4>1. m_inflow_byte_counter' = IF m_inflow_byte_counter + 1 = CounterMod
                                     THEN 0 ELSE m_inflow_byte_counter + 1
        BY <2>1, CounterWraps
      <4>. QED BY <2>1, <3>1, <4>1, CounterDoesNotLap DEF Moved
    <3>. QED BY <2>1, <3>1, CounterDoesNotLap DEF StallInv, Moved
  <2>2. CASE ProcessDataLock \/ ProcessDataUnlock
    BY <2>2 DEF StallInv, Moved
  <2>. QED BY <2>1, <2>2
<1>. QED BY <1>1, <1>2, <1>3

LEMMA ControlInvNext == ControlInv /\ [Next]_vars => ControlInv'
<1> SUFFICES ASSUME ControlInv, [Next]_vars PROVE ControlInv'
  OBVIOUS
<1>1. CASE UNCHANGED vars
  BY <1>1
  DEF vars, callVars, controlVars, monitorVars, stallVars, ControlInv, TypeOK, LockInv, StepInv,
      Inside, Direct, Stopping, Starting, DeviceInv, MonitorInv, ClientsInv, SettingsInv,
      StallInv, Moved
<1>. QED
  BY <1>1, CallKeeps, ContinueKeeps, MonitorKeeps, DeviceAndProcessorKeep DEF Next

-----------------------------------------------------------------------------
(* The theorems *)

\* The whole invariant of the control path: who holds m_client_mutex, what the
\* thread inside start() or stop() knows, and what the others may rely on.
THEOREM ControlKept == Spec => []ControlInv
BY ControlInvInit, ControlInvNext, PTL DEF Spec

\* When no call of set_audio_properties is under way, and no start() or stop(),
\* a device that runs has the properties last set.
THEOREM PropertiesInForce == Spec => []SettingsInForce
<1>1. ControlInv => SettingsInForce
  BY DEF ControlInv, SettingsInv, SettingsInForce, NobodyInside, Stopping
<1>. QED BY <1>1, ControlKept, PTL

\* Capture is on exactly while a client is registered, and no start() of the
\* device finds it running.
THEOREM CaptureOnDemand == Spec => []CaptureFollowsClients
<1>1. ControlInv => CaptureFollowsClients
  BY DEF ControlInv, StepInv, DeviceInv, ClientsInv, CaptureFollowsClients, NoSecondStart
<1>. QED BY <1>1, ControlKept, PTL

\* Between calls the monitor thread exists exactly while capture is on, and it is
\* never assigned over while it can still be joined.
THEOREM MonitorOnDemand == Spec => []MonitorFollowsCapture
<1>1. ControlInv => MonitorFollowsCapture
  BY DEF ControlInv, MonitorInv, MonitorFollowsCapture, NobodyInside
<1>. QED BY <1>1, ControlKept, PTL

\* A stall is reported for an interval exactly when nothing arrived in it, also
\* across restarts of the device and when the counter wraps.
THEOREM StallsReportedExactly == Spec => StallReportExact
<1>1. ControlInv /\ MonitorTimeout => (is_stalled' <=> arrived = 0)
  BY CounterDoesNotLap DEF ControlInv, TypeOK, StallInv, Moved, MonitorTimeout
<1>. QED BY <1>1, ControlKept, PTL DEF StallReportExact
=============================================================================
