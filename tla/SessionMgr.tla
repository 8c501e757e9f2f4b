----------------------------- MODULE SessionMgr -----------------------------
(***************************************************************************)
(* The sessions of the daemon (src/src/acm_session_mgr.cpp): the handlers  *)
(* the IARM bus dispatches, the session list under m_mutex, and the client *)
(* each session owns, as far as the source's client list and its deletion  *)
(* go.  A session is known by its session_id; the pointer a handler holds  *)
(* is the id in `ptr`, and `at` says what the handler does next with it.   *)
(*                                                                         *)
(* get_session takes m_mutex only to find the pointer: everything a        *)
(* handler then reads and writes through it is done without the lock, on a *)
(* session any other caller may name, replace or close meanwhile.          *)
(* There is one source, and the frequency stands for the audio properties. *)
(***************************************************************************)
EXTENDS Integers, FiniteSets

CONSTANTS Callers,       \* applications whose calls the bus runs at the same time
          TypesOf,       \* output types each of them opens
          Conversions,   \* answers of get_rfc_output_conversion_config that occur
          Frequencies,   \* sampling frequencies that occur
          DeviceDefault, \* the capture device's default frequency
          MaxDuration,   \* MAX_PRECAPTURE_LENGTH_SEC
          Durations,     \* durations that occur in calls
          MaxSessions,   \* bound on the sessions opened
          MaxRequests    \* bound on the requests waiting in a client

File == "BUFFERED_FILE_OUTPUT"
Socket == "REALTIME_SOCKET"
Default == "48000"  \* also what converted output has
RacFrequencies == {"16000", "24000", "32000", "44100", "48000", "max"}

ASSUME CallersFinite == IsFiniteSet(Callers)
ASSUME TypesSupported == TypesOf \in [Callers -> SUBSET {File, Socket}]
ASSUME ConversionsBoolean == Conversions \subseteq BOOLEAN
ASSUME FrequenciesExist == Frequencies \subseteq RacFrequencies /\ DeviceDefault \in RacFrequencies
ASSUME DurationsNatural == MaxDuration \in Nat /\ Durations \subseteq Nat
ASSUME SessionBounds == MaxSessions \in Nat /\ MaxRequests \in Nat

InitialPrecapture == 6  \* DEFAULT_PRECAPTURE_DURATION_SEC
None == -1

VARIABLES
    m_sessions,          \* ids in the session list
    m_session_counter,
    session,             \* every session ever opened, by id
    m_clients,           \* sessions whose client is registered with the source
    delivering,          \* the source's processor holds m_client_mutex
    m_audio_properties,  \* of the source: all its clients share it
    call,                \* each caller's handler
    contended,           \* sessions on which two handlers were in each other's way
    reply                \* what the step just taken answered, if it answered

vars == <<m_sessions, m_session_counter, session, m_clients, delivering,
          m_audio_properties, call, contended, reply>>
listVars == <<m_sessions, m_session_counter>>

Ids == 0 .. m_session_counter - 1

NoCall == [at |-> "idle", op |-> "none", ptr |-> None, opened |-> None]
NoReply == [result |-> "none", value |-> None]

Init ==
    /\ m_sessions = {}
    /\ m_session_counter = 0
    /\ session = [i \in {} |-> None]
    /\ m_clients = {}
    /\ delivering = FALSE
    /\ m_audio_properties = DeviceDefault
    /\ call = [c \in Callers |-> NoCall]
    /\ contended = {}
    /\ reply = NoReply

Idle(c) == call[c].at = "idle"
On(c, i) == ~Idle(c) /\ call[c].ptr = i

\* Nobody may use a session while another destroys it, and one must not be
\* started and stopped at once.
Conflict(op, other) ==
    {op, other} \cap {"open", "close"} # {} \/ {op, other} = {"start", "stop"}

\* Handler c begins its work on session i.
Takes(c, op, step, i, opened) ==
    /\ call' = [call EXCEPT ![c] = [at |-> step, op |-> op, ptr |-> i, opened |-> opened]]
    /\ contended' = IF \E d \in Callers : On(d, i) /\ Conflict(op, call[d].op)
                      THEN contended \cup {i} ELSE contended
    /\ reply' = NoReply

Goto(c, step) == call' = [call EXCEPT ![c].at = step] /\ reply' = NoReply /\ UNCHANGED contended

\* The handler of c returns; value is what the reply carries besides the result.
Replies(c, result, value) ==
    /\ call' = [call EXCEPT ![c] = NoCall]
    /\ reply' = [result |-> result, value |-> value]
    /\ UNCHANGED contended

-----------------------------------------------------------------------------
(* open *)

NewSession(type) ==
    [type : {type}, enable : {FALSE}, precapture : {InitialPrecapture},
     pending : {0},
     deletions : {0}, convert : IF type = File THEN Conversions ELSE {FALSE}]

\* Mutant: a receiver restart leaves its old music id session behind.
Duplicates_None(type) == {}

\* The session the new one replaces: a music id session of the same source.
Duplicates(type) == {i \in m_sessions : type = File /\ session[i].type = File}

\* The section of open_handler under m_mutex.
Open(c) ==
    /\ Idle(c)
    /\ m_session_counter < MaxSessions
    /\ \E type \in TypesOf[c] : \E new \in NewSession(type) :
        LET id == m_session_counter
        IN  /\ m_session_counter' = id + 1
            /\ session' = [i \in 0 .. id |-> IF i = id THEN new ELSE session[i]]
            /\ \/ /\ Duplicates(type) = {}
                  /\ m_sessions' = m_sessions \cup {id}
                  /\ Replies(c, "success", id)
               \/ \E d \in Duplicates(type) :
                  /\ m_sessions' = (m_sessions \ {d}) \cup {id}
                  /\ Takes(c, "open", "client", d, id)
    /\ UNCHANGED <<m_clients, delivering, m_audio_properties>>

\* A source or an output type beyond the supported ones.
OpenRefused(c) ==
    /\ Idle(c)
    /\ Replies(c, "invalid_arguments", None)
    /\ UNCHANGED <<listVars, session, m_clients, delivering, m_audio_properties>>

-----------------------------------------------------------------------------
(* close, start and stop *)

\* Ids a caller may name: every session opened so far, whoever opened it and
\* closed or replaced or not, and one that was never handed out.
Named == Ids \cup {m_session_counter}

\* Mutant: the closed session stays in the list.
Close_NotErased(c) ==
    /\ Idle(c)
    /\ \E i \in Named :
        IF i \in m_sessions
          THEN Takes(c, "close", "test", i, None)
          ELSE Replies(c, "bad_session_id", None)
    /\ UNCHANGED <<listVars, session, m_clients, delivering, m_audio_properties>>

\* close_handler takes the session out of the list.
Close(c) ==
    /\ Idle(c)
    /\ \E i \in Named :
        IF i \in m_sessions
          THEN Takes(c, "close", "test", i, None) /\ m_sessions' = m_sessions \ {i}
          ELSE Replies(c, "bad_session_id", None) /\ UNCHANGED m_sessions
    /\ UNCHANGED <<m_session_counter, session, m_clients, delivering, m_audio_properties>>

\* get_session, at the head of every other handler.
GetSession(c, op, step) ==
    /\ Idle(c)
    /\ \E i \in Named :
        IF i \in m_sessions THEN Takes(c, op, step, i, None)
                            ELSE Replies(c, "bad_session_id", None)
    /\ UNCHANGED <<listVars, session, m_clients, delivering, m_audio_properties>>

\* Which handler it is that only uses the session, shows when it does.
Find(c) ==
    \/ \E op \in {"start", "stop"} : GetSession(c, op, "test")
    \/ GetSession(c, "use", "use")

\* The session at the end of handler c's pointer has not been deleted.
Live(c) == session[call[c].ptr].deletions = 0

\* What happens with the pointer of a deleted session is undefined: the handler is
\* not followed any further.
UseDeleted(c) ==
    /\ call[c].at \notin {"idle", "undefined"}
    /\ ~Live(c)
    /\ Goto(c, "undefined")
    /\ UNCHANGED <<listVars, session, m_clients, delivering, m_audio_properties>>

At(c, step) == call[c].at = step /\ Live(c)

\* ptr->enable decides whether the client must be started or stopped.
TestEnable(c) ==
    /\ At(c, "test")
    /\ LET enable == session[call[c].ptr].enable
       IN  CASE call[c].op = "start" /\ enable  -> Replies(c, "success", None)
             [] call[c].op = "stop" /\ ~enable  -> Replies(c, "success", None)
             [] call[c].op = "close" /\ ~enable -> Goto(c, "delete")
             [] OTHER                           -> Goto(c, "client")
    /\ UNCHANGED <<listVars, session, m_clients, delivering, m_audio_properties>>

\* client->start() registers the client with the source, under m_client_mutex.
StartClient(c) ==
    /\ At(c, "client") /\ call[c].op = "start"
    /\ ~delivering
    /\ m_clients' = m_clients \cup {call[c].ptr}
    /\ Goto(c, "enable")
    /\ UNCHANGED <<listVars, session, delivering, m_audio_properties>>

StopClient(c) ==
    /\ At(c, "client") /\ call[c].op \in {"stop", "close"}
    /\ ~delivering
    /\ m_clients' = m_clients \ {call[c].ptr}
    /\ Goto(c, "enable")
    /\ UNCHANGED <<listVars, session, delivering, m_audio_properties>>

\* Mutant: the replaced session's client is deleted while it is registered.
StopDuplicate_Forgotten(c) ==
    /\ At(c, "client") /\ call[c].op = "open"
    /\ Goto(c, "delete")
    /\ UNCHANGED <<listVars, session, m_clients, delivering, m_audio_properties>>

\* open_handler stops the client of the session it replaces, enabled or not.
StopDuplicate(c) ==
    /\ At(c, "client") /\ call[c].op = "open"
    /\ ~delivering
    /\ m_clients' = m_clients \ {call[c].ptr}
    /\ Goto(c, "delete")
    /\ UNCHANGED <<listVars, session, delivering, m_audio_properties>>

\* Mutant: stop leaves the session enabled.
SetEnable_NotCleared(c) ==
    /\ At(c, "enable")
    /\ session' = [session EXCEPT ![call[c].ptr].enable = TRUE]
    /\ IF call[c].op = "close" THEN Goto(c, "delete") ELSE Replies(c, "success", None)
    /\ UNCHANGED <<listVars, m_clients, delivering, m_audio_properties>>

SetEnable(c) ==
    /\ At(c, "enable")
    /\ session' = [session EXCEPT ![call[c].ptr].enable = (call[c].op = "start")]
    /\ IF call[c].op = "close" THEN Goto(c, "delete") ELSE Replies(c, "success", None)
    /\ UNCHANGED <<listVars, m_clients, delivering, m_audio_properties>>

\* Mutant: a replaced session is not deleted.
Delete_OnlyClosed(c) ==
    /\ At(c, "delete")
    /\ session' = [session EXCEPT ![call[c].ptr].deletions =
                       IF call[c].op = "close" THEN @ + 1 ELSE @]
    /\ Replies(c, "success", call[c].opened)
    /\ UNCHANGED <<listVars, m_clients, delivering, m_audio_properties>>

\* ~music_id_client joins the worker and drops the requests it had not answered;
\* what else the session had is gone with it.
Deleted(s) == [s EXCEPT !.deletions = @ + 1, !.pending = 0, !.enable = FALSE]

\* The client and the session are deleted.
Delete(c) ==
    /\ At(c, "delete")
    /\ session' = [session EXCEPT ![call[c].ptr] = Deleted(@)]
    /\ Replies(c, "success", call[c].opened)
    /\ UNCHANGED <<listVars, m_clients, delivering, m_audio_properties>>

-----------------------------------------------------------------------------
(* The handlers that read or change a session's client *)

Ptr(c) == session[call[c].ptr]

\* The bus has a value for every frequency of the device; the switch of the
\* default properties lacks the one for 24 kHz and takes its default branch.
ToBusDefault(freq) == IF freq = "24000" THEN Default ELSE freq

\* set_audio_props takes unknown values of the bus for 48 kHz.
FromBus(freq) == IF freq \in RacFrequencies THEN freq ELSE Default

GetDefaultAudioProps(c) ==
    /\ At(c, "use")
    /\ Replies(c, "success", ToBusDefault(DeviceDefault))
    /\ UNCHANGED <<listVars, session, m_clients, delivering, m_audio_properties>>

\* A music id client that converts its output reports what it converts to.
GetAudioProps(c) ==
    /\ At(c, "use")
    /\ Replies(c, "success", IF Ptr(c).convert THEN Default ELSE m_audio_properties)
    /\ UNCHANGED <<listVars, session, m_clients, delivering, m_audio_properties>>

\* q_mgr takes the properties it has already, and refuses others with a maximum.
SetAudioProps(c) ==
    /\ At(c, "use")
    /\ \E freq \in Frequencies \cup {"unknown"} :
        IF FromBus(freq) = "max" /\ m_audio_properties # "max"
          THEN Replies(c, "minus_one", None) /\ UNCHANGED m_audio_properties
          ELSE Replies(c, "success", None) /\ m_audio_properties' = FromBus(freq)
    /\ UNCHANGED <<listVars, session, m_clients, delivering>>

\* A socket client has a path to report only if it could bind its socket.
GetOutputProps(c) ==
    /\ At(c, "use")
    /\ \/ Ptr(c).type = File /\ Replies(c, "success", MaxDuration)
       \/ /\ Ptr(c).type = Socket
          /\ \E result \in {"success", "general_failure"} : Replies(c, result, None)
    /\ UNCHANGED <<listVars, session, m_clients, delivering, m_audio_properties>>

SetOutputProps(c) ==
    /\ At(c, "use")
    /\ IF Ptr(c).type # File
         THEN Replies(c, "unsupported_api", None) /\ UNCHANGED session
         ELSE \E duration \in Durations :
              IF duration < MaxDuration
                THEN /\ session' = [session EXCEPT ![call[c].ptr].precapture = duration]
                     /\ Replies(c, "success", None)
                ELSE Replies(c, "duration_out_of_bounds", None) /\ UNCHANGED session
    /\ UNCHANGED <<listVars, m_clients, delivering, m_audio_properties>>

\* grab_fresh_sample returns the id it never assigned: -1 although the request
\* is queued.
GrabFreshSample(c, duration) ==
    IF duration <= MaxDuration
      THEN /\ Ptr(c).pending < MaxRequests
           /\ session' = [session EXCEPT ![call[c].ptr].pending = @ + 1]
           /\ Replies(c, "general_failure", None)
      ELSE Replies(c, "duration_out_of_bounds", None) /\ UNCHANGED session

\* The precaptured sample cannot be had when the client's queue is empty.
GrabPrecapturedSample(c) ==
    /\ \E result \in {"success", "general_failure"} : Replies(c, result, None)
    /\ UNCHANGED session

GetSample(c) ==
    /\ At(c, "use")
    /\ \/ /\ Ptr(c).type # File
          /\ Replies(c, "unsupported_api", None)
          /\ UNCHANGED session
       \/ /\ Ptr(c).type = File /\ ~Ptr(c).enable
          /\ Replies(c, "duration_out_of_bounds", None)
          /\ UNCHANGED session
       \/ /\ Ptr(c).type = File /\ Ptr(c).enable
          /\ \/ GrabPrecapturedSample(c)
             \/ \E duration \in Durations : GrabFreshSample(c, duration)
    /\ UNCHANGED <<listVars, m_clients, delivering, m_audio_properties>>

Use(c) == \/ GetDefaultAudioProps(c) \/ GetAudioProps(c) \/ SetAudioProps(c)
          \/ GetOutputProps(c) \/ SetOutputProps(c) \/ GetSample(c)

-----------------------------------------------------------------------------
(* The threads beside the handlers *)

\* The worker of session i's client answers a request whose time is up.
RequestIsUp(i) ==
    /\ session[i].deletions = 0
    /\ session[i].pending > 0
    /\ session' = [session EXCEPT ![i].pending = @ - 1]
    /\ reply' = NoReply
    /\ UNCHANGED <<listVars, m_clients, delivering, m_audio_properties, call, contended>>

\* process_data calls every registered client under m_client_mutex; the call of a
\* deleted one is undefined, and not followed.
BeginProcessData ==
    /\ ~delivering
    /\ m_clients # {}
    /\ \A i \in m_clients : session[i].deletions = 0
    /\ delivering' = TRUE
    /\ reply' = NoReply
    /\ UNCHANGED <<listVars, session, m_clients, m_audio_properties, call, contended>>

EndProcessData ==
    /\ delivering
    /\ delivering' = FALSE
    /\ reply' = NoReply
    /\ UNCHANGED <<listVars, session, m_clients, m_audio_properties, call, contended>>

Handler(c) ==
    \/ Open(c) \/ OpenRefused(c) \/ StopDuplicate(c)
    \/ Close(c) \/ Find(c) \/ TestEnable(c) \/ StartClient(c) \/ StopClient(c)
    \/ SetEnable(c) \/ Delete(c) \/ Use(c) \/ UseDeleted(c)

Next ==
    \/ \E c \in Callers : Handler(c)
    \/ \E i \in Ids : RequestIsUp(i)
    \/ BeginProcessData \/ EndProcessData

Spec == Init /\ [][Next]_vars

-----------------------------------------------------------------------------
(* Properties *)

Results == {"success", "invalid_arguments", "bad_session_id", "general_failure",
            "unsupported_api", "duration_out_of_bounds", "minus_one", "none"}

Sessions ==
    [type : {File, Socket}, enable : BOOLEAN, convert : BOOLEAN,
     precapture : Durations \cup {InitialPrecapture}, pending : 0 .. MaxRequests, deletions : Nat]

\* The types of the variables: above all, that no handler holds the pointer of
\* a session that was never opened.
TypeOK ==
    /\ m_session_counter \in 0 .. MaxSessions
    /\ m_sessions \subseteq Ids
    /\ m_clients \subseteq Ids
    /\ contended \subseteq Ids
    /\ session \in [Ids -> Sessions]
    /\ delivering \in BOOLEAN
    /\ m_audio_properties \in RacFrequencies
    /\ \A c \in Callers :
        /\ call[c].at \in {"idle", "test", "client", "enable", "delete", "use", "undefined"}
        /\ call[c].at # "idle" => call[c].ptr \in Ids
    /\ reply.result \in Results

\* Handler c is on its way to deleting session i.
Destroys(c, i) ==
    /\ call[c].ptr = i
    /\ \/ call[c].op = "close" /\ call[c].at # "idle"
       \/ call[c].op = "open" /\ call[c].at \in {"client", "delete"}

\* The pointer get_session returned is used without the lock, and a handler may
\* be left with a deleted session; but only if another closed or replaced it while
\* the handler was at work: a pointer is never stale when it is found, and the
\* handler that destroys a session is alone with it in the end.
StalePointerMeansOverlap ==
    \A c \in Callers :
        ~Idle(c) /\ ~Live(c) =>
            call[c].op \notin {"open", "close"} /\ call[c].ptr \in contended

\* A session no handler is working on is enabled exactly when its client is
\* registered, for enable decides later whether close unregisters the client;
\* unless it was started and stopped at once.
EnabledMeansRegistered ==
    \A i \in m_sessions \ contended :
        (\A c \in Callers : ~On(c, i)) => (session[i].enable <=> i \in m_clients)

\* The processor calls every client in the source's list: none of them has
\* been deleted, though deleting a client does not unregister it, and its
\* session knows that it is in the list.
CalledClientsAlive ==
    /\ EnabledMeansRegistered
    /\ \A i \in m_clients \ contended : session[i].deletions = 0

\* Each session is in the list, or one handler is destroying it, or it has been
\* deleted once: whoever closes and replaces it at once, it is not lost and not
\* deleted twice.
SessionsAccounted ==
    /\ TypeOK
    /\ \A i \in Ids :
        session[i].deletions
          + Cardinality({c \in Callers : Destroys(c, i)})
          + (IF i \in m_sessions THEN 1 ELSE 0) = 1

\* However often, and however many at once, open music id, at most one music id
\* client exists that no handler is about to delete.
OneMusicIdClient ==
    \A i, j \in Ids :
        /\ i # j
        /\ session[i].type = File /\ session[j].type = File
        /\ session[i].deletions = 0 /\ session[j].deletions = 0
        => \E c \in Callers : Destroys(c, i) \/ Destroys(c, j)
=============================================================================
