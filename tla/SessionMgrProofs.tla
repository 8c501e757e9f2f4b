--------------------------- MODULE SessionMgrProofs ---------------------------
(***************************************************************************)
(* Theorems about the sessions of the daemon (module SessionMgr), for any  *)
(* applications, any number of sessions and requests, and any durations.   *)
(***************************************************************************)
EXTENDS SessionMgr, FiniteSetTheorems, TLAPS

-----------------------------------------------------------------------------
(* The inductive invariant *)

Steps == {"idle", "test", "client", "enable", "delete", "use", "undefined"}
Ops == {"none", "open", "close", "start", "stop", "use"}
Handlers == [at : Steps, op : Ops, ptr : Int, opened : Int]

CallTypes == call \in [Callers -> Handlers]

\* The steps each handler takes.
StepsOf(op) == CASE op = "open" -> {"client", "delete"}
                 [] op = "close" -> {"test", "client", "enable", "delete"}
                 [] op \in {"start", "stop"} -> {"test", "client", "enable", "undefined"}
                 [] OTHER -> {"use", "undefined"}

Destroying(c) == call[c].op \in {"open", "close"}

\* A handler at work holds the pointer of a session that was opened; one that
\* destroys it has taken it out of the list first, and finds it whole; any other
\* may find it deleted, but only if it was in another's way.
HandlerInv(c) ==
    /\ Idle(c) => call[c] = NoCall
    /\ ~Idle(c) =>
        /\ call[c].ptr \in Ids
        /\ call[c].at \in StepsOf(call[c].op)
        /\ Destroying(c) => call[c].ptr \notin m_sessions /\ Live(c)
        /\ call[c].ptr \notin contended => Live(c)

\* Of two handlers on one session one at most destroys it, and if they are in
\* each other's way that is known.
PairInv(c, d) ==
    /\ ~(Destroying(c) /\ Destroying(d))
    /\ Conflict(call[c].op, call[d].op) => call[c].ptr \in contended

\* A session that is neither listed nor deleted is with a handler that destroys
\* it; and as long as its handlers are not in each other's way, the flag and the
\* list of clients differ only between two steps of one of them.
SessionInv(i) ==
    /\ session[i].deletions \in {0, 1}
    /\ i \in m_sessions => session[i].deletions = 0
    /\ i \notin m_sessions /\ session[i].deletions = 0 =>
        \E c \in Callers : On(c, i) /\ Destroying(c)
    /\ i \notin contended =>
        /\ session[i].deletions = 1 => i \notin m_clients
        /\ \A c \in Callers : On(c, i) =>
            /\ call[c].at = "enable" => (i \in m_clients <=> call[c].op = "start")
            /\ call[c].at = "delete" => i \notin m_clients
        /\ session[i].deletions = 0 /\ session[i].enable /\ i \notin m_clients =>
            \E c \in Callers : On(c, i) /\ call[c].at \in {"enable", "delete"}
        /\ ~session[i].enable /\ i \in m_clients =>
            \E c \in Callers : On(c, i) /\ call[c].at = "enable"

OneMusicIdSession ==
    \A i, j \in m_sessions : session[i].type = File /\ session[j].type = File => i = j

HandlersInv == \A c \in Callers : HandlerInv(c)
PairsInv ==
    \A c, d \in Callers :
        c # d /\ ~Idle(c) /\ ~Idle(d) /\ call[c].ptr = call[d].ptr => PairInv(c, d)
SessionsInv == \A i \in Ids : SessionInv(i)

MgrInv == TypeOK /\ CallTypes /\ HandlersInv /\ PairsInv /\ SessionsInv /\ OneMusicIdSession

-----------------------------------------------------------------------------
(* What the steps do to a handler and to its session *)

\* A handler that goes on keeps its pointer.
LEMMA HandlerGoesOn ==
    ASSUME CallTypes, NEW c \in Callers, NEW step, Goto(c, step)
    PROVE  call' = [call EXCEPT ![c] = [at |-> step, op |-> call[c].op, ptr |-> call[c].ptr,
                                        opened |-> call[c].opened]]
<1>1. call[c] \in Handlers
  BY DEF CallTypes
<1>2. [call[c] EXCEPT !.at = step]
        = [at |-> step, op |-> call[c].op, ptr |-> call[c].ptr, opened |-> call[c].opened]
  BY <1>1 DEF Handlers
<1>3. call' = [call EXCEPT ![c] = [call[c] EXCEPT !.at = step]]
  BY DEF Goto
<1>. QED BY <1>2, <1>3

\* What the invariant says of a handler at work and of its session.
LEMMA AtWork ==
    ASSUME MgrInv, NEW c \in Callers, ~Idle(c)
    PROVE  /\ call[c] \in Handlers
           /\ call[c].ptr \in Ids
           /\ session[call[c].ptr] \in Sessions
           /\ HandlerInv(c)
           /\ SessionInv(call[c].ptr)
           /\ \A d \in Callers : d # c /\ On(d, call[c].ptr) => PairInv(c, d) /\ HandlerInv(d)
<1>1. HandlerInv(c) /\ call[c].ptr \in Ids
  BY DEF MgrInv, HandlersInv, HandlerInv
<1>2. call[c] \in Handlers /\ session[call[c].ptr] \in Sessions
  BY <1>1 DEF MgrInv, CallTypes, TypeOK
<1>3. \A d \in Callers : d # c /\ On(d, call[c].ptr) => PairInv(c, d) /\ HandlerInv(d)
  BY DEF MgrInv, PairsInv, HandlersInv, On
<1>. QED BY <1>1, <1>2, <1>3 DEF MgrInv, SessionsInv

\* A step of handler c that leaves every session but one as it was keeps what the
\* invariant says of the other sessions, and of the handlers that are not on it.
LEMMA OthersKept ==
    ASSUME MgrInv, NEW c \in Callers, NEW p \in Ids, NEW s \in Sessions, NEW new \in Handlers,
           call' = [call EXCEPT ![c] = new],
           session' = [session EXCEPT ![p] = s], s.type = session[p].type,
           ~Idle(c) => call[c].ptr = p,
           new.at # "idle" => new.ptr = p,
           m_session_counter' = m_session_counter,
           m_sessions' \subseteq m_sessions,
           \A i \in Ids : i # p => (i \in m_sessions <=> i \in m_sessions'),
           m_clients' \subseteq Ids,
           \A i \in Ids : i # p => (i \in m_clients <=> i \in m_clients'),
           contended' \subseteq Ids,
           \A i \in Ids : i # p => (i \in contended <=> i \in contended'),
           contended \subseteq contended',
           delivering' \in BOOLEAN,
           m_audio_properties' \in RacFrequencies,
           reply'.result \in Results,
           HandlerInv(c)', SessionInv(p)',
           \A d \in Callers : d # c /\ On(d, p) =>
               HandlerInv(d)' /\ (new.at # "idle" => PairInv(c, d)' /\ PairInv(d, c)')
    PROVE  MgrInv'
<1> USE DEF MgrInv
<1>0. Ids' = Ids /\ Ids \subseteq Int
  BY DEF Ids, TypeOK
<1>1. CallTypes' /\ call'[c] = new /\ \A d \in Callers : d # c => call'[d] = call[d]
  BY DEF CallTypes
<1>2. session' \in [Ids -> Sessions]
  BY DEF TypeOK
<1>3. TypeOK'
  <2>1. \A d \in Callers : /\ call'[d].at \in Steps
                           /\ call'[d].at # "idle" => call'[d].ptr \in Ids
    BY <1>1 DEF TypeOK, CallTypes, Handlers
  <2>. QED BY <1>0, <1>2, <2>1 DEF TypeOK, Steps
<1>4. HandlersInv'
  <2> SUFFICES ASSUME NEW d \in Callers, d # c, ~On(d, p) PROVE HandlerInv(d)'
    BY DEF HandlersInv
  <2>1. call'[d] = call[d] /\ HandlerInv(d)
    BY <1>1 DEF HandlersInv
  <2>2. CASE Idle(d)
    BY <2>1, <2>2 DEF HandlerInv, Idle
  <2>3. CASE ~Idle(d)
    <3>1. call[d].ptr # p /\ call[d].ptr \in Ids
      BY <2>1, <2>3 DEF HandlerInv, On
    <3>2. session'[call[d].ptr] = session[call[d].ptr]
      BY <3>1 DEF TypeOK
    <3>3. /\ Live(d)' <=> Live(d)
          /\ Destroying(d)' <=> Destroying(d)
          /\ ~Idle(d)'
      BY <2>1, <2>3, <3>2 DEF Live, Destroying, Idle
    <3>4. /\ call[d].ptr \in m_sessions' => call[d].ptr \in m_sessions
          /\ call[d].ptr \in contended' <=> call[d].ptr \in contended
      BY <3>1
    <3>. QED BY <2>1, <2>3, <3>1, <3>3, <3>4, <1>0 DEF HandlerInv
  <2>. QED BY <2>2, <2>3
<1>5. PairsInv'
  <2> SUFFICES ASSUME NEW d \in Callers, NEW e \in Callers, d # e, ~Idle(d)', ~Idle(e)',
                      call'[d].ptr = call'[e].ptr
               PROVE  PairInv(d, e)'
    BY DEF PairsInv
  <2>1. CASE d # c /\ e # c
    <3>1. call'[d] = call[d] /\ call'[e] = call[e]
      BY <1>1, <2>1
    <3>2. PairInv(d, e)
      BY <3>1 DEF PairsInv, Idle
    <3>. QED BY <3>1, <3>2 DEF PairInv, Destroying
  <2>2. CASE d = c
    BY <1>1, <2>2 DEF Idle, On
  <2>3. CASE e = c
    BY <1>1, <2>3 DEF Idle, On
  <2>. QED BY <2>1, <2>2, <2>3
<1>6. SessionsInv'
  <2> SUFFICES ASSUME NEW i \in Ids, i # p PROVE SessionInv(i)'
    BY <1>0 DEF SessionsInv
  <2>1. session'[i] = session[i] /\ SessionInv(i)
    BY DEF TypeOK, SessionsInv
  <2>2. \A d \in Callers : On(d, i)' <=> On(d, i)
    BY <1>1 DEF On, Idle
  <2>3. \A d \in Callers : On(d, i) => call'[d] = call[d]
    BY <1>1 DEF On, Idle
  <2>4. /\ i \in m_sessions' <=> i \in m_sessions
        /\ i \in m_clients' <=> i \in m_clients
        /\ i \in contended' <=> i \in contended
    OBVIOUS
  <2>5. i \notin m_sessions /\ session[i].deletions = 0 =>
          \E d \in Callers : On(d, i)' /\ Destroying(d)'
    BY <2>1, <2>2, <2>3 DEF SessionInv, Destroying
  <2>6. ASSUME i \notin contended, NEW d \in Callers, On(d, i)'
        PROVE  /\ call'[d].at = "enable" => (i \in m_clients <=> call'[d].op = "start")
               /\ call'[d].at = "delete" => i \notin m_clients
    BY <2>1, <2>2, <2>3, <2>6 DEF SessionInv
  <2>7. i \notin contended /\ session[i].deletions = 0 /\ session[i].enable /\ i \notin m_clients =>
          \E d \in Callers : On(d, i)' /\ call'[d].at \in {"enable", "delete"}
    BY <2>1, <2>2, <2>3 DEF SessionInv
  <2>8. i \notin contended /\ ~session[i].enable /\ i \in m_clients =>
          \E d \in Callers : On(d, i)' /\ call'[d].at = "enable"
    BY <2>1, <2>2, <2>3 DEF SessionInv
  <2>9. /\ session[i].deletions \in {0, 1}
        /\ i \in m_sessions => session[i].deletions = 0
        /\ i \notin contended /\ session[i].deletions = 1 => i \notin m_clients
    BY <2>1 DEF SessionInv
  <2>. QED BY <2>1, <2>4, <2>5, <2>6, <2>7, <2>8, <2>9 DEF SessionInv
<1>7. OneMusicIdSession'
  BY DEF OneMusicIdSession, TypeOK
<1>. QED BY <1>1, <1>3, <1>4, <1>5, <1>6, <1>7

LEMMA MgrInvInit == Init => MgrInv
<1> SUFFICES ASSUME Init PROVE MgrInv
  OBVIOUS
<1>1. Ids = {}
  BY DEF Init, Ids
<1>2. session \in [Ids -> Sessions]
  BY <1>1 DEF Init
<1>3. TypeOK
  <2>1. delivering \in BOOLEAN
    BY Zenon DEF Init
  <2>. QED BY <1>1, <1>2, <2>1, SessionBounds, FrequenciesExist
           DEF Init, TypeOK, NoCall, NoReply, Results
<1>4. CallTypes
  BY DEF Init, CallTypes, Handlers, NoCall, None, Steps, Ops
<1>5. \A c \in Callers : call[c] = NoCall /\ Idle(c)
  BY DEF Init, NoCall, Idle
<1>6. HandlersInv /\ PairsInv /\ SessionsInv /\ OneMusicIdSession
  BY <1>1, <1>5 DEF Init, HandlersInv, HandlerInv, PairsInv, SessionsInv, OneMusicIdSession
<1>. QED BY <1>3, <1>4, <1>6 DEF MgrInv

-----------------------------------------------------------------------------
(* Every step keeps the invariant *)

\* An answer that finds no session, or needs none.
LEMMA AnswerAtOnceKeeps ==
    ASSUME MgrInv, NEW c \in Callers, Idle(c), NEW result \in Results, NEW value,
           Replies(c, result, value),
           UNCHANGED <<listVars, session, m_clients, delivering, m_audio_properties>>
    PROVE  MgrInv'
<1> USE DEF MgrInv, listVars
<1>1. call' = call
  BY DEF Replies, HandlersInv, HandlerInv, CallTypes
<1>2. reply'.result \in Results /\ contended' = contended
  BY DEF Replies
<1>3. TypeOK'
  BY <1>1, <1>2 DEF TypeOK, Ids
<1>4. CallTypes' /\ HandlersInv' /\ PairsInv' /\ OneMusicIdSession'
  BY <1>1, <1>2 DEF CallTypes, HandlersInv, HandlerInv, PairsInv, PairInv, OneMusicIdSession,
                    Idle, Destroying, Live, Ids
<1>5. SessionsInv'
  BY <1>1, <1>2 DEF SessionsInv, SessionInv, On, Idle, Destroying, Ids
<1>. QED BY <1>3, <1>4, <1>5

\* A handler that only uses its session reads or writes a property of the client,
\* and returns.
LEMMA UseReturnKeeps ==
    ASSUME MgrInv, NEW c \in Callers, At(c, "use"), NEW p, p = call[c].ptr,
           NEW s \in Sessions, session' = [session EXCEPT ![p] = s],
           s.type = session[p].type, s.enable = session[p].enable,
           s.deletions = session[p].deletions,
           NEW result \in Results, NEW value, Replies(c, result, value),
           m_audio_properties' \in RacFrequencies,
           UNCHANGED <<listVars, m_clients, delivering>>
    PROVE  MgrInv'
<1> USE DEF listVars
<1>0. ~Idle(c) /\ call[c].at = "use"
  BY DEF At, Idle
<1>1. NoCall \in Handlers /\ NoCall.at = "idle"
  BY DEF Handlers, Steps, Ops, NoCall, None
<1>2. call' = [call EXCEPT ![c] = NoCall] /\ reply'.result \in Results /\ contended' = contended
  BY DEF Replies
<1>3. /\ call'[c] = NoCall /\ Ids' = Ids
      /\ \A d \in Callers : d # c => call'[d] = call[d]
  BY <1>2 DEF MgrInv, CallTypes, Ids
<1>4. p \in Ids /\ HandlerInv(c) /\ SessionInv(p) /\ ~Destroying(c)
      /\ \A d \in Callers : d # c /\ On(d, p) => HandlerInv(d)
  BY <1>0, AtWork DEF HandlerInv, StepsOf, Destroying
<1>5. session'[p] = s
  BY <1>4 DEF MgrInv, TypeOK
<1>6. HandlerInv(c)'
  BY <1>1, <1>3 DEF HandlerInv, Idle
<1>7. \A d \in Callers : On(d, p)' <=> On(d, p) /\ d # c
  BY <1>1, <1>3 DEF On, Idle
<1>8. SessionInv(p)'
  BY <1>0, <1>2, <1>3, <1>4, <1>5, <1>7 DEF SessionInv, Destroying
<1>9. \A d \in Callers : d # c /\ On(d, p) => HandlerInv(d)'
  BY <1>2, <1>3, <1>4, <1>5 DEF HandlerInv, On, Idle, Live, Destroying
<1>10. m_clients' \subseteq Ids /\ delivering' \in BOOLEAN /\ contended' \subseteq Ids
  BY <1>2 DEF MgrInv, TypeOK
<1>. QED BY <1>0, <1>1, <1>2, <1>4, <1>6, <1>8, <1>9, <1>10, OthersKept

\* A handler begins its work on a session of the list, which close takes out.
LEMMA TakesKeeps ==
    ASSUME MgrInv, NEW c \in Callers, Idle(c), NEW i \in m_sessions,
           NEW op \in {"start", "stop", "use", "close"},
           NEW step, step = IF op = "use" THEN "use" ELSE "test",
           Takes(c, op, step, i, None),
           m_sessions' = IF op = "close" THEN m_sessions \ {i} ELSE m_sessions,
           UNCHANGED <<m_session_counter, session, m_clients, delivering, m_audio_properties>>
    PROVE  MgrInv'
<1> DEFINE new == [at |-> step, op |-> op, ptr |-> i, opened |-> None]
<1>1. /\ i \in Ids /\ Ids \subseteq Int /\ Ids' = Ids
      /\ session[i] \in Sessions /\ session' = [session EXCEPT ![i] = session[i]]
  BY DEF MgrInv, TypeOK, Ids
<1>2. new \in Handlers /\ new.at = step /\ new.op = op /\ new.ptr = i /\ step # "idle"
  BY <1>1 DEF Handlers, Steps, Ops, None
<1>3. /\ call' = [call EXCEPT ![c] = new]
      /\ call'[c] = new
      /\ \A d \in Callers : d # c => call'[d] = call[d]
  BY DEF Takes, MgrInv, CallTypes
<1>4. /\ reply'.result \in Results
      /\ contended' \subseteq Ids /\ contended \subseteq contended'
      /\ \A j \in Ids : j # i => (j \in contended <=> j \in contended')
  BY <1>1 DEF Takes, MgrInv, TypeOK, Results, NoReply
<1>5. ASSUME NEW d \in Callers, On(d, i), Conflict(op, call[d].op)
      PROVE  i \in contended'
  BY <1>5 DEF Takes
<1>6. SessionInv(i) /\ session[i].deletions = 0
  BY <1>1 DEF MgrInv, SessionsInv, SessionInv
<1>7. \A d \in Callers : On(d, i) => d # c /\ ~Destroying(d) /\ HandlerInv(d)
  BY DEF MgrInv, HandlersInv, HandlerInv, On
<1>8. HandlerInv(c)'
  BY <1>1, <1>2, <1>3, <1>6 DEF HandlerInv, Idle, Live, Destroying, StepsOf
<1>9. \A d \in Callers : On(d, i)' <=> On(d, i) \/ d = c
  BY <1>2, <1>3 DEF On, Idle
<1>10. SessionInv(i)'
  <2>1. /\ session'[i].deletions = 0 /\ session'[i] = session[i]
        /\ (i \in m_clients' <=> i \in m_clients)
    BY <1>6
  <2>2. i \notin m_sessions' => \E d \in Callers : On(d, i)' /\ Destroying(d)'
    BY <1>2, <1>3, <1>9 DEF Destroying
  <2>3. CASE i \in contended'
    BY <2>1, <2>2, <2>3 DEF SessionInv
  <2>4. CASE i \notin contended'
    <3>1. i \notin contended
      BY <1>4, <2>4
    <3>2. ASSUME NEW d \in Callers, On(d, i)'
          PROVE  /\ call'[d].at = "enable" => (i \in m_clients <=> call'[d].op = "start")
                 /\ call'[d].at = "delete" => i \notin m_clients
      BY <1>2, <1>3, <1>6, <1>7, <1>9, <3>1, <3>2 DEF SessionInv
    <3>3. session[i].enable /\ i \notin m_clients =>
            \E d \in Callers : On(d, i)' /\ call'[d].at \in {"enable", "delete"}
      BY <1>3, <1>6, <1>7, <1>9, <3>1 DEF SessionInv
    <3>4. ~session[i].enable /\ i \in m_clients =>
            \E d \in Callers : On(d, i)' /\ call'[d].at = "enable"
      BY <1>3, <1>6, <1>7, <1>9, <3>1 DEF SessionInv
    <3>. QED BY <2>1, <2>2, <3>2, <3>3, <3>4 DEF SessionInv
  <2>. QED BY <2>3, <2>4
<1>11. ASSUME NEW d \in Callers, d # c, On(d, i)
       PROVE  HandlerInv(d)' /\ PairInv(c, d)' /\ PairInv(d, c)'
  <2>1. /\ call'[d] = call[d] /\ ~Destroying(d) /\ HandlerInv(d)
        /\ call[d].ptr = i
    BY <1>3, <1>7, <1>11 DEF On
  <2>2. HandlerInv(d)'
    BY <1>1, <1>6, <2>1 DEF HandlerInv, Idle, Live, Destroying
  <2>3. Conflict(op, call[d].op) <=> Conflict(call[d].op, op)
    BY DEF Conflict
  <2>4. ~Destroying(d)'
    BY <2>1 DEF Destroying
  <2>. QED BY <1>2, <1>3, <1>5, <1>11, <2>1, <2>2, <2>3, <2>4 DEF PairInv
<1>12. /\ m_sessions' \subseteq m_sessions
       /\ \A j \in Ids : j # i => (j \in m_sessions <=> j \in m_sessions')
       /\ m_clients' \subseteq Ids /\ delivering' \in BOOLEAN
       /\ m_audio_properties' \in RacFrequencies
  BY DEF MgrInv, TypeOK
<1>. QED BY <1>1, <1>2, <1>3, <1>4, <1>8, <1>10, <1>11, <1>12, OthersKept

\* A handler at work goes on or returns: only the one that destroys the session may
\* delete it, and every other on it was in its way.
LEMMA WorkKeeps ==
    ASSUME MgrInv, NEW c \in Callers, ~Idle(c),
           NEW s \in Sessions, session' = [session EXCEPT ![call[c].ptr] = s],
           s.type = session[call[c].ptr].type,
           s.deletions = session[call[c].ptr].deletions \/ Destroying(c),
           NEW new \in Handlers, call' = [call EXCEPT ![c] = new],
           new.at # "idle" => new.op = call[c].op /\ new.ptr = call[c].ptr,
           m_clients' \in {m_clients, m_clients \cup {call[c].ptr}, m_clients \ {call[c].ptr}},
           reply'.result \in Results,
           UNCHANGED <<m_sessions, m_session_counter, delivering, m_audio_properties, contended>>,
           HandlerInv(c)', \A i \in {call[c].ptr} : SessionInv(i)'
    PROVE  MgrInv'
<1>0. PICK p : p = call[c].ptr
  OBVIOUS
<1>1. /\ p \in Ids /\ Ids' = Ids
      /\ \A d \in Callers : d # c /\ On(d, p) => PairInv(c, d) /\ PairInv(d, c) /\ HandlerInv(d)
  BY <1>0, AtWork DEF Ids, MgrInv, PairsInv, On
<1>2. /\ session'[p] = s
      /\ call'[c] = new
      /\ \A d \in Callers : d # c => call'[d] = call[d]
  BY <1>0, <1>1 DEF MgrInv, TypeOK, CallTypes
<1>3. ASSUME NEW d \in Callers, d # c, On(d, p)
      PROVE  HandlerInv(d)' /\ (new.at # "idle" => PairInv(c, d)' /\ PairInv(d, c)')
  <2>1. /\ call'[d] = call[d] /\ call[d].ptr = p /\ ~Idle(d)
        /\ PairInv(c, d) /\ PairInv(d, c) /\ HandlerInv(d)
    BY <1>0, <1>1, <1>2, <1>3 DEF On
  <2>2. ASSUME s.deletions = session[p].deletions PROVE HandlerInv(d)'
    <3>1. (Live(d)' <=> Live(d)) /\ (Destroying(d)' <=> Destroying(d)) /\ ~Idle(d)'
      BY <1>2, <2>1, <2>2 DEF Live, Destroying, Idle
    <3>. QED BY <1>0, <1>1, <2>1, <3>1 DEF HandlerInv
  <2>3. ASSUME Destroying(c) PROVE HandlerInv(d)'
    <3>1. ~Destroying(d) /\ p \in contended
      BY <2>1, <2>3 DEF PairInv, Conflict, Destroying
    <3>2. ~Destroying(d)' /\ ~Idle(d)' /\ p \in contended'
      BY <2>1, <3>1 DEF Destroying, Idle
    <3>3. /\ (Idle(d) <=> Idle(d)') /\ (~Idle(d))'
          /\ call'[d].ptr \in Ids' /\ call'[d].ptr \in contended'
          /\ call'[d].at \in StepsOf(call'[d].op)
      BY <1>1, <2>1, <3>2 DEF HandlerInv, Idle
    <3>. QED BY <3>2, <3>3 DEF HandlerInv
  <2>4. new.at # "idle" => PairInv(c, d)' /\ PairInv(d, c)'
    BY <1>2, <2>1 DEF PairInv, Destroying
  <2>. QED BY <1>0, <2>2, <2>3, <2>4
<1>4. /\ m_sessions' \subseteq m_sessions
      /\ \A j \in Ids : j # p => (j \in m_sessions <=> j \in m_sessions')
      /\ contended' \subseteq Ids /\ contended \subseteq contended'
      /\ \A j \in Ids : j # p => (j \in contended <=> j \in contended')
      /\ delivering' \in BOOLEAN /\ m_audio_properties' \in RacFrequencies
  BY <1>0 DEF MgrInv, TypeOK
<1>5. /\ m_clients' \subseteq Ids
      /\ \A j \in Ids : j # p => (j \in m_clients <=> j \in m_clients')
  BY <1>0, <1>1 DEF MgrInv, TypeOK
<1>6. m_session_counter' = m_session_counter
  OBVIOUS
<1>7. new.at # "idle" => new.ptr = p
  BY <1>0
<1>. QED BY <1>0, <1>1, <1>3, <1>4, <1>5, <1>6, <1>7, OthersKept

\* What a step of handler c leaves as it was, as far as the session it is on goes.
LEMMA OthersOnSession ==
    ASSUME MgrInv, NEW c \in Callers, ~Idle(c),
           NEW new \in Handlers, call' = [call EXCEPT ![c] = new],
           new.at # "idle" => new.ptr = call[c].ptr
    PROVE  \A p \in {call[c].ptr} :
               /\ call'[c] = new
               /\ On(c, p)' <=> new.at # "idle"
               /\ \A d \in Callers : d # c => call'[d] = call[d] /\ (On(d, p)' <=> On(d, p))
BY DEF MgrInv, CallTypes, On, Idle

\* A handler whose session is free of contention is alone with it, but for handlers
\* that are in nobody's way.
LEMMA Uncontended ==
    ASSUME MgrInv, NEW c \in Callers, ~Idle(c), call[c].ptr \notin contended,
           NEW d \in Callers, d # c, On(d, call[c].ptr)
    PROVE  ~Conflict(call[c].op, call[d].op)
BY DEF MgrInv, PairsInv, PairInv, On

\* A handler returns: it is idle, and stands for nothing on its session any more.
LEMMA Returned ==
    ASSUME NEW c \in Callers, CallTypes, NEW result \in Results, NEW value,
           Replies(c, result, value)
    PROVE  /\ NoCall \in Handlers /\ NoCall.at = "idle"
           /\ call' = [call EXCEPT ![c] = NoCall]
           /\ HandlerInv(c)'
           /\ reply'.result \in Results /\ contended' = contended
<1>1. NoCall \in Handlers /\ NoCall.at = "idle"
  BY DEF Handlers, Steps, Ops, NoCall, None
<1>2. call' = [call EXCEPT ![c] = NoCall] /\ call'[c] = NoCall
  BY DEF Replies, CallTypes
<1>3. HandlerInv(c)'
  BY <1>1, <1>2 DEF HandlerInv, Idle
<1>. QED BY <1>1, <1>2, <1>3 DEF Replies

\* A handler goes on: its pointer stays, and so does its operation.
LEMMA GoneOn ==
    ASSUME NEW c \in Callers, CallTypes, NEW step \in Steps, Goto(c, step)
    PROVE  \E new \in Handlers :
               /\ new = [at |-> step, op |-> call[c].op, ptr |-> call[c].ptr,
                         opened |-> call[c].opened]
               /\ call' = [call EXCEPT ![c] = new]
               /\ reply'.result \in Results /\ contended' = contended
<1>1. call[c] \in Handlers
  BY DEF CallTypes
<1>. QED BY <1>1, HandlerGoesOn DEF Goto, Handlers, NoReply, Results

LEMMA TestEnableKeeps ==
    ASSUME MgrInv, NEW c \in Callers, TestEnable(c)
    PROVE  MgrInv'
<1>0. PICK p : p = call[c].ptr
  OBVIOUS
<1>1. /\ ~Idle(c) /\ call[c].at = "test" /\ Live(c) /\ CallTypes
      /\ UNCHANGED <<m_sessions, m_session_counter, session, m_clients, delivering,
                     m_audio_properties>>
      /\ UNCHANGED listVars
  BY DEF TestEnable, At, Idle, MgrInv, listVars
<1>2. /\ call[c] \in Handlers /\ p \in Ids /\ session[p] \in Sessions
      /\ HandlerInv(c) /\ SessionInv(p) /\ call[c].op \in {"close", "start", "stop"}
  BY <1>0, <1>1, AtWork DEF HandlerInv, StepsOf, Handlers, Ops
<1>3. /\ session' = [session EXCEPT ![p] = session[p]]
      /\ Ids' = Ids
  BY <1>0, <1>1, <1>2 DEF MgrInv, TypeOK, Ids
<1>4. CASE Replies(c, "success", None) /\ call[c].op # "close"
  <2>1. /\ NoCall \in Handlers /\ NoCall.at = "idle"
        /\ call' = [call EXCEPT ![c] = NoCall]
        /\ HandlerInv(c)' /\ reply'.result \in Results /\ contended' = contended
    BY <1>0, <1>1, <1>4, Returned DEF Results
  <2>2. /\ call'[c] = NoCall /\ ~On(c, p)'
        /\ \A d \in Callers : d # c => call'[d] = call[d] /\ (On(d, p)' <=> On(d, p))
    BY <1>0, <1>1, <2>1, OthersOnSession
  <2>3. SessionInv(p)'
    <3>1. \A d \in Callers : On(d, p)' <=> On(d, p) /\ d # c
      BY <2>2
    <3>. QED BY <1>0, <1>1, <1>2, <1>4, <2>1, <2>2, <3>1 DEF SessionInv, Destroying
  <2>. QED BY <1>0, <1>1, <1>2, <1>3, <2>1, <2>3, WorkKeeps
<1>5. CASE Goto(c, "delete") /\ call[c].op = "close" /\ ~session[p].enable
  <2>1. PICK new \in Handlers :
          /\ new = [at |-> "delete", op |-> call[c].op, ptr |-> p, opened |-> call[c].opened]
          /\ call' = [call EXCEPT ![c] = new]
          /\ reply'.result \in Results /\ contended' = contended
    BY <1>0, <1>1, <1>5, GoneOn DEF Steps
  <2>2. /\ call'[c] = new /\ On(c, p)'
        /\ \A d \in Callers : d # c => call'[d] = call[d] /\ (On(d, p)' <=> On(d, p))
    BY <1>0, <1>1, <2>1, OthersOnSession
  <2>3. HandlerInv(c)'
    BY <1>0, <1>1, <1>2, <1>3, <1>5, <2>1, <2>2
       DEF HandlerInv, Idle, Live, Destroying, StepsOf
  <2>4. p \notin contended => p \notin m_clients
    BY <1>0, <1>1, <1>2, <1>5, Uncontended DEF SessionInv, Conflict
  <2>5. Destroying(c)'
    BY <1>5, <2>1, <2>2 DEF Destroying
  <2>6. ASSUME p \notin contended, NEW d \in Callers, On(d, p)'
        PROVE  /\ call'[d].at = "enable" => (p \in m_clients <=> call'[d].op = "start")
               /\ call'[d].at = "delete" => p \notin m_clients
    BY <1>2, <2>1, <2>2, <2>4, <2>6 DEF SessionInv
  <2>7. SessionInv(p)'
    BY <1>0, <1>1, <1>2, <1>5, <2>1, <2>2, <2>4, <2>5, <2>6 DEF SessionInv
  <2>8. new.at # "idle" => new.op = call[c].op /\ new.ptr = p
    BY <2>1
  <2>. QED BY <1>0, <1>1, <1>2, <1>3, <2>1, <2>3, <2>7, <2>8, WorkKeeps
<1>6. CASE Goto(c, "client")
  <2>1. PICK new \in Handlers :
          /\ new = [at |-> "client", op |-> call[c].op, ptr |-> p, opened |-> call[c].opened]
          /\ call' = [call EXCEPT ![c] = new]
          /\ reply'.result \in Results /\ contended' = contended
    BY <1>0, <1>1, <1>6, GoneOn DEF Steps
  <2>2. /\ call'[c] = new /\ On(c, p)'
        /\ \A d \in Callers : d # c => call'[d] = call[d] /\ (On(d, p)' <=> On(d, p))
    BY <1>0, <1>1, <2>1, OthersOnSession
  <2>3. HandlerInv(c)'
    BY <1>0, <1>1, <1>2, <1>3, <2>1, <2>2 DEF HandlerInv, Idle, Live, Destroying, StepsOf
  <2>4. \A d \in Callers : (On(d, p)' <=> On(d, p)) /\ (Destroying(d)' <=> Destroying(d))
    BY <1>0, <1>1, <2>1, <2>2 DEF On, Destroying
  <2>5. SessionInv(p)'
    <3>1. /\ session'[p] = session[p] /\ m_sessions' = m_sessions /\ m_clients' = m_clients
          /\ contended' = contended /\ SessionInv(p)
      BY <1>1, <1>2, <2>1
    <3>2. \A d \in Callers : d # c => call'[d] = call[d]
      BY <2>2
    <3>3. call'[c].at = "client" /\ call[c].at = "test"
      BY <1>1, <2>1, <2>2
    <3>4. p \notin m_sessions /\ session[p].deletions = 0 =>
            \E d \in Callers : On(d, p)' /\ Destroying(d)'
      BY <2>4, <3>1 DEF SessionInv
    <3>5. \A d \in Callers : On(d, p)' /\ call'[d].at \in {"enable", "delete"} =>
            On(d, p) /\ call'[d] = call[d]
      BY <2>4, <3>2, <3>3
    <3>6. \A d \in Callers : On(d, p) /\ call[d].at \in {"enable", "delete"} =>
            On(d, p)' /\ call'[d] = call[d]
      BY <2>4, <3>2, <3>3
    <3>7. ASSUME p \notin contended, NEW d \in Callers, On(d, p)'
          PROVE  /\ call'[d].at = "enable" => (p \in m_clients <=> call'[d].op = "start")
                 /\ call'[d].at = "delete" => p \notin m_clients
      BY <3>1, <3>5, <3>7 DEF SessionInv
    <3>8. /\ p \notin contended /\ session[p].deletions = 0 /\ session[p].enable
          /\ p \notin m_clients
          => \E d \in Callers : On(d, p)' /\ call'[d].at \in {"enable", "delete"}
      BY <3>1, <3>6 DEF SessionInv
    <3>9. p \notin contended /\ ~session[p].enable /\ p \in m_clients =>
            \E d \in Callers : On(d, p)' /\ call'[d].at = "enable"
      BY <3>1, <3>6 DEF SessionInv
    <3>. QED BY <3>1, <3>4, <3>7, <3>8, <3>9 DEF SessionInv
  <2>6. new.at # "idle" => new.op = call[c].op /\ new.ptr = p
    BY <2>1
  <2>. QED BY <1>0, <1>1, <1>2, <1>3, <2>1, <2>3, <2>5, <2>6, WorkKeeps
<1>. QED BY <1>0, <1>2, <1>4, <1>5, <1>6 DEF TestEnable

\* A handler that was at "client" goes on with the client registered or not.
LEMMA ClientKeeps ==
    ASSUME MgrInv, NEW c \in Callers, StartClient(c) \/ StopClient(c) \/ StopDuplicate(c)
    PROVE  MgrInv'
<1>0. PICK p : p = call[c].ptr
  OBVIOUS
<1> DEFINE step == IF call[c].op = "open" THEN "delete" ELSE "enable"
<1>1. /\ ~Idle(c) /\ call[c].at = "client" /\ Live(c) /\ CallTypes
      /\ UNCHANGED <<m_sessions, m_session_counter, session, delivering, m_audio_properties>>
      /\ UNCHANGED listVars
  BY DEF StartClient, StopClient, StopDuplicate, At, Idle, MgrInv, listVars
<1>2. /\ call[c] \in Handlers /\ p \in Ids /\ session[p] \in Sessions
      /\ HandlerInv(c) /\ SessionInv(p) /\ session[p].deletions = 0
  BY <1>0, <1>1, AtWork DEF Live
<1>3. session' = [session EXCEPT ![p] = session[p]] /\ Ids' = Ids
  BY <1>0, <1>1, <1>2 DEF MgrInv, TypeOK, Ids
<1>4. /\ call[c].op \in {"open", "close", "start", "stop"}
      /\ Goto(c, step)
      /\ m_clients' = IF call[c].op = "start" THEN m_clients \cup {p} ELSE m_clients \ {p}
  BY <1>0 DEF StartClient, StopClient, StopDuplicate
<1>5. PICK new \in Handlers :
        /\ new = [at |-> step, op |-> call[c].op, ptr |-> p, opened |-> call[c].opened]
        /\ call' = [call EXCEPT ![c] = new]
        /\ reply'.result \in Results /\ contended' = contended
  BY <1>0, <1>1, <1>4, GoneOn DEF Steps
<1>6. /\ call'[c] = new /\ On(c, p)'
      /\ \A d \in Callers : d # c => call'[d] = call[d] /\ (On(d, p)' <=> On(d, p))
  BY <1>0, <1>1, <1>5, OthersOnSession
<1>7. HandlerInv(c)'
  BY <1>0, <1>1, <1>2, <1>3, <1>4, <1>5, <1>6 DEF HandlerInv, Idle, Live, Destroying, StepsOf
<1>8. \A d \in Callers : (On(d, p)' <=> On(d, p)) /\ (Destroying(d)' <=> Destroying(d))
  BY <1>0, <1>1, <1>5, <1>6 DEF On, Destroying
<1>9. p \in m_clients' <=> call[c].op = "start"
  BY <1>2, <1>4
<1>10. ASSUME p \notin contended, NEW d \in Callers, On(d, p)'
       PROVE  /\ call'[d].at = "enable" => (p \in m_clients' <=> call'[d].op = "start")
              /\ call'[d].at = "delete" => p \notin m_clients'
  <2>1. CASE d = c
    BY <1>4, <1>5, <1>6, <1>9, <2>1
  <2>2. CASE d # c
    <3>1. ~Conflict(call[c].op, call[d].op) /\ call'[d] = call[d] /\ HandlerInv(d) /\ ~Idle(d)
      BY <1>0, <1>1, <1>6, <1>10, <2>2, AtWork, Uncontended DEF On
    <3>2. call[d] \in Handlers
      BY <1>1 DEF CallTypes
    <3>3. call[d].at = "enable" => call[d].op \in {"start", "stop", "close"}
      BY <3>1, <3>2 DEF HandlerInv, StepsOf, Handlers, Ops
    <3>4. call[d].at = "delete" => call[d].op \in {"open", "close"}
      BY <3>1, <3>2 DEF HandlerInv, StepsOf, Handlers, Ops
    <3>. QED BY <1>4, <1>9, <3>1, <3>3, <3>4 DEF Conflict
  <2>. QED BY <2>1, <2>2
<1>11. SessionInv(p)'
  BY <1>0, <1>1, <1>2, <1>4, <1>5, <1>6, <1>8, <1>9, <1>10 DEF SessionInv
<1>12. new.at # "idle" => new.op = call[c].op /\ new.ptr = p
  BY <1>5
<1>13. m_clients' \in {m_clients, m_clients \cup {p}, m_clients \ {p}}
  BY <1>4
<1>. QED BY <1>0, <1>1, <1>2, <1>3, <1>5, <1>7, <1>11, <1>12, <1>13, WorkKeeps

\* The flag follows the list of clients, and the last thing done to a session is to
\* delete it.
LEMMA SetEnableKeeps ==
    ASSUME MgrInv, NEW c \in Callers, SetEnable(c)
    PROVE  MgrInv'
<1>0. PICK p : p = call[c].ptr
  OBVIOUS
<1> DEFINE s == [session[p] EXCEPT !.enable = (call[c].op = "start")]
<1>1. /\ ~Idle(c) /\ call[c].at = "enable" /\ Live(c) /\ CallTypes
      /\ UNCHANGED <<m_sessions, m_session_counter, m_clients, delivering, m_audio_properties>>
  BY DEF SetEnable, At, Idle, MgrInv, listVars
<1>2. /\ call[c] \in Handlers /\ p \in Ids /\ session[p] \in Sessions
      /\ HandlerInv(c) /\ SessionInv(p) /\ session[p].deletions = 0
      /\ call[c].op \in {"close", "start", "stop"}
  BY <1>0, <1>1, AtWork DEF Live, HandlerInv, StepsOf, Handlers, Ops
<1>3. session' = [session EXCEPT ![p] = s] /\ session'[p] = s /\ Ids' = Ids
  BY <1>0, <1>1, <1>2 DEF MgrInv, TypeOK, Ids, SetEnable
<1>4. /\ s \in Sessions /\ s.type = session[p].type /\ s.deletions = 0
      /\ s.enable <=> call[c].op = "start"
  BY <1>2 DEF Sessions
<1>5. p \notin contended => (p \in m_clients <=> call[c].op = "start")
  BY <1>0, <1>1, <1>2 DEF SessionInv, On
<1>6. ASSUME NEW new \in Handlers, call'[c] = new, contended' = contended,
             \A d \in Callers : d # c => call'[d] = call[d] /\ (On(d, p)' <=> On(d, p)),
             new.at \in {"idle", "delete"},
             On(c, p)' <=> call[c].op = "close",
             call[c].op = "close" => new.op = "close",
             new.at = "delete" => call[c].op = "close"
      PROVE  SessionInv(p)'
  <2>1. p \notin m_sessions => \E d \in Callers : On(d, p)' /\ Destroying(d)'
    <3>1. CASE call[c].op = "close"
      BY <1>6, <3>1 DEF Destroying
    <3>2. CASE call[c].op # "close"
      BY <1>2, <1>6, <3>2 DEF SessionInv, Destroying
    <3>. QED BY <3>1, <3>2
  <2>2. ASSUME p \notin contended, NEW d \in Callers, On(d, p)'
        PROVE  /\ call'[d].at = "enable" => (p \in m_clients <=> call'[d].op = "start")
               /\ call'[d].at = "delete" => p \notin m_clients
    BY <1>2, <1>5, <1>6, <2>2 DEF SessionInv
  <2>3. /\ session'[p].deletions = 0 /\ m_sessions' = m_sessions /\ m_clients' = m_clients
        /\ contended' = contended
    BY <1>1, <1>3, <1>4, <1>6
  <2>4. p \notin contended => (session'[p].enable <=> p \in m_clients)
    BY <1>3, <1>4, <1>5
  <2>. QED BY <2>1, <2>2, <2>3, <2>4 DEF SessionInv
<1>7. CASE call[c].op = "close"
  <2>1. PICK new \in Handlers :
          /\ new = [at |-> "delete", op |-> call[c].op, ptr |-> p, opened |-> call[c].opened]
          /\ call' = [call EXCEPT ![c] = new]
          /\ reply'.result \in Results /\ contended' = contended
    BY <1>0, <1>1, <1>7, GoneOn DEF Steps, SetEnable
  <2>2. /\ call'[c] = new /\ On(c, p)'
        /\ \A d \in Callers : d # c => call'[d] = call[d] /\ (On(d, p)' <=> On(d, p))
    BY <1>0, <1>1, <2>1, OthersOnSession
  <2>3. Live(c)' /\ ~Idle(c)'
    BY <1>3, <1>4, <2>1, <2>2 DEF Live, Idle
  <2>4. p \notin m_sessions
    BY <1>0, <1>1, <1>2, <1>7 DEF HandlerInv, Destroying
  <2>5. HandlerInv(c)'
    <3>1. /\ call'[c].ptr = p /\ call'[c].at = "delete" /\ call'[c].op = "close"
          /\ p \notin m_sessions'
      BY <1>1, <1>7, <2>1, <2>2, <2>4
    <3>2. "delete" \in StepsOf("close")
      BY DEF StepsOf
    <3>. QED BY <1>2, <1>3, <2>3, <3>1, <3>2 DEF HandlerInv
  <2>6. SessionInv(p)'
    BY <1>6, <1>7, <2>1, <2>2
  <2>7. new.at # "idle" => new.op = call[c].op /\ new.ptr = p
    BY <2>1
  <2>. QED BY <1>0, <1>1, <1>2, <1>3, <1>4, <2>1, <2>5, <2>6, <2>7, WorkKeeps
<1>8. CASE call[c].op # "close"
  <2>1. /\ NoCall \in Handlers /\ NoCall.at = "idle"
        /\ call' = [call EXCEPT ![c] = NoCall]
        /\ HandlerInv(c)' /\ reply'.result \in Results /\ contended' = contended
    BY <1>1, <1>8, Returned DEF Results, SetEnable
  <2>2. /\ call'[c] = NoCall /\ ~On(c, p)'
        /\ \A d \in Callers : d # c => call'[d] = call[d] /\ (On(d, p)' <=> On(d, p))
    BY <1>0, <1>1, <2>1, OthersOnSession
  <2>3. SessionInv(p)'
    BY <1>6, <1>8, <2>1, <2>2
  <2>. QED BY <1>0, <1>1, <1>2, <1>3, <1>4, <2>1, <2>3, WorkKeeps
<1>. QED BY <1>7, <1>8

\* A deleted session has another record of the same type.
LEMMA DeletedSession ==
    ASSUME NEW s \in Sessions
    PROVE  /\ Deleted(s) \in Sessions
           /\ Deleted(s).type = s.type
           /\ Deleted(s).deletions = s.deletions + 1
<1>1. 0 \in 0 .. MaxRequests /\ s.deletions + 1 \in Nat
  BY SessionBounds DEF Sessions
<1>2. [s EXCEPT !.deletions = @ + 1] \in Sessions
  BY <1>1 DEF Sessions
<1>3. [[s EXCEPT !.deletions = @ + 1] EXCEPT !.pending = 0] \in Sessions
  BY <1>1, <1>2 DEF Sessions
<1>4. [[[s EXCEPT !.deletions = @ + 1] EXCEPT !.pending = 0] EXCEPT !.enable = FALSE] \in Sessions
  BY <1>3 DEF Sessions
<1>5. Deleted(s)
        = [[[s EXCEPT !.deletions = @ + 1] EXCEPT !.pending = 0] EXCEPT !.enable = FALSE]
  BY DEF Deleted, Sessions
<1>6. Deleted(s).type = s.type /\ Deleted(s).deletions = s.deletions + 1
  BY DEF Deleted, Sessions
<1>. QED BY <1>4, <1>5, <1>6

LEMMA DeleteKeeps ==
    ASSUME MgrInv, NEW c \in Callers, Delete(c)
    PROVE  MgrInv'
<1>0. PICK p : p = call[c].ptr
  OBVIOUS
<1>1. /\ ~Idle(c) /\ call[c].at = "delete" /\ Live(c) /\ CallTypes
      /\ UNCHANGED <<m_sessions, m_session_counter, m_clients, delivering, m_audio_properties>>
      /\ Replies(c, "success", call[c].opened)
  BY DEF Delete, At, Idle, MgrInv, listVars
<1>2. /\ call[c] \in Handlers /\ p \in Ids /\ session[p] \in Sessions
      /\ HandlerInv(c) /\ SessionInv(p) /\ session[p].deletions = 0
      /\ call[c].op \in {"open", "close"}
  BY <1>0, <1>1, AtWork DEF Live, HandlerInv, StepsOf, Handlers, Ops
<1>3. PICK s \in Sessions : s = Deleted(session[p])
  BY <1>2, DeletedSession
<1>4. s.type = session[p].type /\ s.deletions = 1
  BY <1>2, <1>3, DeletedSession
<1>5. session' = [session EXCEPT ![p] = s] /\ session'[p] = s /\ Ids' = Ids
  BY <1>0, <1>1, <1>2, <1>3 DEF MgrInv, TypeOK, Ids, Delete
<1>6. /\ NoCall \in Handlers /\ NoCall.at = "idle"
      /\ call' = [call EXCEPT ![c] = NoCall]
      /\ HandlerInv(c)' /\ reply'.result \in Results /\ contended' = contended
  BY <1>1, Returned DEF Results
<1>7. /\ call'[c] = NoCall /\ ~On(c, p)'
      /\ \A d \in Callers : d # c => call'[d] = call[d] /\ (On(d, p)' <=> On(d, p))
  BY <1>0, <1>1, <1>6, OthersOnSession
<1>8. Destroying(c) /\ p \notin m_sessions
  BY <1>0, <1>1, <1>2 DEF Destroying, HandlerInv
<1>9. p \notin contended => p \notin m_clients
  BY <1>0, <1>1, <1>2 DEF SessionInv, On
<1>10. ASSUME p \notin contended, NEW d \in Callers, On(d, p)'
       PROVE  /\ call'[d].at = "enable" => (p \in m_clients <=> call'[d].op = "start")
              /\ call'[d].at = "delete" => p \notin m_clients
  BY <1>2, <1>7, <1>9, <1>10 DEF SessionInv
<1>11. SessionInv(p)'
  BY <1>1, <1>4, <1>5, <1>6, <1>8, <1>9, <1>10 DEF SessionInv
<1>12. m_clients' \in {m_clients, m_clients \cup {p}, m_clients \ {p}}
  BY <1>1
<1>13. UNCHANGED <<m_sessions, m_session_counter, delivering, m_audio_properties, contended>>
  BY <1>1, <1>6
<1>. QED BY <1>0, <1>1, <1>4, <1>5, <1>6, <1>8, <1>11, <1>12, <1>13, WorkKeeps

\* A handler left with a deleted session is not one that destroys it.
LEMMA UseDeletedKeeps ==
    ASSUME MgrInv, NEW c \in Callers, UseDeleted(c)
    PROVE  MgrInv'
<1>0. PICK p : p = call[c].ptr
  OBVIOUS
<1>1. /\ ~Idle(c) /\ ~Live(c) /\ CallTypes /\ Goto(c, "undefined")
      /\ UNCHANGED <<m_sessions, m_session_counter, session, m_clients, delivering,
                     m_audio_properties>>
  BY DEF UseDeleted, Idle, MgrInv, listVars
<1>2. /\ call[c] \in Handlers /\ p \in Ids /\ session[p] \in Sessions
      /\ HandlerInv(c) /\ SessionInv(p) /\ session[p].deletions = 1
  BY <1>0, <1>1, AtWork DEF Live, SessionInv
<1>3. p \in contended /\ ~Destroying(c)
  BY <1>0, <1>1, <1>2 DEF HandlerInv
<1>4. session' = [session EXCEPT ![p] = session[p]] /\ Ids' = Ids
  BY <1>0, <1>1, <1>2 DEF MgrInv, TypeOK, Ids
<1>5. PICK new \in Handlers :
        /\ new = [at |-> "undefined", op |-> call[c].op, ptr |-> p, opened |-> call[c].opened]
        /\ call' = [call EXCEPT ![c] = new]
        /\ reply'.result \in Results /\ contended' = contended
  BY <1>0, <1>1, GoneOn DEF Steps
<1>6. call'[c] = new /\ On(c, p)'
  BY <1>0, <1>1, <1>5, OthersOnSession
<1>7. ~Destroying(c)' /\ ~Idle(c)'
  BY <1>3, <1>5, <1>6 DEF Destroying, Idle
<1>8. HandlerInv(c)'
  BY <1>2, <1>3, <1>4, <1>5, <1>6, <1>7 DEF HandlerInv, StepsOf, Destroying
<1>9. SessionInv(p)'
  BY <1>1, <1>2, <1>3, <1>5 DEF SessionInv
<1>10. new.at # "idle" => new.op = call[c].op /\ new.ptr = p
  BY <1>5
<1>. QED BY <1>0, <1>1, <1>2, <1>4, <1>5, <1>8, <1>9, <1>10, WorkKeeps

LEMMA UseKeeps ==
    ASSUME MgrInv, NEW c \in Callers, Use(c)
    PROVE  MgrInv'
<1>0. PICK p : p = call[c].ptr
  OBVIOUS
<1>1. At(c, "use")
  BY DEF Use, GetDefaultAudioProps, GetAudioProps, SetAudioProps, GetOutputProps,
         SetOutputProps, GetSample
<1>2. UNCHANGED <<listVars, m_clients, delivering>>
  BY DEF Use, GetDefaultAudioProps, GetAudioProps, SetAudioProps, GetOutputProps,
         SetOutputProps, GetSample
<1>3. p \in Ids /\ session[p] \in Sessions /\ Ptr(c) = session[p]
  BY <1>0, <1>1, AtWork DEF At, Idle, Ptr
<1>4. m_audio_properties \in RacFrequencies /\ session \in [Ids -> Sessions]
  BY DEF MgrInv, TypeOK
<1>5. session = [session EXCEPT ![p] = session[p]]
  BY <1>3, <1>4
<1>6. ASSUME NEW result \in Results, NEW value, Replies(c, result, value),
             session' = session, m_audio_properties' \in RacFrequencies
      PROVE  MgrInv'
  BY <1>0, <1>1, <1>2, <1>3, <1>5, <1>6, UseReturnKeeps
<1>7. ASSUME NEW s \in Sessions, session' = [session EXCEPT ![p] = s],
             s.type = session[p].type, s.enable = session[p].enable,
             s.deletions = session[p].deletions,
             NEW result \in Results, NEW value, Replies(c, result, value),
             m_audio_properties' = m_audio_properties
      PROVE  MgrInv'
  BY <1>0, <1>1, <1>2, <1>4, <1>7, UseReturnKeeps
<1>8. CASE GetDefaultAudioProps(c)
  BY <1>4, <1>6, <1>8 DEF GetDefaultAudioProps, Results
<1>9. CASE GetAudioProps(c)
  BY <1>4, <1>6, <1>9 DEF GetAudioProps, Results
<1>10. CASE SetAudioProps(c)
  <2>1. \A freq : FromBus(freq) \in RacFrequencies
    BY DEF FromBus, RacFrequencies, Default
  <2>. QED BY <1>4, <1>6, <1>10, <2>1 DEF SetAudioProps, Results
<1>11. CASE GetOutputProps(c)
  BY <1>4, <1>6, <1>11 DEF GetOutputProps, Results
<1>12. CASE SetOutputProps(c)
  <2>1. CASE UNCHANGED session
    BY <1>4, <1>6, <1>12, <2>1 DEF SetOutputProps, Results
  <2>2. CASE \E duration \in Durations :
               /\ session' = [session EXCEPT ![call[c].ptr].precapture = duration]
               /\ Replies(c, "success", None)
    <3>1. PICK duration \in Durations :
            /\ session' = [session EXCEPT ![call[c].ptr].precapture = duration]
            /\ Replies(c, "success", None)
      BY <2>2
    <3> DEFINE s == [session[p] EXCEPT !.precapture = duration]
    <3>2. /\ s \in Sessions /\ s.type = session[p].type /\ s.enable = session[p].enable
          /\ s.deletions = session[p].deletions
      BY <1>3 DEF Sessions
    <3>3. session' = [session EXCEPT ![p] = s]
      BY <1>0, <3>1
    <3>. QED BY <1>7, <1>12, <3>1, <3>2, <3>3 DEF SetOutputProps, Results
  <2>. QED BY <1>12, <2>1, <2>2 DEF SetOutputProps
<1>13. CASE GetSample(c)
  <2>1. CASE UNCHANGED session
    BY <1>4, <1>6, <1>13, <2>1 DEF GetSample, GrabPrecapturedSample, GrabFreshSample, Results
  <2>2. CASE /\ session[p].pending < MaxRequests
             /\ session' = [session EXCEPT ![call[c].ptr].pending = @ + 1]
             /\ Replies(c, "general_failure", None)
    <3> DEFINE s == [session[p] EXCEPT !.pending = @ + 1]
    <3>1. session[p].pending + 1 \in 0 .. MaxRequests
      BY <1>3, <2>2, SessionBounds DEF Sessions
    <3>2. /\ s \in Sessions /\ s.type = session[p].type /\ s.enable = session[p].enable
          /\ s.deletions = session[p].deletions
      BY <1>3, <3>1 DEF Sessions
    <3>3. session' = [session EXCEPT ![p] = s]
      BY <1>0, <2>2
    <3>. QED BY <1>7, <1>13, <2>2, <3>2, <3>3 DEF GetSample, Results
  <2>. QED BY <1>3, <1>13, <2>1, <2>2 DEF GetSample, GrabPrecapturedSample, GrabFreshSample
<1>. QED BY <1>8, <1>9, <1>10, <1>11, <1>12, <1>13 DEF Use

LEMMA AnswerKeeps ==
    ASSUME MgrInv, NEW i \in Ids, RequestIsUp(i)
    PROVE  MgrInv'
<1> DEFINE s == [session[i] EXCEPT !.pending = @ - 1]
<1> USE DEF MgrInv, listVars
<1>1. session[i] \in Sessions /\ session \in [Ids -> Sessions]
  BY DEF TypeOK
<1>2. session[i].pending - 1 \in 0 .. MaxRequests
  BY <1>1, SessionBounds DEF RequestIsUp, Sessions
<1>3. s \in Sessions /\ \A f \in {"type", "enable", "deletions"} : s[f] = session[i][f]
  BY <1>1, <1>2 DEF Sessions
<1>4. /\ session' = [session EXCEPT ![i] = s] /\ reply'.result \in Results
      /\ UNCHANGED <<m_sessions, m_session_counter, m_clients, delivering, m_audio_properties,
                     call, contended>>
  BY DEF RequestIsUp, NoReply, Results
<1>5. /\ session' \in [Ids -> Sessions] /\ Ids' = Ids
      /\ \A j \in Ids : /\ session'[j].type = session[j].type
                         /\ session'[j].enable = session[j].enable
                         /\ session'[j].deletions = session[j].deletions
  BY <1>1, <1>3, <1>4 DEF Ids
<1>6. TypeOK'
  BY <1>4, <1>5 DEF TypeOK
<1>7. CallTypes' /\ PairsInv'
  BY <1>4 DEF CallTypes, PairsInv, PairInv, Idle, Destroying
<1>8. HandlersInv'
  BY <1>4, <1>5 DEF HandlersInv, HandlerInv, Idle, Destroying, Live
<1>9. SessionsInv'
  BY <1>4, <1>5 DEF SessionsInv, SessionInv, On, Idle, Destroying
<1>10. OneMusicIdSession'
  BY <1>4, <1>5 DEF OneMusicIdSession, TypeOK
<1>. QED BY <1>6, <1>7, <1>8, <1>9, <1>10

LEMMA ProcessDataKeeps ==
    ASSUME MgrInv, BeginProcessData \/ EndProcessData
    PROVE  MgrInv'
<1> USE DEF MgrInv, listVars
<1>1. /\ UNCHANGED <<m_sessions, m_session_counter, session, m_clients, m_audio_properties,
                     call, contended>>
      /\ reply'.result \in Results
  BY DEF BeginProcessData, EndProcessData, NoReply, Results
<1>2. delivering' \in BOOLEAN
  BY Zenon DEF BeginProcessData, EndProcessData
<1>3. TypeOK' /\ Ids' = Ids
  BY <1>1, <1>2 DEF TypeOK, Ids
<1>4. CallTypes' /\ HandlersInv' /\ PairsInv' /\ OneMusicIdSession'
  BY <1>1, <1>3 DEF CallTypes, HandlersInv, HandlerInv, PairsInv, PairInv, OneMusicIdSession,
                    Idle, Destroying, Live
<1>5. SessionsInv'
  BY <1>1, <1>3 DEF SessionsInv, SessionInv, On, Idle, Destroying
<1>. QED BY <1>3, <1>4, <1>5

\* The new session is nobody's yet; the one it replaces, if any, was in the list, and
\* is with this handler now.
LEMMA OpenKeeps ==
    ASSUME MgrInv, NEW c \in Callers, Open(c)
    PROVE  MgrInv'
<1> USE DEF MgrInv
<1>0. PICK id : id = m_session_counter
  OBVIOUS
<1>b. PICK type \in TypesOf[c] : \E new \in NewSession(type) :
        /\ m_session_counter' = id + 1
        /\ session' = [i \in 0 .. id |-> IF i = id THEN new ELSE session[i]]
        /\ \/ /\ Duplicates(type) = {}
              /\ m_sessions' = m_sessions \cup {id}
              /\ Replies(c, "success", id)
           \/ \E d \in Duplicates(type) :
              /\ m_sessions' = (m_sessions \ {d}) \cup {id}
              /\ Takes(c, "open", "client", d, id)
  BY <1>0 DEF Open
<1>1. PICK new \in NewSession(type) :
        /\ m_session_counter' = id + 1
        /\ session' = [i \in 0 .. id |-> IF i = id THEN new ELSE session[i]]
        /\ \/ /\ Duplicates(type) = {}
              /\ m_sessions' = m_sessions \cup {id}
              /\ Replies(c, "success", id)
           \/ \E d \in Duplicates(type) :
              /\ m_sessions' = (m_sessions \ {d}) \cup {id}
              /\ Takes(c, "open", "client", d, id)
  BY <1>b
<1>2. /\ id \in Nat /\ id < MaxSessions /\ Idle(c)
      /\ UNCHANGED <<m_clients, delivering, m_audio_properties>>
  BY <1>0, SessionBounds DEF Open, TypeOK
<1>3. /\ Ids' = 0 .. id /\ Ids' = Ids \cup {id} /\ id \notin Ids /\ Ids \subseteq Int
      /\ m_session_counter' \in 0 .. MaxSessions
  BY <1>0, <1>1, <1>2, SessionBounds DEF Ids
<1>4. type \in {File, Socket}
  BY TypesSupported
<1>5. /\ new \in Sessions
      /\ new.type = type /\ new.enable = FALSE /\ new.deletions = 0
  <2>1. new.convert \in BOOLEAN
    BY ConversionsBoolean, Zenon DEF NewSession
  <2>2. /\ new = [type |-> new.type, enable |-> new.enable, precapture |-> new.precapture,
                  pending |-> new.pending, deletions |-> new.deletions, convert |-> new.convert]
        /\ new.type = type /\ new.precapture = InitialPrecapture /\ new.pending = 0
        /\ new.deletions = 0
    BY DEF NewSession
  <2>3. new.enable = FALSE
    BY Zenon DEF NewSession
  <2>4. new.pending \in 0 .. MaxRequests /\ new.deletions \in Nat
    BY <2>2, SessionBounds
  <2>5. new.enable \in BOOLEAN
    BY <2>3, Zenon
  <2>6. new \in Sessions
    BY <1>4, <2>1, <2>2, <2>4, <2>5, Zenon DEF Sessions
  <2>. QED BY <2>2, <2>3, <2>6
<1>6. /\ session' \in [Ids' -> Sessions]
      /\ session'[id] = new
      /\ \A i \in Ids : session'[i] = session[i]
  BY <1>1, <1>2, <1>3, <1>5 DEF TypeOK
<1>7. /\ m_sessions \subseteq Ids /\ m_clients \subseteq Ids /\ contended \subseteq Ids
      /\ Duplicates(type) \subseteq m_sessions
  BY DEF TypeOK, Duplicates
<1>8. \A d \in Callers : HandlerInv(d) /\ call[d] \in Handlers
  BY DEF HandlersInv, CallTypes
<1>9. \A d \in Callers : ~On(d, id)
  BY <1>3, <1>8 DEF HandlerInv, On
<1>10. CASE /\ Duplicates(type) = {}
            /\ m_sessions' = m_sessions \cup {id}
            /\ Replies(c, "success", id)
  <2>1. call' = call /\ contended' = contended /\ reply'.result \in Results
    BY <1>2, <1>8, <1>10 DEF Replies, HandlerInv, Results, CallTypes
  <2>2. TypeOK'
    BY <1>2, <1>3, <1>6, <1>7, <1>10, <2>1 DEF TypeOK
  <2>3. CallTypes' /\ PairsInv'
    BY <2>1 DEF CallTypes, PairsInv, PairInv, Idle, Destroying
  <2>4. HandlersInv'
    BY <1>3, <1>6, <1>10, <2>1 DEF HandlersInv, HandlerInv, Idle, Destroying, Live
  <2>5. SessionsInv'
    <3> SUFFICES ASSUME NEW i \in Ids' PROVE SessionInv(i)'
      BY DEF SessionsInv
    <3>1. \A d \in Callers : /\ On(d, i)' <=> On(d, i)
                             /\ Destroying(d)' <=> Destroying(d)
                             /\ call'[d] = call[d]
      BY <2>1 DEF On, Idle, Destroying
    <3>2. CASE i = id
      BY <1>2, <1>3, <1>5, <1>6, <1>7, <1>9, <1>10, <2>1, <3>1, <3>2 DEF SessionInv
    <3>3. CASE i \in Ids
      <4>1. session'[i] = session[i] /\ SessionInv(i) /\ (i \in m_sessions' <=> i \in m_sessions)
        BY <1>3, <1>6, <1>10, <3>3 DEF SessionsInv
      <4>. QED BY <1>2, <2>1, <3>1, <4>1 DEF SessionInv
    <3>. QED BY <1>3, <3>2, <3>3
  <2>6. OneMusicIdSession'
    BY <1>3, <1>5, <1>6, <1>7, <1>10, <1>4 DEF OneMusicIdSession, Duplicates
  <2>. QED BY <2>2, <2>3, <2>4, <2>5, <2>6
<1>11. ASSUME NEW p \in Duplicates(type),
              m_sessions' = (m_sessions \ {p}) \cup {id},
              Takes(c, "open", "client", p, id)
       PROVE  MgrInv'
  <2>1. PICK taken : taken = [at |-> "client", op |-> "open", ptr |-> p, opened |-> id]
    OBVIOUS
  <2>2. /\ p \in m_sessions /\ p \in Ids /\ p # id /\ p \notin m_sessions'
        /\ session[p].deletions = 0 /\ type = File /\ session[p].type = File
        /\ SessionInv(p)
    BY <1>3, <1>7, <1>11 DEF Duplicates, SessionsInv, SessionInv
  <2>3. taken \in Handlers
    BY <1>2, <1>3, <2>1, <2>2 DEF Handlers, Steps, Ops
  <2>4. /\ call' = [call EXCEPT ![c] = taken]
        /\ call'[c] = taken
        /\ \A d \in Callers : d # c => call'[d] = call[d]
    BY <2>1, <1>11 DEF Takes, CallTypes
  <2>5. /\ reply'.result \in Results
        /\ contended' \subseteq Ids /\ contended \subseteq contended'
        /\ \A j \in Ids : j # p => (j \in contended <=> j \in contended')
        /\ \A d \in Callers : On(d, p) => p \in contended'
    BY <1>7, <1>11, <2>2 DEF Takes, Results, NoReply, Conflict
  <2>6. \A d \in Callers : On(d, p) => d # c /\ ~Destroying(d)
    BY <1>2, <1>8, <2>2 DEF HandlerInv, On
  <2>7. \A d \in Callers, i \in Ids' :
          /\ On(d, i)' <=> IF d = c THEN i = p ELSE On(d, i)
          /\ d # c => call'[d] = call[d] /\ (Destroying(d)' <=> Destroying(d))
    BY <2>1, <2>4 DEF On, Idle, Destroying
  <2>8. Destroying(c)' /\ ~Idle(c)' /\ Live(c)'
    BY <1>6, <2>1, <2>2, <2>4 DEF Destroying, Idle, Live
  <2>9. TypeOK'
    <3>1. \A d \in Callers : /\ call'[d].at \in Steps
                             /\ call'[d].at # "idle" => call'[d].ptr \in Ids'
      BY <1>3, <1>8, <2>1, <2>2, <2>3, <2>4 DEF HandlerInv, Idle, Handlers
    <3>. QED BY <1>2, <1>3, <1>6, <1>7, <1>11, <2>2, <2>5, <3>1 DEF TypeOK, Steps
  <2>10. CallTypes'
    BY <2>3, <2>4 DEF CallTypes
  <2>11. HandlersInv'
    <3> SUFFICES ASSUME NEW d \in Callers PROVE HandlerInv(d)'
      BY DEF HandlersInv
    <3>1. CASE d = c
      BY <1>3, <2>1, <2>2, <2>4, <2>8, <3>1 DEF HandlerInv, StepsOf
    <3>2. CASE d # c
      <4>1. call'[d] = call[d] /\ HandlerInv(d) /\ (Idle(d)' <=> Idle(d))
            /\ (Destroying(d)' <=> Destroying(d))
        BY <1>8, <2>4, <3>2 DEF Idle, Destroying
      <4>2. CASE Idle(d)
        BY <4>1, <4>2 DEF HandlerInv
      <4>3. CASE ~Idle(d)
        <5>1. /\ call[d].ptr \in Ids /\ (Live(d)' <=> Live(d))
              /\ (call[d].ptr \in m_sessions' => call[d].ptr \in m_sessions)
              /\ (call[d].ptr \in contended => call[d].ptr \in contended')
          BY <1>3, <1>6, <1>11, <2>5, <4>1, <4>3 DEF HandlerInv, Live
        <5>. QED BY <1>3, <4>1, <4>3, <5>1 DEF HandlerInv
      <4>. QED BY <4>2, <4>3
    <3>. QED BY <3>1, <3>2
  <2>12. PairsInv'
    <3> SUFFICES ASSUME NEW d \in Callers, NEW e \in Callers, d # e, ~Idle(d)', ~Idle(e)',
                        call'[d].ptr = call'[e].ptr
                 PROVE  PairInv(d, e)'
      BY DEF PairsInv
    <3>1. CASE d # c /\ e # c
      <4>1. call'[d] = call[d] /\ call'[e] = call[e]
        BY <2>4, <3>1
      <4>2. PairInv(d, e)
        BY <4>1 DEF PairsInv, Idle
      <4>. QED BY <2>5, <4>1, <4>2 DEF PairInv, Destroying
    <3>2. CASE d = c
      <4>1. call'[e] = call[e] /\ On(e, p) /\ call'[d].ptr = p
        BY <2>1, <2>4, <3>2 DEF On, Idle
      <4>2. ~Destroying(e)' /\ p \in contended'
        BY <2>5, <2>6, <4>1 DEF Destroying
      <4>. QED BY <4>1, <4>2 DEF PairInv
    <3>3. CASE e = c
      <4>1. call'[d] = call[d] /\ On(d, p) /\ call'[d].ptr = p
        BY <2>1, <2>4, <3>3 DEF On, Idle
      <4>2. ~Destroying(d)' /\ p \in contended'
        BY <2>5, <2>6, <4>1 DEF Destroying
      <4>. QED BY <4>1, <4>2 DEF PairInv
    <3>. QED BY <3>1, <3>2, <3>3
  <2>13. SessionInv(p)'
    <3>1. /\ session'[p] = session[p] /\ m_clients' = m_clients
          /\ \E d \in Callers : On(d, p)' /\ Destroying(d)'
      BY <1>2, <1>3, <1>6, <2>2, <2>7, <2>8
    <3>2. CASE p \in contended'
      BY <2>2, <3>1, <3>2 DEF SessionInv
    <3>3. CASE p \notin contended'
      <4>1. \A d \in Callers : ~On(d, p)
        BY <2>5, <3>3
      <4>2. p \notin contended
        BY <2>5, <3>3
      <4>3. session[p].enable <=> p \in m_clients
        BY <2>2, <4>1, <4>2 DEF SessionInv
      <4>4. \A d \in Callers : On(d, p)' => call'[d].at = "client"
        BY <1>3, <2>1, <2>2, <2>4, <2>7, <4>1
      <4>. QED BY <2>2, <3>1, <4>3, <4>4 DEF SessionInv
    <3>. QED BY <3>2, <3>3
  <2>14. SessionsInv'
    <3> SUFFICES ASSUME NEW i \in Ids', i # p PROVE SessionInv(i)'
      BY <2>13 DEF SessionsInv
    <3>1. \A d \in Callers : /\ On(d, i)' <=> On(d, i) /\ d # c
                             /\ d # c => call'[d] = call[d] /\ (Destroying(d)' <=> Destroying(d))
      BY <1>2, <2>7 DEF On
    <3>2. \A d \in Callers : On(d, i) => d # c
      BY <1>2 DEF On
    <3>3. CASE i = id
      BY <1>2, <1>3, <1>5, <1>6, <1>7, <1>9, <1>11, <2>5, <3>1, <3>3 DEF SessionInv
    <3>4. CASE i \in Ids
      <4>1. /\ session'[i] = session[i] /\ SessionInv(i) /\ m_clients' = m_clients
            /\ (i \in m_sessions' <=> i \in m_sessions)
            /\ (i \in contended' <=> i \in contended)
        BY <1>2, <1>3, <1>6, <1>11, <2>5, <3>4 DEF SessionsInv
      <4>2. i \notin m_sessions /\ session[i].deletions = 0 =>
              \E d \in Callers : On(d, i)' /\ Destroying(d)'
        BY <3>1, <3>2, <4>1 DEF SessionInv
      <4>3. ASSUME i \notin contended, NEW d \in Callers, On(d, i)'
            PROVE  /\ call'[d].at = "enable" => (i \in m_clients <=> call'[d].op = "start")
                   /\ call'[d].at = "delete" => i \notin m_clients
        BY <3>1, <4>1, <4>3 DEF SessionInv
      <4>4. /\ i \notin contended /\ session[i].deletions = 0 /\ session[i].enable
            /\ i \notin m_clients
            => \E d \in Callers : On(d, i)' /\ call'[d].at \in {"enable", "delete"}
        BY <3>1, <3>2, <4>1 DEF SessionInv
      <4>5. i \notin contended /\ ~session[i].enable /\ i \in m_clients =>
              \E d \in Callers : On(d, i)' /\ call'[d].at = "enable"
        BY <3>1, <3>2, <4>1 DEF SessionInv
      <4>. QED BY <4>1, <4>2, <4>3, <4>4, <4>5 DEF SessionInv
    <3>. QED BY <1>3, <3>3, <3>4
  <2>15. OneMusicIdSession'
    BY <1>3, <1>5, <1>6, <1>7, <1>11, <2>2 DEF OneMusicIdSession
  <2>. QED BY <2>9, <2>10, <2>11, <2>12, <2>14, <2>15
<1>. QED BY <1>1, <1>10, <1>11

LEMMA MgrInvNext == MgrInv /\ [Next]_vars => MgrInv'
<1> SUFFICES ASSUME MgrInv, [Next]_vars PROVE MgrInv'
  OBVIOUS
<1>1. ASSUME NEW c \in Callers, Handler(c) PROVE MgrInv'
  <2>1. CASE Open(c)
    BY <2>1, OpenKeeps
  <2>2. CASE OpenRefused(c)
    BY <2>2, AnswerAtOnceKeeps DEF OpenRefused, Results
  <2>3. CASE StartClient(c) \/ StopClient(c) \/ StopDuplicate(c)
    BY <2>3, ClientKeeps
  <2>4. CASE Close(c)
    <3>1. PICK i \in Named :
            IF i \in m_sessions
              THEN Takes(c, "close", "test", i, None) /\ m_sessions' = m_sessions \ {i}
              ELSE Replies(c, "bad_session_id", None) /\ UNCHANGED m_sessions
      BY <2>4 DEF Close
    <3>2. CASE i \in m_sessions
      BY <2>4, <3>1, <3>2, TakesKeeps DEF Close
    <3>3. CASE i \notin m_sessions
      BY <2>4, <3>1, <3>3, AnswerAtOnceKeeps DEF Close, Results, listVars
    <3>. QED BY <3>2, <3>3
  <2>5. ASSUME NEW op \in {"start", "stop", "use"}, NEW step,
               step = IF op = "use" THEN "use" ELSE "test", GetSession(c, op, step)
        PROVE  MgrInv'
    <3>1. PICK i \in Named : IF i \in m_sessions THEN Takes(c, op, step, i, None)
                                                 ELSE Replies(c, "bad_session_id", None)
      BY <2>5 DEF GetSession
    <3>2. Idle(c) /\ UNCHANGED <<listVars, session, m_clients, delivering, m_audio_properties>>
      BY <2>5 DEF GetSession
    <3>3. CASE i \in m_sessions
      BY <2>5, <3>1, <3>2, <3>3, TakesKeeps DEF listVars
    <3>4. CASE i \notin m_sessions
      BY <3>1, <3>2, <3>4, AnswerAtOnceKeeps DEF Results
    <3>. QED BY <3>3, <3>4
  <2>6. CASE Find(c)
    BY <2>5, <2>6 DEF Find
  <2>7. CASE TestEnable(c)
    BY <2>7, TestEnableKeeps
  <2>8. CASE SetEnable(c)
    BY <2>8, SetEnableKeeps
  <2>9. CASE Delete(c)
    BY <2>9, DeleteKeeps
  <2>10. CASE Use(c)
    BY <2>10, UseKeeps
  <2>11. CASE UseDeleted(c)
    BY <2>11, UseDeletedKeeps
  <2>. QED BY <1>1, <2>1, <2>2, <2>3, <2>4, <2>6, <2>7, <2>8, <2>9, <2>10, <2>11 DEF Handler
<1>2. CASE \E i \in Ids : RequestIsUp(i)
  BY <1>2, AnswerKeeps
<1>3. CASE BeginProcessData \/ EndProcessData
  BY <1>3, ProcessDataKeeps
<1>4. CASE UNCHANGED vars
  <2>1. UNCHANGED <<m_sessions, m_session_counter, session, m_clients, delivering,
                    m_audio_properties, call, contended, reply>>
    BY <1>4 DEF vars
  <2>2. TypeOK' /\ CallTypes' /\ OneMusicIdSession'
    BY <2>1 DEF MgrInv, TypeOK, CallTypes, OneMusicIdSession, Ids
  <2>3. HandlersInv' /\ PairsInv'
    BY <2>1 DEF MgrInv, HandlersInv, HandlerInv, PairsInv, PairInv, Idle, Destroying, Live, Ids
  <2>4. SessionsInv'
    BY <2>1 DEF MgrInv, SessionsInv, SessionInv, On, Idle, Destroying, Ids
  <2>. QED BY <2>2, <2>3, <2>4 DEF MgrInv
<1>. QED BY <1>1, <1>2, <1>3, <1>4 DEF Next

\* The inductive invariant holds in every reachable state: every handler is accounted
\* for at its session, and every session at the list or at one handler.
THEOREM SessionsKept == Spec => []MgrInv
BY MgrInvInit, MgrInvNext, PTL DEF Spec

-----------------------------------------------------------------------------
(* The properties the runs check *)

\* get_session gives up m_mutex and the handler keeps the pointer. Any caller may close
\* or replace the session meanwhile, yet a handler is left with a deleted one only by
\* such an overlap, and never the handler that destroys the session: the list gives
\* every session to one destroyer, under the lock.
THEOREM StaleOnlyByOverlap == Spec => []StalePointerMeansOverlap
<1>1. MgrInv => StalePointerMeansOverlap
  BY DEF MgrInv, HandlersInv, HandlerInv, Destroying, StalePointerMeansOverlap
<1>. QED BY <1>1, SessionsKept, PTL

\* The processor never calls a client that has been deleted, and enable tells
\* of every session nobody works on whether its client is registered; but for
\* sessions on which handlers were in each other's way.
THEOREM NoDeadClientCalled == Spec => []CalledClientsAlive
<1>1. MgrInv => CalledClientsAlive
  <2> SUFFICES ASSUME MgrInv PROVE CalledClientsAlive
    OBVIOUS
  <2>1. EnabledMeansRegistered
    <3> SUFFICES ASSUME NEW i \in m_sessions \ contended, \A c \in Callers : ~On(c, i)
                 PROVE  session[i].enable <=> i \in m_clients
      BY DEF EnabledMeansRegistered
    <3>1. i \in Ids
      BY DEF MgrInv, TypeOK
    <3>2. SessionInv(i)
      BY <3>1 DEF MgrInv, SessionsInv
    <3>. QED BY <3>2 DEF SessionInv
  <2>2. \A i \in m_clients \ contended : session[i].deletions = 0
    <3> SUFFICES ASSUME NEW i \in m_clients, i \notin contended PROVE session[i].deletions = 0
      OBVIOUS
    <3>1. i \in Ids
      BY DEF MgrInv, TypeOK
    <3>2. SessionInv(i)
      BY <3>1 DEF MgrInv, SessionsInv
    <3>. QED BY <3>2 DEF SessionInv
  <2>. QED BY <2>1, <2>2 DEF CalledClientsAlive
<1>. QED BY <1>1, SessionsKept, PTL

\* A handler that destroys a session is on its way to deleting it as long as it works.
LEMMA DestroyersDestroy ==
    ASSUME MgrInv, NEW c \in Callers, NEW i
    PROVE  Destroys(c, i) <=> On(c, i) /\ Destroying(c)
<1>1. HandlerInv(c) /\ call[c] \in Handlers
  BY DEF MgrInv, HandlersInv, CallTypes
<1>2. ~Idle(c) /\ call[c].op = "open" => call[c].at \in {"client", "delete"}
  BY <1>1 DEF HandlerInv, StepsOf
<1>3. Idle(c) => call[c].op = "none"
  BY <1>1 DEF HandlerInv, NoCall
<1>. QED BY <1>2, <1>3 DEF Destroys, On, Destroying, Idle

\* A session is out of the list and not deleted exactly while a handler is on
\* its way to deleting it.
LEMMA OnItsWayOut ==
    ASSUME MgrInv, NEW i \in Ids
    PROVE  (\E c \in Callers : Destroys(c, i)) <=> i \notin m_sessions /\ session[i].deletions = 0
<1>1. ASSUME NEW c \in Callers, Destroys(c, i)
      PROVE  i \notin m_sessions /\ session[i].deletions = 0
  <2>1. On(c, i) /\ Destroying(c) /\ HandlerInv(c)
    BY <1>1, DestroyersDestroy DEF MgrInv, HandlersInv
  <2>. QED BY <2>1 DEF HandlerInv, On, Live
<1>2. ASSUME i \notin m_sessions, session[i].deletions = 0
      PROVE  \E c \in Callers : Destroys(c, i)
  <2>1. SessionInv(i)
    BY DEF MgrInv, SessionsInv
  <2>2. PICK c \in Callers : On(c, i) /\ Destroying(c)
    BY <1>2, <2>1 DEF SessionInv
  <2>. QED BY <2>2, DestroyersDestroy
<1>. QED BY <1>1, <1>2

\* Every session ever opened is in the list, or with the one handler that
\* destroys it, or deleted once: open and close never lose or share one, whoever
\* closes and replaces it at once.
THEOREM NoSessionLost == Spec => []SessionsAccounted
<1>1. MgrInv => SessionsAccounted
  <2> SUFFICES ASSUME MgrInv PROVE SessionsAccounted
    OBVIOUS
  <2>1. TypeOK
    BY DEF MgrInv
  <2> SUFFICES ASSUME NEW i \in Ids
               PROVE  session[i].deletions + Cardinality({c \in Callers : Destroys(c, i)})
                        + (IF i \in m_sessions THEN 1 ELSE 0) = 1
    BY <2>1 DEF SessionsAccounted
  <2> DEFINE destroyers == {c \in Callers : Destroys(c, i)}
  <2>2. SessionInv(i)
    BY DEF MgrInv, SessionsInv
  <2>3. CASE destroyers = {}
    <3>1. Cardinality(destroyers) = 0
      BY <2>3, FS_EmptySet
    <3>2. i \in m_sessions \/ session[i].deletions # 0
      BY <2>3, OnItsWayOut
    <3>. QED BY <2>2, <3>1, <3>2 DEF SessionInv
  <2>4. CASE destroyers # {}
    <3>1. PICK c \in Callers : Destroys(c, i)
      BY <2>4
    <3>2. \A d \in Callers : Destroys(d, i) => d = c
      BY <3>1, DestroyersDestroy DEF On, MgrInv, PairsInv, PairInv
    <3>3. destroyers = {c}
      BY <3>1, <3>2
    <3>4. Cardinality(destroyers) = 1
      BY <3>3, FS_Singleton
    <3>5. i \notin m_sessions /\ session[i].deletions = 0
      BY <3>1, OnItsWayOut
    <3>. QED BY <3>4, <3>5
  <2>. QED BY <2>3, <2>4
<1>. QED BY <1>1, SessionsKept, PTL

\* However often music id is opened, one music id client is left at most that
\* no handler is about to delete.
THEOREM OneMusicId == Spec => []OneMusicIdClient
<1>1. MgrInv => OneMusicIdClient
  <2> SUFFICES ASSUME MgrInv, NEW i \in Ids, NEW j \in Ids, i # j,
                      session[i].type = File, session[j].type = File,
                      session[i].deletions = 0, session[j].deletions = 0
               PROVE  \E c \in Callers : Destroys(c, i) \/ Destroys(c, j)
    BY DEF OneMusicIdClient
  <2>1. i \notin m_sessions \/ j \notin m_sessions
    BY DEF MgrInv, OneMusicIdSession
  <2>. QED BY <2>1, OnItsWayOut
<1>. QED BY <1>1, SessionsKept, PTL
=============================================================================
