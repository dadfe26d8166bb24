----------------------------- MODULE Session_proofs -----------------------------
(***************************************************************************)
(* One attempt at a time: proofs about Session for every value of its      *)
(* constants.                                                              *)
(***************************************************************************)
EXTENDS Session, Recursion, FiniteSetTheorems, SequenceTheorems

-----------------------------------------------------------------------------
(***************************************************************************)
(* The backoff.                                                            *)
(***************************************************************************)

\* The delays up to an attempt exist: each is computed from the one before it.
LEMMA DelaysExist ==
  ASSUME NEW attempt \in Nat
  PROVE  \E delay : delay = [step \in 0..attempt |->
            IF step = 0 THEN initial_backoff
            ELSE IF delay[step - 1] >= max_backoff THEN delay[step - 1]
            ELSE 2 * delay[step - 1]]
<1> DEFINE Doubled(d) == IF d >= max_backoff THEN d ELSE 2 * d
           Delays(d, n) == d = [step \in 0..n |-> IF step = 0 THEN initial_backoff
                                                  ELSE Doubled(d[step - 1])]
           S == {n \in Nat : \E d : Delays(d, n)}
<1>1. 0 \in S
  <2>1. Delays([step \in 0..0 |-> initial_backoff], 0)
    OBVIOUS
  <2> QED BY <2>1
<1>2. ASSUME NEW n \in Nat, n \in S
      PROVE  n + 1 \in S
  <2>1. PICK d : Delays(d, n)
    BY <1>2
  <2> DEFINE e == [step \in 0 .. n + 1 |-> IF step = n + 1 THEN Doubled(d[n]) ELSE d[step]]
  <2>2. \A step \in 0..n : e[step] = d[step]
    OBVIOUS
  <2>3. \A step \in 0 .. n + 1 :
           e[step] = IF step = 0 THEN initial_backoff ELSE Doubled(e[step - 1])
    <3> HIDE DEF Doubled
    <3>1. e[n + 1] = Doubled(e[n])
      BY <2>2
    <3>2. \A step \in 0..n :
             d[step] = IF step = 0 THEN initial_backoff ELSE Doubled(d[step - 1])
      BY <2>1
    <3> HIDE DEF e
    <3> QED BY <2>2, <3>1, <3>2
  <2>4. DOMAIN e = 0 .. n + 1 /\ e = [step \in 0 .. n + 1 |-> e[step]]
    OBVIOUS
  <2>5. Delays(e, n + 1)
    <3> HIDE DEF e, Doubled
    <3> QED BY <2>3, <2>4
  <2> HIDE DEF e, Doubled
  <2>6. \E f : Delays(f, n + 1)
    BY <2>5
  <2> QED BY <2>6
<1>3. Nat \subseteq S
  <2> HIDE DEF S
  <2> QED BY <1>1, <1>2, NatsByInduction
<1> QED BY <1>3

\* However often a session has tried, and whatever the configured delays, it
\* waits no longer than the cap, and never a negative time.
THEOREM BackoffIsCapped ==
  ASSUME NEW attempt \in Nat
  PROVE  reconnect_backoff(attempt) \in 0..max_backoff
<1>0. max_backoff \in Nat /\ initial_backoff \in Int
  BY SessionAssumption
<1> DEFINE Delay == CHOOSE d : d = [step \in 0..attempt |->
                       IF step = 0 THEN initial_backoff
                       ELSE IF d[step - 1] >= max_backoff THEN d[step - 1]
                       ELSE 2 * d[step - 1]]
<1>1. Delay = [step \in 0..attempt |->
                 IF step = 0 THEN initial_backoff
                 ELSE IF Delay[step - 1] >= max_backoff THEN Delay[step - 1]
                 ELSE 2 * Delay[step - 1]]
  BY DelaysExist
<1>2. reconnect_backoff(attempt)
        = IF initial_backoff <= 0 THEN 0 ELSE Smaller(Delay[attempt], max_backoff)
  BY DEF reconnect_backoff
<1> HIDE DEF Delay
<1>3. ASSUME initial_backoff > 0
      PROVE  Delay[attempt] \in Nat
  <2> DEFINE S == {n \in Nat : n \in 0..attempt => Delay[n] \in Nat}
  <2>1. 0 \in S
    BY <1>0, <1>1, <1>3
  <2>2. \A n \in Nat : n \in S => n + 1 \in S
    BY <1>0, <1>1
  <2>3. Nat \subseteq S
    <3> HIDE DEF S
    <3> QED BY <2>1, <2>2, NatsByInduction
  <2> QED BY <2>3
<1> QED BY <1>0, <1>2, <1>3 DEF Smaller

-----------------------------------------------------------------------------
(***************************************************************************)
(* The inductive invariant.                                                *)
(***************************************************************************)
Owed == [name    : Operations \cup {"timer", "reconnect", "stop"},
             outcome : Outcomes]

\* TypeOK, of any session.
Sessions ==
  [phase             : {"created", "running", "ended"},
   trust_store_ready : BOOLEAN,
   stream            : BOOLEAN,
   operation         : Operations \cup {Idle},
   waits             : {0, 1},
   delay             : 0..max_backoff,
   queue             : Seq(Owed),
   stopping          : BOOLEAN,
   stop_asked        : BOOLEAN,
   gave_up           : BOOLEAN,
   attempt           : 0..MaxCount,
   connections       : 0..MaxCount,
   reconnects        : 0..MaxCount,
   lost              : BOOLEAN]

\* A handler that carries an attempt on.
Carries(handler) ==
  handler.name \in Operations \cup {"timer"} /\ handler.outcome # "aborted"

\* Whatever carries an attempt on, only one thing does.
AtMostOne(s) ==
  /\ \A i, j \in 1..Len(s.queue) : Carries(s.queue[i]) /\ Carries(s.queue[j]) => i = j
  /\ s.operation # Idle \/ s.waits # 0 => \A i \in 1..Len(s.queue) : ~Carries(s.queue[i])
  /\ s.operation # Idle => s.waits = 0

\* A handler that has been aborted is still owed only while the wait that its
\* attempt ended in is not over.
AbortedIsWaitedFor(s) ==
  \A i \in 1..Len(s.queue) :
     s.queue[i].outcome = "aborted" => s.queue[i].name \in Operations /\ s.waits = 1

\* A requested reconnect meets the connection that asked for it: being read, or
\* read from but not yet handled.
ReconnectFindsTheRead(s) ==
  \A i \in 1..Len(s.queue) :
     s.queue[i].name = "reconnect" =>
       /\ \A j \in 1 .. i - 1 : s.queue[j].name = "stop"
       /\ s.stream
       /\ s.waits = 0
       /\ s.operation \in {Idle, "read"}
       /\ \A j \in 1..Len(s.queue) : s.queue[j].name \in {"stop", "reconnect", "read"}

\* Something carries the session on, with a stream where it needs one.
GoesOn(s) ==
  /\ s.operation # Idle \/ s.waits # 0 \/ \E i \in 1..Len(s.queue) : Carries(s.queue[i])
  /\ s.operation # Idle => s.stream
  /\ \A i \in 1..Len(s.queue) :
        s.queue[i].name \in Operations /\ s.queue[i].outcome = "done" => s.stream

\* Nothing was started yet; stop() may have been called already.
OnlyStops(s) ==
  \A i \in 1..Len(s.queue) : s.queue[i].name = "stop" /\ s.queue[i].outcome # "aborted"

Sound(s) ==
  /\ s \in Sessions
  /\ s.phase = "created" => s.operation = Idle /\ s.waits = 0 /\ OnlyStops(s)
  /\ s.phase = "running" =>
       /\ ~s.stopping
       /\ AtMostOne(s)
       /\ AbortedIsWaitedFor(s)
       /\ ReconnectFindsTheRead(s)
       /\ GoesOn(s)
  /\ s.phase = "ended" => AtMostOne(s) /\ (s.stopping \/ s.gave_up)

IInv == Sound(session)
-----------------------------------------------------------------------------
(***************************************************************************)
(* The steps that handlers are made of.                                    *)
(***************************************************************************)
LEMMA IsSequence ==
  ASSUME NEW S, NEW n \in Nat, NEW f \in [1..n -> S]
  PROVE  f \in Seq(S) /\ Len(f) = n
OBVIOUS

LEMMA QueuedFacts ==
  ASSUME NEW s \in Sessions,
         NEW name \in Operations \cup {"timer", "reconnect", "stop"}, NEW outcome \in Outcomes
  PROVE  /\ Queued(s, name, outcome) \in Sessions
         /\ Queued(s, name, outcome)
              = [s EXCEPT !.queue = Append(s.queue, [name |-> name, outcome |-> outcome])]
         /\ Append(s.queue, [name |-> name, outcome |-> outcome]) \in Seq(Owed)
         /\ Len(Append(s.queue, [name |-> name, outcome |-> outcome])) = Len(s.queue) + 1
<1> DEFINE handler == [name |-> name, outcome |-> outcome]
<1>1. handler \in Owed
  BY DEF Owed
<1>2. s.queue \in Seq(Owed)
  BY DEF Sessions
<1> HIDE DEF handler
<1>3. /\ Append(s.queue, handler) \in Seq(Owed)
      /\ Len(Append(s.queue, handler)) = Len(s.queue) + 1
  BY <1>1, <1>2, AppendProperties
<1>4. [s EXCEPT !.queue = Append(s.queue, handler)] \in Sessions
  BY <1>3 DEF Sessions
<1>5. Queued(s, name, outcome) = [s EXCEPT !.queue = Append(s.queue, handler)]
  BY DEF Queued, handler
<1> QED BY <1>3, <1>4, <1>5 DEF handler

\* What a teardown leaves, and what it changes in the queue.
LEMMA WithoutStreamFacts ==
  ASSUME NEW s \in Sessions
  PROVE  LET t == WithoutStream(s)
             more == s.operation \in StreamOperations
         IN  /\ t \in Sessions
             /\ t = [s EXCEPT !.stream = FALSE, !.queue = t.queue,
                              !.operation = IF more THEN Idle ELSE s.operation]
             /\ Len(t.queue) = IF more THEN Len(s.queue) + 1 ELSE Len(s.queue)
             /\ \A i \in 1..Len(s.queue) :
                   /\ t.queue[i].name = s.queue[i].name
                   /\ t.queue[i].outcome =
                        IF s.queue[i].name \in WebSocketOperations THEN "aborted"
                        ELSE s.queue[i].outcome
             /\ more => t.queue[Len(s.queue) + 1] = [name |-> s.operation, outcome |-> "aborted"]
<1> DEFINE told == [i \in DOMAIN s.queue |->
                      IF s.queue[i].name \in WebSocketOperations
                      THEN [s.queue[i] EXCEPT !.outcome = "aborted"]
                      ELSE s.queue[i]]
           gone == [s EXCEPT !.stream = FALSE, !.queue = told]
           more == s.operation \in StreamOperations
           last == [name |-> s.operation, outcome |-> "aborted"]
<1>1. /\ told \in Seq(Owed)
      /\ Len(told) = Len(s.queue)
      /\ \A i \in 1..Len(s.queue) :
            /\ told[i].name = s.queue[i].name
            /\ told[i].outcome = IF s.queue[i].name \in WebSocketOperations THEN "aborted"
                                 ELSE s.queue[i].outcome
  <2>1. s.queue \in Seq(Owed)
    BY DEF Sessions
  <2>2. \A i \in 1..Len(s.queue) : told[i] \in Owed
    <3> SUFFICES ASSUME NEW i \in 1..Len(s.queue)
                 PROVE  told[i] \in Owed
      OBVIOUS
    <3>1. s.queue[i] \in Owed
      BY <2>1
    <3>2. [s.queue[i] EXCEPT !.outcome = "aborted"] \in Owed
      BY <3>1 DEF Owed, Outcomes
    <3> QED BY <2>1, <3>1, <3>2
  <2>3. Len(told) = Len(s.queue) /\ told \in Seq(Owed)
    <3>1. DOMAIN s.queue = 1..Len(s.queue) /\ Len(s.queue) \in Nat
      BY <2>1
    <3>2. told \in [1..Len(s.queue) -> Owed]
      BY <2>2, <3>1
    <3> HIDE DEF told
    <3> QED BY <3>1, <3>2, IsSequence
  <2>4. \A i \in 1..Len(s.queue) :
            /\ told[i].name = s.queue[i].name
            /\ told[i].outcome = IF s.queue[i].name \in WebSocketOperations THEN "aborted"
                                 ELSE s.queue[i].outcome
    <3> SUFFICES ASSUME NEW i \in 1..Len(s.queue)
                 PROVE  /\ told[i].name = s.queue[i].name
                        /\ told[i].outcome =
                             IF s.queue[i].name \in WebSocketOperations THEN "aborted"
                             ELSE s.queue[i].outcome
      OBVIOUS
    <3>1. s.queue[i] \in Owed
      BY <2>1
    <3> QED BY <2>1, <3>1 DEF Owed
  <2> QED BY <2>3, <2>4
<1>2. gone \in Sessions
  <2> HIDE DEF told
  <2> QED BY <1>1 DEF Sessions
<1>3. CASE ~more
  <2>1. WithoutStream(s) = gone
    BY <1>3 DEF WithoutStream
  <2> HIDE DEF told
  <2>2. gone = [s EXCEPT !.stream = FALSE, !.queue = told, !.operation = s.operation]
    BY DEF Sessions
  <2>3. gone.queue = told
    BY DEF Sessions
  <2> HIDE DEF gone
  <2> QED BY <1>1, <1>2, <1>3, <2>1, <2>2, <2>3
<1>4. CASE more
  <2>1. WithoutStream(s) = Queued(Started(gone, Idle), s.operation, "aborted")
    BY <1>4 DEF WithoutStream
  <2>2. s.operation \in Operations
    BY <1>4 DEF StreamOperations
  <2> HIDE DEF told
  <2>3. WithoutStream(s) = [s EXCEPT !.stream = FALSE, !.operation = Idle,
                                     !.queue = Append(told, last)]
    BY <1>2, <2>1, <2>2 DEF Queued, Started, Sessions
  <2>4. last \in Owed
    BY <2>2 DEF Owed, Outcomes
  <2>5. /\ Append(told, last) \in Seq(Owed)
        /\ Len(Append(told, last)) = Len(s.queue) + 1
        /\ \A i \in 1..Len(s.queue) : Append(told, last)[i] = told[i]
        /\ Append(told, last)[Len(s.queue) + 1] = last
    <3> HIDE DEF last
    <3> QED BY <1>1, <2>4, AppendProperties
  <2> HIDE DEF last
  <2>6. WithoutStream(s) \in Sessions
    BY <2>3, <2>5 DEF Sessions
  <2>7. WithoutStream(s).queue = Append(told, last)
    BY <2>3 DEF Sessions
  <2> QED BY <1>1, <1>4, <2>3, <2>5, <2>6, <2>7 DEF last
<1> QED BY <1>3, <1>4

LEMMA CountedType ==
  ASSUME NEW n \in 0..MaxCount
  PROVE  Counted(n) \in 0..MaxCount
BY SessionAssumption DEF Counted

LEMMA ScheduledType ==
  ASSUME NEW s \in Sessions
  PROVE  schedule_reconnect(s) \in Sessions
<1> DEFINE torn == WithoutStream(s)
<1>1. torn \in Sessions
  BY WithoutStreamFacts
<1>2. torn.attempt \in Nat
  BY <1>1, SessionAssumption DEF Sessions
<1>3. reconnect_backoff(torn.attempt) \in 0..max_backoff
  BY <1>2, BackoffIsCapped
<1> HIDE DEF torn
<1>4. /\ Counted(torn.attempt) \in 0..MaxCount
      /\ Counted(torn.reconnects) \in 0..MaxCount
  BY <1>1, CountedType DEF Sessions
<1>5. GivenUp(torn) \in Sessions
  BY <1>1 DEF GivenUp, Sessions
<1>6. [torn EXCEPT !.delay      = reconnect_backoff(torn.attempt),
                   !.attempt    = Counted(torn.attempt),
                   !.reconnects = Counted(torn.reconnects),
                   !.waits      = 1] \in Sessions
  BY <1>1, <1>3, <1>4 DEF Sessions
<1> QED BY <1>1, <1>5, <1>6 DEF schedule_reconnect, torn

LEMMA ConnectType ==
  ASSUME NEW s \in Sessions
  PROVE  connect(s) \in Sessions
<1>1. WithoutStream(s) \in Sessions
  BY WithoutStreamFacts
<1>2. "resolve" \in Operations
  BY DEF Operations, Stages
<1> QED BY <1>1, <1>2 DEF connect, Started, GivenUp, Sessions

LEMMA StartedType ==
  ASSUME NEW s \in Sessions, NEW operation \in Operations \cup {Idle}
  PROVE  Started(s, operation) \in Sessions
BY DEF Started, Sessions

LEMMA FailType ==
  ASSUME NEW s \in Sessions
  PROVE  fail(s) \in Sessions
<1>1. [s EXCEPT !.lost = TRUE] \in Sessions
  BY DEF Sessions
<1> QED BY <1>1, ScheduledType DEF fail

\* The first handler, and the session that it runs in.
LEMMA TakenFacts ==
  ASSUME session \in Sessions, session.queue # <<>>
  PROVE  /\ Taken \in Sessions
         /\ Taken = [session EXCEPT !.queue = Taken.queue, !.lost = FALSE]
         /\ Head(session.queue) = session.queue[1]
         /\ Len(session.queue) \in Nat \ {0}
         /\ Len(Taken.queue) = Len(session.queue) - 1
         /\ \A i \in 1..Len(Taken.queue) : Taken.queue[i] = session.queue[i + 1]
         /\ \A i \in 1..Len(session.queue) : session.queue[i] \in Owed
<1>1. session.queue \in Seq(Owed)
  BY DEF Sessions
<1>2. /\ Tail(session.queue) \in Seq(Owed)
      /\ Len(Tail(session.queue)) = Len(session.queue) - 1
      /\ \A i \in 1..Len(Tail(session.queue)) : Tail(session.queue)[i] = session.queue[i + 1]
  BY <1>1, HeadTailProperties
<1>3. Taken.queue = Tail(session.queue)
  BY DEF Taken, Sessions
<1>4. Taken \in Sessions
  BY <1>2 DEF Taken, Sessions
<1>5. Taken = [session EXCEPT !.queue = Tail(session.queue), !.lost = FALSE]
  BY DEF Taken
<1> QED BY <1>1, <1>2, <1>3, <1>4, <1>5

-----------------------------------------------------------------------------
(***************************************************************************)
(* Types.                                                                  *)
(***************************************************************************)
LEMMA TypeStep ==
  ASSUME session \in Sessions, [Next]_session
  PROVE  session' \in Sessions
<1>0. \A operation \in {"resolve", "connect", "tls_handshake", "ws_handshake", "subscribe", "read"} :
         operation \in Operations
  BY DEF Operations, Stages
<1>00. 0 \in 0..MaxCount
  BY SessionAssumption
<1>1. CASE run
  <2>1. [session EXCEPT !.phase = "running", !.stopping = FALSE] \in Sessions
    BY DEF Sessions
  <2> QED BY <1>1, <2>1, ConnectType DEF run
<1>2. CASE OperationEnds
  <2>1. Started(session, Idle) \in Sessions /\ session.operation \in Operations
    BY <1>2, StartedType DEF OperationEnds, Sessions
  <2>2. PICK outcome \in {"done", "failed"} :
           session' = Queued(Started(session, Idle), session.operation, outcome)
    BY <1>2 DEF OperationEnds
  <2>3. outcome \in Outcomes
    BY DEF Outcomes
  <2> QED BY <2>1, <2>2, <2>3, QueuedFacts
<1>3. CASE TimerExpires
  <2>1. [session EXCEPT !.waits = session.waits - 1] \in Sessions
    BY <1>3 DEF TimerExpires, Sessions
  <2> QED BY <1>3, <2>1, QueuedFacts DEF TimerExpires, Outcomes
<1>4. CASE stop
  <2>1. [session EXCEPT !.stop_asked = TRUE] \in Sessions
    BY DEF Sessions
  <2> QED BY <1>4, <2>1, QueuedFacts DEF stop, Outcomes
<1>5. CASE Handler
  <2>0. session.queue # <<>>
    BY <1>5 DEF Handler, Handles, OnResolve, OnConnect, OnTlsHandshake, OnWsHandshake,
         OnSubscribe, on_message, OnReadError, OnReconnect, OnTimer, OnStop
  <2>1. Taken \in Sessions
    BY <2>0, TakenFacts
  <2>2. fail(Taken) \in Sessions
    BY <2>1, FailType
  <2>3. \A operation \in Operations \cup {Idle} : Started(Taken, operation) \in Sessions
    BY <2>1, StartedType
  <2> HIDE DEF Taken
  <2>4. CASE OnResolve
    BY <1>0, <2>2, <2>3, <2>4 DEF OnResolve
  <2>5. CASE OnConnect
    BY <1>0, <2>2, <2>3, <2>5 DEF OnConnect
  <2>6. CASE OnTlsHandshake
    <3>1. GivenUp(Taken) \in Sessions
      BY <2>1 DEF GivenUp, Sessions
    <3> QED BY <1>0, <2>2, <2>3, <2>6, <3>1 DEF OnTlsHandshake
  <2>7. CASE OnWsHandshake
    <3>1. Counted(Taken.connections) \in 0..MaxCount
      BY <2>1, CountedType DEF Sessions
    <3>2. [Taken EXCEPT !.connections = Counted(Taken.connections), !.attempt = 0] \in Sessions
      BY <1>00, <2>1, <3>1 DEF Sessions
    <3>3. on_open(Taken) \in Sessions
      BY <1>0, <3>2, StartedType DEF on_open
    <3> QED BY <2>2, <2>7, <3>3 DEF OnWsHandshake
  <2>8. CASE OnSubscribe
    BY <1>0, <2>2, <2>3, <2>8 DEF OnSubscribe
  <2>9. ASSUME NEW asks \in BOOLEAN, on_message(asks)
        PROVE  session' \in Sessions
    <3>1. Queued(Taken, "reconnect", "done") \in Sessions
      BY <2>1, QueuedFacts DEF Outcomes
    <3>2. (IF asks THEN Queued(Taken, "reconnect", "done") ELSE Taken) \in Sessions
      BY <2>1, <3>1
    <3> QED BY <1>0, <2>9, <3>2, StartedType DEF on_message
  <2>10. CASE OnReadError
    BY <2>1, <2>2, <2>10 DEF OnReadError
  <2>11. CASE OnReconnect
    <3>1. [Taken EXCEPT !.attempt = 0] \in Sessions
      BY <1>00, <2>1 DEF Sessions
    <3> QED BY <2>1, <2>11, <3>1, ScheduledType DEF OnReconnect
  <2>12. CASE OnTimer
    BY <2>1, <2>12, ConnectType DEF OnTimer
  <2>13. CASE OnStop
    BY <2>1, <2>13 DEF OnStop, Sessions
  <2> QED BY <1>5, <2>4, <2>5, <2>6, <2>7, <2>8, <2>9, <2>10, <2>11, <2>12, <2>13
       DEF Handler
<1>6. CASE UNCHANGED session
  BY <1>6
<1> QED BY <1>1, <1>2, <1>3, <1>4, <1>5, <1>6 DEF Next

LEMMA TypeInit == Init => session \in Sessions
BY SessionAssumption DEF Init, Created, Sessions

LEMMA SessionsAreTyped == session \in Sessions <=> TypeOK
BY DEF Sessions, TypeOK, Owed

\* The state of a session stays in its type: in particular there is never more
\* than one wait, and none of them is longer than the cap.
THEOREM TypeCorrect == Spec => []TypeOK
<1>1. Init => TypeOK
  BY TypeInit, SessionsAreTyped
<1>2. TypeOK /\ [Next]_session => TypeOK'
  BY TypeStep, SessionsAreTyped DEF Sessions, TypeOK, Owed
<1> QED BY <1>1, <1>2, PTL DEF Spec
-----------------------------------------------------------------------------
(***************************************************************************)
(* The invariant is kept.                                                  *)
(***************************************************************************)

\* Nothing carries the session on: all that is owed is aborted, or stop().
Spent(s) ==
  /\ s \in Sessions
  /\ s.phase = "running"
  /\ ~s.stopping
  /\ s.operation = Idle
  /\ \A i \in 1..Len(s.queue) :
        \/ s.queue[i].name = "stop" /\ s.queue[i].outcome # "aborted"
        \/ s.queue[i].name \in Operations /\ s.queue[i].outcome = "aborted"

\* And nothing is aborted or waited for either.
Free(s) ==
  /\ s \in Sessions
  /\ s.phase = "running"
  /\ ~s.stopping
  /\ s.operation = Idle
  /\ s.waits = 0
  /\ \A i \in 1..Len(s.queue) :
        s.queue[i].name = "stop" /\ s.queue[i].outcome # "aborted"

LEMMA Names ==
  /\ Idle \notin Operations
  /\ {"timer", "reconnect", "stop"} \cap Operations = {}
  /\ WebSocketOperations \subseteq StreamOperations
  /\ StreamOperations \subseteq Operations
  /\ "read" \in WebSocketOperations
  /\ Operations = {"resolve", "connect", "tls_handshake", "ws_handshake", "subscribe", "read"}
<1>1. DOMAIN Stages = 1..6
  BY DEF Stages
<1>2. Operations = {Stages[1], Stages[2], Stages[3], Stages[4], Stages[5], Stages[6]}
  BY <1>1 DEF Operations
<1>3. Operations = {"resolve", "connect", "tls_handshake", "ws_handshake", "subscribe", "read"}
  BY <1>2 DEF Stages
<1> QED BY <1>3 DEF Idle, WebSocketOperations, StreamOperations

\* A wait, or the end, follows a teardown that leaves nothing else.
LEMMA ScheduledSound ==
  ASSUME NEW s \in Sessions, Spent(WithoutStream(s))
  PROVE  Sound(schedule_reconnect(s))
<1> DEFINE torn == WithoutStream(s)
           t == schedule_reconnect(s)
<1>1. t \in Sessions
  BY ScheduledType
<1>2. Spent(torn)
  OBVIOUS
<1> HIDE DEF torn
<1>3. \A i \in 1..Len(torn.queue) : ~Carries(torn.queue[i])
  BY <1>2, Names DEF Spent, Carries
<1>4. CASE t = GivenUp(torn)
  <2>1. /\ t.phase = "ended"
        /\ t.gave_up
        /\ t.operation = Idle
        /\ t.waits = torn.waits
        /\ t.queue = torn.queue
    BY <1>2, <1>4 DEF GivenUp, Spent, Sessions
  <2> QED BY <1>1, <1>3, <2>1 DEF Sound, AtMostOne
<1>5. CASE t # GivenUp(torn)
  <2>1. t = [torn EXCEPT !.delay      = reconnect_backoff(torn.attempt),
                         !.attempt    = Counted(torn.attempt),
                         !.reconnects = Counted(torn.reconnects),
                         !.waits      = 1]
    BY <1>2, <1>5 DEF schedule_reconnect, torn, Spent
  <2>2. /\ t.phase = "running"
        /\ ~t.stopping
        /\ t.operation = Idle
        /\ t.waits = 1
        /\ t.queue = torn.queue
    BY <1>2, <2>1 DEF Spent, Sessions
  <2>3. \A i \in 1..Len(t.queue) : t.queue[i].outcome = "aborted" \/ t.queue[i].name = "stop"
    BY <1>2, <2>2 DEF Spent
  <2>4. AtMostOne(t)
    BY <1>3, <2>2 DEF AtMostOne
  <2>5. AbortedIsWaitedFor(t)
    BY <1>2, <2>2 DEF AbortedIsWaitedFor, Spent
  <2>6. ReconnectFindsTheRead(t)
    BY <1>2, <2>2, Names DEF ReconnectFindsTheRead, Spent
  <2>7. GoesOn(t)
    BY <1>2, <2>2, Names DEF GoesOn, Spent
  <2> QED BY <1>1, <2>2, <2>4, <2>5, <2>6, <2>7 DEF Sound
<1> QED BY <1>4, <1>5

\* Tearing down what is spent leaves it spent.
LEMMA SpentStays ==
  ASSUME NEW s, Spent(s)
  PROVE  Spent(WithoutStream(s)) /\ WithoutStream(s).waits = s.waits
<1> DEFINE t == WithoutStream(s)
<1>1. s.operation \notin StreamOperations
  BY Names DEF Spent
<1>2. /\ t \in Sessions
      /\ t = [s EXCEPT !.stream = FALSE, !.queue = t.queue, !.operation = s.operation]
      /\ Len(t.queue) = Len(s.queue)
      /\ \A i \in 1..Len(s.queue) :
            /\ t.queue[i].name = s.queue[i].name
            /\ t.queue[i].outcome = IF s.queue[i].name \in WebSocketOperations THEN "aborted"
                                    ELSE s.queue[i].outcome
  BY <1>1, WithoutStreamFacts DEF Spent
<1> HIDE DEF t
<1>3. /\ t.phase = s.phase
      /\ t.stopping = s.stopping
      /\ t.operation = s.operation
      /\ t.waits = s.waits
  BY <1>2 DEF Spent, Sessions
<1> QED BY <1>2, <1>3, Names DEF Spent, t

LEMMA FailSound ==
  ASSUME NEW s, Spent(s)
  PROVE  Sound(fail(s))
<1> DEFINE u == [s EXCEPT !.lost = TRUE]
<1>1. /\ u \in Sessions
      /\ u.phase = s.phase
      /\ u.stopping = s.stopping
      /\ u.operation = s.operation
      /\ u.queue = s.queue
  BY DEF Spent, Sessions
<1> HIDE DEF u
<1>2. Spent(u)
  BY <1>1 DEF Spent
<1> QED BY <1>1, <1>2, SpentStays, ScheduledSound DEF fail, u

LEMMA StartedSound ==
  ASSUME NEW s, Free(s), s.stream, NEW operation \in Operations
  PROVE  Sound(Started(s, operation))
<1> DEFINE t == Started(s, operation)
<1>1. t \in Sessions
  BY StartedType DEF Free
<1>2. /\ t.phase = "running"
      /\ ~t.stopping
      /\ t.operation = operation
      /\ t.waits = 0
      /\ t.stream
      /\ t.queue = s.queue
  BY DEF Started, Free, Sessions
<1> HIDE DEF t
<1>3. AtMostOne(t)
  BY <1>2, Names DEF AtMostOne, Free, Carries
<1>4. AbortedIsWaitedFor(t)
  BY <1>2 DEF AbortedIsWaitedFor, Free
<1>5. ReconnectFindsTheRead(t)
  BY <1>2 DEF ReconnectFindsTheRead, Free
<1>6. GoesOn(t)
  BY <1>2, Names DEF GoesOn
<1> QED BY <1>1, <1>2, <1>3, <1>4, <1>5, <1>6 DEF Sound, t

LEMMA ConnectSound ==
  ASSUME NEW s, Free(s)
  PROVE  Sound(connect(s))
<1>0. s \in Sessions /\ Spent(s)
  BY DEF Free, Spent
<1>1. CASE ~s.trust_store_ready
  <2>1. connect(s) = GivenUp(s)
    BY <1>1 DEF connect
  <2>2. /\ GivenUp(s) \in Sessions
        /\ GivenUp(s).phase = "ended"
        /\ GivenUp(s).gave_up
        /\ GivenUp(s).operation = Idle
        /\ GivenUp(s).waits = 0
        /\ GivenUp(s).queue = s.queue
    BY DEF GivenUp, Free, Sessions
  <2> QED BY <2>1, <2>2, Names DEF Sound, AtMostOne, Free, Carries
<1>2. CASE s.trust_store_ready
  <2> DEFINE t == WithoutStream(s)
             u == [t EXCEPT !.stream = TRUE]
  <2>1. /\ Spent(t)
        /\ t.waits = 0
        /\ \A i \in 1..Len(t.queue) : t.queue[i].name = "stop"
    <3>1. \A i \in 1..Len(s.queue) : s.queue[i].name = "stop"
      BY DEF Free
    <3>2. s.operation \notin StreamOperations
      BY Names DEF Free
    <3>3. Spent(t) /\ t.waits = s.waits
      BY <1>0, SpentStays
    <3>4. Len(t.queue) = Len(s.queue)
      BY <1>0, <3>2, WithoutStreamFacts
    <3>5. \A i \in 1..Len(s.queue) : t.queue[i].name = s.queue[i].name
      BY <1>0, WithoutStreamFacts
    <3>6. s.waits = 0
      BY DEF Free
    <3> HIDE DEF t
    <3> QED BY <3>1, <3>3, <3>4, <3>5, <3>6, ZenonT(60)
  <2> HIDE DEF t
  <2>2. /\ u \in Sessions
        /\ u.phase = t.phase
        /\ u.stopping = t.stopping
        /\ u.operation = t.operation
        /\ u.waits = t.waits
        /\ u.queue = t.queue
        /\ u.stream
    BY <2>1 DEF Spent, Sessions
  <2> HIDE DEF u
  <2>3. Free(u)
    BY <2>1, <2>2, Names DEF Free, Spent
  <2> QED BY <1>2, <2>2, <2>3, Names, StartedSound DEF connect, t, u
<1> QED BY <1>1, <1>2

\* Once the handler that carries the session on is taken, nothing else does.
LEMMA LiveHead ==
  ASSUME Sound(session), session.phase = "running", session.queue # <<>>,
         Carries(Head(session.queue))
  PROVE  /\ Free(Taken)
         /\ Head(session.queue).name \in Operations /\ Head(session.queue).outcome = "done"
              => Taken.stream
<1>1. session \in Sessions
  BY DEF Sound
<1>2. /\ Taken \in Sessions
      /\ Taken = [session EXCEPT !.queue = Taken.queue, !.lost = FALSE]
      /\ Head(session.queue) = session.queue[1]
      /\ Len(session.queue) \in Nat \ {0}
      /\ Len(Taken.queue) = Len(session.queue) - 1
      /\ \A i \in 1..Len(Taken.queue) : Taken.queue[i] = session.queue[i + 1]
      /\ \A i \in 1..Len(session.queue) : session.queue[i] \in Owed
  BY <1>1, TakenFacts
<1>3. 1 \in 1..Len(session.queue) /\ Carries(session.queue[1])
  BY <1>2
<1>4. /\ AtMostOne(session)
      /\ AbortedIsWaitedFor(session)
      /\ ReconnectFindsTheRead(session)
      /\ GoesOn(session)
      /\ ~session.stopping
  BY DEF Sound
<1>5. session.operation = Idle /\ session.waits = 0
  BY <1>3, <1>4 DEF AtMostOne
<1> HIDE DEF Taken
<1>6. /\ Taken.phase = "running"
      /\ ~Taken.stopping
      /\ Taken.operation = Idle
      /\ Taken.waits = 0
      /\ Taken.stream = session.stream
  BY <1>1, <1>2, <1>4, <1>5 DEF Sessions
<1>7. \A i \in 2..Len(session.queue) :
         session.queue[i].name = "stop" /\ session.queue[i].outcome # "aborted"
  <2> SUFFICES ASSUME NEW i \in 2..Len(session.queue)
               PROVE  session.queue[i].name = "stop" /\ session.queue[i].outcome # "aborted"
    OBVIOUS
  <2>1. i \in 1..Len(session.queue) /\ i # 1 /\ session.queue[i] \in Owed
    BY <1>2
  <2>2. ~Carries(session.queue[i])
    BY <1>3, <1>4, <2>1 DEF AtMostOne
  <2>3. session.queue[i].outcome # "aborted"
    BY <1>4, <1>5, <2>1 DEF AbortedIsWaitedFor
  <2>4. session.queue[i].name # "reconnect"
    <3> SUFFICES ASSUME session.queue[i].name = "reconnect"
                 PROVE  FALSE
      OBVIOUS
    <3>1. 1 \in 1 .. i - 1
      BY <2>1
    <3>2. session.queue[1].name = "stop"
      BY <1>4, <2>1, <3>1 DEF ReconnectFindsTheRead
    <3> QED BY <1>3, <3>2, Names DEF Carries
  <2> QED BY <2>1, <2>2, <2>3, <2>4 DEF Carries, Owed
<1>8. \A i \in 1..Len(Taken.queue) :
         Taken.queue[i].name = "stop" /\ Taken.queue[i].outcome # "aborted"
  <2> SUFFICES ASSUME NEW i \in 1..Len(Taken.queue)
               PROVE  Taken.queue[i].name = "stop" /\ Taken.queue[i].outcome # "aborted"
    OBVIOUS
  <2>1. i + 1 \in 2..Len(session.queue)
    BY <1>2
  <2> QED BY <1>2, <1>7, <2>1
<1>9. Head(session.queue).name \in Operations /\ Head(session.queue).outcome = "done"
        => session.stream
  BY <1>2, <1>3, <1>4 DEF GoesOn
<1> QED BY <1>2, <1>6, <1>8, <1>9 DEF Free

\* Nor does anything once a handler that was aborted is taken: what it belonged
\* to is waited for.
LEMMA AbortedHead ==
  ASSUME Sound(session), session.phase = "running", session.queue # <<>>,
         Head(session.queue).outcome = "aborted"
  PROVE  Spent(Taken)
<1>1. session \in Sessions
  BY DEF Sound
<1>2. /\ Taken \in Sessions
      /\ Taken = [session EXCEPT !.queue = Taken.queue, !.lost = FALSE]
      /\ Head(session.queue) = session.queue[1]
      /\ Len(session.queue) \in Nat \ {0}
      /\ Len(Taken.queue) = Len(session.queue) - 1
      /\ \A i \in 1..Len(Taken.queue) : Taken.queue[i] = session.queue[i + 1]
      /\ \A i \in 1..Len(session.queue) : session.queue[i] \in Owed
  BY <1>1, TakenFacts
<1>3. 1 \in 1..Len(session.queue) /\ session.queue[1].outcome = "aborted"
  BY <1>2
<1>4. /\ AtMostOne(session)
      /\ AbortedIsWaitedFor(session)
      /\ ReconnectFindsTheRead(session)
      /\ ~session.stopping
  BY DEF Sound
<1>5. session.waits = 1 /\ session.operation = Idle
  BY <1>3, <1>4 DEF AtMostOne, AbortedIsWaitedFor
<1> HIDE DEF Taken
<1>6. /\ Taken.phase = "running"
      /\ ~Taken.stopping
      /\ Taken.operation = Idle
  BY <1>1, <1>2, <1>4, <1>5 DEF Sessions
<1>7. \A i \in 1..Len(session.queue) :
         \/ session.queue[i].name = "stop" /\ session.queue[i].outcome # "aborted"
         \/ session.queue[i].name \in Operations /\ session.queue[i].outcome = "aborted"
  <2> SUFFICES ASSUME NEW i \in 1..Len(session.queue)
               PROVE  \/ session.queue[i].name = "stop" /\ session.queue[i].outcome # "aborted"
                      \/ /\ session.queue[i].name \in Operations
                         /\ session.queue[i].outcome = "aborted"
    OBVIOUS
  <2>1. ~Carries(session.queue[i]) /\ session.queue[i] \in Owed
    BY <1>2, <1>4, <1>5 DEF AtMostOne
  <2>2. session.queue[i].name # "reconnect"
    BY <1>4, <1>5 DEF ReconnectFindsTheRead
  <2>3. session.queue[i].outcome = "aborted" => session.queue[i].name \in Operations
    BY <1>4 DEF AbortedIsWaitedFor
  <2> QED BY <2>1, <2>2, <2>3 DEF Carries, Owed
<1>8. \A i \in 1..Len(Taken.queue) :
         \/ Taken.queue[i].name = "stop" /\ Taken.queue[i].outcome # "aborted"
         \/ Taken.queue[i].name \in Operations /\ Taken.queue[i].outcome = "aborted"
  <2> SUFFICES ASSUME NEW i \in 1..Len(Taken.queue)
               PROVE  \/ Taken.queue[i].name = "stop" /\ Taken.queue[i].outcome # "aborted"
                      \/ /\ Taken.queue[i].name \in Operations
                         /\ Taken.queue[i].outcome = "aborted"
    OBVIOUS
  <2>1. i + 1 \in 1..Len(session.queue)
    BY <1>2
  <2> QED BY <1>2, <1>7, <2>1
<1> QED BY <1>2, <1>6, <1>8 DEF Spent

\* Whether it succeeded, failed or was aborted, the handler of an operation
\* leaves nothing else that carries the session on.
LEMMA OperationHead ==
  ASSUME Sound(session), session.phase = "running", session.queue # <<>>,
         Head(session.queue).name \in Operations
  PROVE  /\ Spent(Taken)
         /\ Done => Free(Taken) /\ Taken.stream
<1>1. CASE Head(session.queue).outcome = "aborted"
  BY <1>1, AbortedHead DEF Done
<1>2. CASE Head(session.queue).outcome # "aborted"
  <2>1. Carries(Head(session.queue))
    BY <1>2 DEF Carries
  <2>2. Free(Taken) /\ (Done => Taken.stream)
    BY <2>1, LiveHead DEF Done
  <2>3. Spent(Taken)
    <3> HIDE DEF Taken
    <3> QED BY <2>2 DEF Free, Spent
  <2> QED BY <2>2, <2>3
<1> QED BY <1>1, <1>2

\* A requested reconnect tears down the connection that asked for it: what is
\* left of it in the queue is aborted.
LEMMA ReconnectHead ==
  ASSUME Sound(session), session.phase = "running", session.queue # <<>>,
         Head(session.queue).name = "reconnect",
         NEW asked, asked = [Taken EXCEPT !.attempt = 0]
  PROVE  asked \in Sessions /\ Spent(WithoutStream(asked))
<1>1. session \in Sessions
  BY DEF Sound
<1>2. /\ Taken \in Sessions
      /\ Taken = [session EXCEPT !.queue = Taken.queue, !.lost = FALSE]
      /\ Head(session.queue) = session.queue[1]
      /\ Len(session.queue) \in Nat \ {0}
      /\ Len(Taken.queue) = Len(session.queue) - 1
      /\ \A i \in 1..Len(Taken.queue) : Taken.queue[i] = session.queue[i + 1]
      /\ \A i \in 1..Len(session.queue) : session.queue[i] \in Owed
  BY <1>1, TakenFacts
<1>3. 1 \in 1..Len(session.queue) /\ session.queue[1].name = "reconnect"
  BY <1>2
<1>4. /\ AbortedIsWaitedFor(session)
      /\ ReconnectFindsTheRead(session)
      /\ ~session.stopping
  BY DEF Sound
<1>5. /\ session.waits = 0
      /\ session.operation \in {Idle, "read"}
      /\ \A j \in 1..Len(session.queue) : session.queue[j].name \in {"stop", "reconnect", "read"}
  BY <1>3, <1>4 DEF ReconnectFindsTheRead
<1> HIDE DEF Taken
<1>6. 0 \in 0..MaxCount
  BY SessionAssumption
<1>7. /\ asked \in Sessions
      /\ asked.phase = "running"
      /\ ~asked.stopping
      /\ asked.operation = session.operation
      /\ asked.queue = Taken.queue
  BY <1>1, <1>2, <1>4, <1>6 DEF Sessions
<1>8. \A i \in 1..Len(asked.queue) :
         /\ asked.queue[i].name \in {"stop", "read"}
         /\ asked.queue[i].outcome # "aborted"
  <2> SUFFICES ASSUME NEW i \in 1..Len(asked.queue)
               PROVE  /\ asked.queue[i].name \in {"stop", "read"}
                      /\ asked.queue[i].outcome # "aborted"
    OBVIOUS
  <2>1. i + 1 \in 1..Len(session.queue) /\ asked.queue[i] = session.queue[i + 1]
    BY <1>2, <1>7
  <2>2. session.queue[i + 1].name # "reconnect"
    <3> SUFFICES ASSUME session.queue[i + 1].name = "reconnect"
                 PROVE  FALSE
      OBVIOUS
    <3>1. 1 \in 1 .. (i + 1) - 1
      OBVIOUS
    <3>2. session.queue[1].name = "stop"
      BY <1>4, <2>1, <3>1 DEF ReconnectFindsTheRead
    <3> QED BY <1>3, <3>2
  <2>3. session.queue[i + 1].outcome # "aborted"
    BY <1>4, <1>5, <2>1 DEF AbortedIsWaitedFor
  <2> QED BY <1>5, <2>1, <2>2, <2>3
<1> DEFINE t == WithoutStream(asked)
           more == asked.operation \in StreamOperations
<1>9. /\ t \in Sessions
      /\ t = [asked EXCEPT !.stream = FALSE, !.queue = t.queue,
                           !.operation = IF more THEN Idle ELSE asked.operation]
      /\ Len(t.queue) = IF more THEN Len(asked.queue) + 1 ELSE Len(asked.queue)
      /\ \A i \in 1..Len(asked.queue) :
            /\ t.queue[i].name = asked.queue[i].name
            /\ t.queue[i].outcome = IF asked.queue[i].name \in WebSocketOperations THEN "aborted"
                                    ELSE asked.queue[i].outcome
      /\ more => t.queue[Len(asked.queue) + 1]
                   = [name |-> asked.operation, outcome |-> "aborted"]
  BY <1>7, WithoutStreamFacts
<1>10. more <=> session.operation = "read"
  BY <1>5, <1>7, Names
<1> HIDE DEF t, more
<1>11. /\ t.phase = "running"
       /\ ~t.stopping
       /\ t.operation = Idle
  BY <1>5, <1>7, <1>9, <1>10, ZenonT(60) DEF Sessions
<1>12. ASSUME NEW i \in 1..Len(t.queue)
       PROVE  \/ t.queue[i].name = "stop" /\ t.queue[i].outcome # "aborted"
              \/ t.queue[i].name \in Operations /\ t.queue[i].outcome = "aborted"
  <2>1. CASE i \in 1..Len(asked.queue)
    BY <1>8, <1>9, <2>1, Names
  <2>2. CASE i \notin 1..Len(asked.queue)
    <3>1. Len(asked.queue) \in Nat
      BY <1>7 DEF Sessions
    <3>2. more /\ i = Len(asked.queue) + 1
      BY <1>9, <2>2, <3>1
    <3> QED BY <1>7, <1>9, <1>10, <3>2, Names
  <2> QED BY <2>1, <2>2
<1> QED BY <1>7, <1>9, <1>11, <1>12 DEF Spent, t

\* What is queued comes last.
LEMMA QueuedLast ==
  ASSUME NEW s \in Sessions,
         NEW name \in Operations \cup {"timer", "reconnect", "stop"}, NEW outcome \in Outcomes,
         NEW t, t = Queued(s, name, outcome)
  PROVE  /\ t \in Sessions
         /\ t = [s EXCEPT !.queue = t.queue]
         /\ Len(s.queue) \in Nat
         /\ Len(t.queue) = Len(s.queue) + 1
         /\ \A i \in 1..Len(s.queue) : t.queue[i] = s.queue[i]
         /\ t.queue[Len(s.queue) + 1] = [name |-> name, outcome |-> outcome]
<1> DEFINE handler == [name |-> name, outcome |-> outcome]
<1>1. s.queue \in Seq(Owed) /\ handler \in Owed
  BY DEF Sessions, Owed
<1> HIDE DEF handler
<1>2. /\ \A i \in 1..Len(s.queue) : Append(s.queue, handler)[i] = s.queue[i]
      /\ Append(s.queue, handler)[Len(s.queue) + 1] = handler
      /\ Len(s.queue) \in Nat
      /\ Len(Append(s.queue, handler)) = Len(s.queue) + 1
  BY <1>1, AppendProperties
<1>3. t \in Sessions /\ t = [s EXCEPT !.queue = Append(s.queue, handler)]
  BY QueuedFacts DEF handler
<1>4. t.queue = Append(s.queue, handler)
  BY <1>3 DEF Sessions
<1> QED BY <1>2, <1>3, <1>4 DEF handler

\* A call of stop() is noted, and nothing else of the session is disturbed.
LEMMA StopSound ==
  ASSUME Sound(session), stop
  PROVE  Sound(session')
<1> DEFINE s == [session EXCEPT !.stop_asked = TRUE]
           t == session'
<1>1. session \in Sessions
  BY DEF Sound
<1>2. /\ s \in Sessions
      /\ s.phase = session.phase
      /\ s.stopping = session.stopping
      /\ s.gave_up = session.gave_up
      /\ s.operation = session.operation
      /\ s.waits = session.waits
      /\ s.stream = session.stream
      /\ s.queue = session.queue
  BY <1>1 DEF Sessions
<1>3. t = Queued(s, "stop", "done")
  BY DEF stop
<1> HIDE DEF s, t
<1>4. /\ t \in Sessions
      /\ t = [s EXCEPT !.queue = t.queue]
      /\ Len(s.queue) \in Nat
      /\ Len(t.queue) = Len(s.queue) + 1
      /\ \A i \in 1..Len(s.queue) : t.queue[i] = s.queue[i]
      /\ t.queue[Len(s.queue) + 1] = [name |-> "stop", outcome |-> "done"]
  <2>1. "stop" \in Operations \cup {"timer", "reconnect", "stop"} /\ "done" \in Outcomes
    BY DEF Outcomes
  <2> QED BY <1>2, <1>3, <2>1, QueuedLast
<1>5. /\ t.phase = session.phase
      /\ t.stopping = session.stopping
      /\ t.gave_up = session.gave_up
      /\ t.operation = session.operation
      /\ t.waits = session.waits
      /\ t.stream = session.stream
  BY <1>2, <1>4 DEF Sessions
<1>6. /\ \A i \in 1..Len(session.queue) : i \in 1..Len(t.queue) /\ t.queue[i] = session.queue[i]
      /\ \A i \in 1..Len(t.queue) :
            \/ i \in 1..Len(session.queue)
            \/ i = Len(session.queue) + 1 /\ t.queue[i] = [name |-> "stop", outcome |-> "done"]
  BY <1>2, <1>4
<1>7. /\ ~Carries([name |-> "stop", outcome |-> "done"])
      /\ \A i \in 1..Len(t.queue) :
            Carries(t.queue[i]) => i \in 1..Len(session.queue) /\ Carries(session.queue[i])
  BY <1>6, Names DEF Carries
<1>8. AtMostOne(session) => AtMostOne(t)
  BY <1>5, <1>6, <1>7 DEF AtMostOne
<1>9. CASE session.phase = "created"
  <2>1. OnlyStops(session) => OnlyStops(t)
    BY <1>6 DEF OnlyStops
  <2> QED BY <1>4, <1>5, <1>9, <2>1 DEF Sound, t
<1>10. CASE session.phase = "running"
  <2>1. AbortedIsWaitedFor(session) => AbortedIsWaitedFor(t)
    BY <1>5, <1>6 DEF AbortedIsWaitedFor
  <2>2. ReconnectFindsTheRead(session) => ReconnectFindsTheRead(t)
    <3> SUFFICES ASSUME ReconnectFindsTheRead(session),
                        NEW i \in 1..Len(t.queue), t.queue[i].name = "reconnect"
                 PROVE  /\ \A j \in 1 .. i - 1 : t.queue[j].name = "stop"
                        /\ t.stream
                        /\ t.waits = 0
                        /\ t.operation \in {Idle, "read"}
                        /\ \A j \in 1..Len(t.queue) :
                              t.queue[j].name \in {"stop", "reconnect", "read"}
      BY DEF ReconnectFindsTheRead
    <3>1. i \in 1..Len(session.queue) /\ session.queue[i].name = "reconnect"
      BY <1>6
    <3>2. \A j \in 1 .. i - 1 : j \in 1..Len(session.queue) /\ session.queue[j].name = "stop"
      BY <1>2, <1>4, <3>1 DEF ReconnectFindsTheRead
    <3>3. \A j \in 1..Len(t.queue) : t.queue[j].name \in {"stop", "reconnect", "read"}
      BY <1>6, <3>1 DEF ReconnectFindsTheRead
    <3> QED BY <1>5, <1>6, <3>1, <3>2, <3>3 DEF ReconnectFindsTheRead
  <2>3. GoesOn(session) => GoesOn(t)
    BY <1>5, <1>6, Names DEF GoesOn
  <2> QED BY <1>4, <1>5, <1>8, <1>10, <2>1, <2>2, <2>3 DEF Sound, t
<1>11. CASE session.phase = "ended"
  BY <1>4, <1>5, <1>8, <1>11 DEF Sound, t
<1> QED BY <1>1, <1>9, <1>10, <1>11 DEF Sessions

\* What carries a session on is handed from the operation or the wait that is
\* over to its handler, behind stop() and, for the read of an open connection,
\* behind the reconnect that was asked for.
LEMMA HandedOver ==
  ASSUME NEW s \in Sessions, s.phase = "running", ~s.stopping,
         s.operation = Idle, s.waits = 0,
         \A i \in 1..Len(s.queue) :
            s.queue[i].name \in {"stop", "reconnect"} /\ s.queue[i].outcome # "aborted",
         ReconnectFindsTheRead(s),
         NEW name \in Operations \cup {"timer"}, NEW outcome \in Outcomes,
         outcome # "aborted", name \in Operations => s.stream,
         \A i \in 1..Len(s.queue) : s.queue[i].name = "reconnect" => name = "read"
  PROVE  Sound(Queued(s, name, outcome))
<1> DEFINE t == Queued(s, name, outcome)
<1>2. /\ t \in Sessions
      /\ t = [s EXCEPT !.queue = t.queue]
      /\ Len(s.queue) \in Nat
      /\ Len(t.queue) = Len(s.queue) + 1
      /\ \A i \in 1..Len(s.queue) : t.queue[i] = s.queue[i]
      /\ t.queue[Len(s.queue) + 1] = [name |-> name, outcome |-> outcome]
  BY QueuedLast
<1> HIDE DEF t
<1>3. /\ t.phase = "running"
      /\ ~t.stopping
      /\ t.operation = Idle
      /\ t.waits = 0
      /\ t.stream = s.stream
  BY <1>2 DEF Sessions
<1>4. \A i \in 1..Len(t.queue) :
         \/ /\ i \in 1..Len(s.queue)
            /\ t.queue[i] = s.queue[i]
            /\ t.queue[i].name \in {"stop", "reconnect"}
            /\ t.queue[i].outcome # "aborted"
         \/ i = Len(t.queue) /\ t.queue[i].name = name /\ t.queue[i].outcome = outcome
  BY <1>2
<1>5. AtMostOne(t)
  BY <1>3, <1>4, Names DEF AtMostOne, Carries
<1>6. AbortedIsWaitedFor(t)
  BY <1>4 DEF AbortedIsWaitedFor
<1>7. ReconnectFindsTheRead(t)
  <2> SUFFICES ASSUME NEW i \in 1..Len(t.queue), t.queue[i].name = "reconnect"
               PROVE  /\ \A j \in 1 .. i - 1 : t.queue[j].name = "stop"
                      /\ t.stream
                      /\ t.waits = 0
                      /\ t.operation \in {Idle, "read"}
                      /\ \A j \in 1..Len(t.queue) : t.queue[j].name \in {"stop", "reconnect", "read"}
    BY DEF ReconnectFindsTheRead
  <2>1. i \in 1..Len(s.queue) /\ s.queue[i].name = "reconnect"
    BY <1>4, Names
  <2>2. name = "read"
    BY <2>1
  <2>3. \A j \in 1 .. i - 1 : j \in 1..Len(s.queue) /\ s.queue[j].name = "stop"
    BY <1>2, <2>1 DEF ReconnectFindsTheRead
  <2> QED BY <1>2, <1>3, <1>4, <2>1, <2>2, <2>3 DEF ReconnectFindsTheRead
<1>8. GoesOn(t)
  <2>1. Carries(t.queue[Len(t.queue)]) /\ Len(t.queue) \in 1..Len(t.queue)
    BY <1>2 DEF Carries
  <2> QED BY <1>3, <1>4, <2>1, Names DEF GoesOn
<1> QED BY <1>2, <1>3, <1>5, <1>6, <1>7, <1>8 DEF Sound, t

LEMMA OperationEndsSound ==
  ASSUME Sound(session), OperationEnds
  PROVE  Sound(session')
<1> DEFINE s == Started(session, Idle)
<1>1. /\ session \in Sessions
      /\ session.phase = "running"
      /\ session.operation \in Operations
  BY DEF Sound, OperationEnds, Running, Sessions
<1>2. /\ AtMostOne(session)
      /\ AbortedIsWaitedFor(session)
      /\ ReconnectFindsTheRead(session)
      /\ GoesOn(session)
      /\ ~session.stopping
  BY <1>1 DEF Sound
<1>3. PICK outcome \in {"done", "failed"} : session' = Queued(s, session.operation, outcome)
  BY DEF OperationEnds
<1>4. /\ s \in Sessions
      /\ s.phase = "running"
      /\ ~s.stopping
      /\ s.operation = Idle
      /\ s.waits = session.waits
      /\ s.stream = session.stream
      /\ s.queue = session.queue
  BY <1>1, <1>2 DEF Started, Sessions
<1> HIDE DEF s
<1>5. session.waits = 0 /\ session.stream /\ session.operation # Idle
  BY <1>1, <1>2, Names DEF AtMostOne, GoesOn
<1>6. ASSUME NEW i \in 1..Len(session.queue)
      PROVE  /\ session.queue[i].name \in {"stop", "reconnect"}
             /\ session.queue[i].outcome # "aborted"
  <2>1. session.queue[i] \in Owed
    BY <1>1 DEF Sessions
  <2>2. ~Carries(session.queue[i]) /\ session.queue[i].outcome # "aborted"
    BY <1>2, <1>5 DEF AtMostOne, AbortedIsWaitedFor
  <2> QED BY <2>1, <2>2 DEF Carries, Owed
<1>7. ReconnectFindsTheRead(s)
  BY <1>2, <1>4 DEF ReconnectFindsTheRead
<1>8. \A i \in 1..Len(session.queue) :
         session.queue[i].name = "reconnect" => session.operation = "read"
  BY <1>2, <1>5 DEF ReconnectFindsTheRead
<1>9. outcome \in Outcomes /\ outcome # "aborted"
  BY DEF Outcomes
<1> QED BY <1>1, <1>3, <1>4, <1>5, <1>6, <1>7, <1>8, <1>9, HandedOver

\* A wait is over when nothing is queued any more: were a handler of the
\* connection it follows still to come, the next connection would meet it.
LEMMA TimerExpiresSound ==
  ASSUME Prompt, Sound(session), TimerExpires
  PROVE  Sound(session')
<1> DEFINE s == [session EXCEPT !.waits = session.waits - 1]
<1>1. /\ session \in Sessions
      /\ session.phase = "running"
      /\ session.waits = 1
      /\ session.queue = <<>>
  BY DEF Sound, TimerExpires, Running, Sessions
<1>2. AtMostOne(session) /\ ~session.stopping
  BY <1>1 DEF Sound
<1>3. session' = Queued(s, "timer", "done")
  BY DEF TimerExpires
<1>4. /\ s \in Sessions
      /\ s.phase = "running"
      /\ ~s.stopping
      /\ s.operation = Idle
      /\ s.waits = 0
      /\ Len(s.queue) = 0
  BY <1>1, <1>2 DEF AtMostOne, Sessions
<1> HIDE DEF s
<1>5. ReconnectFindsTheRead(s)
  BY <1>4 DEF ReconnectFindsTheRead
<1>6. "done" \in Outcomes /\ "timer" \notin Operations
  BY Names DEF Outcomes
<1> QED BY <1>3, <1>4, <1>5, <1>6, HandedOver

LEMMA RunSound ==
  ASSUME Sound(session), run
  PROVE  Sound(session')
<1> DEFINE s == [session EXCEPT !.phase = "running", !.stopping = FALSE]
<1>1. /\ session \in Sessions
      /\ session.operation = Idle
      /\ session.waits = 0
      /\ OnlyStops(session)
  BY DEF Sound, run
<1>2. /\ s \in Sessions
      /\ s.phase = "running"
      /\ ~s.stopping
      /\ s.operation = Idle
      /\ s.waits = 0
      /\ s.queue = session.queue
  BY <1>1 DEF Sessions
<1> HIDE DEF s
<1>3. Free(s)
  BY <1>1, <1>2 DEF Free, OnlyStops
<1> QED BY <1>3, ConnectSound DEF run, s

\* A message is followed by the next read, and a reconnect that it asks for
\* will find that read.
LEMMA MessageSound ==
  ASSUME Sound(session), NEW asks \in BOOLEAN, on_message(asks)
  PROVE  Sound(session')
<1>1. /\ session.phase = "running"
      /\ session.queue # <<>>
      /\ Head(session.queue).name = "read"
      /\ Done
  BY DEF on_message, Handles, Running
<1>2. Free(Taken) /\ Taken.stream
  BY <1>1, Names, OperationHead
<1>3. "read" \in Operations
  BY Names
<1>4. CASE ~asks
  BY <1>2, <1>3, <1>4, StartedSound DEF on_message
<1>5. CASE asks
  <2> DEFINE q == Queued(Taken, "reconnect", "done")
             t == Started(q, "read")
  <2>1. session' = t
    BY <1>5 DEF on_message
  <2> HIDE DEF Taken
  <2>2. "reconnect" \in Operations \cup {"timer", "reconnect", "stop"} /\ "done" \in Outcomes
    BY DEF Outcomes
  <2>3. /\ q \in Sessions
        /\ q = [Taken EXCEPT !.queue = q.queue]
        /\ Len(Taken.queue) \in Nat
        /\ Len(q.queue) = Len(Taken.queue) + 1
        /\ \A i \in 1..Len(Taken.queue) : q.queue[i] = Taken.queue[i]
        /\ q.queue[Len(Taken.queue) + 1] = [name |-> "reconnect", outcome |-> "done"]
    BY <1>2, <2>2, QueuedLast DEF Free
  <2> HIDE DEF q
  <2>4. /\ q.phase = "running"
        /\ ~q.stopping
        /\ q.waits = 0
        /\ q.stream
    BY <1>2, <2>3 DEF Free, Sessions
  <2>5. t \in Sessions
    BY <1>3, <2>3, StartedType
  <2>6. /\ t.phase = "running"
        /\ ~t.stopping
        /\ t.operation = "read"
        /\ t.waits = 0
        /\ t.stream
        /\ t.queue = q.queue
    BY <2>3, <2>4 DEF Started, Sessions
  <2> HIDE DEF t
  <2>7. \A i \in 1..Len(t.queue) :
           /\ t.queue[i].outcome # "aborted"
           /\ \/ i < Len(t.queue) /\ t.queue[i].name = "stop"
              \/ i = Len(t.queue) /\ t.queue[i].name = "reconnect"
    BY <1>2, <2>3, <2>6 DEF Free
  <2>8. AtMostOne(t)
    BY <2>6, <2>7, Names DEF AtMostOne, Carries
  <2>9. AbortedIsWaitedFor(t)
    BY <2>7 DEF AbortedIsWaitedFor
  <2>10. ReconnectFindsTheRead(t)
    BY <2>3, <2>6, <2>7 DEF ReconnectFindsTheRead
  <2>11. GoesOn(t)
    BY <2>6, <2>7, Names DEF GoesOn
  <2> QED BY <2>1, <2>5, <2>6, <2>8, <2>9, <2>10, <2>11 DEF Sound
<1> QED BY <1>4, <1>5

LEMMA HandlerSound ==
  ASSUME Sound(session), Handler
  PROVE  Sound(session')
<1>1. /\ session \in Sessions
      /\ session.phase = "running"
      /\ ~session.stopping
      /\ session.queue # <<>>
  BY DEF Sound, Handler, Handles, Running, OnResolve, OnConnect, OnTlsHandshake,
     OnWsHandshake, OnSubscribe, on_message, OnReadError, OnReconnect, OnTimer, OnStop
<1>2. Taken \in Sessions
  BY <1>1, TakenFacts
<1>3. ASSUME Head(session.queue).name \in Operations
      PROVE  /\ Sound(fail(Taken))
             /\ Done => /\ Free(Taken)
                        /\ \A operation \in Operations : Sound(Started(Taken, operation))
  <2>1. Spent(Taken) /\ (Done => Free(Taken) /\ Taken.stream)
    BY <1>1, <1>3, OperationHead
  <2> HIDE DEF Taken, Done
  <2> QED BY <2>1, FailSound, StartedSound
<1>4. CASE OnResolve
  BY <1>3, <1>4, Names DEF OnResolve, Handles
<1>5. CASE OnConnect
  BY <1>3, <1>5, Names DEF OnConnect, Handles
<1>6. CASE OnTlsHandshake
  <2>1. Head(session.queue).name \in Operations
    BY <1>6, Names DEF OnTlsHandshake, Handles
  <2>2. ASSUME Done
        PROVE  Sound(GivenUp(Taken))
    <3>1. Free(Taken)
      BY <1>3, <2>1, <2>2
    <3> HIDE DEF Taken
    <3>2. /\ GivenUp(Taken) \in Sessions
          /\ GivenUp(Taken).phase = "ended"
          /\ GivenUp(Taken).gave_up
          /\ GivenUp(Taken).operation = Idle
          /\ GivenUp(Taken).waits = 0
          /\ GivenUp(Taken).queue = Taken.queue
      BY <3>1 DEF GivenUp, Free, Sessions
    <3> QED BY <3>1, <3>2, Names DEF Sound, AtMostOne, Free, Carries
  <2> QED BY <1>3, <1>6, <2>1, <2>2, Names DEF OnTlsHandshake
<1>7. CASE OnWsHandshake
  <2>1. Head(session.queue).name \in Operations
    BY <1>7, Names DEF OnWsHandshake, Handles
  <2>2. ASSUME Done
        PROVE  Sound(on_open(Taken))
    <3> DEFINE u == [Taken EXCEPT !.connections = Counted(Taken.connections), !.attempt = 0]
    <3>1. Free(Taken) /\ Taken.stream
      BY <1>1, <2>1, <2>2, OperationHead
    <3> HIDE DEF Taken
    <3>2. Counted(Taken.connections) \in 0..MaxCount /\ 0 \in 0..MaxCount
      BY <1>2, CountedType, SessionAssumption DEF Sessions
    <3>3. /\ u \in Sessions
          /\ u.phase = Taken.phase
          /\ u.stopping = Taken.stopping
          /\ u.operation = Taken.operation
          /\ u.waits = Taken.waits
          /\ u.stream = Taken.stream
          /\ u.queue = Taken.queue
      BY <1>2, <3>2 DEF Sessions
    <3> HIDE DEF u
    <3>4. Free(u)
      BY <3>1, <3>3 DEF Free
    <3>5. Sound(Started(u, "subscribe"))
      BY <3>1, <3>3, <3>4, Names, StartedSound
    <3> QED BY <3>5 DEF on_open, u
  <2> QED BY <1>3, <1>7, <2>1, <2>2 DEF OnWsHandshake
<1>8. CASE OnSubscribe
  BY <1>3, <1>8, Names DEF OnSubscribe, Handles
<1>9. ASSUME NEW asks \in BOOLEAN, on_message(asks)
      PROVE  Sound(session')
  BY <1>9, MessageSound
<1>10. CASE OnReadError
  <2>1. Head(session.queue).name \in Operations
    BY <1>10, Names DEF OnReadError, Handles
  <2> QED BY <1>1, <1>3, <1>10, <2>1 DEF OnReadError
<1>11. CASE OnReconnect
  <2> DEFINE asked == [Taken EXCEPT !.attempt = 0]
  <2>1. session' = schedule_reconnect(asked) /\ Head(session.queue).name = "reconnect"
    BY <1>1, <1>11 DEF OnReconnect, Handles
  <2>2. asked \in Sessions /\ Spent(WithoutStream(asked))
    BY <1>1, <2>1, ReconnectHead
  <2> HIDE DEF asked
  <2> QED BY <2>1, <2>2, ScheduledSound
<1>12. CASE OnTimer
  <2>1. /\ session' = connect(Taken)
        /\ Head(session.queue).name = "timer"
    BY <1>1, <1>12 DEF OnTimer, Handles
  <2>2. Head(session.queue) = session.queue[1] /\ 1 \in 1..Len(session.queue)
    BY <1>1, TakenFacts
  <2>3. session.queue[1].outcome # "aborted"
    BY <1>1, <2>1, <2>2, Names DEF Sound, AbortedIsWaitedFor
  <2>4. Free(Taken)
    BY <1>1, <2>1, <2>2, <2>3, LiveHead DEF Carries
  <2> HIDE DEF Taken
  <2> QED BY <2>1, <2>4, ConnectSound
<1>13. CASE OnStop
  <2> DEFINE t == [Taken EXCEPT !.stopping = TRUE, !.waits = 0, !.phase = "ended"]
  <2>1. session' = t
    BY <1>13 DEF OnStop
  <2>2. /\ Taken = [session EXCEPT !.queue = Taken.queue, !.lost = FALSE]
        /\ Len(session.queue) \in Nat \ {0}
        /\ Len(Taken.queue) = Len(session.queue) - 1
        /\ \A i \in 1..Len(Taken.queue) : Taken.queue[i] = session.queue[i + 1]
    BY <1>1, TakenFacts
  <2> HIDE DEF Taken
  <2>3. /\ t \in Sessions
        /\ t.phase = "ended"
        /\ t.stopping
        /\ t.operation = session.operation
        /\ t.waits = 0
        /\ t.queue = Taken.queue
    BY <1>1, <1>2, <2>2 DEF Sessions
  <2> HIDE DEF t
  <2>4. AtMostOne(session)
    BY <1>1 DEF Sound
  <2>5. \A i \in 1..Len(t.queue) :
           i + 1 \in 1..Len(session.queue) /\ t.queue[i] = session.queue[i + 1]
    BY <2>2, <2>3
  <2>6. AtMostOne(t)
    <3>1. ASSUME NEW i \in 1..Len(t.queue), NEW j \in 1..Len(t.queue),
                 Carries(t.queue[i]), Carries(t.queue[j])
          PROVE  i = j
      <4>1. i + 1 = j + 1
        BY <2>4, <2>5, <3>1 DEF AtMostOne
      <4> QED BY <4>1
    <3>2. t.operation # Idle \/ t.waits # 0 =>
            \A i \in 1..Len(t.queue) : ~Carries(t.queue[i])
      BY <2>3, <2>4, <2>5 DEF AtMostOne
    <3> QED BY <2>3, <3>1, <3>2 DEF AtMostOne
  <2> QED BY <2>1, <2>3, <2>6 DEF Sound
<1> QED BY <1>4, <1>5, <1>6, <1>7, <1>8, <1>9, <1>10, <1>11, <1>12, <1>13 DEF Handler

LEMMA SoundInit == Init => IInv
<1> SUFFICES ASSUME NEW ready \in BOOLEAN, session = Created(ready)
             PROVE  Sound(session)
  BY DEF Init, IInv
<1>1. session \in Sessions
  BY TypeInit DEF Init
<1>2. session.phase = "created" /\ session.operation = Idle /\ session.waits = 0
  BY DEF Created
<1>3. Len(session.queue) = 0
  BY DEF Created
<1> QED BY <1>1, <1>2, <1>3 DEF Sound, OnlyStops

LEMMA SoundStep ==
  ASSUME Prompt
  PROVE  IInv /\ [Next]_session => IInv'
<1> SUFFICES ASSUME IInv, [Next]_session
             PROVE  IInv'
  OBVIOUS
<1>1. Sound(session) /\ (Sound(session') => IInv')
  BY DEF IInv, Sound, Sessions, Owed, OnlyStops, AtMostOne, AbortedIsWaitedFor, GoesOn,
     ReconnectFindsTheRead, Carries
<1> QED BY <1>1, RunSound, OperationEndsSound, TimerExpiresSound, StopSound, HandlerSound
     DEF Next, IInv

\* When what is queued runs before a wait is over, the invariant above holds of
\* every state of a session.
THEOREM SessionIsSound ==
  ASSUME Prompt
  PROVE  Spec => []IInv
BY SoundInit, SoundStep, PTL DEF Spec

-----------------------------------------------------------------------------
(***************************************************************************)
(* What it implies.                                                        *)
(***************************************************************************)
LEMMA SoundIsOneAttempt == IInv => OneAttempt
<1> SUFFICES ASSUME IInv
             PROVE  OneAttempt
  OBVIOUS
<1>1. session \in Sessions
  BY DEF IInv, Sound
<1>2. session.queue \in Seq(Owed) /\ session.waits \in {0, 1}
  BY <1>1 DEF Sessions
<1>3. CarryingOn = {i \in 1..Len(session.queue) : Carries(session.queue[i])}
  BY <1>2 DEF CarryingOn, Carries
<1>4. AtMostOne(session)
  <2>1. CASE session.phase = "created"
    BY <2>1, Names DEF IInv, Sound, OnlyStops, AtMostOne, Carries
  <2> QED BY <1>1, <2>1 DEF IInv, Sound, Sessions
<1>5. CASE CarryingOn = {}
  <2>1. Cardinality(CarryingOn) = 0
    BY <1>5, FS_EmptySet
  <2> QED BY <1>2, <1>4, <2>1 DEF OneAttempt, AtMostOne
<1>6. CASE CarryingOn # {}
  <2>1. PICK i : i \in CarryingOn
    BY <1>6
  <2>2. CarryingOn = {i}
    BY <1>3, <1>4, <2>1 DEF AtMostOne
  <2>3. Cardinality(CarryingOn) = 1
    BY <2>2, FS_Singleton
  <2>4. session.operation = Idle /\ session.waits = 0
    BY <1>3, <1>4, <2>1 DEF AtMostOne
  <2> QED BY <2>3, <2>4 DEF OneAttempt
<1> QED BY <1>5, <1>6

LEMMA SoundFindsTheStream == IInv => HandlersFindTheirStream
<1> SUFFICES ASSUME IInv, session.phase = "running", session.queue # <<>>,
                    Head(session.queue).name \in Operations,
                    Head(session.queue).outcome = "done"
             PROVE  session.stream
  BY DEF HandlersFindTheirStream
<1>1. session.queue \in Seq(Owed)
  BY DEF IInv, Sound, Sessions
<1>2. 1 \in 1..Len(session.queue) /\ Head(session.queue) = session.queue[1]
  BY <1>1
<1> QED BY <1>2 DEF IInv, Sound, GoesOn

LEMMA SoundEndsWhenTold == IInv => EndsOnlyWhenTold
<1> SUFFICES ASSUME IInv, Returned
             PROVE  session.stopping \/ session.gave_up
  BY DEF EndsOnlyWhenTold
<1>1. CASE session.phase = "ended"
  BY <1>1 DEF IInv, Sound
<1>2. ASSUME session.phase = "running", OutOfWork
      PROVE  FALSE
  <2>1. Len(session.queue) = 0
    BY <1>2 DEF OutOfWork
  <2> QED BY <1>2, <2>1 DEF IInv, Sound, GoesOn, OutOfWork
<1> QED BY <1>1, <1>2 DEF Returned

\* However a connection is lost and whatever is asked meanwhile, there is one
\* connection, one attempt at one, or one wait for the next: for every number of
\* attempts, every backoff and every order of handlers that keeps the waits
\* longer than what is already queued.
THEOREM OneAttemptAlways ==
  ASSUME Prompt
  PROVE  Spec => []OneAttempt
BY SessionIsSound, SoundIsOneAttempt, PTL

\* A handler that goes on with the stream runs while there is one: a teardown is
\* always told to the handlers of the connection it tears down.
THEOREM StreamIsThere ==
  ASSUME Prompt
  PROVE  Spec => []HandlersFindTheirStream
BY SessionIsSound, SoundFindsTheStream, PTL

\* run() returns only after stop(), or once the session has given up.
THEOREM EndIsTold ==
  ASSUME Prompt
  PROVE  Spec => []EndsOnlyWhenTold
BY SessionIsSound, SoundEndsWhenTold, PTL
=============================================================================
