-------------------------------- MODULE Session --------------------------------
(***************************************************************************)
(* One WebSocketSession (src/api/ws_session.cpp): a connection that is     *)
(* dialled, read, lost, torn down on request and dialled again, by         *)
(* handlers that run one at a time on one io_context.                      *)
(*                                                                         *)
(* The io_context is modelled as it is: an operation in progress and a     *)
(* retry timer complete when the world decides, and their handlers, like   *)
(* those posted by reconnect() and stop(), wait in one queue and run in    *)
(* the order they were queued.  Nothing runs once the context is stopped.  *)
(*                                                                         *)
(* A connection goes through the stages below, one operation at a time.    *)
(***************************************************************************)
EXTENDS Integers, Sequences, FiniteSets

CONSTANTS
  max_reconnect_attempts,  \* 0 means retry indefinitely
  initial_backoff,
  max_backoff,
  Prompt,                  \* whether what is queued runs before a wait is over
  MaxCount                 \* bound: counters stay here once they get here

ASSUME SessionAssumption ==
  /\ max_reconnect_attempts \in Nat
  /\ initial_backoff \in Int
  /\ max_backoff \in Nat
  /\ Prompt \in BOOLEAN
  /\ MaxCount \in Nat
  /\ max_reconnect_attempts <= MaxCount

VARIABLE
  session  \* the state of the Impl, and the handlers its io_context owes it

\* The asynchronous operations, in the order a connection performs them.
Stages == <<"resolve", "connect", "tls_handshake", "ws_handshake", "subscribe", "read">>

Operations == {Stages[i] : i \in DOMAIN Stages}

StreamOperations == Operations \ {"resolve"}

\* Those whose handler learns from Beast that its stream is gone.
WebSocketOperations == {"ws_handshake", "subscribe", "read"}

Outcomes == {"done", "failed", "aborted"}

Idle == "idle"

Counted(n) == IF n < MaxCount THEN n + 1 ELSE n

Smaller(a, b) == IF a < b THEN a ELSE b

-----------------------------------------------------------------------------
(***************************************************************************)
(* The steps the handlers are made of, each from one state to the next.    *)
(***************************************************************************)

\* Doubled per attempt until the cap is reached, then clamped to it.
reconnect_backoff(attempt) ==
  LET delay[step \in 0..attempt] ==
        IF step = 0 THEN initial_backoff
        ELSE IF delay[step - 1] >= max_backoff THEN delay[step - 1]
        ELSE 2 * delay[step - 1]
  IN  IF initial_backoff <= 0 THEN 0 ELSE Smaller(delay[attempt], max_backoff)

Queued(s, name, outcome) ==
  [s EXCEPT !.queue = Append(@, [name |-> name, outcome |-> outcome])]

Started(s, operation) == [s EXCEPT !.operation = operation]

\* Faulty: the handlers Beast has already queued keep their success.
WithoutStreamUntold(s) ==
  LET gone == [s EXCEPT !.stream = FALSE]
  IN  IF s.operation \in StreamOperations
      THEN Queued(Started(gone, Idle), s.operation, "aborted")
      ELSE gone

\* stream.reset(): what was in progress on the stream completes with an error,
\* and so does what Beast had completed but not yet handed over.
WithoutStream(s) ==
  LET told == [i \in DOMAIN s.queue |->
                 IF s.queue[i].name \in WebSocketOperations
                 THEN [s.queue[i] EXCEPT !.outcome = "aborted"]
                 ELSE s.queue[i]]
      gone == [s EXCEPT !.stream = FALSE, !.queue = told]
  IN  IF s.operation \in StreamOperations
      THEN Queued(Started(gone, Idle), s.operation, "aborted")
      ELSE gone

GivenUp(s) == [s EXCEPT !.gave_up = TRUE, !.phase = "ended"]

\* Faulty: a wait already armed is left armed.
schedule_reconnectSecondWait(s) ==
  LET torn == WithoutStream(s)
  IN  IF torn.stopping THEN torn
      ELSE IF max_reconnect_attempts # 0 /\ torn.attempt >= max_reconnect_attempts
      THEN GivenUp(torn)
      ELSE [torn EXCEPT !.delay      = reconnect_backoff(torn.attempt),
                        !.attempt    = Counted(@),
                        !.reconnects = Counted(@),
                        !.waits      = @ + 1]

\* Setting the timer again cancels a wait that has not expired.
schedule_reconnect(s) ==
  LET torn == WithoutStream(s)
  IN  IF torn.stopping THEN torn
      ELSE IF max_reconnect_attempts # 0 /\ torn.attempt >= max_reconnect_attempts
      THEN GivenUp(torn)
      ELSE [torn EXCEPT !.delay      = reconnect_backoff(torn.attempt),
                        !.attempt    = Counted(@),
                        !.reconnects = Counted(@),
                        !.waits      = 1]

\* Faulty: the loss is told, and nothing is done about it.
failForgotten(s) == WithoutStream([s EXCEPT !.lost = TRUE])

\* The Disconnected notice, then another attempt.
fail(s) == schedule_reconnect([s EXCEPT !.lost = TRUE])

connect(s) ==
  IF s.trust_store_ready
  THEN Started([WithoutStream(s) EXCEPT !.stream = TRUE], "resolve")
  ELSE GivenUp(s)

-----------------------------------------------------------------------------
(***************************************************************************)
(* What the world does.                                                    *)
(***************************************************************************)

\* A new Impl; its trust store may have failed to load.
Created(trust_store_ready) ==
  [phase             |-> "created",
   trust_store_ready |-> trust_store_ready,
   stream            |-> FALSE,   \* whether there is a stream
   operation         |-> Idle,    \* in progress, its handler owed
   waits             |-> 0,       \* of the retry timer
   delay             |-> 0,       \* of the last wait
   queue             |-> <<>>,
   stopping          |-> FALSE,
   stop_asked        |-> FALSE,
   gave_up           |-> FALSE,
   attempt           |-> 0,
   connections       |-> 0,
   reconnects        |-> 0,
   lost              |-> FALSE]   \* the last handler said Disconnected

Init == \E trust_store_ready \in BOOLEAN : session = Created(trust_store_ready)

run ==
  /\ session.phase = "created"
  /\ session' = connect([session EXCEPT !.phase = "running", !.stopping = FALSE])

Running == session.phase = "running"

\* Every operation ends: the handshakes and an idle connection time out, and
\* name resolution gives up by itself.
OperationEnds ==
  /\ Running
  /\ session.operation # Idle
  /\ \E outcome \in {"done", "failed"} :
        session' = Queued(Started(session, Idle), session.operation, outcome)

\* A wait takes half a second or more, so that the handlers which are queued
\* already normally run before it is over.
TimerExpires ==
  /\ Running
  /\ session.waits > 0
  /\ Prompt => session.queue = <<>>
  /\ session' = Queued([session EXCEPT !.waits = @ - 1], "timer", "done")

\* stop() from the deadline's thread.
stop ==
  /\ ~session.stop_asked
  /\ session' = Queued([session EXCEPT !.stop_asked = TRUE], "stop", "done")

-----------------------------------------------------------------------------
(***************************************************************************)
(* The handlers, each on the first of the queue.                           *)
(***************************************************************************)

Handles(name) ==
  /\ Running
  /\ session.queue # <<>>
  /\ Head(session.queue).name = name

Done == Head(session.queue).outcome = "done"

Taken == [session EXCEPT !.queue = Tail(@), !.lost = FALSE]

OnResolve ==
  /\ Handles("resolve")
  /\ session' = IF Done THEN Started(Taken, "connect") ELSE fail(Taken)

\* SNI or host verification may be impossible to set up; told as a loss too.
OnConnect ==
  /\ Handles("connect")
  /\ \/ Done /\ session' = Started(Taken, "tls_handshake")
     \/ session' = fail(Taken)

\* The request is signed here, and a session that cannot sign gives up.
OnTlsHandshake ==
  /\ Handles("tls_handshake")
  /\ \/ Done /\ session' = Started(Taken, "ws_handshake")
     \/ Done /\ session' = GivenUp(Taken)
     \/ ~Done /\ session' = fail(Taken)

\* Faulty: the connection is not counted.
on_openUncounted(s) == Started([s EXCEPT !.attempt = 0], "subscribe")

on_open(s) ==
  Started([s EXCEPT !.connections = Counted(@), !.attempt = 0], "subscribe")

OnWsHandshake ==
  /\ Handles("ws_handshake")
  /\ session' = IF Done THEN on_open(Taken) ELSE fail(Taken)

OnSubscribe ==
  /\ Handles("subscribe")
  /\ session' = IF Done THEN Started(Taken, "read") ELSE fail(Taken)

\* Faulty: no read follows a message that asks for a reconnect.
on_messageNotRead(asks) ==
  /\ Handles("read")
  /\ Done
  /\ session' = IF asks THEN Taken ELSE Started(Taken, "read")

\* A message, which the event handler may answer with reconnect(); the next
\* read is started whatever it was.
on_message(asks) ==
  /\ Handles("read")
  /\ Done
  /\ session' = Started(IF asks THEN Queued(Taken, "reconnect", "done") ELSE Taken,
                        "read")

OnReadError ==
  /\ Handles("read")
  /\ ~Done
  /\ session' = IF session.stopping THEN Taken ELSE fail(Taken)

\* What reconnect() posted: the backoff starts over and the stream is closed.
OnReconnect ==
  /\ Handles("reconnect")
  /\ session' = IF session.stopping THEN Taken
                ELSE schedule_reconnect([Taken EXCEPT !.attempt = 0])

OnTimer ==
  /\ Handles("timer")
  /\ session' = IF session.stopping THEN Taken ELSE connect(Taken)

\* Faulty: the context is not stopped, as if what is pending would end it.
OnStopContextRuns ==
  /\ Handles("stop")
  /\ session' = [Taken EXCEPT !.stopping = TRUE, !.waits = 0]

\* What stop() posted: the context is stopped, and what is still queued is
\* never run.
OnStop ==
  /\ Handles("stop")
  /\ session' = [Taken EXCEPT !.stopping = TRUE, !.waits = 0, !.phase = "ended"]

Handler ==
  \/ OnResolve
  \/ OnConnect
  \/ OnTlsHandshake
  \/ OnWsHandshake
  \/ OnSubscribe
  \/ \E asks \in BOOLEAN : on_message(asks)
  \/ OnReadError
  \/ OnReconnect
  \/ OnTimer
  \/ OnStop

Next == run \/ OperationEnds \/ TimerExpires \/ stop \/ Handler

(***************************************************************************)
(* The context runs a handler that is ready, every operation is given a    *)
(* timeout, and timers expire; nobody has to call stop().                  *)
(***************************************************************************)
Fairness ==
  /\ WF_session(run)
  /\ WF_session(Handler)
  /\ WF_session(OperationEnds)
  /\ WF_session(TimerExpires)

Spec == Init /\ [][Next]_session /\ Fairness

-----------------------------------------------------------------------------
TypeOK ==
  session \in
    [phase             : {"created", "running", "ended"},
     trust_store_ready : BOOLEAN,
     stream            : BOOLEAN,
     operation         : Operations \cup {Idle},
     waits             : {0, 1},
     delay             : 0..max_backoff,
     queue             : Seq([name    : Operations \cup {"timer", "reconnect", "stop"},
                              outcome : Outcomes]),
     stopping          : BOOLEAN,
     stop_asked        : BOOLEAN,
     gave_up           : BOOLEAN,
     attempt           : 0..MaxCount,
     connections       : 0..MaxCount,
     reconnects        : 0..MaxCount,
     lost              : BOOLEAN]

\* The handlers still owed that carry a connection attempt on.
CarryingOn ==
  {i \in DOMAIN session.queue :
     /\ session.queue[i].name \in Operations \cup {"timer"}
     /\ session.queue[i].outcome # "aborted"}

\* There is one connection, or one attempt at one, however it was lost and
\* whatever was asked meanwhile: never two dials, two waits, or a wait beside a
\* connection that is still being read.
OneAttempt ==
  Cardinality(CarryingOn) + session.waits
    + (IF session.operation = Idle THEN 0 ELSE 1) <= 1

\* A handler that uses the stream runs while there is one: a connection torn
\* down behind a handler's back would be a read of an empty optional.
HandlersFindTheirStream ==
  session.phase = "running" /\ session.queue # <<>> =>
    LET first == Head(session.queue)
    IN  first.name \in Operations /\ first.outcome = "done" => session.stream

\* run() returns when the context is stopped, or has nothing left to wait for.
OutOfWork ==
  session.queue = <<>> /\ session.operation = Idle /\ session.waits = 0

Returned == session.phase = "ended" \/ (session.phase = "running" /\ OutOfWork)

\* A session never ends because nobody remembered to go on: run() returns only
\* after stop() or when the session has said that it gives up.
EndsOnlyWhenTold == Returned => session.stopping \/ session.gave_up

\* A loss is followed by another dial, whatever happens meanwhile, unless the
\* session gives up or is stopped.
LossIsRedialled ==
  (session.phase = "running" /\ session.lost)
    ~> (session.operation = "resolve" \/ session.stopping \/ session.gave_up)

\* stop() ends run() from every stage of a connection and of a retry.
StopEnds == session.stop_asked ~> Returned

\* "A requested reconnect is not a failure, so the backoff ladder starts over"
\* (ws_session.cpp:426): the read it aborts does not move it on to the next rung.
RequestStartsOver ==
  [][Handles("read") /\ Head(session.queue).outcome = "aborted"
       => session'.delay = reconnect_backoff(0)]_session
=============================================================================
