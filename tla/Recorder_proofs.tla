---------------------------- MODULE Recorder_proofs ----------------------------
(***************************************************************************)
(* A recording and its connection: proofs about Recorder for every value   *)
(* of its constants.                                                       *)
(***************************************************************************)
EXTENDS Recorder, Session_proofs

-----------------------------------------------------------------------------
(***************************************************************************)
(* The inductive invariant.                                                *)
(***************************************************************************)
Owes(s, names) == \E i \in 1..Len(s.queue) : s.queue[i].name \in names

\* More of a session: the handler of one operation is owed at most, and a wait
\* is for a connection that has been torn down.
Orderly(s) ==
  s.phase = "running" =>
    /\ \A i, j \in 1..Len(s.queue) :
          s.queue[i].name \in Operations /\ s.queue[j].name \in Operations => i = j
    /\ s.operation # Idle => ~Owes(s, Operations)
    /\ s.waits # 0 \/ Owes(s, {"timer"}) => ~s.stream

\* The connection is open, or was and its loss has not been handled.
Opened(s) == s.operation \in {"subscribe", "read"} \/ Owes(s, {"subscribe", "read"})

\* A message of the current connection is followed by messages only.
CurrentIsUnbroken ==
  \A i, k \in 1..Len(journal) :
     /\ i < k
     /\ journal[i].kind = "Message"
     /\ journal[i].connection = session.connections
     => journal[k].kind = "Message"

Begun ==
  /\ session.phase = "created" =>
       /\ venue = NothingSent
       /\ state = NewState
       /\ journal = <<>>
       /\ session.connections = 0
  /\ ~session.stream => venue = NothingSent

\* No number is shifted for a valid book, and no reconnect is owed to it.
Current ==
  /\ BookIsCurrent
  /\ IsValid(state) => collect.sequence_shift = 0 /\ ~collect.recovery_requested
  /\ session.phase = "running" /\ Owes(session, {"reconnect"}) => ~IsValid(state)

\* Each connection after the first follows a loss that is journalled, so that the
\* connections that are counted are told apart.
Numbered ==
  /\ \A i \in 1..Len(journal) : journal[i].connection \in 0..session.connections
  /\ session.phase = "running" =>
       session.connections + (IF Opened(session) THEN 0 ELSE 1) <= Len(journal)
  /\ session.phase = "running" /\ Opened(session) => CurrentIsUnbroken
  /\ SameConnectionIsUnbroken

Collects ==
  [recording : Recordings, recovery_requested : BOOLEAN, delta_count : Nat,
   sequence_shift : {0, 1}, messages_received : Nat, parse_failures : Nat]

\* RecorderTypeOK, but for the session.
Typed ==
  /\ venue \in [sequence : Nat, missed : BOOLEAN]
  /\ clock \in Int
  /\ state \in States(Grid)
  /\ collect \in Collects
  /\ \E S : journal \in Seq(S)
  /\ Len(journal) <= MaxRecords
  /\ \A i \in 1..Len(journal) : journal[i].kind \in RecordKinds
  /\ finished \in BOOLEAN

RInv ==
  /\ Sound(session)
  /\ Orderly(session)
  /\ Typed
  /\ Begun
  /\ Current
  /\ Numbered

-----------------------------------------------------------------------------
(***************************************************************************)
(* What the steps of the session do to its connection.                     *)
(***************************************************************************)

\* The next operation of a connection begins, or it is open.
Advances ==
  /\ session.stream /\ session'.stream
  /\ session'.phase = "running"
  /\ ~session'.lost
  /\ ~Owes(session, {"reconnect"}) /\ ~Owes(session', {"reconnect"})
  /\ \/ /\ Opened(session) <=> Opened(session')
        /\ session'.connections = session.connections
     \/ /\ ~Opened(session) /\ Opened(session')
        /\ session'.connections = Counted(session.connections)

\* A connection is lost, and the loss told.
Loses ==
  /\ session'.lost
  /\ ~session'.stream
  /\ session'.connections = session.connections
  /\ ~Opened(session') /\ ~Owes(session', {"reconnect"})

\* A connection is torn down as was asked, and its loss is still to be told.
TearsDown ==
  /\ Owes(session, {"reconnect"}) /\ ~Owes(session', {"reconnect"})
  /\ ~session'.lost
  /\ ~session'.stream
  /\ session'.connections = session.connections
  /\ Opened(session) <=> Opened(session')

\* Another connection is begun.
Dials ==
  /\ ~session.stream
  /\ ~session'.lost
  /\ session'.connections = session.connections
  /\ ~Opened(session) /\ ~Opened(session')
  /\ ~Owes(session, {"reconnect"}) /\ ~Owes(session', {"reconnect"})

\* The session is over.
Ends ==
  /\ session'.phase = "ended"
  /\ ~session'.lost
  /\ session'.stream = session.stream
  /\ session'.connections = session.connections

LEMMA QueuedOwes ==
  ASSUME NEW s \in Sessions,
         NEW name \in Operations \cup {"timer", "reconnect", "stop"}, NEW outcome \in Outcomes,
         NEW names
  PROVE  Owes(Queued(s, name, outcome), names) <=> Owes(s, names) \/ name \in names
<1> DEFINE t == Queued(s, name, outcome)
<1>1. /\ t.queue = Append(s.queue, [name |-> name, outcome |-> outcome])
      /\ Len(t.queue) = Len(s.queue) + 1
  BY QueuedFacts DEF Queued, Sessions
<1>2. s.queue \in Seq(Owed) /\ Len(s.queue) \in Nat
  BY DEF Sessions
<1>3. /\ \A i \in 1..Len(s.queue) : t.queue[i].name = s.queue[i].name
      /\ t.queue[Len(s.queue) + 1].name = name
  BY <1>1, <1>2
<1> HIDE DEF t
<1>4. CASE name \in names
  BY <1>1, <1>2, <1>3, <1>4 DEF Owes, t
<1>5. CASE name \notin names
  <2>1. ASSUME NEW i \in 1..Len(t.queue), t.queue[i].name \in names
        PROVE  i \in 1..Len(s.queue)
    BY <1>1, <1>2, <1>3, <1>5, <2>1
  <2>2. \A i \in 1..Len(s.queue) : i \in 1..Len(t.queue)
    BY <1>1, <1>2
  <2> QED BY <1>3, <1>5, <2>1, <2>2 DEF Owes, t
<1> QED BY <1>4, <1>5

LEMMA ScheduledFacts ==
  ASSUME NEW s \in Sessions
  PROVE  LET t == schedule_reconnect(s)
             torn == WithoutStream(s)
         IN  /\ ~t.stream
             /\ t.queue = torn.queue
             /\ t.operation = torn.operation
             /\ t.connections = s.connections
             /\ t.lost = s.lost
<1> DEFINE torn == WithoutStream(s)
           more == s.operation \in StreamOperations
<1>1. /\ torn \in Sessions
      /\ torn = [s EXCEPT !.stream = FALSE, !.queue = torn.queue,
                          !.operation = IF more THEN Idle ELSE s.operation]
  BY WithoutStreamFacts
<1> HIDE DEF torn, more
<1>2. ~torn.stream /\ torn.connections = s.connections /\ torn.lost = s.lost
  BY <1>1 DEF Sessions
<1> QED BY <1>1, <1>2 DEF schedule_reconnect, GivenUp, Sessions, torn

\* All that is owed is stop().
StopsOnly(s) == \A i \in 1..Len(s.queue) : s.queue[i].name = "stop"

LEMMA StopsOwe ==
  ASSUME NEW s, StopsOnly(s)
  PROVE  ~Owes(s, Operations) /\ ~Owes(s, {"timer"}) /\ ~Owes(s, {"reconnect"})
         /\ ~Owes(s, {"subscribe", "read"})
BY Names DEF StopsOnly, Owes

\* Nothing but stop() is owed beside the handler of an operation.
LEMMA AfterOperation ==
  ASSUME Sound(session), Orderly(session), session.phase = "running", session.queue # <<>>,
         Head(session.queue).name \in Operations
  PROVE  /\ Spent(Taken)
         /\ Done => Free(Taken) /\ Taken.stream /\ session.waits = 0
         /\ StopsOnly(Taken)
         /\ session.operation = Idle
         /\ Taken.stream = session.stream
         /\ Taken.connections = session.connections
         /\ ~Taken.lost
         /\ ~Owes(session, {"reconnect"})
         /\ Opened(session) <=> Head(session.queue).name \in {"subscribe", "read"}
<1>1. session \in Sessions
  BY DEF Sound
<1>2. /\ Taken = [session EXCEPT !.queue = Taken.queue, !.lost = FALSE]
      /\ Head(session.queue) = session.queue[1]
      /\ Len(session.queue) \in Nat \ {0}
      /\ Len(Taken.queue) = Len(session.queue) - 1
      /\ \A i \in 1..Len(Taken.queue) : Taken.queue[i] = session.queue[i + 1]
  BY <1>1, TakenFacts
<1>3. Spent(Taken) /\ (Done => Free(Taken) /\ Taken.stream)
  BY OperationHead
<1> HIDE DEF Taken
<1>4. /\ Taken.stream = session.stream
      /\ Taken.connections = session.connections
      /\ Taken.operation = session.operation
      /\ Taken.waits = session.waits
      /\ ~Taken.lost
  BY <1>1, <1>2 DEF Sessions
<1>5. \A i \in 2..Len(session.queue) : session.queue[i].name = "stop"
  <2> SUFFICES ASSUME NEW i \in 2..Len(session.queue)
               PROVE  session.queue[i].name = "stop"
    OBVIOUS
  <2>1. i \in 1..Len(session.queue) /\ 1 \in 1..Len(session.queue) /\ i # 1
    BY <1>2
  <2>2. session.queue[i].name \notin Operations
    BY <1>2, <2>1 DEF Orderly
  <2>3. i - 1 \in 1..Len(Taken.queue) /\ Taken.queue[i - 1] = session.queue[i]
    BY <1>2, <2>1
  <2> QED BY <1>3, <2>2, <2>3 DEF Spent
<1>6. StopsOnly(Taken)
  <2> SUFFICES ASSUME NEW i \in 1..Len(Taken.queue)
               PROVE  Taken.queue[i].name = "stop"
    BY DEF StopsOnly
  <2>1. i + 1 \in 2..Len(session.queue)
    BY <1>2
  <2> QED BY <1>2, <1>5, <2>1
<1>7. session.operation = Idle
  BY <1>3, <1>4 DEF Spent
<1>8. \A i \in 1..Len(session.queue) :
         session.queue[i].name = "stop" \/ i = 1
  BY <1>2, <1>5
<1>9. ~Owes(session, {"reconnect"})
  BY <1>2, <1>8, Names DEF Owes
<1>10. Opened(session) <=> Head(session.queue).name \in {"subscribe", "read"}
  BY <1>2, <1>7, <1>8, Names DEF Opened, Owes, Idle
<1> QED BY <1>3, <1>4, <1>6, <1>7, <1>9, <1>10 DEF Free

\* The next operation is started.
LEMMA AdvancesTo ==
  ASSUME NEW s \in Sessions, StopsOnly(s), s.waits = 0, NEW operation \in Operations
  PROVE  LET t == Started(s, operation)
         IN  /\ Orderly(t)
             /\ t.phase = s.phase
             /\ t.stream = s.stream
             /\ t.lost = s.lost
             /\ t.connections = s.connections
             /\ ~Owes(t, {"reconnect"})
             /\ Opened(t) <=> operation \in {"subscribe", "read"}
<1> DEFINE t == Started(s, operation)
<1>1. /\ t.phase = s.phase
      /\ t.stream = s.stream
      /\ t.lost = s.lost
      /\ t.connections = s.connections
      /\ t.operation = operation
      /\ t.waits = 0
      /\ t.queue = s.queue
  BY DEF Started, Sessions
<1> HIDE DEF t
<1>2. StopsOnly(t)
  BY <1>1 DEF StopsOnly
<1>3. Orderly(t)
  BY <1>1, <1>2, StopsOwe, Names DEF Orderly, StopsOnly
<1> QED BY <1>1, <1>2, <1>3, StopsOwe DEF Opened, t

\* What is spent fails.
LEMMA FailFacts ==
  ASSUME NEW s, Spent(s), StopsOnly(s)
  PROVE  LET t == fail(s)
         IN  /\ Orderly(t)
             /\ t.lost
             /\ ~t.stream
             /\ t.connections = s.connections
             /\ ~Opened(t) /\ ~Owes(t, {"reconnect"})
<1> DEFINE u == [s EXCEPT !.lost = TRUE]
           torn == WithoutStream(u)
           t == fail(s)
<1>1. /\ u \in Sessions
      /\ u.lost
      /\ u.operation = Idle
      /\ u.connections = s.connections
      /\ u.queue = s.queue
  BY DEF Spent, Sessions
<1>2. t = schedule_reconnect(u)
  BY DEF fail
<1> HIDE DEF u, t
<1>3. /\ ~t.stream
      /\ t.queue = torn.queue
      /\ t.operation = torn.operation
      /\ t.connections = u.connections
      /\ t.lost = u.lost
  BY <1>1, <1>2, ScheduledFacts
<1>4. Idle \notin StreamOperations
  BY Names
<1>5. /\ torn.operation = Idle
      /\ Len(torn.queue) = Len(u.queue)
      /\ \A i \in 1..Len(u.queue) : torn.queue[i].name = u.queue[i].name
  <2>1. u.operation \notin StreamOperations
    BY <1>1, <1>4
  <2>2. torn = [u EXCEPT !.stream = FALSE, !.queue = torn.queue, !.operation = u.operation]
    BY <1>1, <2>1, WithoutStreamFacts
  <2>3. /\ Len(torn.queue) = Len(u.queue)
        /\ \A i \in 1..Len(u.queue) : torn.queue[i].name = u.queue[i].name
    BY <1>1, <2>1, WithoutStreamFacts
  <2> HIDE DEF torn
  <2> QED BY <1>1, <2>2, <2>3 DEF Sessions
<1> HIDE DEF torn
<1>6. StopsOnly(t)
  BY <1>1, <1>3, <1>5 DEF StopsOnly
<1>7. Orderly(t)
  BY <1>3, <1>5, <1>6, StopsOwe, Names DEF Orderly, StopsOnly
<1>8. ~Opened(t)
  BY <1>3, <1>5, <1>6, StopsOwe DEF Opened, Idle
<1> QED BY <1>1, <1>3, <1>6, <1>7, <1>8, StopsOwe DEF t

\* What was asked for is done: the read that is torn down is still to be told.
LEMMA ReconnectFacts ==
  ASSUME Sound(session), Orderly(session), OnReconnect
  PROVE  Orderly(session') /\ TearsDown
<1> DEFINE asked == [Taken EXCEPT !.attempt = 0]
           torn == WithoutStream(asked)
           more == asked.operation \in StreamOperations
<1>1. /\ session \in Sessions
      /\ session.phase = "running"
      /\ session.queue # <<>>
      /\ Head(session.queue).name = "reconnect"
      /\ ~session.stopping
  BY DEF Sound, OnReconnect, Handles, Running
<1>2. /\ Taken \in Sessions
      /\ Taken = [session EXCEPT !.queue = Taken.queue, !.lost = FALSE]
      /\ Head(session.queue) = session.queue[1]
      /\ Len(session.queue) \in Nat \ {0}
      /\ Len(Taken.queue) = Len(session.queue) - 1
      /\ \A i \in 1..Len(Taken.queue) : Taken.queue[i] = session.queue[i + 1]
  BY <1>1, TakenFacts
<1>3. 1 \in 1..Len(session.queue) /\ session.queue[1].name = "reconnect"
  BY <1>1, <1>2
<1>4. ReconnectFindsTheRead(session)
  BY <1>1 DEF Sound
<1>5. /\ session.operation \in {Idle, "read"}
      /\ session.waits = 0
      /\ \A i \in 1..Len(session.queue) : session.queue[i].name \in {"stop", "reconnect", "read"}
  BY <1>3, <1>4 DEF ReconnectFindsTheRead
<1>6. \A i \in 2..Len(session.queue) : session.queue[i].name \in {"stop", "read"}
  <2> SUFFICES ASSUME NEW i \in 2..Len(session.queue), session.queue[i].name = "reconnect"
               PROVE  FALSE
    BY <1>2, <1>5
  <2>1. i \in 1..Len(session.queue) /\ 1 \in 1 .. i - 1
    BY <1>2
  <2> QED BY <1>3, <1>4, <2>1 DEF ReconnectFindsTheRead
<1>7. session' = schedule_reconnect(asked)
  BY <1>1 DEF OnReconnect
<1> HIDE DEF Taken
<1>8. /\ asked \in Sessions
      /\ asked.queue = Taken.queue
      /\ asked.operation = session.operation
      /\ asked.connections = session.connections
      /\ ~asked.lost
  <2>1. 0 \in 0..MaxCount
    BY SessionAssumption
  <2> QED BY <1>1, <1>2, <2>1 DEF Sessions
<1> HIDE DEF asked
<1>9. /\ ~session'.stream
      /\ session'.queue = torn.queue
      /\ session'.operation = torn.operation
      /\ session'.connections = asked.connections
      /\ session'.lost = asked.lost
  BY <1>7, <1>8, ScheduledFacts
<1>10. /\ torn = [asked EXCEPT !.stream = FALSE, !.queue = torn.queue,
                              !.operation = IF more THEN Idle ELSE asked.operation]
       /\ Len(torn.queue) = IF more THEN Len(Taken.queue) + 1 ELSE Len(Taken.queue)
       /\ \A i \in 1..Len(Taken.queue) : torn.queue[i].name = Taken.queue[i].name
       /\ more => torn.queue[Len(Taken.queue) + 1].name = asked.operation
  <2>1. /\ torn = [asked EXCEPT !.stream = FALSE, !.queue = torn.queue,
                               !.operation = IF more THEN Idle ELSE asked.operation]
        /\ Len(torn.queue) = IF more THEN Len(asked.queue) + 1 ELSE Len(asked.queue)
        /\ \A i \in 1..Len(asked.queue) : torn.queue[i].name = asked.queue[i].name
        /\ more => torn.queue[Len(asked.queue) + 1]
                     = [name |-> asked.operation, outcome |-> "aborted"]
    BY <1>8, WithoutStreamFacts
  <2> HIDE DEF torn, more
  <2> QED BY <1>8, <2>1
<1> HIDE DEF torn
<1>11. torn.operation = Idle
  <2>1. "read" \in StreamOperations
    BY Names
  <2> HIDE DEF more
  <2>2. torn.operation = IF more THEN Idle ELSE asked.operation
    BY <1>8, <1>10 DEF Sessions
  <2> QED BY <1>5, <1>8, <2>1, <2>2 DEF more
<1>12. more <=> session.operation = "read"
  BY <1>5, <1>8, Names
<1> HIDE DEF more
<1>13. \A i \in 1..Len(Taken.queue) :
          /\ i + 1 \in 1..Len(session.queue)
          /\ torn.queue[i].name = session.queue[i + 1].name
          /\ torn.queue[i].name \in {"stop", "read"}
  BY <1>2, <1>6, <1>10, SMTT(60)
<1>14. \A i \in 1..Len(torn.queue) :
          \/ i \in 1..Len(Taken.queue)
          \/ more /\ i = Len(Taken.queue) + 1 /\ torn.queue[i].name = "read"
  BY <1>2, <1>8, <1>10, <1>12
<1>15. ~Owes(session', {"reconnect"}) /\ ~Owes(session', {"timer"})
  BY <1>9, <1>13, <1>14 DEF Owes
<1>16. Opened(session) <=> Opened(session')
  <2>1. ASSUME Opened(session)
        PROVE  Owes(session', {"subscribe", "read"})
    <3>1. CASE session.operation = "read"
      <4>1. Len(torn.queue) \in 1..Len(torn.queue) /\ torn.queue[Len(torn.queue)].name = "read"
        BY <1>2, <1>8, <1>10, <1>12, <3>1
      <4> QED BY <1>9, <4>1 DEF Owes
    <3>2. CASE session.operation # "read"
      <4>1. PICK i \in 1..Len(session.queue) : session.queue[i].name \in {"subscribe", "read"}
        BY <1>5, <2>1, <3>2 DEF Opened, Owes, Idle
      <4>2. i # 1
        BY <1>3, <4>1
      <4>3. i - 1 \in 1..Len(Taken.queue) /\ i - 1 \in 1..Len(torn.queue)
        BY <1>2, <1>10, <4>2
      <4>4. torn.queue[i - 1].name = session.queue[i].name
        BY <1>13, <4>3
      <4> QED BY <1>9, <4>1, <4>3, <4>4 DEF Owes
    <3> QED BY <3>1, <3>2
  <2>2. ASSUME Opened(session')
        PROVE  Opened(session)
    <3>1. PICK i \in 1..Len(torn.queue) : torn.queue[i].name \in {"subscribe", "read"}
      BY <1>9, <1>11, <2>2 DEF Opened, Owes, Idle
    <3>2. CASE i \in 1..Len(Taken.queue)
      BY <1>13, <3>1, <3>2 DEF Opened, Owes
    <3>3. CASE i \notin 1..Len(Taken.queue)
      BY <1>12, <1>14, <3>3 DEF Opened
    <3> QED BY <3>2, <3>3
  <2> QED BY <2>1, <2>2 DEF Opened
<1>17. Orderly(session')
  <2>1. ASSUME NEW i \in 1..Len(torn.queue), NEW j \in 1..Len(torn.queue),
               torn.queue[i].name \in Operations, torn.queue[j].name \in Operations
        PROVE  i = j
    <3>1. \A k \in 1..Len(Taken.queue) : torn.queue[k].name \in Operations =>
             /\ session.queue[k + 1].name \in Operations
             /\ ~more
      <4> SUFFICES ASSUME NEW k \in 1..Len(Taken.queue), torn.queue[k].name \in Operations
                   PROVE  session.queue[k + 1].name \in Operations /\ ~more
        OBVIOUS
      <4>1. session.queue[k + 1].name \in Operations
        BY <1>13
      <4>2. session.operation = Idle
        BY <1>1, <1>13, <4>1 DEF Orderly, Owes
      <4> QED BY <1>12, <4>1, <4>2, Names
    <3>2. CASE more
      BY <1>14, <2>1, <3>1, <3>2
    <3>3. CASE ~more
      <4>1. i \in 1..Len(Taken.queue) /\ j \in 1..Len(Taken.queue)
        BY <1>14, <3>3
      <4>2. i + 1 = j + 1
        BY <1>1, <1>13, <2>1, <3>1, <4>1 DEF Orderly
      <4> QED BY <4>1, <4>2
    <3> QED BY <3>2, <3>3
  <2> QED BY <1>9, <1>11, <2>1 DEF Orderly
<1>18. Owes(session, {"reconnect"})
  BY <1>3 DEF Owes
<1> QED BY <1>8, <1>9, <1>15, <1>16, <1>17, <1>18 DEF TearsDown

LEMMA TimerFacts ==
  ASSUME Sound(session), Orderly(session), OnTimer
  PROVE  Orderly(session') /\ Dials
<1>1. /\ session \in Sessions
      /\ session.phase = "running"
      /\ session.queue # <<>>
      /\ Head(session.queue).name = "timer"
      /\ ~session.stopping
      /\ session' = connect(Taken)
  BY DEF Sound, OnTimer, Handles, Running
<1>2. /\ Taken = [session EXCEPT !.queue = Taken.queue, !.lost = FALSE]
      /\ Head(session.queue) = session.queue[1]
      /\ Len(session.queue) \in Nat \ {0}
      /\ Len(Taken.queue) = Len(session.queue) - 1
      /\ \A i \in 1..Len(Taken.queue) : Taken.queue[i] = session.queue[i + 1]
      /\ 1 \in 1..Len(session.queue)
  BY <1>1, TakenFacts
<1>3. Free(Taken)
  <2>1. session.queue[1].outcome # "aborted"
    BY <1>1, <1>2, Names DEF Sound, AbortedIsWaitedFor
  <2> QED BY <1>1, <1>2, <2>1, LiveHead DEF Carries
<1> HIDE DEF Taken
<1>4. /\ Taken \in Sessions
      /\ Taken.connections = session.connections
      /\ Taken.operation = session.operation
      /\ ~Taken.lost
      /\ Taken.stream = session.stream
      /\ Taken.operation = Idle
      /\ Taken.waits = 0
      /\ StopsOnly(Taken)
  BY <1>1, <1>2, <1>3 DEF Sessions, Free, StopsOnly
<1>5. ~session.stream
  BY <1>1, <1>2 DEF Orderly, Owes
<1>6. \A i \in 1..Len(session.queue) : session.queue[i].name \in {"timer", "stop"}
  <2> SUFFICES ASSUME NEW i \in 2..Len(session.queue)
               PROVE  session.queue[i].name = "stop"
    BY <1>1, <1>2
  <2>1. i - 1 \in 1..Len(Taken.queue) /\ Taken.queue[i - 1] = session.queue[i]
    BY <1>2
  <2> QED BY <1>4, <2>1 DEF StopsOnly
<1>7. ~Owes(session, {"reconnect"}) /\ ~Opened(session)
  BY <1>4, <1>6 DEF Owes, Opened, Idle
<1>8. CASE ~Taken.trust_store_ready
  <2>1. session' = GivenUp(Taken)
    BY <1>1, <1>8 DEF connect
  <2>2. /\ session'.phase = "ended"
        /\ session'.queue = Taken.queue
        /\ session'.operation = Idle
        /\ session'.lost = Taken.lost
        /\ session'.connections = Taken.connections
    BY <1>4, <2>1 DEF GivenUp, Sessions
  <2>3. StopsOnly(session')
    BY <1>4, <2>2 DEF StopsOnly
  <2> QED BY <1>4, <1>5, <1>7, <2>2, <2>3, StopsOwe DEF Orderly, Dials, Opened, Idle
<1>9. CASE Taken.trust_store_ready
  <2> DEFINE torn == WithoutStream(Taken)
             u == [torn EXCEPT !.stream = TRUE]
  <2>1. /\ torn \in Sessions
        /\ torn = [Taken EXCEPT !.stream = FALSE, !.queue = torn.queue,
                               !.operation = Taken.operation]
        /\ Len(torn.queue) = Len(Taken.queue)
        /\ \A i \in 1..Len(Taken.queue) : torn.queue[i].name = Taken.queue[i].name
    <3>1. Taken.operation \notin StreamOperations
      BY <1>4, Names
    <3> QED BY <1>4, <3>1, WithoutStreamFacts
  <2> HIDE DEF torn
  <2>2. /\ u \in Sessions
        /\ u.queue = torn.queue
        /\ u.waits = 0
        /\ u.connections = Taken.connections
        /\ u.lost = Taken.lost
    BY <1>4, <2>1 DEF Sessions
  <2>3. session' = Started(u, "resolve")
    BY <1>1, <1>9 DEF connect, torn
  <2> HIDE DEF u
  <2>4. StopsOnly(u)
    BY <1>4, <2>1, <2>2 DEF StopsOnly
  <2>5. /\ Orderly(session')
        /\ session'.lost = u.lost
        /\ session'.connections = u.connections
        /\ ~Owes(session', {"reconnect"})
        /\ ~Opened(session')
    BY <2>2, <2>3, <2>4, AdvancesTo, Names
  <2> QED BY <1>4, <1>5, <1>7, <2>2, <2>5 DEF Dials
<1> QED BY <1>8, <1>9

OtherHandlers ==
  \/ OnResolve
  \/ OnConnect
  \/ OnTlsHandshake
  \/ OnWsHandshake
  \/ OnSubscribe
  \/ OnReadError
  \/ OnReconnect
  \/ OnTimer
  \/ OnStop

\* Whatever handler it is but that of a message, it does one of five things.
LEMMA HandlerFacts ==
  ASSUME Sound(session), Orderly(session), OtherHandlers
  PROVE  Orderly(session') /\ (Advances \/ Loses \/ TearsDown \/ Dials \/ Ends)
<1>1. /\ session \in Sessions
      /\ session.phase = "running"
      /\ ~session.stopping
      /\ session.queue # <<>>
  BY DEF Sound, OtherHandlers, Handles, Running, OnResolve, OnConnect, OnTlsHandshake,
     OnWsHandshake, OnSubscribe, OnReadError, OnReconnect, OnTimer, OnStop
<1>2. ASSUME Head(session.queue).name \in Operations
      PROVE  /\ session' = fail(Taken) => Orderly(session') /\ Loses
             /\ \A operation \in Operations :
                   /\ Done
                   /\ session' = Started(Taken, operation)
                   /\ Opened(session) <=> operation \in {"subscribe", "read"}
                   => Orderly(session') /\ Advances
             /\ Done /\ session' = GivenUp(Taken) => Orderly(session') /\ Ends
             /\ Done /\ session' = on_open(Taken) /\ ~Opened(session)
                  => Orderly(session') /\ Advances
  <2>1. /\ Spent(Taken)
        /\ Done => Free(Taken) /\ Taken.stream /\ session.waits = 0
        /\ StopsOnly(Taken)
        /\ Taken.stream = session.stream
        /\ Taken.connections = session.connections
        /\ ~Taken.lost
        /\ ~Owes(session, {"reconnect"})
    BY <1>1, <1>2, AfterOperation
  <2> HIDE DEF Taken, Done
  <2>2. Taken \in Sessions /\ Taken.phase = "running"
    BY <2>1 DEF Spent
  <2>3. ASSUME session' = fail(Taken)
        PROVE  Orderly(session') /\ Loses
    BY <2>1, <2>3, FailFacts DEF Loses
  <2>4. ASSUME NEW operation \in Operations, Done,
               session' = Started(Taken, operation),
               Opened(session) <=> operation \in {"subscribe", "read"}
        PROVE  Orderly(session') /\ Advances
    <3>1. Taken.waits = 0
      BY <2>1, <2>4 DEF Free
    <3>2. /\ Orderly(session')
          /\ session'.phase = Taken.phase
          /\ session'.stream = Taken.stream
          /\ session'.lost = Taken.lost
          /\ session'.connections = Taken.connections
          /\ ~Owes(session', {"reconnect"})
          /\ Opened(session') <=> operation \in {"subscribe", "read"}
      BY <2>1, <2>2, <2>4, <3>1, AdvancesTo
    <3> QED BY <2>1, <2>2, <2>4, <3>2 DEF Advances
  <2>5. ASSUME session' = GivenUp(Taken)
        PROVE  Orderly(session') /\ Ends
    <3>1. /\ session'.phase = "ended"
          /\ session'.stream = Taken.stream
          /\ session'.lost = Taken.lost
          /\ session'.connections = Taken.connections
      BY <2>2, <2>5 DEF GivenUp, Sessions
    <3> QED BY <2>1, <3>1 DEF Orderly, Ends
  <2>6. ASSUME Done, session' = on_open(Taken), ~Opened(session)
        PROVE  Orderly(session') /\ Advances
    <3> DEFINE u == [Taken EXCEPT !.connections = Counted(Taken.connections), !.attempt = 0]
    <3>1. Counted(Taken.connections) \in 0..MaxCount /\ 0 \in 0..MaxCount
      BY <2>2, CountedType, SessionAssumption DEF Sessions
    <3>2. /\ u \in Sessions
          /\ u.phase = Taken.phase
          /\ u.stream = Taken.stream
          /\ u.lost = Taken.lost
          /\ u.waits = Taken.waits
          /\ u.connections = Counted(Taken.connections)
          /\ u.queue = Taken.queue
      BY <2>2, <3>1 DEF Sessions
    <3>3. session' = Started(u, "subscribe")
      BY <2>6 DEF on_open
    <3> HIDE DEF u
    <3>4. StopsOnly(u) /\ u.waits = 0
      BY <2>1, <2>6, <3>2 DEF StopsOnly, Free
    <3>5. /\ Orderly(session')
          /\ session'.phase = u.phase
          /\ session'.stream = u.stream
          /\ session'.lost = u.lost
          /\ session'.connections = u.connections
          /\ ~Owes(session', {"reconnect"})
          /\ Opened(session')
      BY <3>2, <3>3, <3>4, AdvancesTo, Names
    <3> QED BY <2>1, <2>2, <2>6, <3>2, <3>5 DEF Advances
  <2> QED BY <2>3, <2>4, <2>5, <2>6
<1>3. ASSUME Head(session.queue).name \in Operations
      PROVE  Opened(session) <=> Head(session.queue).name \in {"subscribe", "read"}
  BY <1>1, <1>3, AfterOperation
<1>4. CASE OnResolve
  BY <1>2, <1>3, <1>4, Names DEF OnResolve, Handles
<1>5. CASE OnConnect
  BY <1>2, <1>3, <1>5, Names DEF OnConnect, Handles
<1>6. CASE OnTlsHandshake
  BY <1>2, <1>3, <1>6, Names DEF OnTlsHandshake, Handles
<1>7. CASE OnWsHandshake
  BY <1>2, <1>3, <1>7, Names DEF OnWsHandshake, Handles
<1>8. CASE OnSubscribe
  BY <1>2, <1>3, <1>8, Names DEF OnSubscribe, Handles
<1>9. CASE OnReadError
  BY <1>1, <1>2, <1>9, Names DEF OnReadError, Handles
<1>10. CASE OnReconnect
  BY <1>10, ReconnectFacts
<1>11. CASE OnTimer
  BY <1>11, TimerFacts
<1>12. CASE OnStop
  <2>1. /\ session'.phase = "ended"
        /\ session'.stream = session.stream
        /\ session'.connections = session.connections
        /\ ~session'.lost
    BY <1>1, <1>12 DEF OnStop, Taken, Sessions
  <2> QED BY <2>1 DEF Orderly, Ends
<1> QED BY <1>4, <1>5, <1>6, <1>7, <1>8, <1>9, <1>10, <1>11, <1>12 DEF OtherHandlers

\* What the world does leaves the connection as it is.
LEMMA WorldFacts ==
  ASSUME Prompt, Sound(session), Orderly(session), OperationEnds \/ TimerExpires \/ stop
  PROVE  /\ Orderly(session')
         /\ session'.phase = session.phase
         /\ session'.stream = session.stream
         /\ session'.connections = session.connections
         /\ session.phase = "running" => (Opened(session') <=> Opened(session))
         /\ Owes(session', {"reconnect"}) <=> Owes(session, {"reconnect"})
<1>0. session \in Sessions
  BY DEF Sound
<1>1. CASE OperationEnds
  <2> DEFINE s == Started(session, Idle)
  <2>1. PICK outcome \in {"done", "failed"} : session' = Queued(s, session.operation, outcome)
    BY <1>1 DEF OperationEnds
  <2>2. /\ session.phase = "running"
        /\ session.operation \in Operations
        /\ outcome \in Outcomes
    BY <1>0, <1>1 DEF OperationEnds, Running, Sessions, Outcomes
  <2>3. /\ s \in Sessions
        /\ s.phase = session.phase
        /\ s.stream = session.stream
        /\ s.connections = session.connections
        /\ s.queue = session.queue
        /\ s.waits = session.waits
        /\ s.operation = Idle
    BY <1>0 DEF Started, Sessions
  <2> HIDE DEF s
  <2>4. /\ session' = [s EXCEPT !.queue = Append(s.queue, [name |-> session.operation,
                                                          outcome |-> outcome])]
        /\ \A names : Owes(session', names) <=> Owes(s, names) \/ session.operation \in names
    BY <2>1, <2>2, <2>3, QueuedFacts, QueuedOwes, ZenonT(60)
  <2>5. /\ session'.phase = s.phase
        /\ session'.stream = s.stream
        /\ session'.connections = s.connections
        /\ session'.waits = s.waits
        /\ session'.operation = s.operation
        /\ session'.queue = Append(s.queue, [name |-> session.operation, outcome |-> outcome])
    BY <2>3, <2>4 DEF Sessions
  <2>6. \A names : Owes(s, names) <=> Owes(session, names)
    BY <2>3 DEF Owes
  <2>7. ~Owes(session, Operations)
    BY <2>2, Names DEF Orderly
  <2>8. /\ Len(session'.queue) = Len(session.queue) + 1
        /\ \A i \in 1..Len(session.queue) : session'.queue[i] = session.queue[i]
    <3>1. session.queue \in Seq(Owed)
      BY <1>0 DEF Sessions
    <3> QED BY <2>3, <2>5, <3>1
  <2>9. Orderly(session')
    <3>1. ASSUME NEW i \in 1..Len(session'.queue), session'.queue[i].name \in Operations
          PROVE  i = Len(session.queue) + 1
      <4>1. Len(session.queue) \in Nat
        BY <1>0 DEF Sessions
      <4> QED BY <2>7, <2>8, <3>1, <4>1 DEF Owes
    <3>2. session'.operation = Idle
      BY <2>3, <2>5
    <3>3. Owes(session', {"timer"}) <=> Owes(session, {"timer"})
      BY <2>2, <2>4, <2>6, Names
    <3> QED BY <2>2, <2>3, <2>5, <3>1, <3>2, <3>3 DEF Orderly
  <2>10. Opened(session') <=> Opened(session)
    <3>1. Owes(session', {"subscribe", "read"})
            <=> Owes(session, {"subscribe", "read"}) \/ session.operation \in {"subscribe", "read"}
      BY <2>4, <2>6
    <3> QED BY <2>3, <2>5, <3>1, Names DEF Opened, Idle
  <2>11. Owes(session', {"reconnect"}) <=> Owes(session, {"reconnect"})
    BY <2>2, <2>4, <2>6, Names
  <2> QED BY <2>3, <2>5, <2>9, <2>10, <2>11
<1>2. ASSUME NEW s \in Sessions, NEW name \in {"timer", "stop"},
             session' = Queued(s, name, "done"),
             s.phase = session.phase, s.stream = session.stream,
             s.connections = session.connections, s.queue = session.queue,
             s.operation = session.operation,
             session.phase = "running" /\ (s.waits # 0 \/ name = "timer")
               => session.waits # 0
      PROVE  /\ Orderly(session')
             /\ session'.phase = session.phase
             /\ session'.stream = session.stream
             /\ session'.connections = session.connections
             /\ Opened(session') <=> Opened(session)
             /\ Owes(session', {"reconnect"}) <=> Owes(session, {"reconnect"})
  <2>1. "done" \in Outcomes
    BY DEF Outcomes
  <2>2. /\ session' = [s EXCEPT !.queue = Append(s.queue, [name |-> name, outcome |-> "done"])]
        /\ \A names : Owes(session', names) <=> Owes(s, names) \/ name \in names
    BY <1>2, <2>1, QueuedFacts, QueuedOwes
  <2>3. /\ session'.phase = s.phase
        /\ session'.stream = s.stream
        /\ session'.connections = s.connections
        /\ session'.waits = s.waits
        /\ session'.operation = s.operation
        /\ session'.queue = Append(s.queue, [name |-> name, outcome |-> "done"])
    BY <2>2 DEF Sessions
  <2>4. \A names : Owes(s, names) <=> Owes(session, names)
    BY <1>2 DEF Owes
  <2>5. /\ Len(session.queue) \in Nat
        /\ Len(session'.queue) = Len(session.queue) + 1
        /\ \A i \in 1..Len(session.queue) : session'.queue[i] = session.queue[i]
        /\ session'.queue[Len(session.queue) + 1].name = name
    <3>1. session.queue \in Seq(Owed)
      BY <1>0 DEF Sessions
    <3> QED BY <1>2, <2>3, <3>1
  <2>6. ASSUME NEW i \in 1..Len(session'.queue), session'.queue[i].name \in Operations
        PROVE  i \in 1..Len(session.queue) /\ session.queue[i].name \in Operations
    BY <2>5, <2>6, Names
  <2>7. Orderly(session')
    <3>1. Owes(session', {"timer"}) => Owes(session, {"timer"}) \/ name = "timer"
      BY <2>2, <2>4
    <3>2. ~Owes(session', Operations) <=> ~Owes(session, Operations)
      BY <2>2, <2>4, Names
    <3> QED BY <1>2, <2>3, <2>6, <3>1, <3>2 DEF Orderly
  <2>8. Opened(session') <=> Opened(session)
    <3>1. Owes(session', {"subscribe", "read"}) <=> Owes(session, {"subscribe", "read"})
      BY <2>2, <2>4
    <3> QED BY <1>2, <2>3, <3>1 DEF Opened
  <2> QED BY <1>2, <2>2, <2>3, <2>4, <2>7, <2>8
<1>3. CASE TimerExpires
  <2> DEFINE s == [session EXCEPT !.waits = session.waits - 1]
  <2>1. /\ session' = Queued(s, "timer", "done")
        /\ session.waits = 1
    BY <1>0, <1>3 DEF TimerExpires, Sessions
  <2>2. /\ s \in Sessions
        /\ s.phase = session.phase
        /\ s.stream = session.stream
        /\ s.connections = session.connections
        /\ s.queue = session.queue
        /\ s.operation = session.operation
    BY <1>0, <2>1 DEF Sessions
  <2> HIDE DEF s
  <2> QED BY <1>2, <2>1, <2>2
<1>4. CASE stop
  <2> DEFINE s == [session EXCEPT !.stop_asked = TRUE]
  <2>1. session' = Queued(s, "stop", "done")
    BY <1>4 DEF stop
  <2>2. /\ s \in Sessions
        /\ s.phase = session.phase
        /\ s.stream = session.stream
        /\ s.connections = session.connections
        /\ s.queue = session.queue
        /\ s.operation = session.operation
        /\ s.waits = session.waits
    BY <1>0 DEF Sessions
  <2> HIDE DEF s
  <2> QED BY <1>2, <2>1, <2>2
<1> QED BY <1>1, <1>3, <1>4

\* A message comes on an open connection that nobody has asked to tear down.
LEMMA MessageFacts ==
  ASSUME Sound(session), Orderly(session), NEW asks \in BOOLEAN, on_message(asks)
  PROVE  /\ Orderly(session')
         /\ session.phase = "running" /\ session'.phase = "running"
         /\ session.stream /\ session'.stream
         /\ session'.connections = session.connections
         /\ Opened(session) /\ Opened(session')
         /\ ~Owes(session, {"reconnect"})
         /\ Owes(session', {"reconnect"}) <=> asks
<1>1. /\ session.phase = "running"
      /\ session.queue # <<>>
      /\ Head(session.queue).name = "read"
      /\ Done
  BY DEF on_message, Handles, Running
<1>2. /\ Free(Taken)
      /\ Taken.stream
      /\ StopsOnly(Taken)
      /\ Taken.stream = session.stream
      /\ Taken.connections = session.connections
      /\ ~Owes(session, {"reconnect"})
      /\ Opened(session)
  BY <1>1, Names, AfterOperation
<1> DEFINE q == IF asks THEN Queued(Taken, "reconnect", "done") ELSE Taken
<1>3. session' = Started(q, "read")
  BY DEF on_message
<1> HIDE DEF Taken
<1>4. /\ q \in Sessions
      /\ q = [Taken EXCEPT !.queue = q.queue]
      /\ \A names : Owes(q, names) <=> Owes(Taken, names) \/ (asks /\ "reconnect" \in names)
  <2>1. Taken \in Sessions /\ "done" \in Outcomes
    BY <1>2 DEF Free, Outcomes
  <2>2. CASE asks
    <3> DEFINE p == Queued(Taken, "reconnect", "done")
    <3>1. /\ p \in Sessions
          /\ p = [Taken EXCEPT !.queue = Append(Taken.queue, [name |-> "reconnect",
                                                              outcome |-> "done"])]
          /\ \A names : Owes(p, names) <=> Owes(Taken, names) \/ "reconnect" \in names
      BY <2>1, QueuedFacts, QueuedOwes
    <3>2. p = [Taken EXCEPT !.queue = p.queue]
      <4> HIDE DEF p
      <4> QED BY <2>1, <3>1 DEF Sessions
    <3> HIDE DEF p
    <3>3. q = p
      BY <2>2 DEF p
    <3> HIDE DEF q
    <3> QED BY <2>2, <3>1, <3>2, <3>3
  <2>3. CASE ~asks
    BY <2>1, <2>3 DEF Sessions
  <2> QED BY <2>2, <2>3
<1> HIDE DEF q
<1>5. /\ session'.phase = Taken.phase
      /\ session'.stream = Taken.stream
      /\ session'.connections = Taken.connections
      /\ session'.waits = Taken.waits
      /\ session'.operation = "read"
      /\ session'.queue = q.queue
  BY <1>2, <1>3, <1>4 DEF Free, Started, Sessions
<1>6. /\ ~Owes(session', Operations)
      /\ ~Owes(session', {"timer"})
      /\ Owes(session', {"reconnect"}) <=> asks
  <2>1. \A names : Owes(session', names) <=> Owes(q, names)
    BY <1>5 DEF Owes
  <2>2. ~Owes(Taken, Operations) /\ ~Owes(Taken, {"timer"}) /\ ~Owes(Taken, {"reconnect"})
    BY <1>2, StopsOwe
  <2> QED BY <1>4, <2>1, <2>2, Names
<1>7. Orderly(session')
  BY <1>2, <1>5, <1>6 DEF Orderly, Owes, Free
<1> QED BY <1>1, <1>2, <1>5, <1>6, <1>7 DEF Opened, Free

\* run() begins a connection, or gives up.
LEMMA RunFacts ==
  ASSUME Sound(session), run
  PROVE  /\ Orderly(session')
         /\ session'.phase \in {"running", "ended"}
         /\ session'.connections = session.connections
         /\ ~Opened(session') /\ ~Owes(session', {"reconnect"})
<1> DEFINE s == [session EXCEPT !.phase = "running", !.stopping = FALSE]
<1>1. /\ session \in Sessions
      /\ session.operation = Idle
      /\ session.waits = 0
      /\ StopsOnly(session)
      /\ session' = connect(s)
  BY DEF Sound, run, OnlyStops, StopsOnly
<1>2. /\ s \in Sessions
      /\ s.phase = "running"
      /\ s.operation = Idle
      /\ s.waits = 0
      /\ s.connections = session.connections
      /\ s.queue = session.queue
  BY <1>1 DEF Sessions
<1> HIDE DEF s
<1>3. StopsOnly(s)
  BY <1>1, <1>2 DEF StopsOnly
<1>4. CASE ~s.trust_store_ready
  <2>1. /\ session'.phase = "ended"
        /\ session'.queue = s.queue
        /\ session'.operation = Idle
        /\ session'.connections = s.connections
    BY <1>1, <1>2, <1>4 DEF connect, GivenUp, Sessions
  <2>2. StopsOnly(session')
    BY <1>3, <2>1 DEF StopsOnly
  <2> QED BY <1>2, <2>1, <2>2, StopsOwe DEF Orderly, Opened, Idle
<1>5. CASE s.trust_store_ready
  <2> DEFINE torn == WithoutStream(s)
             u == [torn EXCEPT !.stream = TRUE]
  <2>1. /\ torn \in Sessions
        /\ torn = [s EXCEPT !.stream = FALSE, !.queue = torn.queue, !.operation = s.operation]
        /\ Len(torn.queue) = Len(s.queue)
        /\ \A i \in 1..Len(s.queue) : torn.queue[i].name = s.queue[i].name
    <3>1. s.operation \notin StreamOperations
      BY <1>2, Names
    <3> QED BY <1>2, <3>1, WithoutStreamFacts
  <2> HIDE DEF torn
  <2>2. /\ u \in Sessions
        /\ u.queue = torn.queue
        /\ u.waits = 0
        /\ u.phase = s.phase
        /\ u.connections = s.connections
    BY <1>2, <2>1 DEF Sessions
  <2>3. session' = Started(u, "resolve")
    BY <1>1, <1>5 DEF connect, torn
  <2> HIDE DEF u
  <2>4. StopsOnly(u)
    BY <1>3, <2>1, <2>2 DEF StopsOnly
  <2>5. /\ Orderly(session')
        /\ session'.phase = u.phase
        /\ session'.connections = u.connections
        /\ ~Owes(session', {"reconnect"})
        /\ ~Opened(session')
    BY <2>2, <2>3, <2>4, AdvancesTo, Names
  <2> QED BY <1>2, <2>2, <2>5
<1> QED BY <1>4, <1>5

-----------------------------------------------------------------------------
(***************************************************************************)
(* What an event does to a market state, whatever the grid.                *)
(***************************************************************************)
\* An empty book is the same whatever the grid, and so is what is valid.
LEMMA EmptyBook ==
  ASSUME NEW grid
  PROVE  /\ Market(grid)!AwaitingBook = Market({})!AwaitingBook
         /\ ~Market(grid)!is_valid(Market(grid)!AwaitingBook)
         /\ Market(grid)!AwaitingBook \in Market(grid)!Books({1}, Nat \ {0})
         /\ Market(grid)!NewMarketState = NewState
BY DEF Market!AwaitingBook, Market!NoLevels, Market!Side, Market!is_valid, Market!Books,
   Market!NewMarketState, NewState, Market!Counters, Market!OtherEvents

LEMMA ValidIsValid ==
  ASSUME NEW grid, NEW market
  PROVE  IsValid(market) <=> Market(grid)!is_valid(market.book)
BY DEF IsValid, Market!is_valid

LEMMA NewStateType == ASSUME NEW grid PROVE NewState \in States(grid) /\ ~IsValid(NewState)
<1>1. [counter \in Market({})!Counters |-> 0] \in [Market(grid)!Counters -> Nat]
  BY DEF Market!Counters, Market!OtherEvents
<1>2. NewState = [book |-> Market({})!AwaitingBook,
                  stats |-> [counter \in Market({})!Counters |-> 0],
                  invalid_time |-> 0, invalid_since |-> None]
  BY DEF NewState, Market!NewMarketState
<1>3. NewState \in States(grid)
  BY <1>1, <1>2, EmptyBook DEF States
<1> QED BY <1>2, <1>3, EmptyBook DEF IsValid

LEMMA CountType ==
  ASSUME NEW grid, NEW stats \in [Market(grid)!Counters -> Nat], NEW counters
  PROVE  Market(grid)!Count(stats, counters) \in [Market(grid)!Counters -> Nat]
BY DEF Market!Count

LEMMA FinishFacts ==
  ASSUME NEW grid, NEW st \in States(grid), NEW at \in Int
  PROVE  /\ Market(grid)!finish(st, at) \in States(grid)
         /\ Market(grid)!finish(st, at).book = st.book
<1>1. CASE st.invalid_since = None
  BY <1>1 DEF Market!finish, States
<1>2. CASE st.invalid_since # None
  <2>1. st.invalid_since \in Int /\ st.invalid_time \in Int
    BY <1>2 DEF States
  <2>2. st.invalid_time + (at - st.invalid_since) \in Int
    BY <2>1
  <2> QED BY <1>2, <2>2 DEF Market!finish, States
<1> QED BY <1>1, <1>2

\* Only the counters and the interval of invalidity are noted.
LEMMA NotedFacts ==
  ASSUME NEW grid, NEW st \in States(grid), NEW at \in Int
  PROVE  /\ Market(grid)!note_validity(st, at) \in States(grid)
         /\ Market(grid)!note_validity(st, at).book = st.book
<1> DEFINE timed == IF Market(grid)!is_valid(st.book) THEN Market(grid)!finish(st, at)
                    ELSE IF st.invalid_since = None THEN [st EXCEPT !.invalid_since = at]
                    ELSE st
           crossed == [timed EXCEPT !.stats =
                         Market(grid)!Count(timed.stats, {"crossed_observations"})]
<1>1. timed \in States(grid) /\ timed.book = st.book
  <2>1. [st EXCEPT !.invalid_since = at] \in States(grid)
    BY DEF States
  <2>2. [st EXCEPT !.invalid_since = at].book = st.book
    BY DEF States
  <2> QED BY <2>1, <2>2, FinishFacts
<1>2. Market(grid)!note_validity(st, at) = IF Market(grid)!is_crossed(st.book) THEN crossed
                                          ELSE timed
  BY DEF Market!note_validity
<1> HIDE DEF timed
<1>3. Market(grid)!Count(timed.stats, {"crossed_observations"}) \in [Market(grid)!Counters -> Nat]
  BY <1>1, CountType DEF States
<1>4. crossed \in States(grid) /\ crossed.book = timed.book
  BY <1>1, <1>3 DEF States
<1> QED BY <1>1, <1>2, <1>4

\* What apply and on_disconnected have in common.
Noting(grid, st, book, counters) ==
  [st EXCEPT !.book = book, !.stats = Market(grid)!Count(st.stats, counters)]

LEMMA ObservedFacts ==
  ASSUME NEW grid, NEW st \in States(grid), NEW at \in Int,
         NEW book \in Market(grid)!Books({1}, Nat \ {0}), NEW counters
  PROVE  /\ Market(grid)!note_validity(Noting(grid, st, book, counters), at) \in States(grid)
         /\ Market(grid)!note_validity(Noting(grid, st, book, counters), at).book = book
<1> DEFINE observed == Noting(grid, st, book, counters)
<1>1. Market(grid)!Count(st.stats, counters) \in [Market(grid)!Counters -> Nat]
  BY CountType DEF States
<1>2. observed \in States(grid) /\ observed.book = book
  BY <1>1 DEF States, Noting
<1> HIDE DEF observed
<1>3. /\ Market(grid)!note_validity(observed, at) \in States(grid)
      /\ Market(grid)!note_validity(observed, at).book = observed.book
  BY <1>2, NotedFacts
<1> QED BY <1>2, <1>3 DEF observed

LEMMA DisconnectedFacts ==
  ASSUME NEW grid, NEW st \in States(grid), NEW at \in Int
  PROVE  /\ Market(grid)!on_disconnected(st, at) \in States(grid)
         /\ Market(grid)!on_disconnected(st, at).book = Market({})!AwaitingBook
         /\ ~IsValid(Market(grid)!on_disconnected(st, at))
<1> DEFINE book == Market(grid)!AwaitingBook
<1>1. Market(grid)!on_disconnected(st, at)
        = Market(grid)!note_validity(Noting(grid, st, book, {"disconnections"}), at)
  BY DEF Market!on_disconnected, Noting
<1>2. book \in Market(grid)!Books({1}, Nat \ {0}) /\ book = Market({})!AwaitingBook
  BY EmptyBook
<1> HIDE DEF book
<1>3. /\ Market(grid)!on_disconnected(st, at) \in States(grid)
      /\ Market(grid)!on_disconnected(st, at).book = book
  BY <1>1, <1>2, ObservedFacts
<1> QED BY <1>2, <1>3, EmptyBook DEF IsValid

LEMMA ApplyFacts ==
  ASSUME NEW grid, NEW st \in States(grid), NEW at \in Int, NEW event,
         NEW book \in Market(grid)!Books({1}, Nat \ {0}),
         book = Market(grid)!AfterEvent(st.book, event, Market(grid)!Rejection(st, event))
  PROVE  /\ Market(grid)!apply(st, event, at) \in States(grid)
         /\ Market(grid)!apply(st, event, at).book = book
<1> DEFINE counters == Market(grid)!Counts(event, Market(grid)!Rejection(st, event))
<1>1. Market(grid)!apply(st, event, at)
        = Market(grid)!note_validity(Noting(grid, st, book, counters), at)
  BY DEF Market!apply, Noting
<1> HIDE DEF counters
<1> QED BY <1>1, ObservedFacts

LEMMA OtherFacts ==
  ASSUME NEW grid, NEW st \in States(grid), NEW at \in Int, NEW event,
         event.type \in Market(grid)!OtherEvents
  PROVE  /\ Market(grid)!apply(st, event, at) \in States(grid)
         /\ Market(grid)!apply(st, event, at).book = st.book
         /\ ~Market(grid)!invalidates_book(Market(grid)!Rejection(st, event))
<1>1. event.type # "orderbook_snapshot" /\ event.type # "orderbook_delta"
  BY DEF Market!OtherEvents
<1>2. Market(grid)!Rejection(st, event) = "Accepted"
  BY <1>1 DEF Market!Rejection, Market!Accepted
<1>3. st.book = Market(grid)!AfterEvent(st.book, event, Market(grid)!Rejection(st, event))
  BY <1>1 DEF Market!AfterEvent
<1>4. st.book \in Market(grid)!Books({1}, Nat \ {0})
  BY DEF States
<1> QED BY <1>2, <1>3, <1>4, ApplyFacts DEF Market!invalidates_book, Market!Accepted

\* A level that can be read.
ReadableLevels(levels, side) ==
  \A price \in DOMAIN levels[side] : price \in Int /\ levels[side][price] \in 0..MaxQuantity

\* A snapshot of this market, read and brought onto the YES scale.
SnapshotEvent(grid, event) ==
  /\ event.type = "orderbook_snapshot"
  /\ event.market_ticker = Ticker
  /\ event.subscription = 1
  /\ event.sequence \in Nat \ {0}
  /\ \A side \in Market(grid)!Side : ReadableLevels(event.levels, side)

\* The book that a snapshot lists.
SnapshotBook(grid, event) ==
  [status        |-> "Valid",
   levels        |-> [side \in Market(grid)!Side |->
                        Market(grid)!WithoutZeroLevels(event.levels[side])],
   last_sequence |-> event.sequence,
   subscription  |-> event.subscription]

\* A snapshot is taken, or the book is not to be trusted.
LEMMA SnapshotFacts ==
  ASSUME NEW grid, NEW st \in States(grid), NEW at \in Int, NEW event,
         SnapshotEvent(grid, event)
  PROVE  LET after == Market(grid)!apply(st, event, at)
             invalidates == Market(grid)!invalidates_book(Market(grid)!Rejection(st, event))
         IN  /\ after \in States(grid)
             /\ IsValid(after) <=> ~invalidates
             /\ IsValid(after) => /\ after.book.last_sequence = event.sequence
                                  /\ after.book.subscription = 1
                                  /\ after.book = SnapshotBook(grid, event)
<1> DEFINE verdict == Market(grid)!Rejection(st, event)
           book == Market(grid)!AfterEvent(st.book, event, verdict)
           Legal == {price \in 0..PriceMax : Market(grid)!validate_price(price) = "Accepted"}
           after == Market(grid)!apply(st, event, at)
           new(side) == Market(grid)!WithoutZeroLevels(event.levels[side])
<1>0. PriceMax \in Nat /\ MaxQuantity \in Nat
  BY RecorderAssumption
<1>1. verdict \in Market(grid)!SnapshotVerdicts(event)
  <2>1. verdict = CHOOSE v \in Market(grid)!SnapshotVerdicts(event) : TRUE
    BY DEF SnapshotEvent, Market!Rejection, Market!SnapshotVerdict
  <2>2. Market(grid)!SnapshotVerdicts(event) # {}
    BY DEF Market!SnapshotVerdicts
  <2> QED BY <2>1, <2>2
<1>2. \/ verdict = "Accepted" /\ Market(grid)!LevelProblems(event) = {}
      \/ verdict \in {"PriceOutOfBounds", "PriceOffGrid", "NegativeSnapshotLevel"}
  <2>1. \A price, quantity : Market(grid)!LevelProblem(price, quantity)
           \in {"Accepted", "PriceOutOfBounds", "PriceOffGrid", "NegativeSnapshotLevel"}
    BY DEF Market!LevelProblem, Market!validate_price, Market!Accepted
  <2>2. Market(grid)!LevelProblems(event)
          \subseteq {"PriceOutOfBounds", "PriceOffGrid", "NegativeSnapshotLevel"}
    BY <2>1 DEF Market!LevelProblems, Market!Accepted
  <2> QED BY <1>1, <2>2 DEF Market!SnapshotVerdicts, SnapshotEvent, Market!Accepted
<1> HIDE DEF verdict
<1>3. book = Market(grid)!AfterSnapshot(st.book, event, verdict)
  BY DEF Market!AfterEvent, SnapshotEvent
<1>4. CASE verdict = "Accepted"
  <2>1. Market(grid)!LevelProblems(event) = {}
    BY <1>2, <1>4
  <2>2. ASSUME NEW side \in Market(grid)!Side, NEW price \in DOMAIN event.levels[side]
        PROVE  price \in Legal /\ event.levels[side][price] \in 0..MaxQuantity
    <3>1. Market(grid)!LevelProblem(price, event.levels[side][price]) = "Accepted"
      BY <2>1 DEF Market!LevelProblems, Market!Accepted
    <3>2. Market(grid)!validate_price(price) = "Accepted"
      BY <3>1 DEF Market!LevelProblem, Market!Accepted
    <3>3. price \in 0..PriceMax
      BY <3>2 DEF Market!validate_price, Market!is_valid_yes_price, Market!Accepted
    <3> QED BY <3>2, <3>3 DEF SnapshotEvent, ReadableLevels
  <2>3. \A side \in Market(grid)!Side : new(side) \in Market(grid)!Levels
    <3> SUFFICES ASSUME NEW side \in Market(grid)!Side
                 PROVE  new(side) \in Market(grid)!Levels
      OBVIOUS
    <3> DEFINE prices == {price \in DOMAIN event.levels[side] : event.levels[side][price] > 0}
    <3>1. new(side) = [price \in prices |-> event.levels[side][price]]
      BY DEF Market!WithoutZeroLevels
    <3>2. prices \in SUBSET Legal
      BY <2>2
    <3>3. \A price \in prices : event.levels[side][price] \in 1..MaxQuantity
      BY <1>0, <2>2
    <3> HIDE DEF prices, Legal
    <3>4. new(side) \in [prices -> 1..MaxQuantity]
      BY <3>1, <3>3
    <3> QED BY <3>2, <3>4 DEF Market!Levels, Market!LegalPrices, Legal, Market!Accepted
  <2>4. book = [status        |-> "Valid",
                levels        |-> [side \in Market(grid)!Side |-> new(side)],
                last_sequence |-> event.sequence,
                subscription  |-> event.subscription]
    BY <1>3, <1>4 DEF Market!AfterSnapshot, Market!Accepted
  <2>5. [side \in Market(grid)!Side |-> new(side)] \in [Market(grid)!Side -> Market(grid)!Levels]
    BY <2>3
  <2>6. book \in Market(grid)!Books({1}, Nat \ {0})
    <3> HIDE DEF book, new
    <3> QED BY <2>4, <2>5 DEF Market!Books, Market!ValidBooks, SnapshotEvent
  <2>7. /\ book.status = "Valid"
        /\ book.last_sequence = event.sequence
        /\ book.subscription = 1
    BY <2>4 DEF SnapshotEvent
  <2>10. book = SnapshotBook(grid, event)
    BY <2>4 DEF SnapshotBook
  <2> HIDE DEF book
  <2>8. after \in States(grid) /\ after.book = book
    BY <2>6, ApplyFacts DEF book, verdict
  <2>9. ~Market(grid)!invalidates_book(verdict)
    BY <1>4 DEF Market!invalidates_book, Market!Accepted
  <2> QED BY <2>7, <2>8, <2>9, <2>10, ValidIsValid DEF Market!is_valid, verdict
<1>5. CASE verdict # "Accepted"
  <2>1. Market(grid)!invalidates_book(verdict)
    BY <1>2, <1>5 DEF Market!invalidates_book, Market!Accepted
  <2>2. book = Market(grid)!AwaitingBook
    BY <1>3, <1>5, <2>1 DEF Market!AfterSnapshot, Market!Refused, Market!Accepted
  <2>3. book \in Market(grid)!Books({1}, Nat \ {0})
    BY <2>2, EmptyBook
  <2> HIDE DEF book
  <2>4. after \in States(grid) /\ after.book = book
    BY <2>3, ApplyFacts DEF book, verdict
  <2> QED BY <2>1, <2>2, <2>4, ValidIsValid, EmptyBook DEF verdict
<1> QED BY <1>4, <1>5

\* A change of one level of this market.
DeltaEvent(grid, event) ==
  /\ event.type = "orderbook_delta"
  /\ event.market_ticker = Ticker
  /\ event.subscription = 1
  /\ event.sequence \in Nat \ {0}
  /\ event.side \in Market(grid)!Side
  /\ event.delta \in Int

LEMMA RestingType ==
  ASSUME NEW grid, NEW levels \in Market(grid)!Levels, NEW price
  PROVE  Market(grid)!Resting(levels, price) \in 0..MaxQuantity
<1>0. MaxQuantity \in Nat
  BY RecorderAssumption
<1>1. PICK prices \in SUBSET Market(grid)!LegalPrices : levels \in [prices -> 1..MaxQuantity]
  BY DEF Market!Levels
<1> QED BY <1>0, <1>1 DEF Market!Resting

LEMMA WithLevelType ==
  ASSUME NEW grid, NEW levels \in Market(grid)!Levels, NEW price \in Market(grid)!LegalPrices,
         NEW quantity \in 0..MaxQuantity
  PROVE  Market(grid)!WithLevel(levels, price, quantity) \in Market(grid)!Levels
<1>0. MaxQuantity \in Nat
  BY RecorderAssumption
<1>1. PICK prices \in SUBSET Market(grid)!LegalPrices : levels \in [prices -> 1..MaxQuantity]
  BY DEF Market!Levels
<1> DEFINE left == IF quantity = 0 THEN DOMAIN levels \ {price} ELSE DOMAIN levels \cup {price}
           after == [p \in left |-> IF p = price THEN quantity ELSE levels[p]]
<1>2. DOMAIN levels = prices /\ \A p \in prices : levels[p] \in 1..MaxQuantity
  BY <1>1
<1>3. left \in SUBSET Market(grid)!LegalPrices
  BY <1>1, <1>2
<1>4. \A p \in left : (IF p = price THEN quantity ELSE levels[p]) \in 1..MaxQuantity
  BY <1>0, <1>2
<1>5. Market(grid)!WithLevel(levels, price, quantity) = after
  BY DEF Market!WithLevel
<1> HIDE DEF left
<1>6. after \in [left -> 1..MaxQuantity]
  BY <1>4
<1> HIDE DEF after
<1> QED BY <1>3, <1>5, <1>6 DEF Market!Levels

\* A change to a valid book is the one that follows and fits, or the book is no
\* longer to be trusted; a change to any other book is ignored.
LEMMA DeltaFacts ==
  ASSUME NEW grid, NEW st \in States(grid), NEW at \in Int, NEW event,
         DeltaEvent(grid, event)
  PROVE  LET after == Market(grid)!apply(st, event, at)
             invalidates == Market(grid)!invalidates_book(Market(grid)!Rejection(st, event))
         IN  /\ after \in States(grid)
             /\ ~IsValid(st) => after.book = st.book /\ ~invalidates
             /\ IsValid(st) => (IsValid(after) <=> ~invalidates)
             /\ ~IsValid(st) => ~IsValid(after)
             /\ IsValid(after) => /\ st.book.last_sequence \in Nat
                                  /\ event.sequence = st.book.last_sequence + 1
                                  /\ after.book.last_sequence = event.sequence
<1> DEFINE verdict == Market(grid)!Rejection(st, event)
           book == Market(grid)!AfterEvent(st.book, event, verdict)
           after == Market(grid)!apply(st, event, at)
<1>0. MaxQuantity \in Nat /\ st.book \in Market(grid)!Books({1}, Nat \ {0})
  BY RecorderAssumption DEF States
<1>1. /\ verdict = Market(grid)!DeltaVerdict(st.book, event)
      /\ book = Market(grid)!AfterDelta(st.book, event, verdict)
  BY DEF Market!AfterEvent, Market!Rejection, DeltaEvent
<1>2. CASE ~IsValid(st)
  <2>1. ~Market(grid)!is_valid(st.book)
    BY <1>2, ValidIsValid
  <2>2. verdict = "DeltaBeforeSnapshot"
    BY <1>1, <2>1 DEF Market!DeltaVerdict, DeltaEvent
  <2>3. ~Market(grid)!invalidates_book(verdict)
    BY <2>2 DEF Market!invalidates_book
  <2>4. book = st.book
    BY <1>1, <2>2, <2>3 DEF Market!AfterDelta, Market!Refused, Market!Accepted
  <2>5. after \in States(grid) /\ after.book = st.book
    <3> HIDE DEF book
    <3> QED BY <1>0, <2>4, ApplyFacts DEF book
  <2> QED BY <1>2, <2>1, <2>3, <2>5, ValidIsValid
<1>3. CASE IsValid(st)
  <2>1. Market(grid)!is_valid(st.book)
    BY <1>3, ValidIsValid
  <2>2. st.book \in Market(grid)!ValidBooks({1}, Nat \ {0})
    BY <1>0, <2>1, EmptyBook DEF Market!Books
  <2>3. /\ st.book.levels \in [Market(grid)!Side -> Market(grid)!Levels]
        /\ st.book.last_sequence \in Nat \ {0}
        /\ st.book.subscription = 1
    BY <2>2 DEF Market!ValidBooks
  <2> DEFINE resting == Market(grid)!Resting(st.book.levels[event.side], event.price)
  <2>4. resting \in 0..MaxQuantity
    BY <2>3, RestingType DEF DeltaEvent
  <2>5. CASE verdict = "Accepted"
    <3>1. /\ event.sequence = st.book.last_sequence + 1
          /\ Market(grid)!validate_price(event.price) = "Accepted"
          /\ Market(grid)!apply_delta(resting, event.delta) = "Accepted"
      <4>1. /\ event.market_ticker = Ticker
            /\ event.subscription = st.book.subscription
            /\ event.sequence \in Nat
        BY <2>3 DEF DeltaEvent
      <4>2. ~(event.sequence > st.book.last_sequence + 1)
        BY <1>1, <2>1, <2>5, <4>1 DEF Market!DeltaVerdict
      <4>3. ~(event.sequence < st.book.last_sequence + 1)
        BY <1>1, <2>1, <2>5, <4>1 DEF Market!DeltaVerdict
      <4>4. event.sequence = st.book.last_sequence + 1
        BY <2>3, <4>1, <4>2, <4>3
      <4>5. Market(grid)!validate_price(event.price) = "Accepted"
        BY <1>1, <2>1, <2>5, <4>1, <4>2, <4>3 DEF Market!DeltaVerdict, Market!Accepted
      <4>6. Market(grid)!apply_delta(resting, event.delta) = "Accepted"
        BY <1>1, <2>1, <2>5, <4>1, <4>2, <4>3, <4>5 DEF Market!DeltaVerdict, Market!Accepted
      <4> QED BY <4>4, <4>5, <4>6
    <3>2. event.price \in Market(grid)!LegalPrices
      BY <3>1 DEF Market!LegalPrices, Market!validate_price, Market!is_valid_yes_price,
         Market!Accepted
    <3>3. resting + event.delta \in 0..MaxQuantity
      <4> HIDE DEF resting
      <4>1. event.delta \in Int
        BY DEF DeltaEvent
      <4> QED BY <1>0, <2>4, <3>1, <4>1 DEF Market!apply_delta, Market!Accepted
    <3> DEFINE changed == Market(grid)!WithLevel(st.book.levels[event.side], event.price,
                                                resting + event.delta)
    <3>4. changed \in Market(grid)!Levels
      <4>1. st.book.levels[event.side] \in Market(grid)!Levels
        BY <2>3 DEF DeltaEvent
      <4> HIDE DEF resting
      <4> QED BY <3>2, <3>3, <4>1, WithLevelType
    <3>5. book = [st.book EXCEPT !.levels = [st.book.levels EXCEPT ![event.side] = changed],
                                 !.last_sequence = event.sequence]
      BY <1>1, <2>5 DEF Market!AfterDelta, Market!Accepted
    <3> HIDE DEF changed, book
    <3>6. [st.book.levels EXCEPT ![event.side] = changed]
            \in [Market(grid)!Side -> Market(grid)!Levels]
      BY <2>3, <3>4 DEF DeltaEvent
    <3>7. /\ book \in Market(grid)!ValidBooks({1}, Nat \ {0})
          /\ book.last_sequence = event.sequence
      BY <2>2, <3>5, <3>6 DEF Market!ValidBooks, DeltaEvent
    <3>8. book \in Market(grid)!Books({1}, Nat \ {0}) /\ Market(grid)!is_valid(book)
      BY <3>7 DEF Market!Books, Market!ValidBooks, Market!is_valid
    <3>9. after \in States(grid) /\ after.book = book
      BY <3>8, ApplyFacts DEF book
    <3>10. ~Market(grid)!invalidates_book(verdict)
      BY <2>5 DEF Market!invalidates_book, Market!Accepted
    <3> QED BY <1>3, <2>3, <3>1, <3>7, <3>8, <3>9, <3>10, ValidIsValid
  <2>6. CASE verdict # "Accepted"
    <3>1. verdict # "WrongMarket" /\ verdict # "DeltaBeforeSnapshot"
      <4>1. event.market_ticker = Ticker
        BY DEF DeltaEvent
      <4> QED BY <1>1, <2>1, <4>1 DEF Market!DeltaVerdict, Market!validate_price,
             Market!apply_delta, Market!Accepted
    <3>2. Market(grid)!invalidates_book(verdict)
      BY <2>6, <3>1 DEF Market!invalidates_book, Market!Accepted
    <3>3. book = Market(grid)!AwaitingBook
      BY <1>1, <2>6, <3>2 DEF Market!AfterDelta, Market!Refused, Market!Accepted
    <3>4. book \in Market(grid)!Books({1}, Nat \ {0}) /\ ~Market(grid)!is_valid(book)
      BY <3>3, EmptyBook
    <3> HIDE DEF book
    <3>5. after \in States(grid) /\ after.book = book
      BY <3>4, ApplyFacts DEF book
    <3> QED BY <1>3, <3>2, <3>4, <3>5, ValidIsValid
  <2> QED BY <2>5, <2>6
<1> QED BY <1>2, <1>3

-----------------------------------------------------------------------------
(***************************************************************************)
(* What the venue sends, as the book is told of it.                        *)
(***************************************************************************)
Conventions == {"NoLegPricing", "YesLegPricing"}

\* What can be read is read whatever the convention.
LEMMA ParsedReadable ==
  ASSUME NEW convention \in Conventions, NEW side, NEW listed,
         \A price \in DOMAIN listed : price \in Int /\ listed[price] \in 0..MaxQuantity
  PROVE  LET parsed == Wire(convention)!ParsedLevels(listed, side)
         IN  \A price \in DOMAIN parsed : price \in Int /\ parsed[price] \in 0..MaxQuantity
<1> DEFINE yes(price) == Wire(convention)!yes_price_from_book_entry(price, side)
           parsed == Wire(convention)!ParsedLevels(listed, side)
<1>0. PriceMax \in Nat
  BY RecorderAssumption
<1>1. \A price \in Int : yes(price) \in Int /\ yes(yes(price)) = price
  BY <1>0 DEF Conventions, Wire!yes_price_from_book_entry, Wire!yes_price_from_no
<1>2. parsed = [price \in {yes(w) : w \in DOMAIN listed} |-> listed[yes(price)]]
  BY DEF Wire!ParsedLevels
<1> HIDE DEF yes, parsed
<1>3. \A price \in DOMAIN parsed : price \in Int /\ parsed[price] \in 0..MaxQuantity
  <2> SUFFICES ASSUME NEW w \in DOMAIN listed
               PROVE  yes(w) \in Int /\ parsed[yes(w)] \in 0..MaxQuantity
    BY <1>2
  <2>1. w \in Int
    OBVIOUS
  <2>2. parsed[yes(w)] = listed[w]
    BY <1>1, <1>2, <2>1
  <2> QED BY <1>1, <2>1, <2>2
<1> QED BY <1>3 DEF parsed

\* The grid, the convention and the gap of the recording.
LEMMA RecordingFacts ==
  ASSUME collect.recording \in Recordings
  PROVE  Convention \in Conventions /\ collect.recording.simulate_gap_after \in Nat
BY RecorderAssumption DEF Convention, Conventions

LEMMA SnapshotSent ==
  ASSUME collect.recording \in Recordings, NEW message \in NextSnapshots
  PROVE  LET event == Normalized(message, Convention)
         IN  /\ venue.sequence = 0
             /\ message.type = "orderbook_snapshot"
             /\ message.sequence = 1
             /\ event.type = "orderbook_snapshot"
             /\ Adjusted(event) = event
             /\ SnapshotEvent(Grid, event)
             /\ event.sequence = 1
<1>1. venue.sequence = 0
  BY DEF NextSnapshots
<1>2. PICK levels \in Quoted :
         message = [type |-> "orderbook_snapshot", market_ticker |-> Ticker, subscription |-> 1,
                    sequence |-> 1,
                    levels |-> [side \in DOMAIN levels |->
                                  Wire(Convention)!ParsedLevels(levels[side], side)]]
  BY <1>1 DEF NextSnapshots
<1> DEFINE sent == [side \in DOMAIN levels |->
                      Wire(Convention)!ParsedLevels(levels[side], side)]
           read == [side \in DOMAIN sent |->
                      Wire(Convention)!ParsedLevels(sent[side], side)]
           event == Normalized(message, Convention)
<1>3. Convention \in Conventions
  BY RecordingFacts
<1>4. \A side \in Market(Grid)!Side : side \in DOMAIN levels /\ ReadableLevels(levels, side)
  BY RecorderAssumption DEF ReadableLevels, Market!Side
<1>5. \A side \in Market(Grid)!Side : side \in DOMAIN sent /\ ReadableLevels(sent, side)
  <2> SUFFICES ASSUME NEW side \in Market(Grid)!Side
               PROVE  side \in DOMAIN sent /\ ReadableLevels(sent, side)
    OBVIOUS
  <2>1. \A price \in DOMAIN levels[side] :
           price \in Int /\ levels[side][price] \in 0..MaxQuantity
    BY <1>4 DEF ReadableLevels
  <2> DEFINE listed == levels[side]
             parsed == Wire(Convention)!ParsedLevels(listed, side)
  <2>2. \A price \in DOMAIN parsed : price \in Int /\ parsed[price] \in 0..MaxQuantity
    <3> HIDE DEF listed
    <3> QED BY <1>3, <2>1, ParsedReadable DEF listed
  <2>3. side \in DOMAIN sent /\ sent[side] = parsed
    BY <1>4
  <2> HIDE DEF parsed, sent
  <2> QED BY <2>2, <2>3 DEF ReadableLevels
<1>6. event = [message EXCEPT !.levels = read]
  BY <1>2 DEF Normalized
<1>7. /\ event.type = "orderbook_snapshot"
      /\ event.market_ticker = Ticker
      /\ event.subscription = 1
      /\ event.sequence = 1
      /\ event.levels = read
      /\ message.type = "orderbook_snapshot"
      /\ message.sequence = 1
  <2> HIDE DEF sent, read, event
  <2> QED BY <1>2, <1>6 DEF sent
<1>8. \A side \in Market(Grid)!Side : ReadableLevels(read, side)
  <2> SUFFICES ASSUME NEW side \in Market(Grid)!Side
               PROVE  ReadableLevels(read, side)
    OBVIOUS
  <2> HIDE DEF sent
  <2>1. \A price \in DOMAIN sent[side] :
           price \in Int /\ sent[side][price] \in 0..MaxQuantity
    BY <1>5 DEF ReadableLevels
  <2> DEFINE listed == sent[side]
             parsed == Wire(Convention)!ParsedLevels(listed, side)
  <2>2. \A price \in DOMAIN parsed : price \in Int /\ parsed[price] \in 0..MaxQuantity
    <3> HIDE DEF listed
    <3> QED BY <1>3, <2>1, ParsedReadable DEF listed
  <2>3. side \in DOMAIN read /\ read[side] = parsed
    BY <1>5
  <2> HIDE DEF parsed, read
  <2> QED BY <2>2, <2>3 DEF ReadableLevels
<1> HIDE DEF event, read
<1>9. SnapshotEvent(Grid, event)
  BY <1>7, <1>8 DEF SnapshotEvent
<1>10. Adjusted(event) = event
  BY <1>7 DEF Adjusted, IsDelta
<1> QED BY <1>1, <1>7, <1>9, <1>10 DEF event

LEMMA ShiftType ==
  ASSUME collect.sequence_shift \in {0, 1}, NEW event
  PROVE  SequenceShift(event) \in {0, 1}
BY DEF SequenceShift

LEMMA DeltaSent ==
  ASSUME collect.recording \in Recordings, collect.sequence_shift \in {0, 1},
         venue.sequence \in Nat, NEW message \in NextDeltas
  PROVE  LET event == Normalized(message, Convention)
         IN  /\ venue.sequence # 0
             /\ message.type = "orderbook_delta"
             /\ message.sequence - venue.sequence \in {1, 2}
             /\ message.sequence \in Nat
             /\ event.type = "orderbook_delta"
             /\ DeltaEvent(Grid, event)
             /\ DeltaEvent(Grid, Adjusted(event))
             /\ Adjusted(event).sequence = message.sequence + SequenceShift(event)
             /\ SequenceShift(event) = 0 => Adjusted(event) = event
<1>1. venue.sequence # 0
  BY DEF NextDeltas
<1>2. PICK step \in {1, 2} : \E change \in Changes :
         message = [type |-> "orderbook_delta", market_ticker |-> Ticker, subscription |-> 1,
                    sequence |-> venue.sequence + step, side |-> change.side,
                    price |-> Wire(Convention)!yes_price_from_book_entry(change.price,
                                                                        change.side),
                    delta |-> change.delta]
  BY <1>1 DEF NextDeltas
<1>3. PICK change \in Changes :
         message = [type |-> "orderbook_delta", market_ticker |-> Ticker, subscription |-> 1,
                    sequence |-> venue.sequence + step, side |-> change.side,
                    price |-> Wire(Convention)!yes_price_from_book_entry(change.price,
                                                                        change.side),
                    delta |-> change.delta]
  BY <1>2
<1> DEFINE event == Normalized(message, Convention)
           price == Wire(Convention)!yes_price_from_book_entry(message.price, message.side)
<1>4. change.side \in Market(Grid)!Side /\ change.delta \in Int
  BY RecorderAssumption DEF Market!Side
<1>5. event = [message EXCEPT !.price = price]
  BY <1>3 DEF Normalized
<1> HIDE DEF price, event
<1>6. event = [type |-> "orderbook_delta", market_ticker |-> Ticker, subscription |-> 1,
               sequence |-> venue.sequence + step, side |-> change.side,
               price |-> price, delta |-> change.delta]
  BY <1>3, <1>5
<1>7. Adjusted(event) = [event EXCEPT !.sequence = venue.sequence + step + SequenceShift(event)]
  BY <1>6 DEF Adjusted, IsDelta
<1>8. SequenceShift(event) \in {0, 1}
  BY ShiftType
<1>9. venue.sequence + step + SequenceShift(event) \in Nat \ {0}
  BY <1>1, <1>8
<1>10. /\ Adjusted(event).type = "orderbook_delta"
       /\ Adjusted(event).market_ticker = Ticker
       /\ Adjusted(event).subscription = 1
       /\ Adjusted(event).sequence = venue.sequence + step + SequenceShift(event)
       /\ Adjusted(event).side = change.side
       /\ Adjusted(event).delta = change.delta
  BY <1>6, <1>7
<1>11. DeltaEvent(Grid, Adjusted(event))
  BY <1>4, <1>9, <1>10 DEF DeltaEvent
<1>12. message.sequence = venue.sequence + step /\ message.type = "orderbook_delta"
  BY <1>3
<1>13. message.sequence - venue.sequence \in {1, 2} /\ message.sequence \in Nat
  BY <1>12
<1>14. event.type = "orderbook_delta"
  BY <1>6
<1>15. SequenceShift(event) = 0 => Adjusted(event) = event
  BY <1>6, <1>7
<1>16. DeltaEvent(Grid, event)
  <2>1. venue.sequence + step \in Nat \ {0}
    BY <1>1
  <2> QED BY <1>4, <1>6, <2>1 DEF DeltaEvent
<1> QED BY <1>1, <1>10, <1>11, <1>12, <1>13, <1>14, <1>15, <1>16 DEF event

LEMMA OtherSent ==
  ASSUME NEW message \in NextOthers, NEW grid
  PROVE  LET event == Normalized(message, Convention)
         IN  /\ event = message
             /\ message.type \in Market(grid)!OtherEvents
             /\ message.type # "orderbook_snapshot" /\ message.type # "orderbook_delta"
             /\ Adjusted(event) = event
<1>1. PICK type \in Others : message = [type |-> type]
  BY DEF NextOthers
<1>2. type \in Market(grid)!OtherEvents
  BY RecorderAssumption DEF Market!OtherEvents
<1>3. type # "orderbook_snapshot" /\ type # "orderbook_delta"
  BY <1>2 DEF Market!OtherEvents
<1> QED BY <1>1, <1>2, <1>3 DEF Normalized, Adjusted, IsDelta

-----------------------------------------------------------------------------
(***************************************************************************)
(* The steps of a recording are steps of its session.                      *)
(***************************************************************************)
LEMMA HandlerStep == OtherHandlers => Handler
BY DEF OtherHandlers, Handler

LEMMA SessionSteps == RecorderNext => Next \/ UNCHANGED session
<1> SUFFICES ASSUME RecorderNext
             PROVE  Next \/ UNCHANGED session
  OBVIOUS
<1>1. ASSUME NEW asks, on_message(asks), asks \in BOOLEAN
      PROVE  Next
  BY <1>1 DEF Next, Handler
<1>2. CASE Start
  BY <1>2 DEF Start, Next
<1>3. CASE OnWorld
  BY <1>3 DEF OnWorld, Next
<1>4. CASE OnOtherHandler
  BY <1>4, HandlerStep DEF OnOtherHandler, OtherHandlers, Next
<1>5. CASE OnRead
  <2>1. ASSUME NEW message, OnMessage(message)
        PROVE  Next
    <3>1. \E asks \in BOOLEAN : on_message(asks)
      BY <2>1 DEF OnMessage
    <3> QED BY <1>1, <3>1
  <2>2. ASSUME OnUnreadable
        PROVE  Next
    BY <1>1, <2>2 DEF OnUnreadable
  <2> QED BY <1>5, <2>1, <2>2 DEF OnRead
<1>6. CASE Finish
  BY <1>6 DEF Finish
<1> QED BY <1>2, <1>3, <1>4, <1>5, <1>6 DEF RecorderNext

LEMMA SessionStaysSound ==
  ASSUME Prompt, Sound(session), RecorderNext
  PROVE  Sound(session')
<1>1. Next \/ UNCHANGED session
  BY SessionSteps
<1> QED BY <1>1, RunSound, OperationEndsSound, TimerExpiresSound, StopSound, HandlerSound
     DEF Next

\* A session is created once.
LEMMA StaysBegun ==
  ASSUME Sound(session), Handler
  PROVE  session'.phase # "created"
<1>1. /\ session \in Sessions
      /\ session.phase = "running"
      /\ session.queue # <<>>
  BY DEF Sound, Handler, Handles, Running, OnResolve, OnConnect, OnTlsHandshake,
     OnWsHandshake, OnSubscribe, on_message, OnReadError, OnReconnect, OnTimer, OnStop
<1>2. Taken \in Sessions /\ Taken.phase = "running"
  <2>1. Taken \in Sessions /\ Taken = [session EXCEPT !.queue = Taken.queue, !.lost = FALSE]
    BY <1>1, TakenFacts
  <2> HIDE DEF Taken
  <2> QED BY <1>1, <2>1 DEF Sessions
<1> HIDE DEF Taken
<1>3. ASSUME NEW s \in Sessions
      PROVE  /\ WithoutStream(s).phase = s.phase
             /\ schedule_reconnect(s).phase \in {s.phase, "ended"}
  <2> DEFINE torn == WithoutStream(s)
             more == s.operation \in StreamOperations
  <2>1. /\ torn \in Sessions
        /\ torn = [s EXCEPT !.stream = FALSE, !.queue = torn.queue,
                            !.operation = IF more THEN Idle ELSE s.operation]
    BY WithoutStreamFacts
  <2> HIDE DEF torn, more
  <2>2. torn.phase = s.phase
    BY <2>1 DEF Sessions
  <2> QED BY <2>1, <2>2 DEF schedule_reconnect, GivenUp, Sessions, torn
<1>4. fail(Taken).phase # "created"
  <2> DEFINE u == [Taken EXCEPT !.lost = TRUE]
  <2>1. u \in Sessions /\ u.phase = "running"
    BY <1>2 DEF Sessions
  <2> HIDE DEF u
  <2>2. fail(Taken) = schedule_reconnect(u)
    BY DEF fail, u
  <2>3. schedule_reconnect(u).phase \in {"running", "ended"}
    BY <1>3, <2>1
  <2> QED BY <2>2, <2>3
<1>5. \A operation : Started(Taken, operation).phase # "created"
  BY <1>2 DEF Started, Sessions
<1>6. GivenUp(Taken).phase # "created"
  BY <1>2 DEF GivenUp, Sessions
<1>7. on_open(Taken).phase # "created"
  BY <1>2 DEF on_open, Started, Sessions
<1>8. ASSUME NEW asks \in BOOLEAN, on_message(asks)
      PROVE  session'.phase # "created"
  <2>1. "done" \in Outcomes
    BY DEF Outcomes
  <2>2. /\ Queued(Taken, "reconnect", "done") \in Sessions
        /\ Queued(Taken, "reconnect", "done").phase = "running"
    BY <1>2, <2>1, QueuedFacts DEF Sessions, Queued
  <2> QED BY <1>2, <1>8, <2>2 DEF on_message, Started, Sessions
<1>9. CASE OnReconnect
  <2> DEFINE u == [Taken EXCEPT !.attempt = 0]
  <2>1. u \in Sessions /\ u.phase = "running"
    BY <1>2, SessionAssumption, SMTT(60) DEF Sessions
  <2> HIDE DEF u
  <2>2. session' = Taken \/ session' = schedule_reconnect(u)
    BY <1>9 DEF OnReconnect, u
  <2>3. schedule_reconnect(u).phase \in {"running", "ended"}
    BY <1>3, <2>1
  <2> QED BY <1>2, <2>2, <2>3
<1>10. CASE OnTimer
  <2>1. session' = Taken \/ session' = connect(Taken)
    BY <1>10 DEF OnTimer
  <2> DEFINE torn == WithoutStream(Taken)
  <2>2. torn \in Sessions /\ torn.phase = "running"
    BY <1>2, <1>3, WithoutStreamFacts
  <2> HIDE DEF torn
  <2>3. Started([torn EXCEPT !.stream = TRUE], "resolve").phase = "running"
    BY <2>2 DEF Started, Sessions
  <2> QED BY <1>2, <1>6, <2>1, <2>3 DEF connect, torn
<1>11. CASE OnStop
  BY <1>2, <1>11 DEF OnStop, Sessions
<1>12. CASE OnReadError
  BY <1>2, <1>4, <1>12 DEF OnReadError
<1> QED BY <1>4, <1>5, <1>6, <1>7, <1>8, <1>9, <1>10, <1>11, <1>12
     DEF Handler, OnResolve, OnConnect, OnTlsHandshake, OnWsHandshake, OnSubscribe

-----------------------------------------------------------------------------
(***************************************************************************)
(* What is journalled.                                                     *)
(***************************************************************************)

\* One more record, and the rest as it was.
Extends(record) ==
  /\ \E S : journal' \in Seq(S)
  /\ Len(journal) \in Nat
  /\ Len(journal') = Len(journal) + 1
  /\ Len(journal') <= MaxRecords
  /\ \A i \in 1..Len(journal) : journal'[i] = journal[i]
  /\ journal'[Len(journal) + 1] = record

LEMMA JournalledFacts ==
  ASSUME Typed, NEW record, Journalled(record)
  PROVE  Extends(record)
<1>1. PICK S : journal \in Seq(S)
  BY DEF Typed
<1>2. /\ Len(journal) < MaxRecords
      /\ journal' = Append(journal, record)
  BY DEF Journalled
<1> DEFINE T == S \cup {record}
<1>3. journal \in Seq(T) /\ record \in T
  BY <1>1
<1> HIDE DEF T
<1>4. /\ journal' \in Seq(T)
      /\ Len(journal) \in Nat
      /\ Len(journal') = Len(journal) + 1
      /\ \A i \in 1..Len(journal) : journal'[i] = journal[i]
      /\ journal'[Len(journal) + 1] = record
  BY <1>2, <1>3, AppendProperties
<1>5. MaxRecords \in Nat
  BY RecorderAssumption
<1>6. \E R : journal' \in Seq(R)
  BY <1>4
<1> QED BY <1>2, <1>4, <1>5, <1>6 DEF Extends

\* The clock is read as a whole number while the journal has room.
LEMMA ReadingType ==
  ASSUME Typed, NEW at \in Readings, Len(journal) < MaxRecords
  PROVE  at \in Int
<1>1. Len(journal) \in 0..MaxRecords
  <2>1. PICK S : journal \in Seq(S)
    BY DEF Typed
  <2>2. Len(journal) \in Nat /\ MaxRecords \in Nat
    BY <2>1, RecorderAssumption
  <2> QED BY <2>2
<1>2. Ticks[Len(journal)] \subseteq Int
  BY <1>1, RecorderAssumption
<1> QED BY <1>2 DEF Readings, Typed

\* A record of the current connection keeps the journal numbered.
LEMMA RecordNumbered ==
  ASSUME Typed, Numbered, NEW record, Extends(record), record.connection = session.connections,
         session.connections \in Nat, session'.connections = session.connections,
         record.kind = "Message" => CurrentIsUnbroken
  PROVE  /\ \A i \in 1..Len(journal') : journal'[i].connection \in 0..session'.connections
         /\ record.kind = "Message" => CurrentIsUnbroken'
         /\ SameConnectionIsUnbroken'
<1>1. /\ Len(journal) \in Nat
      /\ Len(journal') = Len(journal) + 1
      /\ DOMAIN journal' = 1..Len(journal')
      /\ \A i \in 1..Len(journal) : journal'[i] = journal[i]
      /\ journal'[Len(journal) + 1] = record
  <2>1. PICK S : journal' \in Seq(S)
    BY DEF Extends
  <2> QED BY <2>1 DEF Extends
<1>2. \A i \in 1..Len(journal') : journal'[i].connection \in 0..session'.connections
  BY <1>1 DEF Numbered
<1>3. ASSUME record.kind = "Message"
      PROVE  CurrentIsUnbroken'
  BY <1>1, <1>3 DEF CurrentIsUnbroken
<1>4. SameConnectionIsUnbroken'
  <2> SUFFICES ASSUME NEW i \in 1..Len(journal'), NEW j \in 1..Len(journal'), i < j,
                      journal'[i].kind = "Message", journal'[j].kind = "Message",
                      journal'[i].connection = journal'[j].connection,
                      NEW k \in i..j
               PROVE  journal'[k].kind = "Message"
    BY <1>1 DEF SameConnectionIsUnbroken
  <2>1. CASE j <= Len(journal)
    <3>1. i \in 1..Len(journal) /\ j \in 1..Len(journal) /\ k \in 1..Len(journal)
      BY <1>1, <2>1
    <3>2. DOMAIN journal = 1..Len(journal)
      <4>1. PICK S : journal \in Seq(S)
        BY DEF Typed
      <4> QED BY <4>1
    <3>3. /\ journal[i].kind = "Message" /\ journal[j].kind = "Message"
          /\ journal[i].connection = journal[j].connection
          /\ journal'[k] = journal[k]
      BY <1>1, <3>1
    <3>4. SameConnectionIsUnbroken
      BY DEF Numbered
    <3>5. journal[k].kind = "Message"
      BY <3>1, <3>2, <3>3, <3>4, ZenonT(60) DEF SameConnectionIsUnbroken
    <3> QED BY <3>3, <3>5
  <2>2. CASE j = Len(journal) + 1
    <3>1. record.kind = "Message" /\ CurrentIsUnbroken
      BY <1>1, <2>2
    <3>2. i \in 1..Len(journal) /\ journal[i].connection = session.connections
      BY <1>1, <2>2
    <3>3. CASE k = j
      BY <3>3
    <3>4. CASE k = i
      BY <3>4
    <3>5. CASE i < k /\ k < j
      <4>1. k \in 1..Len(journal)
        BY <1>1, <2>2, <3>5
      <4> QED BY <1>1, <3>1, <3>2, <3>5, <4>1 DEF CurrentIsUnbroken
    <3> QED BY <3>3, <3>4, <3>5
  <2> QED BY <1>1, <2>1, <2>2
<1> QED BY <1>2, <1>3, <1>4

-----------------------------------------------------------------------------
(***************************************************************************)
(* The invariant is kept.                                                  *)
(***************************************************************************)

\* Of every record: its kind, its connection, its time and its payload.
LEMMA RecordFields ==
  ASSUME NEW kind, NEW at, NEW payload
  PROVE  /\ Record(kind, at, payload).kind = kind
         /\ Record(kind, at, payload).connection = session.connections
         /\ Record(kind, at, payload).at = at
         /\ Record(kind, at, payload).payload = payload
BY DEF Record

LEMMA ConnectionsType == ASSUME Sound(session) PROVE session.connections \in 0..MaxCount
BY DEF Sound, Sessions

\* What is typed stays typed when a record is journalled.
LEMMA TypedAppended ==
  ASSUME Typed, NEW record, Extends(record), record.kind \in RecordKinds,
         venue' \in [sequence : Nat, missed : BOOLEAN], clock' \in Int,
         collect' \in Collects, collect'.recording = collect.recording,
         state' \in States(Grid), finished' \in BOOLEAN
  PROVE  Typed'
<1>1. \A i \in 1..Len(journal') : journal'[i].kind \in RecordKinds
  BY DEF Typed, Extends
<1>2. Grid' = Grid
  BY DEF Grid
<1>3. state' \in States(Grid')
  BY <1>2
<1> QED BY <1>1, <1>3 DEF Typed, Extends, Grid, States, Collects

LEMMA TypedKept ==
  ASSUME Typed, venue' \in [sequence : Nat, missed : BOOLEAN], UNCHANGED <<clock, recorder>>
  PROVE  Typed'
BY DEF Typed, recorder, Grid, States, Collects

LEMMA StartKeeps ==
  ASSUME RInv, Start
  PROVE  Orderly(session') /\ Typed' /\ Begun' /\ Current' /\ Numbered'
<1> DEFINE record(at) == Record("SessionStarted", at, Metadata)
<1>1. PICK at \in Readings :
         /\ run
         /\ Journalled(record(at))
         /\ clock' = at
         /\ UNCHANGED <<venue, state, collect, finished, restarts>>
  BY DEF Start
<1>2. /\ Orderly(session')
      /\ session'.phase \in {"running", "ended"}
      /\ session'.connections = session.connections
      /\ ~Opened(session') /\ ~Owes(session', {"reconnect"})
  BY <1>1, RunFacts DEF RInv
<1>3. /\ venue = NothingSent
      /\ state = NewState
      /\ journal = <<>>
      /\ session.connections = 0
  BY <1>1 DEF RInv, Begun, run
<1>4. Extends(record(at)) /\ at \in Int
  BY <1>1, JournalledFacts, ReadingType DEF RInv, Journalled
<1>5. record(at).kind = "SessionStarted" /\ record(at).connection = session.connections
  BY RecordFields
<1> HIDE DEF record
<1>6. Typed'
  <2>1. record(at).kind \in RecordKinds
    BY <1>5 DEF RecordKinds
  <2> QED BY <1>1, <1>4, <2>1, TypedAppended DEF RInv, Typed
<1>7. Begun'
  BY <1>1, <1>2, <1>3 DEF Begun, NothingSent
<1>8. Current'
  <2>1. ~IsValid(state')
    BY <1>1, <1>3, NewStateType
  <2> QED BY <1>2, <2>1 DEF Current, BookIsCurrent, IsValid
<1>9. Numbered'
  <2>1. /\ \A i \in 1..Len(journal') : journal'[i].connection \in 0..session'.connections
        /\ SameConnectionIsUnbroken'
    BY <1>2, <1>3, <1>4, <1>5, RecordNumbered DEF RInv
  <2>2. Len(journal') = 1
    BY <1>3, <1>4 DEF Extends
  <2> QED BY <1>2, <1>3, <2>1, <2>2 DEF Numbered, Opened, Owes
<1> QED BY <1>2, <1>6, <1>7, <1>8, <1>9

LEMMA OnWorldKeeps ==
  ASSUME Prompt, RInv, OnWorld
  PROVE  Orderly(session') /\ Typed' /\ Begun' /\ Current' /\ Numbered'
<1>1. /\ Orderly(session')
      /\ session'.phase = session.phase
      /\ session'.stream = session.stream
      /\ session'.connections = session.connections
      /\ session.phase = "running" => (Opened(session') <=> Opened(session))
      /\ Owes(session', {"reconnect"}) <=> Owes(session, {"reconnect"})
  BY WorldFacts DEF RInv, OnWorld
<1>2. UNCHANGED <<venue, clock, recorder>>
  BY DEF OnWorld
<1>3. Typed'
  BY <1>2, TypedKept DEF RInv, Typed
<1>4. Begun'
  BY <1>1, <1>2 DEF RInv, Begun, recorder, NothingSent, NewState
<1>5. Current'
  BY <1>1, <1>2 DEF RInv, Current, BookIsCurrent, recorder, IsValid, Owes
<1>6. Numbered'
  <2>1. CurrentIsUnbroken => CurrentIsUnbroken'
    BY <1>1, <1>2 DEF CurrentIsUnbroken, recorder
  <2>2. SameConnectionIsUnbroken => SameConnectionIsUnbroken'
    BY <1>2 DEF SameConnectionIsUnbroken, recorder
  <2>3. journal' = journal
    BY <1>2 DEF recorder
  <2>4. session'.phase = "running" =>
          session'.connections + (IF Opened(session') THEN 0 ELSE 1) <= Len(journal')
    BY <1>1, <2>3 DEF RInv, Numbered
  <2> QED BY <1>1, <2>1, <2>2, <2>3, <2>4 DEF RInv, Numbered, Opened, Owes
<1> QED BY <1>1, <1>3, <1>4, <1>5, <1>6

\* A connection that is opened gets a number that no record has.
LEMMA OpensNumbered ==
  ASSUME Typed, Numbered, Sound(session), session.phase = "running", UNCHANGED journal,
         ~Opened(session), Opened(session'),
         session'.connections = Counted(session.connections)
  PROVE  Numbered'
<1>1. /\ session.connections \in Nat
      /\ Len(journal) \in Nat
      /\ session.connections + 1 <= Len(journal)
      /\ Len(journal) <= MaxCount
  <2>1. PICK S : journal \in Seq(S)
    BY DEF Typed
  <2>2. Len(journal) \in Nat /\ Len(journal) <= MaxRecords
    BY <2>1 DEF Typed
  <2>3. session.connections \in Nat
    BY ConnectionsType
  <2> QED BY <2>2, <2>3, RecorderAssumption, SessionAssumption DEF Numbered
<1>2. session'.connections = session.connections + 1
  BY <1>1, SessionAssumption DEF Counted
<1>3. \A i \in 1..Len(journal) : /\ journal[i].connection \in 0..session'.connections
                                 /\ journal[i].connection # session'.connections
  BY <1>1, <1>2 DEF Numbered
<1>4. CurrentIsUnbroken'
  BY <1>3 DEF CurrentIsUnbroken
<1>5. SameConnectionIsUnbroken'
  BY DEF Numbered, SameConnectionIsUnbroken
<1> QED BY <1>1, <1>2, <1>3, <1>4, <1>5 DEF Numbered, Opened, Owes

LEMMA OtherHandlerKeeps ==
  ASSUME RInv, OnOtherHandler
  PROVE  Orderly(session') /\ Typed' /\ Begun' /\ Current' /\ Numbered'
<1>0. /\ Sound(session) /\ Orderly(session) /\ Typed /\ Begun /\ Current /\ Numbered
      /\ session.connections \in Nat
  BY ConnectionsType DEF RInv
<1>1. /\ Orderly(session')
      /\ Advances \/ Loses \/ TearsDown \/ Dials \/ Ends
      /\ session'.phase # "created"
      /\ session.phase = "running"
  <2>1. OtherHandlers
    BY DEF OnOtherHandler, OtherHandlers
  <2>2. session.phase = "running"
    BY <2>1 DEF OtherHandlers, Handles, Running, OnResolve, OnConnect, OnTlsHandshake,
       OnWsHandshake, OnSubscribe, OnReadError, OnReconnect, OnTimer, OnStop
  <2> QED BY <1>0, <2>1, <2>2, HandlerFacts, HandlerStep, StaysBegun
<1>2. venue' = (IF session'.stream THEN venue ELSE NothingSent) /\ OnNotice
  BY DEF OnOtherHandler
<1>3. Begun' /\ venue' \in [sequence : Nat, missed : BOOLEAN]
  BY <1>0, <1>1, <1>2 DEF Begun, NothingSent, NewState, Typed
<1>4. ASSUME ~session'.lost
      PROVE  UNCHANGED <<clock, recorder>> /\ Typed'
  <2>1. UNCHANGED <<clock, recorder>>
    BY <1>2, <1>4 DEF OnNotice
  <2> QED BY <1>0, <1>3, <2>1, TypedKept
<1>5. ASSUME ~session'.lost, session'.connections = session.connections,
             session'.phase = "running" => (Opened(session') <=> Opened(session))
      PROVE  Numbered'
  <2>1. journal' = journal
    BY <1>4, <1>5 DEF recorder
  <2>2. CurrentIsUnbroken => CurrentIsUnbroken'
    BY <1>5, <2>1 DEF CurrentIsUnbroken
  <2>3. SameConnectionIsUnbroken'
    BY <1>0, <2>1 DEF Numbered, SameConnectionIsUnbroken
  <2>4. session'.phase = "running" =>
          session'.connections + (IF Opened(session') THEN 0 ELSE 1) <= Len(journal')
    BY <1>0, <1>1, <1>5, <2>1 DEF Numbered
  <2> QED BY <1>0, <1>1, <1>5, <2>1, <2>2, <2>3, <2>4 DEF Numbered, Opened, Owes
<1>6. CASE Advances
  <2>1. UNCHANGED <<clock, recorder>> /\ Typed'
    BY <1>4, <1>6 DEF Advances
  <2>2. Current'
    BY <1>0, <1>1, <1>2, <1>6, <2>1 DEF Advances, Current, BookIsCurrent, recorder, IsValid, Owes
  <2>3. Numbered'
    <3>1. CASE session'.connections = session.connections /\ (Opened(session') <=> Opened(session))
      BY <1>5, <1>6, <3>1 DEF Advances
    <3>2. CASE /\ ~Opened(session) /\ Opened(session')
               /\ session'.connections = Counted(session.connections)
      BY <1>0, <1>1, <2>1, <3>2, OpensNumbered DEF recorder
    <3> QED BY <1>6, <3>1, <3>2 DEF Advances
  <2> QED BY <1>1, <1>3, <2>1, <2>2, <2>3
<1>7. CASE Loses
  <2> DEFINE record(at) == Record("ConnectionLost", at, NoPayload)
  <2>1. PICK at \in Readings :
           /\ clock' = at
           /\ Journalled(record(at))
           /\ state' = Market(Grid)!on_disconnected(state, at)
           /\ UNCHANGED <<collect, finished, restarts>>
    BY <1>2, <1>7 DEF OnNotice, Loses
  <2>2. Extends(record(at)) /\ at \in Int
    BY <1>0, <2>1, JournalledFacts, ReadingType DEF Journalled
  <2>3. record(at).kind = "ConnectionLost" /\ record(at).connection = session.connections
    BY RecordFields
  <2> HIDE DEF record
  <2>4. state' \in States(Grid) /\ ~IsValid(state')
    BY <1>0, <2>1, <2>2, DisconnectedFacts DEF Typed
  <2>5. Typed'
    <3>1. record(at).kind \in RecordKinds
      BY <2>3 DEF RecordKinds
    <3> QED BY <1>0, <1>3, <2>1, <2>2, <2>4, <3>1, TypedAppended DEF Typed
  <2>6. Current'
    <3>1. ~Owes(session', {"reconnect"})
      BY <1>7 DEF Loses
    <3> QED BY <2>4, <3>1 DEF Current, BookIsCurrent, IsValid, Owes
  <2>7. Numbered'
    <3>1. /\ session'.connections = session.connections
          /\ ~Opened(session')
      BY <1>7 DEF Loses
    <3>2. /\ \A i \in 1..Len(journal') : journal'[i].connection \in 0..session'.connections
          /\ SameConnectionIsUnbroken'
      BY <1>0, <2>2, <2>3, <3>1, RecordNumbered
    <3>3. session'.connections + 1 <= Len(journal')
      BY <1>0, <1>1, <2>2, <3>1 DEF Numbered, Extends
    <3> QED BY <3>1, <3>2, <3>3 DEF Numbered, Opened, Owes
  <2> QED BY <1>1, <1>3, <2>5, <2>6, <2>7
<1>8. CASE TearsDown
  <2>1. UNCHANGED <<clock, recorder>> /\ Typed'
    BY <1>4, <1>8 DEF TearsDown
  <2>2. ~IsValid(state) /\ ~Owes(session', {"reconnect"})
    BY <1>0, <1>1, <1>8 DEF TearsDown, Current
  <2>3. Current'
    BY <2>1, <2>2 DEF Current, BookIsCurrent, recorder, IsValid, Owes
  <2>4. Numbered'
    BY <1>5, <1>8 DEF TearsDown
  <2> QED BY <1>1, <1>3, <2>1, <2>3, <2>4
<1>9. CASE Dials
  <2>1. UNCHANGED <<clock, recorder>> /\ Typed'
    BY <1>4, <1>9 DEF Dials
  <2>2. ~IsValid(state) /\ ~Owes(session', {"reconnect"})
    BY <1>0, <1>1, <1>9 DEF Dials, Current, BookIsCurrent
  <2>3. Current'
    BY <2>1, <2>2 DEF Current, BookIsCurrent, recorder, IsValid, Owes
  <2>4. Numbered'
    BY <1>5, <1>9 DEF Dials
  <2> QED BY <1>1, <1>3, <2>1, <2>3, <2>4
<1>10. CASE Ends
  <2>1. UNCHANGED <<clock, recorder>> /\ Typed'
    BY <1>4, <1>10 DEF Ends
  <2>2. Current'
    BY <1>0, <1>10, <2>1 DEF Ends, Current, BookIsCurrent, recorder, IsValid
  <2>3. Numbered'
    BY <1>5, <1>10 DEF Ends
  <2> QED BY <1>1, <1>3, <2>1, <2>2, <2>3
<1> QED BY <1>1, <1>6, <1>7, <1>8, <1>9, <1>10

LEMMA ReadyOwes ==
  ASSUME session \in Sessions
  PROVE  "reconnect" \in ReadyHandlers <=> Owes(session, {"reconnect"})
<1>1. DOMAIN session.queue = 1..Len(session.queue)
  <2>1. session.queue \in Seq(Owed)
    BY DEF Sessions
  <2> QED BY <2>1
<1> QED BY <1>1 DEF ReadyHandlers, Owes

\* What a message does to the journal and the connection, readable or not.
LEMMA ReadNumbered ==
  ASSUME RInv, NEW asks \in BOOLEAN, on_message(asks), NEW record, Extends(record),
         record.kind = "Message", record.connection = session.connections
  PROVE  /\ Orderly(session')
         /\ Numbered'
         /\ session.phase = "running" /\ session'.phase = "running"
         /\ session.stream /\ session'.stream
         /\ ~Owes(session, {"reconnect"})
         /\ Owes(session', {"reconnect"}) <=> asks
<1>1. /\ Orderly(session')
      /\ session.phase = "running" /\ session'.phase = "running"
      /\ session.stream /\ session'.stream
      /\ session'.connections = session.connections
      /\ Opened(session) /\ Opened(session')
      /\ ~Owes(session, {"reconnect"})
      /\ Owes(session', {"reconnect"}) <=> asks
  BY MessageFacts DEF RInv
<1>2. session.connections \in Nat
  BY ConnectionsType DEF RInv
<1>3. CurrentIsUnbroken
  BY <1>1 DEF RInv, Numbered
<1>4. /\ \A i \in 1..Len(journal') : journal'[i].connection \in 0..session'.connections
      /\ CurrentIsUnbroken'
      /\ SameConnectionIsUnbroken'
  BY <1>1, <1>2, <1>3, RecordNumbered DEF RInv
<1>5. session'.connections <= Len(journal')
  BY <1>1, <1>2 DEF RInv, Numbered, Extends
<1>6. Numbered'
  BY <1>1, <1>2, <1>4, <1>5 DEF Numbered, Opened, Owes
<1> QED BY <1>1, <1>6

\* Whether the book trusts what it is told, and whether a reconnect is asked for.
LEMMA ToldFacts ==
  ASSUME RInv, NEW message \in NextSnapshots \cup NextDeltas \cup NextOthers, NEW at \in Int,
         session.phase = "running", ~Owes(session, {"reconnect"}), session.stream,
         NEW event, event = Normalized(message, Convention),
         NEW after, after = Market(Grid)!apply(state, Adjusted(event), at),
         NEW invalidates \in BOOLEAN,
         invalidates <=> Market(Grid)!invalidates_book(
                           Market(Grid)!Rejection(state, Adjusted(event))),
         NEW asks \in BOOLEAN, asks <=> invalidates /\ ~StillRequested(event),
         NEW told \in [sequence : Nat, missed : BOOLEAN],
         IF message.type \in Market(Grid)!OtherEvents THEN told = venue
         ELSE /\ told.sequence = message.sequence
              /\ told.missed <=> /\ message.type = "orderbook_delta"
                                 /\ \/ venue.missed
                                    \/ message.sequence # venue.sequence + 1
  PROVE  /\ after \in States(Grid)
         /\ IsValid(after) =>
              /\ told.sequence > 0
              /\ IF told.missed THEN after.book.last_sequence < told.sequence
                 ELSE after.book.last_sequence = told.sequence
              /\ SequenceShift(event) = 0
              /\ ~StillRequested(event)
         /\ asks => ~IsValid(after)
         /\ NeverLeftInvalid /\ told.sequence > 0 /\ ~IsValid(after) => asks
<1>0. /\ state \in States(Grid)
      /\ collect \in Collects
      /\ collect.recording \in Recordings
      /\ collect.sequence_shift \in {0, 1}
      /\ venue \in [sequence : Nat, missed : BOOLEAN]
      /\ venue.sequence \in Nat
  BY DEF RInv, Typed, Collects
<1>1. IsValid(state) =>
        /\ venue.sequence > 0
        /\ IF venue.missed THEN state.book.last_sequence < venue.sequence
           ELSE state.book.last_sequence = venue.sequence
        /\ collect.sequence_shift = 0
        /\ ~collect.recovery_requested
  BY DEF RInv, Current, BookIsCurrent
<1>2. NeverLeftInvalid /\ venue.sequence > 0 => IsValid(state)
  <2>1. "reconnect" \notin ReadyHandlers
    BY ReadyOwes DEF RInv, Sound
  <2> QED BY <2>1 DEF NeverLeftInvalid, Connected
<1>3. CASE message \in NextSnapshots
  <2>1. /\ venue.sequence = 0
        /\ message.type = "orderbook_snapshot"
        /\ message.sequence = 1
        /\ event.type = "orderbook_snapshot"
        /\ Adjusted(event) = event
        /\ SnapshotEvent(Grid, event)
        /\ event.sequence = 1
    BY <1>0, <1>3, SnapshotSent
  <2>2. /\ after \in States(Grid)
        /\ IsValid(after) <=> ~invalidates
        /\ IsValid(after) => after.book.last_sequence = 1
    BY <1>0, <2>1, SnapshotFacts
  <2>3. told.sequence = 1 /\ ~told.missed
    BY <2>1 DEF Market!OtherEvents
  <2>4. SequenceShift(event) = 0 /\ ~StillRequested(event)
    BY <2>1 DEF SequenceShift, StillRequested, IsSnapshot
  <2>5. asks <=> ~IsValid(after)
    BY <2>2, <2>4
  <2> QED BY <2>2, <2>3, <2>4, <2>5
<1>4. CASE message \in NextDeltas
  <2>1. /\ venue.sequence # 0
        /\ message.type = "orderbook_delta"
        /\ message.sequence - venue.sequence \in {1, 2}
        /\ message.sequence \in Nat
        /\ event.type = "orderbook_delta"
        /\ DeltaEvent(Grid, Adjusted(event))
        /\ Adjusted(event).sequence = message.sequence + SequenceShift(event)
    BY <1>0, <1>4, DeltaSent
  <2>2. /\ after \in States(Grid)
        /\ IsValid(state) => (IsValid(after) <=> ~invalidates)
        /\ ~IsValid(state) => ~IsValid(after) /\ ~invalidates
        /\ IsValid(after) => /\ state.book.last_sequence \in Nat
                             /\ Adjusted(event).sequence = state.book.last_sequence + 1
                             /\ after.book.last_sequence = Adjusted(event).sequence
    BY <1>0, <2>1, DeltaFacts
  <2>3. /\ told.sequence = message.sequence
        /\ told.missed <=> venue.missed \/ message.sequence # venue.sequence + 1
    BY <2>1 DEF Market!OtherEvents
  <2>4. SequenceShift(event) \in {0, 1}
    BY <1>0, ShiftType
  <2>5. StillRequested(event) <=> collect.recovery_requested
    BY <2>1 DEF StillRequested, IsSnapshot
  <2>6. ASSUME IsValid(after)
        PROVE  /\ ~venue.missed
               /\ message.sequence = venue.sequence + 1
               /\ SequenceShift(event) = 0
               /\ after.book.last_sequence = message.sequence
    BY <1>0, <1>1, <2>1, <2>2, <2>4, <2>6
  <2>7. venue.sequence > 0 /\ told.sequence > 0
    BY <1>0, <2>1, <2>3
  <2> QED BY <1>0, <1>1, <1>2, <2>1, <2>2, <2>3, <2>5, <2>6, <2>7
<1>5. CASE message \in NextOthers
  <2>1. /\ event = message
        /\ message.type \in Market(Grid)!OtherEvents
        /\ message.type # "orderbook_snapshot" /\ message.type # "orderbook_delta"
        /\ Adjusted(event) = event
    BY <1>5, OtherSent
  <2>2. /\ after \in States(Grid)
        /\ after.book = state.book
        /\ ~invalidates
    BY <1>0, <2>1, OtherFacts
  <2>3. told = venue
    BY <2>1
  <2>4. SequenceShift(event) = collect.sequence_shift
        /\ (StillRequested(event) <=> collect.recovery_requested)
    BY <2>1 DEF SequenceShift, StillRequested, IsSnapshot, IsDelta
  <2> QED BY <1>0, <1>1, <1>2, <2>2, <2>3, <2>4 DEF IsValid
<1> QED BY <1>3, <1>4, <1>5

LEMMA ReadyOwesNext ==
  ASSUME session' \in Sessions
  PROVE  ("reconnect" \in ReadyHandlers)' <=> Owes(session', {"reconnect"})
<1>1. DOMAIN session'.queue = 1..Len(session'.queue)
  <2>1. session'.queue \in Seq(Owed)
    BY DEF Sessions
  <2> QED BY <2>1
<1> QED BY <1>1 DEF ReadyHandlers, Owes

\* What the venue has sent, once the message is sent.
LEMMA SentFacts ==
  ASSUME RInv, NEW message \in NextSnapshots \cup NextDeltas \cup NextOthers,
         NEW readable \in BOOLEAN, NEW skipped \in BOOLEAN,
         skipped <=> IsDelta(message) /\ message.sequence # venue.sequence + 1,
         Sent(message, readable, skipped)
  PROVE  /\ venue' \in [sequence : Nat, missed : BOOLEAN]
         /\ IF message.type \in Market(Grid)!OtherEvents THEN venue' = venue
            ELSE /\ venue'.sequence = message.sequence
                 /\ venue'.missed <=> /\ message.type = "orderbook_delta"
                                      /\ \/ venue.missed
                                         \/ ~readable
                                         \/ message.sequence # venue.sequence + 1
<1>1. /\ venue \in [sequence : Nat, missed : BOOLEAN]
      /\ collect \in Collects
      /\ collect.recording \in Recordings
      /\ collect.sequence_shift \in {0, 1}
  BY DEF RInv, Typed, Collects
<1>2. venue.sequence \in Nat /\ venue.missed \in BOOLEAN
  BY <1>1
<1>3. message.type \notin Market(Grid)!OtherEvents => message.sequence \in Nat
  BY <1>1, <1>2, SnapshotSent, DeltaSent, OtherSent
<1> DEFINE missed == message.type = "orderbook_delta" /\ (venue.missed \/ ~readable \/ skipped)
<1>4. venue' = IF message.type \in Market(Grid)!OtherEvents THEN venue
               ELSE [sequence |-> message.sequence, missed |-> missed]
  BY DEF Sent
<1>5. missed \in BOOLEAN
  OBVIOUS
<1>6. missed <=> /\ message.type = "orderbook_delta"
                 /\ \/ venue.missed
                    \/ ~readable
                    \/ message.sequence # venue.sequence + 1
  BY DEF IsDelta
<1> HIDE DEF missed
<1> QED BY <1>1, <1>3, <1>4, <1>5, <1>6

LEMMA CollectsAfter ==
  ASSUME collect \in Collects, NEW event, NEW asks \in BOOLEAN,
         collect' = [collect EXCEPT
                       !.recovery_requested = StillRequested(event) \/ asks,
                       !.delta_count        = DeltaCount(event),
                       !.sequence_shift     = SequenceShift(event),
                       !.messages_received  = @ + 1]
  PROVE  /\ collect' \in Collects
         /\ collect'.recording = collect.recording
         /\ collect'.recovery_requested <=> StillRequested(event) \/ asks
         /\ collect'.sequence_shift = SequenceShift(event)
         /\ collect'.delta_count = DeltaCount(event)
         /\ collect'.messages_received = collect.messages_received + 1
         /\ collect'.parse_failures = collect.parse_failures
<1>1. /\ collect.delta_count \in Nat /\ collect.messages_received \in Nat
      /\ collect.sequence_shift \in {0, 1}
  BY DEF Collects
<1>2. DeltaCount(event) \in Nat
  BY <1>1 DEF DeltaCount
<1>3. SequenceShift(event) \in {0, 1}
  BY <1>1, ShiftType
<1>4. (StillRequested(event) \/ asks) \in BOOLEAN
  OBVIOUS
<1>5. collect.messages_received + 1 \in Nat
  BY <1>1
<1> QED BY <1>2, <1>3, <1>4, <1>5 DEF Collects

\* A message that can be read: the book, the shift and the recovery go together.
LEMMA MessageKeeps ==
  ASSUME RInv, Sound(session'), NEW message \in NextSnapshots \cup NextDeltas \cup NextOthers,
         NEW skipped \in BOOLEAN,
         skipped <=> IsDelta(message) /\ message.sequence # venue.sequence + 1,
         OnMessage(message), Sent(message, TRUE, skipped)
  PROVE  /\ Orderly(session') /\ Typed' /\ Begun' /\ Current' /\ Numbered'
         /\ NeverLeftInvalid => NeverLeftInvalid'
<1> DEFINE event == Normalized(message, Convention)
           verdict == Market(Grid)!Rejection(state, Adjusted(event))
           invalidates == Market(Grid)!invalidates_book(verdict)
           asks == invalidates /\ ~StillRequested(event)
           record(at) == Record("Message", at, message)
<1>1. PICK at \in Readings :
         /\ on_message(asks)
         /\ clock' = at
         /\ Journalled(record(at))
         /\ state' = Market(Grid)!apply(state, Adjusted(event), at)
         /\ collect' = [collect EXCEPT
                          !.recovery_requested = StillRequested(event) \/ asks,
                          !.delta_count        = DeltaCount(event),
                          !.sequence_shift     = SequenceShift(event),
                          !.messages_received  = @ + 1]
         /\ UNCHANGED <<finished, restarts>>
  BY DEF OnMessage
<1>2. invalidates \in BOOLEAN /\ asks \in BOOLEAN
  BY DEF Market!invalidates_book
<1>3. /\ event = Normalized(message, Convention)
      /\ invalidates <=> Market(Grid)!invalidates_book(
                           Market(Grid)!Rejection(state, Adjusted(event)))
      /\ asks <=> invalidates /\ ~StillRequested(event)
  OBVIOUS
<1> HIDE DEF event, verdict, invalidates, asks
<1>4. Extends(record(at)) /\ at \in Int
  BY <1>1, JournalledFacts, ReadingType DEF RInv, Journalled
<1>5. record(at).kind = "Message" /\ record(at).connection = session.connections
  BY RecordFields
<1> HIDE DEF record
<1>6. /\ Orderly(session')
      /\ Numbered'
      /\ session.phase = "running" /\ session'.phase = "running"
      /\ session.stream /\ session'.stream
      /\ ~Owes(session, {"reconnect"})
      /\ Owes(session', {"reconnect"}) <=> asks
  BY <1>1, <1>2, <1>4, <1>5, ReadNumbered
<1>7. /\ venue' \in [sequence : Nat, missed : BOOLEAN]
      /\ IF message.type \in Market(Grid)!OtherEvents THEN venue' = venue
         ELSE /\ venue'.sequence = message.sequence
              /\ venue'.missed <=> /\ message.type = "orderbook_delta"
                                   /\ \/ venue.missed
                                      \/ message.sequence # venue.sequence + 1
  <2>1. TRUE \in BOOLEAN
    OBVIOUS
  <2> QED BY <2>1, SentFacts
<1>8. /\ state' \in States(Grid)
      /\ IsValid(state') =>
           /\ venue'.sequence > 0
           /\ IF venue'.missed THEN state'.book.last_sequence < venue'.sequence
              ELSE state'.book.last_sequence = venue'.sequence
           /\ SequenceShift(event) = 0
           /\ ~StillRequested(event)
      /\ asks => ~IsValid(state')
      /\ NeverLeftInvalid /\ venue'.sequence > 0 /\ ~IsValid(state') => asks
  BY <1>1, <1>2, <1>3, <1>4, <1>6, <1>7, ToldFacts
<1>9. /\ collect' \in Collects
      /\ collect'.recording = collect.recording
      /\ collect'.recovery_requested <=> StillRequested(event) \/ asks
      /\ collect'.sequence_shift = SequenceShift(event)
  BY <1>1, <1>2, CollectsAfter DEF RInv, Typed
<1>10. Typed'
  <2>1. record(at).kind \in RecordKinds
    BY <1>5 DEF RecordKinds
  <2> QED BY <1>1, <1>4, <1>7, <1>8, <1>9, <2>1, TypedAppended DEF RInv, Typed
<1>11. Begun'
  BY <1>6 DEF Begun
<1>12. Current'
  BY <1>6, <1>8, <1>9 DEF Current, BookIsCurrent, IsValid, Owes
<1>13. NeverLeftInvalid => NeverLeftInvalid'
  <2>1. ("reconnect" \in ReadyHandlers)' <=> Owes(session', {"reconnect"})
    BY ReadyOwesNext DEF Sound
  <2> QED BY <1>6, <1>8, <2>1 DEF NeverLeftInvalid, Connected, IsValid
<1> QED BY <1>6, <1>10, <1>11, <1>12, <1>13

\* A message that cannot be read is taken for one that was missed.
LEMMA UnreadableKeeps ==
  ASSUME RInv, Sound(session'), NEW message \in NextSnapshots \cup NextDeltas \cup NextOthers,
         NEW skipped \in BOOLEAN,
         skipped <=> IsDelta(message) /\ message.sequence # venue.sequence + 1,
         message.type \in UnreadableKinds, OnUnreadable, Sent(message, FALSE, skipped)
  PROVE  /\ Orderly(session') /\ Typed' /\ Begun' /\ Current' /\ Numbered'
         /\ "orderbook_snapshot" \notin UnreadableKinds /\ NeverLeftInvalid
              => NeverLeftInvalid'
<1> DEFINE record(at) == Record("Message", at, Unreadable)
<1>1. PICK at \in Readings :
         /\ on_message(FALSE)
         /\ clock' = at
         /\ Journalled(record(at))
         /\ collect' = [collect EXCEPT !.messages_received = @ + 1, !.parse_failures = @ + 1]
         /\ UNCHANGED <<state, finished, restarts>>
  BY DEF OnUnreadable
<1>2. Extends(record(at)) /\ at \in Int
  BY <1>1, JournalledFacts, ReadingType DEF RInv, Journalled
<1>3. record(at).kind = "Message" /\ record(at).connection = session.connections
  BY RecordFields
<1> HIDE DEF record
<1>4. /\ Orderly(session')
      /\ Numbered'
      /\ session.phase = "running" /\ session'.phase = "running"
      /\ session.stream /\ session'.stream
      /\ ~Owes(session, {"reconnect"})
      /\ ~Owes(session', {"reconnect"})
  <2>1. FALSE \in BOOLEAN
    OBVIOUS
  <2> QED BY <1>1, <1>2, <1>3, <2>1, ReadNumbered
<1>5. /\ venue' \in [sequence : Nat, missed : BOOLEAN]
      /\ IF message.type \in Market(Grid)!OtherEvents THEN venue' = venue
         ELSE /\ venue'.sequence = message.sequence
              /\ venue'.missed <=> message.type = "orderbook_delta"
  <2>1. FALSE \in BOOLEAN
    OBVIOUS
  <2> QED BY <2>1, SentFacts
<1>6. /\ venue \in [sequence : Nat, missed : BOOLEAN]
      /\ venue.sequence \in Nat /\ venue.missed \in BOOLEAN
      /\ collect \in Collects
      /\ collect.recording \in Recordings
      /\ collect.sequence_shift \in {0, 1}
      /\ state \in States(Grid)
  BY DEF RInv, Typed, Collects
<1>7. IsValid(state) =>
        /\ venue.sequence > 0
        /\ IF venue.missed THEN state.book.last_sequence < venue.sequence
           ELSE state.book.last_sequence = venue.sequence
        /\ collect.sequence_shift = 0
        /\ ~collect.recovery_requested
  BY <1>4 DEF RInv, Current, BookIsCurrent
<1>8. IsValid(state) => state.book.last_sequence \in Nat
  BY <1>6 DEF IsValid, States, Market!is_valid, Market!Books, Market!ValidBooks,
     Market!AwaitingBook
<1>9. IsValid(state) =>
        /\ venue'.sequence > 0
        /\ IF venue'.missed THEN state.book.last_sequence < venue'.sequence
           ELSE state.book.last_sequence = venue'.sequence
  <2>1. CASE message \in NextSnapshots
    BY <1>6, <1>7, <2>1, SnapshotSent
  <2>2. CASE message \in NextDeltas
    <3>1. /\ message.type = "orderbook_delta"
          /\ message.sequence - venue.sequence \in {1, 2}
          /\ message.sequence \in Nat
      BY <1>6, <2>2, DeltaSent
    <3>2. venue'.missed /\ venue'.sequence > venue.sequence
      BY <1>5, <1>6, <3>1 DEF Market!OtherEvents
    <3> QED BY <1>5, <1>6, <1>7, <1>8, <3>1, <3>2
  <2>3. CASE message \in NextOthers
    BY <1>5, <1>7, <2>3, OtherSent
  <2> QED BY <2>1, <2>2, <2>3
<1>10. /\ collect' \in Collects
       /\ collect'.recording = collect.recording
       /\ collect'.recovery_requested = collect.recovery_requested
       /\ collect'.sequence_shift = collect.sequence_shift
  <2>1. collect.messages_received + 1 \in Nat /\ collect.parse_failures + 1 \in Nat
    BY <1>6 DEF Collects
  <2> QED BY <1>1, <1>6, <2>1 DEF Collects
<1>11. Typed'
  <2>1. record(at).kind \in RecordKinds
    BY <1>3 DEF RecordKinds
  <2> QED BY <1>1, <1>2, <1>5, <1>6, <1>10, <2>1, TypedAppended DEF RInv, Typed
<1>12. Begun'
  BY <1>4 DEF Begun
<1>13. Current'
  BY <1>1, <1>4, <1>7, <1>9, <1>10 DEF Current, BookIsCurrent, IsValid, Owes
<1>14. ASSUME "orderbook_snapshot" \notin UnreadableKinds, NeverLeftInvalid
       PROVE  NeverLeftInvalid'
  <2>1. venue'.sequence > 0 => venue.sequence > 0
    <3>1. message \notin NextSnapshots
      BY <1>6, <1>14, SnapshotSent
    <3> QED BY <1>5, <1>6, <3>1, DeltaSent, OtherSent
  <2>2. "reconnect" \notin ReadyHandlers
    BY <1>4, ReadyOwes DEF RInv, Sound
  <2>3. venue.sequence > 0 => IsValid(state)
    BY <1>4, <1>14, <2>2 DEF NeverLeftInvalid, Connected
  <2> QED BY <1>1, <2>1, <2>3 DEF NeverLeftInvalid, IsValid
<1> QED BY <1>4, <1>11, <1>12, <1>13, <1>14

\* The session is over when the footer is written.
LEMMA FinishKeeps ==
  ASSUME RInv, Finish
  PROVE  Orderly(session') /\ Typed' /\ Begun' /\ Current' /\ Numbered'
<1> DEFINE record(at) == Record("SessionEnded", at, Footer(state'))
<1>1. PICK at \in Readings :
         /\ Returned
         /\ clock' = at
         /\ state' = Market(Grid)!finish(state, at)
         /\ Journalled(record(at))
         /\ finished' = TRUE
         /\ UNCHANGED <<session, venue, collect, restarts>>
  BY DEF Finish
<1>2. session.phase = "ended"
  <2>1. Sound(session)
    BY DEF RInv
  <2>2. session.phase = "running" => ~OutOfWork
    BY <2>1 DEF Sound, GoesOn, OutOfWork
  <2> QED BY <1>1, <2>2 DEF Returned
<1>3. Extends(record(at)) /\ at \in Int
  BY <1>1, JournalledFacts, ReadingType DEF RInv, Journalled
<1>4. record(at).kind = "SessionEnded" /\ record(at).connection = session.connections
  BY RecordFields
<1> HIDE DEF record
<1>5. state' \in States(Grid) /\ state'.book = state.book
  BY <1>1, <1>3, FinishFacts DEF RInv, Typed
<1>6. Typed'
  <2>1. record(at).kind \in RecordKinds
    BY <1>4 DEF RecordKinds
  <2>2. finished' \in BOOLEAN
    BY <1>1
  <2> QED BY <1>1, <1>3, <1>5, <2>1, <2>2, TypedAppended DEF RInv, Typed
<1>7. Begun'
  BY <1>1, <1>2 DEF RInv, Begun, NothingSent
<1>8. Current'
  BY <1>1, <1>2, <1>5 DEF RInv, Current, BookIsCurrent, IsValid
<1>9. Numbered'
  <2>1. session.connections \in Nat
    BY ConnectionsType DEF RInv
  <2>2. /\ \A i \in 1..Len(journal') : journal'[i].connection \in 0..session'.connections
        /\ SameConnectionIsUnbroken'
    BY <1>1, <1>3, <1>4, <2>1, RecordNumbered DEF RInv
  <2> QED BY <1>1, <1>2, <2>2 DEF Numbered
<1>10. Orderly(session')
  BY <1>1 DEF RInv
<1> QED BY <1>6, <1>7, <1>8, <1>9, <1>10

LEMMA ReadKeeps ==
  ASSUME RInv, Sound(session'), OnRead
  PROVE  /\ Orderly(session') /\ Typed' /\ Begun' /\ Current' /\ Numbered'
         /\ "orderbook_snapshot" \notin UnreadableKinds /\ NeverLeftInvalid
              => NeverLeftInvalid'
<1>1. PICK message \in NextSnapshots \cup NextDeltas \cup NextOthers :
         LET skipped == IsDelta(message) /\ message.sequence # venue.sequence + 1
         IN  \/ OnMessage(message) /\ Sent(message, TRUE, skipped)
             \/ /\ message.type \in UnreadableKinds
                /\ OnUnreadable
                /\ Sent(message, FALSE, skipped)
  BY DEF OnRead
<1> DEFINE skipped == IsDelta(message) /\ message.sequence # venue.sequence + 1
<1>2. skipped \in BOOLEAN
  OBVIOUS
<1>3. skipped <=> IsDelta(message) /\ message.sequence # venue.sequence + 1
  OBVIOUS
<1> HIDE DEF skipped
<1>4. CASE OnMessage(message) /\ Sent(message, TRUE, skipped)
  BY <1>2, <1>3, <1>4, MessageKeeps
<1>5. CASE message.type \in UnreadableKinds /\ OnUnreadable /\ Sent(message, FALSE, skipped)
  BY <1>2, <1>3, <1>5, UnreadableKeeps
<1> QED BY <1>1, <1>4, <1>5 DEF skipped

LEMMA RStart == RecorderInit => RInv
<1> SUFFICES ASSUME RecorderInit
             PROVE  RInv
  OBVIOUS
<1>1. PICK trust_store_ready \in BOOLEAN : session = Created(trust_store_ready)
  BY DEF RecorderInit, Init
<1>2. Sound(session)
  BY SoundInit DEF RecorderInit, IInv
<1>3. /\ session.phase = "created"
      /\ ~session.stream
      /\ session.connections = 0
  BY <1>1 DEF Created
<1>4. Orderly(session)
  BY <1>3 DEF Orderly
<1>5. PICK recording \in Recordings : collect = NewCollect(recording)
  BY DEF RecorderInit
<1>6. collect \in Collects
  BY <1>5 DEF NewCollect, Collects
<1>7. state \in States(Grid) /\ ~IsValid(state) /\ state = NewState
  BY NewStateType DEF RecorderInit
<1>8. journal \in Seq({}) /\ Len(journal) = 0
  BY DEF RecorderInit
<1>9. Typed
  <2>1. venue \in [sequence : Nat, missed : BOOLEAN]
    BY DEF RecorderInit, NothingSent
  <2>2. clock \in Int
    BY DEF RecorderInit
  <2>6. finished \in BOOLEAN
    BY DEF RecorderInit
  <2>3. Len(journal) <= MaxRecords
    BY <1>8, RecorderAssumption
  <2>4. \E S : journal \in Seq(S)
    BY <1>8
  <2>5. \A i \in 1..Len(journal) : journal[i].kind \in RecordKinds
    BY <1>8
  <2> QED BY <1>6, <1>7, <2>1, <2>2, <2>3, <2>4, <2>5, <2>6 DEF Typed
<1>10. Begun
  BY <1>3, <1>7 DEF Begun, RecorderInit
<1>11. Current
  BY <1>3, <1>7 DEF Current, BookIsCurrent
<1>12. Numbered
  <2>1. DOMAIN journal = {}
    BY DEF RecorderInit
  <2> QED BY <1>3, <1>8, <2>1 DEF Numbered, SameConnectionIsUnbroken
<1> QED BY <1>2, <1>4, <1>9, <1>10, <1>11, <1>12 DEF RInv

LEMMA RStep == ASSUME Prompt PROVE RInv /\ [RecorderNext]_recorderVars => RInv'
<1> SUFFICES ASSUME RInv, [RecorderNext]_recorderVars
             PROVE  RInv'
  OBVIOUS
<1>1. CASE RecorderNext
  <2>1. Sound(session')
    BY <1>1, SessionStaysSound DEF RInv
  <2>2. Orderly(session') /\ Typed' /\ Begun' /\ Current' /\ Numbered'
    BY <1>1, <2>1, StartKeeps, OnWorldKeeps, OtherHandlerKeeps, ReadKeeps, FinishKeeps
       DEF RecorderNext
  <2>3. Sound(session)' /\ Orderly(session)'
    BY <2>1, <2>2 DEF Sound, Orderly, Sessions, Owed, OnlyStops, AtMostOne,
       AbortedIsWaitedFor, GoesOn, ReconnectFindsTheRead, Carries, Owes
  <2> QED BY <2>2, <2>3 DEF RInv
<1>2. CASE UNCHANGED recorderVars
  <2>1. UNCHANGED <<session, venue, clock, state, collect, journal, finished, restarts>>
    BY <1>2 DEF recorderVars, recorder
  <2>2. Sound(session)' /\ Orderly(session)'
    BY <2>1 DEF RInv, Sound, Orderly, Sessions, Owed, OnlyStops, AtMostOne,
       AbortedIsWaitedFor, GoesOn, ReconnectFindsTheRead, Carries, Owes
  <2>3. Typed'
    BY <2>1, TypedKept DEF RInv, Typed, recorder
  <2>4. Begun'
    BY <2>1 DEF RInv, Begun, NothingSent, NewState
  <2>5. Current'
    BY <2>1 DEF RInv, Current, BookIsCurrent, IsValid, Owes
  <2>6. Numbered'
    BY <2>1 DEF RInv, Numbered, CurrentIsUnbroken, SameConnectionIsUnbroken, Opened, Owes
  <2> QED BY <2>2, <2>3, <2>4, <2>5, <2>6 DEF RInv
<1> QED BY <1>1, <1>2

\* A recovery is dropped only when the connection is, and asked for at most once
\* on each.
LEMMA RecoveryStep ==
  ASSUME Prompt, "orderbook_snapshot" \notin UnreadableKinds
  PROVE  RInv /\ NeverLeftInvalid /\ [RecorderNext]_recorderVars => NeverLeftInvalid'
<1> SUFFICES ASSUME RInv, NeverLeftInvalid, [RecorderNext]_recorderVars
             PROVE  NeverLeftInvalid'
  OBVIOUS
<1>1. Sound(session) /\ session \in Sessions /\ Orderly(session) /\ Begun
  BY DEF RInv, Sound
<1>2. /\ "reconnect" \in ReadyHandlers <=> Owes(session, {"reconnect"})
      /\ Connected /\ venue.sequence > 0 /\ ~IsValid(state) =>
            "reconnect" \in ReadyHandlers
  BY <1>1, ReadyOwes DEF NeverLeftInvalid
<1>3. CASE RecorderNext
  <2>1. Sound(session') /\ session' \in Sessions
    BY <1>1, <1>3, SessionStaysSound DEF Sound
  <2>2. ("reconnect" \in ReadyHandlers)' <=> Owes(session', {"reconnect"})
    BY <2>1, ReadyOwesNext
  <2> SUFFICES ASSUME session'.phase = "running", session'.stream, venue'.sequence > 0,
                      ~IsValid(state')
               PROVE  Owes(session', {"reconnect"})
    BY <2>2 DEF NeverLeftInvalid, Connected, IsValid
  <2>3. CASE Start
    BY <1>1, <2>3 DEF Start, run, Begun, NothingSent
  <2>4. CASE OnWorld
    <3>1. /\ session'.phase = session.phase
          /\ session'.stream = session.stream
          /\ Owes(session', {"reconnect"}) <=> Owes(session, {"reconnect"})
      BY <1>1, <2>4, WorldFacts DEF OnWorld
    <3>2. venue' = venue /\ state' = state
      BY <2>4 DEF OnWorld, recorder
    <3> QED BY <1>2, <3>1, <3>2 DEF Connected
  <2>5. CASE OnOtherHandler
    <3>1. OtherHandlers /\ venue' = (IF session'.stream THEN venue ELSE NothingSent) /\ OnNotice
      BY <2>5 DEF OnOtherHandler, OtherHandlers
    <3>2. Advances \/ Loses \/ TearsDown \/ Dials \/ Ends
      BY <1>1, <3>1, HandlerFacts
    <3>3. session.phase = "running"
      BY <3>1 DEF OtherHandlers, Handles, Running, OnResolve, OnConnect, OnTlsHandshake,
         OnWsHandshake, OnSubscribe, OnReadError, OnReconnect, OnTimer, OnStop
    <3>4. CASE Advances
      <4>1. venue' = venue /\ state' = state
        BY <3>1, <3>4 DEF Advances, OnNotice, recorder
      <4> QED BY <1>2, <3>3, <3>4, <4>1 DEF Advances, Connected
    <3>5. CASE Dials
      <4>1. venue' = NothingSent
        BY <1>1, <3>1, <3>5 DEF Dials, Begun
      <4> QED BY <4>1 DEF NothingSent
    <3> QED BY <3>2, <3>4, <3>5 DEF Loses, TearsDown, Ends
  <2>6. CASE OnRead
    <3>1. NeverLeftInvalid'
      BY <2>1, <2>6, ReadKeeps
    <3> QED BY <2>2, <3>1 DEF NeverLeftInvalid, Connected, IsValid
  <2>7. CASE Finish
    <3>1. session.phase = "ended"
      <4>1. session.phase = "running" => ~OutOfWork
        BY <1>1 DEF Sound, GoesOn, OutOfWork
      <4> QED BY <2>7, <4>1 DEF Finish, Returned
    <3> QED BY <2>7, <3>1 DEF Finish
  <2> QED BY <1>3, <2>3, <2>4, <2>5, <2>6, <2>7 DEF RecorderNext
<1>4. CASE UNCHANGED recorderVars
  BY <1>4 DEF recorderVars, recorder, NeverLeftInvalid, Connected, IsValid, ReadyHandlers
<1> QED BY <1>3, <1>4

-----------------------------------------------------------------------------
(***************************************************************************)
(* The theorems.                                                           *)
(***************************************************************************)

\* Whatever is lost, skipped, unreadable or reordered by the clock, the session,
\* the live book, collect's variables and the journal stay in the states that the
\* invariant above allows.
THEOREM RecorderIsSound ==
  ASSUME Prompt
  PROVE  RecorderSpec => []RInv
BY RStart, RStep, PTL DEF RecorderSpec

\* Every variable of a recording keeps its type: the live book is one that the grid
\* in force allows, and the shift of a simulated gap is never more than one.
THEOREM RecorderIsTyped ==
  ASSUME Prompt
  PROVE  RecorderSpec => []RecorderTypeOK
<1>1. RInv => RecorderTypeOK
  <2> SUFFICES ASSUME RInv
               PROVE  RecorderTypeOK
    OBVIOUS
  <2>1. TypeOK
    BY SessionsAreTyped DEF RInv, Sound
  <2>2. PICK S : journal \in Seq(S)
    BY DEF RInv, Typed
  <2>3. DOMAIN journal = 1..Len(journal)
    BY <2>2
  <2> QED BY <2>1, <2>3 DEF RInv, Typed, Collects, RecorderTypeOK
<1> QED BY <1>1, RecorderIsSound, PTL

\* A book that calls itself valid belongs to the connection that is being read and
\* has seen every number that the venue used on it, however many connections were
\* lost before (collect.cpp:300-340, market_state.cpp).
THEOREM BookStaysCurrent ==
  ASSUME Prompt
  PROVE  RecorderSpec => []BookIsCurrent
<1>1. RInv => BookIsCurrent
  BY DEF RInv, Current
<1> QED BY <1>1, RecorderIsSound, PTL

\* Between two messages that the journal gives one connection there is no loss, for
\* however many connections (ws_session.hpp:172).
THEOREM ConnectionsAreUnbroken ==
  ASSUME Prompt
  PROVE  RecorderSpec => []SameConnectionIsUnbroken
<1>1. RInv => SameConnectionIsUnbroken
  BY DEF RInv, Numbered
<1> QED BY <1>1, RecorderIsSound, PTL

\* A book that becomes invalid on a connection is never left so: a reconnect is
\* waiting to be carried out (collect.cpp:337), provided that the venue's snapshots
\* can be read.
THEOREM InvalidIsRecovered ==
  ASSUME Prompt, "orderbook_snapshot" \notin UnreadableKinds
  PROVE  RecorderSpec => []NeverLeftInvalid
<1>1. RecorderInit => NeverLeftInvalid
  BY DEF RecorderInit, Init, Created, NeverLeftInvalid, Connected
<1> QED BY <1>1, RecoveryStep, RecorderIsSound, PTL DEF RecorderSpec
=============================================================================
