-------------------------- MODULE TcpClientProofs ---------------------------
(***************************************************************************)
(* What holds of TcpClient and its Connector for any retry delays and any  *)
(* number of calls of connect() and stop(): one attempt at a time, that    *)
(* stop() is final, and that a destroyed client is not called.             *)
(***************************************************************************)
EXTENDS TcpClient, FiniteSetTheorems, SequenceTheorems, TLAPS

-----------------------------------------------------------------------------
(* The invariant.                                                          *)

In(f, functors) == \E i \in DOMAIN functors : functors[i] = f

AtMostOnce(f, functors) ==
    \A i, j \in DOMAIN functors : functors[i] = f /\ functors[j] = f => i = j

Waits(f) == In(f, pending) \/ In(f, batch)

(* A functor waits in one place.                                           *)
Single(f) ==
    /\ AtMostOnce(f, pending) /\ AtMostOnce(f, batch)
    /\ ~(In(f, pending) /\ In(f, batch))

(* Nobody has come in the middle of a call or before an earlier one was    *)
(* over.                                                                   *)
Calm == ~raced /\ ~hasty

(* What is left of a poll, or of a swap, is over with its phase.           *)
PhasesAgree ==
    /\ phase # "dispatch" => events = <<>>
    /\ phase # "functors" => batch = <<>>

(* The attempt's channel, its timer and its connection follow state_.      *)
AttemptAgrees ==
    /\ failed \subseteq {23, 55}
    /\ registered <=> state = "connecting"
    /\ registered => channel
    /\ timers \in {0, 1}
    /\ timers = 1 => state = "disconnected"
    /\ connection => state = "connected"

(* One thing at a time is reported: the timer, the outcome of the attempt, *)
(* or the close of the connection.                                         *)
EventsAgree ==
    /\ events \in {<<>>, <<"timer">>, <<"write">>, <<"error", "write">>,
                   <<"close">>, <<"restart">>}
    /\ events = <<"timer">> => timers = 1
    /\ events = <<"error", "write">> => state = "connecting"
    /\ events = <<"write">> => channel /\ state # "connected"
    /\ events = <<"close">> => connection
    /\ events = <<"restart">> => state = "connected" /\ ~connection /\ ~channel

(* A channel that has left the Poller is destroyed before the next         *)
(* attempt: at the next swap, or while none is wanted.                     *)
ResetAgrees ==
    /\ Single("resetChannel")
    /\ Waits("resetChannel") <=> channel /\ ~registered
    /\ channel /\ ~registered =>
          \/ /\ phase = "dispatch" /\ In("resetChannel", pending)
             /\ events \in {<<>>, <<"write">>}
          \/ phase = "functors" /\ In("resetChannel", batch)
          \/ ~want /\ state = "disconnected"

(* A call of connect() meets a Connector that does nothing yet.            *)
StartAgrees ==
    /\ Single("startInLoop")
    /\ InsideConnect => ~Waits("startInLoop") /\ ~stopped
    /\ InsideConnect \/ Waits("startInLoop") =>
          state = "disconnected" /\ ~channel /\ timers = 0

(* Once stopped, nothing wants a connection or will want one.              *)
StopAgrees ==
    /\ Waits("stopInLoop") \/ call = "destroy3" => stopped
    /\ stopped \/ call \in {"stop2", "destroy2"} => ~want
    /\ stopped \/ call \in {"stop1", "stop2"} => ~clientWant \/ ~Usable
    /\ stopped /\ state = "connecting" => Waits("stopInLoop")

Idle ==
    ~channel /\ \A f \in {"startInLoop", "stopInLoop", "resetChannel"} : ~Waits(f)

(* What a destroyed client has left is over before the destructor's timer: *)
(* stopInLoop at the first swap, the channel at the second.                *)
Winding ==
    /\ stopped
    /\ \/ lingering = 3
       \/ /\ lingering = 2 /\ phase = "dispatch"
       \/ /\ lingering = 2 /\ phase = "functors"
          /\ ~In("startInLoop", pending) /\ ~In("stopInLoop", pending)
       \/ /\ \/ lingering = 2 /\ phase = "poll"
             \/ lingering = 1 /\ phase = "dispatch"
          /\ ~Waits("startInLoop") /\ ~Waits("stopInLoop")
       \/ /\ lingering = 1 /\ phase = "functors"
          /\ ~Waits("startInLoop") /\ ~Waits("stopInLoop")
          /\ ~In("resetChannel", pending)

GoneAgrees ==
    /\ client = "gone" =>
          /\ connection => detached \/ Waits("setCloseCallback")
          /\ want => state = "connected"
          /\ Idle \/ Winding
    /\ call = "detach" => connection
    /\ call \in {"destroy1", "destroy2", "destroy3"} => ~connection
    /\ client = "gone" => call = "none"
    /\ detached \/ Waits("setCloseCallback") => client = "gone"

(* The timer's descriptor is polled first, and a timer that is reported    *)
(* has not been run.                                                       *)
TimerFirst == \A i \in DOMAIN events : events[i] = "timer" => i = 1 /\ timers > 0

Types == TypeOK /\ TimerFirst

CalmInv ==
    /\ AttemptAgrees
    /\ EventsAgree
    /\ ResetAgrees
    /\ StartAgrees
    /\ StopAgrees
    /\ GoneAgrees

ClientInv ==
    /\ Types
    /\ PhasesAgree
    /\ Calm => CalmInv

-----------------------------------------------------------------------------
(* Sequences of functors and of events.                                    *)

LEMMA InEmpty ==
    \A f : ~In(f, <<>>) /\ AtMostOnce(f, <<>>)
BY DEF In, AtMostOnce

(* Append adds the last element and moves none.                            *)
LEMMA InAppend ==
    ASSUME NEW S, NEW q \in Seq(S), NEW g \in S, NEW f
    PROVE  /\ In(f, Append(q, g)) <=> In(f, q) \/ f = g
           /\ AtMostOnce(f, q) /\ (f # g \/ ~In(f, q)) => AtMostOnce(f, Append(q, g))
<1>1. /\ Len(Append(q, g)) = Len(q) + 1
      /\ DOMAIN q = 1..Len(q) /\ DOMAIN Append(q, g) = 1..(Len(q) + 1)
      /\ \A i \in 1..Len(q) : Append(q, g)[i] = q[i]
      /\ Append(q, g)[Len(q) + 1] = g
      /\ Len(q) \in Nat
  OBVIOUS
<1> QED
  BY <1>1 DEF In, AtMostOnce

(* Tail drops the head and keeps the rest.                                 *)
LEMMA InTail ==
    ASSUME NEW S, NEW q \in Seq(S), q # <<>>, NEW f
    PROVE  /\ In(f, Tail(q)) => In(f, q)
           /\ In(f, q) => In(f, Tail(q)) \/ f = Head(q)
           /\ AtMostOnce(f, q) => AtMostOnce(f, Tail(q))
           /\ AtMostOnce(f, q) /\ f = Head(q) => ~In(f, Tail(q))
           /\ In(Head(q), q)
<1>1. /\ Len(q) \in Nat \ {0}
      /\ DOMAIN q = 1..Len(q) /\ DOMAIN Tail(q) = 1..(Len(q) - 1)
      /\ \A i \in 1..(Len(q) - 1) : Tail(q)[i] = q[i + 1]
      /\ Head(q) = q[1]
  OBVIOUS
<1>2. In(f, Tail(q)) => \E i \in 2..Len(q) : q[i] = f
  BY <1>1 DEF In
<1>3. \A i \in 1..Len(q) : q[i] = f => i = 1 \/ In(f, Tail(q))
  <2> SUFFICES ASSUME NEW i \in 1..Len(q), q[i] = f, i # 1
               PROVE  In(f, Tail(q))
    OBVIOUS
  <2>1. i - 1 \in 1..(Len(q) - 1) /\ Tail(q)[i - 1] = f
    BY <1>1
  <2> QED
    BY <1>1, <2>1 DEF In
<1>4. AtMostOnce(f, q) => AtMostOnce(f, Tail(q))
  <2> SUFFICES ASSUME AtMostOnce(f, q),
                      NEW i \in 1..(Len(q) - 1), NEW j \in 1..(Len(q) - 1),
                      Tail(q)[i] = f, Tail(q)[j] = f
               PROVE  i = j
    BY <1>1 DEF AtMostOnce
  <2>1. i + 1 \in 1..Len(q) /\ j + 1 \in 1..Len(q) /\ q[i + 1] = f /\ q[j + 1] = f
    BY <1>1
  <2>2. i + 1 = j + 1
    BY <1>1, <2>1 DEF AtMostOnce
  <2> QED
    BY <2>2
<1> QED
  BY <1>1, <1>2, <1>3, <1>4 DEF In, AtMostOnce

LEMMA QueuedWaits ==
    ASSUME TypeOK, NEW f
    PROVE  Queued(f) <=> Waits(f)
<1>1. pending \in Seq(Functors) /\ batch \in Seq(Functors)
  BY DEF TypeOK
<1>2. /\ Len(pending) \in Nat /\ Len(batch) \in Nat
      /\ DOMAIN pending = 1..Len(pending) /\ DOMAIN batch = 1..Len(batch)
      /\ DOMAIN (pending \o batch) = 1..(Len(pending) + Len(batch))
      /\ \A i \in 1..(Len(pending) + Len(batch)) :
            (pending \o batch)[i] = IF i <= Len(pending) THEN pending[i]
                                                         ELSE batch[i - Len(pending)]
  BY <1>1
<1>3. Queued(f) => Waits(f)
  BY <1>2 DEF Queued, Waits, In
<1>4. In(f, pending) => Queued(f)
  BY <1>2 DEF Queued, In
<1>5. ASSUME In(f, batch)
      PROVE  Queued(f)
  <2>1. PICK i \in 1..Len(batch) : batch[i] = f
    BY <1>2, <1>5 DEF In
  <2>2. /\ Len(pending) + i \in 1..(Len(pending) + Len(batch))
        /\ (pending \o batch)[Len(pending) + i] = f
    BY <1>2, <2>1
  <2> QED
    BY <1>2, <2>2 DEF Queued
<1> QED
  BY <1>3, <1>4, <1>5 DEF Waits

(* A functor is queued; a functor that waits already keeps its place.      *)
LEMMA Enqueue ==
    ASSUME TypeOK, NEW g \in Functors, pending' = Append(pending, g), batch' = batch
    PROVE  \A f : /\ In(f, pending') <=> In(f, pending) \/ f = g
                  /\ Waits(f)' <=> Waits(f) \/ f = g
                  /\ Single(f) /\ (f # g \/ ~Waits(f)) => Single(f)'
<1>1. pending \in Seq(Functors)
  BY DEF TypeOK
<1>2. \A f : /\ In(f, pending') <=> In(f, pending) \/ f = g
             /\ AtMostOnce(f, pending) /\ (f # g \/ ~In(f, pending))
                    => AtMostOnce(f, pending')
  BY <1>1, InAppend
<1> QED
  BY <1>2 DEF Waits, Single

(* The loop takes the next functor, which no longer waits.                 *)
LEMMA Dequeue ==
    ASSUME TypeOK, batch # <<>>, batch' = Tail(batch), pending' = pending
    PROVE  \A f : /\ In(f, batch') => In(f, batch)
                  /\ f # Head(batch) => (In(f, batch) <=> In(f, batch'))
                  /\ f # Head(batch) => (Waits(f) <=> Waits(f)')
                  /\ Single(f) => Single(f)'
                  /\ Single(f) /\ f = Head(batch) => ~Waits(f)' /\ In(f, batch)
<1>1. batch \in Seq(Functors)
  BY DEF TypeOK
<1>2. \A f : /\ In(f, batch') => In(f, batch)
             /\ In(f, batch) => In(f, batch') \/ f = Head(batch)
             /\ AtMostOnce(f, batch) => AtMostOnce(f, batch')
             /\ AtMostOnce(f, batch) /\ f = Head(batch) => ~In(f, batch')
             /\ In(Head(batch), batch)
  BY <1>1, InTail
<1> QED
  BY <1>2 DEF Waits, Single

(* Both at once: the functor that runs queues another.                     *)
LEMMA DequeueEnqueue ==
    ASSUME TypeOK, NEW g \in Functors, batch # <<>>, Head(batch) # g,
           batch' = Tail(batch), pending' = Append(pending, g)
    PROVE  \A f : /\ In(f, batch') => In(f, batch)
                  /\ In(f, pending') <=> In(f, pending) \/ f = g
                  /\ f # Head(batch) => (In(f, batch) <=> In(f, batch'))
                  /\ f # Head(batch) => (Waits(f)' <=> Waits(f) \/ f = g)
                  /\ Single(f) /\ (f # g \/ ~Waits(f)) => Single(f)'
                  /\ Single(f) /\ f = Head(batch) => ~Waits(f)' /\ In(f, batch)
<1>1. pending \in Seq(Functors) /\ batch \in Seq(Functors)
  BY DEF TypeOK
<1>2. \A f : /\ In(f, batch') => In(f, batch)
             /\ In(f, batch) => In(f, batch') \/ f = Head(batch)
             /\ AtMostOnce(f, batch) => AtMostOnce(f, batch')
             /\ AtMostOnce(f, batch) /\ f = Head(batch) => ~In(f, batch')
             /\ In(Head(batch), batch)
  BY <1>1, InTail
<1>3. \A f : /\ In(f, pending') <=> In(f, pending) \/ f = g
             /\ AtMostOnce(f, pending) /\ (f # g \/ ~In(f, pending))
                    => AtMostOnce(f, pending')
  BY <1>1, InAppend
<1> QED
  BY <1>2, <1>3 DEF Waits, Single

-----------------------------------------------------------------------------
(* The types.                                                              *)

Delays == kInitRetryDelayMs .. kMaxRetryDelayMs

AttemptTyped ==
    /\ state \in {"disconnected", "connecting", "connected"}
    /\ channel \in BOOLEAN
    /\ registered \in BOOLEAN
    /\ timers \in Nat
    /\ delay \in Delays
    /\ gaveUp \in BOOLEAN
    /\ failed \subseteq {23, 42, 55, 108, 161}

LEMMA DelayBounded ==
    \A d \in Delays : Smaller(2 * d, kMaxRetryDelayMs) \in Delays
BY ClientAssumption DEF Delays, Smaller

LEMMA RetryTyped ==
    \A w \in BOOLEAN, d \in Delays, t \in Nat :
        retry(w, d, t) => /\ state' = "disconnected" /\ timers' \in Nat
                          /\ delay' \in Delays
BY DelayBounded DEF retry

LEMMA StartTyped ==
    ASSUME AttemptTyped
    PROVE  \A s \in {"disconnected", "connecting", "connected"},
              w \in BOOLEAN, d \in Delays, t \in Nat :
                  startInLoop(s, w, d, t) => AttemptTyped'
<1> SUFFICES ASSUME NEW s \in {"disconnected", "connecting", "connected"},
                    NEW w \in BOOLEAN, NEW d \in Delays, NEW t \in Nat,
                    startInLoop(s, w, d, t)
             PROVE  AttemptTyped'
  OBVIOUS
<1>1. CASE connecting(d, t)
  BY <1>1 DEF connecting, AttemptTyped
<1>2. CASE /\ retry(w, d, t) /\ gaveUp' = FALSE
           /\ UNCHANGED <<channel, registered, failed>>
  BY <1>2, RetryTyped DEF AttemptTyped
<1>3. CASE /\ gaveUp' = TRUE
           /\ state' = "disconnected" /\ timers' = t /\ delay' = d
           /\ UNCHANGED <<channel, registered, failed>>
  BY <1>3 DEF AttemptTyped
<1>4. CASE /\ failed' = IF s = "disconnected" THEN failed ELSE failed \union {42}
           /\ state' = s /\ timers' = t /\ delay' = d
           /\ UNCHANGED <<channel, registered, gaveUp>>
  BY <1>4 DEF AttemptTyped
<1> QED
  BY <1>1, <1>2, <1>3, <1>4 DEF startInLoop, connect

LEMMA DropTyped ==
    ASSUME TypeOK, dropAttempt, gaveUp' = gaveUp
    PROVE  AttemptTyped' /\ pending' \in Seq(Functors) /\ connection' \in BOOLEAN
<1>1. /\ want \in BOOLEAN /\ delay \in Delays /\ timers \in Nat
      /\ channel \in BOOLEAN /\ gaveUp \in BOOLEAN /\ connection \in BOOLEAN
      /\ failed \subseteq {23, 42, 55, 108, 161}
      /\ pending \in Seq(Functors)
  BY DEF TypeOK, Delays
<1>2. /\ registered' = FALSE /\ channel' = channel /\ connection' = connection
      /\ failed' = failed /\ pending' = Append(pending, "resetChannel")
      /\ retry(want, delay, timers)
  BY DEF dropAttempt, removeAndResetChannel
<1>3. state' = "disconnected" /\ timers' \in Nat /\ delay' \in Delays
  BY <1>1, <1>2, RetryTyped
<1>4. pending' \in Seq(Functors)
  BY <1>1, <1>2 DEF Functors
<1> QED
  BY <1>1, <1>2, <1>3, <1>4 DEF AttemptTyped

LEMMA TailTyped ==
    \A S : \A q \in Seq(S) : q # <<>> => Tail(q) \in Seq(S) /\ Head(q) \in S
OBVIOUS

LEMMA TimerFirstTail ==
    ASSUME TypeOK, TimerFirst, events # <<>>, events' = Tail(events)
    PROVE  TimerFirst'
<1>1. events \in Seq(EventNames)
  BY DEF TypeOK
<1>2. /\ Len(events) \in Nat
      /\ DOMAIN events = 1..Len(events)
      /\ DOMAIN Tail(events) = 1..(Len(events) - 1)
      /\ \A i \in 1..(Len(events) - 1) : Tail(events)[i] = events[i + 1]
  BY <1>1
<1> QED
  BY <1>2 DEF TimerFirst

LEMMA InitTypes ==
    ASSUME Init
    PROVE  Types
<1>1. /\ <<>> \in Seq(EventNames) /\ <<>> \in Seq(Functors)
      /\ DOMAIN <<>> = {}
  OBVIOUS
<1>2. delay \in kInitRetryDelayMs .. kMaxRetryDelayMs
  BY ClientAssumption DEF Init
<1>3. connects \in 0 .. MaxConnects /\ stops \in 0 .. MaxStops
  BY ClientAssumption DEF Init
<1>4. events \in Seq(EventNames) /\ pending \in Seq(Functors) /\ batch \in Seq(Functors)
  BY <1>1 DEF Init
<1>5. /\ want \in BOOLEAN /\ channel \in BOOLEAN /\ registered \in BOOLEAN
      /\ clientWant \in BOOLEAN /\ retryOn \in BOOLEAN /\ connection \in BOOLEAN
      /\ detached \in BOOLEAN /\ stopped \in BOOLEAN /\ raced \in BOOLEAN
      /\ hasty \in BOOLEAN /\ gaveUp \in BOOLEAN
  BY DEF Init
<1>6. /\ lingering \in 0 .. 3 /\ timers \in Nat /\ failed \subseteq {23, 42, 55, 108, 161}
      /\ state \in {"disconnected", "connecting", "connected"}
      /\ call \in {"none", "connect1", "connect2", "stop1", "stop2"} \union Destroying
      /\ phase \in {"poll", "dispatch", "functors"}
      /\ client \in {"alive", "gone"}
  BY DEF Init
<1>7. TypeOK
  BY <1>2, <1>3, <1>4, <1>5, <1>6 DEF TypeOK
<1> QED
  BY <1>1, <1>7 DEF Init, Types, TimerFirst

(* What a poll may report.                                                 *)
Outcomes == {<<>>, <<"write">>, <<"error", "write">>}

LEMMA ReportTyped ==
    ASSUME NEW expired \in {<<>>, <<"timer">>}, NEW outcome \in Outcomes,
           NEW closed \in {<<>>, <<"close">>}
    PROVE  /\ expired \o outcome \o closed \in Seq(EventNames)
           /\ \A i \in DOMAIN (expired \o outcome \o closed) :
                 (expired \o outcome \o closed)[i] = "timer"
                     => i = 1 /\ expired = <<"timer">>
<1>1. /\ expired \in Seq(EventNames) /\ Len(expired) \in {0, 1}
      /\ Len(expired) = 0 \/ expired = <<"timer">>
      /\ DOMAIN expired = 1..Len(expired)
  <2>1. CASE expired = <<>>
    BY <2>1
  <2>2. CASE expired = <<"timer">>
    BY <2>2 DEF EventNames
  <2> QED
    BY <2>1, <2>2
<1>2. /\ outcome \in Seq(EventNames) /\ Len(outcome) \in Nat
      /\ \A i \in 1..Len(outcome) : outcome[i] # "timer"
  <2>1. CASE outcome = <<>>
    BY <2>1
  <2>2. CASE outcome = <<"write">>
    BY <2>2 DEF EventNames
  <2>3. CASE outcome = <<"error", "write">>
    BY <2>3 DEF EventNames
  <2> QED
    BY <2>1, <2>2, <2>3 DEF Outcomes
<1>3. /\ closed \in Seq(EventNames) /\ Len(closed) \in Nat
      /\ \A i \in 1..Len(closed) : closed[i] # "timer"
  <2>1. CASE closed = <<>>
    BY <2>1
  <2>2. CASE closed = <<"close">>
    BY <2>2 DEF EventNames
  <2> QED
    BY <2>1, <2>2
<1>4. /\ expired \o outcome \in Seq(EventNames)
      /\ Len(expired \o outcome) = Len(expired) + Len(outcome)
      /\ \A i \in 1..Len(expired \o outcome) :
            (expired \o outcome)[i] = "timer" => i \in 1..Len(expired)
  BY <1>1, <1>2
<1>5. /\ expired \o outcome \o closed \in Seq(EventNames)
      /\ Len(expired \o outcome \o closed) = Len(expired \o outcome) + Len(closed)
      /\ \A i \in 1..Len(expired \o outcome \o closed) :
            (expired \o outcome \o closed)[i] = "timer" => i \in 1..Len(expired)
  BY <1>1, <1>2, <1>3, <1>4
<1>6. DOMAIN (expired \o outcome \o closed) = 1..Len(expired \o outcome \o closed)
  BY <1>5
<1> DEFINE reported == expired \o outcome \o closed
<1>7. ASSUME NEW i \in DOMAIN reported, reported[i] = "timer"
      PROVE  i = 1 /\ expired = <<"timer">>
  <2>1. i \in 1..Len(expired)
    BY <1>5, <1>6, <1>7
  <2> QED
    BY <1>1, <2>1
<1> QED
  BY <1>5, <1>7

LEMMA PollReports ==
    ASSUME Types, Poll
    PROVE  \E expired \in {<<>>, <<"timer">>}, outcome \in Outcomes,
              closed \in {<<>>, <<"close">>} :
               /\ events' = expired \o outcome \o closed
               /\ expired = <<"timer">> => timers > 0
               /\ outcome # <<>> => registered
               /\ closed # <<>> => connection
<1>1. PICK expired \in {<<>>} \union (IF timers > 0 THEN {<<"timer">>} ELSE {}),
           outcome \in {<<>>} \union
               (IF registered THEN {<<"write">>, <<"error", "write">>} ELSE {}),
           closed \in {<<>>} \union (IF connection THEN {<<"close">>} ELSE {}) :
           events' = expired \o outcome \o closed
  BY DEF Poll
<1>2. expired = <<>> \/ (timers > 0 /\ expired = <<"timer">>)
  OBVIOUS
<1>3. outcome = <<>> \/ (registered /\ outcome \in Outcomes)
  BY DEF Outcomes
<1>4. closed = <<>> \/ (connection /\ closed = <<"close">>)
  OBVIOUS
<1> QED
  BY <1>1, <1>2, <1>3, <1>4 DEF Outcomes

LEMMA PollTypes ==
    ASSUME Types, Poll
    PROVE  Types'
<1> PICK expired \in {<<>>, <<"timer">>}, outcome \in Outcomes,
         closed \in {<<>>, <<"close">>} :
             /\ events' = expired \o outcome \o closed
             /\ expired = <<"timer">> => timers > 0
  BY PollReports
<1>1. events' \in Seq(EventNames)
  BY ReportTyped
<1>2. \A i \in DOMAIN events' : events'[i] = "timer" => i = 1 /\ timers > 0
  BY ReportTyped
<1>3. /\ connectorVars' = connectorVars /\ history' = history
      /\ UNCHANGED <<clientWant, retryOn, connection, client, detached,
                     pending, batch, call>>
      /\ phase' = "dispatch"
      /\ lingering' \in (IF lingering = 1 THEN {0, 1} ELSE {Less(lingering)})
  BY DEF Poll
<1>4. lingering' \in 0 .. 3
  BY <1>3 DEF Types, TypeOK, Less
<1>5. /\ UNCHANGED <<want, state, channel, registered, timers, delay>>
      /\ UNCHANGED <<connects, stops, stopped, raced, hasty, gaveUp, failed>>
  BY <1>3 DEF connectorVars, attemptVars, history, calls
<1>6. TypeOK'
  BY <1>1, <1>3, <1>4, <1>5 DEF Types, TypeOK
<1> QED
  BY <1>2, <1>5, <1>6 DEF Types, TimerFirst


LEMMA EmptyTyped == \A S : <<>> \in Seq(S)
OBVIOUS

LEMMA AppendTyped == \A S : \A q \in Seq(S), e \in S : Append(q, e) \in Seq(S)
OBVIOUS

LEMMA Framed ==
    TypeOK /\ UNCHANGED vars => TypeOK'
BY DEF TypeOK, vars, connectorVars, attemptVars, clientVars, lifetime, history, calls

LEMMA TimerKept ==
    TimerFirst /\ events' = events /\ timers' = timers => TimerFirst'
BY DEF TimerFirst

LEMMA RunningFunctor ==
    ASSUME TypeOK, NEW f \in Functors, Running(f)
    PROVE  phase = "functors" /\ batch # <<>> /\ Head(batch) = f /\ failed = {}
<1>1. events # <<>> => Head(events) \in EventNames
  BY TailTyped DEF TypeOK
<1>2. events # <<>> => Head(events) # f
  BY <1>1 DEF EventNames, Functors
<1> QED
  BY <1>2 DEF Running, Alive

LEMMA RunningEvent ==
    ASSUME TypeOK, NEW e \in EventNames, Running(e)
    PROVE  phase = "dispatch" /\ events # <<>> /\ Head(events) = e /\ failed = {}
<1>1. batch # <<>> => Head(batch) \in Functors
  BY TailTyped DEF TypeOK
<1>2. batch # <<>> => Head(batch) # e
  BY <1>1 DEF EventNames, Functors
<1> QED
  BY <1>2 DEF Running, Alive

(* The steps that only move functors.                                      *)
LEMMA MoveTypes ==
    ASSUME Types, SwapFunctors \/ FinishBatch \/ RunConnectDestroyed
    PROVE  Types'
<1>1. pending' \in Seq(Functors) /\ batch' \in Seq(Functors)
  <2>1. pending \in Seq(Functors) /\ batch \in Seq(Functors)
    BY DEF Types, TypeOK
  <2> QED
    <3>1. RunConnectDestroyed => batch # <<>>
      BY RunningFunctor DEF RunConnectDestroyed, Types, Functors
    <3> QED
      BY <2>1, <3>1, EmptyTyped, TailTyped
      DEF SwapFunctors, FinishBatch, RunConnectDestroyed, NextFunctor
<1>2. phase' \in {"poll", "dispatch", "functors"}
  BY DEF Types, TypeOK, SwapFunctors, FinishBatch, RunConnectDestroyed, NextFunctor
<1>3. /\ UNCHANGED <<want, state, channel, registered, timers, delay>>
      /\ UNCHANGED <<clientWant, retryOn, connection, client, detached, lingering>>
      /\ UNCHANGED <<connects, stops, stopped, raced, hasty, gaveUp, failed>>
      /\ UNCHANGED <<events, call>>
  BY DEF SwapFunctors, FinishBatch, RunConnectDestroyed, NextFunctor, connectorVars,
     attemptVars, clientVars, lifetime, calls, history
<1> QED
  BY <1>1, <1>2, <1>3, TimerKept DEF Types, TypeOK

(* The functors of the connector.                                          *)
LEMMA FunctorTypes ==
    ASSUME Types, RunStartInLoop \/ stopInLoop \/ resetChannel
    PROVE  Types'
<1>1. /\ batch' = Tail(batch) /\ batch # <<>>
      /\ UNCHANGED <<phase, events, clientWant, retryOn, connection, client, lingering>>
      /\ UNCHANGED <<call, connects, stops, stopped, raced, hasty, want, detached>>
  BY RunningFunctor
  DEF RunStartInLoop, stopInLoop, resetChannel, NextFunctor, calls, Types, Functors
<1>2. AttemptTyped /\ want \in BOOLEAN
  BY DEF Types, TypeOK, AttemptTyped, Delays
<1>3. AttemptTyped' /\ pending' \in Seq(Functors) /\ timers' >= timers
  <2>1. CASE RunStartInLoop
    <3>1. startInLoop(state, want, delay, timers) /\ pending' = pending
      BY <2>1 DEF RunStartInLoop
    <3>2. AttemptTyped'
      BY <1>2, <3>1, StartTyped DEF AttemptTyped
    <3>3. timers' >= timers
      BY <1>2, <3>1 DEF startInLoop, connect, connecting, retry, AttemptTyped
    <3> QED
      BY <3>1, <3>2, <3>3 DEF Types, TypeOK
  <2>2. CASE dropAttempt /\ gaveUp' = gaveUp
    <3>1. timers' >= timers
      BY <1>2, <2>2 DEF dropAttempt, retry, AttemptTyped
    <3> QED
      BY <2>2, <3>1, DropTyped DEF Types
  <2>3. CASE UNCHANGED <<state, registered, timers, delay, pending, gaveUp, failed>>
             /\ channel' \in BOOLEAN
    BY <1>2, <2>3 DEF AttemptTyped, Types, TypeOK
  <2> QED
    BY <1>2, <2>1, <2>2, <2>3 DEF stopInLoop, resetChannel, attemptVars, AttemptTyped
<1>4. batch' \in Seq(Functors)
  BY <1>1, TailTyped DEF Types, TypeOK
<1>5. TypeOK'
  BY <1>1, <1>3, <1>4 DEF Types, TypeOK, AttemptTyped, Delays
<1>6. TimerFirst'
  BY <1>1, <1>2, <1>3 DEF Types, TimerFirst, AttemptTyped
<1> QED
  BY <1>5, <1>6 DEF Types

LEMMA setCloseCallbackTypes ==
    ASSUME Types, setCloseCallback
    PROVE  Types'
<1>1. /\ batch' = Tail(batch) /\ batch # <<>> /\ detached' = TRUE
      /\ UNCHANGED <<phase, events, clientWant, retryOn, connection, client, lingering>>
      /\ UNCHANGED <<call, connects, stops, stopped, raced, hasty>>
      /\ UNCHANGED <<want, state, channel, registered, timers, delay, pending, gaveUp>>
  BY RunningFunctor
  DEF setCloseCallback, NextFunctor, calls, connectorVars, attemptVars, Types, Functors
<1>2. failed' \subseteq {23, 42, 55, 108, 161}
  BY DEF setCloseCallback, Release, Types, TypeOK
<1>3. batch' \in Seq(Functors)
  BY <1>1, TailTyped DEF Types, TypeOK
<1> QED
  BY <1>1, <1>2, <1>3, TimerKept DEF Types, TypeOK


(* The events.                                                             *)
LEMMA EventTypes ==
    ASSUME Types, RunTimer \/ handleWrite \/ handleError \/ restart
    PROVE  Types'
<1>1. events' = Tail(events) /\ events # <<>>
  BY RunningEvent
  DEF RunTimer, handleWrite, handleError, restart, NextEvent, Types, EventNames
<1>2. /\ UNCHANGED <<phase, batch, clientWant, retryOn, client, detached, lingering>>
      /\ UNCHANGED <<call, connects, stops, stopped, hasty>>
  BY DEF RunTimer, handleWrite, handleError, restart, NextEvent, calls, lifetime
<1>3. AttemptTyped /\ want \in BOOLEAN /\ connection \in BOOLEAN /\ raced \in BOOLEAN
      /\ pending \in Seq(Functors)
  BY DEF Types, TypeOK, AttemptTyped, Delays
<1>4. RunTimer => timers - 1 \in Nat
  <2> SUFFICES ASSUME RunTimer
               PROVE  timers - 1 \in Nat
    OBVIOUS
  <2>1. events # <<>> /\ Head(events) = "timer"
    BY RunningEvent DEF RunTimer, Types, EventNames
  <2>2. 1 \in DOMAIN events /\ events[1] = "timer"
    BY <2>1 DEF Types, TypeOK
  <2> QED
    BY <2>2, <1>3 DEF Types, TimerFirst, AttemptTyped
<1>5. AttemptTyped' /\ want' \in BOOLEAN /\ connection' \in BOOLEAN /\ raced' \in BOOLEAN
      /\ pending' \in Seq(Functors)
  <2>1. CASE RunTimer
    <3>1. /\ startInLoop(state, want, delay, timers - 1)
          /\ UNCHANGED <<want, connection, pending, raced>>
      BY <2>1 DEF RunTimer
    <3>2. AttemptTyped'
      BY <1>3, <1>4, <2>1, <3>1, StartTyped DEF AttemptTyped
    <3> QED
      BY <1>3, <3>1, <3>2
  <2>2. CASE restart
    <3>1. /\ startInLoop("disconnected", TRUE, kInitRetryDelayMs, timers)
          /\ want' = TRUE /\ UNCHANGED <<connection, pending>>
          /\ raced' \in BOOLEAN
      BY <2>2 DEF restart
    <3>2. kInitRetryDelayMs \in Delays
      BY ClientAssumption DEF Delays
    <3>3. AttemptTyped'
      BY <1>3, <3>1, <3>2, StartTyped DEF AttemptTyped
    <3> QED
      BY <1>3, <3>1, <3>3
  <2>3. CASE handleWrite \/ handleError
    <3>1. want' = want /\ gaveUp' = gaveUp /\ raced' \in BOOLEAN
      BY <1>3, <2>3 DEF handleWrite, handleError
    <3>2. CASE dropAttempt
      BY <1>3, <3>1, <3>2, DropTyped DEF Types
    <3>3. CASE finishAttempt
      <4>1. /\ pending' = Append(pending, "resetChannel")
            /\ registered' = FALSE /\ state' = "connected"
            /\ connection' \in BOOLEAN
            /\ UNCHANGED <<channel, timers, delay, failed>>
        BY <1>3, <3>3 DEF finishAttempt, removeAndResetChannel, newConnection
      <4>2. pending' \in Seq(Functors)
        BY <1>3, <4>1, AppendTyped DEF Functors
      <4> QED
        BY <1>3, <3>1, <4>1, <4>2 DEF AttemptTyped
    <3>4. CASE /\ failed' \in {failed, failed \union {161}}
               /\ UNCHANGED <<attemptVars, pending, connection>>
      <4>1. UNCHANGED <<state, channel, registered, timers, delay, pending, connection>>
        BY <3>4 DEF attemptVars
      <4>2. failed' \subseteq {23, 42, 55, 108, 161}
        <5>1. failed \subseteq {23, 42, 55, 108, 161}
          BY <1>3 DEF AttemptTyped
        <5> QED
          BY <3>4, <5>1
      <4> QED
        BY <1>3, <3>1, <4>1, <4>2 DEF AttemptTyped
    <3> QED
      BY <2>3, <3>2, <3>3, <3>4 DEF handleWrite, handleError
  <2> QED
    BY <2>1, <2>2, <2>3
<1>6. events' \in Seq(EventNames)
  BY <1>1, TailTyped DEF Types, TypeOK
<1>7. TypeOK'
  BY <1>2, <1>5, <1>6 DEF Types, TypeOK, AttemptTyped, Delays
<1>8. TimerFirst'
  <2>1. events \in Seq(EventNames)
    BY DEF Types, TypeOK
  <2>2. /\ Len(events) \in Nat
        /\ DOMAIN events = 1..Len(events)
        /\ DOMAIN Tail(events) = 1..(Len(events) - 1)
        /\ \A i \in 1..(Len(events) - 1) : Tail(events)[i] = events[i + 1]
    BY <1>1, <2>1
  <2> QED
    BY <1>1, <2>2 DEF Types, TimerFirst
<1> QED
  BY <1>7, <1>8 DEF Types

LEMMA removeConnectionTypes ==
    ASSUME Types, removeConnection
    PROVE  Types'
<1>1. events # <<>> /\ events \in Seq(EventNames) /\ pending \in Seq(Functors)
  BY RunningEvent DEF removeConnection, Types, TypeOK, EventNames
<1>2. /\ connection' = FALSE
      /\ pending' = Append(pending, "connectDestroyed")
      /\ events' = <<"restart">> \o Tail(events) \/ events' = Tail(events)
      /\ UNCHANGED <<want, state, channel, registered, timers, delay>>
      /\ UNCHANGED <<clientWant, retryOn, client, detached, lingering, phase, batch, call>>
      /\ UNCHANGED <<connects, stops, stopped, hasty, gaveUp, failed>>
      /\ raced' \in BOOLEAN
  BY DEF removeConnection, connectorVars, attemptVars, lifetime, calls, Types, TypeOK
<1>3. pending' \in Seq(Functors)
  BY <1>1, <1>2, AppendTyped DEF Functors
<1>4. /\ Len(events) \in Nat /\ Tail(events) \in Seq(EventNames)
      /\ Len(Tail(events)) = Len(events) - 1 /\ DOMAIN events = 1..Len(events)
      /\ \A i \in 1..(Len(events) - 1) : Tail(events)[i] = events[i + 1]
  BY <1>1
<1>5. \A i \in 1..(Len(events) - 1) : Tail(events)[i] # "timer"
  BY <1>4 DEF Types, TimerFirst
<1>6. ASSUME events' \in Seq(EventNames)
      PROVE  TypeOK'
  <2>1. connection' \in BOOLEAN
    BY <1>2
  <2> QED
    BY <1>2, <1>3, <1>6, <2>1 DEF Types, TypeOK
<1>7. CASE events' = Tail(events)
  <2>1. events' \in Seq(EventNames) /\ \A i \in DOMAIN events' : events'[i] # "timer"
    BY <1>4, <1>5, <1>7
  <2> QED
    BY <1>2, <1>6, <2>1 DEF Types, TimerFirst
<1>8. CASE events' = <<"restart">> \o Tail(events)
  <2>1. /\ <<"restart">> \in Seq(EventNames) /\ Len(<<"restart">>) = 1
        /\ <<"restart">>[1] = "restart"
    BY DEF EventNames
  <2>2. /\ events' \in Seq(EventNames) /\ Len(events') = Len(events)
        /\ events'[1] = "restart"
        /\ \A i \in 2..Len(events) : events'[i] = Tail(events)[i - 1]
    BY <1>1, <1>4, <1>8, <2>1
  <2>3. \A i \in 2..Len(events) : i - 1 \in 1..(Len(events) - 1)
    BY <1>4
  <2>4. ASSUME NEW i \in 1..Len(events)
        PROVE  events'[i] # "timer"
    <3>1. CASE i = 1
      BY <2>2, <3>1
    <3>2. CASE i # 1
      <4>1. i \in 2..Len(events)
        BY <1>4, <3>2
      <4> QED
        BY <1>5, <2>2, <2>3, <4>1
    <3> QED
      BY <3>1, <3>2
  <2>5. DOMAIN events' = 1..Len(events)
    BY <2>2
  <2> QED
    BY <1>6, <2>2, <2>4, <2>5 DEF Types, TimerFirst
<1> QED
  BY <1>2, <1>7, <1>8


(* The calls of user code.                                                 *)
LEMMA ConnectHereTypes ==
    ASSUME Types, ConnectHere
    PROVE  Types'
<1>1. /\ startInLoop(state, TRUE, delay, timers)
      /\ connects' = connects + 1 /\ connects < MaxConnects
      /\ clientWant' = TRUE /\ want' = TRUE /\ stopped' = FALSE
      /\ hasty' \in BOOLEAN
      /\ UNCHANGED <<retryOn, connection, client, detached, lingering, phase, events>>
      /\ UNCHANGED <<pending, batch, call, stops, raced>>
  BY DEF ConnectHere, MayConnect, lifetime
<1>2. AttemptTyped
  BY DEF Types, TypeOK, AttemptTyped, Delays
<1>3. AttemptTyped'
  BY <1>1, <1>2, StartTyped DEF AttemptTyped
<1>4. timers' >= timers
  BY <1>1, <1>2 DEF startInLoop, connect, connecting, retry, AttemptTyped
<1>5. connects' \in 0 .. MaxConnects
  BY <1>1, ClientAssumption DEF Types, TypeOK
<1>6. TypeOK'
  <2>1. want' \in BOOLEAN /\ clientWant' \in BOOLEAN /\ stopped' \in BOOLEAN
    BY <1>1
  <2>2. /\ retryOn' \in BOOLEAN /\ connection' \in BOOLEAN /\ detached' \in BOOLEAN
        /\ raced' \in BOOLEAN /\ hasty' \in BOOLEAN
    BY <1>1 DEF Types, TypeOK
  <2>3. /\ client' \in {"alive", "gone"} /\ lingering' \in 0 .. 3
        /\ phase' \in {"poll", "dispatch", "functors"}
        /\ events' \in Seq(EventNames)
        /\ pending' \in Seq(Functors) /\ batch' \in Seq(Functors)
        /\ call' \in {"none", "connect1", "connect2", "stop1", "stop2"} \union Destroying
        /\ stops' \in 0 .. MaxStops
    BY <1>1 DEF Types, TypeOK
  <2> QED
    BY <1>3, <1>5, <2>1, <2>2, <2>3 DEF TypeOK, AttemptTyped, Delays
<1>7. TimerFirst'
  BY <1>1, <1>2, <1>3, <1>4 DEF Types, TimerFirst, AttemptTyped
<1> QED
  BY <1>6, <1>7 DEF Types

LEMMA CallTypes ==
    ASSUME Types,
           \/ StopHere \/ Disconnect \/ BeginConnect \/ BeginStop \/ SetWant
           \/ QueueStart \/ QueueStop \/ BeginDestroy \/ Linger
    PROVE  Types'
<1>1. /\ UNCHANGED <<state, channel, registered, timers, delay>>
      /\ UNCHANGED <<retryOn, connection, detached, phase, events, batch, raced, gaveUp,
                     failed>>
      \/ StopHere
  BY DEF Disconnect, BeginConnect, BeginStop, SetWant, QueueStart, QueueStop,
     BeginDestroy, Linger, connectorVars, attemptVars, clientVars, lifetime, history,
     calls
<1>2. /\ UNCHANGED <<state, channel, registered, timers, delay>>
      /\ UNCHANGED <<retryOn, connection, detached, phase, events, batch, gaveUp, failed>>
  <2>1. CASE StopHere
    BY <2>1 DEF StopHere, attemptVars, lifetime
  <2> QED
    BY <1>1, <2>1
<1>3. want' \in BOOLEAN /\ clientWant' \in BOOLEAN /\ stopped' \in BOOLEAN
      /\ raced' \in BOOLEAN /\ hasty' \in BOOLEAN
  BY DEF Disconnect, BeginConnect, BeginStop, SetWant, QueueStart, QueueStop,
     BeginDestroy, Linger, StopHere, connectorVars, clientVars, history, calls,
     Types, TypeOK
<1>4. pending' \in Seq(Functors)
  <2>1. pending' = pending \/ \E f \in Functors : pending' = Append(pending, f)
    BY DEF Disconnect, BeginConnect, BeginStop, SetWant, QueueStart, QueueStop,
       BeginDestroy, Linger, StopHere, Functors
  <2>2. pending \in Seq(Functors)
    BY DEF Types, TypeOK
  <2> QED
    BY <2>1, <2>2, AppendTyped
<1>5. connects' \in 0 .. MaxConnects /\ stops' \in 0 .. MaxStops
  BY ClientAssumption
  DEF Disconnect, BeginConnect, MayConnect, BeginStop, SetWant, QueueStart, QueueStop,
     BeginDestroy, Linger, StopHere, history, calls, Types, TypeOK
<1>6. /\ client' \in {"alive", "gone"} /\ lingering' \in 0 .. 3
      /\ call' \in {"none", "connect1", "connect2", "stop1", "stop2"} \union Destroying
  BY DEF Disconnect, BeginConnect, BeginStop, SetWant, QueueStart, QueueStop,
     BeginDestroy, Linger, StopHere, clientVars, lifetime, Types, TypeOK, Destroying
<1> QED
  BY <1>2, <1>3, <1>4, <1>5, <1>6, TimerKept DEF Types, TypeOK

LEMMA DestroyTypes ==
    ASSUME Types, DestroyHere \/ Detach
    PROVE  Types'
<1>1. /\ UNCHANGED <<state, channel, registered, timers, delay>>
      /\ UNCHANGED <<clientWant, retryOn, connection, phase, events, batch>>
      /\ UNCHANGED <<connects, stops, raced, gaveUp>>
  BY DEF DestroyHere, Detach, connectorVars, attemptVars, calls
<1>2. /\ client' = "gone" /\ lingering' \in 0 .. 3
      /\ call' \in {"none", "connect1", "connect2", "stop1", "stop2"} \union Destroying
  <2>1. /\ client' = "gone" /\ (lingering' = 3 \/ lingering' = lingering)
        /\ (call' = "none" \/ call' = call)
    BY DEF DestroyHere, Detach
  <2> QED
    BY <2>1 DEF Types, TypeOK
<1>3. /\ want' \in BOOLEAN /\ detached' \in BOOLEAN /\ hasty' \in BOOLEAN
      /\ stopped' \in BOOLEAN
  BY DEF DestroyHere, Detach, connectorVars, calls, Types, TypeOK
<1>4. pending' \in Seq(Functors)
  <2>1. pending' = pending \/ \E f \in Functors : pending' = Append(pending, f)
    BY DEF DestroyHere, Detach, Functors
  <2>2. pending \in Seq(Functors)
    BY DEF Types, TypeOK
  <2> QED
    BY <2>1, <2>2, AppendTyped
<1>5. failed' \subseteq {23, 42, 55, 108, 161}
  <2>1. failed' = failed \/ failed' \subseteq failed \union {23, 55}
    BY DEF DestroyHere, Detach, Release
  <2>2. failed \subseteq {23, 42, 55, 108, 161}
    BY DEF Types, TypeOK
  <2> QED
    BY <2>1, <2>2
<1> QED
  BY <1>1, <1>2, <1>4, <1>5, <1>3, TimerKept DEF Types, TypeOK

LEMMA StutterTypes ==
    ASSUME Types, UNCHANGED vars
    PROVE  Types'
BY Framed, TimerKept DEF Types, vars, connectorVars, attemptVars

LEMMA StepTypes ==
    ASSUME Types, [Next]_vars
    PROVE  Types'
BY PollTypes, MoveTypes, FunctorTypes, setCloseCallbackTypes, EventTypes,
   removeConnectionTypes, ConnectHereTypes, CallTypes, DestroyTypes, StutterTypes
DEF Next, LoopNext, UserNext


-----------------------------------------------------------------------------
(* The phases of the loop.                                                 *)

LEMMA InitPhases == Init => PhasesAgree
BY DEF Init, PhasesAgree

LEMMA StepPhases ==
    ASSUME Types, PhasesAgree, [Next]_vars
    PROVE  PhasesAgree'
<1> USE DEF PhasesAgree
<1>1. TypeOK
  BY DEF Types
<1>2. CASE Poll \/ SwapFunctors \/ FinishBatch
  BY <1>2 DEF Poll, SwapFunctors, FinishBatch
<1>3. CASE RunTimer \/ handleWrite \/ handleError \/ restart \/ removeConnection
  <2>1. phase = "dispatch"
    BY <1>1, <1>3, RunningEvent
    DEF RunTimer, handleWrite, handleError, restart, removeConnection, EventNames
  <2>2. phase' = phase /\ batch' = batch
    BY <1>3
    DEF RunTimer, handleWrite, handleError, restart, removeConnection, NextEvent
  <2> QED
    BY <2>1, <2>2
<1>4. CASE RunStartInLoop \/ stopInLoop \/ resetChannel \/ RunConnectDestroyed
           \/ setCloseCallback
  <2>1. phase = "functors"
    BY <1>1, <1>4, RunningFunctor
    DEF RunStartInLoop, stopInLoop, resetChannel, RunConnectDestroyed, setCloseCallback,
        Functors
  <2>2. phase' = phase /\ events' = events
    BY <1>4
    DEF RunStartInLoop, stopInLoop, resetChannel, RunConnectDestroyed, setCloseCallback,
        NextFunctor
  <2> QED
    BY <2>1, <2>2
<1>5. CASE UserNext
  BY <1>5
  DEF UserNext, ConnectHere, StopHere, Disconnect, BeginConnect, BeginStop, SetWant,
      QueueStart, QueueStop, DestroyHere, BeginDestroy, Detach, Linger
<1>6. CASE UNCHANGED vars
  BY <1>6 DEF vars
<1> QED
  BY <1>2, <1>3, <1>4, <1>5, <1>6 DEF Next, LoopNext

-----------------------------------------------------------------------------
(* What holds while nobody interferes.                                     *)

LEMMA ReportedEvents ==
    ASSUME EventsAgree, events # <<>>
    PROVE  /\ Head(events) = "timer" => events = <<"timer">> /\ Tail(events) = <<>>
           /\ Head(events) = "write" => events = <<"write">> /\ Tail(events) = <<>>
           /\ Head(events) = "close" => events = <<"close">> /\ Tail(events) = <<>>
           /\ Head(events) = "restart" => events = <<"restart">> /\ Tail(events) = <<>>
           /\ Head(events) = "error" =>
                 events = <<"error", "write">> /\ Tail(events) = <<"write">>
<1>1. CASE events = <<"error", "write">>
  BY <1>1
<1>2. ASSUME NEW e, events = <<e>>
      PROVE  Head(events) = e /\ Tail(events) = <<>>
  BY <1>2
<1>3. CASE events \in {<<"timer">>, <<"write">>, <<"close">>, <<"restart">>}
  BY <1>2, <1>3
<1> QED
  BY <1>1, <1>3 DEF EventsAgree

LEMMA DistinctEvents ==
    /\ <<>> \notin {<<"timer">>, <<"write">>, <<"error", "write">>, <<"close">>,
                    <<"restart">>}
    /\ <<"timer">> \notin {<<"write">>, <<"error", "write">>, <<"close">>, <<"restart">>}
    /\ <<"write">> \notin {<<"error", "write">>, <<"close">>, <<"restart">>}
    /\ <<"error", "write">> \notin {<<"close">>, <<"restart">>}
    /\ <<"close">> # <<"restart">>
<1>1. <<>> \notin {<<"timer">>, <<"write">>, <<"error", "write">>, <<"close">>,
                   <<"restart">>}
  OBVIOUS
<1>2. <<"timer">> \notin {<<"write">>, <<"error", "write">>, <<"close">>, <<"restart">>}
  OBVIOUS
<1>3. <<"write">> \notin {<<"error", "write">>, <<"close">>, <<"restart">>}
  OBVIOUS
<1>4. <<"error", "write">> \notin {<<"close">>, <<"restart">>}
  OBVIOUS
<1>5. <<"close">> # <<"restart">>
  OBVIOUS
<1> QED
  BY <1>1, <1>2, <1>3, <1>4, <1>5

(* An attempt starts where there is none: it has a channel, or a timer for *)
(* the next one, or has failed for good.                                   *)
LEMMA StartCalm ==
    ASSUME AttemptTyped, failed = {}, ~registered,
           NEW w \in BOOLEAN, NEW d \in Delays, w => ~channel,
           startInLoop("disconnected", w, d, 0)
    PROVE  /\ failed' = {}
           /\ \/ /\ w /\ state' = "connecting" /\ registered' /\ channel' /\ timers' = 0
              \/ /\ state' = "disconnected" /\ ~registered' /\ (channel' <=> channel)
                 /\ timers' = 0 \/ (w /\ timers' = 1)
<1>1. CASE w /\ connecting(d, 0)
  BY <1>1 DEF connecting
<1>2. CASE w /\ retry(w, d, 0) /\ UNCHANGED <<channel, registered, failed>>
  BY <1>2 DEF retry
<1>3. CASE /\ state' = "disconnected" /\ timers' = 0
           /\ UNCHANGED <<channel, registered, failed>>
  BY <1>3
<1> QED
  BY <1>1, <1>2, <1>3 DEF startInLoop, connect

LEMMA RunTimerCalm ==
    ASSUME Types, PhasesAgree, CalmInv, RunTimer
    PROVE  CalmInv'
<1>1. /\ events = <<"timer">> /\ events' = <<>> /\ phase = "dispatch" /\ failed = {}
  BY RunningEvent, ReportedEvents
  DEF RunTimer, NextEvent, Types, EventNames, CalmInv
<1>2. /\ timers = 1 /\ state = "disconnected" /\ ~registered
  BY <1>1 DEF CalmInv, EventsAgree, AttemptAgrees
<1>3. want => ~channel
  BY <1>1, <1>2, DistinctEvents DEF CalmInv, ResetAgrees
<1>4. /\ failed' = {}
      /\ \/ /\ want /\ state' = "connecting" /\ registered' /\ channel' /\ timers' = 0
         \/ /\ state' = "disconnected" /\ ~registered' /\ (channel' <=> channel)
            /\ timers' = 0 \/ (want /\ timers' = 1)
  <2>1. AttemptTyped /\ want \in BOOLEAN /\ delay \in Delays
    BY DEF Types, TypeOK, AttemptTyped, Delays
  <2>2. startInLoop("disconnected", want, delay, 0)
    BY <1>2 DEF RunTimer
  <2> QED
    BY <1>1, <1>2, <1>3, <2>1, <2>2, StartCalm
<1>5. /\ UNCHANGED <<phase, batch, clientWant, client, detached, lingering>>
      /\ UNCHANGED <<call, stopped, want, connection, pending>>
  BY DEF RunTimer, NextEvent, calls, lifetime
<1>6. AttemptAgrees'
  BY <1>2, <1>4, <1>5 DEF CalmInv, AttemptAgrees
<1>7. EventsAgree'
  BY <1>1, <1>5, DistinctEvents DEF EventsAgree
<1>8. ResetAgrees'
  BY <1>1, <1>2, <1>3, <1>4, <1>5, DistinctEvents DEF CalmInv, ResetAgrees, Waits, Single
<1>9. StartAgrees'
  BY <1>2, <1>4, <1>5 DEF CalmInv, StartAgrees, Waits, Single, InsideConnect
<1>10. StopAgrees'
  BY <1>2, <1>4, <1>5 DEF CalmInv, StopAgrees, Waits, Usable, AttemptAgrees
<1>11. GoneAgrees'
  BY <1>2, <1>3, <1>4, <1>5
  DEF CalmInv, GoneAgrees, AttemptAgrees, Waits, Idle, Winding
<1> QED
  BY <1>6, <1>7, <1>8, <1>9, <1>10, <1>11 DEF CalmInv


(* The attempt is given up: its channel leaves the Poller.                 *)
LEMMA DropCalm ==
    ASSUME Types, CalmInv, dropAttempt
    PROVE  /\ state = "connecting" /\ registered /\ channel /\ timers = 0 /\ ~connection
           /\ state' = "disconnected" /\ ~registered' /\ channel' = channel
           /\ timers' \in {0, 1} /\ (timers' = 1 => want)
           /\ connection' = connection /\ failed' = failed
           /\ pending' = Append(pending, "resetChannel")
           /\ ~Waits("resetChannel") /\ ~Waits("startInLoop") /\ ~InsideConnect
<1>1. state = "connecting" /\ registered /\ channel /\ timers = 0 /\ ~connection
  BY DEF CalmInv, AttemptAgrees, dropAttempt
<1>2. ~Waits("resetChannel") /\ ~Waits("startInLoop") /\ ~InsideConnect
  BY <1>1 DEF CalmInv, ResetAgrees, StartAgrees
<1> QED
  BY <1>1, <1>2 DEF dropAttempt, removeAndResetChannel, retry

LEMMA HandleErrorCalm ==
    ASSUME Types, PhasesAgree, CalmInv, handleError
    PROVE  CalmInv'
<1>1. /\ events = <<"error", "write">> /\ events' = <<"write">>
      /\ phase = "dispatch" /\ failed = {}
  BY RunningEvent, ReportedEvents
  DEF handleError, NextEvent, Types, EventNames, CalmInv
<1>2. dropAttempt
  BY <1>1 DEF handleError, CalmInv, EventsAgree
<1>3. /\ state = "connecting" /\ registered /\ channel /\ timers = 0 /\ ~connection
      /\ state' = "disconnected" /\ ~registered' /\ channel' = channel
      /\ timers' \in {0, 1} /\ (timers' = 1 => want)
      /\ connection' = connection /\ failed' = failed
      /\ pending' = Append(pending, "resetChannel")
      /\ ~Waits("resetChannel") /\ ~Waits("startInLoop") /\ ~InsideConnect
  BY <1>2, DropCalm
<1>4. /\ UNCHANGED <<phase, batch, clientWant, client, detached, lingering>>
      /\ UNCHANGED <<call, stopped, want>>
  BY DEF handleError, NextEvent, calls, lifetime
<1>5. \A f : /\ In(f, pending') <=> In(f, pending) \/ f = "resetChannel"
             /\ Waits(f)' <=> Waits(f) \/ f = "resetChannel"
             /\ Single(f) /\ (f # "resetChannel" \/ ~Waits(f)) => Single(f)'
  BY <1>3, <1>4, Enqueue DEF Types, Functors
<1>6. AttemptAgrees'
  BY <1>1, <1>3, <1>4 DEF AttemptAgrees
<1>7. EventsAgree'
  BY <1>1, <1>3, DistinctEvents DEF EventsAgree
<1>8. ResetAgrees'
  BY <1>1, <1>3, <1>4, <1>5 DEF CalmInv, ResetAgrees
<1>9. StartAgrees'
  BY <1>3, <1>4, <1>5 DEF CalmInv, StartAgrees, InsideConnect
<1>10. StopAgrees'
  BY <1>3, <1>4, <1>5 DEF CalmInv, StopAgrees, Usable
<1>11. GoneAgrees'
  BY <1>1, <1>3, <1>4, <1>5 DEF CalmInv, GoneAgrees, Idle, Winding
<1> QED
  BY <1>6, <1>7, <1>8, <1>9, <1>10, <1>11 DEF CalmInv

LEMMA HandleWriteCalm ==
    ASSUME Types, PhasesAgree, CalmInv, handleWrite, ~raced'
    PROVE  CalmInv'
<1>1. /\ events = <<"write">> /\ events' = <<>> /\ phase = "dispatch" /\ failed = {}
  BY RunningEvent, ReportedEvents
  DEF handleWrite, NextEvent, Types, EventNames, CalmInv
<1>2. /\ UNCHANGED <<phase, batch, clientWant, client, detached, lingering>>
      /\ UNCHANGED <<call, stopped, want>>
  BY DEF handleWrite, NextEvent, calls, lifetime
<1>3. EventsAgree'
  BY <1>1, DistinctEvents DEF EventsAgree
<1>4. CASE state = "connecting"
  <2>1. /\ registered /\ channel /\ timers = 0 /\ ~connection
        /\ ~Waits("resetChannel") /\ ~Waits("startInLoop") /\ ~InsideConnect
    BY <1>4 DEF CalmInv, AttemptAgrees, ResetAgrees, StartAgrees
  <2>2. /\ ~registered' /\ channel' = channel /\ failed' = failed
        /\ pending' = Append(pending, "resetChannel")
        /\ \/ /\ state' = "disconnected" /\ connection' = connection
              /\ timers' \in {0, 1} /\ (timers' = 1 => want)
           \/ /\ state' = "connected" /\ timers' = timers
              /\ connection' = connection \/ (connection' = TRUE /\ want)
    <3>1. CASE dropAttempt
      BY <3>1, DropCalm
    <3>2. CASE finishAttempt
      BY <3>2 DEF finishAttempt, removeAndResetChannel, newConnection
    <3> QED
      BY <1>4, <3>1, <3>2 DEF handleWrite
  <2>3. connection' = connection \/ (connection' = TRUE /\ want /\ Usable)
    BY <2>1, <2>2 DEF handleWrite
  <2>4. \A f : /\ In(f, pending') <=> In(f, pending) \/ f = "resetChannel"
               /\ Waits(f)' <=> Waits(f) \/ f = "resetChannel"
               /\ Single(f) /\ (f # "resetChannel" \/ ~Waits(f)) => Single(f)'
    BY <1>2, <2>2, Enqueue DEF Types, Functors
  <2>5. AttemptAgrees'
    BY <1>1, <2>1, <2>2 DEF AttemptAgrees
  <2>6. ResetAgrees'
    BY <1>1, <1>2, <2>1, <2>2, <2>4 DEF CalmInv, ResetAgrees
  <2>7. StartAgrees'
    BY <1>2, <2>1, <2>4 DEF CalmInv, StartAgrees, InsideConnect
  <2>8. StopAgrees'
    BY <1>2, <1>4, <2>1, <2>2, <2>4 DEF CalmInv, StopAgrees, Usable
  <2>9. GoneAgrees'
    BY <1>1, <1>2, <1>4, <2>1, <2>2, <2>3, <2>4
    DEF CalmInv, GoneAgrees, Idle, Winding, Usable, Destroying
  <2> QED
    BY <1>3, <2>5, <2>6, <2>7, <2>8, <2>9 DEF CalmInv
<1>5. CASE state # "connecting"
  <2>1. state = "disconnected" /\ channel
    BY <1>1, <1>5, DistinctEvents DEF CalmInv, EventsAgree, Types, TypeOK
  <2>2. /\ UNCHANGED <<state, channel, registered, timers, pending, connection>>
        /\ failed' = failed
    BY <1>5, <2>1 DEF handleWrite, dropAttempt, finishAttempt, attemptVars
  <2>3. AttemptAgrees' /\ StopAgrees' /\ GoneAgrees' /\ StartAgrees'
    BY <1>2, <2>2
    DEF CalmInv, AttemptAgrees, StopAgrees, GoneAgrees, StartAgrees, Single, Waits, Idle,
        Winding, Usable, InsideConnect
  <2>4. ResetAgrees'
    BY <1>1, <1>2, <2>2 DEF CalmInv, ResetAgrees, Single, Waits
  <2> QED
    BY <1>3, <2>3, <2>4 DEF CalmInv
<1> QED
  BY <1>4, <1>5


LEMMA RemoveConnectionCalm ==
    ASSUME Types, PhasesAgree, CalmInv, removeConnection, ~raced'
    PROVE  CalmInv'
<1>1. events = <<"close">> /\ phase = "dispatch" /\ failed = {}
  BY RunningEvent, ReportedEvents DEF removeConnection, Types, EventNames, CalmInv
<1>2. events' = <<>> \/ events' = <<"restart">>
  BY <1>1 DEF removeConnection
<1>3. /\ connection /\ state = "connected" /\ ~channel /\ ~registered /\ timers = 0
      /\ ~Waits("resetChannel") /\ ~Waits("startInLoop") /\ ~InsideConnect
  BY <1>1, DistinctEvents
  DEF CalmInv, EventsAgree, AttemptAgrees, ResetAgrees, StartAgrees
<1>4. /\ connection' = FALSE
      /\ pending' = Append(pending, "connectDestroyed")
      /\ UNCHANGED <<want, state, channel, registered, timers>>
      /\ UNCHANGED <<clientWant, client, detached, lingering, phase, batch, call>>
      /\ UNCHANGED <<stopped, failed>>
      /\ Usable \/ detached
  BY DEF removeConnection, connectorVars, attemptVars, lifetime, calls
<1>5. \A f : /\ In(f, pending') <=> In(f, pending) \/ f = "connectDestroyed"
             /\ Waits(f)' <=> Waits(f) \/ f = "connectDestroyed"
             /\ Single(f) /\ (f # "connectDestroyed" \/ ~Waits(f)) => Single(f)'
  BY <1>4, Enqueue DEF Types, Functors
<1>6. AttemptAgrees'
  BY <1>1, <1>3, <1>4 DEF AttemptAgrees
<1>7. EventsAgree'
  BY <1>2, <1>3, <1>4, DistinctEvents DEF EventsAgree
<1>8. ResetAgrees'
  BY <1>3, <1>4, <1>5 DEF CalmInv, ResetAgrees
<1>9. StartAgrees'
  BY <1>3, <1>4, <1>5 DEF CalmInv, StartAgrees, InsideConnect
<1>10. StopAgrees'
  BY <1>3, <1>4, <1>5 DEF CalmInv, StopAgrees, Usable
<1>11. GoneAgrees'
  BY <1>1, <1>3, <1>4, <1>5 DEF CalmInv, GoneAgrees, Idle, Winding, Usable, Destroying
<1> QED
  BY <1>6, <1>7, <1>8, <1>9, <1>10, <1>11 DEF CalmInv

LEMMA RestartCalm ==
    ASSUME Types, PhasesAgree, CalmInv, restart, ~raced'
    PROVE  CalmInv'
<1>1. /\ events = <<"restart">> /\ events' = <<>> /\ phase = "dispatch" /\ failed = {}
  BY RunningEvent, ReportedEvents
  DEF restart, NextEvent, Types, EventNames, CalmInv
<1>2. /\ state = "connected" /\ ~connection /\ ~channel /\ ~registered /\ timers = 0
      /\ ~Waits("resetChannel") /\ ~Waits("startInLoop") /\ ~InsideConnect
  BY <1>1, DistinctEvents
  DEF CalmInv, EventsAgree, AttemptAgrees, ResetAgrees, StartAgrees
<1>3. /\ UNCHANGED <<phase, batch, clientWant, client, detached, lingering>>
      /\ UNCHANGED <<call, stopped, connection, pending>>
      /\ want' = TRUE /\ clientWant /\ Usable
  BY DEF restart, NextEvent, calls, lifetime
<1>4. ~stopped /\ ~Waits("stopInLoop") /\ call \notin {"stop1", "stop2"}
  BY <1>3 DEF CalmInv, StopAgrees
<1>5. /\ failed' = {}
      /\ \/ /\ state' = "connecting" /\ registered' /\ channel' /\ timers' = 0
         \/ /\ state' = "disconnected" /\ ~registered' /\ ~channel'
            /\ timers' \in {0, 1}
  <2>1. AttemptTyped /\ kInitRetryDelayMs \in Delays
    BY ClientAssumption DEF Types, TypeOK, AttemptTyped, Delays
  <2>2. startInLoop("disconnected", TRUE, kInitRetryDelayMs, 0)
    BY <1>2 DEF restart
  <2> QED
    BY <1>1, <1>2, <2>1, <2>2, StartCalm
<1>6. AttemptAgrees'
  BY <1>2, <1>3, <1>5 DEF AttemptAgrees
<1>7. EventsAgree'
  BY <1>1, DistinctEvents DEF EventsAgree
<1>8. ResetAgrees'
  BY <1>2, <1>3, <1>5 DEF CalmInv, ResetAgrees, Waits, Single
<1>9. StartAgrees'
  BY <1>2, <1>3 DEF CalmInv, StartAgrees, Waits, Single, InsideConnect
<1>10. StopAgrees'
  BY <1>3, <1>4 DEF StopAgrees, Waits, Usable, Destroying
<1>11. GoneAgrees'
  BY <1>2, <1>3 DEF CalmInv, GoneAgrees, Waits, Usable, Destroying
<1> QED
  BY <1>6, <1>7, <1>8, <1>9, <1>10, <1>11 DEF CalmInv

LEMMA RunStartInLoopCalm ==
    ASSUME Types, PhasesAgree, CalmInv, RunStartInLoop
    PROVE  CalmInv'
<1>1. /\ phase = "functors" /\ batch # <<>> /\ Head(batch) = "startInLoop"
      /\ events = <<>> /\ failed = {}
  BY RunningFunctor DEF RunStartInLoop, Types, Functors, PhasesAgree
<1>2. /\ batch' = Tail(batch)
      /\ UNCHANGED <<phase, events, clientWant, connection, client, lingering>>
      /\ UNCHANGED <<call, stopped, want, detached, pending>>
  BY DEF RunStartInLoop, NextFunctor, calls
<1>3. \A f : /\ In(f, batch') => In(f, batch)
             /\ f # "startInLoop" => (In(f, batch) <=> In(f, batch'))
             /\ f # "startInLoop" => (Waits(f) <=> Waits(f)')
             /\ Single(f) => Single(f)'
             /\ Single(f) /\ f = "startInLoop" => ~Waits(f)' /\ In(f, batch)
  BY <1>1, <1>2, Dequeue DEF Types
<1>4. /\ state = "disconnected" /\ ~channel /\ ~registered /\ timers = 0 /\ ~connection
      /\ ~Waits("resetChannel") /\ ~Waits("startInLoop")' /\ ~InsideConnect
  <2>1. Waits("startInLoop") /\ ~Waits("startInLoop")'
    BY <1>3 DEF CalmInv, StartAgrees, Waits
  <2> QED
    BY <2>1 DEF CalmInv, AttemptAgrees, ResetAgrees, StartAgrees
<1>5. /\ failed' = {}
      /\ \/ /\ want /\ state' = "connecting" /\ registered' /\ channel' /\ timers' = 0
         \/ /\ state' = "disconnected" /\ ~registered' /\ ~channel'
            /\ timers' = 0 \/ (want /\ timers' = 1)
  <2>1. AttemptTyped /\ want \in BOOLEAN /\ delay \in Delays
    BY DEF Types, TypeOK, AttemptTyped, Delays
  <2>2. startInLoop("disconnected", want, delay, 0)
    BY <1>4 DEF RunStartInLoop
  <2> QED
    BY <1>1, <1>4, <2>1, <2>2, StartCalm
<1>6. AttemptAgrees'
  BY <1>2, <1>4, <1>5 DEF AttemptAgrees
<1>7. EventsAgree'
  BY <1>1, <1>2, DistinctEvents DEF EventsAgree
<1>8. ResetAgrees'
  BY <1>3, <1>4, <1>5 DEF CalmInv, ResetAgrees
<1>9. StartAgrees'
  BY <1>2, <1>3, <1>4 DEF CalmInv, StartAgrees, InsideConnect
<1>10. StopAgrees'
  BY <1>2, <1>3, <1>5 DEF CalmInv, StopAgrees, Usable
<1>11. GoneAgrees'
  BY <1>1, <1>2, <1>3, <1>4, <1>5 DEF CalmInv, GoneAgrees, Idle, Winding
<1> QED
  BY <1>6, <1>7, <1>8, <1>9, <1>10, <1>11 DEF CalmInv

LEMMA StopInLoopCalm ==
    ASSUME Types, PhasesAgree, CalmInv, stopInLoop
    PROVE  CalmInv'
<1>1. /\ phase = "functors" /\ batch # <<>> /\ Head(batch) = "stopInLoop"
      /\ events = <<>> /\ failed = {}
  BY RunningFunctor DEF stopInLoop, Types, Functors, PhasesAgree
<1>2. /\ batch' = Tail(batch)
      /\ UNCHANGED <<phase, events, clientWant, connection, client, lingering>>
      /\ UNCHANGED <<call, stopped, want, detached>>
  BY DEF stopInLoop, NextFunctor, calls
<1>3. In("stopInLoop", batch) /\ stopped /\ ~want
  <2>1. In("stopInLoop", batch)
    BY <1>1, InTail DEF Types, TypeOK
  <2> QED
    BY <2>1 DEF CalmInv, StopAgrees, Waits
<1>4. EventsAgree'
  BY <1>1, <1>2, DistinctEvents DEF EventsAgree
<1>5. CASE dropAttempt
  <2>1. /\ state = "connecting" /\ registered /\ channel /\ timers = 0 /\ ~connection
        /\ state' = "disconnected" /\ ~registered' /\ channel' = channel
        /\ timers' \in {0, 1} /\ (timers' = 1 => want)
        /\ connection' = connection /\ failed' = failed
        /\ pending' = Append(pending, "resetChannel")
        /\ ~Waits("resetChannel") /\ ~Waits("startInLoop") /\ ~InsideConnect
    BY <1>5, DropCalm
  <2>2. \A f : /\ In(f, batch') => In(f, batch)
               /\ In(f, pending') <=> In(f, pending) \/ f = "resetChannel"
               /\ f # "stopInLoop" => (In(f, batch) <=> In(f, batch'))
               /\ f # "stopInLoop" => (Waits(f)' <=> Waits(f) \/ f = "resetChannel")
               /\ Single(f) /\ (f # "resetChannel" \/ ~Waits(f)) => Single(f)'
    BY <1>1, <1>2, <2>1, DequeueEnqueue DEF Types, Functors
  <2>3. Waits("stopInLoop")' => Waits("stopInLoop")
    BY <2>2 DEF Waits
  <2>4. AttemptAgrees'
    BY <1>1, <1>2, <2>1 DEF AttemptAgrees
  <2>5. ResetAgrees'
    BY <1>2, <1>3, <2>1, <2>2 DEF CalmInv, ResetAgrees
  <2>6. StartAgrees'
    BY <1>2, <2>1, <2>2 DEF CalmInv, StartAgrees, InsideConnect
  <2>7. StopAgrees'
    BY <1>2, <1>3, <2>1 DEF CalmInv, StopAgrees, Usable
  <2>8. GoneAgrees'
    BY <1>1, <1>2, <1>3, <2>1, <2>2, <2>3 DEF CalmInv, GoneAgrees, Idle, Winding, Waits
  <2> QED
    BY <1>4, <2>4, <2>5, <2>6, <2>7, <2>8 DEF CalmInv
<1>6. CASE state # "connecting" /\ UNCHANGED <<attemptVars, pending, failed>>
  <2>1. UNCHANGED <<state, channel, registered, timers, pending, failed>>
    BY <1>6 DEF attemptVars
  <2>2. \A f : /\ In(f, batch') => In(f, batch)
               /\ f # "stopInLoop" => (In(f, batch) <=> In(f, batch'))
               /\ f # "stopInLoop" => (Waits(f) <=> Waits(f)')
               /\ Single(f) => Single(f)'
    BY <1>1, <1>2, <2>1, Dequeue DEF Types
  <2>3. Waits("stopInLoop")' => Waits("stopInLoop")
    BY <2>1, <2>2 DEF Waits
  <2>4. AttemptAgrees'
    BY <1>2, <2>1 DEF CalmInv, AttemptAgrees
  <2>5. ResetAgrees'
    BY <1>1, <1>2, <2>1, <2>2 DEF CalmInv, ResetAgrees
  <2>6. StartAgrees'
    BY <1>2, <2>1, <2>2 DEF CalmInv, StartAgrees, InsideConnect
  <2>7. StopAgrees'
    BY <1>2, <1>3, <1>6, <2>1 DEF CalmInv, StopAgrees, Usable
  <2>8. GoneAgrees'
    BY <1>1, <1>2, <1>3, <2>1, <2>2, <2>3 DEF CalmInv, GoneAgrees, Idle, Winding
  <2> QED
    BY <1>4, <2>4, <2>5, <2>6, <2>7, <2>8 DEF CalmInv
<1> QED
  BY <1>5, <1>6 DEF stopInLoop


LEMMA ResetChannelCalm ==
    ASSUME Types, PhasesAgree, CalmInv, resetChannel
    PROVE  CalmInv'
<1>1. /\ phase = "functors" /\ batch # <<>> /\ Head(batch) = "resetChannel"
      /\ events = <<>> /\ failed = {}
  BY RunningFunctor DEF resetChannel, Types, Functors, PhasesAgree
<1>2. /\ batch' = Tail(batch) /\ channel' = FALSE
      /\ UNCHANGED <<phase, events, clientWant, connection, client, lingering>>
      /\ UNCHANGED <<call, stopped, want, detached, state, registered, timers, pending>>
      /\ UNCHANGED failed
  BY DEF resetChannel, NextFunctor, calls
<1>3. \A f : /\ In(f, batch') => In(f, batch)
             /\ f # "resetChannel" => (In(f, batch) <=> In(f, batch'))
             /\ f # "resetChannel" => (Waits(f) <=> Waits(f)')
             /\ Single(f) => Single(f)'
             /\ Single(f) /\ f = "resetChannel" => ~Waits(f)' /\ In(f, batch)
  BY <1>1, <1>2, Dequeue DEF Types
<1>4. channel /\ ~registered /\ ~Waits("resetChannel")'
  <2>1. Waits("resetChannel") /\ ~Waits("resetChannel")'
    BY <1>3 DEF CalmInv, ResetAgrees, Waits
  <2> QED
    BY <2>1 DEF CalmInv, ResetAgrees
<1>5. AttemptAgrees' /\ EventsAgree'
  BY <1>1, <1>2, <1>4, DistinctEvents DEF CalmInv, AttemptAgrees, EventsAgree
<1>6. ResetAgrees'
  BY <1>2, <1>3, <1>4 DEF CalmInv, ResetAgrees
<1>7. StartAgrees'
  BY <1>2, <1>3 DEF CalmInv, StartAgrees, InsideConnect
<1>8. StopAgrees'
  BY <1>2, <1>3 DEF CalmInv, StopAgrees, Usable
<1>9. GoneAgrees'
  BY <1>1, <1>2, <1>3, <1>4 DEF CalmInv, GoneAgrees, Idle, Winding
<1> QED
  BY <1>5, <1>6, <1>7, <1>8, <1>9 DEF CalmInv

LEMMA ConnectDestroyedCalm ==
    ASSUME Types, PhasesAgree, CalmInv, RunConnectDestroyed
    PROVE  CalmInv'
<1>1. /\ phase = "functors" /\ batch # <<>> /\ Head(batch) = "connectDestroyed"
      /\ events = <<>>
  BY RunningFunctor DEF RunConnectDestroyed, Types, Functors, PhasesAgree
<1>2. /\ batch' = Tail(batch)
      /\ UNCHANGED <<phase, events, clientWant, connection, client, lingering, channel>>
      /\ UNCHANGED <<call, stopped, want, detached, state, registered, timers, pending>>
      /\ UNCHANGED failed
  BY DEF RunConnectDestroyed, NextFunctor, calls, connectorVars, attemptVars
<1>3. \A f : /\ In(f, batch') => In(f, batch)
             /\ f # "connectDestroyed" => (In(f, batch) <=> In(f, batch'))
             /\ f # "connectDestroyed" => (Waits(f) <=> Waits(f)')
             /\ Single(f) => Single(f)'
  BY <1>1, <1>2, Dequeue DEF Types
<1>4. AttemptAgrees' /\ EventsAgree'
  BY <1>2 DEF CalmInv, AttemptAgrees, EventsAgree
<1>5. ResetAgrees'
  BY <1>2, <1>3 DEF CalmInv, ResetAgrees
<1>6. StartAgrees'
  BY <1>2, <1>3 DEF CalmInv, StartAgrees, InsideConnect
<1>7. StopAgrees'
  BY <1>2, <1>3 DEF CalmInv, StopAgrees, Usable
<1>8. GoneAgrees'
  BY <1>1, <1>2, <1>3 DEF CalmInv, GoneAgrees, Idle, Winding
<1> QED
  BY <1>4, <1>5, <1>6, <1>7, <1>8 DEF CalmInv

LEMMA SetCloseCallbackCalm ==
    ASSUME Types, PhasesAgree, CalmInv, setCloseCallback
    PROVE  CalmInv'
<1>1. /\ phase = "functors" /\ batch # <<>> /\ Head(batch) = "setCloseCallback"
      /\ events = <<>> /\ failed = {}
  BY RunningFunctor DEF setCloseCallback, Types, Functors, PhasesAgree
<1>2. /\ batch' = Tail(batch) /\ detached' = TRUE
      /\ UNCHANGED <<phase, events, clientWant, connection, client, lingering, channel>>
      /\ UNCHANGED <<call, stopped, want, state, registered, timers, pending>>
      /\ failed' \subseteq {23, 55}
  BY <1>1 DEF setCloseCallback, Release, NextFunctor, calls, connectorVars, attemptVars
<1>3. \A f : /\ In(f, batch') => In(f, batch)
             /\ f # "setCloseCallback" => (In(f, batch) <=> In(f, batch'))
             /\ f # "setCloseCallback" => (Waits(f) <=> Waits(f)')
             /\ Single(f) => Single(f)'
  BY <1>1, <1>2, Dequeue DEF Types
<1>4. client = "gone"
  <2>1. In("setCloseCallback", batch)
    BY <1>1, InTail DEF Types, TypeOK
  <2> QED
    BY <2>1 DEF CalmInv, GoneAgrees, Waits
<1>5. AttemptAgrees' /\ EventsAgree'
  BY <1>2 DEF CalmInv, AttemptAgrees, EventsAgree
<1>6. ResetAgrees'
  BY <1>2, <1>3 DEF CalmInv, ResetAgrees
<1>7. StartAgrees'
  BY <1>2, <1>3 DEF CalmInv, StartAgrees, InsideConnect
<1>8. StopAgrees'
  BY <1>2, <1>3 DEF CalmInv, StopAgrees, Usable
<1>9. GoneAgrees'
  BY <1>1, <1>2, <1>3, <1>4 DEF CalmInv, GoneAgrees, Idle, Winding
<1> QED
  BY <1>5, <1>6, <1>7, <1>8, <1>9 DEF CalmInv

LEMMA PollCalm ==
    ASSUME Types, PhasesAgree, CalmInv, Poll
    PROVE  CalmInv'
<1>1. /\ phase = "poll" /\ phase' = "dispatch" /\ events = <<>> /\ batch = <<>>
      /\ lingering' \in (IF lingering = 1 THEN {0, 1} ELSE {Less(lingering)})
      /\ UNCHANGED <<want, state, channel, registered, timers, clientWant>>
      /\ UNCHANGED <<connection, client, detached, pending, batch, call, stopped, failed>>
  BY DEF Poll, PhasesAgree, connectorVars, attemptVars, history, calls
<1>2. EventsAgree'
  <2> PICK expired \in {<<>>, <<"timer">>}, outcome \in Outcomes,
           closed \in {<<>>, <<"close">>} :
               /\ events' = expired \o outcome \o closed
               /\ expired = <<"timer">> => timers > 0
               /\ outcome # <<>> => registered
               /\ closed # <<>> => connection
    BY PollReports
  <2>1. /\ timers \in {0, 1} /\ (timers = 1 => state = "disconnected")
        /\ (registered <=> state = "connecting") /\ (registered => channel)
        /\ (connection => state = "connected")
    BY DEF CalmInv, AttemptAgrees
  <2>2. CASE expired = <<"timer">>
    <3>1. timers = 1 /\ outcome = <<>> /\ closed = <<>>
      BY <2>1, <2>2
    <3>2. events' = <<"timer">>
      BY <2>2, <3>1
    <3> QED
      BY <1>1, <3>1, <3>2, DistinctEvents DEF EventsAgree
  <2>3. CASE expired = <<>> /\ outcome # <<>>
    <3>1. state = "connecting" /\ channel /\ closed = <<>>
      BY <2>1, <2>3
    <3>2. events' \in {<<"write">>, <<"error", "write">>}
      <4>1. CASE outcome = <<"write">>
        BY <2>3, <3>1, <4>1
      <4>2. CASE outcome = <<"error", "write">>
        BY <2>3, <3>1, <4>2
      <4> QED
        BY <2>3, <4>1, <4>2 DEF Outcomes
    <3> QED
      BY <1>1, <3>1, <3>2, DistinctEvents DEF EventsAgree
  <2>4. CASE expired = <<>> /\ outcome = <<>>
    <3>1. events' = closed
      BY <2>4
    <3> QED
      BY <1>1, <3>1, DistinctEvents DEF EventsAgree
  <2> QED
    BY <2>2, <2>3, <2>4
<1>3. AttemptAgrees'
  BY <1>1 DEF CalmInv, AttemptAgrees
<1>4. ResetAgrees' /\ StartAgrees' /\ StopAgrees'
  BY <1>1
  DEF CalmInv, ResetAgrees, StartAgrees, StopAgrees, Single, Waits, InsideConnect, Usable
<1>5. GoneAgrees'
  BY <1>1, InEmpty DEF CalmInv, GoneAgrees, Idle, Winding, Waits, Less, Types, TypeOK
<1> QED
  BY <1>2, <1>3, <1>4, <1>5 DEF CalmInv

LEMMA SwapCalm ==
    ASSUME Types, PhasesAgree, CalmInv, SwapFunctors
    PROVE  CalmInv'
<1>1. /\ phase = "dispatch" /\ phase' = "functors" /\ events = <<>> /\ batch = <<>>
      /\ batch' = pending /\ pending' = <<>>
      /\ UNCHANGED <<want, state, channel, registered, timers, clientWant, events>>
      /\ UNCHANGED <<connection, client, detached, lingering, call, stopped, failed>>
  BY DEF SwapFunctors, PhasesAgree, connectorVars, attemptVars, clientVars, lifetime,
     history, calls
<1>2. \A f : /\ In(f, batch') <=> In(f, pending)
             /\ ~In(f, pending')
             /\ Waits(f)' <=> Waits(f)
             /\ Single(f) => Single(f)'
  BY <1>1, InEmpty DEF Waits, Single
<1>3. AttemptAgrees' /\ EventsAgree'
  BY <1>1 DEF CalmInv, AttemptAgrees, EventsAgree
<1>4. ResetAgrees' /\ StartAgrees' /\ StopAgrees'
  BY <1>1, <1>2
  DEF CalmInv, ResetAgrees, StartAgrees, StopAgrees, InsideConnect, Usable
<1>5. GoneAgrees'
  BY <1>1, <1>2 DEF CalmInv, GoneAgrees, Idle, Winding
<1> QED
  BY <1>3, <1>4, <1>5 DEF CalmInv

LEMMA FinishBatchCalm ==
    ASSUME Types, PhasesAgree, CalmInv, FinishBatch
    PROVE  CalmInv'
<1>1. /\ phase = "functors" /\ phase' = "poll" /\ events = <<>> /\ batch = <<>>
      /\ UNCHANGED <<want, state, channel, registered, timers, clientWant, events>>
      /\ UNCHANGED <<connection, client, detached, lingering, call, stopped, failed>>
      /\ UNCHANGED <<pending, batch>>
  BY DEF FinishBatch, PhasesAgree, connectorVars, attemptVars, clientVars, lifetime,
     history, calls
<1>2. \A f : /\ ~In(f, batch)
             /\ Waits(f)' <=> Waits(f)
             /\ Waits(f) <=> In(f, pending)
             /\ Single(f) => Single(f)'
  BY <1>1, InEmpty DEF Waits, Single
<1>3. AttemptAgrees' /\ EventsAgree'
  BY <1>1 DEF CalmInv, AttemptAgrees, EventsAgree
<1>4. ResetAgrees' /\ StartAgrees' /\ StopAgrees'
  BY <1>1, <1>2
  DEF CalmInv, ResetAgrees, StartAgrees, StopAgrees, InsideConnect, Usable
<1>5. GoneAgrees'
  <2>1. stopped /\ ~Waits("stopInLoop") => ~registered
    BY DEF CalmInv, StopAgrees, AttemptAgrees
  <2>2. ~Waits("resetChannel") => ~channel \/ registered
    BY DEF CalmInv, ResetAgrees
  <2> QED
    BY <1>1, <1>2, <2>1, <2>2 DEF CalmInv, GoneAgrees, Idle, Winding
<1> QED
  BY <1>3, <1>4, <1>5 DEF CalmInv


LEMMA NothingLeftOver ==
    ASSUME Types, CalmInv, ~LeftOver
    PROVE  /\ call = "none" /\ ~channel /\ timers = 0 /\ state = "disconnected"
           /\ ~registered /\ ~connection /\ events = <<>>
           /\ \A f \in {"startInLoop", "stopInLoop", "resetChannel"} : ~Waits(f)
<1>1. /\ call = "none" /\ ~channel /\ ~(timers > 0) /\ state = "disconnected"
      /\ ~Waits("startInLoop") /\ ~Waits("stopInLoop")
  BY QueuedWaits DEF LeftOver, Types
<1>2. timers = 0 /\ ~registered /\ ~connection /\ ~Waits("resetChannel")
  BY <1>1 DEF CalmInv, AttemptAgrees, ResetAgrees
<1>3. events = <<>>
  BY <1>1, <1>2, DistinctEvents DEF CalmInv, EventsAgree
<1> QED
  BY <1>1, <1>2, <1>3

LEMMA ConnectHereCalm ==
    ASSUME Types, PhasesAgree, CalmInv, ConnectHere, ~hasty'
    PROVE  CalmInv'
<1>1. /\ failed = {} /\ Usable /\ ~LeftOver
      /\ clientWant' = TRUE /\ want' = TRUE /\ stopped' = FALSE
      /\ startInLoop(state, TRUE, delay, timers)
      /\ UNCHANGED <<connection, client, detached, lingering, phase, events, pending>>
      /\ UNCHANGED <<batch, call>>
  BY DEF ConnectHere, MayConnect, Alive, lifetime
<1>2. /\ call = "none" /\ ~channel /\ timers = 0 /\ state = "disconnected"
      /\ ~registered /\ ~connection /\ events = <<>>
      /\ \A f \in {"startInLoop", "stopInLoop", "resetChannel"} : ~Waits(f)
  BY <1>1, NothingLeftOver
<1>3. /\ failed' = {}
      /\ \/ /\ state' = "connecting" /\ registered' /\ channel' /\ timers' = 0
         \/ /\ state' = "disconnected" /\ ~registered' /\ ~channel'
            /\ timers' \in {0, 1}
  <2>1. AttemptTyped /\ delay \in Delays
    BY DEF Types, TypeOK, AttemptTyped, Delays
  <2>2. startInLoop("disconnected", TRUE, delay, 0)
    BY <1>1, <1>2
  <2> QED
    BY <1>1, <1>2, <2>1, <2>2, StartCalm
<1>4. AttemptAgrees' /\ EventsAgree'
  BY <1>1, <1>2, <1>3, DistinctEvents DEF AttemptAgrees, EventsAgree
<1>5. ResetAgrees' /\ StartAgrees' /\ StopAgrees'
  BY <1>1, <1>2, <1>3
  DEF CalmInv, ResetAgrees, StartAgrees, StopAgrees, Waits, Single, InsideConnect
<1>6. GoneAgrees'
  BY <1>1, <1>2 DEF CalmInv, GoneAgrees, Waits, Usable
<1> QED
  BY <1>4, <1>5, <1>6 DEF CalmInv

LEMMA StopHereCalm ==
    ASSUME Types, PhasesAgree, CalmInv, StopHere, ~raced'
    PROVE  CalmInv'
<1>1. /\ Usable /\ ~InsideConnect
      /\ clientWant' = FALSE /\ want' = FALSE /\ stopped' = TRUE
      /\ pending' = Append(pending, "stopInLoop")
      /\ UNCHANGED <<state, channel, registered, timers, failed, connection, client>>
      /\ UNCHANGED <<detached, lingering, phase, events, batch, call>>
  BY DEF StopHere, attemptVars, lifetime
<1>2. \A f : /\ In(f, pending') <=> In(f, pending) \/ f = "stopInLoop"
             /\ Waits(f)' <=> Waits(f) \/ f = "stopInLoop"
             /\ Single(f) /\ (f # "stopInLoop" \/ ~Waits(f)) => Single(f)'
  BY <1>1, Enqueue DEF Types, Functors
<1>3. AttemptAgrees' /\ EventsAgree'
  BY <1>1 DEF CalmInv, AttemptAgrees, EventsAgree
<1>4. ResetAgrees' /\ StartAgrees' /\ StopAgrees'
  BY <1>1, <1>2
  DEF CalmInv, ResetAgrees, StartAgrees, StopAgrees, InsideConnect
<1>5. GoneAgrees'
  BY <1>1, <1>2 DEF CalmInv, GoneAgrees, Usable, Destroying
<1> QED
  BY <1>3, <1>4, <1>5 DEF CalmInv

(* The calls that queue nothing.                                           *)
LEMMA QuietCalm ==
    ASSUME Types, PhasesAgree, CalmInv, ~hasty',
           Disconnect \/ BeginConnect \/ BeginStop \/ SetWant \/ BeginDestroy \/ Linger
    PROVE  CalmInv'
<1>1. /\ UNCHANGED <<state, channel, registered, timers, failed, connection, detached>>
      /\ UNCHANGED <<phase, events, pending, batch>>
  BY DEF Disconnect, BeginConnect, BeginStop, SetWant, BeginDestroy, Linger,
     connectorVars, attemptVars, clientVars, lifetime, history, calls
<1>2. \A f : /\ In(f, pending') <=> In(f, pending)
             /\ In(f, batch') <=> In(f, batch)
             /\ Waits(f)' <=> Waits(f)
             /\ Single(f) => Single(f)'
  BY <1>1 DEF Waits, Single
<1>3. AttemptAgrees' /\ EventsAgree'
  BY <1>1 DEF CalmInv, AttemptAgrees, EventsAgree
<1>4. CASE Disconnect
  <2>1. /\ clientWant' = FALSE
        /\ UNCHANGED <<want, client, lingering, call, stopped>>
    BY <1>4 DEF Disconnect, connectorVars, lifetime, history, calls
  <2>2. ResetAgrees' /\ StartAgrees' /\ StopAgrees'
    BY <1>1, <1>2, <2>1
    DEF CalmInv, ResetAgrees, StartAgrees, StopAgrees, InsideConnect
  <2>3. GoneAgrees'
    BY <1>1, <1>2, <2>1 DEF CalmInv, GoneAgrees, Idle, Winding
  <2> QED
    BY <1>3, <2>2, <2>3 DEF CalmInv
<1>5. CASE BeginConnect
  <2>1. /\ clientWant' = TRUE /\ call' = "connect1" /\ stopped' = FALSE
        /\ UNCHANGED <<want, client, lingering>>
        /\ Usable /\ ~LeftOver
    BY <1>5 DEF BeginConnect, MayConnect, connectorVars, lifetime
  <2>2. /\ ~channel /\ timers = 0 /\ state = "disconnected"
        /\ \A f \in {"startInLoop", "stopInLoop", "resetChannel"} : ~Waits(f)
    BY <2>1, NothingLeftOver
  <2>3. ResetAgrees' /\ StartAgrees' /\ StopAgrees'
    BY <1>1, <1>2, <2>1, <2>2
    DEF CalmInv, ResetAgrees, StartAgrees, StopAgrees, InsideConnect
  <2>4. GoneAgrees'
    BY <1>1, <1>2, <2>1 DEF CalmInv, GoneAgrees, Usable
  <2> QED
    BY <1>3, <2>3, <2>4 DEF CalmInv
<1>6. CASE BeginStop
  <2>1. /\ clientWant' = FALSE /\ call = "none" /\ call' = "stop1" /\ Usable
        /\ UNCHANGED <<want, client, lingering, stopped>>
    BY <1>6 DEF BeginStop, connectorVars, lifetime
  <2>2. ResetAgrees' /\ StartAgrees' /\ StopAgrees'
    BY <1>1, <1>2, <2>1
    DEF CalmInv, ResetAgrees, StartAgrees, StopAgrees, InsideConnect
  <2>3. GoneAgrees'
    BY <1>1, <1>2, <2>1 DEF CalmInv, GoneAgrees, Usable
  <2> QED
    BY <1>3, <2>2, <2>3 DEF CalmInv
<1>7. CASE SetWant
  <2>1. /\ \/ call = "connect1" /\ want' = TRUE /\ call' = "connect2"
           \/ call = "stop1" /\ want' = FALSE /\ call' = "stop2"
           \/ call = "destroy1" /\ want' = FALSE /\ call' = "destroy2"
        /\ UNCHANGED <<clientWant, client, lingering, stopped>>
    BY <1>7 DEF SetWant, clientVars, lifetime, history, calls
  <2>2. ResetAgrees'
    BY <1>1, <1>2, <2>1 DEF CalmInv, ResetAgrees, StartAgrees, InsideConnect
  <2>3. StartAgrees'
    BY <1>1, <1>2, <2>1 DEF CalmInv, StartAgrees, InsideConnect
  <2>4. StopAgrees'
    BY <1>1, <1>2, <2>1
    DEF CalmInv, StopAgrees, StartAgrees, InsideConnect, Usable, Destroying
  <2>5. GoneAgrees'
    BY <1>1, <1>2, <2>1 DEF CalmInv, GoneAgrees
  <2> QED
    BY <1>3, <2>2, <2>3, <2>4, <2>5 DEF CalmInv
<1>8. CASE BeginDestroy
  <2>1. /\ call = "none" /\ Usable
        /\ call' = IF connection THEN "detach" ELSE "destroy1"
        /\ UNCHANGED <<want, clientWant, client, lingering, stopped>>
    BY <1>8 DEF BeginDestroy, connectorVars, clientVars, lifetime, history, calls
  <2>2. ResetAgrees' /\ StartAgrees'
    BY <1>1, <1>2, <2>1 DEF CalmInv, ResetAgrees, StartAgrees, InsideConnect
  <2>3. StopAgrees'
    BY <1>1, <1>2, <2>1 DEF CalmInv, StopAgrees, Usable, Destroying
  <2>4. GoneAgrees'
    BY <1>1, <1>2, <2>1 DEF CalmInv, GoneAgrees, Usable
  <2> QED
    BY <1>3, <2>2, <2>3, <2>4 DEF CalmInv
<1>9. CASE Linger
  <2>1. /\ call = "destroy3" /\ call' = "none" /\ client' = "gone" /\ lingering' = 3
        /\ UNCHANGED <<want, clientWant, stopped>>
    BY <1>9 DEF Linger, connectorVars, history, calls
  <2>2. stopped /\ ~want /\ ~connection
    BY <2>1 DEF CalmInv, StopAgrees, GoneAgrees
  <2>3. ResetAgrees' /\ StartAgrees'
    BY <1>1, <1>2, <2>1 DEF CalmInv, ResetAgrees, StartAgrees, InsideConnect
  <2>4. StopAgrees'
    BY <1>1, <1>2, <2>1 DEF CalmInv, StopAgrees, Usable
  <2>5. GoneAgrees'
    BY <1>1, <1>2, <2>1, <2>2 DEF CalmInv, GoneAgrees, Winding
  <2> QED
    BY <1>3, <2>3, <2>4, <2>5 DEF CalmInv
<1> QED
  BY <1>4, <1>5, <1>6, <1>7, <1>8, <1>9

LEMMA QueueStartCalm ==
    ASSUME Types, PhasesAgree, CalmInv, QueueStart
    PROVE  CalmInv'
<1>1. /\ call = "connect2" /\ call' = "none"
      /\ pending' = Append(pending, "startInLoop")
      /\ UNCHANGED <<state, channel, registered, timers, failed, connection, client>>
      /\ UNCHANGED <<want, clientWant, stopped, detached, lingering, phase, events, batch>>
  BY DEF QueueStart, connectorVars, attemptVars, clientVars, lifetime, history, calls
<1>2. \A f : /\ In(f, pending') <=> In(f, pending) \/ f = "startInLoop"
             /\ Waits(f)' <=> Waits(f) \/ f = "startInLoop"
             /\ Single(f) /\ (f # "startInLoop" \/ ~Waits(f)) => Single(f)'
  BY <1>1, Enqueue DEF Types, Functors
<1>3. AttemptAgrees' /\ EventsAgree'
  BY <1>1 DEF CalmInv, AttemptAgrees, EventsAgree
<1>4. ResetAgrees' /\ StartAgrees'
  BY <1>1, <1>2 DEF CalmInv, ResetAgrees, StartAgrees, InsideConnect
<1>5. StopAgrees'
  BY <1>1, <1>2 DEF CalmInv, StopAgrees, Usable, Destroying
<1>6. GoneAgrees'
  BY <1>1, <1>2 DEF CalmInv, GoneAgrees
<1> QED
  BY <1>3, <1>4, <1>5, <1>6 DEF CalmInv

LEMMA QueueStopCalm ==
    ASSUME Types, PhasesAgree, CalmInv, QueueStop
    PROVE  CalmInv'
<1>1. /\ \/ call = "stop2" /\ call' = "none"
         \/ call = "destroy2" /\ call' = "destroy3"
      /\ pending' = Append(pending, "stopInLoop") /\ stopped' = TRUE
      /\ UNCHANGED <<state, channel, registered, timers, failed, connection, client>>
      /\ UNCHANGED <<want, clientWant, detached, lingering, phase, events, batch>>
  BY DEF QueueStop, connectorVars, attemptVars, clientVars, lifetime
<1>2. \A f : /\ In(f, pending') <=> In(f, pending) \/ f = "stopInLoop"
             /\ Waits(f)' <=> Waits(f) \/ f = "stopInLoop"
             /\ Single(f) /\ (f # "stopInLoop" \/ ~Waits(f)) => Single(f)'
  BY <1>1, Enqueue DEF Types, Functors
<1>3. AttemptAgrees' /\ EventsAgree'
  BY <1>1 DEF CalmInv, AttemptAgrees, EventsAgree
<1>4. ResetAgrees' /\ StartAgrees'
  BY <1>1, <1>2 DEF CalmInv, ResetAgrees, StartAgrees, InsideConnect
<1>5. StopAgrees'
  BY <1>1, <1>2 DEF CalmInv, StopAgrees, Usable, Destroying
<1>6. GoneAgrees'
  BY <1>1, <1>2 DEF CalmInv, GoneAgrees
<1> QED
  BY <1>3, <1>4, <1>5, <1>6 DEF CalmInv

LEMMA ConnectorNotBusy ==
    ASSUME TypeOK, ~ConnectorBusy
    PROVE  Idle
BY QueuedWaits DEF ConnectorBusy, Idle

LEMMA DestroyHereCalm ==
    ASSUME Types, PhasesAgree, CalmInv, DestroyHere, ~hasty'
    PROVE  CalmInv'
<1>1. /\ Usable /\ call = "none" /\ client' = "gone" /\ failed = {}
      /\ UNCHANGED <<state, channel, registered, timers, clientWant, connection>>
      /\ UNCHANGED <<phase, events, batch, call>>
  BY DEF DestroyHere, Alive, attemptVars
<1>2. CASE connection
  <2>1. /\ detached' = TRUE /\ ~ConnectorBusy /\ failed' \subseteq {23, 55}
        /\ UNCHANGED <<want, pending, lingering, stopped>>
    BY <1>1, <1>2 DEF DestroyHere, Release
  <2>2. \A f : /\ Waits(f)' <=> Waits(f)
               /\ Single(f) => Single(f)'
    BY <1>1, <2>1 DEF Waits, Single
  <2>3. Idle /\ state = "connected"
    BY <1>2, <2>1, ConnectorNotBusy DEF Types, CalmInv, AttemptAgrees
  <2>4. AttemptAgrees' /\ EventsAgree'
    BY <1>1, <2>1 DEF CalmInv, AttemptAgrees, EventsAgree
  <2>5. ResetAgrees' /\ StartAgrees'
    BY <1>1, <2>1, <2>2
    DEF CalmInv, ResetAgrees, StartAgrees, InsideConnect
  <2>6. StopAgrees'
    BY <1>1, <2>1, <2>2 DEF CalmInv, StopAgrees, Usable
  <2>7. GoneAgrees'
    BY <1>1, <2>1, <2>2, <2>3 DEF GoneAgrees, Idle
  <2> QED
    BY <2>4, <2>5, <2>6, <2>7 DEF CalmInv
<1>3. CASE ~connection
  <2>1. /\ want' = FALSE /\ pending' = Append(pending, "stopInLoop")
        /\ lingering' = 3 /\ stopped' = TRUE
        /\ UNCHANGED <<detached, failed>>
    BY <1>3 DEF DestroyHere
  <2>2. \A f : /\ In(f, pending') <=> In(f, pending) \/ f = "stopInLoop"
               /\ Waits(f)' <=> Waits(f) \/ f = "stopInLoop"
               /\ Single(f) /\ (f # "stopInLoop" \/ ~Waits(f)) => Single(f)'
    BY <1>1, <2>1, Enqueue DEF Types, Functors
  <2>3. AttemptAgrees' /\ EventsAgree'
    BY <1>1, <2>1 DEF CalmInv, AttemptAgrees, EventsAgree
  <2>4. ResetAgrees' /\ StartAgrees'
    BY <1>1, <2>1, <2>2 DEF CalmInv, ResetAgrees, StartAgrees, InsideConnect
  <2>5. StopAgrees'
    BY <1>1, <2>1, <2>2 DEF StopAgrees, Usable
  <2>6. GoneAgrees'
    BY <1>1, <1>3, <2>1, <2>2 DEF GoneAgrees, Winding
  <2> QED
    BY <2>3, <2>4, <2>5, <2>6 DEF CalmInv
<1> QED
  BY <1>2, <1>3

LEMMA DetachCalm ==
    ASSUME Types, PhasesAgree, CalmInv, Detach, ~hasty'
    PROVE  CalmInv'
<1>1. /\ call = "detach" /\ call' = "none" /\ client' = "gone" /\ failed = {}
      /\ pending' = Append(pending, "setCloseCallback")
      /\ ~ConnectorBusy /\ failed' \subseteq {23, 55}
      /\ UNCHANGED <<want, state, channel, registered, timers, clientWant, connection>>
      /\ UNCHANGED <<detached, lingering, phase, events, batch, stopped>>
  BY DEF Detach, Alive, Release, connectorVars, attemptVars, calls
<1>2. \A f : /\ In(f, pending') <=> In(f, pending) \/ f = "setCloseCallback"
             /\ Waits(f)' <=> Waits(f) \/ f = "setCloseCallback"
             /\ Single(f) /\ (f # "setCloseCallback" \/ ~Waits(f)) => Single(f)'
  BY <1>1, Enqueue DEF Types, Functors
<1>3. Idle /\ connection /\ state = "connected"
  BY <1>1, ConnectorNotBusy DEF Types, CalmInv, AttemptAgrees, GoneAgrees
<1>4. AttemptAgrees' /\ EventsAgree'
  BY <1>1 DEF CalmInv, AttemptAgrees, EventsAgree
<1>5. ResetAgrees' /\ StartAgrees'
  BY <1>1, <1>2 DEF CalmInv, ResetAgrees, StartAgrees, InsideConnect
<1>6. StopAgrees'
  BY <1>1, <1>2 DEF CalmInv, StopAgrees, Usable
<1>7. GoneAgrees'
  BY <1>1, <1>2, <1>3 DEF GoneAgrees, Idle
<1> QED
  BY <1>4, <1>5, <1>6, <1>7 DEF CalmInv

LEMMA StutterCalm ==
    ASSUME CalmInv, UNCHANGED vars
    PROVE  CalmInv'
BY DEF CalmInv, AttemptAgrees, EventsAgree, ResetAgrees, StartAgrees, StopAgrees,
   GoneAgrees, Idle, Winding, Waits, Single, InsideConnect, Usable, vars, connectorVars,
   attemptVars, clientVars, lifetime, history, calls


-----------------------------------------------------------------------------
(* The theorems.                                                           *)

(* A race, or a call that came too soon, is not forgotten.                 *)
LEMMA CalmBefore ==
    ASSUME TypeOK, [Next]_vars, Calm'
    PROVE  Calm
<1>1. CASE handleWrite \/ removeConnection \/ restart
  <2>1. hasty' = hasty
    BY <1>1 DEF handleWrite, removeConnection, restart, NextEvent
  <2>2. ~raced' => ~raced
    BY <1>1 DEF handleWrite, removeConnection, restart
  <2> QED
    BY <2>1, <2>2 DEF Calm
<1>2. CASE StopHere
  <2>1. hasty' = hasty /\ (~raced' => ~raced)
    BY <1>2 DEF StopHere
  <2> QED
    BY <2>1 DEF Calm
<1>3. CASE ConnectHere \/ BeginConnect \/ Detach \/ DestroyHere
  <2>1. raced' = raced
    BY <1>3 DEF ConnectHere, BeginConnect, Detach, DestroyHere
  <2>2. ~hasty' => ~hasty
    BY <1>3 DEF ConnectHere, BeginConnect, Detach, DestroyHere
  <2> QED
    BY <2>1, <2>2 DEF Calm
<1>4. CASE \/ Poll \/ SwapFunctors \/ FinishBatch \/ RunTimer \/ handleError
           \/ RunStartInLoop \/ stopInLoop \/ resetChannel \/ RunConnectDestroyed
           \/ setCloseCallback
  <2>1. raced' = raced /\ hasty' = hasty
    BY <1>4
    DEF Poll, SwapFunctors, FinishBatch, RunTimer, handleError, RunStartInLoop,
        stopInLoop, resetChannel, RunConnectDestroyed, setCloseCallback, NextEvent,
        NextFunctor, history
  <2> QED
    BY <2>1 DEF Calm
<1>5. CASE \/ Disconnect \/ BeginStop \/ SetWant \/ QueueStart \/ QueueStop
           \/ BeginDestroy \/ Linger \/ UNCHANGED vars
  <2>1. raced' = raced /\ hasty' = hasty
    BY <1>5
    DEF Disconnect, BeginStop, SetWant, QueueStart, QueueStop, BeginDestroy, Linger,
        history, vars
  <2> QED
    BY <2>1 DEF Calm
<1> QED
  BY <1>1, <1>2, <1>3, <1>4, <1>5 DEF Next, LoopNext, UserNext

LEMMA StepCalm ==
    ASSUME Types, PhasesAgree, CalmInv, [Next]_vars, Calm'
    PROVE  CalmInv'
<1>1. ~raced' /\ ~hasty'
  BY DEF Calm
<1>2. CASE LoopNext
  BY <1>1, <1>2, PollCalm, SwapCalm, FinishBatchCalm, RunTimerCalm, HandleWriteCalm,
     HandleErrorCalm, RemoveConnectionCalm, RestartCalm, RunStartInLoopCalm,
     StopInLoopCalm, ResetChannelCalm, ConnectDestroyedCalm, SetCloseCallbackCalm
  DEF LoopNext
<1>3. CASE UserNext
  BY <1>1, <1>3, ConnectHereCalm, StopHereCalm, QuietCalm, QueueStartCalm,
     QueueStopCalm, DestroyHereCalm, DetachCalm
  DEF UserNext
<1>4. CASE UNCHANGED vars
  BY <1>4, StutterCalm
<1> QED
  BY <1>2, <1>3, <1>4 DEF Next

LEMMA InitCalm ==
    ASSUME Init
    PROVE  CalmInv
<1>1. \A f : ~In(f, pending) /\ ~In(f, batch) /\ Single(f)
  BY InEmpty DEF Init, Single
<1>2. AttemptAgrees /\ EventsAgree
  BY DistinctEvents DEF Init, AttemptAgrees, EventsAgree
<1>3. ResetAgrees /\ StartAgrees /\ StopAgrees /\ GoneAgrees
  BY <1>1
  DEF Init, ResetAgrees, StartAgrees, StopAgrees, GoneAgrees, Waits, InsideConnect
<1> QED
  BY <1>2, <1>3 DEF CalmInv

LEMMA ClientInvariant == Spec => []ClientInv
<1>1. Init => ClientInv
  BY InitTypes, InitPhases, InitCalm DEF ClientInv
<1>2. ClientInv /\ [Next]_vars => ClientInv'
  BY StepTypes, StepPhases, StepCalm, CalmBefore DEF ClientInv, Types
<1> QED
  BY <1>1, <1>2, PTL DEF Spec

(* Connector keeps its types and the bounds of the retry delay for any     *)
(* delays, and makes one attempt at a time: the channel of startInLoop,    *)
(* connecting and handleWrite is in the Poller exactly while state_ is     *)
(* kConnecting, and their assertions hold, unless calls overlap.           *)
THEOREM AttemptsAreSingle == Spec => []OneAttempt
<1>1. ClientInv => OneAttempt
  BY DEF ClientInv, Types, Calm, CalmInv, AttemptAgrees, OneAttempt
<1> QED
  BY <1>1, ClientInvariant, PTL

(* TcpClient::stop is final while no call has overlapped another (~raced   *)
(* and ~hasty, without which restart() may overwrite it): no attempt that  *)
(* it met becomes a connection, and when stopInLoop has run none is under  *)
(* way.                                                                    *)
THEOREM StopsAreFinal == Spec => StopIsFinal
<1> DEFINE Final ==
        stopped /\ ~raced /\ ~hasty /\ ~InsideConnect =>
            /\ connection' => connection
            /\ ~Queued("stopInLoop") => state # "connecting"
<1>1. ClientInv /\ [Next]_vars => [Final]_vars
  <2> SUFFICES ASSUME ClientInv, Next, stopped, Calm
               PROVE  /\ connection' => connection
                      /\ ~Queued("stopInLoop") => state # "connecting"
    BY DEF Calm
  <2>1. ~want /\ (state = "connecting" => Queued("stopInLoop"))
    BY QueuedWaits DEF ClientInv, CalmInv, StopAgrees, Types
  <2>2. connection' => connection
    <3>1. CASE handleWrite
      BY <2>1, <3>1 DEF handleWrite, dropAttempt, finishAttempt
    <3>2. CASE LoopNext /\ ~handleWrite
      BY <3>2
      DEF LoopNext, Poll, SwapFunctors, FinishBatch, RunTimer, handleError, dropAttempt,
          removeConnection, restart, RunStartInLoop, stopInLoop, resetChannel,
          RunConnectDestroyed, setCloseCallback, NextFunctor, clientVars
    <3>3. CASE UserNext
      BY <3>3
      DEF UserNext, ConnectHere, StopHere, Disconnect, BeginConnect, BeginStop, SetWant,
          QueueStart, QueueStop, DestroyHere, BeginDestroy, Detach, Linger, clientVars
    <3> QED
      BY <3>1, <3>2, <3>3 DEF Next
  <2> QED
    BY <2>1, <2>2
<1> QED
  BY <1>1, ClientInvariant, PTL DEF Spec, StopIsFinal

(* ~TcpClient, if no other call overlaps it (~raced), if no functor of the *)
(* connector is queued when a client with a connection is destroyed        *)
(* (~hasty), and if no assertion has failed: what is left of the client    *)
(* does not call it, and is over before the destructor's timer gives up    *)
(* the connector.                                                          *)
THEOREM DestroyedStaysUncalled == Spec => []DestroyedIsNotCalled
<1>1. ClientInv => DestroyedIsNotCalled
  <2> SUFFICES ASSUME ClientInv, client = "gone", ~raced, ~hasty
               PROVE  /\ connection => detached \/ Queued("setCloseCallback")
                      /\ want => state = "connected"
                      /\ ConnectorGone => ~registered /\ ~ConnectorBusy
    BY DEF DestroyedIsNotCalled
  <2>1. TypeOK /\ CalmInv
    BY DEF ClientInv, Types, Calm
  <2>2. \A f : Queued(f) <=> Waits(f)
    BY <2>1, QueuedWaits
  <2>3. ConnectorGone => Idle
    BY <2>1 DEF CalmInv, GoneAgrees, ConnectorGone, Winding
  <2>4. Idle => ~registered /\ ~ConnectorBusy
    BY <2>1, <2>2 DEF CalmInv, AttemptAgrees, Idle, ConnectorBusy
  <2> QED
    BY <2>1, <2>2, <2>3, <2>4 DEF CalmInv, GoneAgrees
<1> QED
  BY <1>1, ClientInvariant, PTL

-----------------------------------------------------------------------------
(* What makes the next attempt.  Calls may overlap here, but for those of  *)
(* connect() that come too soon.                                           *)

SourcesAgree ==
    /\ registered <=> state = "connecting"
    /\ connection => state = "connected"
    /\ timers \in {0, 1}
    /\ timers = 1 \/ Waits("startInLoop") \/ InsideConnect => state = "disconnected"

(* The timer, the functor and the call of connect(): one of them, or none  *)
(* if nothing is wanted or connect(2) has failed for good.                 *)
OneSource ==
    /\ Single("startInLoop")
    /\ timers = 1 => ~Waits("startInLoop")
    /\ timers = 1 \/ Waits("startInLoop") => ~InsideConnect
    /\ state = "disconnected" /\ want /\ ~gaveUp =>
          timers = 1 \/ Waits("startInLoop") \/ call = "connect2"

(* The close of a connection is reported last, and restart() comes next    *)
(* after it.                                                               *)
CloseLast ==
    \A i \in DOMAIN events :
        /\ events[i] = "restart" => i = 1 /\ state = "connected" /\ ~connection
        /\ events[i] = "close" => i = Len(events) /\ connection

Trying == SourcesAgree /\ OneSource /\ CloseLast

TryInv == client = "alive" /\ ~hasty /\ failed = {} => Trying

(* How an attempt begins, if no assertion fails.                           *)
LEMMA StartTries ==
    ASSUME TypeOK, failed = {}, failed' = {}, NEW s, NEW w \in BOOLEAN, NEW d,
           startInLoop(s, w, d, 0)
    PROVE  /\ s = "disconnected"
           /\ \/ /\ w /\ state' = "connecting" /\ registered' = TRUE
                 /\ timers' = 0
              \/ /\ w /\ state' = "disconnected" /\ registered' = registered
                 /\ timers' = 1 \/ (timers' = 0 /\ gaveUp')
              \/ /\ ~w /\ state' = "disconnected" /\ registered' = registered
                 /\ timers' = 0
<1>1. CASE s = "disconnected" /\ w /\ connecting(d, 0)
  BY <1>1 DEF connecting
<1>2. CASE /\ s = "disconnected" /\ w /\ retry(w, d, 0)
           /\ UNCHANGED <<channel, registered, failed>>
  BY <1>2 DEF retry
<1>3. CASE /\ s = "disconnected" /\ w /\ gaveUp' = TRUE /\ state' = "disconnected"
           /\ timers' = 0 /\ UNCHANGED <<channel, registered, failed>>
  BY <1>3
<1>4. CASE /\ s # "disconnected" \/ ~w
           /\ failed' = IF s = "disconnected" THEN failed ELSE failed \union {42}
           /\ state' = s /\ timers' = 0
           /\ UNCHANGED <<channel, registered, gaveUp>>
  BY <1>4
<1> QED
  BY <1>1, <1>2, <1>3, <1>4 DEF startInLoop, connect

(* An attempt that is dropped is made again, if it is still wanted.        *)
LEMMA DropTries ==
    ASSUME TypeOK, SourcesAgree, dropAttempt
    PROVE  /\ state = "connecting" /\ timers = 0 /\ ~connection
           /\ ~Waits("startInLoop") /\ ~InsideConnect
           /\ state' = "disconnected" /\ registered' = FALSE
           /\ timers' = (IF want THEN 1 ELSE 0)
           /\ pending' = Append(pending, "resetChannel")
           /\ connection' = connection /\ failed' = failed
BY DEF SourcesAgree, dropAttempt, removeAndResetChannel, retry, TypeOK

(* The event that runs leaves no restart() and the close of a connection   *)
(* that is up.                                                             *)
LEMMA TailCloseLast ==
    ASSUME TypeOK, CloseLast, events # <<>>, events' = Tail(events)
    PROVE  \A i \in DOMAIN events' :
              /\ events'[i] # "restart"
              /\ events'[i] = "close" => i = Len(events') /\ connection
<1>1. events \in Seq(EventNames)
  BY DEF TypeOK
<1>2. /\ Len(events) \in Nat
      /\ DOMAIN events = 1..Len(events)
      /\ DOMAIN Tail(events) = 1..(Len(events) - 1)
      /\ Len(Tail(events)) = Len(events) - 1
      /\ \A i \in 1..(Len(events) - 1) : Tail(events)[i] = events[i + 1]
  BY <1>1
<1>3. ASSUME NEW n \in Nat, NEW i \in 1..(n - 1)
      PROVE  /\ i + 1 \in 1..n /\ i + 1 # 1
             /\ i + 1 = n => i = n - 1
  OBVIOUS
<1>4. ASSUME NEW i \in 1..(Len(events) - 1)
      PROVE  /\ events[i + 1] # "restart"
             /\ events[i + 1] = "close" => i = Len(events) - 1 /\ connection
  <2>1. /\ i + 1 \in DOMAIN events /\ i + 1 # 1
        /\ i + 1 = Len(events) => i = Len(events) - 1
    BY <1>2, <1>3
  <2>2. /\ events[i + 1] = "restart" => i + 1 = 1
        /\ events[i + 1] = "close" => i + 1 = Len(events) /\ connection
    BY <2>1 DEF CloseLast
  <2> QED
    BY <2>1, <2>2
<1> QED
  BY <1>2, <1>4

LEMMA HeadEvent ==
    ASSUME TypeOK, CloseLast, events # <<>>
    PROVE  /\ Head(events) = "restart" => state = "connected" /\ ~connection
           /\ Head(events) = "close" => connection /\ Tail(events) = <<>>
<1>1. events \in Seq(EventNames)
  BY DEF TypeOK
<1>2. /\ Len(events) \in Nat \ {0} /\ DOMAIN events = 1..Len(events)
      /\ Head(events) = events[1] /\ 1 \in DOMAIN events
      /\ Len(events) = 1 => Tail(events) = <<>>
  BY <1>1
<1> QED
  BY <1>2 DEF CloseLast

(* Nothing has left the loop without an attempt to make.                   *)
LEMMA NoEvents ==
    ASSUME events = <<>> \/ (state # "connected" /\ SourcesAgree /\ CloseLast)
    PROVE  \A i \in DOMAIN events : events[i] # "restart" /\ events[i] # "close"
BY DEF SourcesAgree, CloseLast

(* The steps that leave the sources of an attempt alone.                   *)
LEMMA SourcesKept ==
    ASSUME SourcesAgree, OneSource, Single("startInLoop")',
           Waits("startInLoop")' <=> Waits("startInLoop"),
           UNCHANGED <<registered, state, timers, call, gaveUp>>,
           connection' => connection, want' => want
    PROVE  SourcesAgree' /\ OneSource'
BY DEF SourcesAgree, OneSource, InsideConnect

LEMMA CloseLastKept ==
    ASSUME CloseLast, UNCHANGED <<events, state, connection>>
    PROVE  CloseLast'
BY DEF CloseLast

LEMMA WaitsKept ==
    ASSUME UNCHANGED <<pending, batch>>
    PROVE  \A f : (Waits(f)' <=> Waits(f)) /\ (Single(f)' <=> Single(f))
BY DEF Waits, Single

LEMMA RunTimerTries ==
    ASSUME Types, Trying, RunTimer, failed' = {}
    PROVE  Trying'
<1>1. /\ startInLoop(state, want, delay, timers - 1) /\ events # <<>>
      /\ events' = Tail(events) /\ Head(events) = "timer" /\ failed = {}
      /\ UNCHANGED <<want, connection, pending, batch, call>>
  BY RunningEvent DEF RunTimer, NextEvent, Types, EventNames
<1>2. timers > 0
  <2>1. 1 \in DOMAIN events /\ events[1] = "timer"
    BY <1>1 DEF Types, TypeOK
  <2> QED
    BY <2>1 DEF Types, TimerFirst
<1>3. timers = 1 /\ state = "disconnected" /\ ~Waits("startInLoop") /\ ~InsideConnect
  BY <1>2 DEF Trying, SourcesAgree, OneSource
<1>4. startInLoop(state, want, delay, 0)
  BY <1>1, <1>3
<1>5. /\ want /\ state' = "connecting" /\ registered' = TRUE /\ timers' = 0
      \/ /\ want /\ state' = "disconnected" /\ registered' = registered
         /\ timers' = 1 \/ (timers' = 0 /\ gaveUp')
      \/ /\ ~want /\ state' = "disconnected" /\ registered' = registered
         /\ timers' = 0
  BY <1>1, <1>4, StartTries DEF Types, TypeOK
<1>6. ~connection /\ ~registered
  BY <1>3 DEF Trying, SourcesAgree
<1>7. CloseLast'
  BY <1>1, <1>6, TailCloseLast DEF Trying, CloseLast, Types
<1>8. SourcesAgree' /\ OneSource'
  BY <1>1, <1>3, <1>5, <1>6, WaitsKept
  DEF Trying, SourcesAgree, OneSource, InsideConnect
<1> QED
  BY <1>7, <1>8 DEF Trying

(* resetChannel waits in the queue: startInLoop has not moved.             *)
LEMMA ResetQueued ==
    ASSUME TypeOK, pending' = Append(pending, "resetChannel"), batch' = batch
    PROVE  /\ Waits("startInLoop")' <=> Waits("startInLoop")
           /\ Single("startInLoop") => Single("startInLoop")'
BY Enqueue DEF Functors

LEMMA HandleErrorTries ==
    ASSUME Types, Trying, handleError
    PROVE  Trying'
<1>1. /\ events # <<>> /\ events' = Tail(events)
      /\ UNCHANGED <<want, batch, call, gaveUp>>
  BY RunningEvent DEF handleError, NextEvent, Types, EventNames
<1>2. CASE dropAttempt
  <2>1. /\ state = "connecting" /\ timers = 0 /\ ~connection
        /\ ~Waits("startInLoop") /\ ~InsideConnect
        /\ state' = "disconnected" /\ registered' = FALSE
        /\ timers' = (IF want THEN 1 ELSE 0)
        /\ pending' = Append(pending, "resetChannel") /\ connection' = connection
    BY <1>2, DropTries DEF Types, Trying
  <2>2. CloseLast'
    BY <1>1, <2>1, TailCloseLast DEF Trying, CloseLast, Types
  <2>3. SourcesAgree' /\ OneSource'
    BY <1>1, <2>1, ResetQueued
    DEF Types, Trying, SourcesAgree, OneSource, InsideConnect
  <2> QED
    BY <2>2, <2>3 DEF Trying
<1>3. CASE UNCHANGED <<attemptVars, pending, connection, failed>>
  <2>1. UNCHANGED <<registered, state, timers, pending, connection>>
    BY <1>3 DEF attemptVars
  <2>2. CloseLast'
    BY <1>1, <2>1, TailCloseLast DEF Trying, CloseLast, Types
  <2>3. SourcesAgree' /\ OneSource'
    BY <1>1, <2>1, WaitsKept, SourcesKept DEF Trying, OneSource
  <2> QED
    BY <2>2, <2>3 DEF Trying
<1> QED
  BY <1>2, <1>3 DEF handleError

LEMMA HandleWriteTries ==
    ASSUME Types, Trying, handleWrite, failed' = {}
    PROVE  Trying'
<1>1. /\ events # <<>> /\ events' = Tail(events)
      /\ UNCHANGED <<want, batch, call, gaveUp>>
  BY RunningEvent DEF handleWrite, NextEvent, Types, EventNames
<1>2. CASE dropAttempt
  <2>1. /\ state = "connecting" /\ timers = 0 /\ ~connection
        /\ ~Waits("startInLoop") /\ ~InsideConnect
        /\ state' = "disconnected" /\ registered' = FALSE
        /\ timers' = (IF want THEN 1 ELSE 0)
        /\ pending' = Append(pending, "resetChannel") /\ connection' = connection
    BY <1>2, DropTries DEF Types, Trying
  <2>2. CloseLast'
    BY <1>1, <2>1, TailCloseLast DEF Trying, CloseLast, Types
  <2>3. SourcesAgree' /\ OneSource'
    BY <1>1, <2>1, ResetQueued
    DEF Types, Trying, SourcesAgree, OneSource, InsideConnect
  <2> QED
    BY <2>2, <2>3 DEF Trying
<1>3. CASE finishAttempt
  <2>1. /\ state = "connecting" /\ state' = "connected" /\ registered' = FALSE
        /\ UNCHANGED timers /\ pending' = Append(pending, "resetChannel")
    BY <1>3 DEF finishAttempt, removeAndResetChannel
  <2>2. timers = 0 /\ ~Waits("startInLoop") /\ ~InsideConnect /\ ~connection
    BY <2>1 DEF Trying, SourcesAgree
  <2>3. CloseLast'
    BY <1>1, <2>2, TailCloseLast DEF Trying, CloseLast, Types
  <2>4. SourcesAgree' /\ OneSource'
    BY <1>1, <2>1, <2>2, ResetQueued
    DEF Types, Trying, SourcesAgree, OneSource, InsideConnect
  <2> QED
    BY <2>3, <2>4 DEF Trying
<1>4. CASE UNCHANGED <<attemptVars, pending, connection>>
  <2>1. UNCHANGED <<registered, state, timers, pending, connection>>
    BY <1>4 DEF attemptVars
  <2>2. CloseLast'
    BY <1>1, <2>1, TailCloseLast DEF Trying, CloseLast, Types
  <2>3. SourcesAgree' /\ OneSource'
    BY <1>1, <2>1, WaitsKept, SourcesKept DEF Trying, OneSource
  <2> QED
    BY <2>2, <2>3 DEF Trying
<1> QED
  BY <1>2, <1>3, <1>4 DEF handleWrite

LEMMA RemoveConnectionTries ==
    ASSUME Types, Trying, removeConnection
    PROVE  Trying'
<1>1. /\ events # <<>> /\ Head(events) = "close"
      /\ connection' = FALSE /\ pending' = Append(pending, "connectDestroyed")
      /\ events' = <<"restart">> \o Tail(events) \/ events' = Tail(events)
      /\ UNCHANGED <<registered, state, timers, want, batch, call, gaveUp>>
  BY RunningEvent
  DEF removeConnection, Types, EventNames, connectorVars, attemptVars
<1>2. connection /\ Tail(events) = <<>>
  BY <1>1, HeadEvent DEF Types, Trying
<1>3. events' = <<"restart">> \/ events' = <<>>
  BY <1>1, <1>2
<1>4. state = "connected"
  BY <1>2 DEF Trying, SourcesAgree
<1>5. CloseLast'
  BY <1>1, <1>3, <1>4 DEF CloseLast
<1>6. /\ Waits("startInLoop")' <=> Waits("startInLoop")
      /\ Single("startInLoop")'
  BY <1>1, Enqueue DEF Functors, Types, Trying, OneSource
<1>7. SourcesAgree' /\ OneSource'
  BY <1>1, <1>6, SourcesKept DEF Trying
<1> QED
  BY <1>5, <1>7 DEF Trying

LEMMA RestartTries ==
    ASSUME Types, Trying, restart, failed' = {}
    PROVE  Trying'
<1>1. /\ startInLoop("disconnected", TRUE, kInitRetryDelayMs, timers) /\ events # <<>>
      /\ events' = Tail(events) /\ Head(events) = "restart" /\ failed = {}
      /\ want' = TRUE /\ UNCHANGED <<connection, pending, batch, call>>
  BY RunningEvent DEF restart, NextEvent, Types, EventNames
<1>2. state = "connected" /\ ~connection
  BY <1>1, HeadEvent DEF Types, Trying
<1>3. timers = 0 /\ ~registered /\ ~Waits("startInLoop") /\ ~InsideConnect
  BY <1>2 DEF Trying, SourcesAgree
<1>4. startInLoop("disconnected", TRUE, kInitRetryDelayMs, 0)
  BY <1>1, <1>3
<1>5. \/ /\ state' = "connecting" /\ registered' = TRUE /\ timers' = 0
      \/ /\ state' = "disconnected" /\ registered' = registered
         /\ timers' = 1 \/ (timers' = 0 /\ gaveUp')
  BY <1>1, <1>4, StartTries DEF Types
<1>6. CloseLast'
  BY <1>1, <1>2, TailCloseLast DEF Trying, CloseLast, Types
<1>7. SourcesAgree' /\ OneSource'
  BY <1>1, <1>2, <1>3, <1>5, WaitsKept
  DEF Trying, SourcesAgree, OneSource, InsideConnect
<1> QED
  BY <1>6, <1>7 DEF Trying

LEMMA RunStartInLoopTries ==
    ASSUME Types, PhasesAgree, Trying, RunStartInLoop, failed' = {}
    PROVE  Trying'
<1>1. /\ startInLoop(state, want, delay, timers) /\ batch # <<>>
      /\ batch' = Tail(batch) /\ Head(batch) = "startInLoop" /\ failed = {}
      /\ phase = "functors" /\ UNCHANGED <<want, connection, pending, call, events>>
  BY RunningFunctor DEF RunStartInLoop, NextFunctor, Types, Functors
<1>2. /\ ~Waits("startInLoop")' /\ Single("startInLoop")'
      /\ Waits("startInLoop")
  BY <1>1, Dequeue DEF Types, Trying, OneSource, Waits
<1>3. timers = 0 /\ state = "disconnected" /\ ~InsideConnect
  BY <1>2 DEF Trying, SourcesAgree, OneSource
<1>4. startInLoop(state, want, delay, 0)
  BY <1>1, <1>3
<1>5. \/ /\ want /\ state' = "connecting" /\ registered' = TRUE /\ timers' = 0
      \/ /\ want /\ state' = "disconnected" /\ registered' = registered
         /\ timers' = 1 \/ (timers' = 0 /\ gaveUp')
      \/ /\ ~want /\ state' = "disconnected" /\ registered' = registered
         /\ timers' = 0
  BY <1>1, <1>4, StartTries DEF Types, TypeOK
<1>6. ~connection /\ ~registered
  BY <1>3 DEF Trying, SourcesAgree
<1>7. CloseLast'
  BY <1>1 DEF PhasesAgree, CloseLast
<1>8. SourcesAgree' /\ OneSource'
  BY <1>1, <1>2, <1>3, <1>5, <1>6 DEF SourcesAgree, OneSource, InsideConnect
<1> QED
  BY <1>7, <1>8 DEF Trying

LEMMA StopInLoopTries ==
    ASSUME Types, PhasesAgree, Trying, stopInLoop
    PROVE  Trying'
<1>1. /\ batch # <<>> /\ batch' = Tail(batch) /\ Head(batch) = "stopInLoop"
      /\ phase = "functors" /\ events = <<>>
      /\ UNCHANGED <<want, connection, call, events, gaveUp>>
  BY RunningFunctor DEF stopInLoop, NextFunctor, Types, Functors, PhasesAgree
<1>2. CloseLast'
  BY <1>1 DEF CloseLast
<1>3. CASE dropAttempt
  <2>1. /\ state = "connecting" /\ timers = 0 /\ ~connection
        /\ ~Waits("startInLoop") /\ ~InsideConnect
        /\ state' = "disconnected" /\ registered' = FALSE
        /\ timers' = (IF want THEN 1 ELSE 0)
        /\ pending' = Append(pending, "resetChannel") /\ connection' = connection
    BY <1>3, DropTries DEF Types, Trying
  <2>2. ~Waits("startInLoop")' /\ Single("startInLoop")'
    BY <1>1, <2>1, DequeueEnqueue DEF Functors, Types, Trying, OneSource
  <2>3. SourcesAgree' /\ OneSource'
    BY <1>1, <2>1, <2>2 DEF SourcesAgree, OneSource, InsideConnect
  <2> QED
    BY <1>2, <2>3 DEF Trying
<1>4. CASE UNCHANGED <<attemptVars, pending, failed>>
  <2>1. UNCHANGED <<registered, state, timers, pending>>
    BY <1>4 DEF attemptVars
  <2>2. /\ Waits("startInLoop")' <=> Waits("startInLoop")
        /\ Single("startInLoop")'
    BY <1>1, <2>1, Dequeue DEF Types, Trying, OneSource
  <2>3. SourcesAgree' /\ OneSource'
    BY <1>1, <2>1, <2>2, SourcesKept DEF Trying
  <2> QED
    BY <1>2, <2>3 DEF Trying
<1> QED
  BY <1>3, <1>4 DEF stopInLoop

(* The functors that are no concern of the attempt.                        *)
LEMMA OtherFunctorTries ==
    ASSUME Types, Trying, resetChannel \/ RunConnectDestroyed \/ setCloseCallback
    PROVE  Trying'
<1>1. /\ batch # <<>> /\ batch' = Tail(batch) /\ Head(batch) # "startInLoop"
      /\ UNCHANGED <<connection, call, events>>
  BY RunningFunctor
  DEF resetChannel, RunConnectDestroyed, setCloseCallback, NextFunctor, Types, Functors
<1>2. UNCHANGED <<want, gaveUp, registered, state, timers, pending>>
  BY DEF resetChannel, RunConnectDestroyed, setCloseCallback, connectorVars, attemptVars
<1>3. /\ Waits("startInLoop")' <=> Waits("startInLoop")
      /\ Single("startInLoop")'
  BY <1>1, <1>2, Dequeue DEF Types, Trying, OneSource
<1>4. SourcesAgree' /\ OneSource'
  BY <1>1, <1>2, <1>3, SourcesKept DEF Trying
<1> QED
  BY <1>1, <1>2, <1>4, CloseLastKept DEF Trying

(* A poll reports nothing after the close of a connection.                 *)
LEMMA ReportCloseLast ==
    ASSUME NEW expired \in {<<>>, <<"timer">>}, NEW outcome \in Outcomes,
           NEW closed \in {<<>>, <<"close">>}
    PROVE  LET reported == expired \o outcome \o closed IN
           \A i \in DOMAIN reported :
              /\ reported[i] # "restart"
              /\ reported[i] = "close" => i = Len(reported) /\ closed = <<"close">>
<1>1. /\ expired \in Seq(EventNames) /\ Len(expired) \in Nat
      /\ \A i \in 1..Len(expired) : expired[i] = "timer"
  <2>1. CASE expired = <<>>
    BY <2>1
  <2>2. CASE expired = <<"timer">>
    BY <2>2 DEF EventNames
  <2> QED
    BY <2>1, <2>2
<1>2. /\ outcome \in Seq(EventNames) /\ Len(outcome) \in Nat
      /\ \A i \in 1..Len(outcome) : outcome[i] \in {"write", "error"}
  <2>1. CASE outcome = <<>>
    BY <2>1
  <2>2. CASE outcome = <<"write">>
    BY <2>2 DEF EventNames
  <2>3. CASE outcome = <<"error", "write">>
    BY <2>3 DEF EventNames
  <2> QED
    BY <2>1, <2>2, <2>3 DEF Outcomes
<1>3. /\ closed \in Seq(EventNames) /\ Len(closed) \in {0, 1}
      /\ Len(closed) = 0 \/ closed = <<"close">>
      /\ \A i \in 1..Len(closed) : closed[i] = "close"
  <2>1. CASE closed = <<>>
    BY <2>1
  <2>2. CASE closed = <<"close">>
    BY <2>2 DEF EventNames
  <2> QED
    BY <2>1, <2>2
<1> DEFINE first == expired \o outcome
<1>4. /\ first \in Seq(EventNames) /\ Len(first) \in Nat
      /\ \A i \in 1..Len(first) : first[i] \in {"timer", "write", "error"}
  BY <1>1, <1>2
<1> HIDE DEF first
<1>5. /\ Len(first \o closed) = Len(first) + Len(closed)
      /\ DOMAIN (first \o closed) = 1..Len(first \o closed)
      /\ \A i \in 1..Len(first \o closed) :
            (first \o closed)[i] = IF i <= Len(first) THEN first[i]
                                                      ELSE closed[i - Len(first)]
  BY <1>3, <1>4
<1>6. ASSUME NEW i \in 1..Len(first \o closed)
      PROVE  /\ (first \o closed)[i] # "restart"
             /\ (first \o closed)[i] = "close"
                   => i = Len(first \o closed) /\ closed = <<"close">>
  <2>1. CASE i <= Len(first)
    BY <1>4, <1>5, <2>1
  <2>2. CASE i > Len(first)
    <3>1. i - Len(first) \in 1..Len(closed)
      BY <1>3, <1>4, <1>5, <2>2
    <3>2. Len(closed) = 1 /\ i = Len(first) + 1
      BY <1>3, <1>4, <3>1
    <3> QED
      BY <1>3, <1>4, <1>5, <2>2, <3>1, <3>2
  <2> QED
    BY <1>4, <2>1, <2>2
<1> QED
  BY <1>5, <1>6 DEF first

LEMMA PollTries ==
    ASSUME Types, Trying, Poll
    PROVE  Trying'
<1> PICK expired \in {<<>>, <<"timer">>}, outcome \in Outcomes,
         closed \in {<<>>, <<"close">>} :
            /\ events' = expired \o outcome \o closed
            /\ closed # <<>> => connection
  BY PollReports
<1>1. /\ UNCHANGED <<want, gaveUp, registered, state, timers, connection>>
      /\ UNCHANGED <<pending, batch, call>>
  BY DEF Poll, connectorVars, attemptVars, history
<1>2. CloseLast'
  BY <1>1, ReportCloseLast DEF CloseLast
<1>3. SourcesAgree' /\ OneSource'
  BY <1>1, WaitsKept, SourcesKept DEF Trying, OneSource
<1> QED
  BY <1>2, <1>3 DEF Trying

(* The swap moves what waits.                                              *)
LEMMA SwapTries ==
    ASSUME PhasesAgree, Trying, SwapFunctors
    PROVE  Trying'
<1>1. /\ UNCHANGED <<want, gaveUp, registered, state, timers, connection>>
      /\ UNCHANGED <<events, call>>
      /\ batch = <<>> /\ batch' = pending /\ pending' = <<>>
  BY DEF SwapFunctors, PhasesAgree, connectorVars, attemptVars, clientVars, history
<1>2. /\ Waits("startInLoop")' <=> Waits("startInLoop")
      /\ Single("startInLoop") => Single("startInLoop")'
  BY <1>1, InEmpty DEF Waits, Single
<1>3. SourcesAgree' /\ OneSource'
  BY <1>1, <1>2, SourcesKept DEF Trying, OneSource
<1> QED
  BY <1>1, <1>3, CloseLastKept DEF Trying

(* A connect() that does not come too soon finds a Connector at rest.      *)
LEMMA AtRest ==
    ASSUME Types, Trying, ~LeftOver
    PROVE  /\ call = "none" /\ timers = 0 /\ state = "disconnected"
           /\ ~Waits("startInLoop") /\ ~registered /\ ~connection
           /\ want => gaveUp
<1>1. /\ call = "none" /\ ~(timers > 0) /\ state = "disconnected"
      /\ ~Waits("startInLoop")
  BY QueuedWaits DEF LeftOver, Types
<1>2. gaveUp \in BOOLEAN /\ want \in BOOLEAN
  BY DEF Types, TypeOK
<1> QED
  BY <1>1, <1>2 DEF Trying, SourcesAgree, OneSource

LEMMA ConnectHereTries ==
    ASSUME Types, Trying, ConnectHere, ~hasty', failed' = {}
    PROVE  Trying'
<1>1. /\ ~LeftOver /\ failed = {} /\ want' = TRUE
      /\ startInLoop(state, TRUE, delay, timers)
      /\ UNCHANGED <<connection, events, pending, batch, call>>
  BY DEF ConnectHere, MayConnect, Alive
<1>2. /\ call = "none" /\ timers = 0 /\ state = "disconnected"
      /\ ~Waits("startInLoop") /\ ~registered /\ ~connection
  BY <1>1, AtRest
<1>3. startInLoop(state, TRUE, delay, 0)
  BY <1>1, <1>2
<1>4. \/ /\ state' = "connecting" /\ registered' = TRUE /\ timers' = 0
      \/ /\ state' = "disconnected" /\ registered' = registered
         /\ timers' = 1 \/ (timers' = 0 /\ gaveUp')
  BY <1>1, <1>3, StartTries DEF Types
<1>5. CloseLast'
  BY <1>1, <1>2, NoEvents DEF Trying, CloseLast
<1>6. SourcesAgree' /\ OneSource'
  BY <1>1, <1>2, <1>4, WaitsKept
  DEF Trying, SourcesAgree, OneSource, InsideConnect
<1> QED
  BY <1>5, <1>6 DEF Trying

LEMMA BeginConnectTries ==
    ASSUME Types, Trying, BeginConnect, ~hasty'
    PROVE  Trying'
<1>1. /\ ~LeftOver /\ call' = "connect1"
      /\ UNCHANGED <<want, gaveUp, registered, state, timers, connection>>
      /\ UNCHANGED <<events, pending, batch>>
  BY DEF BeginConnect, connectorVars, attemptVars
<1>2. /\ call = "none" /\ timers = 0 /\ state = "disconnected"
      /\ ~Waits("startInLoop") /\ ~registered /\ ~connection
      /\ want => gaveUp
  BY <1>1, AtRest
<1>3. SourcesAgree' /\ OneSource'
  BY <1>1, <1>2, WaitsKept DEF Trying, SourcesAgree, OneSource, InsideConnect
<1> QED
  BY <1>1, <1>3, CloseLastKept DEF Trying

LEMMA SetWantTries ==
    ASSUME Types, Trying, SetWant
    PROVE  Trying'
<1>1. /\ \/ call = "connect1" /\ want' = TRUE /\ call' = "connect2"
         \/ call = "stop1" /\ want' = FALSE /\ call' = "stop2"
         \/ call = "destroy1" /\ want' = FALSE /\ call' = "destroy2"
      /\ UNCHANGED <<gaveUp, registered, state, timers, connection>>
      /\ UNCHANGED <<events, pending, batch>>
  BY DEF SetWant, attemptVars, clientVars, history
<1>2. SourcesAgree' /\ OneSource'
  BY <1>1, WaitsKept DEF Trying, SourcesAgree, OneSource, InsideConnect
<1> QED
  BY <1>1, <1>2, CloseLastKept DEF Trying

LEMMA QueueStartTries ==
    ASSUME Types, Trying, QueueStart
    PROVE  Trying'
<1>1. /\ call = "connect2" /\ call' = "none"
      /\ pending' = Append(pending, "startInLoop")
      /\ UNCHANGED <<want, gaveUp, registered, state, timers, connection>>
      /\ UNCHANGED <<events, batch>>
  BY DEF QueueStart, connectorVars, attemptVars, clientVars, history
<1>2. timers = 0 /\ ~Waits("startInLoop") /\ state = "disconnected"
  BY <1>1 DEF Trying, SourcesAgree, OneSource, InsideConnect
<1>3. Waits("startInLoop")' /\ Single("startInLoop")'
  BY <1>1, <1>2, Enqueue DEF Functors, Types, Trying, OneSource
<1>4. SourcesAgree' /\ OneSource'
  BY <1>1, <1>2, <1>3 DEF Trying, SourcesAgree, OneSource, InsideConnect
<1> QED
  BY <1>1, <1>4, CloseLastKept DEF Trying

(* The calls that only stop: stopInLoop waits.                             *)
LEMMA StopTries ==
    ASSUME Types, Trying, StopHere \/ QueueStop
    PROVE  Trying'
<1>1. /\ pending' = Append(pending, "stopInLoop")
      /\ UNCHANGED <<gaveUp, registered, state, timers, connection, events, batch>>
  BY DEF StopHere, QueueStop, connectorVars, attemptVars, clientVars
<1>2. /\ Waits("startInLoop")' <=> Waits("startInLoop")
      /\ Single("startInLoop")'
  BY <1>1, Enqueue DEF Functors, Types, Trying, OneSource
<1>3. /\ want' => want
      /\ InsideConnect' <=> InsideConnect
      /\ call' = "connect2" <=> call = "connect2"
  BY DEF StopHere, QueueStop, connectorVars, InsideConnect
<1>4. SourcesAgree' /\ OneSource'
  BY <1>1, <1>2, <1>3 DEF Trying, SourcesAgree, OneSource
<1> QED
  BY <1>1, <1>4, CloseLastKept DEF Trying

(* The steps that leave the Connector alone.                               *)
LEMMA QuietTries ==
    ASSUME Trying, \/ FinishBatch \/ Disconnect \/ BeginStop \/ BeginDestroy
                   \/ UNCHANGED vars
    PROVE  Trying'
<1>1. /\ UNCHANGED <<want, gaveUp, registered, state, timers, connection>>
      /\ UNCHANGED <<events, pending, batch>>
  BY DEF FinishBatch, Disconnect, BeginStop, BeginDestroy, vars, connectorVars,
     attemptVars, clientVars, history
<1>2. /\ InsideConnect' <=> InsideConnect
      /\ call' = "connect2" <=> call = "connect2"
  BY DEF FinishBatch, Disconnect, BeginStop, BeginDestroy, vars, InsideConnect
<1>3. SourcesAgree' /\ OneSource'
  BY <1>1, <1>2, WaitsKept DEF Trying, SourcesAgree, OneSource
<1> QED
  BY <1>1, <1>3, CloseLastKept DEF Trying

(* Neither a connect() that came too soon nor a failed assertion is        *)
(* forgotten, and the client is destroyed once.                            *)
LEMMA TryBefore ==
    ASSUME Types, [Next]_vars, client' = "alive", ~hasty', failed' = {}
    PROVE  client = "alive" /\ ~hasty /\ failed = {}
<1>1. client = "alive"
  <2>1. LoopNext => client' = client
    BY DEF LoopNext, Poll, SwapFunctors, FinishBatch, RunTimer, handleWrite,
       handleError, removeConnection, restart, RunStartInLoop, stopInLoop,
       resetChannel, RunConnectDestroyed, setCloseCallback, NextEvent, NextFunctor,
       clientVars, lifetime
  <2>2. UserNext => client' = client \/ client' = "gone"
    BY DEF UserNext, ConnectHere, StopHere, Disconnect, BeginConnect, BeginStop,
       SetWant, QueueStart, QueueStop, DestroyHere, BeginDestroy, Detach, Linger,
       clientVars, lifetime
  <2> QED
    BY <2>1, <2>2 DEF Next, vars, clientVars, lifetime
<1>2. ~hasty
  <2>1. LoopNext => hasty' = hasty
    BY DEF LoopNext, Poll, SwapFunctors, FinishBatch, RunTimer, handleWrite,
       handleError, removeConnection, restart, RunStartInLoop, stopInLoop,
       resetChannel, RunConnectDestroyed, setCloseCallback, NextEvent, NextFunctor,
       history
  <2>2. UserNext => (~hasty' => ~hasty)
    BY DEF UserNext, ConnectHere, StopHere, Disconnect, BeginConnect, BeginStop,
       SetWant, QueueStart, QueueStop, DestroyHere, BeginDestroy, Detach, Linger,
       history
  <2> QED
    BY <2>1, <2>2 DEF Next, vars, history
<1>3. failed = {}
  <2>1. Next => failed = {}
    BY DEF Next, LoopNext, UserNext, Poll, SwapFunctors, FinishBatch, RunTimer,
       handleWrite, handleError, removeConnection, restart, RunStartInLoop,
       stopInLoop, resetChannel, RunConnectDestroyed, setCloseCallback, Running,
       ConnectHere, StopHere, Disconnect, BeginConnect, BeginStop, SetWant,
       QueueStart, QueueStop, DestroyHere, BeginDestroy, Detach, Linger, MayConnect,
       Alive
  <2> QED
    BY <2>1 DEF vars, history
<1> QED
  BY <1>1, <1>2, <1>3

LEMMA StepTries ==
    ASSUME Types, PhasesAgree, TryInv, [Next]_vars
    PROVE  TryInv'
<1> SUFFICES ASSUME client' = "alive", ~hasty', failed' = {}
             PROVE  Trying'
  BY DEF TryInv
<1>1. Trying
  BY TryBefore DEF TryInv
<1>2. CASE LoopNext
  BY <1>1, <1>2, PollTries, SwapTries, QuietTries, RunTimerTries, HandleWriteTries,
     HandleErrorTries, RemoveConnectionTries, RestartTries, RunStartInLoopTries,
     StopInLoopTries, OtherFunctorTries
  DEF LoopNext
<1>3. CASE UserNext
  <2>1. ~(DestroyHere \/ Detach \/ Linger)
    BY DEF DestroyHere, Detach, Linger
  <2> QED
    BY <1>1, <1>3, <2>1, ConnectHereTries, StopTries, QuietTries, BeginConnectTries,
       SetWantTries, QueueStartTries
    DEF UserNext
<1>4. CASE UNCHANGED vars
  BY <1>1, <1>4, QuietTries
<1> QED
  BY <1>2, <1>3, <1>4 DEF Next

LEMMA TryInvariant == Spec => [](ClientInv /\ TryInv)
<1>1. Init => TryInv
  <2> SUFFICES ASSUME Init
               PROVE  Trying
    BY DEF TryInv
  <2>1. Single("startInLoop") /\ ~Waits("startInLoop")
    BY InEmpty DEF Init, Single, Waits
  <2> QED
    BY <2>1 DEF Init, Trying, SourcesAgree, OneSource, CloseLast, InsideConnect
<1>2. ClientInv /\ TryInv /\ [Next]_vars => TryInv'
  BY StepTries DEF ClientInv
<1> QED
  BY <1>1, <1>2, ClientInvariant, PTL DEF Spec

(* What is found once, or not at all, is counted so.                       *)
LEMMA CountOf ==
    ASSUME NEW x, NEW s, AtMostOnce(x, s)
    PROVE  Count(x, s) = One(In(x, s))
<1>1. CASE ~In(x, s)
  <2>1. {i \in DOMAIN s : s[i] = x} = {}
    BY <1>1 DEF In
  <2> QED
    BY <1>1, <2>1, FS_EmptySet DEF Count, One
<1>2. CASE In(x, s)
  <2>1. PICK k \in DOMAIN s : s[k] = x
    BY <1>2 DEF In
  <2>2. {i \in DOMAIN s : s[i] = x} = {k}
    BY <2>1 DEF AtMostOnce
  <2> QED
    BY <1>2, <2>2, FS_Singleton DEF Count, One
<1> QED
  BY <1>1, <1>2

(* Connector: a client that wants a connection and has none has exactly    *)
(* one attempt under way, for any retry delays and any number of calls of  *)
(* connect() and stop(), also when calls overlap, unless connect(2) has    *)
(* failed for good.                                                        *)
THEOREM ConnectorKeepsTrying == Spec => []KeepsTrying
<1>1. ClientInv /\ TryInv => KeepsTrying
  <2> SUFFICES ASSUME ClientInv, Trying, want, ~gaveUp,
                      state = "connected" => ~connection
               PROVE  Attempts = One(state # "connected" \/ Count("restart", events) > 0)
    BY DEF KeepsTrying, TryInv
  <2> DEFINE restarts == Count("restart", events)
             starts == Count("startInLoop", pending) + Count("startInLoop", batch)
  <2>1. starts = One(Waits("startInLoop"))
    BY CountOf DEF Trying, OneSource, Single, Waits, One
  <2>2. AtMostOnce("restart", events)
    BY DEF Trying, CloseLast, AtMostOnce
  <2>3. restarts = One(In("restart", events))
    BY <2>2, CountOf
  <2>4. In("restart", events) => state = "connected"
    BY DEF Trying, CloseLast, In
  <2>5. state \in {"disconnected", "connecting", "connected"}
    BY DEF ClientInv, Types, TypeOK
  <2>6. restarts \in {0, 1} /\ starts \in {0, 1}
    BY <2>1, <2>3 DEF One
  <2>7. /\ Count("startInLoop", pending) \in {0, 1}
        /\ Count("startInLoop", batch) \in {0, 1}
    BY CountOf DEF Trying, OneSource, Single, One
  <2>8. timers \in {0, 1} /\ One(registered) \in {0, 1} /\ One(call = "connect2") \in {0, 1}
    BY DEF Trying, SourcesAgree, One
  <2> HIDE DEF restarts, starts
  <2>9. Attempts = One(registered) + timers + starts + One(call = "connect2") + restarts
    BY <2>7, <2>8, <2>6 DEF Attempts, starts, restarts
  <2>10. CASE state = "disconnected"
    <3>1. ~registered /\ restarts = 0 /\ One(registered) = 0
      BY <2>3, <2>4, <2>10 DEF Trying, SourcesAgree, One
    <3>2. timers + starts + One(call = "connect2") = 1
      BY <2>1, <2>8, <2>10 DEF Trying, SourcesAgree, OneSource, One, InsideConnect
    <3> QED
      BY <2>6, <2>8, <2>9, <2>10, <3>1, <3>2 DEF One, restarts
  <2>11. CASE state = "connecting"
    <3>1. /\ One(registered) = 1 /\ restarts = 0 /\ timers = 0 /\ starts = 0
          /\ One(call = "connect2") = 0
      BY <2>1, <2>3, <2>4, <2>11 DEF Trying, SourcesAgree, One, InsideConnect
    <3> QED
      BY <2>9, <2>11, <3>1 DEF One, restarts
  <2>12. CASE state = "connected"
    <3>1. /\ One(registered) = 0 /\ timers = 0 /\ starts = 0
          /\ One(call = "connect2") = 0
      BY <2>1, <2>12 DEF Trying, SourcesAgree, One, InsideConnect
    <3> QED
      BY <2>6, <2>9, <2>12, <3>1 DEF One, restarts
  <2> QED
    BY <2>5, <2>10, <2>11, <2>12
<1> QED
  BY <1>1, TryInvariant, PTL
=============================================================================
