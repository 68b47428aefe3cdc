-------------------------- MODULE NodeSessionProofs --------------------------
(***************************************************************************)
(* NodeSession's safety properties, for any names, callers, calls,         *)
(* connections and breaks.                                                 *)
(***************************************************************************)
EXTENDS NodeSession, SequenceTheorems, TLAPS

\* Before connect there is neither a reader nor a request; without the reader's
\* connection there is no fd_; and once running_ is cleared no request is under
\* way any more.
ThreadInv ==
  /\ conn = 0 <=> reader = "none"
  /\ reader \in {"fail", "connect", "install"} => fd = 0
  /\ conn = 0 => ~running /\ fd = 0 /\ \A r \in Callers : caller[r] = "idle"
  /\ conn > 0 /\ ~running => /\ app \in {"closing", "join", "closed"}
                             /\ \A r \in Callers : caller[r] = "idle"
  /\ app \in {"closing", "join", "closed"} => ~running
  /\ reader = "exit" => ~running

\* A request has an id of its own from register_pending to its return, and a
\* promise with a value is no longer pending.
IdInv ==
  /\ \A r \in Callers : IF caller[r] = "idle" THEN req[r] = 0 ELSE req[r] \in 1 .. calls
  /\ \A r, s \in Callers : r # s /\ caller[r] # "idle" => req[r] # req[s]
  /\ pending \subseteq 1 .. calls /\ ready \subseteq 1 .. calls
  /\ pending \cap ready = {}

\* unsubscribe sends for a name that has lost its handlers.
AppInv == app = "unsubscribe" => todo["app"] \cap handlers = {}

\* The frames of u that name n.
About(u, n) == {i \in DOMAIN u : u[i].kind # "REQUEST" /\ u[i].name = n}

\* The last frame of u that names n subscribes it, or none does and R has it.
Subscribed(u, R, n) ==
  \/ \E i \in About(u, n) : u[i].kind = "SUBSCRIBE" /\ \A j \in About(u, n) : j <= i
  \/ About(u, n) = {} /\ n \in R

\* HandlersRouted without the CHOOSE of LastWord.
RoutedInv ==
  (CanSend /\ running) => \A n \in handlers : Subscribed(up, routed, n) \/ WillSubscribe(n)

\* The connection carries request x or its answer.
OnWire(u, d, x) ==
  \/ \E i \in DOMAIN d : d[i] = x
  \/ \E i \in DOMAIN u : u[i] = [kind |-> "REQUEST", id |-> x]

\* The two halves of NoStrandedRequest.
Live == {"copy", "resend", "check", "recv", "teardown", "fail"}
Waits ==
  \A r \in Callers : caller[r] = "wait" /\ req[r] \in pending =>
    /\ sentOn[r] = conn /\ conn > 0 /\ reader \in Live
    /\ broken \/ OnWire(up, down, req[r])
Owned == \A x \in pending : \E r \in Callers : caller[r] # "idle" /\ req[r] = x

IInv == TypeOK /\ ThreadInv /\ IdInv /\ AppInv /\ Waits /\ Owned /\ RoutedInv

-----------------------------------------------------------------------------
(* What is under way to the daemon                                         *)

\* RoutedInv says what HandlersRouted says.
LEMMA RoutedMeansHandlersRouted ==
  ASSUME TypeOK, RoutedInv
  PROVE  HandlersRouted
<1>1. ASSUME NEW n, Subscribed(up, routed, n) PROVE LastWord(n)
  <2>1. LastWord(n) = IF About(up, n) = {} THEN n \in routed
                      ELSE up[CHOOSE i \in About(up, n) : \A j \in About(up, n) : j <= i].kind
                             = "SUBSCRIBE"
      BY Zenon DEF LastWord, About
  <2>2. CASE About(up, n) = {}
      BY <1>1, <2>1, <2>2, Zenon DEF Subscribed
  <2>3. CASE About(up, n) # {}
    <3>1. PICK i \in About(up, n) : up[i].kind = "SUBSCRIBE" /\ \A j \in About(up, n) : j <= i
        BY <1>1, <2>3, Zenon DEF Subscribed
    <3> DEFINE c == CHOOSE k \in About(up, n) : \A j \in About(up, n) : j <= k
    <3>2. c \in About(up, n) /\ \A j \in About(up, n) : j <= c
        BY <3>1, Zenon
    <3>3. About(up, n) \subseteq Nat
        BY DEF About, TypeOK
    <3> HIDE DEF c
    <3>4. c <= i /\ i <= c /\ c \in Nat /\ i \in Nat
        BY <3>1, <3>2, <3>3, Zenon
    <3>5. c = i
        BY <3>4
    <3> QED
        BY <2>1, <2>3, <3>1, <3>5, Zenon DEF c
  <2> QED
      BY <2>2, <2>3
<1> QED
    BY <1>1, Zenon DEF RoutedInv, HandlersRouted

\* Appending a frame: a SUBSCRIBE settles its own name, and a frame that does
\* not name n leaves n alone.
LEMMA AppendWord ==
  ASSUME NEW u \in Seq(Frames), NEW f \in Frames, NEW R, NEW n
  PROVE  /\ f.kind = "SUBSCRIBE" /\ f.name = n => Subscribed(Append(u, f), R, n)
         /\ Subscribed(u, R, n) /\ (f.kind = "REQUEST" \/ f.name # n)
              => Subscribed(Append(u, f), R, n)
<1> DEFINE v == Append(u, f)
<1>1. /\ v[Len(u) + 1] = f /\ Len(u) \in Nat /\ DOMAIN u = 1 .. Len(u)
      /\ DOMAIN v = 1 .. Len(u) + 1 /\ \A i \in 1 .. Len(u) : v[i] = u[i]
    OBVIOUS
<1> HIDE DEF v
<1>2. ASSUME f.kind = "SUBSCRIBE", f.name = n PROVE Subscribed(v, R, n)
  <2>1. Len(u) + 1 \in About(v, n) /\ v[Len(u) + 1].kind = "SUBSCRIBE"
      BY <1>1, <1>2 DEF About
  <2>2. \A j \in About(v, n) : j <= Len(u) + 1
      BY <1>1 DEF About
  <2> QED
      BY <2>1, <2>2, Zenon DEF Subscribed
<1>3. ASSUME Subscribed(u, R, n), f.kind = "REQUEST" \/ f.name # n PROVE Subscribed(v, R, n)
  <2>1. About(v, n) = About(u, n)
      BY <1>1, <1>3 DEF About
  <2>2. \A i \in About(u, n) : v[i] = u[i]
      BY <1>1 DEF About
  <2> QED
      BY <1>3, <2>1, <2>2, Zenon DEF Subscribed
<1> QED
    BY <1>2, <1>3 DEF v

\* What the daemon makes of frame f: R becomes this.
Obey(f, R) ==
  CASE f.kind = "SUBSCRIBE"   -> R \cup {f.name}
    [] f.kind = "UNSUBSCRIBE" -> R \ {f.name}
    [] OTHER                  -> R

\* Reading the first frame does not change what the daemon will have heard last.
LEMMA ServeWord ==
  ASSUME NEW u \in Seq(Frames), u # <<>>, NEW R, NEW n, Subscribed(u, R, n)
  PROVE  Subscribed(Tail(u), Obey(Head(u), R), n)
<1> DEFINE v == Tail(u)
<1>1. /\ Len(u) \in Nat /\ Len(u) >= 1 /\ DOMAIN u = 1 .. Len(u) /\ Head(u) = u[1]
      /\ DOMAIN v = 1 .. Len(u) - 1 /\ \A i \in 1 .. Len(u) - 1 : v[i] = u[i + 1]
    OBVIOUS
<1>2. u[1] \in Frames
    BY <1>1
<1> HIDE DEF v
<1>3. /\ \A i \in About(v, n) : i + 1 \in About(u, n) /\ i \in Nat \ {0} /\ v[i] = u[i + 1]
      /\ \A i \in About(u, n) : i = 1 \/ i - 1 \in About(v, n)
      /\ About(u, n) \subseteq 1 .. Len(u)
    BY <1>1 DEF About
<1>4. CASE About(u, n) = {} /\ n \in R
  <2>1. 1 \notin About(u, n)
      BY <1>4
  <2>2. u[1].kind = "REQUEST" \/ u[1].name # n
      BY <1>1, <2>1 DEF About
  <2>3. n \in Obey(u[1], R)
      BY <1>2, <1>4, <2>2 DEF Obey, Frames
  <2>4. About(v, n) = {}
      BY <1>3, <1>4
  <2> QED
      BY <1>1, <2>3, <2>4, Zenon DEF Subscribed, v
<1>5. ASSUME NEW i \in About(u, n), u[i].kind = "SUBSCRIBE", \A j \in About(u, n) : j <= i
      PROVE  Subscribed(v, Obey(u[1], R), n)
  <2>1. CASE i = 1
    <3>1. About(v, n) = {}
      <4> SUFFICES ASSUME NEW j \in About(v, n) PROVE FALSE
          OBVIOUS
      <4>1. j + 1 <= 1 /\ j \in Nat \ {0}
          BY <1>3, <1>5, <2>1
      <4> QED
          BY <4>1
    <3>2. n \in Obey(u[1], R)
        BY <1>5, <2>1 DEF Obey, About
    <3> QED
        BY <3>1, <3>2 DEF Subscribed
  <2>2. CASE i # 1
    <3>1. i - 1 \in About(v, n) /\ v[i - 1] = u[i]
        BY <1>3, <2>2
    <3>2. \A j \in About(v, n) : j <= i - 1
        BY <1>3, <1>5
    <3> QED
        BY <1>5, <3>1, <3>2, Zenon DEF Subscribed
  <2> QED
      BY <2>1, <2>2
<1> QED
    BY <1>1, <1>4, <1>5, Zenon DEF Subscribed, v

\* A request that was sent stays on the connection while frames are appended
\* and the daemon answers; reading an answer takes only that one away.
LEMMA WireKeeps ==
  ASSUME NEW u \in Seq(Frames), NEW d \in Seq(1 .. MaxCalls), NEW x
  PROVE  /\ \A f \in Frames : /\ OnWire(u, d, x) => OnWire(Append(u, f), d, x)
                              /\ f = [kind |-> "REQUEST", id |-> x] => OnWire(Append(u, f), d, x)
         /\ u # <<>> /\ OnWire(u, d, x) =>
              OnWire(Tail(u), IF Head(u).kind = "REQUEST" THEN Append(d, Head(u).id) ELSE d, x)
         /\ d # <<>> /\ OnWire(u, d, x) /\ x # Head(d) => OnWire(u, Tail(d), x)
<1>1. ASSUME NEW f \in Frames
      PROVE  /\ OnWire(u, d, x) => OnWire(Append(u, f), d, x)
             /\ f = [kind |-> "REQUEST", id |-> x] => OnWire(Append(u, f), d, x)
  <2>1. /\ \A i \in DOMAIN u : i \in DOMAIN Append(u, f) /\ Append(u, f)[i] = u[i]
        /\ Len(u) + 1 \in DOMAIN Append(u, f) /\ Append(u, f)[Len(u) + 1] = f
      OBVIOUS
  <2> QED
      BY <2>1, Zenon DEF OnWire
<1>2. ASSUME u # <<>>, OnWire(u, d, x)
      PROVE  OnWire(Tail(u), IF Head(u).kind = "REQUEST" THEN Append(d, Head(u).id) ELSE d, x)
  <2> DEFINE h == Head(u)
             e == Append(d, h.id)
             g == IF h.kind = "REQUEST" THEN e ELSE d
  <2>1. /\ \A i \in DOMAIN u : i = 1 \/ (i - 1 \in DOMAIN Tail(u) /\ Tail(u)[i - 1] = u[i])
        /\ h = u[1] /\ h \in Frames
      BY <1>2
  <2>2. h.kind = "REQUEST" => h.id \in 1 .. MaxCalls
      BY <2>1 DEF Frames
  <2> HIDE DEF h
  <2>3. h.kind = "REQUEST" =>
          /\ \A i \in DOMAIN d : i \in DOMAIN e /\ e[i] = d[i]
          /\ Len(d) + 1 \in DOMAIN e /\ e[Len(d) + 1] = h.id
      BY <2>2
  <2> HIDE DEF e
  <2>4. CASE \E i \in DOMAIN d : d[i] = x
    <3>1. \E i \in DOMAIN g : g[i] = x
        BY <2>3, <2>4, Zenon
    <3> QED
        BY <3>1, Zenon DEF OnWire, h, e
  <2>5. ASSUME NEW i \in DOMAIN u, u[i] = [kind |-> "REQUEST", id |-> x]
        PROVE  OnWire(Tail(u), g, x)
    <3>1. CASE i = 1
      <4>1. h.kind = "REQUEST" /\ h.id = x
          BY <2>1, <2>5, <3>1
      <4>2. \E k \in DOMAIN g : g[k] = x
          BY <2>3, <4>1, Zenon
      <4> QED
          BY <4>2, Zenon DEF OnWire
    <3>2. CASE i # 1
        BY <2>1, <2>5, <3>2, Zenon DEF OnWire
    <3> QED
        BY <3>1, <3>2
  <2> QED
      BY <1>2, <2>4, <2>5, Zenon DEF OnWire, g, e, h
<1>3. ASSUME d # <<>>, OnWire(u, d, x), x # Head(d) PROVE OnWire(u, Tail(d), x)
  <2>1. \A i \in DOMAIN d : i = 1 \/ (i - 1 \in DOMAIN Tail(d) /\ Tail(d)[i - 1] = d[i])
      BY <1>3
  <2>2. Head(d) = d[1]
      BY <1>3
  <2> QED
      BY <1>3, <2>1, <2>2, Zenon DEF OnWire
<1> QED
    BY <1>1, <1>2, <1>3

\* The invariant says what the two properties say.
LEMMA IInvSuffices == IInv => NoStrandedRequest /\ HandlersRouted
<1> SUFFICES ASSUME IInv PROVE NoStrandedRequest /\ HandlersRouted
    OBVIOUS
<1>1. NoStrandedRequest
    BY Zenon DEF IInv, Waits, Owned, NoStrandedRequest, OnWire, Live
<1>2. HandlersRouted
    BY RoutedMeansHandlersRouted DEF IInv
<1> QED
    BY <1>1, <1>2

-----------------------------------------------------------------------------
(* Steps that leave the requests alone                                     *)

\* A step that changes neither requests nor promises strands nobody, as long as
\* the reader does not walk away from a connection that is waited for, and what
\* such a connection carries stays on it or is lost with it.
LEMMA QuietStep ==
  ASSUME IInv,
         caller' = caller, req' = req, sentOn' = sentOn,
         pending' = pending, ready' = ready, conn' = conn,
         calls' \in Nat, calls' >= calls,
         reader' \in Live \/ reader \notin Live \/ ~running,
         broken' \/ (~broken /\ \A x : OnWire(up, down, x) => OnWire(up', down', x))
  PROVE  IdInv' /\ Waits' /\ Owned'
<1>1. IdInv'
  <2>1. calls \in Nat
      BY NodeAssumption DEF IInv, TypeOK
  <2>2. 1 .. calls \subseteq 1 .. calls'
      BY <2>1
  <2> QED
      BY <2>2, Zenon DEF IInv, IdInv
<1>2. Owned'
    BY Zenon DEF IInv, Owned
<1>3. Waits'
  <2> SUFFICES ASSUME NEW r \in Callers, caller[r] = "wait", req[r] \in pending
               PROVE  /\ sentOn[r] = conn /\ conn > 0 /\ reader' \in Live
                      /\ broken' \/ OnWire(up', down', req[r])
      BY Zenon DEF Waits
  <2>1. /\ sentOn[r] = conn /\ conn > 0 /\ reader \in Live
        /\ broken \/ OnWire(up, down, req[r])
      BY Zenon DEF IInv, Waits
  <2>2. caller[r] # "idle"
      OBVIOUS
  <2>3. running
      BY <2>1, <2>2, Zenon DEF IInv, ThreadInv
  <2> QED
      BY <2>1, <2>3, Zenon
<1> QED
    BY <1>1, <1>2, <1>3

\* A send appends a frame to a connection that takes it and loses it otherwise.
LEMMA SendStep ==
  ASSUME IInv, NEW f \in Frames, Send(f)
  PROVE  /\ conn' = conn /\ broken' = broken /\ down' = down /\ routed' = routed
         /\ up' = IF CanSend THEN Append(up, f) ELSE up
         /\ up' \in Seq(Frames)
         /\ \A x : OnWire(up, down, x) => OnWire(up', down', x)
<1>1. /\ conn' = conn /\ broken' = broken /\ down' = down /\ routed' = routed
      /\ up' = IF CanSend THEN Append(up, f) ELSE up
    BY DEF Send
<1>2. up \in Seq(Frames) /\ down \in Seq(1 .. MaxCalls)
    BY DEF IInv, TypeOK
<1>3. Append(up, f) \in Seq(Frames)
    BY <1>2
<1>4. \A x : OnWire(up, down, x) => OnWire(Append(up, f), down, x)
    BY <1>2, WireKeeps
<1> QED
    BY <1>1, <1>2, <1>3, <1>4, Zenon

\* subscribe: the new name is about to be sent.
LEMMA SubscribeIInv == ASSUME IInv, NEW n \in Names, Subscribe(n) PROVE IInv'
<1>1. /\ app = "idle" /\ app' = "resend" /\ handlers' = handlers \cup {n}
      /\ calls < MaxCalls /\ calls' = calls + 1
      /\ todo' = [todo EXCEPT !["app"] = {n}]
      /\ UNCHANGED <<pending, ready, caller, req, sentOn, conn, broken, up, down, routed>>
      /\ UNCHANGED <<fd, running, reader, breaks>>
    BY DEF Subscribe, Call, promise, request, wire
<1>2. calls \in Nat /\ MaxCalls \in Nat /\ calls' \in 0 .. MaxCalls /\ calls' \in Nat /\ calls' >= calls
    BY <1>1, NodeAssumption DEF IInv, TypeOK
<1>3. todo' \in [Threads -> SUBSET Names] /\ todo'["app"] = {n} /\ todo'["reader"] = todo["reader"]
    BY <1>1 DEF IInv, TypeOK, Threads
<1>4. TypeOK'
    BY <1>1, <1>2, <1>3 DEF IInv, TypeOK
<1>5. ThreadInv'
    BY <1>1 DEF IInv, ThreadInv
<1>6. IdInv' /\ Waits' /\ Owned'
    BY <1>1, <1>2, QuietStep, Zenon
<1>7. AppInv'
    BY <1>1 DEF AppInv
<1>8. RoutedInv'
    BY <1>1, <1>3, Zenon DEF IInv, RoutedInv, CanSend, WillSubscribe
<1> QED
    BY <1>4, <1>5, <1>6, <1>7, <1>8 DEF IInv

\* unsubscribe: the name has no handler any more, and is about to be sent.
LEMMA UnsubscribeIInv == ASSUME IInv, NEW n \in Names, Unsubscribe(n) PROVE IInv'
<1>1. /\ app = "idle" /\ app' = "unsubscribe" /\ handlers' = handlers \ {n}
      /\ calls < MaxCalls /\ calls' = calls + 1
      /\ todo' = [todo EXCEPT !["app"] = {n}]
      /\ UNCHANGED <<pending, ready, caller, req, sentOn, conn, broken, up, down, routed>>
      /\ UNCHANGED <<fd, running, reader, breaks>>
    BY DEF Unsubscribe, Call, promise, request, wire
<1>2. calls \in Nat /\ MaxCalls \in Nat /\ calls' \in 0 .. MaxCalls /\ calls' \in Nat /\ calls' >= calls
    BY <1>1, NodeAssumption DEF IInv, TypeOK
<1>3. todo' \in [Threads -> SUBSET Names] /\ todo'["app"] = {n} /\ todo'["reader"] = todo["reader"]
    BY <1>1 DEF IInv, TypeOK, Threads
<1>4. TypeOK'
    BY <1>1, <1>2, <1>3 DEF IInv, TypeOK
<1>5. ThreadInv'
    BY <1>1 DEF IInv, ThreadInv
<1>6. IdInv' /\ Waits' /\ Owned'
    BY <1>1, <1>2, QuietStep, Zenon
<1>7. AppInv'
    BY <1>1, <1>3 DEF AppInv
<1>8. RoutedInv'
  <2>1. app # "copy" /\ app # "resend" /\ app' # "copy" /\ app' # "resend"
      BY <1>1
  <2> QED
      BY <1>1, <1>3, <2>1, Zenon DEF IInv, RoutedInv, CanSend, WillSubscribe
<1> QED
    BY <1>4, <1>5, <1>6, <1>7, <1>8 DEF IInv

\* The UNSUBSCRIBE names nothing that has a handler.
LEMMA SendUnsubscribeIInv == ASSUME IInv, SendUnsubscribe PROVE IInv'
<1>1. PICK n \in todo["app"] : Send([kind |-> "UNSUBSCRIBE", name |-> n])
    BY DEF SendUnsubscribe
<1>2. /\ app = "unsubscribe" /\ app' = "idle" /\ todo' = [todo EXCEPT !["app"] = {}]
      /\ UNCHANGED <<handlers, pending, ready, caller, req, sentOn>>
      /\ UNCHANGED <<fd, running, reader, calls, breaks>>
    BY DEF SendUnsubscribe, promise, request
<1> DEFINE f == [kind |-> "UNSUBSCRIBE", name |-> n]
<1>3. f \in Frames /\ f.kind = "UNSUBSCRIBE" /\ f.name = n /\ n \notin handlers
    BY <1>2 DEF Frames, IInv, TypeOK, Threads, AppInv
<1> HIDE DEF f
<1>4. /\ conn' = conn /\ broken' = broken /\ down' = down /\ routed' = routed
      /\ up' = IF CanSend THEN Append(up, f) ELSE up
      /\ up' \in Seq(Frames)
      /\ \A x : OnWire(up, down, x) => OnWire(up', down', x)
    BY <1>1, <1>3, SendStep DEF f
<1>5. todo' \in [Threads -> SUBSET Names] /\ todo'["app"] = {} /\ todo'["reader"] = todo["reader"]
    BY <1>2 DEF IInv, TypeOK, Threads
<1>6. TypeOK'
    BY <1>2, <1>4, <1>5 DEF IInv, TypeOK
<1>7. ThreadInv'
    BY <1>2, <1>4 DEF IInv, ThreadInv
<1>8. calls \in Nat /\ calls >= calls
    BY NodeAssumption DEF IInv, TypeOK
<1>9. IdInv' /\ Waits' /\ Owned'
    BY <1>2, <1>4, <1>8, QuietStep, Zenon
<1>10. AppInv'
    BY <1>2 DEF AppInv
<1>11. RoutedInv'
  <2> SUFFICES ASSUME CanSend, running, NEW m \in handlers
               PROVE  Subscribed(up', routed', m) \/ WillSubscribe(m)'
      BY <1>2, <1>4, Zenon DEF RoutedInv, CanSend
  <2>1. app # "copy" /\ app # "resend"
      BY <1>2
  <2>2. Subscribed(up, routed, m) \/ WillSubscribe(m)
      BY DEF IInv, RoutedInv
  <2>3. Subscribed(up, routed, m) => Subscribed(up', routed', m)
      BY <1>3, <1>4, AppendWord DEF IInv, TypeOK
  <2> QED
      BY <1>2, <1>5, <2>1, <2>2, <2>3, Zenon DEF WillSubscribe
<1> QED
    BY <1>6, <1>7, <1>9, <1>10, <1>11 DEF IInv

\* connect: a resubscribe follows, and nobody has made a request yet.
LEMMA ConnectIInv == ASSUME IInv, Connect PROVE IInv'
<1>1. /\ app = "idle" /\ conn = 0 /\ conn < MaxConns /\ conn' = 1 /\ fd' = 1
      /\ broken' = FALSE /\ up' = <<>> /\ down' = <<>> /\ routed' = {}
      /\ running' = TRUE /\ reader' = "check" /\ app' = "copy"
      /\ UNCHANGED <<handlers, pending, ready, caller, req, sentOn, todo, calls, breaks>>
    BY DEF Connect, Dial, promise, request
<1>2. conn' \in 0 .. MaxConns /\ up' \in Seq(Frames) /\ down' \in Seq(1 .. MaxCalls)
    BY <1>1, NodeAssumption
<1>3. TypeOK'
    BY <1>1, <1>2 DEF IInv, TypeOK
<1>4. \A r \in Callers : caller[r] = "idle"
    BY <1>1, Zenon DEF IInv, ThreadInv
<1>5. ThreadInv'
    BY <1>1 DEF ThreadInv
<1>6. IdInv' /\ Owned'
    BY <1>1, Zenon DEF IInv, IdInv, Owned
<1>7. Waits'
    BY <1>1, <1>4 DEF Waits
<1>8. AppInv' /\ RoutedInv'
    BY <1>1 DEF AppInv, RoutedInv, WillSubscribe
<1> QED
    BY <1>3, <1>5, <1>6, <1>7, <1>8 DEF IInv

\* The destructor begins when nobody is in a call, and wakes the reader.
LEMMA CloseIInv == ASSUME IInv, Close PROVE IInv'
<1>1. calls \in Nat /\ calls >= calls
    BY NodeAssumption DEF IInv, TypeOK
<1>2. CASE MayClose /\ app' = "closing" /\ ClearRunning
  <2>1. /\ \A r \in Callers : caller[r] = "idle"
        /\ app' = "closing" /\ running' = FALSE /\ conn > 0
        /\ UNCHANGED <<handlers, pending, ready, caller, req, sentOn, conn, broken, up, down>>
        /\ UNCHANGED <<routed, fd, reader, todo, calls, breaks>>
      BY <1>2 DEF MayClose, ClearRunning, promise, request, wire
  <2>2. TypeOK'
      BY <2>1 DEF IInv, TypeOK
  <2>3. ThreadInv'
      BY <2>1 DEF IInv, ThreadInv
  <2>4. IdInv' /\ Owned'
      BY <2>1, Zenon DEF IInv, IdInv, Owned
  <2>5. Waits'
      BY <2>1 DEF Waits
  <2>6. AppInv' /\ RoutedInv'
      BY <2>1 DEF AppInv, RoutedInv
  <2> QED
      BY <2>2, <2>3, <2>4, <2>5, <2>6 DEF IInv
<1>3. CASE app = "closing" /\ app' = "join" /\ WakeReader
  <2>1. /\ app = "closing" /\ app' = "join"
        /\ UNCHANGED <<handlers, pending, ready, caller, req, sentOn, conn, down>>
        /\ UNCHANGED <<fd, running, reader, todo, calls, breaks>>
        /\ \/ broken' = TRUE /\ up' = <<>> /\ routed' = {}
           \/ broken' = broken /\ up' = up /\ routed' = routed
      BY <1>3 DEF WakeReader, Shut, promise, request, wire
  <2>2. ~running
      BY <2>1 DEF IInv, ThreadInv
  <2>3. up' \in Seq(Frames) /\ routed' \subseteq Names /\ broken' \in BOOLEAN
    <3>1. (up' = <<>> /\ routed' = {}) \/ (up' = up /\ routed' = routed)
        BY <2>1, Zenon
    <3>2. <<>> \in Seq(Frames) /\ up \in Seq(Frames)
        BY DEF IInv, TypeOK
    <3>3. up' \in Seq(Frames) /\ routed' \subseteq Names
        BY <3>1, <3>2, Zenon DEF IInv, TypeOK
    <3>4. broken' \in BOOLEAN
        BY <2>1, Zenon DEF IInv, TypeOK
    <3> QED
        BY <3>3, <3>4
  <2>4. TypeOK'
      BY <2>1, <2>3 DEF IInv, TypeOK
  <2>5. ThreadInv'
      BY <2>1, <2>2 DEF IInv, ThreadInv
  <2>6. broken' \/ (~broken /\ \A x : OnWire(up, down, x) => OnWire(up', down', x))
      BY <2>1, Zenon DEF IInv, TypeOK
  <2>7. IdInv' /\ Waits' /\ Owned'
      BY <1>1, <2>1, <2>2, <2>6, QuietStep, Zenon
  <2>8. AppInv' /\ RoutedInv'
      BY <2>1, <2>2 DEF AppInv, RoutedInv
  <2> QED
      BY <2>4, <2>5, <2>7, <2>8 DEF IInv
<1> QED
    BY <1>2, <1>3 DEF Close

\* The destructor joins the reader and closes what is left.
LEMMA JoinIInv == ASSUME IInv, Join PROVE IInv'
<1>1. /\ app = "join" /\ reader = "exit" /\ app' = "closed" /\ fd' = 0
      /\ UNCHANGED <<handlers, pending, ready, caller, req, sentOn, conn, down>>
      /\ UNCHANGED <<running, reader, todo, calls, breaks>>
      /\ \/ broken' = TRUE /\ up' = <<>> /\ routed' = {}
         \/ broken' = broken /\ up' = up /\ routed' = routed
    BY DEF Join, Shut, promise, request, wire
<1>2. ~running
    BY <1>1 DEF IInv, ThreadInv
<1>3. up' \in Seq(Frames) /\ routed' \subseteq Names /\ broken' \in BOOLEAN
  <2>1. (up' = <<>> /\ routed' = {}) \/ (up' = up /\ routed' = routed)
      BY <1>1, Zenon
  <2>2. <<>> \in Seq(Frames) /\ up \in Seq(Frames)
      BY DEF IInv, TypeOK
  <2>3. up' \in Seq(Frames) /\ routed' \subseteq Names
      BY <2>1, <2>2, Zenon DEF IInv, TypeOK
  <2>4. broken' \in BOOLEAN
      BY <1>1, Zenon DEF IInv, TypeOK
  <2> QED
      BY <2>3, <2>4
<1>4. TypeOK'
    BY <1>1, <1>3 DEF IInv, TypeOK
<1>5. ThreadInv'
    BY <1>1, <1>2 DEF IInv, ThreadInv
<1>6. broken' \/ (~broken /\ \A x : OnWire(up, down, x) => OnWire(up', down', x))
    BY <1>1, Zenon DEF IInv, TypeOK
<1>7. calls \in Nat /\ calls >= calls
    BY NodeAssumption DEF IInv, TypeOK
<1>8. IdInv' /\ Waits' /\ Owned'
    BY <1>1, <1>2, <1>6, <1>7, QuietStep, Zenon
<1>9. AppInv' /\ RoutedInv'
    BY <1>1, <1>2 DEF AppInv, RoutedInv
<1> QED
    BY <1>4, <1>5, <1>8, <1>9 DEF IInv

-----------------------------------------------------------------------------
(* resubscribe                                                             *)

\* The copy: every name with a handler is about to be sent.
LEMMA CopyIInv ==
  ASSUME IInv, NEW t \in Threads, CopyNames(t),
         \/ t = "app" /\ app = "copy" /\ app' = "resend" /\ UNCHANGED reader
         \/ t = "reader" /\ reader = "copy" /\ reader' = "resend" /\ UNCHANGED app
  PROVE  IInv'
<1>1. /\ todo' = [todo EXCEPT ![t] = handlers]
      /\ UNCHANGED <<handlers, pending, ready, caller, req, sentOn, conn, broken, up, down>>
      /\ UNCHANGED <<routed, fd, running, calls, breaks>>
    BY DEF CopyNames, promise, request, wire
<1>2. /\ todo' \in [Threads -> SUBSET Names] /\ todo'[t] = handlers
      /\ \A s \in Threads \ {t} : todo'[s] = todo[s]
    BY <1>1 DEF IInv, TypeOK
<1>3. /\ t = "app" => app = "copy" /\ app' = "resend" /\ reader' = reader
      /\ t = "reader" => reader = "copy" /\ reader' = "resend" /\ app' = app
      /\ t \in {"app", "reader"}
    BY DEF Threads
<1>4. TypeOK'
    BY <1>1, <1>2, <1>3 DEF IInv, TypeOK
<1>5. ThreadInv'
    BY <1>1, <1>3 DEF IInv, ThreadInv
<1>6. calls \in Nat /\ calls >= calls
    BY NodeAssumption DEF IInv, TypeOK
<1>7. reader' \in Live \/ reader \notin Live
    BY <1>3 DEF Live
<1>8. broken' \/ (~broken /\ \A x : OnWire(up, down, x) => OnWire(up', down', x))
    BY <1>1, Zenon DEF IInv, TypeOK
<1>9. IdInv' /\ Waits' /\ Owned'
    BY <1>1, <1>6, <1>7, <1>8, QuietStep, Zenon
<1>10. AppInv'
  <2>1. app' = "unsubscribe" => app = "unsubscribe" /\ t = "reader"
      BY <1>3
  <2>2. t = "reader" => todo'["app"] = todo["app"]
      BY <1>2 DEF Threads
  <2> QED
      BY <1>1, <2>1, <2>2 DEF IInv, AppInv
<1>11. RoutedInv'
  <2>1. \A n \in handlers : WillSubscribe(n)'
      BY <1>2, <1>3 DEF WillSubscribe
  <2> QED
      BY <1>1, <2>1, Zenon DEF RoutedInv
<1> QED
    BY <1>4, <1>5, <1>9, <1>10, <1>11 DEF IInv

\* One SUBSCRIBE: its name is settled and no other is disturbed.
LEMMA SendNextIInv ==
  ASSUME IInv, NEW t \in Threads, SendNext(t), t = "app" => app = "resend"
  PROVE  IInv'
<1>1. PICK n \in todo[t] : /\ Send([kind |-> "SUBSCRIBE", name |-> n])
                           /\ todo' = [todo EXCEPT ![t] = todo[t] \ {n}]
    BY DEF SendNext
<1>2. /\ UNCHANGED <<handlers, pending, ready, caller, req, sentOn>>
      /\ UNCHANGED <<fd, running, app, reader, calls, breaks>>
    BY DEF SendNext, promise, request
<1> DEFINE f == [kind |-> "SUBSCRIBE", name |-> n]
<1>3. f \in Frames /\ f.kind = "SUBSCRIBE" /\ f.name = n
    BY DEF Frames, IInv, TypeOK
<1> HIDE DEF f
<1>4. /\ conn' = conn /\ broken' = broken /\ down' = down /\ routed' = routed
      /\ up' = IF CanSend THEN Append(up, f) ELSE up
      /\ up' \in Seq(Frames)
      /\ \A x : OnWire(up, down, x) => OnWire(up', down', x)
    BY <1>1, <1>3, SendStep DEF f
<1>5. /\ todo' \in [Threads -> SUBSET Names] /\ todo'[t] = todo[t] \ {n}
      /\ \A s \in Threads \ {t} : todo'[s] = todo[s]
    BY <1>1 DEF IInv, TypeOK
<1>6. TypeOK'
    BY <1>2, <1>4, <1>5 DEF IInv, TypeOK
<1>7. ThreadInv'
    BY <1>2, <1>4 DEF IInv, ThreadInv
<1>8. calls \in Nat /\ calls >= calls
    BY NodeAssumption DEF IInv, TypeOK
<1>9. IdInv' /\ Waits' /\ Owned'
    BY <1>2, <1>4, <1>8, QuietStep, Zenon
<1>10. AppInv'
  <2>1. app = "unsubscribe" => t = "reader" /\ todo'["app"] = todo["app"]
      BY <1>5 DEF Threads
  <2> QED
      BY <1>2, <2>1 DEF IInv, AppInv
<1>11. RoutedInv'
  <2> SUFFICES ASSUME CanSend, running, NEW m \in handlers
               PROVE  Subscribed(up', routed', m) \/ WillSubscribe(m)'
      BY <1>2, <1>4, Zenon DEF RoutedInv, CanSend
  <2>1. Subscribed(up, routed, m) \/ WillSubscribe(m)
      BY DEF IInv, RoutedInv
  <2>2. /\ Subscribed(up, routed, m) => Subscribed(up', routed', m)
        /\ m = n => Subscribed(up', routed', m)
      BY <1>3, <1>4, AppendWord DEF IInv, TypeOK
  <2>3. m # n => /\ m \in todo["app"] => m \in todo'["app"]
                 /\ m \in todo["reader"] => m \in todo'["reader"]
      BY <1>5 DEF Threads
  <2> QED
      BY <1>2, <2>1, <2>2, <2>3, Zenon DEF WillSubscribe
<1> QED
    BY <1>6, <1>7, <1>9, <1>10, <1>11 DEF IInv

\* Nothing is left to send.
LEMMA SentAllIInv ==
  ASSUME IInv,
         UNCHANGED <<handlers, promise, request, wire, fd, running, todo, calls, breaks>>,
         \/ /\ app = "resend" /\ todo["app"] = {} /\ app' = "idle" /\ UNCHANGED reader
         \/ /\ reader = "resend" /\ todo["reader"] = {} /\ UNCHANGED app
            /\ reader' = IF running THEN "check" ELSE "exit"
  PROVE  IInv'
<1>1. /\ UNCHANGED <<handlers, pending, ready, caller, req, sentOn, conn, broken, up, down>>
      /\ UNCHANGED <<routed, fd, running, todo, calls, breaks>>
    BY DEF promise, request, wire
<1>2. \/ app = "resend" /\ app' = "idle" /\ reader' = reader
      \/ reader = "resend" /\ app' = app /\ running /\ reader' = "check"
      \/ reader = "resend" /\ app' = app /\ ~running /\ reader' = "exit"
    BY Zenon
<1>3. TypeOK'
    BY <1>1, <1>2 DEF IInv, TypeOK
<1>4. ThreadInv'
    BY <1>1, <1>2 DEF IInv, ThreadInv
<1>5. calls \in Nat /\ calls >= calls
    BY NodeAssumption DEF IInv, TypeOK
<1>6. reader' \in Live \/ reader \notin Live \/ ~running
    BY <1>2 DEF Live
<1>7. broken' \/ (~broken /\ \A x : OnWire(up, down, x) => OnWire(up', down', x))
    BY <1>1, Zenon DEF IInv, TypeOK
<1>8. IdInv' /\ Waits' /\ Owned'
    BY <1>1, <1>5, <1>6, <1>7, QuietStep, Zenon
<1>9. AppInv'
    BY <1>1, <1>2 DEF IInv, AppInv
<1>10. RoutedInv'
  <2>1. ASSUME NEW n PROVE WillSubscribe(n) => WillSubscribe(n)'
      BY <1>1 DEF WillSubscribe
  <2> SUFFICES ASSUME CanSend, running, NEW n \in handlers
               PROVE  Subscribed(up', routed', n) \/ WillSubscribe(n)'
    <3>1. CanSend' = CanSend /\ running' = running /\ handlers' = handlers
        BY <1>1 DEF CanSend
    <3> QED
        BY <3>1 DEF RoutedInv
  <2>2. up' = up /\ routed' = routed
      BY <1>1
  <2> QED
      BY <2>1, <2>2 DEF IInv, RoutedInv
<1> QED
    BY <1>3, <1>4, <1>8, <1>9, <1>10 DEF IInv

-----------------------------------------------------------------------------
(* The reader thread                                                       *)

\* Only the reader moves, and does not come from a copy of the names.
LEMMA ReaderMoves ==
  ASSUME IInv,
         UNCHANGED <<handlers, promise, request, wire, fd, running, app, todo, calls, breaks>>,
         \/ reader = "check" /\ reader' = IF running THEN "recv" ELSE "teardown"
         \/ reader = "recv" /\ reader' = "teardown"
         \/ reader = "connect" /\ ~running /\ reader' = "exit"
  PROVE  IInv'
<1>1. /\ UNCHANGED <<handlers, pending, ready, caller, req, sentOn, conn, broken, up, down>>
      /\ UNCHANGED <<routed, fd, running, app, todo, calls, breaks>>
    BY DEF promise, request, wire
<1>2. \/ reader \in {"check", "recv"} /\ reader' \in {"recv", "teardown"}
      \/ reader = "connect" /\ ~running /\ reader' = "exit"
    OBVIOUS
<1>3. TypeOK'
    BY <1>1, <1>2 DEF IInv, TypeOK
<1>4. ThreadInv'
    BY <1>1, <1>2 DEF IInv, ThreadInv
<1>5. calls \in Nat /\ calls >= calls
    BY NodeAssumption DEF IInv, TypeOK
<1>6. reader' \in Live \/ reader \notin Live \/ ~running
    BY <1>2 DEF Live
<1>7. broken' \/ (~broken /\ \A x : OnWire(up, down, x) => OnWire(up', down', x))
    BY <1>1, Zenon DEF IInv, TypeOK
<1>8. IdInv' /\ Waits' /\ Owned'
    BY <1>1, <1>5, <1>6, <1>7, QuietStep, Zenon
<1>9. AppInv'
    BY <1>1 DEF IInv, AppInv
<1>10. RoutedInv'
  <2>1. ASSUME NEW n PROVE WillSubscribe(n) => WillSubscribe(n)'
      BY <1>1, <1>2 DEF WillSubscribe
  <2>2. /\ CanSend' = CanSend /\ running' = running /\ handlers' = handlers
        /\ up' = up /\ routed' = routed
      BY <1>1 DEF CanSend
  <2> QED
      BY <2>1, <2>2 DEF IInv, RoutedInv
<1> QED
    BY <1>3, <1>4, <1>8, <1>9, <1>10 DEF IInv

\* An answer is read: whoever waits for it is answered, and nobody else's is lost.
LEMMA ReadFrameIInv == ASSUME IInv, ReadFrame PROVE IInv'
<1>1. /\ reader = "recv" /\ reader' = "check" /\ down # <<>> /\ down' = Tail(down)
      /\ pending' = pending \ {Head(down)} /\ ready' = ready \cup ({Head(down)} \cap pending)
      /\ UNCHANGED <<handlers, caller, req, sentOn, conn, broken, up, routed>>
      /\ UNCHANGED <<fd, running, app, todo, calls, breaks>>
    BY DEF ReadFrame, Fulfill, request
<1>2. down' \in Seq(1 .. MaxCalls) /\ down \in Seq(1 .. MaxCalls) /\ up \in Seq(Frames)
    BY <1>1 DEF IInv, TypeOK
<1>3. TypeOK'
    BY <1>1, <1>2 DEF IInv, TypeOK
<1>4. ThreadInv'
    BY <1>1 DEF IInv, ThreadInv
<1>5. IdInv'
  <2>1. /\ pending' \subseteq 1 .. calls /\ ready' \subseteq 1 .. calls
        /\ pending' \cap ready' = {}
      BY <1>1 DEF IInv, IdInv
  <2> QED
      BY <1>1, <2>1, Zenon DEF IInv, IdInv
<1>6. Owned'
    BY <1>1 DEF IInv, Owned
<1>7. Waits'
  <2> SUFFICES ASSUME NEW r \in Callers, caller[r] = "wait", req[r] \in pending'
               PROVE  /\ sentOn[r] = conn /\ conn > 0 /\ reader' \in Live
                      /\ broken \/ OnWire(up, down', req[r])
      BY <1>1, Zenon DEF Waits
  <2>1. /\ sentOn[r] = conn /\ conn > 0 /\ reader \in Live
        /\ broken \/ OnWire(up, down, req[r])
      BY <1>1 DEF IInv, Waits
  <2>2. OnWire(up, down, req[r]) => OnWire(up, down', req[r])
      BY <1>1, <1>2, WireKeeps
  <2>3. reader' \in Live
      BY <1>1 DEF Live
  <2> QED
      BY <2>1, <2>2, <2>3, Zenon
<1>8. AppInv'
    BY <1>1 DEF IInv, AppInv
<1>9. RoutedInv'
  <2>1. ASSUME NEW n PROVE WillSubscribe(n) => WillSubscribe(n)'
      BY <1>1 DEF WillSubscribe
  <2>2. /\ CanSend' = CanSend /\ running' = running /\ handlers' = handlers
        /\ up' = up /\ routed' = routed
      BY <1>1 DEF CanSend
  <2> QED
      BY <2>1, <2>2 DEF IInv, RoutedInv
<1> QED
    BY <1>3, <1>4, <1>5, <1>6, <1>7, <1>8, <1>9 DEF IInv

\* The dead connection is closed; what waited on it still has fail_pending to come.
LEMMA TeardownIInv == ASSUME IInv, Teardown("teardown", "fail") PROVE IInv'
<1>1. /\ reader = "teardown" /\ reader' = "fail" /\ fd' = 0 /\ broken' = TRUE
      /\ up' = <<>> /\ down' = <<>> /\ routed' = {}
      /\ UNCHANGED <<handlers, pending, ready, caller, req, sentOn, conn>>
      /\ UNCHANGED <<running, app, todo, calls, breaks>>
    BY DEF Teardown, promise, request
<1>2. up' \in Seq(Frames) /\ down' \in Seq(1 .. MaxCalls)
    BY <1>1
<1>3. TypeOK'
    BY <1>1, <1>2 DEF IInv, TypeOK
<1>4. ThreadInv'
    BY <1>1 DEF IInv, ThreadInv
<1>5. calls \in Nat /\ calls >= calls
    BY NodeAssumption DEF IInv, TypeOK
<1>6. reader' \in Live
    BY <1>1 DEF Live
<1>7. IdInv' /\ Waits' /\ Owned'
    BY <1>1, <1>5, <1>6, QuietStep, Zenon
<1>8. AppInv' /\ RoutedInv'
    BY <1>1 DEF IInv, AppInv, RoutedInv, CanSend
<1> QED
    BY <1>3, <1>4, <1>7, <1>8 DEF IInv

\* fail_pending answers everything that is pending.
LEMMA FailPendingIInv == ASSUME IInv, FailPending("fail", "connect") PROVE IInv'
<1>1. /\ reader = "fail" /\ reader' = "connect" /\ pending' = {} /\ ready' = ready \cup pending
      /\ UNCHANGED <<handlers, caller, req, sentOn, conn, broken, up, down, routed>>
      /\ UNCHANGED <<fd, running, app, todo, calls, breaks>>
    BY DEF FailPending, request, wire
<1>2. TypeOK'
    BY <1>1 DEF IInv, TypeOK
<1>3. ThreadInv'
    BY <1>1 DEF IInv, ThreadInv
<1>4. IdInv'
  <2>1. /\ pending' \subseteq 1 .. calls /\ ready' \subseteq 1 .. calls
        /\ pending' \cap ready' = {}
      BY <1>1 DEF IInv, IdInv
  <2> QED
      BY <1>1, <2>1, Zenon DEF IInv, IdInv
<1>5. Waits' /\ Owned'
    BY <1>1 DEF Waits, Owned
<1>6. AppInv'
    BY <1>1 DEF IInv, AppInv
<1>7. RoutedInv'
    BY <1>1 DEF IInv, ThreadInv, RoutedInv, CanSend
<1> QED
    BY <1>2, <1>3, <1>4, <1>5, <1>6, <1>7 DEF IInv

\* reconnect_backoff: the new connection is not installed yet, nothing is pending.
LEMMA ReconnectIInv == ASSUME IInv, Reconnect PROVE IInv'
<1>1. /\ reader = "connect" /\ running /\ reader' = "install"
      /\ conn < MaxConns /\ conn' = conn + 1 /\ broken' = FALSE
      /\ up' = <<>> /\ down' = <<>> /\ routed' = {}
      /\ UNCHANGED <<handlers, pending, ready, caller, req, sentOn>>
      /\ UNCHANGED <<fd, running, app, todo, calls, breaks>>
    BY DEF Reconnect, Dial, promise, request
<1>2. /\ up' \in Seq(Frames) /\ down' \in Seq(1 .. MaxCalls)
      /\ conn' \in 0 .. MaxConns /\ conn' > 0 /\ fd' = 0
    BY <1>1, NodeAssumption DEF IInv, TypeOK, ThreadInv
<1>3. TypeOK'
    BY <1>1, <1>2 DEF IInv, TypeOK
<1>4. ThreadInv'
    BY <1>1, <1>2 DEF IInv, ThreadInv
<1>5. IdInv' /\ Owned'
    BY <1>1, Zenon DEF IInv, IdInv, Owned
<1>6. Waits'
    BY <1>1 DEF IInv, Waits, Live
<1>7. AppInv'
    BY <1>1 DEF IInv, AppInv
<1>8. RoutedInv'
    BY <1>2 DEF RoutedInv, CanSend
<1> QED
    BY <1>3, <1>4, <1>5, <1>6, <1>7, <1>8 DEF IInv

\* The new connection is installed: every name will be sent again.
LEMMA InstallIInv == ASSUME IInv, Install PROVE IInv'
<1>1. /\ reader = "install" /\ reader' = "copy" /\ fd' = conn
      /\ UNCHANGED <<handlers, pending, ready, caller, req, sentOn, conn, broken, up, down>>
      /\ UNCHANGED <<routed, running, app, todo, calls, breaks>>
    BY DEF Install, promise, request, wire
<1>2. TypeOK'
    BY <1>1 DEF IInv, TypeOK
<1>3. ThreadInv'
    BY <1>1 DEF IInv, ThreadInv
<1>4. IdInv' /\ Owned'
    BY <1>1, Zenon DEF IInv, IdInv, Owned
<1>5. Waits'
    BY <1>1 DEF IInv, Waits, Live
<1>6. AppInv'
    BY <1>1 DEF IInv, AppInv
<1>7. RoutedInv'
    BY <1>1 DEF RoutedInv, WillSubscribe
<1> QED
    BY <1>2, <1>3, <1>4, <1>5, <1>6, <1>7 DEF IInv

-----------------------------------------------------------------------------
(* Requests                                                                *)

\* register_pending: the id is new.
LEMMA RegisterIInv == ASSUME IInv, NEW r \in Callers, Register(r) PROVE IInv'
<1>1. /\ caller[r] = "idle" /\ conn > 0 /\ app \notin {"closing", "join", "closed"}
      /\ calls < MaxCalls /\ calls' = calls + 1
      /\ caller' = [caller EXCEPT ![r] = "send"] /\ req' = [req EXCEPT ![r] = calls']
      /\ pending' = pending \cup {calls'}
      /\ UNCHANGED <<handlers, ready, sentOn, conn, broken, up, down, routed>>
      /\ UNCHANGED <<fd, running, app, reader, todo, breaks>>
    BY DEF Register, Call, wire
<1>2. calls \in Nat /\ MaxCalls \in Nat /\ calls' \in 1 .. MaxCalls /\ calls' = calls + 1
    BY <1>1, NodeAssumption DEF IInv, TypeOK
<1>3. /\ caller' \in [Callers -> {"idle", "send", "wait", "late"}]
      /\ caller'[r] = "send" /\ \A s \in Callers \ {r} : caller'[s] = caller[s]
    BY <1>1 DEF IInv, TypeOK
<1>4. /\ req' \in [Callers -> 0 .. MaxCalls]
      /\ req'[r] = calls' /\ \A s \in Callers \ {r} : req'[s] = req[s]
  <2>1. req \in [Callers -> 0 .. MaxCalls] /\ calls' \in 0 .. MaxCalls
      BY <1>2 DEF IInv, TypeOK
  <2> QED
      BY <1>1, <2>1
<1>5. TypeOK'
    BY <1>1, <1>2, <1>3, <1>4 DEF IInv, TypeOK
<1>6. conn > 0 /\ running /\ conn # 0
    BY <1>1, NodeAssumption DEF IInv, ThreadInv, TypeOK
<1>7. ThreadInv'
    BY <1>1, <1>6 DEF IInv, ThreadInv
<1>8. /\ \A s \in Callers : IF caller[s] = "idle" THEN req[s] = 0 ELSE req[s] \in 1 .. calls
      /\ \A s, t \in Callers : s # t /\ caller[s] # "idle" => req[s] # req[t]
      /\ pending \subseteq 1 .. calls /\ ready \subseteq 1 .. calls
      /\ pending \cap ready = {}
    BY DEF IInv, IdInv
<1>9. /\ 1 .. calls \subseteq 1 .. calls' /\ calls' \notin 1 .. calls /\ calls' # 0
      /\ calls' \in 1 .. calls'
    BY <1>2
<1>10. \A s \in Callers : req[s] # calls'
    BY <1>8, <1>9, Zenon
<1>11. IdInv'
  <2>1. \A s \in Callers : IF caller'[s] = "idle" THEN req'[s] = 0 ELSE req'[s] \in 1 .. calls'
      BY <1>3, <1>4, <1>8, <1>9
  <2>2. \A s, t \in Callers : s # t /\ caller'[s] # "idle" => req'[s] # req'[t]
      BY <1>3, <1>4, <1>8, <1>10
  <2>3. /\ pending' \subseteq 1 .. calls' /\ ready' \subseteq 1 .. calls'
        /\ pending' \cap ready' = {}
      BY <1>1, <1>8, <1>9
  <2> QED
      BY <2>1, <2>2, <2>3 DEF IdInv
<1>12. Owned'
  <2> SUFFICES ASSUME NEW x \in pending'
               PROVE  \E s \in Callers : caller'[s] # "idle" /\ req'[s] = x
      BY DEF Owned
  <2>1. CASE x = calls'
      BY <1>3, <1>4, <2>1
  <2>2. CASE x \in pending
    <3>1. PICK s \in Callers : caller[s] # "idle" /\ req[s] = x
        BY <2>2 DEF IInv, Owned
    <3> QED
        BY <1>1, <1>3, <1>4, <3>1
  <2> QED
      BY <1>1, <2>1, <2>2
<1>13. Waits'
  <2> SUFFICES ASSUME NEW s \in Callers, caller'[s] = "wait", req'[s] \in pending'
               PROVE  /\ sentOn[s] = conn /\ conn > 0 /\ reader \in Live
                      /\ broken \/ OnWire(up, down, req'[s])
      BY <1>1, Zenon DEF Waits
  <2>1. s # r /\ caller[s] = "wait" /\ req'[s] = req[s] /\ req[s] \in pending
      BY <1>1, <1>3, <1>4, <1>10
  <2> QED
      BY <2>1, Zenon DEF IInv, Waits
<1>14. AppInv'
    BY <1>1 DEF IInv, AppInv
<1>15. RoutedInv'
  <2>1. ASSUME NEW n PROVE WillSubscribe(n) => WillSubscribe(n)'
      BY <1>1 DEF WillSubscribe
  <2>2. /\ CanSend' = CanSend /\ running' = running /\ handlers' = handlers
        /\ up' = up /\ routed' = routed
      BY <1>1 DEF CanSend
  <2> QED
      BY <2>1, <2>2 DEF IInv, RoutedInv
<1> QED
    BY <1>5, <1>7, <1>11, <1>12, <1>13, <1>14, <1>15 DEF IInv

\* The send: a request that went out is on the connection that the reader has,
\* and one that did not answers itself.
LEMMA SendRequestIInv == ASSUME IInv, NEW r \in Callers, SendRequest(r) PROVE IInv'
<1> DEFINE f == [kind |-> "REQUEST", id |-> req[r]]
<1>1. /\ caller[r] = "send" /\ Send(f)
      /\ sentOn' = [sentOn EXCEPT ![r] = IF CanSend THEN fd ELSE 0]
      /\ IF CanSend THEN UNCHANGED <<pending, ready>>
         ELSE pending' = pending \ {req[r]} /\ ready' = ready \cup ({req[r]} \cap pending)
      /\ caller' = [caller EXCEPT ![r] = "wait"]
      /\ UNCHANGED <<handlers, req, fd, running, app, reader, todo, calls, breaks>>
    BY DEF SendRequest, Fulfill, promise
<1>2. /\ \A s \in Callers : IF caller[s] = "idle" THEN req[s] = 0 ELSE req[s] \in 1 .. calls
      /\ \A s, t \in Callers : s # t /\ caller[s] # "idle" => req[s] # req[t]
      /\ pending \subseteq 1 .. calls /\ ready \subseteq 1 .. calls
      /\ pending \cap ready = {}
    BY DEF IInv, IdInv
<1>3. /\ req[r] \in 1 .. MaxCalls /\ caller[r] # "idle" /\ calls \in Nat /\ MaxCalls \in Nat
      /\ conn \in 0 .. MaxConns /\ MaxConns \in Nat /\ fd \in {0, conn}
    BY <1>1, <1>2, NodeAssumption DEF IInv, TypeOK
<1>4. f \in Frames /\ f.kind = "REQUEST" /\ f = [kind |-> "REQUEST", id |-> req[r]]
    BY <1>3 DEF Frames
<1> HIDE DEF f
<1>5. /\ conn' = conn /\ broken' = broken /\ down' = down /\ routed' = routed
      /\ up' = IF CanSend THEN Append(up, f) ELSE up
      /\ up' \in Seq(Frames)
      /\ \A x : OnWire(up, down, x) => OnWire(up', down', x)
    BY <1>1, <1>4, SendStep
<1>6. running /\ reader \notin {"exit", "none"} /\ conn # 0
    BY <1>3 DEF IInv, ThreadInv
<1>7. CanSend => fd = conn /\ conn > 0 /\ reader \in Live
    BY <1>3, <1>6 DEF CanSend, IInv, TypeOK, ThreadInv, Live
<1>8. /\ caller' \in [Callers -> {"idle", "send", "wait", "late"}]
      /\ caller'[r] = "wait" /\ \A s \in Callers \ {r} : caller'[s] = caller[s]
    BY <1>1 DEF IInv, TypeOK
<1>9. /\ sentOn' \in [Callers -> 0 .. MaxConns]
      /\ sentOn'[r] = IF CanSend THEN fd ELSE 0
      /\ \A s \in Callers \ {r} : sentOn'[s] = sentOn[s]
  <2>1. sentOn \in [Callers -> 0 .. MaxConns] /\ 0 \in 0 .. MaxConns
      BY <1>3 DEF IInv, TypeOK
  <2>2. (IF CanSend THEN fd ELSE 0) \in 0 .. MaxConns
      BY <1>3, <2>1
  <2> QED
      BY <1>1, <2>1, <2>2
<1>10. /\ pending' \subseteq pending /\ ready' \subseteq ready \cup pending
       /\ pending' \cap ready' = {}
    BY <1>1, <1>2
<1>11. TypeOK'
    BY <1>1, <1>5, <1>8, <1>9, <1>10 DEF IInv, TypeOK
<1>12. ThreadInv'
    BY <1>1, <1>5, <1>6 DEF IInv, ThreadInv
<1>13. \A s \in Callers : caller'[s] = "idle" <=> caller[s] = "idle"
    BY <1>3, <1>8
<1>14. IdInv'
  <2>1. pending' \subseteq 1 .. calls /\ ready' \subseteq 1 .. calls
      BY <1>2, <1>10
  <2> QED
      BY <1>1, <1>2, <1>10, <1>13, <2>1, Zenon DEF IdInv
<1>15. Owned'
    BY <1>1, <1>10, <1>13, Zenon DEF IInv, Owned
<1>16. Waits'
  <2> SUFFICES ASSUME NEW s \in Callers, caller'[s] = "wait", req[s] \in pending'
               PROVE  /\ sentOn'[s] = conn /\ conn > 0 /\ reader \in Live
                      /\ broken \/ OnWire(up', down', req[s])
      BY <1>1, <1>5, Zenon DEF Waits
  <2>1. CASE s = r
    <3>1. CanSend
        BY <1>1, <2>1
    <3>2. OnWire(Append(up, f), down, req[r])
        BY <1>4, WireKeeps DEF IInv, TypeOK
    <3> QED
        BY <1>5, <1>7, <1>9, <2>1, <3>1, <3>2
  <2>2. CASE s # r
    <3>1. caller[s] = "wait" /\ req[s] \in pending /\ sentOn'[s] = sentOn[s]
        BY <1>8, <1>9, <1>10, <2>2
    <3> QED
        BY <1>5, <3>1, Zenon DEF IInv, Waits
  <2> QED
      BY <2>1, <2>2
<1>17. AppInv'
    BY <1>1 DEF IInv, AppInv
<1>18. RoutedInv'
  <2> SUFFICES ASSUME CanSend, running, NEW n \in handlers
               PROVE  Subscribed(up', routed', n) \/ WillSubscribe(n)'
      BY <1>1, <1>5, Zenon DEF RoutedInv, CanSend
  <2>1. Subscribed(up, routed, n) \/ WillSubscribe(n)
      BY DEF IInv, RoutedInv
  <2>2. Subscribed(up, routed, n) => Subscribed(up', routed', n)
      BY <1>4, <1>5, AppendWord DEF IInv, TypeOK
  <2>3. WillSubscribe(n) => WillSubscribe(n)'
      BY <1>1 DEF WillSubscribe
  <2> QED
      BY <2>1, <2>2, <2>3
<1> QED
    BY <1>11, <1>12, <1>14, <1>15, <1>16, <1>17, <1>18 DEF IInv

\* A request returns, answered or given up: it takes its own promise with it.
LEMMA ReturnIInv ==
  ASSUME IInv, NEW r \in Callers, caller[r] \in {"wait", "late"}, Return(r),
         UNCHANGED <<handlers, wire, fd, running, app, reader, todo, calls, breaks>>,
         pending' = pending \ {req[r]}, ready' = ready \ {req[r]}
  PROVE  IInv'
<1>1. /\ caller' = [caller EXCEPT ![r] = "idle"] /\ req' = [req EXCEPT ![r] = 0]
      /\ sentOn' = [sentOn EXCEPT ![r] = 0]
      /\ UNCHANGED <<handlers, conn, broken, up, down, routed>>
      /\ UNCHANGED <<fd, running, app, reader, todo, calls, breaks>>
    BY DEF Return, wire
<1>2. /\ \A s \in Callers : IF caller[s] = "idle" THEN req[s] = 0 ELSE req[s] \in 1 .. calls
      /\ \A s, t \in Callers : s # t /\ caller[s] # "idle" => req[s] # req[t]
      /\ pending \subseteq 1 .. calls /\ ready \subseteq 1 .. calls
      /\ pending \cap ready = {}
    BY DEF IInv, IdInv
<1>3. /\ caller' \in [Callers -> {"idle", "send", "wait", "late"}]
      /\ caller'[r] = "idle" /\ \A s \in Callers \ {r} : caller'[s] = caller[s]
    BY <1>1 DEF IInv, TypeOK
<1>4. 0 \in 0 .. MaxCalls /\ 0 \in 0 .. MaxConns /\ calls \in Nat
    BY NodeAssumption DEF IInv, TypeOK
<1>5. /\ req' \in [Callers -> 0 .. MaxCalls] /\ sentOn' \in [Callers -> 0 .. MaxConns]
      /\ req'[r] = 0 /\ \A s \in Callers \ {r} : req'[s] = req[s] /\ sentOn'[s] = sentOn[s]
    BY <1>1, <1>4 DEF IInv, TypeOK
<1>6. TypeOK'
    BY <1>1, <1>3, <1>5 DEF IInv, TypeOK
<1>7. ThreadInv'
  <2>1. \A s \in Callers : caller[s] = "idle" => caller'[s] = "idle"
      BY <1>3
  <2> QED
      BY <1>1, <2>1 DEF IInv, ThreadInv
<1>8. IdInv'
  <2>1. \A s \in Callers : IF caller'[s] = "idle" THEN req'[s] = 0 ELSE req'[s] \in 1 .. calls
      BY <1>2, <1>3, <1>5
  <2>2. \A s \in Callers : caller[s] # "idle" => req[s] # 0
      BY <1>2, <1>4
  <2>3. \A s, t \in Callers : s # t /\ caller'[s] # "idle" => req'[s] # req'[t]
      BY <1>2, <1>3, <1>5, <2>2
  <2>4. /\ pending' \subseteq 1 .. calls /\ ready' \subseteq 1 .. calls
        /\ pending' \cap ready' = {}
      BY <1>2
  <2> QED
      BY <1>1, <2>1, <2>3, <2>4 DEF IdInv
<1>9. Owned'
  <2> SUFFICES ASSUME NEW x \in pending, x # req[r]
               PROVE  \E s \in Callers : caller'[s] # "idle" /\ req'[s] = x
      BY DEF Owned
  <2>1. PICK s \in Callers : caller[s] # "idle" /\ req[s] = x
      BY DEF IInv, Owned
  <2> QED
      BY <1>3, <1>5, <2>1
<1>10. Waits'
  <2> SUFFICES ASSUME NEW s \in Callers, caller'[s] = "wait", req'[s] \in pending'
               PROVE  /\ sentOn'[s] = conn /\ conn > 0 /\ reader \in Live
                      /\ broken \/ OnWire(up, down, req'[s])
      BY <1>1, Zenon DEF Waits
  <2>1. s # r /\ caller[s] = "wait" /\ req'[s] = req[s] /\ req[s] \in pending /\ sentOn'[s] = sentOn[s]
      BY <1>3, <1>5
  <2> QED
      BY <2>1, Zenon DEF IInv, Waits
<1>11. AppInv'
    BY <1>1 DEF IInv, AppInv
<1>12. RoutedInv'
  <2>1. ASSUME NEW n PROVE WillSubscribe(n) => WillSubscribe(n)'
      BY <1>1 DEF WillSubscribe
  <2>2. /\ CanSend' = CanSend /\ running' = running /\ handlers' = handlers
        /\ up' = up /\ routed' = routed
      BY <1>1 DEF CanSend
  <2> QED
      BY <2>1, <2>2 DEF IInv, RoutedInv
<1> QED
    BY <1>6, <1>7, <1>8, <1>9, <1>10, <1>11, <1>12 DEF IInv

\* wait_for runs out: the request is still registered.
LEMMA TimeoutIInv == ASSUME IInv, NEW r \in Callers, Timeout(r) PROVE IInv'
<1>1. /\ caller[r] = "wait" /\ caller' = [caller EXCEPT ![r] = "late"]
      /\ UNCHANGED <<handlers, pending, ready, req, sentOn, conn, broken, up, down, routed>>
      /\ UNCHANGED <<fd, running, app, reader, todo, calls, breaks>>
    BY DEF Timeout, promise, wire
<1>2. /\ caller' \in [Callers -> {"idle", "send", "wait", "late"}]
      /\ \A s \in Callers : /\ caller'[s] = "idle" <=> caller[s] = "idle"
                            /\ caller'[s] = "wait" => caller[s] = "wait"
    BY <1>1 DEF IInv, TypeOK
<1>3. TypeOK'
    BY <1>1, <1>2 DEF IInv, TypeOK
<1>4. ThreadInv'
    BY <1>1, <1>2 DEF IInv, ThreadInv
<1>5. IdInv' /\ Owned' /\ Waits'
  <2>1. IdInv'
      BY <1>1, <1>2, Zenon DEF IInv, IdInv
  <2>2. Owned'
      BY <1>1, <1>2, Zenon DEF IInv, Owned
  <2>3. Waits'
      BY <1>1, <1>2, Zenon DEF IInv, Waits
  <2> QED
      BY <2>1, <2>2, <2>3
<1>6. AppInv'
    BY <1>1 DEF IInv, AppInv
<1>7. RoutedInv'
  <2>1. ASSUME NEW n PROVE WillSubscribe(n) => WillSubscribe(n)'
      BY <1>1 DEF WillSubscribe
  <2>2. /\ CanSend' = CanSend /\ running' = running /\ handlers' = handlers
        /\ up' = up /\ routed' = routed
      BY <1>1 DEF CanSend
  <2> QED
      BY <2>1, <2>2 DEF IInv, RoutedInv
<1> QED
    BY <1>3, <1>4, <1>5, <1>6, <1>7 DEF IInv

-----------------------------------------------------------------------------
(* The daemon                                                              *)

\* The daemon takes the next frame.
LEMMA ServeIInv == ASSUME IInv, Serve PROVE IInv'
<1> DEFINE f == Head(up)
<1>1. /\ up # <<>> /\ ~broken /\ up' = Tail(up)
      /\ routed' = Obey(f, routed)
      /\ down' = IF f.kind = "REQUEST" THEN Append(down, f.id) ELSE down
      /\ UNCHANGED <<handlers, pending, ready, caller, req, sentOn, conn, broken>>
      /\ UNCHANGED <<fd, running, app, reader, todo, calls, breaks>>
    BY DEF Serve, Obey, promise, request
<1>2. up \in Seq(Frames) /\ down \in Seq(1 .. MaxCalls) /\ routed \subseteq Names
    BY DEF IInv, TypeOK
<1>3. f \in Frames /\ up' \in Seq(Frames)
    BY <1>1, <1>2
<1> HIDE DEF f
<1>4. /\ f.kind = "REQUEST" => f.id \in 1 .. MaxCalls
      /\ f.kind # "REQUEST" => f.name \in Names
    BY <1>3 DEF Frames
<1>5. down' \in Seq(1 .. MaxCalls) /\ routed' \subseteq Names
  <2>1. down' \in Seq(1 .. MaxCalls)
    <3>1. CASE f.kind = "REQUEST"
      <4>1. down' = Append(down, f.id) /\ f.id \in 1 .. MaxCalls
          BY <1>1, <1>4, <3>1
      <4> QED
          BY <1>2, <4>1
    <3>2. CASE f.kind # "REQUEST"
        BY <1>1, <1>2, <3>2
    <3> QED
        BY <3>1, <3>2
  <2>2. routed' \subseteq Names
      BY <1>1, <1>2, <1>4 DEF Obey
  <2> QED
      BY <2>1, <2>2
<1>6. TypeOK'
    BY <1>1, <1>3, <1>5 DEF IInv, TypeOK
<1>7. ThreadInv'
    BY <1>1 DEF IInv, ThreadInv
<1>8. calls \in Nat /\ calls >= calls
    BY NodeAssumption DEF IInv, TypeOK
<1>9. \A x : OnWire(up, down, x) => OnWire(up', down', x)
    BY <1>1, <1>2, WireKeeps, Zenon DEF f
<1>10. IdInv' /\ Waits' /\ Owned'
    BY <1>1, <1>8, <1>9, QuietStep, Zenon
<1>11. AppInv'
    BY <1>1 DEF IInv, AppInv
<1>12. RoutedInv'
  <2>1. ASSUME NEW n PROVE WillSubscribe(n) => WillSubscribe(n)'
      BY <1>1 DEF WillSubscribe
  <2>2. CanSend' = CanSend /\ running' = running /\ handlers' = handlers
      BY <1>1 DEF CanSend
  <2>3. ASSUME NEW n, Subscribed(up, routed, n) PROVE Subscribed(up', routed', n)
      BY <1>1, <1>2, <2>3, ServeWord DEF f
  <2> QED
      BY <2>1, <2>2, <2>3 DEF IInv, RoutedInv
<1> QED
    BY <1>6, <1>7, <1>10, <1>11, <1>12 DEF IInv

\* The daemon hangs up.
LEMMA BreakIInv == ASSUME IInv, Break PROVE IInv'
<1>1. /\ breaks < MaxBreaks /\ breaks' = breaks + 1
      /\ broken' = TRUE /\ up' = <<>> /\ routed' = {}
      /\ UNCHANGED <<handlers, pending, ready, caller, req, sentOn, conn, down>>
      /\ UNCHANGED <<fd, running, app, reader, todo, calls>>
    BY DEF Break, Shut, promise, request
<1>2. up' \in Seq(Frames) /\ breaks' \in 0 .. MaxBreaks /\ calls \in Nat /\ calls >= calls
    BY <1>1, NodeAssumption DEF IInv, TypeOK
<1>3. TypeOK'
    BY <1>1, <1>2 DEF IInv, TypeOK
<1>4. ThreadInv'
    BY <1>1 DEF IInv, ThreadInv
<1>5. IdInv' /\ Waits' /\ Owned'
    BY <1>1, <1>2, QuietStep, Zenon
<1>6. AppInv' /\ RoutedInv'
    BY <1>1 DEF IInv, AppInv, RoutedInv, CanSend
<1> QED
    BY <1>3, <1>4, <1>5, <1>6 DEF IInv

-----------------------------------------------------------------------------
(* The invariant                                                           *)

\* A node starts without a connection.
LEMMA InitIInv == Init => IInv
<1> SUFFICES ASSUME Init PROVE IInv
    OBVIOUS
<1>1. TypeOK
  <2>1. 0 \in 0 .. MaxCalls /\ 0 \in 0 .. MaxConns /\ 0 \in 0 .. MaxBreaks
      BY NodeAssumption
  <2>2. up \in Seq(Frames) /\ down \in Seq(1 .. MaxCalls)
      BY DEF Init
  <2>3. /\ req \in [Callers -> 0 .. MaxCalls] /\ sentOn \in [Callers -> 0 .. MaxConns]
        /\ caller \in [Callers -> {"idle", "send", "wait", "late"}]
        /\ todo \in [Threads -> SUBSET Names]
      BY <2>1 DEF Init
  <2> QED
      BY <2>1, <2>2, <2>3 DEF Init, TypeOK
<1>2. ThreadInv /\ AppInv /\ RoutedInv
    BY DEF Init, ThreadInv, AppInv, RoutedInv
<1>3. IdInv
    BY DEF Init, IdInv
<1>4. Waits /\ Owned
    BY DEF Init, Waits, Owned
<1> QED
    BY <1>1, <1>2, <1>3, <1>4 DEF IInv

\* Every step keeps the invariant.
LEMMA NextIInv == IInv /\ [Next]_vars => IInv'
<1> SUFFICES ASSUME IInv, [Next]_vars PROVE IInv'
    OBVIOUS
<1>1. CASE AppNext
  <2>1. CASE AppResubscribe
    <3>1. CASE app = "copy" /\ app' = "resend" /\ CopyNames("app") /\ UNCHANGED reader
        BY <3>1, CopyIInv DEF Threads
    <3>2. CASE app = "resend" /\ SendNext("app")
        BY <3>2, SendNextIInv DEF Threads
    <3>3. CASE /\ app = "resend" /\ todo["app"] = {} /\ app' = "idle"
               /\ UNCHANGED <<handlers, promise, request, wire, fd, running, reader, todo, calls, breaks>>
      <4>1. UNCHANGED <<handlers, promise, request, wire, fd, running, todo, calls, breaks>>
          BY <3>3
      <4> QED
          BY <3>3, <4>1, SentAllIInv
    <3> QED
        BY <2>1, <3>1, <3>2, <3>3 DEF AppResubscribe
  <2> QED
      BY <1>1, <2>1, ConnectIInv, SendUnsubscribeIInv, CloseIInv, JoinIInv, Zenon DEF AppNext
<1>2. CASE ReaderNext
  <2>1. CASE ReaderResubscribe
    <3>1. CASE reader = "copy" /\ reader' = "resend" /\ CopyNames("reader") /\ UNCHANGED app
        BY <3>1, CopyIInv DEF Threads
    <3>2. CASE reader = "resend" /\ SendNext("reader")
        BY <3>2, SendNextIInv DEF Threads
    <3>3. CASE /\ reader = "resend" /\ todo["reader"] = {}
               /\ reader' = IF running THEN "check" ELSE "exit"
               /\ UNCHANGED <<handlers, promise, request, wire, fd, running, app, todo, calls, breaks>>
      <4>1. UNCHANGED <<handlers, promise, request, wire, fd, running, todo, calls, breaks>>
          BY <3>3
      <4> QED
          BY <3>3, <4>1, SentAllIInv
    <3> QED
        BY <2>1, <3>1, <3>2, <3>3 DEF ReaderResubscribe
  <2>2. CASE Check \/ ReadEnd \/ GiveUp
      BY <2>2, ReaderMoves DEF Check, ReadEnd, GiveUp
  <2>3. CASE LinkDown
      BY <2>3, TeardownIInv, FailPendingIInv DEF LinkDown
  <2> QED
      BY <1>2, <2>1, <2>2, <2>3, ReadFrameIInv, InstallIInv, Zenon DEF ReaderNext
<1>3. CASE \E n \in Names : Subscribe(n) \/ Unsubscribe(n)
    BY <1>3, SubscribeIInv, UnsubscribeIInv, Zenon
<1>4. ASSUME NEW r \in Callers, Register(r) \/ CallerNext(r) \/ Timeout(r) PROVE IInv'
  <2>1. CASE Answered(r)
    <3>1. /\ caller[r] \in {"wait", "late"} /\ Return(r) /\ req[r] \in ready
          /\ UNCHANGED <<handlers, wire, fd, running, app, reader, todo, calls, breaks>>
          /\ ready' = ready \ {req[r]} /\ pending' = pending
        BY <2>1 DEF Answered
    <3>2. pending' = pending \ {req[r]}
        BY <3>1 DEF IInv, IdInv
    <3> QED
        BY <3>1, <3>2, ReturnIInv
  <2>2. CASE Abandon(r)
      BY <2>2, ReturnIInv DEF Abandon
  <2> QED
      BY <1>4, <2>1, <2>2, RegisterIInv, SendRequestIInv, TimeoutIInv, Zenon DEF CallerNext
<1>5. CASE UNCHANGED vars
  <2>1. /\ UNCHANGED <<handlers, pending, ready, caller, req, sentOn, conn, broken, up, down>>
        /\ UNCHANGED <<routed, fd, running, app, reader, todo, calls, breaks>>
      BY <1>5 DEF vars, promise, request, wire
  <2>2. TypeOK' /\ ThreadInv' /\ AppInv'
      BY <2>1 DEF IInv, TypeOK, ThreadInv, AppInv
  <2>3. IdInv' /\ Waits' /\ Owned'
      BY <2>1 DEF IInv, IdInv, Waits, Owned
  <2>4. RoutedInv'
    <3>1. ASSUME NEW n PROVE WillSubscribe(n) => WillSubscribe(n)'
        BY <2>1 DEF WillSubscribe
    <3>2. /\ CanSend' = CanSend /\ running' = running /\ handlers' = handlers
          /\ up' = up /\ routed' = routed
        BY <2>1 DEF CanSend
    <3> QED
        BY <3>1, <3>2 DEF IInv, RoutedInv
  <2> QED
      BY <2>2, <2>3, <2>4 DEF IInv
<1> QED
    BY <1>1, <1>2, <1>3, <1>4, <1>5, ReconnectIInv, ServeIInv, BreakIInv, Zenon DEF Next

\* The invariant holds throughout.
LEMMA SpecIInv == Spec => []IInv
    BY InitIInv, NextIInv, PTL DEF Spec

-----------------------------------------------------------------------------
(* The theorems                                                            *)

\* The node's state keeps its types: in particular fd_ never leads to an
\* earlier connection (node.hpp:614, :646).
THEOREM NodeTypeCorrect == Spec => []TypeOK
<1>1. IInv => TypeOK
    BY DEF IInv
<1> QED
    BY <1>1, SpecIInv, PTL

\* No request waits for an answer that cannot come (node.hpp:488): whatever the
\* order in which the connection breaks, the reader tears it down and answers
\* everything, other callers register and send, and timeouts run out.
THEOREM RequestsAreNotStranded == Spec => []NoStrandedRequest
    BY IInvSuffices, SpecIInv, PTL

\* No handler goes deaf (node.hpp:733), however subscribe and unsubscribe
\* interleave with the reader's reconnects and resubscribes.
THEOREM HandlersStayRouted == Spec => []HandlersRouted
    BY IInvSuffices, SpecIInv, PTL
=============================================================================
