---------------------------- MODULE NodeSession ----------------------------
(***************************************************************************)
(* A node's session with its daemon (src/include/node.hpp): the thread that *)
(* owns the node connects, subscribes, unsubscribes and destroys it; other  *)
(* threads make requests; the reader thread reads, tears a dead connection  *)
(* down, reconnects and resubscribes.                                       *)
(*                                                                         *)
(* A node has one connection at a time, known by its number; fd_ leads to  *)
(* it or to none (0).  A frame sent on a broken connection is lost.  A     *)
(* step is what a thread does under one mutex.  The kv cache that a lost   *)
(* connection clears is KvStore's, the handlers are PubSub's and           *)
(* ThreadPool's; the backoff delays only take time.                        *)
(***************************************************************************)
EXTENDS Naturals, Sequences

CONSTANTS Names,       \* topics and patterns
          Callers,     \* threads that make requests
          MaxCalls,    \* bound: subscriptions and requests in a behaviour
          MaxConns,    \* bound: connections in a behaviour
          MaxBreaks    \* bound: connections the daemon loses

ASSUME NodeAssumption == MaxCalls \in Nat /\ MaxConns \in Nat /\ MaxBreaks \in Nat

VARIABLES
  handlers,    \* the names with an entry in subs_ or pattern_subs_
  fd,          \* fd_: a connection, 0 for -1
  running,     \* running_
  pending,     \* pending_: the ids of unanswered requests
  ready,       \* ids whose promise has a value
  \* threads
  app,         \* where the owning thread is
  reader,      \* where the reader thread is
  todo,        \* thread -> the names it is about to send
  caller,      \* caller -> where it is
  req,         \* caller -> its request's id
  \* the newest connection and the daemon behind it
  conn,        \* its number
  broken,
  up, down,    \* frames to the daemon, answers to the node
  routed,      \* the names the daemon routes to it
  \* history and bounds
  sentOn,      \* caller -> the connection that took its request
  calls, breaks

promise == <<pending, ready>>
request == <<caller, req, sentOn>>
wire    == <<conn, broken, up, down, routed>>
vars    == <<handlers, promise, request, wire, fd, running, app, reader, todo, calls, breaks>>

Threads == {"app", "reader"}
Frames  == [kind : {"SUBSCRIBE", "UNSUBSCRIBE"}, name : Names]
             \cup [kind : {"REQUEST"}, id : 1 .. MaxCalls]

Init ==
  /\ handlers = {} /\ pending = {} /\ ready = {}
  /\ fd = 0 /\ running = FALSE
  /\ app = "idle" /\ reader = "none" /\ todo = [t \in Threads |-> {}]
  /\ caller = [r \in Callers |-> "idle"]
  /\ req = [r \in Callers |-> 0] /\ sentOn = [r \in Callers |-> 0]
  /\ conn = 0 /\ broken = TRUE /\ up = <<>> /\ down = <<>> /\ routed = {}
  /\ calls = 0 /\ breaks = 0

-----------------------------------------------------------------------------
(* Sending and connections                                                 *)

\* send: false without a connection, or on one that broke.
CanSend == fd # 0 /\ ~broken
Send(f) == /\ up' = IF CanSend THEN Append(up, f) ELSE up
           /\ UNCHANGED <<conn, broken, down, routed>>

\* unix_connect: the daemon knows nothing of the new connection's node.
Dial == /\ conn < MaxConns
        /\ conn' = conn + 1 /\ broken' = FALSE
        /\ up' = <<>> /\ down' = <<>> /\ routed' = {}

\* The connection ends: what was under way to the daemon no longer matters,
\* what has reached the node can still be read.
Shut == broken' = TRUE /\ up' = <<>> /\ routed' = {} /\ UNCHANGED <<conn, down>>

-----------------------------------------------------------------------------
(* The owning thread                                                       *)

\* connect: fd_, running_, the reader thread; resubscribe follows.
Connect ==
  /\ app = "idle" /\ conn = 0
  /\ Dial
  /\ fd' = conn' /\ running' = TRUE
  /\ reader' = "check" /\ app' = "copy"
  /\ UNCHANGED <<handlers, promise, request, todo, calls, breaks>>

Call == calls < MaxCalls /\ calls' = calls + 1

\* subscribe, subscribe_pattern: the first handler of a name (a further one
\* changes nothing here) subscribes it, once subs_mu_ is released.
Subscribe(n) ==
  /\ app = "idle" /\ n \notin handlers /\ Call
  /\ handlers' = handlers \cup {n}
  /\ todo' = [todo EXCEPT !["app"] = {n}] /\ app' = "resend"
  /\ UNCHANGED <<promise, request, wire, fd, running, reader, breaks>>

\* unsubscribe, unsubscribe_pattern: nothing to do for a name without handlers.
Unsubscribe(n) ==
  /\ app = "idle" /\ n \in handlers /\ Call
  /\ handlers' = handlers \ {n}
  /\ todo' = [todo EXCEPT !["app"] = {n}] /\ app' = "unsubscribe"
  /\ UNCHANGED <<promise, request, wire, fd, running, reader, breaks>>

SendUnsubscribe ==
  /\ app = "unsubscribe" /\ app' = "idle"
  /\ \E n \in todo["app"] : Send([kind |-> "UNSUBSCRIBE", name |-> n])
  /\ todo' = [todo EXCEPT !["app"] = {}]
  /\ UNCHANGED <<handlers, promise, request, fd, running, reader, calls, breaks>>

\* ~Node, when nobody is in a call any more: clear running_, ...
ClearRunning ==
  /\ running' = FALSE
  /\ UNCHANGED <<handlers, promise, request, wire, fd, reader, todo, calls, breaks>>

\* ... wake a reader that waits in recv, ...
WakeReader ==
  /\ IF fd # 0 THEN Shut ELSE UNCHANGED wire
  /\ UNCHANGED <<handlers, promise, request, fd, running, reader, todo, calls, breaks>>

MayClose == app = "idle" /\ conn > 0 /\ \A r \in Callers : caller[r] = "idle"

\* Mutant: running_ is cleared only after the reader was woken.
CloseBug ==
  \/ MayClose /\ app' = "closing" /\ WakeReader
  \/ app = "closing" /\ app' = "join" /\ ClearRunning

Close ==
  \/ MayClose /\ app' = "closing" /\ ClearRunning
  \/ app = "closing" /\ app' = "join" /\ WakeReader

\* ... and join it.
Join ==
  /\ app = "join" /\ reader = "exit"
  /\ app' = "closed" /\ fd' = 0
  /\ IF fd # 0 THEN Shut ELSE UNCHANGED wire
  /\ UNCHANGED <<handlers, promise, request, running, reader, todo, calls, breaks>>

-----------------------------------------------------------------------------
(* resubscribe, on either thread: a copy under subs_mu_, then the sends    *)

CopyNames(t) ==
  /\ todo' = [todo EXCEPT ![t] = handlers]
  /\ UNCHANGED <<handlers, promise, request, wire, fd, running, calls, breaks>>

SendNext(t) ==
  /\ \E n \in todo[t] : /\ Send([kind |-> "SUBSCRIBE", name |-> n])
                        /\ todo' = [todo EXCEPT ![t] = @ \ {n}]
  /\ UNCHANGED <<handlers, promise, request, fd, running, app, reader, calls, breaks>>

AppResubscribe ==
  \/ app = "copy" /\ app' = "resend" /\ CopyNames("app") /\ UNCHANGED reader
  \/ app = "resend" /\ SendNext("app")
  \/ /\ app = "resend" /\ todo["app"] = {} /\ app' = "idle"
     /\ UNCHANGED <<handlers, promise, request, wire, fd, running, reader, todo, calls, breaks>>

\* On the reader thread the outer loop of run follows.
ReaderResubscribe ==
  \/ reader = "copy" /\ reader' = "resend" /\ CopyNames("reader") /\ UNCHANGED app
  \/ reader = "resend" /\ SendNext("reader")
  \/ /\ reader = "resend" /\ todo["reader"] = {}
     /\ reader' = IF running THEN "check" ELSE "exit"
     /\ UNCHANGED <<handlers, promise, request, wire, fd, running, app, todo, calls, breaks>>

-----------------------------------------------------------------------------
(* The reader thread: run and read_until_closed                            *)

Check ==
  /\ reader = "check" /\ reader' = IF running THEN "recv" ELSE "teardown"
  /\ UNCHANGED <<handlers, promise, request, wire, fd, running, app, todo, calls, breaks>>

\* fulfill: an id that is no longer pending is ignored.
Fulfill(id) == pending' = pending \ {id} /\ ready' = ready \cup ({id} \cap pending)

ReadFrame ==
  /\ reader = "recv" /\ down # <<>>
  /\ Fulfill(Head(down)) /\ down' = Tail(down) /\ reader' = "check"
  /\ UNCHANGED <<handlers, request, conn, broken, up, routed, fd, running, app, todo, calls, breaks>>

ReadEnd ==
  /\ reader = "recv" /\ down = <<>> /\ broken
  /\ reader' = "teardown"
  /\ UNCHANGED <<handlers, promise, request, wire, fd, running, app, todo, calls, breaks>>

\* Mutant: the descriptor is closed but fd_ keeps it.
TeardownBug(from, next) ==
  /\ reader = from /\ reader' = next
  /\ broken' = TRUE /\ up' = <<>> /\ down' = <<>> /\ routed' = {}
  /\ UNCHANGED <<handlers, promise, request, conn, fd, running, app, todo, calls, breaks>>

\* Under send_mu_: close fd_.
Teardown(from, next) ==
  /\ reader = from /\ reader' = next
  /\ fd' = 0 /\ broken' = TRUE /\ up' = <<>> /\ down' = <<>> /\ routed' = {}
  /\ UNCHANGED <<handlers, promise, request, conn, running, app, todo, calls, breaks>>

\* fail_pending.
FailPending(from, next) ==
  /\ reader = from /\ reader' = next
  /\ pending' = {} /\ ready' = ready \cup pending
  /\ UNCHANGED <<handlers, request, wire, fd, running, app, todo, calls, breaks>>

LinkDown == Teardown("teardown", "fail") \/ FailPending("fail", "connect")

\* reconnect_backoff until it succeeds or running_ is cleared; what fails in
\* between is tried again.
Reconnect ==
  /\ reader = "connect" /\ running
  /\ Dial /\ reader' = "install"
  /\ UNCHANGED <<handlers, promise, request, fd, running, app, todo, calls, breaks>>

GiveUp ==
  /\ reader = "connect" /\ ~running /\ reader' = "exit"
  /\ UNCHANGED <<handlers, promise, request, wire, fd, running, app, todo, calls, breaks>>

\* Mutant: the names are sent before fd_ is set, so none of them is.
InstallBug ==
  /\ reader = "install" /\ reader' = "check" /\ fd' = conn
  /\ UNCHANGED <<handlers, promise, request, wire, running, app, todo, calls, breaks>>

\* Under send_mu_: fd_ is the new connection; resubscribe follows.
Install ==
  /\ reader = "install" /\ reader' = "copy" /\ fd' = conn
  /\ UNCHANGED <<handlers, promise, request, wire, running, app, todo, calls, breaks>>

-----------------------------------------------------------------------------
(* request, by get, incr, setnx, sync and info                             *)

\* register_pending under a fresh id.
Register(r) ==
  /\ caller[r] = "idle" /\ conn > 0 /\ app \notin {"closing", "join", "closed"} /\ Call
  /\ caller' = [caller EXCEPT ![r] = "send"]
  /\ req' = [req EXCEPT ![r] = calls']
  /\ pending' = pending \cup {calls'}
  /\ UNCHANGED <<handlers, ready, sentOn, wire, fd, running, app, reader, todo, breaks>>

\* Mutant: whether the frame was written is ignored.
SendRequestBug(r) ==
  /\ caller[r] = "send"
  /\ Send([kind |-> "REQUEST", id |-> req[r]])
  /\ sentOn' = [sentOn EXCEPT ![r] = IF CanSend THEN fd ELSE 0]
  /\ caller' = [caller EXCEPT ![r] = "wait"]
  /\ UNCHANGED <<handlers, promise, req, fd, running, app, reader, todo, calls, breaks>>

\* The send; when it fails the request answers itself.
SendRequest(r) ==
  /\ caller[r] = "send"
  /\ Send([kind |-> "REQUEST", id |-> req[r]])
  /\ sentOn' = [sentOn EXCEPT ![r] = IF CanSend THEN fd ELSE 0]
  /\ IF CanSend THEN UNCHANGED promise ELSE Fulfill(req[r])
  /\ caller' = [caller EXCEPT ![r] = "wait"]
  /\ UNCHANGED <<handlers, req, fd, running, app, reader, todo, calls, breaks>>

Return(r) ==
  /\ caller' = [caller EXCEPT ![r] = "idle"]
  /\ req' = [req EXCEPT ![r] = 0] /\ sentOn' = [sentOn EXCEPT ![r] = 0]

Answered(r) ==
  /\ caller[r] = "wait" /\ req[r] \in ready
  /\ Return(r) /\ ready' = ready \ {req[r]}
  /\ UNCHANGED <<handlers, pending, wire, fd, running, app, reader, todo, calls, breaks>>

\* wait_for runs out.
Timeout(r) ==
  /\ caller[r] = "wait" /\ req[r] \notin ready
  /\ caller' = [caller EXCEPT ![r] = "late"]
  /\ UNCHANGED <<handlers, promise, req, sentOn, wire, fd, running, app, reader, todo, calls, breaks>>

\* The request takes itself out of pending_; an answer may just have come.
Abandon(r) ==
  /\ caller[r] = "late" /\ Return(r)
  /\ pending' = pending \ {req[r]} /\ ready' = ready \ {req[r]}
  /\ UNCHANGED <<handlers, wire, fd, running, app, reader, todo, calls, breaks>>

-----------------------------------------------------------------------------
(* The daemon, as far as this node sees it                                 *)

Serve ==
  /\ up # <<>> /\ ~broken
  /\ LET f == Head(up)
     IN  /\ routed' = CASE f.kind = "SUBSCRIBE"   -> routed \cup {f.name}
                        [] f.kind = "UNSUBSCRIBE" -> routed \ {f.name}
                        [] OTHER                  -> routed
         /\ down' = IF f.kind = "REQUEST" THEN Append(down, f.id) ELSE down
  /\ up' = Tail(up)
  /\ UNCHANGED <<handlers, promise, request, conn, broken, fd, running, app, reader, todo, calls, breaks>>

\* The daemon hangs up, for a wedged connection or its own end.
Break ==
  /\ conn > 0 /\ ~broken /\ breaks < MaxBreaks
  /\ breaks' = breaks + 1 /\ Shut
  /\ UNCHANGED <<handlers, promise, request, fd, running, app, reader, todo, calls>>

-----------------------------------------------------------------------------
AppNext    == Connect \/ SendUnsubscribe \/ Close \/ Join \/ AppResubscribe
ReaderNext == Check \/ ReadFrame \/ ReadEnd \/ LinkDown \/ GiveUp \/ Install \/ ReaderResubscribe
CallerNext(r) == SendRequest(r) \/ Answered(r) \/ Abandon(r)

Next ==
  \/ AppNext \/ ReaderNext \/ Reconnect
  \/ \E n \in Names : Subscribe(n) \/ Unsubscribe(n)
  \/ \E r \in Callers : Register(r) \/ CallerNext(r) \/ Timeout(r)
  \/ Serve \/ Break

Spec == Init /\ [][Next]_vars

\* Threads that can run do, and a daemon that has a connection serves it.  The
\* daemon need never come back, no timeout need ever run out, and the owner need
\* never close; once ~Node has begun it goes on.
FairSpec ==
  /\ Spec
  /\ WF_vars(ReaderNext) /\ WF_vars(Serve)
  /\ WF_vars(SendUnsubscribe \/ AppResubscribe)
  /\ WF_vars((app = "closing" /\ Close) \/ Join)
  /\ \A r \in Callers : WF_vars(CallerNext(r))

-----------------------------------------------------------------------------
TypeOK ==
  /\ handlers \subseteq Names /\ routed \subseteq Names
  /\ fd \in {0, conn} /\ conn \in 0 .. MaxConns
  /\ running \in BOOLEAN /\ broken \in BOOLEAN
  /\ pending \subseteq 1 .. MaxCalls /\ ready \subseteq 1 .. MaxCalls
  /\ app \in {"idle", "copy", "resend", "unsubscribe", "closing", "join", "closed"}
  /\ reader \in {"none", "check", "recv", "teardown", "fail", "connect", "install",
                 "copy", "resend", "exit"}
  /\ todo \in [Threads -> SUBSET Names]
  /\ caller \in [Callers -> {"idle", "send", "wait", "late"}]
  /\ req \in [Callers -> 0 .. MaxCalls] /\ sentOn \in [Callers -> 0 .. MaxConns]
  /\ up \in Seq(Frames) /\ down \in Seq(1 .. MaxCalls)
  /\ calls \in 0 .. MaxCalls /\ breaks \in 0 .. MaxBreaks

\* A request that waits for an answer (node.hpp:488) never waits for one that
\* cannot come: it went out on the connection the reader still has to read or
\* to tear down, and as long as that connection lives the request or its
\* answer is on it.  pending_ holds no id nobody waits for.
NoStrandedRequest ==
  /\ \A r \in Callers : (caller[r] = "wait" /\ req[r] \in pending) =>
        /\ sentOn[r] = conn /\ conn > 0
        /\ reader \in {"copy", "resend", "check", "recv", "teardown", "fail"}
        /\ \/ broken
           \/ \E i \in DOMAIN down : down[i] = req[r]
           \/ \E i \in DOMAIN up : up[i] = [kind |-> "REQUEST", id |-> req[r]]
  /\ \A id \in pending : \E r \in Callers : caller[r] # "idle" /\ req[r] = id

\* What the daemon will route once it has read what is under way.
LastWord(n) ==
  LET about == {i \in DOMAIN up : up[i].kind # "REQUEST" /\ up[i].name = n}
  IN  IF about = {} THEN n \in routed
      ELSE up[CHOOSE i \in about : \A j \in about : j <= i].kind = "SUBSCRIBE"

\* Whoever is still about to send a SUBSCRIBE for n.
WillSubscribe(n) ==
  \/ app = "copy" \/ reader = "copy"
  \/ app = "resend" /\ n \in todo["app"]
  \/ reader = "resend" /\ n \in todo["reader"]

\* No handler goes deaf (node.hpp:733): while the node has a connection, the
\* daemon routes every name with a handler to it, or a SUBSCRIBE that no
\* UNSUBSCRIBE overtakes is on its way or about to be sent, whatever the node
\* lost in its reconnect windows.
HandlersRouted ==
  (CanSend /\ running) => \A n \in handlers : LastWord(n) \/ WillSubscribe(n)

\* Every call returns: a request without help from its timeout, over lost
\* connections and a daemon that stays away (node.hpp:488), and the destructor
\* wherever the reader is when it starts (node.hpp:49).
CallsReturn ==
  /\ \A r \in Callers : (caller[r] # "idle") ~> (caller[r] = "idle")
  /\ (app = "closing") ~> (app = "closed")

\* An unsubscribed name stays unsubscribed (test_node.cpp:294): when no thread
\* is about to send and the daemon has read everything, it routes nothing the
\* node has no handler for.
UnsubscribedStaysOff ==
  (CanSend /\ app = "idle" /\ reader = "recv" /\ up = <<>>) => routed \subseteq handlers
=============================================================================
