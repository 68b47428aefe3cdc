------------------------------- MODULE PubSub -------------------------------
(***************************************************************************)
(* The daemon's connections and its topic routing (src/include/server.hpp):*)
(* one reader thread per connection runs the handlers, and each handler    *)
(* writes to other connections' sockets.  A step here ends where the code  *)
(* takes or drops a lock, so a handler is several steps and the readers    *)
(* interleave between them: subs_mu_, retained_mu_ and clients_mu_ are     *)
(* held within one step, send_mu across the check of the file descriptor   *)
(* and the write to it.                                                    *)
(*                                                                         *)
(* A client here is one connection: accepted once, gone for good.  Its     *)
(* file descriptor number is reused by the kernel after the close.         *)
(***************************************************************************)
EXTENDS Naturals, Sequences, FiniteSets

CONSTANTS MaxClients,    \* bound: connections accepted in a behaviour
          Names,         \* what is subscribed to: sequences of levels
          Fds,           \* file descriptor numbers
          MaxFrames,     \* bound: frames handled in a behaviour
          MaxFaults,     \* bound: peers that hang up or stop reading in a behaviour
          Budgets,       \* what one behaviour may use of these bounds, and whether the
                         \* daemon may be stopped in it
          NONE

\* Connections, numbered in the order they are accepted.
Clients == 1 .. MaxClients

ASSUME PubSubAssumption ==
  /\ MaxClients \in Nat /\ Names \subseteq Seq(STRING)
  /\ Fds \subseteq Nat /\ IsFiniteSet(Fds) /\ Cardinality(Fds) >= MaxClients
  /\ MaxFrames \in Nat /\ MaxFaults \in Nat
  /\ Budgets \subseteq [clients : 0 .. MaxClients, frames : 0 .. MaxFrames,
                         faults : 0 .. MaxFaults, stops : BOOLEAN]
  /\ NONE \notin Nat \cup Names

-----------------------------------------------------------------------------
(* Topic patterns                                                          *)

topic_has_wildcard(n) == \E i \in DOMAIN n : n[i] \in {"+", "*"}

\* Level by level; a '*' takes what is left, even nothing, and is looked for
\* before the topic's end is.
topic_matches(p, t) ==
  LET from[i \in 1 .. Len(p) + 1] ==
        IF i > Len(p) THEN i > Len(t)
        ELSE p[i] = "*" \/ (i <= Len(t) /\ p[i] \in {"+", t[i]} /\ from[i + 1])
  IN  from[1]

\* What the patterns mean: without a '*' they agree in length and level by
\* level, with one they agree up to the first.
Covers(p, t) ==
  LET stars == {i \in DOMAIN p : p[i] = "*"}
      upto  == {i \in DOMAIN p : \A j \in stars : i < j}
  IN  /\ \A i \in upto : i \in DOMAIN t /\ p[i] \in {"+", t[i]}
      /\ stars = {} => Len(p) = Len(t)

Topics   == {n \in Names : ~topic_has_wildcard(n)}
Patterns == Names \ Topics

-----------------------------------------------------------------------------
VARIABLES
  pc,            \* client -> where its reader thread is
  fd,            \* Client::fd: client -> its descriptor, NONE for -1
  sock,          \* the kernel's table: descriptor -> the client it leads to, or NONE
  send_mu,       \* client -> the thread that holds its send_mu, or NONE
  topics,        \* Client::topics and patterns: client -> names
  subs,          \* subs_ and pattern_subs_: name -> clients
  retained,      \* retained_: topic -> message, NONE for no entry
  clients,       \* clients_
  targets,       \* client -> receivers its handler has still to send to
  msg,           \* client -> the frame its handler is sending
  out,           \* client -> the descriptor its send_to has read, or NONE
  inbox,         \* client -> what was written to its socket
  broken,        \* connections shut down by either end
  stop,          \* where ~Server is
  frames,        \* frames handled so far
  faults,
  budget,        \* one of Budgets
  owed           \* history: <<message, client>> that were subscribed at the routing

handler == <<targets, msg, out>>
tables  == <<topics, subs, retained>>
vars    == <<pc, fd, sock, send_mu, tables, clients, handler, inbox, broken,
             stop, frames, faults, budget, owed>>

\* The answer to a ping, and what an idle handler holds.
NoFrame == [id |-> <<0, 0>>, topic |-> NONE, verb |-> "answer"]

Init ==
  /\ pc = [c \in Clients |-> "new"]
  /\ fd = [c \in Clients |-> NONE]
  /\ sock = [d \in Fds |-> NONE]
  /\ send_mu = [c \in Clients |-> NONE]
  /\ topics = [c \in Clients |-> {}]
  /\ subs = [n \in Names |-> {}]
  /\ retained = [t \in Topics |-> NONE]
  /\ clients = {}
  /\ targets = [c \in Clients |-> {}]
  /\ msg = [c \in Clients |-> NoFrame]
  /\ out = [c \in Clients |-> NONE]
  /\ inbox = [c \in Clients |-> <<>>]
  /\ broken = {}
  /\ stop = "up"
  /\ frames = 0 /\ faults = 0 /\ budget \in Budgets
  /\ owed = {}

-----------------------------------------------------------------------------
(* accept_loop                                                             *)

\* The lowest free descriptor, as the kernel hands them out.
NewFd == CHOOSE d \in Fds : sock[d] = NONE /\ \A e \in Fds : sock[e] = NONE => d <= e

Join(c) ==
  /\ pc[c] = "new" /\ c <= budget.clients /\ \A d \in 1 .. c - 1 : pc[d] # "new"
  /\ sock' = [sock EXCEPT ![NewFd] = c]
  /\ fd' = [fd EXCEPT ![c] = NewFd]
  /\ clients' = clients \cup {c}
  /\ pc' = [pc EXCEPT ![c] = "read"]
  /\ UNCHANGED <<send_mu, tables, handler, inbox, broken, stop, frames, faults,
                 budget, owed>>

\* Mutant: the accept thread is joined only after the clients were shut down.
AcceptBug(c) == stop # "down" /\ Join(c)

\* Until ~Server has joined the accept thread.
Accept(c) == stop \in {"up", "stopping"} /\ Join(c)

-----------------------------------------------------------------------------
(* handle_frame                                                            *)

\* Reader thread c has read a frame.
Begin(c) == /\ pc[c] = "read" /\ frames < budget.frames
            /\ frames' = frames + 1

\* A pattern is only registered; a topic's retained value is looked up next.
SubscribeInsert(c, n) ==
  /\ Begin(c)
  /\ subs' = [subs EXCEPT ![n] = @ \cup {c}]
  /\ topics' = [topics EXCEPT ![c] = @ \cup {n}]
  /\ IF n \in Patterns
     THEN UNCHANGED <<pc, msg>>
     ELSE /\ msg' = [msg EXCEPT ![c] = [id |-> <<0, 0>>, topic |-> n, verb |-> "replay"]]
          /\ pc' = [pc EXCEPT ![c] = "retained"]
  /\ UNCHANGED <<fd, sock, send_mu, retained, clients, targets, out, inbox, broken,
                 stop, faults, budget, owed>>

\* Mutant: a topic without a retained value is replayed all the same.
SubscribeReplayBug(c) ==
  /\ pc[c] = "retained"
  /\ pc' = [pc EXCEPT ![c] = "send"]
  /\ msg' = [msg EXCEPT ![c].id = retained[msg[c].topic]]
  /\ targets' = [targets EXCEPT ![c] = {c}]
  /\ UNCHANGED <<fd, sock, send_mu, tables, clients, out, inbox, broken, stop,
                 frames,
                 faults, budget, owed>>

\* Under retained_mu_: the value is copied, to be sent once the lock is gone.
SubscribeReplay(c) ==
  /\ pc[c] = "retained"
  /\ LET v == retained[msg[c].topic] IN
       IF v = NONE
       THEN /\ pc' = [pc EXCEPT ![c] = "read"]
            /\ msg' = [msg EXCEPT ![c] = NoFrame]
            /\ UNCHANGED targets
       ELSE /\ pc' = [pc EXCEPT ![c] = "send"]
            /\ msg' = [msg EXCEPT ![c].id = v]
            /\ targets' = [targets EXCEPT ![c] = {c}]
  /\ UNCHANGED <<fd, sock, send_mu, tables, clients, out, inbox, broken, stop,
                 frames,
                 faults, budget, owed>>

\* Mutant: the connection forgets the name before it leaves the routing table.
UnsubscribeBug(c, n) ==
  /\ Begin(c) /\ n \in topics[c]
  /\ topics' = [topics EXCEPT ![c] = @ \ {n}]
  /\ subs' = [subs EXCEPT ![n] = IF n \in topics'[c] THEN @ \ {c} ELSE @]
  /\ UNCHANGED <<pc, fd, sock, send_mu, retained, clients, handler, inbox,
                 broken, stop, faults, budget, owed>>

\* Of a name the connection has; any other changes nothing.
Unsubscribe(c, n) ==
  /\ Begin(c) /\ n \in topics[c]
  /\ subs' = [subs EXCEPT ![n] = @ \ {c}]
  /\ topics' = [topics EXCEPT ![c] = @ \ {n}]
  /\ UNCHANGED <<pc, fd, sock, send_mu, retained, clients, handler, inbox,
                 broken, stop, faults, budget, owed>>

\* route_publish, under a shared lock.  A message is known by its publisher
\* and the number of its frame.
Matching(t) == subs[t] \cup UNION {subs[p] : p \in {q \in Patterns : topic_matches(q, t)}}

\* What the subscribers are entitled to, by their own account.
Served(c) == pc[c] \in {"read", "retained", "send", "write"}
Entitled(c, t) == {d \in Clients \ {c} : Served(d) /\ \E n \in topics[d] :
                      IF topic_has_wildcard(n) THEN Covers(n, t) ELSE n = t}

RouteTo(c, t, receivers) ==
  /\ Begin(c)
  /\ targets' = [targets EXCEPT ![c] = receivers]
  /\ msg' = [msg EXCEPT ![c] = [id |-> <<c, frames'>>, topic |-> t, verb |-> "publish"]]
  /\ pc' = [pc EXCEPT ![c] = "send"]
  /\ owed' = owed \cup {<<msg'[c].id, d>> : d \in Entitled(c, t)}
  /\ UNCHANGED <<fd, sock, send_mu, tables, clients, out, inbox, broken, stop,
                 faults, budget>>

\* Mutant: the publisher hears its own message.
RouteBug(c, t) == RouteTo(c, t, Matching(t))

\* noLocal: everybody but the publisher, once each.
Route(c, t) == RouteTo(c, t, Matching(t) \ {c})

\* PING and INFO: an answer to the asker.
Answer(c) ==
  /\ Begin(c)
  /\ targets' = [targets EXCEPT ![c] = {c}]
  /\ msg' = [msg EXCEPT ![c] = NoFrame]
  /\ pc' = [pc EXCEPT ![c] = "send"]
  /\ UNCHANGED <<fd, sock, send_mu, tables, clients, out, inbox, broken, stop,
                 faults, budget, owed>>

\* The handler returns.  After the sends of a PUBLISH_RETAIN the last value is
\* kept, or with an empty payload cleared, under retained_mu_; which of the
\* three a publish was makes no difference before.
Finish(c) ==
  /\ pc[c] = "send" /\ targets[c] = {}
  /\ \/ UNCHANGED retained
     \/ /\ msg[c].verb = "publish"
        /\ \E v \in {msg[c].id, NONE} : retained' = [retained EXCEPT ![msg[c].topic] = v]
  /\ msg' = [msg EXCEPT ![c] = NoFrame]
  /\ pc' = [pc EXCEPT ![c] = "read"]
  /\ UNCHANGED <<fd, sock, send_mu, topics, subs, clients, targets, out, inbox,
                 broken,
                 stop, frames, faults, budget, owed>>

-----------------------------------------------------------------------------
(* send_to                                                                 *)

\* Take the receiver's send_mu and read its descriptor; a receiver that is
\* gone is passed over.
SendLock(c, d) ==
  /\ pc[c] = "send" /\ d \in targets[c]
  /\ send_mu[d] = NONE
  /\ IF fd[d] = NONE
     THEN targets' = [targets EXCEPT ![c] = @ \ {d}] /\ UNCHANGED <<pc, out, send_mu>>
     ELSE /\ send_mu' = [send_mu EXCEPT ![d] = c]
          /\ out' = [out EXCEPT ![c] = fd[d]]
          /\ pc' = [pc EXCEPT ![c] = "write"]
          /\ UNCHANGED targets
  /\ UNCHANGED <<fd, sock, tables, clients, msg, inbox, broken, stop, frames,
                 faults, budget, owed>>

\* Thread c is in write_full on d's behalf, and the descriptor leads to s.
Writing(c, d) == pc[c] = "write" /\ send_mu[d] = c
Live(c)  == sock[out[c]] \notin broken \cup {NONE}
FrameFor(c, d) == [id |-> msg[c].id, topic |-> msg[c].topic, verb |-> msg[c].verb,
                   to |-> d, whole |-> TRUE]

\* send_to returns, having unlocked, and `rest` is left to send to.
Return(c, d, rest) ==
  /\ send_mu' = [send_mu EXCEPT ![d] = NONE]
  /\ targets' = [targets EXCEPT ![c] = rest]
  /\ out' = [out EXCEPT ![c] = NONE]
  /\ pc' = [pc EXCEPT ![c] = "send"]
  /\ UNCHANGED <<fd, sock, tables, clients, msg, stop, frames, budget, owed>>

WriteWhole(c, d) ==
  /\ Writing(c, d) /\ Live(c)
  /\ inbox' = [inbox EXCEPT ![sock[out[c]]] = Append(@, FrameFor(c, d))]
  /\ Return(c, d, targets[c] \ {d})
  /\ UNCHANGED <<broken, faults>>

\* A part of the frame, because the peer does not read and the send timed out.
WritePart(c, d) ==
  /\ Writing(c, d) /\ Live(c)
  /\ faults < budget.faults
  /\ faults' = faults + 1
  /\ inbox' = [inbox EXCEPT ![sock[out[c]]] = Append(@, [FrameFor(c, d) EXCEPT !.whole = FALSE])]
  /\ Return(c, d, targets[c] \ {d})

\* Mutant: the send is given up and the connection kept.
WriteTimesOutBug(c, d) == WritePart(c, d) /\ UNCHANGED broken

\* The connection is shut down; its reader thread does the cleanup.
WriteTimesOut(c, d) == WritePart(c, d) /\ broken' = broken \cup {sock[out[c]]}

\* Mutant: a receiver that fails ends the fan-out.
WriteFailsBug(c, d) ==
  /\ Writing(c, d) /\ ~Live(c)
  /\ Return(c, d, {})
  /\ UNCHANGED <<inbox, broken, faults>>

\* The other end is gone; a second shutdown changes nothing.
WriteFails(c, d) ==
  /\ Writing(c, d) /\ ~Live(c)
  /\ Return(c, d, targets[c] \ {d})
  /\ UNCHANGED <<inbox, broken, faults>>

-----------------------------------------------------------------------------
(* The end of a connection: remove_client                                  *)

\* The peer hangs up.
HangUp(c) ==
  /\ pc[c] \notin {"new", "gone"} /\ c \notin broken
  /\ faults < budget.faults
  /\ faults' = faults + 1
  /\ broken' = broken \cup {c}
  /\ UNCHANGED <<pc, fd, sock, send_mu, tables, clients, handler, inbox, stop,
                 frames, budget, owed>>

\* The loop ends at the end of input, or at its next look at running_.
RemoveSubs(c) ==
  /\ pc[c] = "read"
  /\ c \in broken \/ stop # "up"
  /\ subs' = [n \in Names |-> IF n \in topics[c] THEN subs[n] \ {c} ELSE subs[n]]
  /\ pc' = [pc EXCEPT ![c] = "close"]
  /\ UNCHANGED <<fd, sock, send_mu, topics, retained, clients, handler, inbox,
                 broken,
                 stop, frames, faults, budget, owed>>

Close(c) ==
  /\ pc[c] = "close"
  /\ sock' = [sock EXCEPT ![fd[c]] = NONE]
  /\ fd' = [fd EXCEPT ![c] = NONE]
  /\ broken' = broken \cup {c}
  /\ pc' = [pc EXCEPT ![c] = "leave"]
  /\ UNCHANGED <<send_mu, tables, clients, handler, inbox, stop, frames, faults,
                 budget, owed>>

\* Mutant: the descriptor is closed while somebody may be about to write to it.
RemoveCloseBug(c) == Close(c)

\* Under the connection's own send_mu.
RemoveClose(c) == send_mu[c] = NONE /\ Close(c)

\* Off clients_, unless ~Server is going through it.
RemoveLeave(c) ==
  /\ pc[c] = "leave" /\ stop # "clients"
  /\ clients' = clients \ {c}
  /\ pc' = [pc EXCEPT ![c] = "gone"]
  /\ UNCHANGED <<fd, sock, send_mu, tables, handler, inbox, broken, stop, frames,
                 faults, budget, owed>>

-----------------------------------------------------------------------------
(* ~Server                                                                 *)

StopStep(to) ==
  /\ stop' = to
  /\ UNCHANGED <<pc, fd, sock, send_mu, tables, clients, handler, inbox, broken,
                 frames, faults, budget, owed>>

StopBegin == stop = "up" /\ budget.stops /\ StopStep("stopping")

\* The sweep and accept threads are joined; clients_mu_ is taken.
StopJoin == stop = "stopping" /\ StopStep("clients")

\* shutdown(fd, SHUT_RDWR) of each client that is not closed or shut down
\* already, under its send_mu.
StopShutdown(c) ==
  /\ stop = "clients" /\ c \in clients \ broken
  /\ send_mu[c] = NONE
  /\ broken' = broken \cup {c}
  /\ UNCHANGED <<pc, fd, sock, send_mu, tables, clients, handler, inbox, stop,
                 frames, faults, budget, owed>>

\* Wait for the readers' futures.
StopWait == stop = "clients" /\ clients \subseteq broken /\ StopStep("join")
StopDone == /\ stop = "join" /\ \A c \in Clients : pc[c] \in {"new", "gone"}
            /\ StopStep("down")

-----------------------------------------------------------------------------
Write(c, d) == WriteWhole(c, d) \/ WriteTimesOut(c, d) \/ WriteFails(c, d)

Handler(c) == \/ SubscribeReplay(c) \/ Finish(c)
              \/ \E d \in Clients : SendLock(c, d) \/ Write(c, d)

Remove(c) == RemoveClose(c) \/ RemoveLeave(c)

Stop == StopJoin \/ (\E c \in Clients : StopShutdown(c)) \/ StopWait \/ StopDone

Next ==
  \/ \E c \in Clients :
       \/ Accept(c) \/ HangUp(c) \/ Answer(c) \/ Handler(c) \/ RemoveSubs(c) \/ Remove(c)
       \/ \E n \in Names : SubscribeInsert(c, n) \/ Unsubscribe(c, n)
       \/ \E t \in Topics : Route(c, t)
  \/ StopBegin \/ Stop

Spec == Init /\ [][Next]_vars

\* The daemon's threads run.  A reader is only bound to leave its loop at the
\* end of its input, for it may be blocked in a read when running_ goes down.
\* Clients need not send or hang up, and nobody need stop the daemon.
Fairness ==
  /\ \A c \in Clients : /\ WF_vars(Handler(c)) /\ WF_vars(Remove(c))
                        /\ WF_vars(c \in broken /\ RemoveSubs(c))
  /\ WF_vars(Stop)

FairSpec == Spec /\ Fairness

-----------------------------------------------------------------------------
(* Properties                                                              *)

Messages == Clients \X (1 .. MaxFrames)
Frame == [id : Messages \cup {<<0, 0>>}, topic : Topics \cup {NONE},
          verb : {"publish", "replay", "answer"}]

TypeOK ==
  /\ pc \in [Clients -> {"new", "read", "retained", "send", "write", "close", "leave", "gone"}]
  /\ fd \in [Clients -> Fds \cup {NONE}]
  /\ sock \in [Fds -> Clients \cup {NONE}]
  /\ send_mu \in [Clients -> Clients \cup {NONE}]
  /\ topics \in [Clients -> SUBSET Names]
  /\ subs \in [Names -> SUBSET Clients]
  /\ retained \in [Topics -> Messages \cup {NONE}]
  /\ clients \in SUBSET Clients
  /\ targets \in [Clients -> SUBSET Clients]
  /\ msg \in [Clients -> Frame]
  /\ out \in [Clients -> Fds \cup {NONE}]
  /\ \A c \in Clients : \A i \in DOMAIN inbox[c] : inbox[c][i].id \in Messages \cup {<<0, 0>>}
  /\ broken \in SUBSET Clients
  /\ stop \in {"up", "stopping", "clients", "join", "down"}
  /\ frames \in 0 .. MaxFrames /\ faults \in 0 .. MaxFaults /\ budget \in Budgets
  /\ owed \subseteq Messages \X Clients

\* No frame is written to a connection it was not addressed to, although
\* senders work from a snapshot of the subscribers and the kernel reuses a
\* closed descriptor's number for the next connection ("close under send_mu so
\* no send_to races a reused fd").
NoMisdelivery ==
  \A c \in Clients : \A i \in DOMAIN inbox[c] : inbox[c][i].to = c

\* Nothing follows a partial frame on a connection: whoever sends next finds
\* it shut down, so a peer never parses the middle of one frame as another.
StreamNeverDesynced ==
  \A c \in Clients : \A i \in DOMAIN inbox[c] : i < Len(inbox[c]) => inbox[c][i].whole

\* The names a connection will clean up after itself are the ones it is routed
\* by, and a connection past its cleanup is routed by none.
SubscriptionsMirrored ==
  \A c \in Clients, n \in Names : c \in subs[n] <=> Served(c) /\ n \in topics[c]

\* A publish reaches every connection that was subscribed when it was routed,
\* by name or by pattern, and that is still up: no other receiver's failure or
\* departure takes it away.
Received(c, id) == \E i \in DOMAIN inbox[c] : inbox[c][i].id = id /\ inbox[c][i].verb = "publish"
EveryoneServed ==
  \A o \in owed : \/ o[2] \in broken \/ Received(o[2], o[1])
                  \/ \E c \in Clients : msg[c].id = o[1] /\ o[2] \in targets[c]

\* One publisher's messages, as they are routed, arrive in the order it sent
\* them, in one copy however many subscriptions match, and never at the publisher
\* itself.  The replay of a retained value on subscribe, a MSG_PUBLISH as well,
\* is kept apart (its verb here is another) and is not bound by this: it may be
\* a second copy (server.hpp:188), an older message or the subscriber's own.
PublishedInOrderToOthers ==
  \A c \in Clients : \A i \in DOMAIN inbox[c] : inbox[c][i].verb = "publish" =>
     /\ inbox[c][i].id[1] # c
     /\ \A j \in 1 .. i - 1 :
          inbox[c][j].verb = "publish" /\ inbox[c][j].id[1] = inbox[c][i].id[1]
            => inbox[c][j].id[2] < inbox[c][i].id[2]

\* ~Server returns: every reader is woken, also that of a connection accepted
\* while the daemon was going down.
ServerStops == stop = "stopping" ~> stop = "down"

\* server.hpp on subscribe, "A subscribe racing a retained publish may deliver
\* it twice" (and so never not at all): once everything is quiet, a subscriber
\* has last seen the topic's retained value, unless it published that itself.
Quiet == \A c \in Clients : pc[c] \in {"new", "read", "gone"}
LastSeen(c, t) ==
  LET on == {i \in DOMAIN inbox[c] : inbox[c][i].topic = t} IN
  IF on = {} THEN NONE ELSE inbox[c][CHOOSE i \in on : \A j \in on : j <= i].id
RetainedConverges ==
  Quiet => \A c \in Clients \ broken, t \in Topics :
             pc[c] = "read" /\ t \in topics[c] /\ retained[t] # NONE
               => LastSeen(c, t) = retained[t] \/ retained[t][1] = c
=============================================================================
