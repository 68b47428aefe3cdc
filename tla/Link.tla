------------------------------- MODULE Link -------------------------------
(***************************************************************************)
(* Two devices' buses joined by a pair of links (src/include/link.hpp,     *)
(* src/src/chappe_link.cpp).  Each device has a daemon, of which this      *)
(* module keeps the one key that is forwarded, the retained topics and the *)
(* routing to the link, and a link process of three threads: the local     *)
(* loop, which forwards what the daemon pushes, the peer loop, which       *)
(* applies what the peer forwards, and main, which watches both and exits  *)
(* when either is lost.  A supervisor starts the processes again.          *)
(*                                                                         *)
(* Every socket takes Cap frames: a link's send waits for room, a daemon's *)
(* runs into its timeout and drops the link.  On a connection that was     *)
(* shut down nothing more is sent; what is under way can be read, until    *)
(* the end of file or until it is lost.                                    *)
(***************************************************************************)
EXTENDS Naturals, Sequences, FiniteSets

CONSTANTS Devices, Values, Topics,
          KEY,           \* the key, among the things a link carries
          Setups,        \* what each link is told to carry, which links accept their
                         \* peer's ABI, which device has a value to begin with; bounds:
                         \* maxOps, the writes and publishes by the devices' users,
                         \* maxSessions, the times the links are started, and maxFaults,
                         \* hang-ups and signals
          Cap,           \* frames a socket takes
          NONE, DEL

ASSUME LinkAssumption ==
  /\ Cap \in Nat \ {0}
  /\ Setups \subseteq [carries : [Devices -> SUBSET (Topics \cup {KEY})],
                      accepts : SUBSET Devices, owner : Devices \cup {NONE},
                      maxOps : Nat, maxSessions : Nat, maxFaults : Nat]
  /\ IsFiniteSet(Devices) /\ Cardinality(Devices) = 2 /\ NONE \notin Values /\ DEL \notin Values

VARIABLES
  setup,
  store,      \* device -> the key's value in its daemon, NONE for absent
  retained,   \* device -> topics with a retained value in its daemon
  heard,      \* history: device -> messages its link has published there this session
  subs,       \* device -> topic -> the link's subscription: none, added, done with the replay
  watching,   \* device -> the daemon has the link's watch of the key
  up, down,   \* device -> frames from link to daemon, from daemon to link
  old,        \* device -> frames of a dead link's connection, which the daemon still reads
  open,       \* devices whose link is connected to its daemon
  wire,       \* device -> frames its link has sent to the other
  cut,        \* the peer connection is shut down
  main, local, peer,  \* device -> where the three threads are
  running,    \* running_
  hand,       \* device -> the frame the peer loop is applying
  echo,       \* echo_set_ and echo_del_: device -> value or DEL -> copies expected back
  wrote,      \* history: devices whose users have written the key
  ops, sessions, faults

daemons == <<store, retained, heard, old>>
socks   == <<subs, watching, up, down, open>>
procs   == <<main, local, peer, running, hand, echo>>
bounds  == <<wrote, ops, sessions, faults>>
vars    == <<setup, daemons, socks, wire, cut, procs, bounds>>

Other(d)   == CHOOSE e \in Devices : e # d
Carries(d) == setup.carries[d]
F(kind, arg) == [kind |-> kind, arg |-> arg]
Nothing == F("NONE", NONE)
Marks   == Values \cup {DEL}
NoSubs  == [t \in Topics |-> "none"]

Init ==
  /\ setup \in Setups
  /\ wrote = Devices \cap {setup.owner}
  /\ \E v \in Values : store = [d \in Devices |-> IF d = setup.owner THEN v ELSE NONE]
  /\ retained = [d \in Devices |-> {}] /\ heard = [d \in Devices |-> <<>>]
  /\ subs = [d \in Devices |-> NoSubs] /\ watching = [d \in Devices |-> FALSE]
  /\ up = [d \in Devices |-> <<>>] /\ down = [d \in Devices |-> <<>>]
  /\ old = [d \in Devices |-> <<>>] /\ wire = [d \in Devices |-> <<>>]
  /\ open = {} /\ cut = TRUE /\ running = {}
  /\ main = [d \in Devices |-> "off"]
  /\ local = [d \in Devices |-> "off"] /\ peer = [d \in Devices |-> "off"]
  /\ hand = [d \in Devices |-> Nothing]
  /\ echo = [d \in Devices |-> [x \in Marks |-> 0]]
  /\ ops = 0 /\ sessions = 0 /\ faults = 0

Fault == faults < setup.maxFaults /\ faults' = faults + 1 /\ UNCHANGED <<wrote, ops, sessions>>

-----------------------------------------------------------------------------
(* The daemon                                                              *)

\* send_to, to the link: within the timeout, or the link is dropped.
Push(d, f) ==
  IF d \in open /\ Len(down[d]) < Cap
  THEN down' = [down EXCEPT ![d] = Append(@, f)] /\ UNCHANGED open
  ELSE open' = open \ {d} /\ UNCHANGED down

\* KV_SET and KV_DEL, by anyone: watchers are told, the writer too.
Write(d, v) ==
  /\ store' = [store EXCEPT ![d] = v]
  /\ IF ~(watching[d] /\ KEY \in Carries(d)) THEN UNCHANGED <<down, open>>
     ELSE Push(d, IF v = NONE THEN F("DEL", DEL) ELSE F("UPDATE", v))

\* route_publish: to the link, unless it is the publisher.
Route(d, m) ==
  IF subs[d][m.topic] # "none"
  THEN Push(d, F("PUBLISH", m)) ELSE UNCHANGED <<down, open>>

\* The devices' users; what their link does not carry makes no difference.  A
\* message has its number, and may set or clear the topic's retained value.
User(d) ==
  /\ ops < setup.maxOps /\ ops' = ops + 1
  /\ \/ /\ KEY \in Carries(d) /\ \E v \in Values \cup {NONE} : Write(d, v)
        /\ wrote' = wrote \cup {d} /\ UNCHANGED <<retained, heard>>
     \/ \E t \in Topics \cap Carries(d) :
        /\ Route(d, [from |-> d, id |-> ops', topic |-> t])
        /\ \E keep \in {retained[d], retained[d] \cup {t}, retained[d] \ {t}} :
             retained' = [retained EXCEPT ![d] = keep]
        /\ UNCHANGED <<store, heard, wrote>>
  /\ UNCHANGED <<setup, old, subs, watching, up, wire, cut, procs, sessions, faults>>

\* SUBSCRIBE, for one topic after another: from here on it is routed ...
Subscribe(d) ==
  /\ up[d] # <<>> /\ Head(up[d]).kind = "SUBSCRIBE, GET"
  /\ \A t \in Topics : subs[d][t] # "added"
  /\ \E t \in Topics \cap Carries(d) :
       subs[d][t] = "none" /\ subs' = [subs EXCEPT ![d][t] = "added"]
  /\ UNCHANGED <<setup, daemons, watching, up, down, open, wire, cut, procs, bounds>>

\* ... and then its retained value is looked up and sent, as a message like any
\* other.  It has number 0: a copy of it may have been routed already, or a
\* newer message.
Replay(d) ==
  /\ \E t \in Topics :
       /\ subs[d][t] = "added" /\ subs' = [subs EXCEPT ![d][t] = "done"]
       /\ IF t \in retained[d]
          THEN Push(d, F("PUBLISH", [from |-> d, id |-> 0, topic |-> t]))
          ELSE UNCHANGED <<down, open>>
  /\ UNCHANGED <<setup, daemons, watching, up, wire, cut, procs, bounds>>

\* The next frame of the link's connection, and of one that is gone.
Serve(d) ==
  /\ up[d] # <<>>
  /\ LET f == Head(up[d])
     IN  CASE f.kind = "SUBSCRIBE, GET" ->
                /\ \A t \in Topics \cap Carries(d) : subs[d][t] = "done"
                /\ watching' = [watching EXCEPT ![d] = TRUE]
                /\ IF KEY \in Carries(d) THEN Push(d, F("REPLY", store[d])) ELSE UNCHANGED <<down, open>>
                /\ UNCHANGED <<store, heard>>
           [] f.kind = "PUBLISH" ->
                /\ heard' = [heard EXCEPT ![d] = Append(@, f.arg)]
                /\ UNCHANGED <<store, watching, down, open>>
           [] OTHER ->
                Write(d, IF f.kind = "DEL" THEN NONE ELSE f.arg) /\ UNCHANGED <<heard, watching>>
  /\ up' = [up EXCEPT ![d] = Tail(@)]
  /\ UNCHANGED <<setup, retained, old, subs, wire, cut, procs, bounds>>

ServeOld(d) ==
  /\ old[d] # <<>>
  /\ LET f == Head(old[d])
     IN  CASE f.kind = "PUBLISH" ->
                /\ heard' = [heard EXCEPT ![d] = Append(@, f.arg)]
                /\ Route(d, f.arg) /\ UNCHANGED store
           [] f.kind \in {"SET", "DEL"} ->
                Write(d, IF f.kind = "DEL" THEN NONE ELSE f.arg) /\ UNCHANGED heard
           [] OTHER -> UNCHANGED <<store, heard, down, open>>
  /\ old' = [old EXCEPT ![d] = Tail(@)]
  /\ UNCHANGED <<setup, retained, subs, watching, up, wire, cut, procs, bounds>>

\* The daemon drops the link, or the network the peer connection.
HangUp ==
  /\ Fault
  /\ \/ \E d \in open : open' = open \ {d} /\ up' = [up EXCEPT ![d] = <<>>] /\ UNCHANGED cut
     \/ ~cut /\ cut' = TRUE /\ UNCHANGED <<open, up>>
  /\ UNCHANGED <<setup, daemons, subs, watching, down, wire, procs>>

-----------------------------------------------------------------------------
(* The link process                                                        *)

\* The supervisor starts both processes, tcp_connect meets tcp_accept, and
\* the constructors send: the hello to the peer first; to the daemon the
\* subscriptions and a get, which are one frame here that the daemon serves in
\* several steps.  The answer to the get will seed the peer.  Nothing is awaited, so that only the
\* order of what is sent matters; one that throws, without its daemon or its
\* peer, is as one that is stopped at once.
Establish ==
  /\ sessions < setup.maxSessions /\ \A d \in Devices : main[d] = "off" /\ old[d] = <<>>
  /\ sessions' = sessions + 1
  /\ main' = [d \in Devices |-> "run"] /\ running' = Devices
  /\ cut' = FALSE /\ wire' = [d \in Devices |-> <<F("HELLO", NONE)>>]
  /\ open' = Devices /\ up' = [d \in Devices |-> <<F("SUBSCRIBE, GET", NONE)>>]
  /\ old' = up
  /\ local' = [d \in Devices |-> "recv"] /\ peer' = [d \in Devices |-> "hello"]
  /\ subs' = [d \in Devices |-> NoSubs] /\ watching' = [d \in Devices |-> FALSE]
  /\ heard' = [d \in Devices |-> <<>>]
  /\ UNCHANGED <<setup, store, retained, down, hand, echo, wrote, ops, faults>>

\* alive() is false or a signal came: ~Link shuts both sockets down and joins.
Stop(d) ==
  /\ running' = running \ {d} /\ open' = open \ {d} /\ cut' = TRUE
  /\ UNCHANGED <<setup, daemons, subs, watching, up, down, wire, main, local, peer, hand, echo>>

Lost(d)   == main[d] = "run" /\ d \notin running /\ Stop(d) /\ UNCHANGED bounds
Signal(d) == main[d] = "run" /\ Stop(d) /\ Fault

\* The process is gone, and its echo tables with it; nobody reads what was sent
\* to it, and the daemon pushes to it no longer.
Exit(d) ==
  /\ main[d] = "run" /\ local[d] = "done" /\ peer[d] = "done"
  /\ main' = [main EXCEPT ![d] = "off"]
  /\ local' = [local EXCEPT ![d] = "off"] /\ peer' = [peer EXCEPT ![d] = "off"]
  /\ echo' = [echo EXCEPT ![d] = [x \in Marks |-> 0]]
  /\ subs' = [subs EXCEPT ![d] = NoSubs] /\ watching' = [watching EXCEPT ![d] = FALSE]
  /\ down' = [down EXCEPT ![d] = <<>>] /\ wire' = [wire EXCEPT ![Other(d)] = <<>>]
  /\ UNCHANGED <<setup, daemons, up, open, cut, running, hand, bounds>>

-----------------------------------------------------------------------------
(* local_loop                                                              *)

\* The loop's condition, after a frame.  In recv it was true when it was last
\* evaluated, or is still to be evaluated: see LocalEnd.
Loop(d) == IF d \in running THEN "recv" ELSE "leave"

\* Mutant: the answer to the startup get only registers the watch.
ForwardedBug(d, f) ==
  CASE f.kind = "PUBLISH" -> IF f.arg.topic \in Carries(d) THEN f ELSE Nothing
    [] f.kind = "REPLY"   -> Nothing
    [] f.kind = "UPDATE"  -> F("SET", f.arg)
    [] f.kind = "DEL"     -> f

\* What a frame of the daemon is to the peer; Nothing is not forwarded.
Forwarded(d, f) ==
  CASE f.kind = "PUBLISH" -> IF f.arg.topic \in Carries(d) THEN f ELSE Nothing
    [] f.kind = "REPLY"   -> IF f.arg = NONE THEN Nothing ELSE F("SET", f.arg)
    [] f.kind = "UPDATE"  -> F("SET", f.arg)
    [] f.kind = "DEL"     -> f

\* Mutant: a frame is taken for an echo although none is expected.
ExpectedBug(d, g) == g.kind \in {"SET", "DEL"}

\* What consume_echo finds.
Expected(d, g) == g.kind \in {"SET", "DEL"} /\ echo[d][g.arg] > 0

\* consume_echo, and the send unless it found one.
LocalFrame(d) ==
  /\ local[d] = "recv" /\ down[d] # <<>>
  /\ LET g  == Forwarded(d, Head(down[d]))
         mine == Expected(d, g)
         sent == g # Nothing /\ ~mine /\ ~cut
     IN  /\ sent => Len(wire[d]) < Cap
         /\ wire' = IF sent THEN [wire EXCEPT ![d] = Append(@, g)] ELSE wire
         /\ echo' = IF mine THEN [echo EXCEPT ![d][g.arg] = @ - 1] ELSE echo
  /\ down' = [down EXCEPT ![d] = Tail(@)] /\ local' = [local EXCEPT ![d] = Loop(d)]
  /\ UNCHANGED <<setup, daemons, subs, watching, up, open, cut, main, peer, running, hand, bounds>>

\* The end of the loop: running_ is false (the sockets are or will be shut
\* down by who cleared it), or the end of the file.
LocalEnd(d) ==
  /\ local[d] = "leave" \/ (local[d] = "recv" /\ (d \notin running \/ (down[d] = <<>> /\ d \notin open)))
  /\ local' = [local EXCEPT ![d] = "done"]
  /\ running' = running \ {d} /\ cut' = TRUE
  /\ UNCHANGED <<setup, daemons, socks, wire, main, peer, hand, echo, bounds>>

-----------------------------------------------------------------------------
(* peer_loop                                                               *)

\* peer_accepted: the first frame.
PeerHello(d) ==
  /\ peer[d] = "hello" /\ wire[Other(d)] # <<>>
  /\ wire' = [wire EXCEPT ![Other(d)] = Tail(@)]
  /\ peer' = [peer EXCEPT ![d] = IF d \in setup.accepts THEN Loop(d) ELSE "leave"]
  /\ UNCHANGED <<setup, daemons, socks, cut, main, local, running, hand, echo, bounds>>

\* Mutant: nothing is filtered on arrival.
WantedBug(d, f) == TRUE

\* forwards_topic and forwards_key, on arrival.
Wanted(d, f) == (IF f.kind = "PUBLISH" THEN f.arg.topic ELSE KEY) \in Carries(d)

PeerFrame(d) ==
  /\ peer[d] = "recv" /\ wire[Other(d)] # <<>>
  /\ LET f == Head(wire[Other(d)])
     IN  /\ hand' = [hand EXCEPT ![d] = IF Wanted(d, f) THEN f ELSE Nothing]
         /\ peer' = [peer EXCEPT ![d] = IF ~Wanted(d, f) THEN Loop(d)
                                        ELSE IF f.kind = "PUBLISH" THEN "send" ELSE "expect"]
  /\ wire' = [wire EXCEPT ![Other(d)] = Tail(@)]
  /\ UNCHANGED <<setup, daemons, socks, cut, main, local, running, echo, bounds>>

ExpectEcho(d, from, next) ==
  /\ peer[d] = from /\ peer' = [peer EXCEPT ![d] = next]
  /\ echo' = [echo EXCEPT ![d][hand[d].arg] = @ + 1]
  /\ UNCHANGED <<setup, daemons, socks, wire, cut, main, local, running, hand, bounds>>

SendLocal(d, from, next, kept) ==
  /\ peer[d] = from /\ peer' = [peer EXCEPT ![d] = next]
  /\ d \in open => Len(up[d]) < Cap
  /\ up' = IF d \in open THEN [up EXCEPT ![d] = Append(@, hand[d])] ELSE up
  /\ hand' = [hand EXCEPT ![d] = kept]
  /\ UNCHANGED <<setup, daemons, subs, watching, down, open, wire, cut, main, local, running, echo, bounds>>

\* Mutants: the echo is expected once the value is sent, or not at all.
ApplyLateBug(d) ==
  \/ SendLocal(d, "expect", "send", hand[d])
  \/ hand[d].kind # "PUBLISH" /\ ExpectEcho(d, "send", Loop(d))
  \/ hand[d].kind = "PUBLISH" /\ SendLocal(d, "send", Loop(d), Nothing)
ApplyNoEchoBug(d) == \E pc \in {"expect", "send"} : SendLocal(d, pc, Loop(d), Nothing)

\* expect_echo for a value, then its send.
Apply(d) == ExpectEcho(d, "expect", "send") \/ SendLocal(d, "send", Loop(d), Nothing)

\* A dead connection may end with an error before what was under way is read.
PeerEnd(d) ==
  /\ \/ peer[d] = "leave"
     \/ peer[d] \in {"hello", "recv"} /\ cut
     \/ peer[d] = "recv" /\ d \notin running
  /\ peer' = [peer EXCEPT ![d] = "done"]
  /\ running' = running \ {d} /\ open' = open \ {d}
  /\ UNCHANGED <<setup, daemons, subs, watching, up, down, wire, cut, main, local, hand, echo, bounds>>

-----------------------------------------------------------------------------
DaemonNext(d) == Serve(d) \/ Subscribe(d) \/ Replay(d)
MainNext(d)  == Lost(d) \/ Exit(d)
LocalNext(d) == LocalFrame(d) \/ LocalEnd(d)
PeerNext(d)  == PeerHello(d) \/ PeerFrame(d) \/ Apply(d) \/ PeerEnd(d)

Next ==
  \/ \E d \in Devices : \/ User(d) \/ DaemonNext(d) \/ ServeOld(d)
                        \/ MainNext(d) \/ Signal(d)
                        \/ LocalNext(d) \/ PeerNext(d)
  \/ HangUp \/ Establish

Spec == Init /\ [][Next]_vars

\* Daemons serve and the links' threads run; nothing else need happen.
FairSpec == Spec /\ \A d \in Devices :
  /\ WF_vars(DaemonNext(d)) /\ WF_vars(ServeOld(d)) /\ WF_vars(MainNext(d))
  /\ WF_vars(LocalNext(d)) /\ WF_vars(PeerNext(d))

-----------------------------------------------------------------------------
\* The daemons' subscriptions and retained values; the rest.
SubsOK ==
  /\ subs \in [Devices -> [Topics -> {"none", "added", "done"}]]
  /\ retained \in [Devices -> SUBSET Topics]
LinkOK ==
  /\ store \in [Devices -> Values \cup {NONE}]
  /\ watching \in [Devices -> BOOLEAN]
  /\ open \subseteq Devices /\ running \subseteq Devices /\ cut \in BOOLEAN
  /\ main \in [Devices -> {"off", "run"}]
  /\ local \in [Devices -> {"off", "recv", "leave", "done"}]
  /\ peer \in [Devices -> {"off", "hello", "recv", "expect", "send", "leave", "done"}]
  /\ echo \in [Devices -> [Marks -> Nat]]
  /\ \A d \in Devices : Len(wire[d]) <= Cap /\ Len(up[d]) <= Cap /\ Len(down[d]) <= Cap
TypeOK == LinkOK /\ SubsOK

\* Both links are up and there is nothing left to do.
Linked == ~cut /\ \A d \in Devices :
  /\ main[d] = "run" /\ local[d] = "recv" /\ peer[d] = "recv" /\ d \in open
  /\ up[d] = <<>> /\ down[d] = <<>> /\ old[d] = <<>> /\ wire[d] = <<>>

Unlinked == \A d \in Devices : main[d] = "off" /\ up[d] = <<>> /\ old[d] = <<>>

\* Echo suppression balances (link.hpp:134): once everything has arrived, no
\* expectation is left that would swallow a later, genuine change, whatever
\* writes crossed on the way and whatever a dead session left behind.
NoLeftoverEcho == Linked => \A d \in Devices : \A x \in Marks : echo[d][x] = 0

Agree == \A d, e \in Devices : store[d] = store[e]
Single == /\ Linked /\ Cardinality(wrote) <= 1
          /\ \A d \in Devices : KEY \in Carries(d)

\* A key that only one device writes arrives (link.hpp:73): when the links
\* that started on it are idle, both daemons have its last value, including
\* one set before the links were up.
OwnerConverges == (Single /\ sessions = 1) => Agree

\* TODO.md:47 asks no more than one owning device for the devices to agree.
OwnerAlwaysConverges == Single => Agree

\* A device gets only what its link was told to carry, from a peer it accepted
\* (link.hpp:208).  In the first session, before a dead link's frames can get
\* into the way, it gets no message of its own, and a message it is sent as it
\* is published comes once and in the order of publication.  A retained value
\* that the peer's daemon replays to its link (number 0) is bound by the first
\* three, not by the order: it may be an old copy of a message that came.
OnlyAgreed == \A d \in Devices :
  /\ \A i \in DOMAIN up[d] : up[d][i].kind \in {"SET", "DEL", "PUBLISH"} =>
        d \in setup.accepts /\ Wanted(d, up[d][i])
  /\ sessions = 1 => \A i, j \in DOMAIN heard[d] :
        /\ heard[d][i].from # d /\ heard[d][i].topic \in Carries(d)
        /\ i < j /\ heard[d][j].id # 0 => heard[d][i].id < heard[d][j].id

\* link.hpp:131, of every session: "Publishes need no such care - route_publish
\* is noLocal".  No device gets its own message back over the links.
NeverReturned == \A d \in Devices : \A i \in DOMAIN heard[d] : heard[d][i].from # d

\* The traffic ends (link.hpp:127): a value is not passed back and forth for
\* ever, and once a connection is lost both processes end, wherever their
\* threads wait.
Settles == <>[](Linked \/ Unlinked)
=============================================================================
