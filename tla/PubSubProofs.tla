---------------------------- MODULE PubSubProofs ----------------------------
(***************************************************************************)
(* PubSub's safety properties, for any number of connections, names,       *)
(* descriptors, frames and faults; and that the level-by-level matcher     *)
(* means what topic patterns say.                                          *)
(***************************************************************************)
EXTENDS PubSub, FiniteSetTheorems, FunctionTheorems, SequenceTheorems,
        WellFoundedInduction, TLAPS

Verbs == {"publish", "replay", "answer"}
Delivered == [id : Messages \cup {<<0, 0>>}, topic : Topics \cup {NONE}, verb : Verbs,
              to : Clients, whole : BOOLEAN]

\* TypeOK, and that an inbox is a sequence of frames.
Types == TypeOK /\ inbox \in [Clients -> Seq(Delivered)]

\* Client::fd and the kernel's table are inverse to each other while a
\* connection is up, and a connection whose descriptor was closed is down.
SocketInv ==
  /\ \A c \in Clients : fd[c] = NONE <=> pc[c] \in {"new", "leave", "gone"}
  /\ \A c \in Clients : fd[c] # NONE => sock[fd[c]] = c
  /\ \A d \in Fds : sock[d] # NONE => fd[sock[d]] = d
  /\ \A c \in Clients : pc[c] \in {"leave", "gone"} => c \in broken

\* Whoever holds a connection's send_mu writes to the descriptor that the
\* connection still has.
SendInv ==
  \A d \in Clients : send_mu[d] # NONE =>
    /\ pc[send_mu[d]] = "write" /\ d \in targets[send_mu[d]]
    /\ fd[d] # NONE /\ out[send_mu[d]] = fd[d]

\* What a handler holds at each of its stages.
HandlerHolds(c) ==
  /\ pc[c] = "new" => topics[c] = {}
  /\ pc[c] \notin {"send", "write"} => targets[c] = {}
  /\ pc[c] \notin {"retained", "send", "write"} => msg[c] = NoFrame
  /\ pc[c] = "retained" => msg[c].verb = "replay" /\ msg[c].topic \in Topics
  /\ msg[c].verb = "publish" =>
       /\ msg[c].topic \in Topics /\ c \notin targets[c]
       /\ msg[c].id \in Messages /\ msg[c].id[1] = c /\ msg[c].id[2] <= frames
HandlerInv == \A c \in Clients : HandlerHolds(c)

\* A partial frame is the last one on a connection that was shut down.
PartialInv ==
  \A c \in Clients : \A i \in DOMAIN inbox[c] :
    ~inbox[c][i].whole => i = Len(inbox[c]) /\ c \in broken

\* A message that is owed has not been given up: it is the publisher's, not a
\* replay, that is still to come.
OwedInv ==
  \A o \in owed :
    /\ pc[o[2]] # "new"
    /\ \/ o[2] \in broken \/ Received(o[2], o[1])
       \/ \E c \in Clients : msg[c].verb = "publish" /\ msg[c].id = o[1] /\ o[2] \in targets[c]

\* What was delivered is older than what its publisher has still to deliver.
OlderInv ==
  \A c \in Clients : \A i \in DOMAIN inbox[c] : inbox[c][i].verb = "publish" =>
    /\ inbox[c][i].id \in Messages /\ inbox[c][i].id[2] <= frames
    /\ LET q == inbox[c][i].id[1] IN
         msg[q].verb = "publish" /\ c \in targets[q] => inbox[c][i].id[2] < msg[q].id[2]

Conn == Types /\ SocketInv /\ SendInv /\ HandlerInv
IInv == /\ Conn /\ SubscriptionsMirrored /\ NoMisdelivery /\ PartialInv
        /\ OwedInv /\ OlderInv /\ PublishedInOrderToOthers

-----------------------------------------------------------------------------
(* The matcher                                                             *)

\* A set of natural numbers that is not empty has a least member: what the
\* inductions of this module use.
LEMMA LeastNat ==
  ASSUME NEW T, T \subseteq Nat, T # {}
  PROVE  \E m \in T : \A k \in T : m <= k
<1> DEFINE R == OpToRel(<, Nat)
<1>1. IsWellFoundedOn(R, Nat)
    BY NatLessThanWellFounded
<1>2. ASSUME NEW x \in Nat, NEW y \in Nat, y < x PROVE <<y, x>> \in R
    BY <1>2 DEF OpToRel
<1> HIDE DEF R
<1>3. PICK x \in T : \A y \in T : ~(<<y, x>> \in R)
    BY <1>1, WFMin
<1>4. \A y \in T : ~(y < x)
    BY <1>2, <1>3, Zenon
<1> QED
    BY <1>4

\* What topic_matches does at one level, with f for the levels that follow.
LevelMatches(p, t, f, i) ==
  IF i > Len(p) THEN i > Len(t)
  ELSE p[i] = "*" \/ (i <= Len(t) /\ p[i] \in {"+", t[i]} /\ f[i + 1])

\* The matcher's recursion ends: there is a function that satisfies it, built
\* from the last level to the first.
LEMMA MatcherExists ==
  ASSUME NEW p \in Seq(STRING), NEW t \in Seq(STRING)
  PROVE  \E g \in [1 .. Len(p) + 1 -> BOOLEAN] :
            \A i \in 1 .. Len(p) + 1 : g[i] = LevelMatches(p, t, g, i)
<1> DEFINE L == Len(p) + 1
           Built(k) == \E g \in [k .. L -> BOOLEAN] :
                          \A i \in k .. L : g[i] = LevelMatches(p, t, g, i)
           B == {k \in 1 .. L : Built(k)}
<1>1. Len(p) \in Nat /\ L \in Nat /\ L >= 1 /\ L = Len(p) + 1 /\ Len(t) \in Nat
    OBVIOUS
<1> HIDE DEF L
<1>2. Built(L)
  <2> DEFINE g == [i \in L .. L |-> L > Len(t)]
  <2>1. g \in [L .. L -> BOOLEAN]
      OBVIOUS
  <2>2. \A i \in L .. L : i = L
      BY <1>1
  <2>3. \A i \in L .. L : g[i] = LevelMatches(p, t, g, i)
      BY <1>1, <2>2 DEF LevelMatches
  <2> QED
      BY <2>1, <2>3
<1>3. ASSUME NEW k \in 2 .. L, Built(k) PROVE Built(k - 1)
  <2>1. PICK g \in [k .. L -> BOOLEAN] : \A i \in k .. L : g[i] = LevelMatches(p, t, g, i)
      BY <1>3
  <2> DEFINE v == LevelMatches(p, t, g, k - 1)
             h == [i \in k - 1 .. L |-> IF i = k - 1 THEN v ELSE g[i]]
  <2>2. k - 1 \in k - 1 .. L /\ k \in k .. L /\ k - 1 # k /\ k - 1 + 1 = k /\ k - 1 <= Len(p)
      BY <1>1
  <2>3. v \in BOOLEAN
    <3> DEFINE w == p[k - 1] = "*" \/ (k - 1 <= Len(t) /\ p[k - 1] \in {"+", t[k - 1]} /\ g[k - 1 + 1])
    <3>1. w \in BOOLEAN
        BY Zenon
    <3>2. ~(k - 1 > Len(p))
        BY <2>2, <1>1
    <3>3. v = w
        BY <3>2, Zenon DEF LevelMatches
    <3> QED
        BY <3>1, <3>3
  <2>4. h \in [k - 1 .. L -> BOOLEAN]
    <3> HIDE DEF v
    <3>1. \A i \in k - 1 .. L : i # k - 1 => i \in k .. L
        BY <1>1
    <3> QED
        BY <2>3, <3>1
  <2>5. \A i \in k .. L : h[i] = g[i] /\ i \in k - 1 .. L
      BY <1>1
  <2>6. h[k - 1] = LevelMatches(p, t, h, k - 1)
      BY <2>2, <2>5 DEF LevelMatches
  <2>7. ASSUME NEW i \in k .. L PROVE h[i] = LevelMatches(p, t, h, i)
    <3>1. g[i] = LevelMatches(p, t, g, i)
        BY <2>1
    <3>2. LevelMatches(p, t, g, i) = LevelMatches(p, t, h, i)
      <4>1. CASE i > Len(p)
          BY <4>1 DEF LevelMatches
      <4>2. CASE i <= Len(p)
        <5>1. h[i + 1] = g[i + 1]
            BY <4>2, <2>5, <1>1
        <5> QED
            BY <5>1, <4>2, <1>1 DEF LevelMatches
      <4> QED
          BY <4>1, <4>2, <1>1
    <3> QED
        BY <3>1, <3>2, <2>5
  <2>8. \A i \in k - 1 .. L : i = k - 1 \/ i \in k .. L
      BY <1>1
  <2> HIDE DEF h
  <2> QED
      BY <2>4, <2>6, <2>7, <2>8
<1> HIDE DEF Built
<1>4. B \subseteq Nat /\ B # {}
    BY <1>1, <1>2
<1>5. PICK m \in B : \A k \in B : m <= k
    BY <1>4, LeastNat
<1>6. m = 1
  <2> SUFFICES ASSUME m # 1 PROVE FALSE
      OBVIOUS
  <2>1. m \in 2 .. L /\ Built(m) /\ m - 1 \in 1 .. L
      BY <1>1
  <2>2. Built(m - 1)
      BY <2>1, <1>3
  <2> QED
      BY <2>1, <2>2, <1>5
<1> QED
    BY <1>6 DEF L, Built

\* topic_matches is its recursion's value at the first level.
LEMMA MatcherUnfolds ==
  ASSUME NEW p \in Seq(STRING), NEW t \in Seq(STRING)
  PROVE  \E f : /\ topic_matches(p, t) = f[1]
                /\ \A i \in 1 .. Len(p) + 1 : f[i] = LevelMatches(p, t, f, i)
<1> DEFINE Dom == 1 .. Len(p) + 1
           f == CHOOSE g : g = [i \in Dom |-> LevelMatches(p, t, g, i)]
<1>1. PICK g \in [Dom -> BOOLEAN] : \A i \in Dom : g[i] = LevelMatches(p, t, g, i)
    BY MatcherExists
<1>2. g = [i \in Dom |-> LevelMatches(p, t, g, i)]
    BY <1>1
<1>3. f = [i \in Dom |-> LevelMatches(p, t, f, i)]
    BY <1>2
<1>4. topic_matches(p, t) = f[1]
    BY DEF topic_matches, LevelMatches
<1> HIDE DEF f
<1> QED
    BY <1>3, <1>4

\* Level by level or by its meaning, a pattern matches the same topics
\* (topic_matches against Covers), for names of any length.
THEOREM TopicMatchesMeansCovers ==
  \A p, t \in Seq(STRING) : topic_matches(p, t) <=> Covers(p, t)
<1> SUFFICES ASSUME NEW p \in Seq(STRING), NEW t \in Seq(STRING)
             PROVE  topic_matches(p, t) <=> Covers(p, t)
    OBVIOUS
<1> DEFINE L == Len(p) + 1
           stars == {i \in DOMAIN p : p[i] = "*"}
<1>1. PICK f : /\ topic_matches(p, t) = f[1]
               /\ \A i \in 1 .. L : f[i] = LevelMatches(p, t, f, i)
    BY MatcherUnfolds
<1>2. /\ Len(p) \in Nat /\ Len(t) \in Nat /\ L = Len(p) + 1
      /\ DOMAIN p = 1 .. Len(p) /\ DOMAIN t = 1 .. Len(t)
    OBVIOUS
<1>3. PICK s \in 1 .. L : /\ \A i \in 1 .. s - 1 : p[i] # "*"
                          /\ s < L => p[s] = "*"
  <2>1. CASE stars = {}
      BY <2>1, <1>2
  <2>2. CASE stars # {}
    <3>1. stars \subseteq Nat
        BY <1>2
    <3>2. PICK m \in stars : \A k \in stars : m <= k
        BY <2>2, <3>1, LeastNat
    <3> QED
        BY <3>2, <1>2
  <2> QED
      BY <2>1, <2>2
<1>4. stars = {} <=> s = L
    BY <1>2, <1>3
<1>5. {i \in DOMAIN p : \A j \in stars : i < j} = 1 .. s - 1
    BY <1>2, <1>3
<1>6. Covers(p, t) <=> /\ \A i \in 1 .. s - 1 : i <= Len(t) /\ p[i] \in {"+", t[i]}
                       /\ s = L => Len(p) = Len(t)
  <2>1. Covers(p, t) <=>
           /\ \A i \in {k \in DOMAIN p : \A j \in stars : k < j} : i \in DOMAIN t /\ p[i] \in {"+", t[i]}
           /\ stars = {} => Len(p) = Len(t)
      BY Zenon DEF Covers
  <2>2. \A i \in 1 .. s - 1 : i \in DOMAIN t <=> i <= Len(t)
      BY <1>2
  <2> HIDE DEF stars
  <2> QED
      BY <2>1, <2>2, <1>4, <1>5
<1> HIDE DEF stars, L
<1>7. \A i \in 1 .. s - 1 : f[i] <=> i <= Len(t) /\ p[i] \in {"+", t[i]} /\ f[i + 1]
  <2> TAKE i \in 1 .. s - 1
  <2>1. i \in 1 .. L /\ ~(i > Len(p)) /\ p[i] # "*"
      BY <1>2, <1>3
  <2>2. f[i] = LevelMatches(p, t, f, i)
      BY <2>1, <1>1
  <2> QED
      BY <2>1, <2>2, Zenon DEF LevelMatches
<1>8. f[s] <=> (s = L => L > Len(t))
  <2>1. f[s] = LevelMatches(p, t, f, s)
      BY <1>1
  <2>2. CASE s = L
    <3>1. s > Len(p)
        BY <2>2, <1>2
    <3>2. f[s] = (s > Len(t))
        BY <2>1, <3>1, Zenon DEF LevelMatches
    <3> QED
        BY <2>2, <3>2
  <2>3. CASE s # L
    <3>1. ~(s > Len(p)) /\ p[s] = "*"
        BY <2>3, <1>2, <1>3
    <3> QED
        BY <2>1, <2>3, <3>1, Zenon DEF LevelMatches
  <2> QED
      BY <2>2, <2>3
<1>9. ASSUME f[1] PROVE Covers(p, t)
  <2> DEFINE Failed == {i \in 1 .. s : ~f[i]}
  <2>1. Failed = {}
    <3> SUFFICES ASSUME Failed # {} PROVE FALSE
        OBVIOUS
    <3>1. Failed \subseteq Nat
        OBVIOUS
    <3>2. PICK m \in Failed : \A k \in Failed : m <= k
        BY <3>1, LeastNat
    <3>3. m # 1 /\ m - 1 \in 1 .. s - 1 /\ m - 1 + 1 = m
        BY <1>9, <3>2
    <3>4. f[m - 1]
        BY <3>2, <3>3
    <3> QED
        BY <3>2, <3>3, <3>4, <1>7
  <2>2. \A i \in 1 .. s - 1 : i <= Len(t) /\ p[i] \in {"+", t[i]}
    <3>1. \A i \in 1 .. s - 1 : f[i]
        BY <2>1
    <3> QED
        BY <3>1, <1>7
  <2>3. s = L => Len(p) = Len(t)
    <3> SUFFICES ASSUME s = L PROVE Len(p) = Len(t)
        OBVIOUS
    <3>1. L > Len(t)
        BY <2>1, <1>8
    <3>2. Len(p) # 0 => Len(p) <= Len(t)
        BY <2>2, <1>2
    <3> QED
      <4>1. Len(p) + 1 > Len(t) /\ Len(p) \in Nat /\ Len(t) \in Nat
          BY <3>1, <1>2
      <4>2. CASE Len(p) = 0
          BY <4>1, <4>2
      <4>3. CASE Len(p) # 0
          BY <3>2, <4>1, <4>3
      <4> QED
          BY <4>2, <4>3
  <2> QED
      BY <2>2, <2>3, <1>6
<1>10. ASSUME Covers(p, t) PROVE f[1]
  <2> DEFINE Matched == {k \in 1 .. s : f[k]}
  <2>1. s \in Matched
    <3>1. s = L => L > Len(t)
        BY <1>10, <1>6, <1>2
    <3> QED
        BY <3>1, <1>8
  <2>2. Matched \subseteq Nat /\ Matched # {}
      BY <2>1
  <2>3. PICK m \in Matched : \A k \in Matched : m <= k
      BY <2>2, LeastNat
  <2>4. m = 1
    <3> SUFFICES ASSUME m # 1 PROVE FALSE
        OBVIOUS
    <3>1. m - 1 \in 1 .. s - 1 /\ m - 1 + 1 = m /\ m - 1 \in 1 .. s
        BY <1>2
    <3>2. f[m - 1]
        BY <3>1, <1>7, <1>10, <1>6
    <3> QED
        BY <3>1, <3>2, <2>3
  <2> QED
      BY <2>4
<1> QED
    BY <1>1, <1>9, <1>10, Zenon

-----------------------------------------------------------------------------
(* The connections                                                         *)

\* A function has at most as many values on a finite set as the set has members.
LEMMA FewValues ==
  ASSUME NEW S, IsFiniteSet(S), NEW f
  PROVE  /\ IsFiniteSet({f[x] : x \in S})
         /\ Cardinality({f[x] : x \in S}) <= Cardinality(S)
<1> DEFINE T == {f[x] : x \in S}
           g == [x \in S |-> f[x]]
<1>1. g \in Surjection(S, T)
    BY DEF Surjection
<1> HIDE DEF g
<1> QED
    BY <1>1, FS_Surjection

\* accept finds a free descriptor: the connections that are up use fewer than
\* there are.
LEMMA FreeFd ==
  ASSUME NEW c \in Clients, Conn, pc[c] = "new"
  PROVE  NewFd \in Fds /\ sock[NewFd] = NONE
<1> DEFINE Others == Clients \ {c}
           Used == {fd[x] : x \in Others}
           Free == {d \in Fds : sock[d] = NONE}
<1>1. IsFiniteSet(Clients) /\ Cardinality(Clients) = MaxClients
    BY PubSubAssumption, FS_Interval DEF Clients
<1>2. IsFiniteSet(Others) /\ Cardinality(Others) = MaxClients - 1
    BY <1>1, FS_RemoveElement
<1>3. IsFiniteSet(Used) /\ Cardinality(Used) <= MaxClients - 1
    BY <1>2, FewValues
<1> HIDE DEF Used
<1>4. ~(Fds \subseteq Used)
  <2> SUFFICES ASSUME Fds \subseteq Used PROVE FALSE
      OBVIOUS
  <2>1. Cardinality(Fds) <= Cardinality(Used)
      BY <1>3, FS_Subset
  <2> QED
      BY <2>1, <1>3, PubSubAssumption, FS_CardinalityType
<1>5. PICK d \in Fds : d \notin Used
    BY <1>4
<1>6. sock[d] = NONE
  <2> SUFFICES ASSUME sock[d] # NONE PROVE FALSE
      OBVIOUS
  <2>1. sock[d] \in Clients /\ fd[sock[d]] = d
      BY DEF Conn, Types, TypeOK, SocketInv
  <2>2. fd[c] = NONE /\ d # NONE
      BY PubSubAssumption DEF Conn, SocketInv
  <2> QED
      BY <2>1, <2>2, <1>5 DEF Used
<1>7. Free \subseteq Nat /\ Free # {}
    BY <1>6, PubSubAssumption
<1>8. PICK e \in Free : \A k \in Free : e <= k
    BY <1>7, LeastNat
<1>9. e \in Fds /\ sock[e] = NONE /\ \A k \in Fds : sock[k] = NONE => e <= k
    BY <1>8
<1> QED
    BY <1>9 DEF NewFd

\* One thread has the send_mu of one connection, and its descriptor leads there.
LEMMA WriterFacts ==
  ASSUME NEW c \in Clients, NEW d \in Clients, Conn, send_mu[d] = c
  PROVE  /\ pc[c] = "write" /\ d \in targets[c] /\ out[c] = fd[d] /\ out[c] \in Fds
         /\ sock[out[c]] = d
         /\ \A e \in Clients : send_mu[e] = c => e = d
<1>1. c # NONE
    BY PubSubAssumption DEF Clients
<1>2. pc[c] = "write" /\ d \in targets[c] /\ fd[d] # NONE /\ out[c] = fd[d]
    BY <1>1 DEF Conn, SendInv
<1>3. fd[d] \in Fds /\ sock[fd[d]] = d
    BY <1>2 DEF Conn, Types, TypeOK, SocketInv
<1>4. ASSUME NEW e \in Clients, send_mu[e] = c PROVE e = d
  <2>1. fd[e] # NONE /\ out[c] = fd[e]
      BY <1>1, <1>4 DEF Conn, SendInv
  <2>2. sock[fd[e]] = e
      BY <2>1 DEF Conn, SocketInv
  <2> QED
      BY <2>1, <2>2, <1>2, <1>3
<1> QED
    BY <1>2, <1>3, <1>4

\* The daemon starts in IInv.
LEMMA InitIInv == Init => IInv
<1> SUFFICES ASSUME Init PROVE IInv
    OBVIOUS
<1> USE DEF Init
<1>1. NoFrame \in Frame
    BY DEF NoFrame, Frame
<1>2. Types
  <2>1. \A c \in Clients : inbox[c] = <<>> /\ DOMAIN inbox[c] = {}
      OBVIOUS
  <2>2. inbox \in [Clients -> Seq(Delivered)]
      OBVIOUS
  <2>3. 0 \in 0 .. MaxFrames /\ 0 \in 0 .. MaxFaults
      BY PubSubAssumption
  <2>4. msg \in [Clients -> Frame]
      BY <1>1
  <2> HIDE DEF NoFrame
  <2> QED
      BY <2>1, <2>2, <2>3, <2>4 DEF Types, TypeOK
<1>3. SocketInv /\ SendInv
    BY DEF SocketInv, SendInv
<1>4. HandlerInv
    BY DEF HandlerInv, HandlerHolds, NoFrame
<1>5. SubscriptionsMirrored
    BY DEF SubscriptionsMirrored, Served
<1>6. NoMisdelivery /\ PartialInv /\ OlderInv /\ PublishedInOrderToOthers
  <2>1. \A c \in Clients : DOMAIN inbox[c] = {}
      OBVIOUS
  <2> QED
      BY <2>1 DEF NoMisdelivery, PartialInv, OlderInv, PublishedInOrderToOthers
<1>7. OwedInv
    BY DEF OwedInv
<1> QED
    BY <1>2, <1>3, <1>4, <1>5, <1>6, <1>7 DEF IInv, Conn

\* A step that writes nothing and routes nothing keeps what was delivered and
\* what is owed, if it ends no fan-out before its receivers are served or down.
LEMMA QuietStep ==
  ASSUME IInv, Conn', UNCHANGED <<inbox, owed>>, broken \subseteq broken', frames <= frames',
         \A q \in Clients : msg'[q].verb = "publish" =>
            msg[q].verb = "publish" /\ msg'[q].id = msg[q].id /\ targets'[q] \subseteq targets[q],
         \A q, d \in Clients : msg[q].verb = "publish" /\ d \in targets[q] =>
            \/ d \in broken' \/ pc[d] = "new"
            \/ msg'[q].verb = "publish" /\ msg'[q].id = msg[q].id /\ d \in targets'[q],
         \A d \in Clients : pc[d] # "new" => pc'[d] # "new"
  PROVE  NoMisdelivery' /\ PartialInv' /\ OwedInv' /\ OlderInv' /\ PublishedInOrderToOthers'
<1> USE DEF IInv
<1>1. NoMisdelivery' /\ PublishedInOrderToOthers'
    BY DEF NoMisdelivery, PublishedInOrderToOthers
<1>2. PartialInv'
    BY DEF PartialInv
<1>3. OwedInv'
  <2> SUFFICES ASSUME NEW o \in owed
               PROVE  /\ pc'[o[2]] # "new"
                      /\ \/ o[2] \in broken' \/ Received(o[2], o[1])
                         \/ \E c \in Clients : msg'[c].verb = "publish" /\ msg'[c].id = o[1]
                                                 /\ o[2] \in targets'[c]
      BY DEF OwedInv, Received
  <2>1. o[2] \in Clients
      BY DEF Conn, Types, TypeOK
  <2> QED
      BY <2>1 DEF OwedInv
<1>4. OlderInv'
  <2> SUFFICES ASSUME NEW c \in Clients, NEW i \in DOMAIN inbox[c], inbox[c][i].verb = "publish"
               PROVE  /\ inbox[c][i].id \in Messages /\ inbox[c][i].id[2] <= frames'
                      /\ LET q == inbox[c][i].id[1] IN
                           msg'[q].verb = "publish" /\ c \in targets'[q]
                              => inbox[c][i].id[2] < msg'[q].id[2]
      BY DEF OlderInv
  <2>1. /\ inbox[c][i].id \in Messages /\ inbox[c][i].id[2] <= frames
        /\ LET q == inbox[c][i].id[1] IN
             msg[q].verb = "publish" /\ c \in targets[q] => inbox[c][i].id[2] < msg[q].id[2]
      BY DEF OlderInv
  <2>2. inbox[c][i].id[1] \in Clients /\ inbox[c][i].id[2] \in Nat
      BY <2>1 DEF Messages
  <2>3. frames \in Nat /\ frames' \in Nat
      BY PubSubAssumption DEF Conn, Types, TypeOK
  <2> QED
      BY <2>1, <2>2, <2>3
<1> QED
    BY <1>1, <1>2, <1>3, <1>4


Stages == {"new", "read", "retained", "send", "write", "close", "leave", "gone"}

\* What an idle handler holds is a frame, and no publish.
LEMMA NoFrameFacts ==
  NoFrame \in Frame /\ NoFrame.verb = "answer" /\ NoFrame.id = <<0, 0>>
BY DEF NoFrame, Frame

\* A reader that holds no send_mu goes from one stage of a handler to another:
\* sockets and locks stay as they are, and so do the other readers' handlers.
LEMMA StageStep ==
  ASSUME NEW c \in Clients, Conn, UNCHANGED <<fd, sock, send_mu, out, broken>>,
         pc[c] \in {"read", "retained", "send"}, pc'[c] \in {"read", "retained", "send"},
         frames \in Nat, frames' \in Nat, frames <= frames',
         \A q \in Clients : q # c =>
            pc'[q] = pc[q] /\ targets'[q] = targets[q] /\ msg'[q] = msg[q] /\ topics'[q] = topics[q],
         HandlerHolds(c)'
  PROVE  SocketInv' /\ SendInv' /\ HandlerInv'
<1>1. SocketInv'
    BY DEF Conn, SocketInv
<1>2. SendInv'
  <2> SUFFICES ASSUME NEW d \in Clients, send_mu[d] # NONE
               PROVE  /\ pc'[send_mu[d]] = "write" /\ d \in targets'[send_mu[d]]
                      /\ fd[d] # NONE /\ out[send_mu[d]] = fd[d]
      BY DEF SendInv
  <2>1. /\ pc[send_mu[d]] = "write" /\ d \in targets[send_mu[d]]
        /\ fd[d] # NONE /\ out[send_mu[d]] = fd[d]
      BY DEF Conn, SendInv
  <2>2. send_mu[d] \in Clients
      BY DEF Conn, Types, TypeOK
  <2> QED
      BY <2>1, <2>2
<1>3. HandlerInv'
  <2> SUFFICES ASSUME NEW q \in Clients, q # c PROVE HandlerHolds(q)'
      BY DEF HandlerInv
  <2>1. HandlerHolds(q) /\ (msg[q].id \in Messages => msg[q].id[2] \in Nat)
      BY DEF Conn, HandlerInv, Messages
  <2> QED
      BY <2>1 DEF HandlerHolds
<1> QED
    BY <1>1, <1>2, <1>3

\* accept: the new connection has a descriptor of its own.
LEMMA AcceptStep == ASSUME NEW c \in Clients, IInv, Accept(c) PROVE IInv'
<1> USE DEF IInv, Accept, Join
<1>1. NewFd \in Fds /\ sock[NewFd] = NONE /\ NewFd # NONE
    BY FreeFd, PubSubAssumption
<1>2. Types'
    BY <1>1 DEF Conn, Types, TypeOK, tables, handler
<1>3. SocketInv'
  <2> DEFINE e == NewFd
  <2>1. e \in Fds /\ sock[e] = NONE /\ e # NONE /\ fd[c] = NONE
      BY <1>1 DEF Conn, SocketInv
  <2>2. /\ sock' = [sock EXCEPT ![e] = c] /\ fd' = [fd EXCEPT ![c] = e]
        /\ pc' = [pc EXCEPT ![c] = "read"] /\ broken' = broken
      OBVIOUS
  <2> HIDE DEF e
  <2>3. \A d \in Fds : sock'[d] # NONE => fd'[sock'[d]] = d
    <3> SUFFICES ASSUME NEW d \in Fds, sock'[d] # NONE PROVE fd'[sock'[d]] = d
        OBVIOUS
    <3>1. CASE d = e
        BY <3>1, <2>1, <2>2 DEF Conn, Types, TypeOK
    <3>2. CASE d # e
      <4>1. sock'[d] = sock[d] /\ sock[d] \in Clients /\ fd[sock[d]] = d /\ d # NONE
          BY <3>2, <2>2, PubSubAssumption DEF Conn, Types, TypeOK, SocketInv
      <4> QED
          BY <4>1, <2>1, <2>2 DEF Conn, Types, TypeOK
    <3> QED
        BY <3>1, <3>2
  <2>4. \A q \in Clients : fd'[q] # NONE => sock'[fd'[q]] = q
    <3> SUFFICES ASSUME NEW q \in Clients, q # c, fd[q] # NONE PROVE sock'[fd[q]] = q
        BY <2>1, <2>2 DEF Conn, Types, TypeOK
    <3>1. sock[fd[q]] = q /\ q # NONE /\ fd[q] \in Fds
        BY PubSubAssumption DEF Conn, Types, TypeOK, SocketInv, Clients
    <3> QED
        BY <3>1, <2>1, <2>2 DEF Conn, Types, TypeOK
  <2> QED
      BY <2>1, <2>2, <2>3, <2>4 DEF Conn, Types, TypeOK, SocketInv
<1>4. SendInv'
    BY <1>1, PubSubAssumption DEF Conn, Types, TypeOK, SocketInv, SendInv, handler
<1>5. HandlerInv'
    BY DEF Conn, Types, TypeOK, HandlerInv, HandlerHolds, handler, tables
<1>6. Conn'
    BY <1>2, <1>3, <1>4, <1>5 DEF Conn
<1>7. SubscriptionsMirrored'
    BY DEF Conn, Types, TypeOK, HandlerInv, HandlerHolds, SubscriptionsMirrored, Served, tables
<1> QED
    BY <1>6, <1>7, QuietStep DEF Conn, Types, TypeOK, handler

\* subscribe: both sides of the mirror, under one lock.
LEMMA InsertStep ==
  ASSUME NEW c \in Clients, NEW n \in Names, IInv, SubscribeInsert(c, n) PROVE IInv'
<1> USE DEF IInv
<1> DEFINE replay == [id |-> <<0, 0>>, topic |-> n, verb |-> "replay"]
<1>1. frames' \in 0 .. MaxFrames /\ frames <= frames' /\ frames' \in Nat /\ frames \in Nat
    BY PubSubAssumption DEF Conn, Types, TypeOK, SubscribeInsert, Begin
<1>2. /\ pc[c] = "read" /\ UNCHANGED <<fd, sock, send_mu, out, broken, targets, inbox, owed>>
      /\ UNCHANGED <<retained, clients, stop, faults, budget>>
      /\ subs' = [subs EXCEPT ![n] = @ \cup {c}] /\ topics' = [topics EXCEPT ![c] = @ \cup {n}]
    BY DEF SubscribeInsert, Begin
<1>3. \/ pc' = pc /\ msg' = msg
      \/ /\ n \in Topics /\ msg' = [msg EXCEPT ![c] = replay]
         /\ pc' = [pc EXCEPT ![c] = "retained"]
    BY DEF SubscribeInsert, Patterns
<1>4. n \in Topics => replay \in Frame
    BY DEF Frame
<1>5. replay.verb = "replay" /\ replay.topic = n
    OBVIOUS
<1> HIDE DEF replay
<1>6. pc' \in [Clients -> Stages] /\ msg' \in [Clients -> Frame] /\ pc'[c] \in {"read", "retained"}
  <2>1. pc \in [Clients -> Stages] /\ msg \in [Clients -> Frame]
      BY DEF Conn, Types, TypeOK, Stages
  <2>2. pc' \in [Clients -> Stages] /\ pc'[c] \in {"read", "retained"}
      BY <1>2, <1>3, <2>1 DEF Stages
  <2>3. msg' \in [Clients -> Frame]
      BY <1>3, <1>4, <2>1
  <2> QED
      BY <2>2, <2>3
<1>7. Types'
    BY <1>1, <1>2, <1>6 DEF Conn, Types, TypeOK, Stages
<1>8. msg[c] = NoFrame /\ targets[c] = {}
    BY <1>2 DEF Conn, HandlerInv, HandlerHolds
<1>9. msg[c].verb # "publish" /\ msg'[c].verb # "publish"
    BY <1>3, <1>5, <1>8, NoFrameFacts DEF Conn, Types, TypeOK
<1>10. HandlerHolds(c)'
    BY <1>2, <1>3, <1>5, <1>8, <1>9 DEF HandlerHolds, Conn, Types, TypeOK
<1>11. \A q \in Clients : q # c => pc'[q] = pc[q] /\ msg'[q] = msg[q] /\ topics'[q] = topics[q]
    BY <1>2, <1>3 DEF Conn, Types, TypeOK
<1>12. Conn'
    BY <1>1, <1>2, <1>6, <1>7, <1>10, <1>11, StageStep DEF Conn
<1>13. SubscriptionsMirrored'
    BY <1>2, <1>3 DEF Conn, Types, TypeOK, SubscriptionsMirrored, Served
<1> QED
    BY <1>1, <1>2, <1>6, <1>9, <1>11, <1>12, <1>13, QuietStep

\* The retained value's replay begins, or there is none.
LEMMA ReplayStep == ASSUME NEW c \in Clients, IInv, SubscribeReplay(c) PROVE IInv'
<1> USE DEF IInv
<1> DEFINE v == retained[msg[c].topic]
<1>1. /\ pc[c] = "retained" /\ UNCHANGED <<fd, sock, send_mu, out, broken, inbox, owed, frames>>
      /\ UNCHANGED <<topics, subs, retained, clients, stop, faults, budget>>
    BY DEF SubscribeReplay, tables
<1>2. \/ /\ pc' = [pc EXCEPT ![c] = "read"] /\ msg' = [msg EXCEPT ![c] = NoFrame]
         /\ targets' = targets
      \/ /\ v # NONE /\ pc' = [pc EXCEPT ![c] = "send"]
         /\ msg' = [msg EXCEPT ![c].id = v] /\ targets' = [targets EXCEPT ![c] = {c}]
    BY DEF SubscribeReplay
<1>3. v \in Messages \cup {NONE} /\ msg[c].verb = "replay" /\ targets[c] = {}
    BY <1>1 DEF Conn, Types, TypeOK, HandlerInv, HandlerHolds
<1>4. v # NONE => [msg[c] EXCEPT !.id = v] \in Frame /\ [msg[c] EXCEPT !.id = v].verb = "replay"
    BY <1>3 DEF Conn, Types, TypeOK, Frame
<1> HIDE DEF v
<1>5. msg' \in [Clients -> Frame] /\ msg'[c].verb # "publish" /\ (pc'[c] = "read" => msg'[c] = NoFrame)
  <2>1. msg \in [Clients -> Frame] /\ pc \in [Clients -> Stages]
      BY DEF Conn, Types, TypeOK, Stages
  <2>2. CASE msg' = [msg EXCEPT ![c] = NoFrame]
      BY <2>1, <2>2, NoFrameFacts
  <2>3. CASE v # NONE /\ msg' = [msg EXCEPT ![c].id = v] /\ pc' = [pc EXCEPT ![c] = "send"]
      BY <2>1, <2>3, <1>4
  <2> QED
      BY <2>2, <2>3, <1>2
<1>6. pc' \in [Clients -> Stages] /\ targets' \in [Clients -> SUBSET Clients]
  <2>1. pc \in [Clients -> Stages] /\ targets \in [Clients -> SUBSET Clients]
      BY DEF Conn, Types, TypeOK, Stages
  <2>2. pc' \in [Clients -> Stages]
      BY <1>2, <2>1 DEF Stages
  <2>3. targets' \in [Clients -> SUBSET Clients]
      BY <1>2, <2>1
  <2> QED
      BY <2>2, <2>3
<1>7. Types'
    BY <1>1, <1>5, <1>6 DEF Conn, Types, TypeOK, Stages
<1>8. /\ pc'[c] \in {"read", "send"} /\ (pc'[c] = "read" => targets'[c] = {})
      /\ \A q \in Clients : q # c => pc'[q] = pc[q] /\ msg'[q] = msg[q] /\ targets'[q] = targets[q]
    BY <1>2, <1>3 DEF Conn, Types, TypeOK
<1>9. HandlerHolds(c)'
    BY <1>5, <1>8 DEF HandlerHolds
<1>10. frames \in Nat /\ frames' = frames
    BY <1>1, PubSubAssumption DEF Conn, Types, TypeOK
<1>11. Conn'
    BY <1>1, <1>7, <1>8, <1>9, <1>10, StageStep DEF Conn
<1>12. SubscriptionsMirrored'
    BY <1>1, <1>8 DEF SubscriptionsMirrored, Served
<1> QED
    BY <1>1, <1>3, <1>5, <1>8, <1>10, <1>11, <1>12, QuietStep

\* unsubscribe: both sides of the mirror again.
LEMMA UnsubscribeStep ==
  ASSUME NEW c \in Clients, NEW n \in Names, IInv, Unsubscribe(c, n) PROVE IInv'
<1> USE DEF IInv
<1>1. frames' \in 0 .. MaxFrames /\ frames <= frames' /\ frames' \in Nat /\ frames \in Nat
    BY PubSubAssumption DEF Conn, Types, TypeOK, Unsubscribe, Begin
<1>2. /\ pc[c] = "read" /\ UNCHANGED <<fd, sock, send_mu, out, broken, inbox, owed>>
      /\ UNCHANGED <<pc, msg, targets, retained, clients, stop, faults, budget>>
      /\ subs' = [subs EXCEPT ![n] = @ \ {c}] /\ topics' = [topics EXCEPT ![c] = @ \ {n}]
    BY DEF Unsubscribe, Begin, handler
<1>3. Types'
    BY <1>1, <1>2 DEF Conn, Types, TypeOK
<1>4. msg[c] = NoFrame /\ targets[c] = {}
    BY <1>2 DEF Conn, HandlerInv, HandlerHolds
<1>5. HandlerHolds(c)'
    BY <1>2, <1>4, NoFrameFacts DEF HandlerHolds
<1>6. \A q \in Clients : q # c => topics'[q] = topics[q]
    BY <1>2 DEF Conn, Types, TypeOK
<1>7. Conn'
    BY <1>1, <1>2, <1>3, <1>5, <1>6, StageStep DEF Conn
<1>8. SubscriptionsMirrored'
    BY <1>2 DEF Conn, Types, TypeOK, SubscriptionsMirrored, Served
<1> QED
    BY <1>1, <1>2, <1>7, <1>8, QuietStep

\* PING and INFO: a handler with one receiver, and no publish.
LEMMA AnswerStep == ASSUME NEW c \in Clients, IInv, Answer(c) PROVE IInv'
<1> USE DEF IInv
<1>1. frames' \in 0 .. MaxFrames /\ frames <= frames' /\ frames' \in Nat /\ frames \in Nat
    BY PubSubAssumption DEF Conn, Types, TypeOK, Answer, Begin
<1>2. /\ pc[c] = "read" /\ UNCHANGED <<fd, sock, send_mu, out, broken, inbox, owed>>
      /\ UNCHANGED <<topics, subs, retained, clients, stop, faults, budget>>
      /\ targets' = [targets EXCEPT ![c] = {c}] /\ msg' = [msg EXCEPT ![c] = NoFrame]
      /\ pc' = [pc EXCEPT ![c] = "send"]
    BY DEF Answer, Begin, tables
<1>3. msg' \in [Clients -> Frame]
    BY <1>2, NoFrameFacts DEF Conn, Types, TypeOK
<1>4. Types'
    BY <1>1, <1>2, <1>3 DEF Conn, Types, TypeOK
<1>5. /\ pc'[c] = "send" /\ msg'[c] = NoFrame
      /\ \A q \in Clients : q # c => pc'[q] = pc[q] /\ msg'[q] = msg[q] /\ targets'[q] = targets[q]
    BY <1>2 DEF Conn, Types, TypeOK
<1>6. HandlerHolds(c)'
    BY <1>5, NoFrameFacts DEF HandlerHolds
<1>7. Conn'
    BY <1>1, <1>2, <1>4, <1>5, <1>6, StageStep DEF Conn
<1>8. SubscriptionsMirrored'
    BY <1>2, <1>5 DEF SubscriptionsMirrored, Served
<1>9. msg[c].verb # "publish"
    BY <1>2, NoFrameFacts DEF Conn, HandlerInv, HandlerHolds
<1> QED
    BY <1>1, <1>2, <1>5, <1>7, <1>8, <1>9, NoFrameFacts, QuietStep

\* The handler returns with nobody left to send to; a publish may be retained.
LEMMA FinishStep == ASSUME NEW c \in Clients, IInv, Finish(c) PROVE IInv'
<1> USE DEF IInv
<1>1. /\ pc[c] = "send" /\ UNCHANGED <<fd, sock, send_mu, out, broken, inbox, owed, frames>>
      /\ UNCHANGED <<topics, subs, targets, clients, stop, faults, budget>>
      /\ msg' = [msg EXCEPT ![c] = NoFrame] /\ targets[c] = {}
      /\ pc' = [pc EXCEPT ![c] = "read"]
    BY DEF Finish
<1>2. retained' \in [Topics -> Messages \cup {NONE}]
  <2>1. msg[c].verb = "publish" => msg[c].id \in Messages
      BY DEF Conn, HandlerInv, HandlerHolds
  <2> QED
      BY <2>1 DEF Finish, Conn, Types, TypeOK
<1>3. msg' \in [Clients -> Frame]
    BY <1>1, NoFrameFacts DEF Conn, Types, TypeOK
<1>4. Types'
    BY <1>1, <1>2, <1>3 DEF Conn, Types, TypeOK
<1>5. /\ pc'[c] = "read" /\ msg'[c] = NoFrame
      /\ \A q \in Clients : q # c => pc'[q] = pc[q] /\ msg'[q] = msg[q]
    BY <1>1 DEF Conn, Types, TypeOK
<1>6. HandlerHolds(c)'
    BY <1>1, <1>5, NoFrameFacts DEF HandlerHolds
<1>7. frames \in Nat /\ frames' = frames
    BY <1>1, PubSubAssumption DEF Conn, Types, TypeOK
<1>8. Conn'
    BY <1>1, <1>4, <1>5, <1>6, <1>7, StageStep DEF Conn
<1>9. SubscriptionsMirrored'
    BY <1>1, <1>5 DEF SubscriptionsMirrored, Served
<1> QED
    BY <1>1, <1>5, <1>7, <1>8, <1>9, NoFrameFacts, QuietStep

\* send_to takes a receiver's lock and its descriptor, or passes over one that
\* is down.
LEMMA SendLockStep ==
  ASSUME NEW c \in Clients, NEW d \in Clients, IInv, SendLock(c, d) PROVE IInv'
<1> USE DEF IInv
<1>1. /\ pc[c] = "send" /\ d \in targets[c] /\ send_mu[d] = NONE
      /\ UNCHANGED <<fd, sock, broken, inbox, owed, frames, msg>>
      /\ UNCHANGED <<topics, subs, retained, clients, stop, faults, budget>>
    BY DEF SendLock, tables
<1>2. frames \in Nat /\ frames' = frames
    BY <1>1, PubSubAssumption DEF Conn, Types, TypeOK
<1>3. CASE fd[d] = NONE
  <2>1. targets' = [targets EXCEPT ![c] = @ \ {d}] /\ UNCHANGED <<pc, out, send_mu>>
      BY <1>3 DEF SendLock
  <2>2. Types'
      BY <1>1, <2>1 DEF Conn, Types, TypeOK
  <2>3. /\ targets'[c] = targets[c] \ {d}
        /\ \A q \in Clients : q # c => targets'[q] = targets[q]
      BY <2>1 DEF Conn, Types, TypeOK
  <2>4. HandlerHolds(c)'
      BY <1>1, <2>1, <2>3 DEF HandlerHolds, Conn, HandlerInv
  <2>5. Conn'
      BY <1>1, <1>2, <2>1, <2>2, <2>3, <2>4, StageStep DEF Conn
  <2>6. SubscriptionsMirrored'
      BY <1>1, <2>1 DEF SubscriptionsMirrored, Served
  <2>7. d \in broken \/ pc[d] = "new"
      BY <1>3 DEF Conn, SocketInv
  <2> QED
      BY <1>1, <1>2, <2>1, <2>3, <2>5, <2>6, <2>7, QuietStep
<1>4. CASE fd[d] # NONE
  <2>1. /\ send_mu' = [send_mu EXCEPT ![d] = c] /\ out' = [out EXCEPT ![c] = fd[d]]
        /\ pc' = [pc EXCEPT ![c] = "write"] /\ UNCHANGED targets
      BY <1>4 DEF SendLock
  <2>2. Types'
      BY <1>1, <2>1 DEF Conn, Types, TypeOK
  <2>3. /\ pc'[c] = "write" /\ out'[c] = fd[d] /\ send_mu'[d] = c
        /\ \A q \in Clients : q # c => pc'[q] = pc[q] /\ out'[q] = out[q]
        /\ \A e \in Clients : e # d => send_mu'[e] = send_mu[e]
      BY <2>1 DEF Conn, Types, TypeOK
  <2>4. SocketInv'
      BY <1>1, <2>3 DEF Conn, SocketInv
  <2>5. SendInv'
    <3> SUFFICES ASSUME NEW e \in Clients, e # d, send_mu[e] # NONE
                 PROVE  /\ pc'[send_mu[e]] = "write" /\ e \in targets[send_mu[e]]
                        /\ fd[e] # NONE /\ out'[send_mu[e]] = fd[e]
        BY <1>1, <1>4, <2>1, <2>3 DEF SendInv
    <3>1. /\ pc[send_mu[e]] = "write" /\ e \in targets[send_mu[e]]
          /\ fd[e] # NONE /\ out[send_mu[e]] = fd[e] /\ send_mu[e] \in Clients
        BY DEF Conn, SendInv, Types, TypeOK
    <3> QED
        BY <3>1, <1>1, <2>3
  <2>6. HandlerInv'
      BY <1>1, <2>1, <2>3 DEF Conn, HandlerInv, HandlerHolds
  <2>7. Conn'
      BY <2>2, <2>4, <2>5, <2>6 DEF Conn
  <2>8. SubscriptionsMirrored'
      BY <1>1, <2>3 DEF SubscriptionsMirrored, Served
  <2> QED
      BY <1>1, <1>2, <2>1, <2>3, <2>7, <2>8, QuietStep
<1> QED
    BY <1>3, <1>4

\* send_to unlocks and returns: the connections are as before, with one
\* receiver less to serve.
LEMMA ReturnStep ==
  ASSUME NEW c \in Clients, NEW d \in Clients, IInv, Writing(c, d), Return(c, d, targets[c] \ {d}),
         broken \subseteq broken', broken' \subseteq Clients, faults' \in 0 .. MaxFaults,
         inbox' \in [Clients -> Seq(Delivered)]
  PROVE  /\ Conn' /\ SubscriptionsMirrored'
         /\ targets'[c] = targets[c] \ {d}
         /\ \A q \in Clients : q # c => targets'[q] = targets[q]
         /\ \A q \in Clients : pc[q] # "new" => pc'[q] # "new"
<1> USE DEF IInv
<1>1. /\ pc[c] = "write" /\ send_mu[d] = c /\ UNCHANGED <<fd, sock, msg, frames, owed>>
      /\ UNCHANGED <<topics, subs, retained, clients, stop, budget>>
      /\ send_mu' = [send_mu EXCEPT ![d] = NONE] /\ out' = [out EXCEPT ![c] = NONE]
      /\ targets' = [targets EXCEPT ![c] = targets[c] \ {d}]
      /\ pc' = [pc EXCEPT ![c] = "send"]
    BY DEF Writing, Return, tables
<1>2. \A q \in Clients : \A i \in DOMAIN inbox'[q] : inbox'[q][i].id \in Messages \cup {<<0, 0>>}
  <2> SUFFICES ASSUME NEW q \in Clients, NEW i \in DOMAIN inbox'[q]
               PROVE  inbox'[q][i].id \in Messages \cup {<<0, 0>>}
      OBVIOUS
  <2>1. inbox'[q] \in Seq(Delivered)
      OBVIOUS
  <2>2. inbox'[q][i] \in Delivered
      BY <2>1
  <2> QED
      BY <2>2 DEF Delivered
<1>3. Types'
    BY <1>1, <1>2 DEF Conn, Types, TypeOK
<1>4. /\ pc'[c] = "send" /\ send_mu'[d] = NONE /\ targets'[c] = targets[c] \ {d}
      /\ \A q \in Clients : q # c => pc'[q] = pc[q] /\ out'[q] = out[q] /\ targets'[q] = targets[q]
      /\ \A e \in Clients : e # d => send_mu'[e] = send_mu[e]
    BY <1>1 DEF Conn, Types, TypeOK
<1>5. SocketInv'
    BY <1>1, <1>4 DEF Conn, SocketInv
<1>6. SendInv'
  <2> SUFFICES ASSUME NEW e \in Clients, e # d, send_mu[e] # NONE
               PROVE  /\ pc'[send_mu[e]] = "write" /\ e \in targets'[send_mu[e]]
                      /\ fd[e] # NONE /\ out'[send_mu[e]] = fd[e]
      BY <1>1, <1>4 DEF SendInv
  <2>1. /\ pc[send_mu[e]] = "write" /\ e \in targets[send_mu[e]]
        /\ fd[e] # NONE /\ out[send_mu[e]] = fd[e] /\ send_mu[e] \in Clients
      BY DEF Conn, SendInv, Types, TypeOK
  <2>2. send_mu[e] # c
      BY <1>1, WriterFacts
  <2> QED
      BY <2>1, <2>2, <1>4
<1>7. HandlerInv'
    BY <1>1, <1>4 DEF Conn, HandlerInv, HandlerHolds
<1>8. SubscriptionsMirrored'
    BY <1>1, <1>4 DEF SubscriptionsMirrored, Served
<1> QED
    BY <1>3, <1>4, <1>5, <1>6, <1>7, <1>8 DEF Conn

\* A write to a peer that is gone: that receiver is down.
LEMMA WriteFailsStep ==
  ASSUME NEW c \in Clients, NEW d \in Clients, IInv, WriteFails(c, d) PROVE IInv'
<1>1. /\ Writing(c, d) /\ ~Live(c) /\ Return(c, d, targets[c] \ {d})
      /\ UNCHANGED <<inbox, broken, faults>>
    BY DEF WriteFails
<1>2. Conn /\ Types /\ TypeOK
    BY DEF IInv, Conn, Types
<1>3. d \in broken
  <2>1. sock[out[c]] = d
      BY <1>1, <1>2, WriterFacts DEF Writing
  <2>2. d # NONE
      BY PubSubAssumption DEF Clients
  <2> QED
      BY <1>1, <2>1, <2>2 DEF Live
<1>4. /\ Conn' /\ SubscriptionsMirrored' /\ targets'[c] = targets[c] \ {d}
      /\ \A q \in Clients : q # c => targets'[q] = targets[q]
      /\ \A q \in Clients : pc[q] # "new" => pc'[q] # "new"
    BY <1>1, <1>2, ReturnStep DEF Types, TypeOK
<1>5. UNCHANGED <<msg, frames, owed>> /\ frames \in Nat
    BY <1>1, <1>2, PubSubAssumption DEF Return, TypeOK
<1>6. NoMisdelivery' /\ PartialInv' /\ OwedInv' /\ OlderInv' /\ PublishedInOrderToOthers'
    BY <1>1, <1>3, <1>4, <1>5, QuietStep
<1> QED
    BY <1>4, <1>6 DEF IInv

\* A connection goes down, by its peer or by ~Server.
LEMMA DownStep ==
  ASSUME NEW c \in Clients, IInv, HangUp(c) \/ StopShutdown(c) PROVE IInv'
<1> USE DEF IInv
<1>1. /\ UNCHANGED <<pc, fd, sock, send_mu, topics, subs, retained, clients, targets, msg, out>>
      /\ UNCHANGED <<inbox, stop, frames, budget, owed>> /\ broken' = broken \cup {c}
    BY DEF HangUp, StopShutdown, tables, handler
<1>2. faults' \in 0 .. MaxFaults /\ frames \in Nat
    BY PubSubAssumption DEF HangUp, StopShutdown, Conn, Types, TypeOK
<1>3. Types'
    BY <1>1, <1>2 DEF Conn, Types, TypeOK
<1>4. SocketInv' /\ SendInv' /\ HandlerInv'
    BY <1>1 DEF Conn, SocketInv, SendInv, HandlerInv, HandlerHolds
<1>5. Conn'
    BY <1>3, <1>4 DEF Conn
<1>6. SubscriptionsMirrored'
    BY <1>1 DEF SubscriptionsMirrored, Served
<1> QED
    BY <1>1, <1>2, <1>5, <1>6, QuietStep

\* remove_client takes the connection off the routing tables ...
LEMMA RemoveSubsStep == ASSUME NEW c \in Clients, IInv, RemoveSubs(c) PROVE IInv'
<1> USE DEF IInv
<1>1. /\ pc[c] = "read" /\ UNCHANGED <<fd, sock, send_mu, topics, retained, clients, targets, msg, out>>
      /\ UNCHANGED <<inbox, broken, stop, frames, faults, budget, owed>>
      /\ subs' = [n \in Names |-> IF n \in topics[c] THEN subs[n] \ {c} ELSE subs[n]]
      /\ pc' = [pc EXCEPT ![c] = "close"]
    BY DEF RemoveSubs, handler
<1>2. Types'
    BY <1>1 DEF Conn, Types, TypeOK
<1>3. pc'[c] = "close" /\ \A q \in Clients : q # c => pc'[q] = pc[q]
    BY <1>1 DEF Conn, Types, TypeOK
<1>4. SocketInv'
    BY <1>1, <1>3 DEF Conn, SocketInv
<1>5. SendInv'
    BY <1>1, <1>3 DEF Conn, Types, TypeOK, SendInv
<1>6. HandlerInv'
    BY <1>1, <1>3 DEF Conn, HandlerInv, HandlerHolds
<1>7. Conn'
    BY <1>2, <1>4, <1>5, <1>6 DEF Conn
<1>8. SubscriptionsMirrored'
    BY <1>1, <1>3 DEF SubscriptionsMirrored, Served
<1>9. frames \in Nat
    BY PubSubAssumption DEF Conn, Types, TypeOK
<1> QED
    BY <1>1, <1>3, <1>7, <1>8, <1>9, QuietStep

\* ... closes the descriptor, when nobody holds the lock to write to it ...
LEMMA RemoveCloseStep == ASSUME NEW c \in Clients, IInv, RemoveClose(c) PROVE IInv'
<1> USE DEF IInv
<1>1. /\ pc[c] = "close" /\ send_mu[c] = NONE
      /\ UNCHANGED <<send_mu, topics, subs, retained, clients, targets, msg, out>>
      /\ UNCHANGED <<inbox, stop, frames, faults, budget, owed>>
      /\ sock' = [sock EXCEPT ![fd[c]] = NONE] /\ fd' = [fd EXCEPT ![c] = NONE]
      /\ broken' = broken \cup {c} /\ pc' = [pc EXCEPT ![c] = "leave"]
    BY DEF RemoveClose, Close, tables, handler
<1>2. Types'
    BY <1>1 DEF Conn, Types, TypeOK
<1>3. /\ pc'[c] = "leave" /\ fd'[c] = NONE
      /\ \A q \in Clients : q # c => pc'[q] = pc[q] /\ fd'[q] = fd[q]
    BY <1>1 DEF Conn, Types, TypeOK
<1>4. fd[c] \in Fds /\ sock[fd[c]] = c /\ sock'[fd[c]] = NONE
    BY <1>1 DEF Conn, Types, TypeOK, SocketInv
<1>5. \A d \in Fds : d # fd[c] => sock'[d] = sock[d]
    BY <1>1 DEF Conn, Types, TypeOK
<1>6. SocketInv'
  <2>1. ASSUME NEW q \in Clients, fd'[q] # NONE PROVE sock'[fd'[q]] = q
    <3>1. q # c /\ fd'[q] = fd[q] /\ fd[q] \in Fds /\ sock[fd[q]] = q
        BY <2>1, <1>3 DEF Conn, Types, TypeOK, SocketInv
    <3> QED
        BY <3>1, <1>4, <1>5
  <2>2. ASSUME NEW d \in Fds, sock'[d] # NONE PROVE fd'[sock'[d]] = d
    <3>1. d # fd[c] /\ sock'[d] = sock[d]
        BY <2>2, <1>4, <1>5
    <3>2. sock[d] \in Clients /\ fd[sock[d]] = d
        BY <2>2, <3>1 DEF Conn, Types, TypeOK, SocketInv
    <3> QED
        BY <3>1, <3>2, <1>3
  <2> QED
      BY <2>1, <2>2, <1>1, <1>3 DEF Conn, SocketInv
<1>7. SendInv'
    BY <1>1, <1>3 DEF Conn, Types, TypeOK, SendInv
<1>8. HandlerInv'
    BY <1>1, <1>3 DEF Conn, HandlerInv, HandlerHolds
<1>9. Conn'
    BY <1>2, <1>6, <1>7, <1>8 DEF Conn
<1>10. SubscriptionsMirrored'
    BY <1>1, <1>3 DEF SubscriptionsMirrored, Served
<1>11. frames \in Nat
    BY PubSubAssumption DEF Conn, Types, TypeOK
<1> QED
    BY <1>1, <1>3, <1>9, <1>10, <1>11, QuietStep

\* ... and leaves clients_.
LEMMA RemoveLeaveStep == ASSUME NEW c \in Clients, IInv, RemoveLeave(c) PROVE IInv'
<1> USE DEF IInv
<1>1. /\ pc[c] = "leave" /\ UNCHANGED <<fd, sock, send_mu, topics, subs, retained, targets, msg, out>>
      /\ UNCHANGED <<inbox, broken, stop, frames, faults, budget, owed>>
      /\ clients' = clients \ {c} /\ pc' = [pc EXCEPT ![c] = "gone"]
    BY DEF RemoveLeave, tables, handler
<1>2. Types'
    BY <1>1 DEF Conn, Types, TypeOK
<1>3. pc'[c] = "gone" /\ \A q \in Clients : q # c => pc'[q] = pc[q]
    BY <1>1 DEF Conn, Types, TypeOK
<1>4. SocketInv'
    BY <1>1, <1>3 DEF Conn, SocketInv
<1>5. SendInv'
    BY <1>1, <1>3 DEF Conn, Types, TypeOK, SendInv
<1>6. HandlerInv'
    BY <1>1, <1>3 DEF Conn, HandlerInv, HandlerHolds
<1>7. Conn'
    BY <1>2, <1>4, <1>5, <1>6 DEF Conn
<1>8. SubscriptionsMirrored'
    BY <1>1, <1>3 DEF SubscriptionsMirrored, Served
<1>9. frames \in Nat
    BY PubSubAssumption DEF Conn, Types, TypeOK
<1> QED
    BY <1>1, <1>3, <1>7, <1>8, <1>9, QuietStep

\* ~Server's own steps touch no connection.
LEMMA StopStageStep ==
  ASSUME NEW to \in {"stopping", "clients", "join", "down"}, IInv, StopStep(to) PROVE IInv'
<1> USE DEF IInv
<1>1. /\ UNCHANGED <<pc, fd, sock, send_mu, topics, subs, retained, clients, targets, msg, out>>
      /\ UNCHANGED <<inbox, broken, frames, faults, budget, owed>> /\ stop' = to
    BY DEF StopStep, tables, handler
<1>2. Types'
    BY <1>1 DEF Conn, Types, TypeOK
<1>3. SocketInv' /\ SendInv' /\ HandlerInv'
    BY <1>1 DEF Conn, SocketInv, SendInv, HandlerInv, HandlerHolds
<1>4. Conn'
    BY <1>2, <1>3 DEF Conn
<1>5. SubscriptionsMirrored'
    BY <1>1 DEF SubscriptionsMirrored, Served
<1>6. frames \in Nat
    BY PubSubAssumption DEF Conn, Types, TypeOK
<1> QED
    BY <1>1, <1>4, <1>5, <1>6, QuietStep

\* Whoever is entitled to a publish is found by the routing tables, and nobody
\* who has not joined.
LEMMA EntitledAreMatched ==
  ASSUME NEW c \in Clients, NEW t \in Topics, IInv
  PROVE  /\ Matching(t) \subseteq Clients
         /\ Entitled(c, t) \subseteq Matching(t) \ {c}
         /\ \A d \in Entitled(c, t) : d \in Clients /\ pc[d] # "new"
<1> USE DEF IInv
<1>1. t \in Names /\ t \in Seq(STRING)
    BY PubSubAssumption DEF Topics
<1>2. Matching(t) \subseteq Clients
    BY <1>1 DEF Matching, Patterns, Conn, Types, TypeOK
<1>3. ASSUME NEW d \in Entitled(c, t) PROVE d \in Matching(t) \ {c} /\ d \in Clients /\ pc[d] # "new"
  <2>1. d \in Clients /\ d # c /\ Served(d)
      BY DEF Entitled
  <2>2. PICK n \in topics[d] : IF topic_has_wildcard(n) THEN Covers(n, t) ELSE n = t
      BY DEF Entitled
  <2>3. n \in Names /\ d \in subs[n]
      BY <2>1 DEF SubscriptionsMirrored, Conn, Types, TypeOK
  <2>4. CASE topic_has_wildcard(n)
    <3>1. n \in Patterns /\ n \in Seq(STRING) /\ Covers(n, t)
        BY <2>2, <2>3, <2>4, PubSubAssumption DEF Patterns, Topics
    <3>2. topic_matches(n, t)
        BY <3>1, <1>1, TopicMatchesMeansCovers
    <3> QED
        BY <2>1, <2>3, <3>1, <3>2 DEF Matching, Served
  <2>5. CASE ~topic_has_wildcard(n)
      BY <2>1, <2>2, <2>3, <2>5 DEF Matching, Served
  <2> QED
      BY <2>4, <2>5
<1> QED
    BY <1>2, <1>3

\* A publish is routed: a message newer than any delivered, owed to receivers
\* that are all among the targets.
LEMMA RouteStep == ASSUME NEW c \in Clients, NEW t \in Topics, IInv, Route(c, t) PROVE IInv'
<1> USE DEF IInv
<1> DEFINE id == <<c, frames'>>
           m == [id |-> id, topic |-> t, verb |-> "publish"]
<1>1. frames' \in 1 .. MaxFrames /\ frames' = frames + 1 /\ frames \in Nat /\ frames' \in Nat
    BY PubSubAssumption DEF Conn, Types, TypeOK, Route, RouteTo, Begin
<1>2. /\ pc[c] = "read" /\ UNCHANGED <<fd, sock, send_mu, out, broken, inbox>>
      /\ UNCHANGED <<topics, subs, retained, clients, stop, faults, budget>>
      /\ targets' = [targets EXCEPT ![c] = Matching(t) \ {c}]
      /\ msg' = [msg EXCEPT ![c] = m] /\ pc' = [pc EXCEPT ![c] = "send"]
      /\ owed' = owed \cup {<<msg'[c].id, d>> : d \in Entitled(c, t)}
    BY DEF Route, RouteTo, Begin, tables
<1>3. id \in Messages /\ id[1] = c /\ id[2] = frames'
    BY <1>1 DEF Messages
<1>4. m \in Frame /\ m.id = id /\ m.verb = "publish" /\ m.topic = t
    BY <1>3 DEF Frame
<1> HIDE DEF id, m
<1>5. msg' \in [Clients -> Frame] /\ msg'[c] = m
    BY <1>2, <1>4 DEF Conn, Types, TypeOK
<1>6. owed' = owed \cup {<<id, d>> : d \in Entitled(c, t)}
    BY <1>2, <1>4, <1>5
<1>7. Types'
  <2>1. owed' \subseteq Messages \X Clients
    <3>1. \A d \in Entitled(c, t) : <<id, d>> \in Messages \X Clients
        BY <1>3, EntitledAreMatched
    <3>2. owed \subseteq Messages \X Clients
        BY DEF Conn, Types, TypeOK
    <3> QED
        BY <3>1, <3>2, <1>6, Zenon
  <2>2. targets' \in [Clients -> SUBSET Clients]
      BY <1>2, EntitledAreMatched DEF Conn, Types, TypeOK
  <2>3. frames' \in 0 .. MaxFrames
      BY <1>1
  <2> QED
      BY <1>2, <1>5, <2>1, <2>2, <2>3 DEF Conn, Types, TypeOK
<1>8. /\ pc'[c] = "send" /\ targets'[c] = Matching(t) \ {c}
      /\ \A q \in Clients : q # c => pc'[q] = pc[q] /\ msg'[q] = msg[q] /\ targets'[q] = targets[q]
    BY <1>2 DEF Conn, Types, TypeOK
<1>9. HandlerHolds(c)'
    BY <1>1, <1>3, <1>4, <1>5, <1>8 DEF HandlerHolds
<1>10. Conn'
    BY <1>1, <1>2, <1>7, <1>8, <1>9, StageStep DEF Conn
<1>11. SubscriptionsMirrored'
    BY <1>2, <1>8 DEF SubscriptionsMirrored, Served
<1>12. NoMisdelivery' /\ PartialInv' /\ PublishedInOrderToOthers'
    BY <1>2 DEF NoMisdelivery, PartialInv, PublishedInOrderToOthers
<1>13. msg[c].verb # "publish"
    BY <1>2, NoFrameFacts DEF Conn, HandlerInv, HandlerHolds
<1>14. OwedInv'
  <2> SUFFICES ASSUME NEW o \in owed'
               PROVE  /\ pc'[o[2]] # "new"
                      /\ \/ o[2] \in broken \/ Received(o[2], o[1])
                         \/ \E q \in Clients : msg'[q].verb = "publish" /\ msg'[q].id = o[1]
                                                 /\ o[2] \in targets'[q]
      BY <1>2 DEF OwedInv, Received
  <2>1. CASE o \in owed
    <3>1. o[2] \in Clients
        BY <2>1 DEF Conn, Types, TypeOK
    <3>2. /\ pc[o[2]] # "new"
          /\ \/ o[2] \in broken \/ Received(o[2], o[1])
             \/ \E q \in Clients : msg[q].verb = "publish" /\ msg[q].id = o[1] /\ o[2] \in targets[q]
        BY <2>1 DEF OwedInv
    <3> QED
        BY <3>1, <3>2, <1>8, <1>13
  <2>2. CASE o \in {<<id, d>> : d \in Entitled(c, t)}
    <3>1. PICK d \in Entitled(c, t) : o = <<id, d>>
        BY <2>2
    <3>2. o[1] = id /\ o[2] = d
        BY <3>1
    <3>3. d \in Clients /\ d \in targets'[c] /\ pc[d] # "new"
        BY <1>8, EntitledAreMatched
    <3>4. pc'[d] # "new"
        BY <3>3, <1>8
    <3> QED
        BY <3>2, <3>3, <3>4, <1>4, <1>5
  <2> QED
      BY <2>1, <2>2, <1>6
<1>15. OlderInv'
  <2> SUFFICES ASSUME NEW d \in Clients, NEW i \in DOMAIN inbox[d], inbox[d][i].verb = "publish"
               PROVE  /\ inbox[d][i].id \in Messages /\ inbox[d][i].id[2] <= frames'
                      /\ LET q == inbox[d][i].id[1] IN
                           msg'[q].verb = "publish" /\ d \in targets'[q]
                              => inbox[d][i].id[2] < msg'[q].id[2]
      BY <1>2 DEF OlderInv
  <2> DEFINE q == inbox[d][i].id[1]
             k == inbox[d][i].id[2]
  <2>1. /\ inbox[d][i].id \in Messages /\ k <= frames
        /\ msg[q].verb = "publish" /\ d \in targets[q] => k < msg[q].id[2]
      BY DEF OlderInv
  <2>2. q \in Clients /\ k \in Nat
      BY <2>1 DEF Messages
  <2>3. k <= frames' /\ k < frames'
      BY <2>1, <2>2, <1>1
  <2>4. msg'[q].verb = "publish" /\ d \in targets'[q] => k < msg'[q].id[2]
    <3>1. CASE q = c
        BY <3>1, <2>3, <1>3, <1>4, <1>5
    <3>2. CASE q # c
        BY <3>2, <2>1, <2>2, <1>8
    <3> QED
        BY <3>1, <3>2
  <2> QED
      BY <2>1, <2>3, <2>4
<1> QED
    BY <1>10, <1>11, <1>12, <1>14, <1>15

\* A frame, whole or in part, is written to the connection it is addressed to;
\* one that is partial is the last.
LEMMA AppendStep ==
  ASSUME NEW c \in Clients, NEW d \in Clients, NEW x, IInv,
         Writing(c, d), Live(c), Return(c, d, targets[c] \ {d}),
         inbox' = [inbox EXCEPT ![sock[out[c]]] = Append(@, x)],
         x \in Delivered, x.id = msg[c].id, x.verb = msg[c].verb, x.to = d,
         broken \subseteq broken', broken' \subseteq Clients, ~x.whole => d \in broken',
         faults' \in 0 .. MaxFaults
  PROVE  IInv'
<1> USE DEF IInv
<1> DEFINE n == Len(inbox[d])
<1>1. sock[out[c]] = d /\ d \in targets[c] /\ pc[c] = "write" /\ d \notin broken
    BY WriterFacts DEF Writing, Live
<1>2. msg[c] \in Frame /\ inbox \in [Clients -> Seq(Delivered)] /\ inbox[d] \in Seq(Delivered)
    BY DEF Conn, Types, TypeOK
<1>3. inbox' = [inbox EXCEPT ![d] = Append(inbox[d], x)]
    BY <1>1, <1>2
<1>4. inbox' \in [Clients -> Seq(Delivered)]
    BY <1>2, <1>3
<1>5. /\ n \in Nat /\ Len(inbox'[d]) = n + 1 /\ inbox'[d][n + 1] = x
      /\ DOMAIN inbox'[d] = 1 .. n + 1 /\ DOMAIN inbox[d] = 1 .. n
      /\ \A i \in 1 .. n : inbox'[d][i] = inbox[d][i]
      /\ \A q \in Clients : q # d => inbox'[q] = inbox[q]
    BY <1>2, <1>3
<1> HIDE DEF n
<1>6. /\ Conn' /\ SubscriptionsMirrored' /\ targets'[c] = targets[c] \ {d}
      /\ \A q \in Clients : q # c => targets'[q] = targets[q]
      /\ \A q \in Clients : pc[q] # "new" => pc'[q] # "new"
    BY <1>4, ReturnStep
<1>7. UNCHANGED <<msg, frames, owed>> /\ frames \in Nat
    BY PubSubAssumption DEF Return, Conn, Types, TypeOK
<1>8. msg[c].verb = "publish" => /\ c # d /\ msg[c].id \in Messages /\ msg[c].id[1] = c
                                 /\ msg[c].id[2] <= frames
    BY <1>1 DEF Conn, HandlerInv, HandlerHolds
\* Whatever is in an inbox now was there before, or is what was written.
<1>9. ASSUME NEW q \in Clients, NEW i \in DOMAIN inbox'[q]
       PROVE  \/ i \in DOMAIN inbox[q] /\ inbox'[q][i] = inbox[q][i]
              \/ q = d /\ i = n + 1 /\ inbox'[q][i] = x
    BY <1>5
<1>10. NoMisdelivery'
  <2> SUFFICES ASSUME NEW q \in Clients, NEW i \in DOMAIN inbox'[q] PROVE inbox'[q][i].to = q
      BY DEF NoMisdelivery
  <2>1. CASE i \in DOMAIN inbox[q] /\ inbox'[q][i] = inbox[q][i]
      BY <2>1 DEF NoMisdelivery
  <2>2. CASE q = d /\ i = n + 1 /\ inbox'[q][i] = x
      BY <2>2
  <2> QED
      BY <2>1, <2>2, <1>9
<1>11. PartialInv'
  <2> SUFFICES ASSUME NEW q \in Clients, NEW i \in DOMAIN inbox'[q], ~inbox'[q][i].whole
               PROVE  i = Len(inbox'[q]) /\ q \in broken'
      BY DEF PartialInv
  <2>1. CASE i \in DOMAIN inbox[q] /\ inbox'[q][i] = inbox[q][i]
    <3>1. i = Len(inbox[q]) /\ q \in broken
        BY <2>1 DEF PartialInv
    <3>2. q # d
        BY <3>1, <1>1
    <3> QED
        BY <3>1, <3>2, <1>5
  <2>2. CASE q = d /\ i = n + 1 /\ inbox'[q][i] = x
      BY <2>2, <1>5
  <2> QED
      BY <2>1, <2>2, <1>9
<1>12. OwedInv'
  <2> SUFFICES ASSUME NEW o \in owed
               PROVE  /\ pc'[o[2]] # "new"
                      /\ \/ o[2] \in broken' \/ Received(o[2], o[1])'
                         \/ \E q \in Clients : msg[q].verb = "publish" /\ msg[q].id = o[1]
                                                 /\ o[2] \in targets'[q]
      BY <1>7 DEF OwedInv
  <2>1. o[2] \in Clients
      BY DEF Conn, Types, TypeOK
  <2>2. /\ pc[o[2]] # "new"
        /\ \/ o[2] \in broken \/ Received(o[2], o[1])
           \/ \E q \in Clients : msg[q].verb = "publish" /\ msg[q].id = o[1] /\ o[2] \in targets[q]
      BY DEF OwedInv
  <2>3. CASE Received(o[2], o[1])
    <3>1. PICK i \in DOMAIN inbox[o[2]] : inbox[o[2]][i].id = o[1] /\ inbox[o[2]][i].verb = "publish"
        BY <2>3 DEF Received
    <3>2. i \in DOMAIN inbox'[o[2]] /\ inbox'[o[2]][i] = inbox[o[2]][i]
        BY <2>1, <1>5
    <3>3. Received(o[2], o[1])'
        BY <3>1, <3>2, <1>7 DEF Received
    <3> QED
        BY <3>3, <2>1, <2>2, <1>6
  <2>4. ASSUME NEW q \in Clients, msg[q].verb = "publish", msg[q].id = o[1], o[2] \in targets[q]
        PROVE  o[2] \in targets'[q] \/ Received(o[2], o[1])'
    <3>1. CASE q = c /\ o[2] = d
      <4>1. n + 1 \in DOMAIN inbox'[d] /\ inbox'[d][n + 1].id = o[1]
            /\ inbox'[d][n + 1].verb = "publish"
        <5>1. n + 1 \in DOMAIN inbox'[d]
            BY <1>5
        <5>2. x.id = o[1] /\ x.verb = "publish"
            BY <3>1, <2>4
        <5> QED
            BY <5>1, <5>2, <1>5
      <4> QED
          BY <4>1, <3>1, <1>7 DEF Received
    <3>2. CASE ~(q = c /\ o[2] = d)
        BY <3>2, <2>4, <1>6
    <3> QED
        BY <3>1, <3>2
  <2> QED
      BY <2>1, <2>2, <2>3, <2>4, <1>6
<1>13. OlderInv'
  <2> SUFFICES ASSUME NEW q \in Clients, NEW i \in DOMAIN inbox'[q], inbox'[q][i].verb = "publish"
               PROVE  /\ inbox'[q][i].id \in Messages /\ inbox'[q][i].id[2] <= frames
                      /\ LET p == inbox'[q][i].id[1] IN
                           msg[p].verb = "publish" /\ q \in targets'[p]
                              => inbox'[q][i].id[2] < msg[p].id[2]
      BY <1>7 DEF OlderInv
  <2>1. CASE i \in DOMAIN inbox[q] /\ inbox'[q][i] = inbox[q][i]
    <3>1. /\ inbox[q][i].id \in Messages /\ inbox[q][i].id[2] <= frames
          /\ LET p == inbox[q][i].id[1] IN
               msg[p].verb = "publish" /\ q \in targets[p] => inbox[q][i].id[2] < msg[p].id[2]
        BY <2>1 DEF OlderInv
    <3>2. inbox[q][i].id[1] \in Clients
        BY <3>1 DEF Messages
    <3> QED
        BY <3>1, <3>2, <2>1, <1>6
  <2>2. CASE q = d /\ i = n + 1 /\ inbox'[q][i] = x
      BY <2>2, <1>6, <1>8, ZenonT(60)
  <2> QED
      BY <2>1, <2>2, <1>9
<1>14. PublishedInOrderToOthers'
  <2> SUFFICES ASSUME NEW q \in Clients, NEW i \in DOMAIN inbox'[q], inbox'[q][i].verb = "publish"
               PROVE  /\ inbox'[q][i].id[1] # q
                      /\ \A j \in 1 .. i - 1 :
                           inbox'[q][j].verb = "publish" /\ inbox'[q][j].id[1] = inbox'[q][i].id[1]
                             => inbox'[q][j].id[2] < inbox'[q][i].id[2]
      BY DEF PublishedInOrderToOthers
  <2>1. CASE i \in DOMAIN inbox[q] /\ inbox'[q][i] = inbox[q][i]
    <3>1. \A j \in 1 .. i - 1 : inbox'[q][j] = inbox[q][j]
        BY <2>1, <1>5
    <3> QED
        BY <3>1, <2>1, ZenonT(60) DEF PublishedInOrderToOthers
  <2>2. CASE q = d /\ i = n + 1 /\ inbox'[q][i] = x
    <3>1. msg[c].verb = "publish" /\ x.id = msg[c].id /\ c # d /\ msg[c].id[1] = c
        BY <2>2, <1>8
    <3>2. ASSUME NEW j \in 1 .. n, inbox[d][j].verb = "publish", inbox[d][j].id[1] = c
          PROVE  inbox[d][j].id[2] < msg[c].id[2]
        BY <3>1, <3>2, <1>1, <1>5 DEF OlderInv
    <3>3. \A j \in 1 .. i - 1 : j \in 1 .. n /\ inbox'[q][j] = inbox[d][j]
        BY <2>2, <1>5
    <3> QED
      <4>1. inbox'[q][i].id = msg[c].id /\ q = d
          BY <2>2, <3>1
      <4> QED
          BY <4>1, <3>1, <3>2, <3>3
  <2> QED
      BY <2>1, <2>2, <1>9
<1> QED
    BY <1>6, <1>10, <1>11, <1>12, <1>13, <1>14

\* send_to's three ways out of a write.
LEMMA WriteStep == ASSUME NEW c \in Clients, NEW d \in Clients, IInv, Write(c, d) PROVE IInv'
<1>1. msg[c] \in Frame /\ broken \subseteq Clients /\ faults \in 0 .. MaxFaults
    BY DEF IInv, Conn, Types, TypeOK
<1>2. msg[c] = [id |-> msg[c].id, topic |-> msg[c].topic, verb |-> msg[c].verb]
      /\ msg[c].id \in Messages \cup {<<0, 0>>} /\ msg[c].topic \in Topics \cup {NONE}
      /\ msg[c].verb \in Verbs
    BY <1>1 DEF Frame, Verbs
<1>3. CASE WriteWhole(c, d)
  <2>1. /\ Writing(c, d) /\ Live(c) /\ Return(c, d, targets[c] \ {d}) /\ UNCHANGED <<broken, faults>>
        /\ inbox' = [inbox EXCEPT ![sock[out[c]]] = Append(@, FrameFor(c, d))]
      BY <1>3 DEF WriteWhole
  <2> DEFINE x == FrameFor(c, d)
  <2>2. /\ x \in Delivered /\ x.id = msg[c].id /\ x.verb = msg[c].verb
        /\ x.to = d /\ x.whole
      BY <1>2 DEF Delivered, FrameFor
  <2> HIDE DEF x
  <2> QED
      BY <2>1, <2>2, <1>1, AppendStep DEF x
<1>4. CASE WriteTimesOut(c, d)
  <2> DEFINE x == [FrameFor(c, d) EXCEPT !.whole = FALSE]
  <2>1. /\ Writing(c, d) /\ Live(c) /\ Return(c, d, targets[c] \ {d})
        /\ inbox' = [inbox EXCEPT ![sock[out[c]]] = Append(@, x)]
        /\ broken' = broken \cup {sock[out[c]]}
      BY <1>4 DEF WriteTimesOut, WritePart
  <2>2. sock[out[c]] = d
      BY <2>1, WriterFacts DEF Writing, IInv
  <2>3. broken' \subseteq Clients /\ faults' \in 0 .. MaxFaults
      BY <1>1, <1>4, <2>1, <2>2, PubSubAssumption
         DEF IInv, Conn, Types, TypeOK, WriteTimesOut, WritePart
  <2>4. x \in Delivered /\ x.id = msg[c].id /\ x.verb = msg[c].verb /\ x.to = d
      BY <1>2 DEF Delivered, FrameFor
  <2> HIDE DEF x
  <2> QED
      BY <2>1, <2>2, <2>3, <2>4, AppendStep
<1> QED
    BY <1>3, <1>4, WriteFailsStep DEF Write

-----------------------------------------------------------------------------
\* Any step keeps IInv.
LEMMA NextIInv == IInv /\ [Next]_vars => IInv'
<1> SUFFICES ASSUME IInv, [Next]_vars PROVE IInv'
    OBVIOUS
<1>1. CASE UNCHANGED vars
  <2>1. /\ UNCHANGED <<pc, fd, sock, send_mu, topics, subs, retained, clients, targets, msg, out>>
        /\ UNCHANGED <<inbox, broken, stop, frames, faults, budget, owed>>
      BY <1>1 DEF vars, tables, handler
  <2>2. Conn' /\ SubscriptionsMirrored'
      BY <2>1 DEF IInv, Conn, Types, TypeOK, SocketInv, SendInv, HandlerInv, HandlerHolds,
                  SubscriptionsMirrored, Served
  <2>3. frames \in Nat
      BY PubSubAssumption DEF IInv, Conn, Types, TypeOK
  <2> QED
      BY <2>1, <2>2, <2>3, QuietStep DEF IInv
<1>2. ASSUME NEW c \in Clients,
             Accept(c) \/ HangUp(c) \/ Answer(c) \/ Handler(c) \/ RemoveSubs(c) \/ Remove(c)
      PROVE  IInv'
    BY <1>2, AcceptStep, DownStep, AnswerStep, ReplayStep, FinishStep, SendLockStep, WriteStep,
       RemoveSubsStep, RemoveCloseStep, RemoveLeaveStep DEF Handler, Remove
<1>3. ASSUME NEW c \in Clients, NEW n \in Names, SubscribeInsert(c, n) \/ Unsubscribe(c, n)
      PROVE  IInv'
    BY <1>3, InsertStep, UnsubscribeStep
<1>4. ASSUME NEW c \in Clients, NEW t \in Topics, Route(c, t) PROVE IInv'
    BY <1>4, RouteStep
<1>5. CASE StopBegin \/ Stop
    BY <1>5, StopStageStep, DownStep DEF Stop, StopBegin, StopJoin, StopWait, StopDone
<1> QED
    BY <1>1, <1>2, <1>3, <1>4, <1>5 DEF Next

\* IInv is an invariant of the daemon's specification.
LEMMA SpecIInv == Spec => []IInv
BY InitIInv, NextIInv, PTL DEF Spec

\* Every variable of the pub/sub model keeps its type; accept always finds a
\* descriptor.
THEOREM PubSubTypeCorrect == Spec => []TypeOK
<1>1. IInv => TypeOK
    BY DEF IInv, Conn, Types
<1> QED
    BY <1>1, SpecIInv, PTL

\* send_mu across the check of a descriptor and the write to it is enough: no
\* frame reaches a connection that took over the descriptor's number.
THEOREM FramesReachTheirAddressee == Spec => []NoMisdelivery
<1>1. IInv => NoMisdelivery
    BY DEF IInv
<1> QED
    BY <1>1, SpecIInv, PTL

\* A send that timed out in the middle of a frame is the last on its connection.
THEOREM StreamsStayInSync == Spec => []StreamNeverDesynced
<1>1. IInv => StreamNeverDesynced
  <2> SUFFICES ASSUME IInv, NEW c \in Clients, NEW i \in DOMAIN inbox[c], i < Len(inbox[c])
               PROVE  inbox[c][i].whole
      BY DEF StreamNeverDesynced
  <2>1. ~inbox[c][i].whole => i = Len(inbox[c])
      BY DEF IInv, PartialInv
  <2>2. Len(inbox[c]) \in Nat
      BY DEF IInv, Conn, Types
  <2> QED
      BY <2>1, <2>2
<1> QED
    BY <1>1, SpecIInv, PTL

\* subs_ and the names each connection keeps agree whenever no handler is under
\* its lock, and remove_client leaves nothing behind.
THEOREM SubscriptionsStayMirrored == Spec => []SubscriptionsMirrored
<1>1. IInv => SubscriptionsMirrored
    BY DEF IInv
<1> QED
    BY <1>1, SpecIInv, PTL

\* Nobody who was subscribed when a publish was routed, by name or by pattern,
\* is left out while its connection is up.
THEOREM EverySubscriberIsServed == Spec => []EveryoneServed
<1>1. IInv => EveryoneServed
    BY DEF IInv, OwedInv, EveryoneServed
<1> QED
    BY <1>1, SpecIInv, PTL

\* Each publisher's messages arrive in order, once, and never at itself.
THEOREM PublishesArriveInOrder == Spec => []PublishedInOrderToOthers
<1>1. IInv => PublishedInOrderToOthers
    BY DEF IInv
<1> QED
    BY <1>1, SpecIInv, PTL
=============================================================================
