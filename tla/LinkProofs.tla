---------------------------- MODULE LinkProofs ----------------------------
(***************************************************************************)
(* Proofs about Link, for any topics and values, whatever the links are    *)
(* told to carry, any socket size and any number of writes, sessions and   *)
(* faults.                                                                 *)
(***************************************************************************)
EXTENDS Link, FiniteSetTheorems, FunctionTheorems, SequenceTheorems, TLAPS

Msgs   == [from : Devices, id : Nat, topic : Topics]
Data   == [kind : {"SET"}, arg : Values] \cup [kind : {"DEL"}, arg : {DEL}]
            \cup [kind : {"PUBLISH"}, arg : Msgs]
Pushed == [kind : {"UPDATE"}, arg : Values] \cup [kind : {"DEL"}, arg : {DEL}]
            \cup [kind : {"REPLY"}, arg : Values \cup {NONE}] \cup [kind : {"PUBLISH"}, arg : Msgs]
Hello  == F("HELLO", NONE)
Ask    == F("SUBSCRIBE, GET", NONE)

\* What the queues hold.
Types ==
  /\ LinkOK
  /\ setup \in Setups /\ ops \in Nat /\ sessions \in Nat /\ faults \in Nat
  /\ heard \in [Devices -> Seq(Msgs)]
  /\ up \in [Devices -> Seq(Data \cup {Ask})] /\ old \in [Devices -> Seq(Data \cup {Ask})]
  /\ down \in [Devices -> Seq(Pushed)] /\ wire \in [Devices -> Seq(Data \cup {Hello})]
  /\ hand \in [Devices -> Data \cup {Nothing}]

\* The hello comes first, and a link past the handshake has read it.
WireOf(d) ==
  /\ \A i \in DOMAIN wire[d] : i > 1 => wire[d][i] \in Data
  /\ peer[d] \in {"recv", "expect", "send"} =>
       \A i \in DOMAIN wire[Other(d)] : wire[Other(d)][i] \in Data
WireInv == \A d \in Devices : WireOf(d)

\* A process's threads run together; it is connected until its peer loop ends,
\* past the handshake only with a peer it accepts, and applies what it wants.
ThreadOf(d) ==
  /\ (main[d] = "off" <=> local[d] = "off") /\ (main[d] = "off" <=> peer[d] = "off")
  /\ main[d] = "off" => \A x \in Marks : echo[d][x] = 0
  /\ peer[d] \in {"done", "off"} => d \notin open
  /\ peer[d] \in {"recv", "expect", "send"} => d \in setup.accepts
  /\ peer[d] \in {"expect", "send"} => hand[d] \in Data /\ Wanted(d, hand[d])
  /\ peer[d] = "expect" => hand[d].kind # "PUBLISH"
ThreadInv == \A d \in Devices : ThreadOf(d)

\* A connected link is watching before the daemon reads what it applies, and
\* what it applies was agreed.  Before the second session nothing is left over.
UpOf(d) ==
  /\ d \in open => watching[d] \/ (up[d] # <<>> /\ up[d][1] = Ask)
  /\ \A i \in DOMAIN up[d] : up[d][i] = Ask \/ (d \in setup.accepts /\ Wanted(d, up[d][i]))
  /\ sessions = 0 => main[d] = "off" /\ up[d] = <<>>
  /\ sessions <= 1 => old[d] = <<>>
UpInv == \A d \in Devices : UpOf(d)

\* The number n, unless it is a replay's 0, is above lo.
Above(n, lo) == n # 0 => lo < n

\* A queue has messages of e, with rising numbers above lo and up to hi, and
\* among them replays, which have none.
Ordered(s, e, lo, hi) == \A i \in DOMAIN s : s[i].kind = "PUBLISH" =>
  /\ s[i].arg.from = e /\ Above(s[i].arg.id, lo) /\ s[i].arg.id <= hi
  /\ \A j \in DOMAIN s : i < j /\ s[j].kind = "PUBLISH" => Above(s[j].arg.id, s[i].arg.id)

\* Those that arrived, and the one that is being applied.
Arrived(d, e, hi) == \A i \in DOMAIN heard[d] :
  /\ heard[d][i].from = e /\ heard[d][i].topic \in Carries(d) /\ heard[d][i].id <= hi
  /\ \A j \in DOMAIN heard[d] : i < j => Above(heard[d][j].id, heard[d][i].id)
Applying(d, e, lo, hi) == peer[d] = "send" /\ hand[d].kind = "PUBLISH" =>
  hand[d].arg.from = e /\ Above(hand[d].arg.id, lo) /\ hand[d].arg.id <= hi

\* The way of e's messages to d, replays apart: up to number a1 they have arrived or never
\* will, up to a2 the daemon has still to read them, and so on back to e.
Lane(d, e, a1, a2, a3, a4) ==
  /\ a1 <= a2 /\ a2 <= a3 /\ a3 <= a4 /\ a4 <= ops
  /\ Arrived(d, e, a1) /\ Ordered(up[d], e, a1, a2) /\ Applying(d, e, a2, a3)
  /\ Ordered(wire[e], e, a3, a4) /\ Ordered(down[e], e, a4, ops)

LaneInv == sessions <= 1 => \A d \in Devices :
  \E a1, a2, a3, a4 \in Nat : Lane(d, Other(d), a1, a2, a3, a4)

\* A change of the key to x, or its copy coming back.
Marked(f, x)   == f.kind \in {"SET", "UPDATE", "DEL"} /\ f.arg = x
Places(s, x)   == {i \in DOMAIN s : Marked(s[i], x)}
Count(s, x)    == Cardinality(Places(s, x))
InHand(d, x)   == peer[d] = "send" /\ Marked(hand[d], x)

\* While the link is connected, each copy expected back is still to come.
EchoOf(d) == \A x \in Marks :
  echo[d][x] <= Count(up[d], x) + Count(down[d], x) + (IF InHand(d, x) THEN 1 ELSE 0)
EchoInv == \A d \in open : EchoOf(d)

IInv == Types /\ WireInv /\ ThreadInv /\ UpInv /\ LaneInv /\ EchoInv

-----------------------------------------------------------------------------
(* Devices, frames and queues                                              *)

\* There are two devices.
LEMMA OtherIs ==
  ASSUME NEW d \in Devices
  PROVE  Other(d) \in Devices /\ Other(d) # d /\ Other(Other(d)) = d
         /\ \A k \in Devices : k = d \/ k = Other(d)
<1>1. IsFiniteSet(Devices) /\ Cardinality(Devices) = 2
    BY LinkAssumption
<1>2. IsFiniteSet(Devices \ {d}) /\ Cardinality(Devices \ {d}) = 1
    BY <1>1, FS_RemoveElement
<1>3. PICK e : Devices \ {d} = {e}
    BY <1>2, FS_Singleton
<1>4. e \in Devices /\ e # d /\ \A k \in Devices : k = d \/ k = e
    BY <1>3
<1>5. Other(d) = e
    BY <1>4 DEF Other
<1>6. Other(e) = d
    BY <1>4 DEF Other
<1> QED
    BY <1>4, <1>5, <1>6

\* The kinds of the other frames.
LEMMA KindIs ==
  /\ Ask.kind = "SUBSCRIBE, GET" /\ Hello.kind = "HELLO" /\ Nothing.kind = "NONE"
  /\ Ask # Nothing /\ Hello # Nothing
BY DEF Ask, Hello, Nothing, F

\* What a frame of the link is.
LEMMA DataIs ==
  ASSUME NEW f \in Data
  PROVE  /\ f.kind \in {"SET", "DEL", "PUBLISH"}
         /\ f.kind = "SET" => f.arg \in Values
         /\ f.kind = "DEL" => f.arg = DEL
         /\ f.kind = "PUBLISH" => f.arg \in Msgs
         /\ f.kind # "PUBLISH" => f.arg \in Marks
         /\ f # Ask /\ f # Hello /\ f # Nothing
<1>1. /\ f.kind \in {"SET", "DEL", "PUBLISH"}
      /\ f.kind = "SET" => f.arg \in Values
      /\ f.kind = "DEL" => f.arg = DEL
      /\ f.kind = "PUBLISH" => f.arg \in Msgs
    BY DEF Data
<1>2. f.kind # "PUBLISH" => f.arg \in Marks
    BY <1>1 DEF Marks
<1>3. f # Ask /\ f # Hello /\ f # Nothing
    BY <1>1, KindIs
<1> QED
    BY <1>1, <1>2, <1>3

\* What a frame of the daemon is.
LEMMA PushedIs ==
  ASSUME NEW f \in Pushed
  PROVE  /\ f.kind \in {"UPDATE", "DEL", "REPLY", "PUBLISH"}
         /\ f.kind = "UPDATE" => f.arg \in Values
         /\ f.kind = "DEL" => f.arg = DEL
         /\ f.kind = "REPLY" => f.arg \in Values \cup {NONE}
         /\ f.kind = "PUBLISH" => f.arg \in Msgs
BY DEF Pushed

\* What the link passes on is a frame of the link.
LEMMA ForwardedIs ==
  ASSUME NEW d, NEW f \in Pushed
  PROVE  /\ Forwarded(d, f) \in Data \cup {Nothing}
         /\ Forwarded(d, f) \in Data /\ Forwarded(d, f).kind = "PUBLISH" => f.kind = "PUBLISH" /\ Forwarded(d, f) = f
         /\ \A x : Marked(f, x) => Forwarded(d, f) \in Data /\ Forwarded(d, f).kind # "PUBLISH"
                                   /\ Forwarded(d, f).arg = x
<1>1. CASE f.kind = "PUBLISH"
  <2>1. f \in Data /\ (Forwarded(d, f) = f \/ Forwarded(d, f) = Nothing)
      BY <1>1 DEF Pushed, Data, Forwarded
  <2> QED
      BY <1>1, <2>1, DataIs DEF Marked
<1>2. CASE f.kind = "REPLY"
  <2>1. CASE f.arg = NONE
    <3>1. Forwarded(d, f) = Nothing
        BY <1>2, <2>1 DEF Forwarded
    <3> QED
        BY <1>2, <3>1, DataIs DEF Marked
  <2>2. CASE f.arg # NONE
    <3>1. Forwarded(d, f) = F("SET", f.arg) /\ f.arg \in Values
        BY <1>2, <2>2, PushedIs DEF Forwarded
    <3>2. F("SET", f.arg) \in Data /\ F("SET", f.arg).kind = "SET"
        BY <3>1 DEF F, Data
    <3> QED
        BY <1>2, <3>1, <3>2 DEF Marked
  <2> QED
      BY <2>1, <2>2
<1>3. CASE f.kind = "UPDATE"
  <2>1. Forwarded(d, f) = F("SET", f.arg) /\ f.arg \in Values
      BY <1>3, PushedIs DEF Forwarded
  <2>2. F("SET", f.arg) \in Data /\ F("SET", f.arg).kind = "SET" /\ F("SET", f.arg).arg = f.arg
      BY <2>1 DEF F, Data
  <2> QED
      BY <1>3, <2>1, <2>2 DEF Marked
<1>4. CASE f.kind = "DEL"
  <2>1. Forwarded(d, f) = f
      BY <1>4 DEF Forwarded
  <2>2. f \in Data
      BY <1>4 DEF Pushed, Data
  <2> QED
      BY <1>4, <2>1, <2>2 DEF Marked
<1> QED
    BY <1>1, <1>2, <1>3, <1>4, PushedIs

\* A queue after a frame was added.
LEMMA Added ==
  ASSUME NEW S, NEW s \in Seq(S), NEW f \in S
  PROVE  /\ Append(s, f) \in Seq(S) /\ Len(Append(s, f)) = Len(s) + 1 /\ Len(s) \in Nat
         /\ DOMAIN s = 1 .. Len(s) /\ DOMAIN Append(s, f) = 1 .. Len(s) + 1
         /\ \A i \in DOMAIN s : Append(s, f)[i] = s[i] /\ i \in DOMAIN Append(s, f) /\ i < Len(s) + 1
         /\ Append(s, f)[Len(s) + 1] = f
         /\ \A i \in DOMAIN Append(s, f) : i \in DOMAIN s \/ i = Len(s) + 1
OBVIOUS

\* A queue after its first frame was taken.
LEMMA Taken ==
  ASSUME NEW S, NEW s \in Seq(S), s # <<>>
  PROVE  /\ Tail(s) \in Seq(S) /\ Len(Tail(s)) = Len(s) - 1 /\ Len(s) \in Nat /\ Len(s) > 0
         /\ Head(s) = s[1] /\ Head(s) \in S /\ 1 \in DOMAIN s
         /\ \A i \in DOMAIN Tail(s) : i + 1 \in DOMAIN s /\ Tail(s)[i] = s[i + 1] /\ i \in Nat /\ i >= 1
OBVIOUS

\* The same, for a queue of frames that was empty.
LEMMA NoFrames ==
  ASSUME NEW S
  PROVE  <<>> \in Seq(S) /\ Len(<<>>) = 0 /\ DOMAIN <<>> = {}
OBVIOUS

\* The changes to x in a queue can be counted.
LEMMA CountIs ==
  ASSUME NEW S, NEW s \in Seq(S), NEW x
  PROVE  IsFiniteSet(Places(s, x)) /\ Count(s, x) \in Nat
<1>1. Places(s, x) \subseteq 1 .. Len(s) /\ Len(s) \in Nat
    BY DEF Places
<1>2. IsFiniteSet(1 .. Len(s))
    BY <1>1, FS_Interval
<1>3. IsFiniteSet(Places(s, x))
    BY <1>1, <1>2, FS_Subset
<1> QED
    BY <1>3, FS_CardinalityType DEF Count

\* A frame that is added counts once if it is a change to x.
LEMMA CountAdded ==
  ASSUME NEW S, NEW s \in Seq(S), NEW f \in S, NEW x
  PROVE  Count(Append(s, f), x) = Count(s, x) + (IF Marked(f, x) THEN 1 ELSE 0)
<1> DEFINE n == Len(s) + 1
           t == Append(s, f)
<1>1. /\ t \in Seq(S) /\ \A i \in DOMAIN s : t[i] = s[i] /\ i \in DOMAIN t /\ i < n
      /\ t[n] = f /\ n \in DOMAIN t /\ \A i \in DOMAIN t : i \in DOMAIN s \/ i = n
      /\ n \notin DOMAIN s
    BY Added
<1>2. IsFiniteSet(Places(s, x)) /\ Count(s, x) \in Nat
    BY CountIs
<1> HIDE DEF t, n
<1>3. CASE Marked(f, x)
  <2>1. Places(t, x) = Places(s, x) \cup {n} /\ n \notin Places(s, x)
      BY <1>1, <1>3, Zenon DEF Places
  <2>2. Cardinality(Places(s, x) \cup {n}) = Cardinality(Places(s, x)) + 1
      BY <1>2, <2>1, FS_AddElement
  <2> QED
      BY <1>3, <2>1, <2>2 DEF Count, t
<1>4. CASE ~Marked(f, x)
  <2>1. Places(t, x) = Places(s, x)
      BY <1>1, <1>4, Zenon DEF Places
  <2> QED
      BY <1>2, <1>4, <2>1 DEF Count, t
<1> QED
    BY <1>3, <1>4

\* A frame that is taken counted once if it was a change to x.
LEMMA CountTaken ==
  ASSUME NEW S, NEW s \in Seq(S), s # <<>>, NEW x
  PROVE  Count(s, x) = Count(Tail(s), x) + (IF Marked(Head(s), x) THEN 1 ELSE 0)
<1> DEFINE t == Tail(s)
           A == Places(t, x)
           B == Places(s, x) \ {1}
<1>1. /\ t \in Seq(S) /\ Head(s) = s[1] /\ 1 \in DOMAIN s /\ Len(s) \in Nat /\ Len(t) = Len(s) - 1
      /\ \A i \in DOMAIN t : i + 1 \in DOMAIN s /\ t[i] = s[i + 1] /\ i \in Nat /\ i >= 1
    BY Taken
<1>2. DOMAIN s = 1 .. Len(s) /\ DOMAIN t = 1 .. Len(s) - 1
    BY <1>1
<1>3. IsFiniteSet(A) /\ Count(t, x) \in Nat /\ IsFiniteSet(Places(s, x)) /\ Count(s, x) \in Nat
    BY <1>1, CountIs
<1> HIDE DEF t
<1>4. ExistsBijection(A, B)
  <2> DEFINE g == [i \in A |-> i + 1]
  <2>1. \A i \in A : i \in Nat /\ i >= 1 /\ i + 1 \in B
    <3> SUFFICES ASSUME NEW i \in A PROVE i \in Nat /\ i >= 1 /\ i + 1 \in B
        OBVIOUS
    <3>1. i \in DOMAIN t /\ Marked(t[i], x)
        BY DEF Places
    <3>2. i + 1 \in DOMAIN s /\ Marked(s[i + 1], x) /\ i \in Nat /\ i >= 1
        BY <1>1, <3>1
    <3> QED
        BY <3>2 DEF Places
  <2>2. \A j \in B : j - 1 \in A /\ (j - 1) + 1 = j
    <3> SUFFICES ASSUME NEW j \in B PROVE j - 1 \in A /\ (j - 1) + 1 = j
        OBVIOUS
    <3>1. j \in DOMAIN s /\ j # 1 /\ Marked(s[j], x)
        BY DEF Places
    <3>2. j - 1 \in DOMAIN t /\ (j - 1) + 1 = j
        BY <1>1, <1>2, <3>1
    <3>3. t[j - 1] = s[j]
        BY <1>1, <3>2
    <3> QED
        BY <3>1, <3>2, <3>3 DEF Places
  <2> HIDE DEF A, B
  <2>3. g \in Bijection(A, B)
    <3>1. g \in [A -> B]
        BY <2>1
    <3>2. \A i, j \in A : g[i] = g[j] => i = j
        BY <2>1
    <3>3. \A j \in B : \E i \in A : g[i] = j
        BY <2>2
    <3> QED
        BY <3>1, <3>2, <3>3, Fun_IsBij
  <2> QED
      BY <2>3, Zenon DEF ExistsBijection
<1>5. Cardinality(B) = Cardinality(A) /\ IsFiniteSet(B)
    BY <1>3, <1>4, FS_Bijection
<1>6. Cardinality(B) = IF 1 \in Places(s, x) THEN Cardinality(Places(s, x)) - 1 ELSE Cardinality(Places(s, x))
    BY <1>3, FS_RemoveElement
<1>7. 1 \in Places(s, x) <=> Marked(Head(s), x)
    BY <1>1, Zenon DEF Places
<1>8. Count(s, x) = Cardinality(Places(s, x)) /\ Count(t, x) = Cardinality(A)
    BY DEF Count
<1> HIDE DEF A, B
<1>9. Count(s, x) = Count(t, x) + (IF Marked(Head(s), x) THEN 1 ELSE 0)
  <2> DEFINE m == Count(s, x)
             n == Count(t, x)
  <2>1. m \in Nat /\ n \in Nat /\ n = IF Marked(Head(s), x) THEN m - 1 ELSE m
      BY <1>3, <1>5, <1>6, <1>7, <1>8, Zenon
  <2> HIDE DEF m, n
  <2>2. m = n + (IF Marked(Head(s), x) THEN 1 ELSE 0)
      BY <2>1
  <2> QED
      BY <2>2 DEF m, n
<1> QED
    BY <1>9 DEF t

\* An empty queue has no change.
LEMMA CountNone == ASSUME NEW x PROVE Count(<<>>, x) = 0
<1>1. Places(<<>>, x) = {}
    BY NoFrames DEF Places
<1> QED
    BY <1>1, FS_EmptySet DEF Count

\* t has no message that s had not, in the same order.
Calm(s, t) == \E k \in 0 .. 1 : \A i \in DOMAIN t : t[i].kind = "PUBLISH" => i + k \in DOMAIN s /\ t[i] = s[i + k]

\* A queue that stays, loses its first frame, gets no message, or has none.
LEMMA CalmIs ==
  ASSUME NEW S, NEW s \in Seq(S)
  PROVE  /\ Calm(s, s) /\ (s # <<>> => Calm(s, Tail(s)))
         /\ \A f \in S : f.kind # "PUBLISH" => Calm(s, Append(s, f))
         /\ \A t : (\A i \in DOMAIN t : t[i].kind # "PUBLISH") => Calm(s, t)
<1>1. DOMAIN s = 1 .. Len(s) /\ Len(s) \in Nat /\ \A i \in DOMAIN s : i + 0 = i
    OBVIOUS
<1>2. 0 \in 0 .. 1 /\ 1 \in 0 .. 1
    OBVIOUS
<1>3. Calm(s, s)
    BY <1>1, <1>2 DEF Calm
<1>4. s # <<>> => Calm(s, Tail(s))
    BY <1>2, Taken, Zenon DEF Calm
<1>5. ASSUME NEW f \in S, f.kind # "PUBLISH" PROVE Calm(s, Append(s, f))
  <2> DEFINE t == Append(s, f)
  <2>1. /\ \A i \in DOMAIN s : t[i] = s[i]
        /\ t[Len(s) + 1] = f /\ \A i \in DOMAIN t : i \in DOMAIN s \/ i = Len(s) + 1
      BY Added
  <2> HIDE DEF t
  <2>2. \A i \in DOMAIN t : t[i].kind = "PUBLISH" => i + 0 \in DOMAIN s /\ t[i] = s[i + 0]
    <3> SUFFICES ASSUME NEW i \in DOMAIN t, t[i].kind = "PUBLISH" PROVE i + 0 \in DOMAIN s /\ t[i] = s[i + 0]
        OBVIOUS
    <3>1. i \in DOMAIN s
        BY <1>5, <2>1, Zenon
    <3> QED
        BY <1>1, <2>1, <3>1
  <2>3. Calm(s, t)
      BY <1>2, <2>2, Zenon DEF Calm
  <2> QED
      BY <2>3 DEF t
<1>6. \A t : (\A i \in DOMAIN t : t[i].kind # "PUBLISH") => Calm(s, t)
    BY <1>2, Zenon DEF Calm
<1> QED
    BY <1>3, <1>4, <1>5, <1>6

\* Such a queue stays ordered, within wider bounds too.
LEMMA CalmOrdered ==
  ASSUME NEW S, NEW s \in Seq(S), NEW t, Calm(s, t), DOMAIN t \subseteq Nat, NEW e, NEW lo \in Nat, NEW hi \in Nat,
         NEW top \in Nat, hi <= top,
         \A i \in DOMAIN s : s[i].kind = "PUBLISH" => s[i].arg.id \in Nat,
         Ordered(s, e, lo, hi)
  PROVE  Ordered(t, e, lo, top)
<1>1. PICK k \in 0 .. 1 : \A i \in DOMAIN t : t[i].kind = "PUBLISH" => i + k \in DOMAIN s /\ t[i] = s[i + k]
    BY DEF Calm
<1> SUFFICES ASSUME NEW i \in DOMAIN t, t[i].kind = "PUBLISH"
             PROVE  /\ t[i].arg.from = e /\ Above(t[i].arg.id, lo) /\ t[i].arg.id <= top
                    /\ \A j \in DOMAIN t : i < j /\ t[j].kind = "PUBLISH" => Above(t[j].arg.id, t[i].arg.id)
    BY Zenon DEF Ordered
<1>2. i + k \in DOMAIN s /\ t[i] = s[i + k] /\ s[i + k].kind = "PUBLISH"
    BY <1>1, Zenon
<1>3. t[i].arg.from = e /\ Above(t[i].arg.id, lo) /\ t[i].arg.id <= hi /\ t[i].arg.id \in Nat
    BY <1>2, Zenon DEF Ordered
<1>4. ASSUME NEW j \in DOMAIN t, i < j, t[j].kind = "PUBLISH" PROVE Above(t[j].arg.id, t[i].arg.id)
  <2>1. j + k \in DOMAIN s /\ t[j] = s[j + k] /\ s[j + k].kind = "PUBLISH"
      BY <1>1, <1>4, Zenon
  <2>2. i + k < j + k
      BY <1>4
  <2> QED
      BY <1>2, <2>1, <2>2, Zenon DEF Ordered
<1>5. t[i].arg.id <= top
    BY <1>3
<1> QED
    BY <1>3, <1>4, <1>5

\* Messages have numbers.
LEMMA Numbered ==
  ASSUME NEW f \in Data \cup Pushed \cup {Ask, Hello, Nothing}, f.kind = "PUBLISH"
  PROVE  f \in Data /\ f \in Pushed /\ f.arg \in Msgs /\ f.arg.id \in Nat
<1>1. f \in Data \/ f \in Pushed
    BY KindIs
<1>2. f.arg \in Msgs
    BY <1>1, DataIs, PushedIs
<1>3. f.arg.id \in Nat
    BY <1>2 DEF Msgs
<1>4. f \in Data /\ f \in Pushed
    BY <1>1 DEF Data, Pushed
<1> QED
    BY <1>2, <1>3, <1>4

\* A number above a bound is above a lower one.
LEMMA AboveLower ==
  ASSUME NEW n \in Nat, NEW lo \in Nat, NEW m \in Nat, Above(n, lo), m <= lo
  PROVE  Above(n, m)
BY DEF Above

\* A message with the highest number is added, or a replay.
LEMMA OrderedAdded ==
  ASSUME NEW S, S \subseteq Data \cup Pushed \cup {Ask, Hello}, NEW s \in Seq(S), NEW f \in S,
         NEW e, NEW lo \in Nat, NEW hi \in Nat, NEW top \in Nat, lo <= hi, hi <= top,
         Ordered(s, e, lo, hi), f.kind = "PUBLISH", f.arg.from = e, Above(f.arg.id, hi), f.arg.id <= top
  PROVE  Ordered(Append(s, f), e, lo, top)
<1> DEFINE t == Append(s, f)
           n == Len(s) + 1
           N == f.arg.id
<1>1. /\ DOMAIN s = 1 .. Len(s) /\ n \in Nat
      /\ \A i \in DOMAIN s : t[i] = s[i] /\ i < n /\ i \in Nat
      /\ t[n] = f /\ \A i \in DOMAIN t : i \in DOMAIN s \/ i = n
    BY Added
<1>2. N \in Nat
    BY Numbered
<1>3. \A i \in DOMAIN s : s[i].kind = "PUBLISH" => s[i].arg.id \in Nat
  <2> SUFFICES ASSUME NEW i \in DOMAIN s, s[i].kind = "PUBLISH" PROVE s[i].arg.id \in Nat
      OBVIOUS
  <2>1. s[i] \in S
      BY <1>1
  <2> QED
      BY <2>1, Numbered
<1> HIDE DEF t, n
<1> SUFFICES ASSUME NEW i \in DOMAIN t, t[i].kind = "PUBLISH"
             PROVE  /\ t[i].arg.from = e /\ Above(t[i].arg.id, lo) /\ t[i].arg.id <= top
                    /\ \A j \in DOMAIN t : i < j /\ t[j].kind = "PUBLISH" => Above(t[j].arg.id, t[i].arg.id)
    BY Zenon DEF Ordered, t
<1>4. CASE i \in DOMAIN s
  <2>1. /\ s[i].arg.from = e /\ Above(s[i].arg.id, lo) /\ s[i].arg.id <= hi /\ s[i].arg.id \in Nat
        /\ t[i] = s[i] /\ s[i].kind = "PUBLISH"
      BY <1>1, <1>3, <1>4, Zenon DEF Ordered
  <2>2. Above(N, s[i].arg.id)
      BY <1>2, <2>1, AboveLower, Zenon
  <2>3. ASSUME NEW j \in DOMAIN t, i < j, t[j].kind = "PUBLISH" PROVE Above(t[j].arg.id, t[i].arg.id)
    <3>1. CASE j = n
        BY <1>1, <2>1, <2>2, <3>1, Zenon
    <3>2. CASE j \in DOMAIN s
        BY <1>1, <1>4, <2>1, <2>3, <3>2, Zenon DEF Ordered
    <3> QED
        BY <1>1, <3>1, <3>2, Zenon
  <2>4. s[i].arg.id <= top
      BY <2>1
  <2> QED
      BY <2>1, <2>3, <2>4, Zenon
<1>5. CASE i = n
  <2>1. t[i] = f /\ Above(N, lo) /\ N <= top
      BY <1>1, <1>2, <1>5, AboveLower, Zenon
  <2>2. \A j \in DOMAIN t : ~(i < j)
    <3> SUFFICES ASSUME NEW j \in DOMAIN t, n < j PROVE FALSE
        BY <1>5
    <3>1. j < n \/ j = n
        BY <1>1, Zenon
    <3> QED
        BY <1>1, <3>1
  <2> QED
      BY <2>1, <2>2, Zenon
<1> QED
    BY <1>1, <1>4, <1>5, Zenon

\* What a message with number n that has gone by leaves below.
Past(n, lo) == IF n = 0 THEN lo ELSE n

\* Where the bound is when a message has gone by.
LEMMA PastIs ==
  ASSUME NEW n \in Nat, NEW lo \in Nat, NEW hi \in Nat, lo <= hi, Above(n, lo), n <= hi
  PROVE  Past(n, lo) \in Nat /\ lo <= Past(n, lo) /\ Past(n, lo) <= hi /\ n <= Past(n, lo)
BY DEF Past, Above

\* The message with the lowest number is taken, or a replay.
LEMMA OrderedTaken ==
  ASSUME NEW S, NEW s \in Seq(S), s # <<>>, NEW e, NEW lo, NEW hi,
         Ordered(s, e, lo, hi), Head(s).kind = "PUBLISH"
  PROVE  /\ Ordered(Tail(s), e, Past(Head(s).arg.id, lo), hi)
         /\ Head(s).arg.from = e /\ Above(Head(s).arg.id, lo) /\ Head(s).arg.id <= hi
<1> DEFINE t == Tail(s)
           b == Past(Head(s).arg.id, lo)
<1>1. /\ Head(s) = s[1] /\ 1 \in DOMAIN s
      /\ \A i \in DOMAIN t : i + 1 \in DOMAIN s /\ t[i] = s[i + 1] /\ i \in Nat /\ i >= 1
    BY Taken
<1> HIDE DEF t
<1>2. Head(s).arg.from = e /\ Above(Head(s).arg.id, lo) /\ Head(s).arg.id <= hi
    BY <1>1, Zenon DEF Ordered
<1>3. ASSUME NEW i \in DOMAIN t, t[i].kind = "PUBLISH"
      PROVE  /\ t[i].arg.from = e /\ Above(t[i].arg.id, b) /\ t[i].arg.id <= hi
             /\ \A j \in DOMAIN t : i < j /\ t[j].kind = "PUBLISH" => Above(t[j].arg.id, t[i].arg.id)
  <2>1. i + 1 \in DOMAIN s /\ t[i] = s[i + 1] /\ 1 < i + 1
      BY <1>1, <1>3
  <2>2. /\ t[i].arg.from = e /\ Above(t[i].arg.id, Head(s).arg.id) /\ Above(t[i].arg.id, lo)
        /\ t[i].arg.id <= hi
      BY <1>1, <1>3, <2>1, Zenon DEF Ordered
  <2>3. ASSUME NEW j \in DOMAIN t, i < j, t[j].kind = "PUBLISH" PROVE Above(t[j].arg.id, t[i].arg.id)
    <3>1. j + 1 \in DOMAIN s /\ t[j] = s[j + 1] /\ i + 1 < j + 1
        BY <1>1, <2>3
    <3> QED
        BY <1>3, <2>1, <2>3, <3>1, Zenon DEF Ordered
  <2>4. Above(t[i].arg.id, b)
      BY <2>2 DEF Past
  <2> QED
      BY <2>2, <2>3, <2>4
<1>4. Ordered(t, e, b, hi)
    BY <1>3, Zenon DEF Ordered
<1> QED
    BY <1>2, <1>4 DEF t

-----------------------------------------------------------------------------
(* The messages' way                                                       *)

\* The queues are sequences of frames, in which messages have numbers.
LEMMA Queues ==
  ASSUME Types, NEW d \in Devices
  PROVE  /\ up[d] \in Seq(Data \cup {Ask}) /\ old[d] \in Seq(Data \cup {Ask})
         /\ down[d] \in Seq(Pushed) /\ wire[d] \in Seq(Data \cup {Hello}) /\ heard[d] \in Seq(Msgs)
         /\ \A i \in DOMAIN up[d] : up[d][i] \in Data \cup {Ask} /\ (up[d][i].kind = "PUBLISH" => up[d][i].arg.id \in Nat)
         /\ \A i \in DOMAIN down[d] : down[d][i] \in Pushed /\ (down[d][i].kind = "PUBLISH" => down[d][i].arg.id \in Nat)
         /\ \A i \in DOMAIN wire[d] : wire[d][i] \in Data \cup {Hello} /\ (wire[d][i].kind = "PUBLISH" => wire[d][i].arg.id \in Nat)
<1>1. /\ up[d] \in Seq(Data \cup {Ask}) /\ old[d] \in Seq(Data \cup {Ask})
      /\ down[d] \in Seq(Pushed) /\ wire[d] \in Seq(Data \cup {Hello}) /\ heard[d] \in Seq(Msgs)
    BY DEF Types
<1>2. \A S : \A s \in Seq(S) : \A i \in DOMAIN s : s[i] \in S
    OBVIOUS
<1>3. /\ \A i \in DOMAIN up[d] : up[d][i] \in Data \cup {Ask}
      /\ \A i \in DOMAIN down[d] : down[d][i] \in Pushed
      /\ \A i \in DOMAIN wire[d] : wire[d][i] \in Data \cup {Hello}
    BY <1>1, <1>2, Zenon
<1>4. \A f \in Data \cup Pushed \cup {Ask, Hello} : f.kind = "PUBLISH" => f.arg.id \in Nat
    BY Numbered
<1> QED
    BY <1>1, <1>3, <1>4, Zenon

\* No message enters or moves on towards d.
Still(d) ==
  /\ heard'[d] = heard[d] \/ heard'[d] = <<>>
  /\ Calm(up[d], up'[d]) /\ Calm(wire[Other(d)], wire'[Other(d)]) /\ Calm(down[Other(d)], down'[Other(d)])
  /\ peer'[d] = "send" /\ hand'[d].kind = "PUBLISH" => peer[d] = "send" /\ hand'[d] = hand[d]

\* The way of the messages to a device where nothing moves.
LEMMA LaneStill ==
  ASSUME Types, Types', setup' = setup, ops <= ops', NEW d \in Devices, Still(d),
         NEW a1 \in Nat, NEW a2 \in Nat, NEW a3 \in Nat, NEW a4 \in Nat,
         Lane(d, Other(d), a1, a2, a3, a4)
  PROVE  Lane(d, Other(d), a1, a2, a3, a4)'
<1> DEFINE e == Other(d)
<1>1. e \in Devices /\ ops \in Nat /\ ops' \in Nat
    BY OtherIs DEF Types
<1>2. /\ a1 <= a2 /\ a2 <= a3 /\ a3 <= a4 /\ a4 <= ops
      /\ Arrived(d, e, a1) /\ Ordered(up[d], e, a1, a2) /\ Applying(d, e, a2, a3)
      /\ Ordered(wire[e], e, a3, a4) /\ Ordered(down[e], e, a4, ops)
    BY Zenon DEF Lane
<1>3. DOMAIN up'[d] \subseteq Nat /\ DOMAIN wire'[e] \subseteq Nat /\ DOMAIN down'[e] \subseteq Nat
  <2>1. up'[d] \in Seq(Data \cup {Ask}) /\ wire'[e] \in Seq(Data \cup {Hello}) /\ down'[e] \in Seq(Pushed)
      BY <1>1 DEF Types
  <2>2. \A S : \A s \in Seq(S) : DOMAIN s \subseteq Nat
      OBVIOUS
  <2> QED
      BY <2>1, <2>2, Zenon
<1>4. \A x \in Nat : x <= x
    OBVIOUS
<1>5. Ordered(up'[d], e, a1, a2)
    BY <1>2, <1>3, <1>4, Queues, CalmOrdered, ZenonT(60) DEF Still
<1>11. Calm(wire[e], wire'[e]) /\ Calm(down[e], down'[e])
    BY Zenon DEF Still
<1> HIDE DEF e
<1>12. /\ wire[e] \in Seq(Data \cup {Hello}) /\ down[e] \in Seq(Pushed)
       /\ \A i \in DOMAIN wire[e] : wire[e][i].kind = "PUBLISH" => wire[e][i].arg.id \in Nat
       /\ \A i \in DOMAIN down[e] : down[e][i].kind = "PUBLISH" => down[e][i].arg.id \in Nat
    BY <1>1, Queues, Zenon
<1>6. Ordered(wire'[e], e, a3, a4)
    BY <1>2, <1>3, <1>4, <1>11, <1>12, CalmOrdered, Zenon
<1>7. Ordered(down'[e], e, a4, ops')
    BY <1>1, <1>2, <1>3, <1>11, <1>12, CalmOrdered, Zenon
<1> USE DEF e
<1>8. Arrived(d, e, a1)'
  <2>1. CASE heard'[d] = heard[d]
      BY <1>2, <2>1, Zenon DEF Arrived, Carries
  <2>2. CASE heard'[d] = <<>>
      BY <2>2, NoFrames, Zenon DEF Arrived
  <2> QED
      BY <2>1, <2>2, Zenon DEF Still
<1>9. Applying(d, e, a2, a3)'
    BY <1>2, Zenon DEF Applying, Still
<1>10. a4 <= ops'
    BY <1>1, <1>2
<1> QED
    BY <1>2, <1>5, <1>6, <1>7, <1>8, <1>9, <1>10, Zenon DEF Lane

\* Nothing moves anywhere.
LEMMA LanesStill ==
  ASSUME Types, Types', LaneInv, setup' = setup, ops <= ops', sessions <= sessions',
         \A d \in Devices : Still(d)
  PROVE  LaneInv'
<1> SUFFICES ASSUME sessions' <= 1, NEW d \in Devices
             PROVE  \E a1, a2, a3, a4 \in Nat : Lane(d, Other(d), a1, a2, a3, a4)'
    BY Zenon DEF LaneInv, Lane, Arrived, Applying, Carries
<1>1. sessions <= 1
    BY DEF Types
<1>2. PICK a1 \in Nat, a2 \in Nat, a3 \in Nat, a4 \in Nat : Lane(d, Other(d), a1, a2, a3, a4)
    BY <1>1, Zenon DEF LaneInv
<1>3. Lane(d, Other(d), a1, a2, a3, a4)'
    BY <1>2, LaneStill
<1> QED
    BY <1>3, Zenon

\* Something moves towards d alone.
LEMMA LaneMoves ==
  ASSUME Types, Types', LaneInv, setup' = setup, ops <= ops', sessions <= sessions', NEW d \in Devices,
         \A k \in Devices \ {d} : Still(k),
         \A a1, a2, a3, a4 \in Nat : sessions <= 1 /\ Lane(d, Other(d), a1, a2, a3, a4) =>
            \E b1, b2, b3, b4 \in Nat : Lane(d, Other(d), b1, b2, b3, b4)'
  PROVE  LaneInv'
<1> SUFFICES ASSUME sessions' <= 1, NEW k \in Devices
             PROVE  \E a1, a2, a3, a4 \in Nat : Lane(k, Other(k), a1, a2, a3, a4)'
    BY Zenon DEF LaneInv, Lane, Arrived, Applying, Carries
<1>1. sessions <= 1
    BY DEF Types
<1>2. PICK a1 \in Nat, a2 \in Nat, a3 \in Nat, a4 \in Nat : Lane(k, Other(k), a1, a2, a3, a4)
    BY <1>1, Zenon DEF LaneInv
<1>3. CASE k = d
    BY <1>1, <1>2, <1>3, Zenon
<1>4. CASE k # d
  <2>1. Lane(k, Other(k), a1, a2, a3, a4)'
      BY <1>2, <1>4, LaneStill
  <2> QED
      BY <2>1, Zenon
<1> QED
    BY <1>3, <1>4

\* A user's message or a replay enters the daemon's queue to the link.
LEMMA LanePublished ==
  ASSUME Types, Types', setup' = setup, NEW d \in Devices, NEW e \in Devices, NEW f \in Pushed,
         NEW a1 \in Nat, NEW a2 \in Nat, NEW a3 \in Nat, NEW a4 \in Nat, Lane(d, e, a1, a2, a3, a4),
         ops <= ops', f.kind = "PUBLISH", f.arg.from = e, Above(f.arg.id, ops), f.arg.id <= ops',
         heard' = heard, up' = up, wire' = wire, peer' = peer, hand' = hand,
         down'[e] = Append(down[e], f)
  PROVE  Lane(d, e, a1, a2, a3, a4)'
<1>1. ops \in Nat /\ ops' \in Nat /\ down[e] \in Seq(Pushed)
    BY DEF Types
<1>2. /\ a1 <= a2 /\ a2 <= a3 /\ a3 <= a4 /\ a4 <= ops
      /\ Arrived(d, e, a1) /\ Ordered(up[d], e, a1, a2) /\ Applying(d, e, a2, a3)
      /\ Ordered(wire[e], e, a3, a4) /\ Ordered(down[e], e, a4, ops)
    BY Zenon DEF Lane
<1>3. a4 <= ops'
    BY <1>1, <1>2
<1>4. Pushed \subseteq Data \cup Pushed \cup {Ask, Hello}
    OBVIOUS
<1>5. Ordered(down'[e], e, a4, ops')
    BY <1>1, <1>2, <1>3, <1>4, OrderedAdded, ZenonT(60)
<1>6. Arrived(d, e, a1)' /\ Applying(d, e, a2, a3)'
    BY <1>2, Zenon DEF Arrived, Applying, Carries
<1> QED
    BY <1>2, <1>3, <1>5, <1>6, Zenon DEF Lane

\* The link passes a message on to its peer.
LEMMA LanePassed ==
  ASSUME Types, Types', setup' = setup, NEW d \in Devices, NEW e \in Devices,
         NEW a1 \in Nat, NEW a2 \in Nat, NEW a3 \in Nat, NEW a4 \in Nat, Lane(d, e, a1, a2, a3, a4),
         down[e] # <<>>, Head(down[e]).kind = "PUBLISH",
         ops' = ops, heard' = heard, up' = up, peer' = peer, hand' = hand,
         down'[e] = Tail(down[e]), wire'[e] = Append(wire[e], Head(down[e]))
  PROVE  \E b4 \in Nat : Lane(d, e, a1, a2, a3, b4)'
<1> DEFINE f == Head(down[e])
           b == Past(f.arg.id, a4)
<1>1. ops \in Nat /\ down[e] \in Seq(Pushed) /\ wire[e] \in Seq(Data \cup {Hello})
    BY DEF Types
<1>2. /\ a1 <= a2 /\ a2 <= a3 /\ a3 <= a4 /\ a4 <= ops
      /\ Arrived(d, e, a1) /\ Ordered(up[d], e, a1, a2) /\ Applying(d, e, a2, a3)
      /\ Ordered(wire[e], e, a3, a4) /\ Ordered(down[e], e, a4, ops)
    BY Zenon DEF Lane
<1>3. Head(down[e]) \in Pushed
    BY <1>1
<1>4. f \in Data /\ f.arg.id \in Nat
    BY <1>3, Numbered
<1>11. Ordered(down'[e], e, b, ops) /\ f.arg.from = e /\ Above(f.arg.id, a4) /\ f.arg.id <= ops
    BY <1>1, <1>2, OrderedTaken
<1>5. b \in Nat /\ a4 <= b /\ b <= ops /\ f.arg.id <= b
    BY <1>1, <1>2, <1>4, <1>11, PastIs, Zenon
<1>6. Data \cup {Hello} \subseteq Data \cup Pushed \cup {Ask, Hello} /\ f \in Data \cup {Hello}
    BY <1>4, Zenon
<1>7. Ordered(wire'[e], e, a3, b)
    BY <1>1, <1>2, <1>5, <1>6, <1>11, OrderedAdded, ZenonT(60)
<1>8. Arrived(d, e, a1)' /\ Applying(d, e, a2, a3)'
    BY <1>2, Zenon DEF Arrived, Applying, Carries
<1> HIDE DEF b
<1>9. a3 <= b
    BY <1>2, <1>5
<1>10. \A c \in Nat : c = b => Lane(d, e, a1, a2, a3, c)'
    BY <1>2, <1>5, <1>7, <1>8, <1>9, <1>11, Zenon DEF Lane
<1> QED
    BY <1>5, <1>10, Zenon

\* The peer loop takes a message.
LEMMA LaneRead ==
  ASSUME Types, Types', setup' = setup, NEW d \in Devices, NEW e \in Devices,
         NEW a1 \in Nat, NEW a2 \in Nat, NEW a3 \in Nat, NEW a4 \in Nat, Lane(d, e, a1, a2, a3, a4),
         wire[e] # <<>>, Head(wire[e]).kind = "PUBLISH",
         ops' = ops, heard' = heard, up' = up, down' = down,
         wire'[e] = Tail(wire[e]), hand'[d] = Head(wire[e])
  PROVE  \E b3 \in Nat : Lane(d, e, a1, a2, b3, a4)'
<1> DEFINE f == Head(wire[e])
           b == Past(f.arg.id, a3)
<1>1. ops \in Nat /\ wire[e] \in Seq(Data \cup {Hello})
    BY DEF Types
<1>2. /\ a1 <= a2 /\ a2 <= a3 /\ a3 <= a4 /\ a4 <= ops
      /\ Arrived(d, e, a1) /\ Ordered(up[d], e, a1, a2)
      /\ Ordered(wire[e], e, a3, a4) /\ Ordered(down[e], e, a4, ops)
    BY Zenon DEF Lane
<1>3. Head(wire[e]) \in Data \cup {Hello}
    BY <1>1
<1>4. f.arg.id \in Nat
    BY <1>3, Numbered
<1>11. Ordered(wire'[e], e, b, a4) /\ f.arg.from = e /\ Above(f.arg.id, a3) /\ f.arg.id <= a4
    BY <1>1, <1>2, OrderedTaken
<1>5. b \in Nat /\ a3 <= b /\ b <= a4 /\ f.arg.id <= b
    BY <1>2, <1>4, <1>11, PastIs, Zenon
<1>6. Arrived(d, e, a1)'
    BY <1>2, Zenon DEF Arrived, Carries
<1>7. hand'[d].arg.from = e /\ hand'[d].arg.id = f.arg.id
    BY <1>11, Zenon
<1> HIDE DEF b
<1>12. a2 <= b
    BY <1>2, <1>5
<1>8. a2 <= b /\ Above(f.arg.id, a2)
    BY <1>2, <1>4, <1>11, <1>12, AboveLower, Zenon
<1>9. \A c \in Nat : c = b => Applying(d, e, a2, c)'
    BY <1>5, <1>7, <1>8, Zenon DEF Applying
<1>10. \A c \in Nat : c = b => Lane(d, e, a1, a2, c, a4)'
    BY <1>2, <1>5, <1>6, <1>8, <1>9, <1>11, Zenon DEF Lane
<1> QED
    BY <1>5, <1>10, Zenon

\* The peer loop sends a message to its daemon.
LEMMA LaneSent ==
  ASSUME Types, Types', setup' = setup, NEW d \in Devices, NEW e \in Devices,
         NEW a1 \in Nat, NEW a2 \in Nat, NEW a3 \in Nat, NEW a4 \in Nat, Lane(d, e, a1, a2, a3, a4),
         hand[d] \in Data, hand[d].kind = "PUBLISH", peer[d] = "send", peer'[d] # "send",
         ops' = ops, heard' = heard, wire' = wire, down' = down,
         up'[d] = Append(up[d], hand[d])
  PROVE  \E b2 \in Nat : Lane(d, e, a1, b2, a3, a4)'
<1> DEFINE b == Past(hand[d].arg.id, a2)
<1>1. ops \in Nat /\ up[d] \in Seq(Data \cup {Ask})
    BY DEF Types
<1>2. /\ a1 <= a2 /\ a2 <= a3 /\ a3 <= a4 /\ a4 <= ops
      /\ Arrived(d, e, a1) /\ Ordered(up[d], e, a1, a2) /\ Applying(d, e, a2, a3)
      /\ Ordered(wire[e], e, a3, a4) /\ Ordered(down[e], e, a4, ops)
    BY Zenon DEF Lane
<1>3. hand[d].arg.id \in Nat
    BY Numbered
<1>11. hand[d].arg.from = e /\ Above(hand[d].arg.id, a2) /\ hand[d].arg.id <= a3
    BY <1>2, Zenon DEF Applying
<1>4. b \in Nat /\ a2 <= b /\ b <= a3 /\ hand[d].arg.id <= b
    BY <1>2, <1>3, <1>11, PastIs, Zenon
<1>5. Data \cup {Ask} \subseteq Data \cup Pushed \cup {Ask, Hello} /\ hand[d] \in Data \cup {Ask}
    BY Zenon
<1>12. up[d] \in Seq(Data \cup {Ask}) /\ b \in Nat
    BY <1>1, <1>4, Zenon
<1> HIDE DEF b
<1>6. Ordered(up'[d], e, a1, b)
    BY <1>2, <1>4, <1>5, <1>11, <1>12, OrderedAdded, SMTT(30)
<1>7. Arrived(d, e, a1)'
    BY <1>2, Zenon DEF Arrived, Carries
<1>8. a1 <= b
    BY <1>2, <1>4
<1>9. \A c : Applying(d, e, c, a3)'
    BY Zenon DEF Applying
<1>10. \A c \in Nat : c = b => Lane(d, e, a1, c, a3, a4)'
    BY <1>2, <1>4, <1>6, <1>7, <1>8, <1>9, Zenon DEF Lane
<1> QED
    BY <1>4, <1>10, Zenon

\* The daemon publishes a message of the peer.
LEMMA LaneHeard ==
  ASSUME Types, Types', setup' = setup, NEW d \in Devices, NEW e \in Devices,
         NEW a1 \in Nat, NEW a2 \in Nat, NEW a3 \in Nat, NEW a4 \in Nat, Lane(d, e, a1, a2, a3, a4),
         up[d] # <<>>, Head(up[d]).kind = "PUBLISH", Head(up[d]).arg.topic \in Carries(d),
         ops' = ops, wire' = wire, down' = down, peer' = peer, hand' = hand,
         up'[d] = Tail(up[d]), heard'[d] = Append(heard[d], Head(up[d]).arg)
  PROVE  \E b1 \in Nat : Lane(d, e, b1, a2, a3, a4)'
<1> DEFINE f == Head(up[d])
           b == Past(f.arg.id, a1)
           s == heard[d]
           t == heard'[d]
           n == Len(s) + 1
<1>1. ops \in Nat /\ up[d] \in Seq(Data \cup {Ask}) /\ heard[d] \in Seq(Msgs)
    BY DEF Types
<1>2. /\ a1 <= a2 /\ a2 <= a3 /\ a3 <= a4 /\ a4 <= ops
      /\ Arrived(d, e, a1) /\ Ordered(up[d], e, a1, a2) /\ Applying(d, e, a2, a3)
      /\ Ordered(wire[e], e, a3, a4) /\ Ordered(down[e], e, a4, ops)
    BY Zenon DEF Lane
<1>3. Head(up[d]) \in Data \cup {Ask}
    BY <1>1
<1>4. f.arg.id \in Nat /\ f.arg \in Msgs
    BY <1>3, Numbered
<1>17. Ordered(up'[d], e, b, a2) /\ f.arg.from = e /\ Above(f.arg.id, a1) /\ f.arg.id <= a2
    BY <1>1, <1>2, OrderedTaken
<1>5. b \in Nat /\ a1 <= b /\ b <= a2 /\ f.arg.id <= b
    BY <1>2, <1>4, <1>17, PastIs, Zenon
<1>6. /\ DOMAIN s = 1 .. Len(s) /\ n \in Nat
      /\ \A i \in DOMAIN s : t[i] = s[i] /\ i < n /\ i \in Nat
      /\ t[n] = f.arg /\ \A i \in DOMAIN t : i \in DOMAIN s \/ i = n
    BY <1>1, <1>4, Added, SMTT(30)
<1>7. \A i \in DOMAIN s : s[i].id \in Nat
  <2>1. \A i \in DOMAIN s : s[i] \in Msgs
      BY <1>1
  <2>2. \A m \in Msgs : m.id \in Nat
      BY DEF Msgs
  <2> QED
      BY <2>1, <2>2, Zenon
<1>8. /\ \A i \in DOMAIN s : /\ s[i].from = e /\ s[i].topic \in Carries(d) /\ s[i].id <= a1
                             /\ \A j \in DOMAIN s : i < j => Above(s[j].id, s[i].id)
    BY <1>2, Zenon DEF Arrived
<1>9. t[n].from = e /\ t[n].topic \in Carries(d) /\ t[n].id = f.arg.id
    BY <1>6, <1>17, Zenon
<1> HIDE DEF b, n, s, t
<1>10. \A i \in DOMAIN s : Above(f.arg.id, s[i].id) /\ s[i].id <= b
  <2>1. \A i \in DOMAIN s : Above(f.arg.id, s[i].id)
      BY <1>4, <1>7, <1>8, <1>17, AboveLower, Zenon
  <2>2. \A x \in Nat : x <= a1 => x <= b
      BY <1>5
  <2> QED
      BY <1>7, <1>8, <2>1, <2>2, Zenon
<1>11. \A i \in DOMAIN s : ~(n < i)
    BY <1>6
<1>12. ~(n < n)
    BY <1>6
<1>13. \A i \in DOMAIN t : /\ t[i].from = e /\ t[i].topic \in Carries(d) /\ t[i].id <= b
                           /\ \A j \in DOMAIN t : i < j => Above(t[j].id, t[i].id)
    BY <1>5, <1>6, <1>8, <1>9, <1>10, <1>11, <1>12, Zenon
<1>14. \A c \in Nat : c = b => Arrived(d, e, c)'
    BY <1>13, Zenon DEF Arrived, Carries, t
<1>15. Applying(d, e, a2, a3)'
    BY <1>2, Zenon DEF Applying
<1>16. \A c \in Nat : c = b => Lane(d, e, c, a2, a3, a4)'
    BY <1>2, <1>5, <1>14, <1>15, <1>17, Zenon DEF Lane
<1> QED
    BY <1>5, <1>16, Zenon

\* What leaves a queue calm: that it stays, is read, or gets no message.
LEMMA CalmQueues ==
  ASSUME Types, NEW d \in Devices
  PROVE  /\ Calm(up[d], up[d]) /\ Calm(wire[d], wire[d]) /\ Calm(down[d], down[d])
         /\ up[d] # <<>> => Calm(up[d], Tail(up[d]))
         /\ wire[d] # <<>> => Calm(wire[d], Tail(wire[d]))
         /\ down[d] # <<>> => Calm(down[d], Tail(down[d]))
         /\ \A f \in Data : f.kind # "PUBLISH" => Calm(up[d], Append(up[d], f)) /\ Calm(wire[d], Append(wire[d], f))
         /\ \A f \in Pushed : f.kind # "PUBLISH" => Calm(down[d], Append(down[d], f))
         /\ Calm(up[d], <<>>) /\ Calm(wire[d], <<>>) /\ Calm(down[d], <<>>)
<1>1. /\ up[d] \in Seq(Data \cup {Ask}) /\ down[d] \in Seq(Pushed) /\ wire[d] \in Seq(Data \cup {Hello})
    BY DEF Types
<1>2. \A i \in DOMAIN <<>> : <<>>[i].kind # "PUBLISH"
    BY NoFrames
<1>3. /\ Calm(up[d], up[d]) /\ (up[d] # <<>> => Calm(up[d], Tail(up[d])))
      /\ (\A f \in Data : f.kind # "PUBLISH" => Calm(up[d], Append(up[d], f))) /\ Calm(up[d], <<>>)
    BY <1>1, <1>2, CalmIs
<1>4. /\ Calm(wire[d], wire[d]) /\ (wire[d] # <<>> => Calm(wire[d], Tail(wire[d])))
      /\ (\A f \in Data : f.kind # "PUBLISH" => Calm(wire[d], Append(wire[d], f))) /\ Calm(wire[d], <<>>)
    BY <1>1, <1>2, CalmIs
<1>5. /\ Calm(down[d], down[d]) /\ (down[d] # <<>> => Calm(down[d], Tail(down[d])))
      /\ (\A f \in Pushed : f.kind # "PUBLISH" => Calm(down[d], Append(down[d], f))) /\ Calm(down[d], <<>>)
    BY <1>1, <1>2, CalmIs
<1> QED
    BY <1>3, <1>4, <1>5, Zenon

-----------------------------------------------------------------------------
(* What the operations' parts do                                           *)

\* send_to: the frame is queued, or the link is dropped.
LEMMA PushIs ==
  ASSUME Types, NEW d \in Devices, NEW f \in Pushed, Push(d, f)
  PROVE  /\ down' \in [Devices -> Seq(Pushed)] /\ (\A k \in Devices : Len(down'[k]) <= Cap)
         /\ open' \subseteq open /\ (\A k \in Devices \ {d} : down'[k] = down[k])
         /\ \/ d \in open /\ open' = open /\ down'[d] = Append(down[d], f)
            \/ d \notin open' /\ down' = down
<1>1. /\ down \in [Devices -> Seq(Pushed)] /\ (\A k \in Devices : Len(down[k]) <= Cap)
      /\ open \subseteq Devices /\ Cap \in Nat
    BY LinkAssumption DEF Types, LinkOK
<1>2. CASE d \in open /\ Len(down[d]) < Cap
  <2>1. down' = [down EXCEPT ![d] = Append(@, f)] /\ open' = open
      BY <1>2 DEF Push
  <2>2. Append(down[d], f) \in Seq(Pushed) /\ Len(Append(down[d], f)) = Len(down[d]) + 1 /\ Len(down[d]) \in Nat
      BY <1>1, Added
  <2>3. Len(Append(down[d], f)) <= Cap
      BY <1>1, <1>2, <2>2
  <2>4. /\ down' \in [Devices -> Seq(Pushed)] /\ down'[d] = Append(down[d], f)
        /\ \A k \in Devices \ {d} : down'[k] = down[k]
      BY <1>1, <2>1, <2>2
  <2>5. \A k \in Devices : Len(down'[k]) <= Cap
      BY <1>1, <2>3, <2>4, Zenon
  <2> QED
      BY <1>2, <2>1, <2>4, <2>5, Zenon
<1>3. CASE ~(d \in open /\ Len(down[d]) < Cap)
  <2>1. down' = down /\ open' = open \ {d}
      BY <1>3, Zenon DEF Push
  <2> QED
      BY <1>1, <2>1, Zenon
<1> QED
    BY <1>2, <1>3

\* A write tells the link if it watches the key.
LEMMA WriteIs ==
  ASSUME Types, NEW d \in Devices, NEW v \in Values \cup {NONE}, Write(d, v)
  PROVE  /\ store' \in [Devices -> Values \cup {NONE}]
         /\ \/ ~(watching[d] /\ KEY \in Carries(d)) /\ down' = down /\ open' = open
            \/ \E g \in Pushed : /\ g.kind # "PUBLISH" /\ Push(d, g)
                                 /\ \A x : Marked(g, x) <=> x = IF v = NONE THEN DEL ELSE v
<1>1. store' = [store EXCEPT ![d] = v] /\ store \in [Devices -> Values \cup {NONE}]
    BY DEF Write, Types, LinkOK
<1>2. store' \in [Devices -> Values \cup {NONE}]
    BY <1>1
<1> DEFINE g == IF v = NONE THEN F("DEL", DEL) ELSE F("UPDATE", v)
<1>3. g \in Pushed /\ g.kind \in {"DEL", "UPDATE"} /\ g.arg = IF v = NONE THEN DEL ELSE v
    BY DEF F, Pushed
<1>4. ~(watching[d] /\ KEY \in Carries(d)) => down' = down /\ open' = open
    BY DEF Write
<1>5. watching[d] /\ KEY \in Carries(d) => Push(d, g)
    BY Zenon DEF Write
<1> HIDE DEF g
<1>6. g.kind # "PUBLISH"
    BY <1>3
<1>7. \A x : Marked(g, x) <=> x = IF v = NONE THEN DEL ELSE v
    BY <1>3 DEF Marked
<1> QED
    BY <1>2, <1>3, <1>4, <1>5, <1>6, <1>7, Zenon

\* The links are left alone, but that one may be dropped.
LEMMA LinksStay ==
  ASSUME WireInv, ThreadInv, setup' = setup, wire' = wire, procs' = procs, open' \subseteq open
  PROVE  WireInv' /\ ThreadInv'
<1>1. main' = main /\ local' = local /\ peer' = peer /\ hand' = hand /\ echo' = echo
    BY DEF procs
<1>2. WireInv'
    BY <1>1, Zenon DEF WireInv, WireOf
<1>3. ThreadInv'
    BY <1>1, Zenon DEF ThreadInv, ThreadOf, Wanted, Carries
<1> QED
    BY <1>2, <1>3

\* What a link's connection to its daemon is about, when nothing happens there.
LEMMA UpStays ==
  ASSUME NEW d \in Devices, UpOf(d), setup' = setup, sessions' = sessions, main'[d] = main[d],
         up'[d] = up[d], old'[d] = old[d], watching'[d] = watching[d], d \in open' => d \in open
  PROVE  UpOf(d)'
BY Zenon DEF UpOf, Wanted, Carries

\* A link's threads, when nothing happens there.
LEMMA ThreadStays ==
  ASSUME NEW d \in Devices, ThreadOf(d), setup' = setup, main'[d] = main[d], local'[d] = local[d],
         peer'[d] = peer[d], hand'[d] = hand[d], echo'[d] = echo[d], d \in open' => d \in open
  PROVE  ThreadOf(d)'
BY Zenon DEF ThreadOf, Wanted, Carries

\* The echoes a link expects, when nothing happens there.
LEMMA EchoStays ==
  ASSUME NEW d \in Devices, EchoOf(d), up'[d] = up[d], down'[d] = down[d], echo'[d] = echo[d],
         peer'[d] = peer[d], hand'[d] = hand[d]
  PROVE  EchoOf(d)'
BY Zenon DEF EchoOf, InHand

\* Only one link's connection changes.
LEMMA UpMoves ==
  ASSUME UpInv, NEW d \in Devices, setup' = setup, sessions' = sessions, main' = main, open' \subseteq open,
         \A k \in Devices \ {d} : up'[k] = up[k] /\ old'[k] = old[k] /\ watching'[k] = watching[k],
         UpOf(d)'
  PROVE  UpInv'
<1> SUFFICES ASSUME NEW k \in Devices PROVE UpOf(k)'
    BY Zenon DEF UpInv
<1>1. CASE k = d
    BY <1>1
<1>2. CASE k # d
    BY <1>2, UpStays, Zenon DEF UpInv
<1> QED
    BY <1>1, <1>2

\* Only one link's echoes change.
LEMMA EchoMoves ==
  ASSUME EchoInv, NEW d \in Devices, open \subseteq Devices, open' \subseteq open,
         \A k \in Devices \ {d} : /\ up'[k] = up[k] /\ down'[k] = down[k] /\ echo'[k] = echo[k]
                                  /\ peer'[k] = peer[k] /\ hand'[k] = hand[k],
         d \in open' => EchoOf(d)'
  PROVE  EchoInv'
<1> SUFFICES ASSUME NEW k \in open' PROVE EchoOf(k)'
    BY Zenon DEF EchoInv
<1>1. CASE k = d
    BY <1>1
<1>2. CASE k # d
    BY <1>2, EchoStays, Zenon DEF EchoInv
<1> QED
    BY <1>1, <1>2

\* No more is expected than was, and no less is to come.
LEMMA EchoKept ==
  ASSUME Types, NEW d \in Devices, EchoOf(d), echo'[d] = echo[d], peer'[d] = peer[d], hand'[d] = hand[d],
         \A x \in Marks : Count(up'[d], x) \in Nat /\ Count(down'[d], x) \in Nat
                          /\ Count(up[d], x) + Count(down[d], x) <= Count(up'[d], x) + Count(down'[d], x)
  PROVE  EchoOf(d)'
<1> SUFFICES ASSUME NEW x \in Marks
             PROVE  echo'[d][x] <= Count(up'[d], x) + Count(down'[d], x) + (IF InHand(d, x)' THEN 1 ELSE 0)
    BY Zenon DEF EchoOf
<1> DEFINE a == Count(up[d], x)
           b == Count(down[d], x)
           u == Count(up'[d], x)
           v == Count(down'[d], x)
           n == echo[d][x]
           h == IF InHand(d, x) THEN 1 ELSE 0
<1>1. n \in Nat /\ n <= a + b + h /\ echo'[d][x] = n
    BY DEF Types, LinkOK, EchoOf
<1>2. a \in Nat /\ b \in Nat
    BY CountIs DEF Types
<1>3. u \in Nat /\ v \in Nat /\ a + b <= u + v
    OBVIOUS
<1>4. h = IF InHand(d, x)' THEN 1 ELSE 0
    BY Zenon DEF InHand
<1>5. h \in Nat
    OBVIOUS
<1> HIDE DEF a, b, u, v, n, h
<1>6. n <= u + v + h
    BY <1>1, <1>2, <1>3, <1>5
<1> QED
    BY <1>1, <1>4, <1>6 DEF u, v

\* What a daemon that tells the link of something leaves of the queue to it.
Told(d, g) ==
  /\ down' \in [Devices -> Seq(Pushed)] /\ \A k \in Devices : Len(down'[k]) <= Cap
  /\ open' \subseteq open /\ \A k \in Devices \ {d} : down'[k] = down[k]
  /\ \/ down' = down
     \/ d \in open /\ open' = open /\ down'[d] = Append(down[d], g)

\* Nothing is told, or a frame is pushed.
LEMMA ToldIs ==
  ASSUME Types, NEW d \in Devices, NEW g \in Pushed, (down' = down /\ open' = open) \/ Push(d, g)
  PROVE  Told(d, g)
<1>1. /\ down \in [Devices -> Seq(Pushed)] /\ \A k \in Devices : Len(down[k]) <= Cap
    BY DEF Types, LinkOK
<1>2. CASE down' = down /\ open' = open
    BY <1>1, <1>2, Zenon DEF Told
<1>3. CASE Push(d, g)
    BY <1>3, PushIs, Zenon DEF Told
<1> QED
    BY <1>2, <1>3

\* More may come from the daemon than before.
LEMMA CountTold ==
  ASSUME Types, NEW d \in Devices, NEW g \in Pushed, Told(d, g), NEW x
  PROVE  /\ Count(down[d], x) \in Nat /\ Count(down'[d], x) \in Nat
         /\ Count(down[d], x) <= Count(down'[d], x)
<1>1. down[d] \in Seq(Pushed) /\ down'[d] \in Seq(Pushed)
    BY DEF Types, Told
<1>2. Count(down[d], x) \in Nat /\ Count(down'[d], x) \in Nat
    BY <1>1, CountIs
<1>3. down'[d] = down[d] \/ down'[d] = Append(down[d], g)
    BY Zenon DEF Told
<1>4. Count(Append(down[d], g), x) = Count(down[d], x) + (IF Marked(g, x) THEN 1 ELSE 0)
    BY <1>1, CountAdded
<1> DEFINE a == Count(down[d], x)
           b == Count(down'[d], x)
<1>5. b = a \/ b = a + (IF Marked(g, x) THEN 1 ELSE 0)
    BY <1>3, <1>4, Zenon
<1> HIDE DEF a, b
<1>6. a \in Nat /\ b \in Nat
    BY <1>2, Zenon DEF a, b
<1>7. a <= b
    BY <1>5, <1>6
<1> QED
    BY <1>6, <1>7, Zenon DEF a, b

\* A retained value that is sent is a message without a number.
LEMMA ReplayTells ==
  ASSUME Types, NEW d \in Devices, Replay(d)
  PROVE  \E g \in Pushed : g.kind = "PUBLISH" /\ Told(d, g) /\ g.arg.from = d /\ g.arg.id = 0
<1>1. PICK t \in Topics : (down' = down /\ open' = open) \/ Push(d, F("PUBLISH", [from |-> d, id |-> 0, topic |-> t]))
    BY Zenon DEF Replay
<1> DEFINE m == [from |-> d, id |-> 0, topic |-> t]
           g == F("PUBLISH", m)
<1>2. m \in Msgs /\ g \in Pushed /\ g.kind = "PUBLISH" /\ g.arg.from = d /\ g.arg.id = 0
    BY DEF Msgs, Pushed, F
<1> HIDE DEF g
<1>3. Told(d, g)
    BY <1>1, <1>2, ToldIs, Zenon DEF g
<1> QED
    BY <1>2, <1>3, Zenon

\* No message enters a queue to a link.
LEMMA CalmTold ==
  ASSUME Types, NEW d \in Devices, NEW g \in Pushed, Told(d, g), g.kind # "PUBLISH", NEW k \in Devices
  PROVE  Calm(down[k], down'[k])
<1>1. down'[k] = down[k] \/ (k = d /\ down'[d] = Append(down[d], g))
    BY Zenon DEF Told
<1> QED
    BY <1>1, CalmQueues, Zenon

\* A step of the daemon that leaves the connection from the link alone.
LEMMA Unread ==
  ASSUME IInv, Types', NEW d \in Devices, NEW g \in Pushed, Told(d, g), setup' = setup,
         sessions' = sessions, wire' = wire, procs' = procs, watching' = watching, up' = up,
         \A k \in Devices : sessions <= 1 => old'[k] = <<>>
  PROVE  WireInv' /\ ThreadInv' /\ UpInv' /\ EchoInv'
<1>1. main' = main /\ local' = local /\ peer' = peer /\ hand' = hand /\ echo' = echo
    BY DEF procs
<1>2. open \subseteq Devices /\ open' \subseteq open
    BY DEF IInv, Types, LinkOK, Told
<1>3. WireInv' /\ ThreadInv'
    BY <1>2, LinksStay DEF IInv
<1>4. UpInv'
    BY <1>1, <1>2, Zenon DEF IInv, UpInv, UpOf, Wanted, Carries
<1>5. EchoInv'
  <2>1. ASSUME d \in open' PROVE EchoOf(d)'
    <3>1. EchoOf(d) /\ Types
        BY <1>2, <2>1 DEF IInv, EchoInv
    <3>2. \A x \in Marks : Count(up[d], x) \in Nat
        BY <3>1, CountIs DEF Types
    <3>3. \A x \in Marks : /\ Count(down[d], x) \in Nat /\ Count(down'[d], x) \in Nat
                           /\ Count(down[d], x) <= Count(down'[d], x)
        BY <3>1, CountTold
    <3>4. \A a, b, c \in Nat : b <= c => a + b <= a + c
        OBVIOUS
    <3>5. \A x \in Marks : Count(up'[d], x) \in Nat /\ Count(down'[d], x) \in Nat
                           /\ Count(up[d], x) + Count(down[d], x) <= Count(up'[d], x) + Count(down'[d], x)
        BY <3>2, <3>3, <3>4, Zenon
    <3> QED
        BY <1>1, <3>1, <3>5, EchoKept, Zenon
  <2>2. \A k \in Devices \ {d} : /\ up'[k] = up[k] /\ down'[k] = down[k] /\ echo'[k] = echo[k]
                                 /\ peer'[k] = peer[k] /\ hand'[k] = hand[k]
      BY <1>1, Zenon DEF Told
  <2> QED
      BY <1>2, <2>1, <2>2, EchoMoves, Zenon DEF IInv
<1> QED
    BY <1>3, <1>4, <1>5

-----------------------------------------------------------------------------
(* The daemon's steps                                                      *)

\* A step that the invariant does not see.
LEMMA SameIInv ==
  ASSUME IInv, setup' = setup, store' = store, heard' = heard, old' = old,
         watching' = watching, up' = up, down' = down, open' = open, wire' = wire, cut' = cut,
         main' = main, local' = local, peer' = peer, running' = running, hand' = hand, echo' = echo,
         ops' = ops, sessions' = sessions, faults' = faults
  PROVE  IInv'
<1>1. Types'
    BY DEF IInv, Types, LinkOK
<1>2. WireInv' /\ EchoInv'
    BY Zenon DEF IInv, WireInv, WireOf, EchoInv, EchoOf, InHand
<1>3. ThreadInv' /\ UpInv'
    BY ThreadStays, UpStays, Zenon DEF IInv, ThreadInv, UpInv
<1>4. LaneInv'
  <2>1. \A k \in Devices : Still(k)
      BY OtherIs, CalmQueues, Zenon DEF IInv, Still
  <2>2. ops <= ops' /\ sessions <= sessions'
      BY DEF IInv, Types
  <2> QED
      BY <1>1, <2>1, <2>2, LanesStill, Zenon DEF IInv
<1> QED
    BY <1>1, <1>2, <1>3, <1>4 DEF IInv

\* The daemon tells the link of a write, a new message or a retained one.
LEMMA TellsInv ==
  ASSUME IInv, Types', NEW d \in Devices, NEW g \in Pushed, Told(d, g), ops <= ops', sessions' = sessions,
         g.kind = "PUBLISH" => g.arg.from = d /\ Above(g.arg.id, ops) /\ g.arg.id <= ops',
         setup' = setup, old' = old, watching' = watching, up' = up, wire' = wire, procs' = procs,
         heard' = heard
  PROVE  IInv'
<1> USE DEF IInv
<1>1. main' = main /\ local' = local /\ peer' = peer /\ hand' = hand /\ echo' = echo /\ running' = running
    BY DEF procs
<1>2. WireInv' /\ ThreadInv' /\ UpInv' /\ EchoInv'
    BY Unread, Zenon DEF UpInv, UpOf
<1>3. LaneInv'
  <2> DEFINE c == Other(d)
  <2>1. c \in Devices /\ Other(c) = d /\ \A k \in Devices \ {c} : k = d /\ Other(k) = c
      BY OtherIs, Zenon
  <2> HIDE DEF c
  <2>2. sessions \in Nat /\ sessions <= sessions'
      BY DEF Types
  <2>3. \A k \in Devices : Calm(down[Other(k)], down'[Other(k)]) => Still(k)
      BY <1>1, OtherIs, CalmQueues, Zenon DEF Still
  <2>4. \A k \in Devices \ {d} : Calm(down[k], down'[k])
      BY CalmQueues, Zenon DEF Told
  <2>5. CASE down' = down \/ g.kind # "PUBLISH"
    <3>1. \A k \in Devices : Calm(down[k], down'[k])
        BY <2>5, CalmTold, CalmQueues, Zenon
    <3>2. \A k \in Devices : Still(k)
        BY <2>3, <3>1, OtherIs, Zenon
    <3> QED
        BY <2>2, <3>2, LanesStill, Zenon
  <2>6. CASE g.kind = "PUBLISH" /\ down'[d] = Append(down[d], g)
    <3>1. \A k \in Devices \ {c} : Still(k)
        BY <2>1, <2>3, <2>4, OtherIs, Zenon
    <3>2. \A a1, a2, a3, a4 \in Nat : Lane(c, Other(c), a1, a2, a3, a4) => Lane(c, Other(c), a1, a2, a3, a4)'
        BY <1>1, <2>1, <2>6, LanePublished, Zenon
    <3>3. \A a1, a2, a3, a4 \in Nat : sessions <= 1 /\ Lane(c, Other(c), a1, a2, a3, a4) =>
             \E b1, b2, b3, b4 \in Nat : Lane(c, Other(c), b1, b2, b3, b4)'
      <4> SUFFICES ASSUME NEW a1 \in Nat, NEW a2 \in Nat, NEW a3 \in Nat, NEW a4 \in Nat,
                          Lane(c, Other(c), a1, a2, a3, a4)
                   PROVE  \E b1, b2, b3, b4 \in Nat : Lane(c, Other(c), b1, b2, b3, b4)'
          OBVIOUS
      <4>1. Lane(c, Other(c), a1, a2, a3, a4)'
          BY <3>2, Zenon
      <4> QED
          BY <4>1, Zenon
    <3>4. Types /\ LaneInv
        OBVIOUS
    <3> QED
        BY <2>1, <2>2, <3>1, <3>3, <3>4, LaneMoves
  <2> QED
      BY <2>5, <2>6, Zenon DEF Told
<1> QED
    BY <1>2, <1>3

\* A user writes or publishes.
LEMMA UserInv ==
  ASSUME IInv, NEW d \in Devices, User(d)
  PROVE  IInv'
<1> USE DEF IInv
<1>1. /\ ops' = ops + 1 /\ setup' = setup /\ old' = old /\ watching' = watching /\ up' = up /\ wire' = wire
      /\ cut' = cut /\ procs' = procs /\ sessions' = sessions /\ faults' = faults /\ heard' = heard
    BY DEF User
<1>2. main' = main /\ local' = local /\ peer' = peer /\ hand' = hand /\ echo' = echo /\ running' = running
    BY <1>1 DEF procs
<1>3. ops \in Nat /\ ops' \in Nat /\ ops <= ops' /\ Above(ops', ops) /\ ops' <= ops'
    BY <1>1 DEF Types, Above
<1>4. PICK g \in Pushed :
        /\ store' \in [Devices -> Values \cup {NONE}] /\ Told(d, g)
        /\ g.kind = "PUBLISH" => g.arg.from = d /\ Above(g.arg.id, ops) /\ g.arg.id <= ops'
  <2>1. CASE \E v \in Values \cup {NONE} : Write(d, v)
    <3>1. PICK v \in Values \cup {NONE} : Write(d, v)
        BY <2>1
    <3>2. /\ store' \in [Devices -> Values \cup {NONE}]
          /\ \/ down' = down /\ open' = open
             \/ \E g \in Pushed : g.kind # "PUBLISH" /\ Push(d, g)
        BY <3>1, WriteIs, Zenon
    <3>3. F("DEL", DEL) \in Pushed /\ F("DEL", DEL).kind # "PUBLISH"
        BY DEF F, Pushed
    <3>4. \E g \in Pushed : g.kind # "PUBLISH" /\ ((down' = down /\ open' = open) \/ Push(d, g))
        BY <3>2, <3>3, Zenon
    <3> QED
        BY <3>2, <3>4, ToldIs, Zenon
  <2>2. CASE store' = store /\ \E t \in Topics \cap Carries(d) : Route(d, [from |-> d, id |-> ops', topic |-> t])
    <3>1. PICK t \in Topics : Route(d, [from |-> d, id |-> ops', topic |-> t])
        BY <2>2, Zenon
    <3> DEFINE m == [from |-> d, id |-> ops', topic |-> t]
               g == F("PUBLISH", m)
    <3>2. (down' = down /\ open' = open) \/ Push(d, g)
        BY <3>1 DEF Route
    <3>3. m \in Msgs /\ g \in Pushed /\ g.arg.from = d /\ g.arg.id = ops'
        BY <1>3 DEF Msgs, Pushed, F
    <3> HIDE DEF g
    <3>4. store' \in [Devices -> Values \cup {NONE}]
        BY <2>2 DEF Types, LinkOK
    <3>5. Told(d, g)
        BY <3>2, <3>3, ToldIs, Zenon
    <3> QED
        BY <1>3, <3>3, <3>4, <3>5, Zenon
  <2> QED
      BY <2>1, <2>2, Zenon DEF User
<1>5. Types'
    BY <1>1, <1>2, <1>3, <1>4 DEF Types, LinkOK, Told
<1> QED
    BY <1>1, <1>3, <1>4, <1>5, TellsInv, Zenon

\* The daemon subscribes the link to a topic.
LEMMA SubscribeInv ==
  ASSUME IInv, NEW d \in Devices, Subscribe(d)
  PROVE  IInv'
<1>1. /\ setup' = setup /\ store' = store /\ heard' = heard /\ old' = old /\ watching' = watching
      /\ up' = up /\ down' = down /\ open' = open /\ wire' = wire /\ cut' = cut /\ main' = main
      /\ local' = local /\ peer' = peer /\ running' = running /\ hand' = hand /\ echo' = echo
      /\ ops' = ops /\ sessions' = sessions /\ faults' = faults
    BY Zenon DEF Subscribe, daemons, procs, bounds
<1> QED
    BY <1>1, SameIInv, Zenon

\* The daemon looks up a topic's retained value.
LEMMA ReplayInv ==
  ASSUME IInv, NEW d \in Devices, Replay(d)
  PROVE  IInv'
<1> USE DEF IInv
<1>1. /\ setup' = setup /\ store' = store /\ heard' = heard /\ old' = old /\ watching' = watching
      /\ up' = up /\ wire' = wire /\ cut' = cut /\ procs' = procs
      /\ ops' = ops /\ sessions' = sessions /\ faults' = faults
    BY Zenon DEF Replay, daemons, bounds
<1>2. main' = main /\ local' = local /\ peer' = peer /\ hand' = hand /\ echo' = echo /\ running' = running
    BY <1>1 DEF procs
<1>3. PICK g \in Pushed : /\ g.kind = "PUBLISH" /\ Told(d, g)
                          /\ g.arg.from = d /\ g.arg.id = 0
    BY ReplayTells, Zenon
<1>4. ops \in Nat /\ ops <= ops' /\ 0 <= ops' /\ Above(0, ops)
    BY <1>1 DEF Types, Above
<1>5. Types'
    BY <1>1, <1>2, <1>3 DEF Types, LinkOK, Told
<1> QED
    BY <1>1, <1>3, <1>4, <1>5, TellsInv, Zenon

\* The daemon has read a frame of the link.
LEMMA ReadUp ==
  ASSUME IInv, NEW d \in Devices, up[d] # <<>>, up' = [up EXCEPT ![d] = Tail(@)],
         setup' = setup, old' = old, wire' = wire, procs' = procs, sessions' = sessions, open' \subseteq open,
         \A k \in Devices \ {d} : watching'[k] = watching[k],
         watching[d] \/ up[d][1] = Ask => watching'[d]
  PROVE  /\ up' \in [Devices -> Seq(Data \cup {Ask})] /\ \A k \in Devices : Len(up'[k]) <= Cap
         /\ up'[d] = Tail(up[d]) /\ \A k \in Devices \ {d} : up'[k] = up[k]
         /\ WireInv' /\ ThreadInv' /\ UpInv'
<1> DEFINE s == up[d]
<1>1. /\ up \in [Devices -> Seq(Data \cup {Ask})] /\ (\A k \in Devices : Len(up[k]) <= Cap) /\ Cap \in Nat
      /\ s \in Seq(Data \cup {Ask}) /\ UpOf(d) /\ main' = main
    BY LinkAssumption DEF IInv, Types, LinkOK, UpInv, procs
<1>2. /\ Tail(s) \in Seq(Data \cup {Ask}) /\ Len(Tail(s)) = Len(s) - 1 /\ Len(s) \in Nat
      /\ \A i \in DOMAIN Tail(s) : i + 1 \in DOMAIN s /\ Tail(s)[i] = s[i + 1]
    BY <1>1, Taken
<1>3. /\ up' \in [Devices -> Seq(Data \cup {Ask})] /\ up'[d] = Tail(s)
      /\ \A k \in Devices \ {d} : up'[k] = up[k]
    BY <1>1, <1>2
<1>4. \A k \in Devices : Len(up'[k]) <= Cap
  <2>1. Len(Tail(s)) <= Cap
      BY <1>1, <1>2
  <2> QED
      BY <1>1, <1>3, <2>1, Zenon
<1>5. WireInv' /\ ThreadInv'
    BY LinksStay DEF IInv
<1>6. UpOf(d)'
  <2>1. d \in open' => watching'[d]
      BY <1>1, Zenon DEF UpOf
  <2>2. \A i \in DOMAIN up'[d] : up'[d][i] = Ask \/ (d \in setup.accepts /\ Wanted(d, up'[d][i]))
      BY <1>1, <1>2, <1>3, Zenon DEF UpOf
  <2>3. sessions # 0
      BY <1>1, Zenon DEF UpOf
  <2>4. sessions' <= 1 => old'[d] = <<>>
      BY <1>1, Zenon DEF UpOf
  <2> QED
      BY <2>1, <2>2, <2>3, <2>4, Zenon DEF UpOf, Wanted, Carries
<1>7. UpInv'
    BY <1>1, <1>3, <1>6, UpMoves, Zenon DEF IInv
<1> QED
    BY <1>3, <1>4, <1>5, <1>7

\* The daemon serves the link's next frame.
LEMMA ServeInv ==
  ASSUME IInv, NEW d \in Devices, Serve(d)
  PROVE  IInv'
<1> USE DEF IInv
<1> DEFINE f == Head(up[d])
<1>1. /\ up[d] # <<>> /\ up' = [up EXCEPT ![d] = Tail(@)]
      /\ setup' = setup /\ old' = old /\ wire' = wire /\ cut' = cut /\ procs' = procs
      /\ wrote' = wrote /\ ops' = ops /\ sessions' = sessions /\ faults' = faults
    BY DEF Serve, bounds
<1>2. main' = main /\ local' = local /\ peer' = peer /\ hand' = hand /\ echo' = echo /\ running' = running
    BY <1>1 DEF procs
<1>3. f \in Data \cup {Ask} /\ f = up[d][1] /\ 1 \in DOMAIN up[d] /\ up[d] \in Seq(Data \cup {Ask})
    BY <1>1, Taken DEF Types
<1>4. /\ open \subseteq Devices /\ sessions \in Nat /\ sessions <= sessions' /\ ops \in Nat /\ ops <= ops'
      /\ UpOf(d) /\ watching \in [Devices -> BOOLEAN]
    BY <1>1 DEF Types, LinkOK, UpInv
<1>5. \A x : Count(up[d], x) = Count(Tail(up[d]), x) + (IF Marked(f, x) THEN 1 ELSE 0) /\ Count(Tail(up[d]), x) \in Nat
    BY <1>1, <1>3, CountTaken, CountIs, Taken
<1>6. CASE f = Ask
  <2>1. /\ watching' = [watching EXCEPT ![d] = TRUE] /\ store' = store /\ heard' = heard
        /\ (down' = down /\ open' = open) \/ Push(d, F("REPLY", store[d]))
      BY <1>6, KindIs DEF Serve
  <2>2. F("REPLY", store[d]) \in Pushed /\ F("REPLY", store[d]).kind # "PUBLISH"
      BY DEF F, Pushed, Types, LinkOK
  <2>3. PICK g \in Pushed : g.kind # "PUBLISH" /\ Told(d, g)
      BY <2>1, <2>2, ToldIs, Zenon
  <2>4. watching' \in [Devices -> BOOLEAN] /\ watching'[d] /\ \A k \in Devices \ {d} : watching'[k] = watching[k]
      BY <1>4, <2>1
  <2>5. open' \subseteq open
      BY <2>3, Zenon DEF Told
  <2>6. /\ up' \in [Devices -> Seq(Data \cup {Ask})] /\ \A k \in Devices : Len(up'[k]) <= Cap
        /\ up'[d] = Tail(up[d]) /\ \A k \in Devices \ {d} : up'[k] = up[k]
        /\ WireInv' /\ ThreadInv' /\ UpInv'
      BY <1>1, <2>4, <2>5, ReadUp
  <2>7. Types'
      BY <1>1, <1>2, <2>1, <2>3, <2>4, <2>5, <2>6 DEF Types, LinkOK, Told
  <2>8. LaneInv'
    <3>1. \A k \in Devices : Calm(down[k], down'[k]) /\ Calm(up[k], up'[k])
        BY <1>1, <2>3, <2>6, CalmTold, CalmQueues, Zenon
    <3>2. \A k \in Devices : Still(k)
        BY <1>1, <1>2, <2>1, <3>1, OtherIs, CalmQueues, Zenon DEF Still
    <3> QED
        BY <1>1, <1>4, <2>7, <3>2, LanesStill, Zenon
  <2>9. EchoInv'
    <3>1. ASSUME d \in open' PROVE EchoOf(d)'
      <4>1. \A x : ~Marked(f, x)
          BY <1>6, KindIs DEF Marked
      <4>2. \A x \in Marks : Count(up'[d], x) = Count(up[d], x) /\ Count(up'[d], x) \in Nat
          BY <1>5, <2>6, <4>1
      <4>3. \A x \in Marks : /\ Count(down[d], x) \in Nat /\ Count(down'[d], x) \in Nat
                             /\ Count(down[d], x) <= Count(down'[d], x)
          BY <2>3, CountTold
      <4>4. \A a, b, c \in Nat : b <= c => a + b <= a + c
          OBVIOUS
      <4>5. \A x \in Marks : Count(up'[d], x) \in Nat /\ Count(down'[d], x) \in Nat
                             /\ Count(up[d], x) + Count(down[d], x) <= Count(up'[d], x) + Count(down'[d], x)
          BY <4>2, <4>3, <4>4, Zenon
      <4>6. EchoOf(d)
          BY <2>5, <3>1, Zenon DEF EchoInv
      <4> QED
          BY <1>2, <4>5, <4>6, EchoKept, Zenon
    <3>2. \A k \in Devices \ {d} : /\ up'[k] = up[k] /\ down'[k] = down[k] /\ echo'[k] = echo[k]
                                   /\ peer'[k] = peer[k] /\ hand'[k] = hand[k]
        BY <1>2, <2>3, <2>6, Zenon DEF Told
    <3> QED
        BY <1>4, <2>5, <3>1, <3>2, EchoMoves, Zenon
  <2> QED
      BY <2>6, <2>7, <2>8, <2>9
<1>7. CASE f # Ask
  <2>1. f \in Data /\ d \in setup.accepts /\ Wanted(d, f) /\ (d \in open => watching[d])
      BY <1>3, <1>4, <1>7, Zenon DEF UpOf
  <2>2. f.kind \in {"SET", "DEL", "PUBLISH"}
      BY <2>1, DataIs
  <2>3. CASE f.kind = "PUBLISH"
    <3>1. /\ heard' = [heard EXCEPT ![d] = Append(@, f.arg)]
          /\ store' = store /\ watching' = watching /\ down' = down /\ open' = open
        BY <2>3 DEF Serve
    <3>2. f.arg \in Msgs /\ f.arg.topic \in Carries(d)
        BY <2>1, <2>3, DataIs DEF Wanted
    <3>3. heard' \in [Devices -> Seq(Msgs)] /\ heard'[d] = Append(heard[d], f.arg) /\ \A k \in Devices \ {d} : heard'[k] = heard[k]
      <4>1. heard \in [Devices -> Seq(Msgs)] /\ Append(heard[d], f.arg) \in Seq(Msgs)
          BY <3>2, Added DEF Types
      <4> QED
          BY <3>1, <4>1
    <3>4. ~(up[d][1] = Ask) /\ open' \subseteq open
        BY <1>3, <1>7, <3>1, Zenon
    <3>5. /\ up' \in [Devices -> Seq(Data \cup {Ask})] /\ \A k \in Devices : Len(up'[k]) <= Cap
          /\ up'[d] = Tail(up[d]) /\ \A k \in Devices \ {d} : up'[k] = up[k]
          /\ WireInv' /\ ThreadInv' /\ UpInv'
        BY <1>1, <3>1, <3>4, ReadUp, Zenon
    <3>6. Types'
        BY <1>1, <1>2, <3>1, <3>3, <3>5 DEF Types, LinkOK
    <3>7. LaneInv'
      <4> DEFINE e == Other(d)
      <4>1. e \in Devices
          BY OtherIs
      <4>2. \A k \in Devices \ {d} : Still(k)
          BY <1>1, <1>2, <3>1, <3>3, <3>5, OtherIs, CalmQueues, Zenon DEF Still
      <4>3. \A a1, a2, a3, a4 \in Nat : sessions <= 1 /\ Lane(d, Other(d), a1, a2, a3, a4) =>
               \E b1, b2, b3, b4 \in Nat : Lane(d, Other(d), b1, b2, b3, b4)'
        <5> SUFFICES ASSUME NEW a1 \in Nat, NEW a2 \in Nat, NEW a3 \in Nat, NEW a4 \in Nat, Lane(d, e, a1, a2, a3, a4)
                     PROVE  \E b1, b2, b3, b4 \in Nat : Lane(d, e, b1, b2, b3, b4)'
            OBVIOUS
        <5> HIDE DEF e
        <5>1. \E b1 \in Nat : Lane(d, e, b1, a2, a3, a4)'
            BY <1>1, <1>2, <2>3, <3>1, <3>2, <3>3, <3>5, <3>6, <4>1, LaneHeard
        <5> QED
            BY <5>1, Zenon
      <4>4. Types /\ LaneInv
          OBVIOUS
      <4> QED
          BY <1>1, <1>4, <3>6, <4>2, <4>3, <4>4, LaneMoves
    <3>8. EchoInv'
      <4>1. ASSUME d \in open' PROVE EchoOf(d)'
        <5>1. \A x : ~Marked(f, x)
            BY <2>3 DEF Marked
        <5>2. \A x \in Marks : Count(up'[d], x) = Count(up[d], x) /\ Count(up'[d], x) \in Nat
            BY <1>5, <3>5, <5>1
        <5>3. \A x \in Marks : Count(down[d], x) \in Nat
            BY CountIs DEF Types
        <5>4. \A a, b \in Nat : a + b <= a + b
            OBVIOUS
        <5>5. \A x \in Marks : Count(up'[d], x) \in Nat /\ Count(down'[d], x) \in Nat
                               /\ Count(up[d], x) + Count(down[d], x) <= Count(up'[d], x) + Count(down'[d], x)
            BY <3>1, <5>2, <5>3, <5>4, Zenon
        <5>6. EchoOf(d)
            BY <3>1, <4>1, Zenon DEF EchoInv
        <5> QED
            BY <1>2, <5>5, <5>6, EchoKept, Zenon
      <4>2. \A k \in Devices \ {d} : /\ up'[k] = up[k] /\ down'[k] = down[k] /\ echo'[k] = echo[k]
                                     /\ peer'[k] = peer[k] /\ hand'[k] = hand[k]
          BY <1>2, <3>1, <3>5, Zenon
      <4> QED
          BY <1>4, <3>4, <4>1, <4>2, EchoMoves, Zenon
    <3> QED
        BY <3>5, <3>6, <3>7, <3>8
  <2>4. CASE f.kind # "PUBLISH"
    <3> DEFINE v == IF f.kind = "DEL" THEN NONE ELSE f.arg
    <3>1. /\ Write(d, v) /\ heard' = heard /\ watching' = watching
          /\ v \in Values \cup {NONE} /\ f.arg = (IF v = NONE THEN DEL ELSE v)
          /\ f.kind \in {"SET", "DEL"} /\ KEY \in Carries(d)
      <4>1. f.kind \in {"SET", "DEL"} /\ KEY \in Carries(d)
          BY <2>1, <2>2, <2>4 DEF Wanted
      <4>2. Write(d, v) /\ heard' = heard /\ watching' = watching
          BY <4>1 DEF Serve
      <4>3. NONE \notin Values /\ (f.kind = "SET" => f.arg \in Values) /\ (f.kind = "DEL" => f.arg = DEL)
          BY <2>1, DataIs, LinkAssumption
      <4> QED
          BY <4>1, <4>2, <4>3
    <3> HIDE DEF v
    <3>2. F("DEL", DEL) \in Pushed /\ F("DEL", DEL).kind # "PUBLISH"
        BY DEF F, Pushed
    <3>3. /\ store' \in [Devices -> Values \cup {NONE}]
          /\ \E g \in Pushed : /\ g.kind # "PUBLISH" /\ Told(d, g)
                               /\ d \in open' => down'[d] = Append(down[d], g) /\ \A x : Marked(g, x) <=> x = f.arg
      <4>1. /\ store' \in [Devices -> Values \cup {NONE}]
            /\ \/ ~watching[d] /\ down' = down /\ open' = open
               \/ \E g \in Pushed : /\ g.kind # "PUBLISH" /\ Push(d, g)
                                    /\ \A x : Marked(g, x) <=> x = f.arg
        <5>1. /\ store' \in [Devices -> Values \cup {NONE}]
              /\ \/ ~(watching[d] /\ KEY \in Carries(d)) /\ down' = down /\ open' = open
                 \/ \E g \in Pushed : /\ g.kind # "PUBLISH" /\ Push(d, g)
                                      /\ \A x : Marked(g, x) <=> x = IF v = NONE THEN DEL ELSE v
            BY <3>1, WriteIs
        <5>2. \A x : x = f.arg <=> x = IF v = NONE THEN DEL ELSE v
            BY <3>1
        <5> HIDE DEF f
        <5> QED
            BY <3>1, <5>1, <5>2, Zenon
      <4>2. CASE ~watching[d] /\ down' = down /\ open' = open
          BY <2>1, <3>2, <4>1, <4>2, ToldIs, Zenon
      <4>3. CASE \E g \in Pushed : g.kind # "PUBLISH" /\ Push(d, g) /\ \A x : Marked(g, x) <=> x = f.arg
        <5>1. PICK g \in Pushed : g.kind # "PUBLISH" /\ Push(d, g) /\ \A x : Marked(g, x) <=> x = f.arg
            BY <4>3
        <5>2. Told(d, g) /\ (d \in open' => down'[d] = Append(down[d], g))
            BY <5>1, ToldIs, PushIs, Zenon
        <5> QED
            BY <4>1, <5>1, <5>2, Zenon
      <4> QED
          BY <4>1, <4>2, <4>3
    <3>4. PICK g \in Pushed : /\ g.kind # "PUBLISH" /\ Told(d, g)
                              /\ d \in open' => down'[d] = Append(down[d], g) /\ \A x : Marked(g, x) <=> x = f.arg
        BY <3>3
    <3>5. ~(up[d][1] = Ask) /\ open' \subseteq open
        BY <1>3, <1>7, <3>4, Zenon DEF Told
    <3>6. /\ up' \in [Devices -> Seq(Data \cup {Ask})] /\ \A k \in Devices : Len(up'[k]) <= Cap
          /\ up'[d] = Tail(up[d]) /\ \A k \in Devices \ {d} : up'[k] = up[k]
          /\ WireInv' /\ ThreadInv' /\ UpInv'
        BY <1>1, <3>1, <3>5, ReadUp, Zenon
    <3>7. Types'
        BY <1>1, <1>2, <3>1, <3>3, <3>4, <3>5, <3>6 DEF Types, LinkOK, Told
    <3>8. LaneInv'
      <4>1. \A k \in Devices : Calm(down[k], down'[k]) /\ Calm(up[k], up'[k])
          BY <1>1, <3>4, <3>6, CalmTold, CalmQueues, Zenon
      <4>2. \A k \in Devices : Still(k)
          BY <1>1, <1>2, <3>1, <4>1, OtherIs, CalmQueues, Zenon DEF Still
      <4> QED
          BY <1>1, <1>4, <3>7, <4>2, LanesStill, Zenon
    <3>9. EchoInv'
      <4>1. ASSUME d \in open' PROVE EchoOf(d)'
        <5>1. \A x : Marked(f, x) <=> x = f.arg
            BY <3>1 DEF Marked
        <5>2. \A x \in Marks : /\ Count(down[d], x) \in Nat /\ Count(down'[d], x) \in Nat
                               /\ Count(down'[d], x) = Count(down[d], x) + (IF Marked(f, x) THEN 1 ELSE 0)
          <6> SUFFICES ASSUME NEW x \in Marks
                       PROVE  /\ Count(down[d], x) \in Nat /\ Count(down'[d], x) \in Nat
                              /\ Count(down'[d], x) = Count(down[d], x) + (IF Marked(f, x) THEN 1 ELSE 0)
              OBVIOUS
          <6>1. Count(down[d], x) \in Nat /\ Count(down'[d], x) \in Nat
              BY <3>4, CountTold
          <6>2. Count(down'[d], x) = Count(down[d], x) + (IF Marked(g, x) THEN 1 ELSE 0)
              BY <3>4, <4>1, CountAdded DEF Types
          <6>3. Marked(g, x) <=> Marked(f, x)
              BY <3>4, <4>1, <5>1, Zenon
          <6> QED
              BY <6>1, <6>2, <6>3, Zenon
        <5>3. \A a, b, n \in Nat : (b + n) + a <= b + (a + n)
            OBVIOUS
        <5>4. \A x \in Marks : (IF Marked(f, x) THEN 1 ELSE 0) \in Nat
            OBVIOUS
        <5>5. \A x \in Marks : Count(up'[d], x) \in Nat /\ Count(down'[d], x) \in Nat
                               /\ Count(up[d], x) + Count(down[d], x) <= Count(up'[d], x) + Count(down'[d], x)
            BY <1>5, <3>6, <5>2, <5>3, <5>4, Zenon
        <5>6. EchoOf(d)
            BY <3>5, <4>1, Zenon DEF EchoInv
        <5> QED
            BY <1>2, <5>5, <5>6, EchoKept, Zenon
      <4>2. \A k \in Devices \ {d} : /\ up'[k] = up[k] /\ down'[k] = down[k] /\ echo'[k] = echo[k]
                                     /\ peer'[k] = peer[k] /\ hand'[k] = hand[k]
          BY <1>2, <3>4, <3>6, Zenon DEF Told
      <4> QED
          BY <1>4, <3>5, <4>1, <4>2, EchoMoves, Zenon
    <3> QED
        BY <3>6, <3>7, <3>8, <3>9
  <2> QED
      BY <2>3, <2>4
<1> QED
    BY <1>6, <1>7

\* The daemon serves a frame of a connection that is gone.
LEMMA ServeOldInv ==
  ASSUME IInv, NEW d \in Devices, ServeOld(d)
  PROVE  IInv'
<1> USE DEF IInv
<1> DEFINE f == Head(old[d])
<1>1. /\ old[d] # <<>> /\ old' = [old EXCEPT ![d] = Tail(@)]
      /\ setup' = setup /\ watching' = watching /\ up' = up /\ wire' = wire /\ cut' = cut /\ procs' = procs
      /\ wrote' = wrote /\ ops' = ops /\ sessions' = sessions /\ faults' = faults
    BY DEF ServeOld, bounds
<1>2. main' = main /\ local' = local /\ peer' = peer /\ hand' = hand /\ echo' = echo /\ running' = running
    BY <1>1 DEF procs
<1>3. /\ f \in Data \cup {Ask} /\ Tail(old[d]) \in Seq(Data \cup {Ask})
      /\ old \in [Devices -> Seq(Data \cup {Ask})] /\ heard \in [Devices -> Seq(Msgs)]
    BY <1>1, Taken DEF Types
<1>4. old' \in [Devices -> Seq(Data \cup {Ask})]
    BY <1>1, <1>3
<1>5. ~(sessions <= 1)
    BY <1>1, Zenon DEF UpInv, UpOf
<1>6. PICK g \in Pushed : /\ store' \in [Devices -> Values \cup {NONE}] /\ Told(d, g)
                          /\ heard' \in [Devices -> Seq(Msgs)]
  <2>1. F("DEL", DEL) \in Pushed
      BY DEF F, Pushed
  <2>2. CASE f.kind = "PUBLISH"
    <3>1. /\ heard' = [heard EXCEPT ![d] = Append(@, f.arg)] /\ store' = store
          /\ (down' = down /\ open' = open) \/ Push(d, F("PUBLISH", f.arg))
        BY <2>2 DEF ServeOld, Route
    <3>2. f.arg \in Msgs
        BY <1>3, <2>2, Numbered
    <3>3. F("PUBLISH", f.arg) \in Pushed
        BY <3>2 DEF F, Pushed
    <3>4. Append(heard[d], f.arg) \in Seq(Msgs)
        BY <1>3, <3>2, Added
    <3>5. heard' \in [Devices -> Seq(Msgs)] /\ store' \in [Devices -> Values \cup {NONE}]
        BY <1>3, <3>1, <3>4 DEF Types, LinkOK
    <3>6. Told(d, F("PUBLISH", f.arg))
        BY <3>1, <3>3, ToldIs, Zenon
    <3> QED
        BY <3>3, <3>5, <3>6, Zenon
  <2>3. CASE f.kind \in {"SET", "DEL"}
    <3> DEFINE v == IF f.kind = "DEL" THEN NONE ELSE f.arg
    <3>1. Write(d, v) /\ heard' = heard
        BY <2>3 DEF ServeOld
    <3>2. f \in Data
        BY <1>3, <2>3, KindIs
    <3>3. v \in Values \cup {NONE}
        BY <2>3, <3>2, DataIs
    <3> HIDE DEF v
    <3>4. /\ store' \in [Devices -> Values \cup {NONE}]
          /\ \/ down' = down /\ open' = open
             \/ \E g \in Pushed : Push(d, g)
        BY <3>1, <3>3, WriteIs, Zenon
    <3> QED
        BY <1>3, <2>1, <3>1, <3>4, ToldIs, Zenon
  <2>4. CASE f.kind \notin {"PUBLISH", "SET", "DEL"}
    <3>1. store' = store /\ heard' = heard /\ down' = down /\ open' = open
        BY <2>4 DEF ServeOld
    <3>2. store' \in [Devices -> Values \cup {NONE}]
        BY <3>1 DEF Types, LinkOK
    <3> QED
        BY <1>3, <2>1, <3>1, <3>2, ToldIs, Zenon
  <2> QED
      BY <2>2, <2>3, <2>4
<1>7. Types'
    BY <1>1, <1>2, <1>4, <1>6 DEF Types, LinkOK, Told
<1>8. WireInv' /\ ThreadInv' /\ UpInv' /\ EchoInv'
    BY <1>1, <1>5, <1>6, <1>7, Unread, Zenon
<1>9. LaneInv'
    BY <1>1, <1>5, Zenon DEF LaneInv
<1> QED
    BY <1>7, <1>8, <1>9

\* The daemon drops the link, or the network the peer connection.
LEMMA HangUpInv ==
  ASSUME IInv, HangUp
  PROVE  IInv'
<1> USE DEF IInv
<1>1. /\ setup' = setup /\ store' = store /\ heard' = heard /\ old' = old /\ watching' = watching
      /\ down' = down /\ wire' = wire /\ procs' = procs /\ faults' = faults + 1
      /\ wrote' = wrote /\ ops' = ops /\ sessions' = sessions
    BY DEF HangUp, Fault, daemons
<1>2. main' = main /\ local' = local /\ peer' = peer /\ hand' = hand /\ echo' = echo /\ running' = running
    BY <1>1 DEF procs
<1>3. /\ open \subseteq Devices /\ sessions \in Nat /\ sessions <= sessions' /\ ops \in Nat /\ ops <= ops'
      /\ faults' \in Nat
    BY <1>1 DEF Types, LinkOK
<1>4. /\ up' \in [Devices -> Seq(Data \cup {Ask})] /\ open' \subseteq open /\ cut' \in BOOLEAN
      /\ \A k \in Devices : (up'[k] = up[k]) \/ (up'[k] = <<>> /\ k \notin open')
  <2>1. CASE \E d \in open : open' = open \ {d} /\ up' = [up EXCEPT ![d] = <<>>] /\ UNCHANGED cut
    <3>1. PICK d \in open : open' = open \ {d} /\ up' = [up EXCEPT ![d] = <<>>] /\ UNCHANGED cut
        BY <2>1
    <3>2. <<>> \in Seq(Data \cup {Ask})
        OBVIOUS
    <3>3. up \in [Devices -> Seq(Data \cup {Ask})] /\ cut \in BOOLEAN
        BY DEF Types, LinkOK
    <3> QED
        BY <1>3, <3>1, <3>2, <3>3
  <2>2. CASE cut' = TRUE /\ UNCHANGED <<open, up>>
      BY <2>2 DEF Types
  <2> QED
      BY <2>1, <2>2 DEF HangUp
<1>5. \A k \in Devices : Len(up'[k]) <= Cap
    BY <1>4, LinkAssumption DEF Types, LinkOK
<1>6. Types'
    BY <1>1, <1>2, <1>3, <1>4, <1>5 DEF Types, LinkOK
<1>7. WireInv' /\ ThreadInv'
    BY <1>1, <1>4, LinksStay
<1>8. UpInv'
  <2> SUFFICES ASSUME NEW k \in Devices PROVE UpOf(k)'
      BY Zenon DEF UpInv
  <2>1. CASE up'[k] = up[k]
      BY <1>1, <1>2, <1>4, <2>1, UpStays, Zenon DEF UpInv
  <2>2. CASE up'[k] = <<>> /\ k \notin open'
      BY <1>1, <1>2, <2>2, NoFrames, Zenon DEF UpInv, UpOf
  <2> QED
      BY <1>4, <2>1, <2>2
<1>9. LaneInv'
  <2>1. \A k \in Devices : Calm(up[k], up'[k])
      BY <1>4, CalmQueues, Zenon
  <2>2. \A k \in Devices : Still(k)
      BY <1>1, <1>2, <2>1, OtherIs, CalmQueues, Zenon DEF Still
  <2> QED
      BY <1>1, <1>3, <1>6, <2>2, LanesStill, Zenon
<1>10. EchoInv'
    BY <1>1, <1>2, <1>3, <1>4, EchoStays, Zenon DEF EchoInv
<1> QED
    BY <1>6, <1>7, <1>8, <1>9, <1>10

-----------------------------------------------------------------------------
(* The processes                                                           *)

\* The links are started.
LEMMA EstablishInv ==
  ASSUME IInv, Establish
  PROVE  IInv'
<1> USE DEF IInv
<1>1. /\ \A d \in Devices : main[d] = "off" /\ old[d] = <<>>
      /\ sessions' = sessions + 1
      /\ main' = [d \in Devices |-> "run"] /\ running' = Devices
      /\ cut' = FALSE /\ wire' = [d \in Devices |-> <<Hello>>]
      /\ open' = Devices /\ up' = [d \in Devices |-> <<Ask>>] /\ old' = up
      /\ local' = [d \in Devices |-> "recv"] /\ peer' = [d \in Devices |-> "hello"]
      /\ heard' = [d \in Devices |-> <<>>]
      /\ setup' = setup /\ store' = store /\ watching' = [d \in Devices |-> FALSE] /\ down' = down
      /\ hand' = hand /\ echo' = echo /\ wrote' = wrote /\ ops' = ops /\ faults' = faults
    BY DEF Establish, Hello, Ask
<1>2. /\ <<Hello>> \in Seq(Data \cup {Hello}) /\ <<Ask>> \in Seq(Data \cup {Ask}) /\ <<>> \in Seq(Msgs)
      /\ Len(<<Hello>>) = 1 /\ Len(<<Ask>>) = 1 /\ <<Ask>>[1] = Ask /\ <<Hello>>[1] = Hello /\ <<Ask>> # <<>>
      /\ DOMAIN <<Ask>> = {1} /\ DOMAIN <<Hello>> = {1}
    OBVIOUS
<1>3. sessions \in Nat /\ sessions <= sessions' /\ ops \in Nat /\ ops <= ops' /\ sessions' \in Nat /\ sessions' # 0
    BY <1>1 DEF Types
<1>4. \A d \in Devices : /\ wire'[d] = <<Hello>> /\ up'[d] = <<Ask>> /\ heard'[d] = <<>>
                         /\ peer'[d] = "hello" /\ local'[d] = "recv" /\ main'[d] = "run" /\ d \in open'
    BY <1>1
<1>5. 1 <= Cap
    BY LinkAssumption
<1>6. Types'
  <2>1. /\ heard' \in [Devices -> Seq(Msgs)] /\ up' \in [Devices -> Seq(Data \cup {Ask})]
        /\ wire' \in [Devices -> Seq(Data \cup {Hello})]
        /\ main' \in [Devices -> {"off", "run"}] /\ local' \in [Devices -> {"off", "recv", "leave", "done"}]
        /\ peer' \in [Devices -> {"off", "hello", "recv", "expect", "send", "leave", "done"}]
      BY <1>1, <1>2
  <2>2. \A d \in Devices : Len(wire'[d]) <= Cap /\ Len(up'[d]) <= Cap /\ Len(down'[d]) <= Cap
      BY <1>1, <1>2, <1>4, <1>5 DEF Types, LinkOK
  <2>3. /\ old' \in [Devices -> Seq(Data \cup {Ask})] /\ down' \in [Devices -> Seq(Pushed)]
        /\ hand' \in [Devices -> Data \cup {Nothing}] /\ setup' \in Setups /\ ops' \in Nat /\ faults' \in Nat
        /\ store' \in [Devices -> Values \cup {NONE}] /\ watching' \in [Devices -> BOOLEAN]
        /\ echo' \in [Devices -> [Marks -> Nat]]
      BY <1>1 DEF Types, LinkOK
  <2>4. open' \subseteq Devices /\ running' \subseteq Devices /\ cut' \in BOOLEAN
      BY <1>1
  <2> QED
      BY <1>3, <2>1, <2>2, <2>3, <2>4 DEF Types, LinkOK
<1>7. WireInv'
    BY <1>2, <1>4 DEF WireInv, WireOf
<1>8. ThreadInv'
    BY <1>4 DEF ThreadInv, ThreadOf
<1>9. UpInv'
  <2> SUFFICES ASSUME NEW k \in Devices PROVE UpOf(k)'
      BY Zenon DEF UpInv
  <2>1. sessions' <= 1 => sessions = 0
      BY <1>1, <1>3
  <2>2. sessions' <= 1 => old'[k] = <<>>
      BY <1>1, <2>1, Zenon DEF UpInv, UpOf
  <2>3. \A i \in DOMAIN up'[k] : up'[k][i] = Ask
      BY <1>2, <1>4
  <2>4. up'[k] # <<>> /\ up'[k][1] = Ask
      BY <1>2, <1>4
  <2> QED
      BY <1>3, <2>2, <2>3, <2>4, Zenon DEF UpOf
<1>10. LaneInv'
  <2>1. /\ \A i \in DOMAIN <<Ask>> : <<Ask>>[i].kind # "PUBLISH"
        /\ \A i \in DOMAIN <<Hello>> : <<Hello>>[i].kind # "PUBLISH"
      BY <1>2, KindIs
  <2>2. \A k \in Devices : Calm(up[k], <<Ask>>) /\ Calm(wire[k], <<Hello>>)
      BY <2>1, CalmIs DEF Types
  <2>3. \A k \in Devices : Still(k)
    <3> SUFFICES ASSUME NEW k \in Devices PROVE Still(k)
        OBVIOUS
    <3>1. Other(k) \in Devices
        BY OtherIs
    <3>2. peer'[k] # "send" /\ heard'[k] = <<>>
        BY <1>4
    <3>3. Calm(up[k], up'[k]) /\ Calm(wire[Other(k)], wire'[Other(k)]) /\ Calm(down[Other(k)], down'[Other(k)])
        BY <1>1, <1>4, <2>2, <3>1, CalmQueues, Zenon
    <3> QED
        BY <3>2, <3>3, Zenon DEF Still
  <2> QED
      BY <1>1, <1>3, <1>6, <2>3, LanesStill, Zenon
<1>11. EchoInv'
  <2> SUFFICES ASSUME NEW k \in Devices, NEW x \in Marks
               PROVE  echo'[k][x] <= Count(up'[k], x) + Count(down'[k], x) + (IF InHand(k, x)' THEN 1 ELSE 0)
      BY <1>1, Zenon DEF EchoInv, EchoOf
  <2>1. echo'[k][x] = 0
      BY <1>1, Zenon DEF ThreadInv, ThreadOf
  <2>2. Count(up'[k], x) \in Nat /\ Count(down'[k], x) \in Nat
      BY <1>6, CountIs DEF Types
  <2> HIDE DEF IInv
  <2> QED
      BY <2>1, <2>2
<1> QED
    BY <1>6, <1>7, <1>8, <1>9, <1>10, <1>11

\* A process is told to stop.
LEMMA StopInv ==
  ASSUME IInv, NEW d \in Devices, Stop(d), ops' = ops, sessions' = sessions, faults' \in Nat
  PROVE  IInv'
<1> USE DEF IInv
<1>1. /\ running' = running \ {d} /\ open' = open \ {d} /\ cut' = TRUE
      /\ setup' = setup /\ store' = store /\ heard' = heard /\ old' = old /\ watching' = watching /\ up' = up
      /\ down' = down /\ wire' = wire /\ main' = main /\ local' = local /\ peer' = peer /\ hand' = hand /\ echo' = echo
    BY DEF Stop, daemons
<1>2. sessions \in Nat /\ sessions <= sessions' /\ ops \in Nat /\ ops <= ops' /\ open' \subseteq open
    BY <1>1 DEF Types
<1>3. Types'
    BY <1>1 DEF Types, LinkOK
<1>4. WireInv'
    BY <1>1, Zenon DEF WireInv, WireOf
<1>5. ThreadInv'
    BY <1>1, <1>2, Zenon DEF ThreadInv, ThreadOf, Wanted, Carries
<1>6. UpInv'
    BY <1>1, <1>2, Zenon DEF UpInv, UpOf, Wanted, Carries
<1>7. LaneInv'
  <2>1. \A k \in Devices : Still(k)
      BY <1>1, OtherIs, CalmQueues, Zenon DEF Still
  <2> QED
      BY <1>1, <1>2, <1>3, <2>1, LanesStill, Zenon
<1>8. EchoInv'
    BY <1>1, <1>2, Zenon DEF EchoInv, EchoOf, InHand
<1> QED
    BY <1>3, <1>4, <1>5, <1>6, <1>7, <1>8

\* A process is gone.
LEMMA ExitInv ==
  ASSUME IInv, NEW d \in Devices, Exit(d)
  PROVE  IInv'
<1> USE DEF IInv
<1> DEFINE e == Other(d)
           none == [x \in Marks |-> 0]
<1>1. /\ main[d] = "run" /\ local[d] = "done" /\ peer[d] = "done"
      /\ main' = [main EXCEPT ![d] = "off"]
      /\ local' = [local EXCEPT ![d] = "off"] /\ peer' = [peer EXCEPT ![d] = "off"]
      /\ echo' = [echo EXCEPT ![d] = none]
      /\ watching' = [watching EXCEPT ![d] = FALSE]
      /\ down' = [down EXCEPT ![d] = <<>>] /\ wire' = [wire EXCEPT ![e] = <<>>]
      /\ setup' = setup /\ store' = store /\ heard' = heard /\ old' = old /\ up' = up /\ open' = open
      /\ cut' = cut /\ running' = running /\ hand' = hand
      /\ wrote' = wrote /\ ops' = ops /\ sessions' = sessions /\ faults' = faults
    BY DEF Exit, daemons, bounds
<1>2. sessions \in Nat /\ sessions <= sessions' /\ ops \in Nat /\ ops <= ops' /\ open \subseteq Devices
    BY <1>1 DEF Types, LinkOK
<1>3. e \in Devices /\ e # d /\ Other(e) = d /\ \A k \in Devices : k # d => k = e
    BY OtherIs, Zenon
<1> HIDE DEF e
<1>4. <<>> \in Seq(Pushed) /\ <<>> \in Seq(Data \cup {Hello}) /\ Len(<<>>) = 0 /\ none \in [Marks -> Nat] /\ \A x \in Marks : none[x] = 0
    OBVIOUS
<1> HIDE DEF none
<1>5. /\ main' \in [Devices -> {"off", "run"}] /\ local' \in [Devices -> {"off", "recv", "leave", "done"}]
      /\ peer' \in [Devices -> {"off", "hello", "recv", "expect", "send", "leave", "done"}]
      /\ echo' \in [Devices -> [Marks -> Nat]] /\ watching' \in [Devices -> BOOLEAN]
      /\ down' \in [Devices -> Seq(Pushed)] /\ wire' \in [Devices -> Seq(Data \cup {Hello})]
    BY <1>1, <1>3, <1>4 DEF Types, LinkOK
<1>6. /\ main'[d] = "off" /\ local'[d] = "off" /\ peer'[d] = "off" /\ echo'[d] = none /\ ~watching'[d] /\ down'[d] = <<>>
      /\ wire'[e] = <<>> /\ \A k \in Devices : k # e => wire'[k] = wire[k]
      /\ \A k \in Devices : k # d => /\ main'[k] = main[k] /\ local'[k] = local[k] /\ peer'[k] = peer[k]
                                     /\ echo'[k] = echo[k] /\ watching'[k] = watching[k] /\ down'[k] = down[k]
    BY <1>1, <1>3 DEF Types, LinkOK
<1>7. Types'
  <2>1. \A k \in Devices : Len(wire'[k]) <= Cap /\ Len(up'[k]) <= Cap /\ Len(down'[k]) <= Cap
      BY <1>1, <1>4, <1>6, LinkAssumption DEF Types, LinkOK
  <2> QED
      BY <1>1, <1>5, <2>1 DEF Types, LinkOK
<1>8. d \notin open
    BY <1>1, Zenon DEF ThreadInv, ThreadOf
<1>9. WireInv'
    BY <1>3, <1>6, NoFrames DEF WireInv, WireOf
<1>10. ThreadInv'
  <2>1. ThreadOf(d)'
      BY <1>1, <1>4, <1>6, <1>8 DEF ThreadOf
  <2>2. ASSUME NEW k \in Devices, k # d PROVE ThreadOf(k)'
      BY <1>1, <1>6, <2>2, ThreadStays, Zenon DEF ThreadInv
  <2> QED
      BY <2>1, <2>2, Zenon DEF ThreadInv
<1>11. UpInv'
  <2>1. UpOf(d)'
      BY <1>1, <1>6, <1>8, Zenon DEF UpInv, UpOf, Wanted, Carries
  <2>2. ASSUME NEW k \in Devices, k # d PROVE UpOf(k)'
      BY <1>1, <1>6, <2>2, UpStays, Zenon DEF UpInv
  <2> QED
      BY <2>1, <2>2, Zenon DEF UpInv
<1>12. LaneInv'
  <2>1. \A k \in Devices : Calm(down[k], down'[k]) /\ Calm(wire[k], wire'[k])
      BY <1>6, CalmQueues, Zenon
  <2>2. \A k \in Devices : peer'[k] = "send" => peer[k] = "send"
      BY <1>6
  <2>3. \A k \in Devices : Still(k)
      BY <1>1, <2>1, <2>2, OtherIs, CalmQueues, Zenon DEF Still
  <2> QED
      BY <1>1, <1>2, <1>7, <2>3, LanesStill, Zenon
<1>13. EchoInv'
    BY <1>1, <1>2, <1>6, <1>8, EchoStays, Zenon DEF EchoInv
<1> QED
    BY <1>7, <1>9, <1>10, <1>11, <1>12, <1>13

-----------------------------------------------------------------------------
(* local_loop                                                              *)

\* The thread goes on or leaves.
LEMMA LoopIs == ASSUME NEW d PROVE Loop(d) \in {"recv", "leave"}
BY DEF Loop

\* local_loop handles a frame: fewer copies are to come, and fewer expected.
LEMMA LocalFrameInv ==
  ASSUME IInv, NEW d \in Devices, LocalFrame(d)
  PROVE  IInv'
<1> USE DEF IInv
<1> DEFINE h == Head(down[d])
           g == Forwarded(d, h)
           mine == Expected(d, g)
           sent == g # Nothing /\ ~mine /\ ~cut
<1>1. /\ local[d] = "recv" /\ down[d] # <<>> /\ (sent => Len(wire[d]) < Cap)
      /\ wire' = (IF sent THEN [wire EXCEPT ![d] = Append(@, g)] ELSE wire)
      /\ echo' = (IF mine THEN [echo EXCEPT ![d][g.arg] = @ - 1] ELSE echo)
      /\ down' = [down EXCEPT ![d] = Tail(@)] /\ local' = [local EXCEPT ![d] = Loop(d)]
      /\ setup' = setup /\ store' = store /\ heard' = heard /\ old' = old /\ watching' = watching /\ up' = up
      /\ open' = open /\ cut' = cut /\ main' = main /\ peer' = peer /\ running' = running /\ hand' = hand
      /\ wrote' = wrote /\ ops' = ops /\ sessions' = sessions /\ faults' = faults
    BY DEF LocalFrame, daemons, bounds
<1>2. /\ sessions \in Nat /\ sessions <= sessions' /\ ops \in Nat /\ ops <= ops' /\ open \subseteq Devices
      /\ down \in [Devices -> Seq(Pushed)] /\ wire \in [Devices -> Seq(Data \cup {Hello})]
      /\ echo \in [Devices -> [Marks -> Nat]] /\ local \in [Devices -> {"off", "recv", "leave", "done"}]
    BY <1>1 DEF Types, LinkOK
<1>3. h \in Pushed /\ Tail(down[d]) \in Seq(Pushed) /\ Len(Tail(down[d])) <= Len(down[d]) /\ Len(Tail(down[d])) \in Nat /\ Len(down[d]) \in Nat
    BY <1>1, <1>2, Taken
<1>4. /\ g \in Data \cup {Nothing} /\ (g \in Data /\ g.kind = "PUBLISH" => h.kind = "PUBLISH" /\ g = h)
      /\ \A x : Marked(h, x) => g \in Data /\ g.kind # "PUBLISH" /\ g.arg = x
    BY <1>3, ForwardedIs
<1>5. mine => g \in Data /\ g.kind # "PUBLISH" /\ g.arg \in Marks /\ echo[d][g.arg] > 0
  <2>1. mine => g.kind \in {"SET", "DEL"} /\ echo[d][g.arg] > 0
      BY DEF Expected
  <2>2. mine => g \in Data
      BY <1>4, <2>1, KindIs
  <2> QED
      BY <2>1, <2>2, DataIs
<1>6. sent => g \in Data
    BY <1>4
<1>7. \A x : Marked(h, x) => (mine <=> echo[d][x] > 0)
  <2> SUFFICES ASSUME NEW x, Marked(h, x) PROVE mine <=> echo[d][x] > 0
      OBVIOUS
  <2>1. g \in Data /\ g.kind # "PUBLISH" /\ g.arg = x
      BY <1>4
  <2>2. g.kind \in {"SET", "DEL"}
      BY <2>1, DataIs
  <2> QED
      BY <2>1, <2>2, Zenon DEF Expected
<1> HIDE DEF h, g, mine, sent
<1>8. /\ down' \in [Devices -> Seq(Pushed)] /\ down'[d] = Tail(down[d]) /\ \A k \in Devices \ {d} : down'[k] = down[k]
      /\ local' \in [Devices -> {"off", "recv", "leave", "done"}] /\ local'[d] \in {"recv", "leave"}
      /\ \A k \in Devices \ {d} : local'[k] = local[k]
    BY <1>1, <1>2, <1>3, LoopIs
<1>9. /\ echo' \in [Devices -> [Marks -> Nat]] /\ (\A k \in Devices \ {d} : echo'[k] = echo[k])
      /\ \A x \in Marks : /\ echo'[d][x] <= echo[d][x]
                          /\ Marked(h, x) => echo'[d][x] = 0 \/ echo'[d][x] = echo[d][x] - 1
  <2>1. CASE mine
    <3>1. echo' = [echo EXCEPT ![d] = [echo[d] EXCEPT ![g.arg] = echo[d][g.arg] - 1]]
        BY <1>1, <2>1
    <3> DEFINE r == [echo[d] EXCEPT ![g.arg] = echo[d][g.arg] - 1]
    <3>2. echo[d] \in [Marks -> Nat] /\ g.arg \in Marks /\ echo[d][g.arg] \in Nat /\ echo[d][g.arg] - 1 \in Nat
        BY <1>2, <1>5, <2>1
    <3>3. r \in [Marks -> Nat] /\ r[g.arg] = echo[d][g.arg] - 1 /\ \A x \in Marks : x # g.arg => r[x] = echo[d][x]
        BY <3>2
    <3> HIDE DEF r
    <3>4. echo' \in [Devices -> [Marks -> Nat]] /\ echo'[d] = r /\ \A k \in Devices \ {d} : echo'[k] = echo[k]
        BY <1>2, <3>1, <3>3 DEF r
    <3>5. \A x \in Marks : echo[d][x] \in Nat
        BY <3>2
    <3>6. \A x \in Marks : /\ r[x] <= echo[d][x]
                           /\ x = g.arg => r[x] = echo[d][x] - 1
        BY <3>2, <3>3, <3>5
    <3> QED
        BY <1>4, <3>4, <3>6, Zenon
  <2>2. CASE ~mine
    <3>1. echo' = echo
        BY <1>1, <2>2
    <3>2. \A x \in Marks : echo[d][x] \in Nat
        BY <1>2
    <3>3. \A x \in Marks : Marked(h, x) => echo[d][x] = 0
        BY <1>7, <2>2, <3>2
    <3>4. \A n \in Nat : n <= n
        OBVIOUS
    <3> QED
        BY <1>2, <3>1, <3>2, <3>3, <3>4, Zenon
  <2> QED
      BY <2>1, <2>2
<1>10. /\ wire' \in [Devices -> Seq(Data \cup {Hello})] /\ (\A k \in Devices \ {d} : wire'[k] = wire[k])
       /\ (wire'[d] = wire[d] \/ (g \in Data /\ wire'[d] = Append(wire[d], g)))
       /\ \A k \in Devices : Len(wire'[k]) <= Cap
  <2>0. \A k \in Devices : Len(wire[k]) <= Cap
      BY DEF Types, LinkOK
  <2>1. CASE sent
    <3>1. wire' = [wire EXCEPT ![d] = Append(@, g)] /\ g \in Data /\ Len(wire[d]) < Cap
        BY <1>1, <1>6, <2>1
    <3>2. /\ Append(wire[d], g) \in Seq(Data \cup {Hello}) /\ Len(Append(wire[d], g)) = Len(wire[d]) + 1
          /\ Len(wire[d]) \in Nat
        BY <1>2, <3>1, Added
    <3>3. Len(Append(wire[d], g)) <= Cap
        BY <3>1, <3>2, LinkAssumption
    <3>4. /\ wire' \in [Devices -> Seq(Data \cup {Hello})] /\ wire'[d] = Append(wire[d], g)
          /\ \A k \in Devices \ {d} : wire'[k] = wire[k]
        BY <1>2, <3>1, <3>2
    <3> QED
        BY <2>0, <3>1, <3>3, <3>4, Zenon
  <2>2. CASE ~sent
      BY <1>1, <1>2, <2>0, <2>2, Zenon
  <2> QED
      BY <2>1, <2>2
<1>11. Types'
  <2>1. Len(down'[d]) <= Cap
      BY <1>3, <1>8, LinkAssumption DEF Types, LinkOK
  <2>2. \A k \in Devices : Len(up'[k]) <= Cap /\ Len(down'[k]) <= Cap
      BY <1>1, <1>8, <2>1, Zenon DEF Types, LinkOK
  <2> QED
      BY <1>1, <1>8, <1>9, <1>10, <2>2 DEF Types, LinkOK
<1>12. WireInv'
  <2>1. \A i \in DOMAIN wire'[d] : wire'[d][i] \in Data \/ (i \in DOMAIN wire[d] /\ wire'[d][i] = wire[d][i])
    <3>1. CASE wire'[d] = wire[d]
        BY <3>1, Zenon
    <3>2. CASE g \in Data /\ wire'[d] = Append(wire[d], g)
      <4>1. g \in Data \cup {Hello} /\ wire[d] \in Seq(Data \cup {Hello})
          BY <1>2, <3>2
      <4> QED
          BY <3>2, <4>1, Added
    <3> QED
        BY <1>10, <3>1, <3>2
  <2>2. ASSUME NEW k \in Devices PROVE WireOf(k)'
    <3>1. WireOf(k) /\ Other(k) \in Devices
        BY OtherIs DEF WireInv
    <3>2. \A i \in DOMAIN wire'[k] : i > 1 => wire'[k][i] \in Data
        BY <1>10, <2>1, <3>1, Zenon DEF WireOf
    <3>3. peer'[k] \in {"recv", "expect", "send"} => \A i \in DOMAIN wire'[Other(k)] : wire'[Other(k)][i] \in Data
      <4> DEFINE o == Other(k)
      <4>1. o \in Devices /\ (peer[k] \in {"recv", "expect", "send"} => \A i \in DOMAIN wire[o] : wire[o][i] \in Data)
          BY <3>1, Zenon DEF WireOf
      <4> HIDE DEF o
      <4>2. peer'[k] \in {"recv", "expect", "send"} => \A i \in DOMAIN wire'[o] : wire'[o][i] \in Data
          BY <1>1, <1>10, <2>1, <4>1, Zenon
      <4> QED
          BY <4>2, Zenon DEF o
    <3> QED
        BY <3>2, <3>3, Zenon DEF WireOf
  <2> QED
      BY <2>2, Zenon DEF WireInv
<1>13. ThreadInv'
  <2>1. main[d] # "off" /\ local'[d] # "off"
      BY <1>1, <1>8 DEF ThreadInv, ThreadOf
  <2>2. ThreadOf(d)'
      BY <1>1, <2>1, Zenon DEF ThreadInv, ThreadOf, Wanted, Carries
  <2>3. ASSUME NEW k \in Devices, k # d PROVE ThreadOf(k)'
      BY <1>1, <1>8, <1>9, <2>3, ThreadStays, Zenon DEF ThreadInv
  <2> QED
      BY <2>2, <2>3, Zenon DEF ThreadInv
<1>14. UpInv'
    BY <1>1, UpStays, Zenon DEF UpInv
<1>15. LaneInv'
  <2> DEFINE c == Other(d)
  <2>1. c \in Devices /\ c # d /\ Other(c) = d /\ \A k \in Devices \ {c} : k = d /\ Other(k) = c
      BY OtherIs, Zenon
  <2> HIDE DEF c
  <2>2. \A k \in Devices : Calm(down[k], down'[k])
      BY <1>1, <1>8, CalmQueues, Zenon
  <2>3. \A k \in Devices \ {d} : Calm(wire[k], wire'[k])
      BY <1>10, CalmQueues, Zenon
  <2>4. \A k \in Devices : Calm(wire[Other(k)], wire'[Other(k)]) => Still(k)
      BY <1>1, <2>2, OtherIs, CalmQueues, Zenon DEF Still
  <2>5. CASE wire'[d] = wire[d] \/ (g \in Data /\ g.kind # "PUBLISH" /\ wire'[d] = Append(wire[d], g))
    <3>1. \A k \in Devices : Calm(wire[k], wire'[k])
        BY <2>3, <2>5, CalmQueues, Zenon
    <3>2. \A k \in Devices : Still(k)
        BY <2>4, <3>1, OtherIs, Zenon
    <3> QED
        BY <1>1, <1>2, <1>11, <3>2, LanesStill, Zenon
  <2>6. CASE g \in Data /\ g.kind = "PUBLISH" /\ wire'[d] = Append(wire[d], g)
    <3>1. \A k \in Devices \ {c} : Still(k)
        BY <2>1, <2>3, <2>4, Zenon
    <3>2. h.kind = "PUBLISH" /\ g = h
        BY <1>4, <2>6
    <3>3. \A a1, a2, a3, a4 \in Nat : sessions <= 1 /\ Lane(c, Other(c), a1, a2, a3, a4) =>
             \E b1, b2, b3, b4 \in Nat : Lane(c, Other(c), b1, b2, b3, b4)'
      <4> SUFFICES ASSUME NEW a1 \in Nat, NEW a2 \in Nat, NEW a3 \in Nat, NEW a4 \in Nat,
                          Lane(c, d, a1, a2, a3, a4)
                   PROVE  \E b1, b2, b3, b4 \in Nat : Lane(c, d, b1, b2, b3, b4)'
          BY <2>1
      <4>1. Types /\ Head(down[d]).kind = "PUBLISH" /\ wire'[d] = Append(wire[d], Head(down[d]))
          BY <2>6, <3>2, Zenon DEF h
      <4>2. \E b4 \in Nat : Lane(c, d, a1, a2, a3, b4)'
          BY <1>1, <1>8, <1>11, <2>1, <4>1, LanePassed, ZenonT(60)
      <4> QED
          BY <4>2, Zenon
    <3>4. Types /\ LaneInv
        OBVIOUS
    <3> QED
        BY <1>1, <1>2, <1>11, <2>1, <3>1, <3>3, <3>4, LaneMoves
  <2> QED
      BY <1>10, <2>5, <2>6, Zenon
<1>16. EchoInv'
  <2>1. ASSUME d \in open' PROVE EchoOf(d)'
    <3> SUFFICES ASSUME NEW x \in Marks
                 PROVE  echo'[d][x] <= Count(up'[d], x) + Count(down'[d], x) + (IF InHand(d, x)' THEN 1 ELSE 0)
        BY Zenon DEF EchoOf
    <3> DEFINE a == Count(up[d], x)
               b == Count(down[d], x)
               v == Count(down'[d], x)
               n == echo[d][x]
               m == echo'[d][x]
               q == IF InHand(d, x) THEN 1 ELSE 0
    <3>1. n \in Nat /\ m \in Nat /\ n <= a + b + q
        BY <1>1, <1>2, <1>9, <2>1 DEF EchoInv, EchoOf
    <3>2. a \in Nat /\ b \in Nat /\ v \in Nat /\ q \in Nat
        BY <1>8, CountIs DEF Types
    <3>3. b = v + (IF Marked(h, x) THEN 1 ELSE 0)
        BY <1>1, <1>2, <1>8, CountTaken DEF h
    <3>4. q = (IF InHand(d, x)' THEN 1 ELSE 0) /\ a = Count(up'[d], x)
        BY <1>1, Zenon DEF InHand
    <3>5. m <= n /\ (Marked(h, x) => m = 0 \/ m = n - 1)
        BY <1>9, Zenon
    <3> HIDE DEF a, b, v, n, m, q, IInv
    <3>6. m <= a + v + q
      <4>1. CASE Marked(h, x)
          BY <3>1, <3>2, <3>3, <3>5, <4>1
      <4>2. CASE ~Marked(h, x)
          BY <3>1, <3>2, <3>3, <3>5, <4>2
      <4> QED
          BY <4>1, <4>2
    <3> QED
        BY <3>4, <3>6, Zenon DEF v, m
  <2>2. \A k \in Devices \ {d} : /\ up'[k] = up[k] /\ down'[k] = down[k] /\ echo'[k] = echo[k]
                                 /\ peer'[k] = peer[k] /\ hand'[k] = hand[k]
      BY <1>1, <1>8, <1>9, Zenon
  <2>3. open' \subseteq open
      BY <1>1
  <2> QED
      BY <1>2, <2>1, <2>2, <2>3, EchoMoves, Zenon
<1> QED
    BY <1>11, <1>12, <1>13, <1>14, <1>15, <1>16

\* local_loop ends.
LEMMA LocalEndInv ==
  ASSUME IInv, NEW d \in Devices, LocalEnd(d)
  PROVE  IInv'
<1> USE DEF IInv
<1>1. /\ local[d] \in {"leave", "recv"} /\ local' = [local EXCEPT ![d] = "done"]
      /\ running' = running \ {d} /\ cut' = TRUE
      /\ setup' = setup /\ store' = store /\ heard' = heard /\ old' = old /\ watching' = watching /\ up' = up
      /\ down' = down /\ open' = open /\ wire' = wire /\ main' = main /\ peer' = peer /\ hand' = hand /\ echo' = echo
      /\ wrote' = wrote /\ ops' = ops /\ sessions' = sessions /\ faults' = faults
    BY DEF LocalEnd, daemons, socks, bounds
<1>2. sessions \in Nat /\ sessions <= sessions' /\ ops \in Nat /\ ops <= ops'
    BY <1>1 DEF Types
<1>3. Types'
    BY <1>1 DEF Types, LinkOK
<1>4. WireInv'
    BY <1>1, Zenon DEF WireInv, WireOf
<1>5. local'[d] = "done" /\ \A k \in Devices : k # d => local'[k] = local[k]
    BY <1>1 DEF Types, LinkOK
<1>6. ThreadInv'
  <2>1. main[d] # "off" /\ local'[d] # "off"
      BY <1>1, <1>5 DEF ThreadInv, ThreadOf
  <2>2. ThreadOf(d)'
      BY <1>1, <2>1, Zenon DEF ThreadInv, ThreadOf, Wanted, Carries
  <2>3. ASSUME NEW k \in Devices, k # d PROVE ThreadOf(k)'
      BY <1>1, <1>5, <2>3, ThreadStays, Zenon DEF ThreadInv
  <2> QED
      BY <2>2, <2>3, Zenon DEF ThreadInv
<1>7. UpInv'
    BY <1>1, UpStays, Zenon DEF UpInv
<1>8. LaneInv'
  <2>1. \A k \in Devices : Still(k)
      BY <1>1, OtherIs, CalmQueues, Zenon DEF Still
  <2> QED
      BY <1>1, <1>2, <1>3, <2>1, LanesStill, Zenon
<1>9. EchoInv'
    BY <1>1, Zenon DEF EchoInv, EchoOf, InHand
<1> QED
    BY <1>3, <1>4, <1>6, <1>7, <1>8, <1>9

-----------------------------------------------------------------------------
(* peer_loop                                                               *)

\* What a link expects, when it had nothing to send and still has as much to
\* hear.
LEMMA EchoIdle ==
  ASSUME Types, NEW d \in Devices, EchoOf(d), peer[d] # "send",
         up'[d] = up[d], down'[d] = down[d], echo'[d] = echo[d]
  PROVE  EchoOf(d)'
<1> SUFFICES ASSUME NEW x \in Marks
             PROVE  echo'[d][x] <= Count(up'[d], x) + Count(down'[d], x) + (IF InHand(d, x)' THEN 1 ELSE 0)
    BY Zenon DEF EchoOf
<1> DEFINE a == Count(up[d], x)
           b == Count(down[d], x)
           n == echo[d][x]
           q == IF InHand(d, x)' THEN 1 ELSE 0
<1>1. ~InHand(d, x)
    BY DEF InHand
<1>2. n \in Nat /\ n <= a + b + 0
    BY <1>1 DEF Types, LinkOK, EchoOf
<1>3. a \in Nat /\ b \in Nat /\ q \in Nat
    BY CountIs DEF Types
<1>4. a = Count(up'[d], x) /\ b = Count(down'[d], x) /\ n = echo'[d][x]
    BY Zenon
<1> HIDE DEF a, b, n, q
<1>5. n <= a + b + q
    BY <1>2, <1>3
<1> QED
    BY <1>4, <1>5, Zenon DEF q

\* The peer loop has read a frame of the wire.
LEMMA ReadWire ==
  ASSUME IInv, NEW d \in Devices, NEW e \in Devices, e = Other(d), wire[e] # <<>>,
         wire' = [wire EXCEPT ![e] = Tail(@)], \A k \in Devices \ {d} : peer'[k] = peer[k]
  PROVE  /\ wire' \in [Devices -> Seq(Data \cup {Hello})] /\ \A k \in Devices : Len(wire'[k]) <= Cap
         /\ wire'[e] = Tail(wire[e]) /\ \A k \in Devices \ {e} : wire'[k] = wire[k]
         /\ WireInv'
<1> DEFINE s == wire[e]
<1>1. /\ wire \in [Devices -> Seq(Data \cup {Hello})] /\ (\A k \in Devices : Len(wire[k]) <= Cap) /\ Cap \in Nat
      /\ s \in Seq(Data \cup {Hello}) /\ WireOf(e) /\ WireOf(d)
    BY LinkAssumption DEF IInv, Types, LinkOK, WireInv
<1>2. /\ Tail(s) \in Seq(Data \cup {Hello}) /\ Len(Tail(s)) = Len(s) - 1 /\ Len(s) \in Nat
      /\ \A i \in DOMAIN Tail(s) : i + 1 \in DOMAIN s /\ Tail(s)[i] = s[i + 1] /\ i + 1 > 1
  <2>1. /\ Tail(s) \in Seq(Data \cup {Hello}) /\ Len(Tail(s)) = Len(s) - 1 /\ Len(s) \in Nat
        /\ \A i \in DOMAIN Tail(s) : i + 1 \in DOMAIN s /\ Tail(s)[i] = s[i + 1] /\ i \in Nat /\ i >= 1
      BY <1>1, Taken
  <2>2. \A i \in Nat : i >= 1 => i + 1 > 1
      OBVIOUS
  <2> QED
      BY <2>1, <2>2, Zenon
<1>3. /\ wire' \in [Devices -> Seq(Data \cup {Hello})] /\ wire'[e] = Tail(s)
      /\ \A k \in Devices \ {e} : wire'[k] = wire[k]
    BY <1>1, <1>2
<1>4. \A k \in Devices : Len(wire'[k]) <= Cap
  <2>1. Len(Tail(s)) <= Cap
      BY <1>1, <1>2
  <2> QED
      BY <1>1, <1>3, <2>1, Zenon
<1>5. \A i \in DOMAIN wire'[e] : wire'[e][i] \in Data
  <2>1. \A i \in DOMAIN s : i > 1 => s[i] \in Data
      BY <1>1, Zenon DEF WireOf
  <2> HIDE DEF s
  <2>2. \A i \in DOMAIN Tail(s) : Tail(s)[i] \in Data
      BY <1>2, <2>1, Zenon
  <2> QED
      BY <1>3, <2>2, Zenon
<1>6. d # e /\ Other(e) = d /\ \A k \in Devices : k = d \/ k = e
    BY OtherIs, Zenon
<1>7. \A i \in DOMAIN wire'[d] : i > 1 => wire'[d][i] \in Data
    BY <1>1, <1>3, <1>6, Zenon DEF WireOf
<1>8. peer'[e] \in {"recv", "expect", "send"} => \A i \in DOMAIN wire'[d] : wire'[d][i] \in Data
    BY <1>1, <1>3, <1>6, Zenon DEF WireOf
<1>9. WireOf(d)' /\ WireOf(e)'
    BY <1>5, <1>6, <1>7, <1>8, Zenon DEF WireOf
<1>10. WireInv'
    BY <1>6, <1>9, Zenon DEF WireInv
<1> QED
    BY <1>3, <1>4, <1>10

\* The peer's hello is read.
LEMMA PeerHelloInv ==
  ASSUME IInv, NEW d \in Devices, PeerHello(d)
  PROVE  IInv'
<1> USE DEF IInv
<1> DEFINE e == Other(d)
<1>1. /\ peer[d] = "hello" /\ wire[e] # <<>> /\ wire' = [wire EXCEPT ![e] = Tail(@)]
      /\ peer' = [peer EXCEPT ![d] = IF d \in setup.accepts THEN Loop(d) ELSE "leave"]
      /\ setup' = setup /\ store' = store /\ heard' = heard /\ old' = old /\ watching' = watching /\ up' = up
      /\ down' = down /\ open' = open /\ cut' = cut /\ main' = main /\ local' = local /\ running' = running
      /\ hand' = hand /\ echo' = echo
      /\ wrote' = wrote /\ ops' = ops /\ sessions' = sessions /\ faults' = faults
    BY DEF PeerHello, daemons, socks, bounds
<1>2. sessions \in Nat /\ sessions <= sessions' /\ ops \in Nat /\ ops <= ops' /\ open \subseteq Devices /\ open' \subseteq open
    BY <1>1 DEF Types, LinkOK
<1>3. /\ peer' \in [Devices -> {"off", "hello", "recv", "expect", "send", "leave", "done"}]
      /\ peer'[d] \in {"recv", "leave"} /\ (peer'[d] = "recv" => d \in setup.accepts)
      /\ \A k \in Devices \ {d} : peer'[k] = peer[k]
    BY <1>1, LoopIs DEF Types, LinkOK
<1>4. e \in Devices
    BY OtherIs
<1>5. /\ wire' \in [Devices -> Seq(Data \cup {Hello})] /\ \A k \in Devices : Len(wire'[k]) <= Cap
      /\ wire'[e] = Tail(wire[e]) /\ \A k \in Devices \ {e} : wire'[k] = wire[k]
      /\ WireInv'
    BY <1>1, <1>3, <1>4, ReadWire
<1> HIDE DEF e
<1>6. Types'
    BY <1>1, <1>3, <1>5 DEF Types, LinkOK
<1>7. ThreadInv'
  <2>1. main[d] # "off" /\ local[d] # "off"
      BY <1>1 DEF ThreadInv, ThreadOf
  <2>2. ThreadOf(d)'
      BY <1>1, <1>3, <2>1 DEF ThreadInv, ThreadOf
  <2>3. ASSUME NEW k \in Devices, k # d PROVE ThreadOf(k)'
      BY <1>1, <1>3, <2>3, ThreadStays, Zenon DEF ThreadInv
  <2> QED
      BY <2>2, <2>3, Zenon DEF ThreadInv
<1>8. UpInv'
    BY <1>1, UpStays, Zenon DEF UpInv
<1>9. LaneInv'
  <2>1. \A k \in Devices : Calm(wire[k], wire'[k])
      BY <1>1, <1>5, CalmQueues, Zenon
  <2>2. \A k \in Devices : peer'[k] = "send" => peer[k] = "send"
      BY <1>3
  <2>3. \A k \in Devices : Still(k)
      BY <1>1, <2>1, <2>2, OtherIs, CalmQueues, Zenon DEF Still
  <2> QED
      BY <1>1, <1>2, <1>6, <2>3, LanesStill, Zenon
<1>10. EchoInv'
  <2>1. peer[d] # "send"
      BY <1>1
  <2>2. d \in open' => EchoOf(d)'
      BY <1>1, <2>1, EchoIdle, Zenon DEF EchoInv
  <2> QED
      BY <1>1, <1>2, <1>3, <2>2, EchoMoves, Zenon
<1> QED
    BY <1>5, <1>6, <1>7, <1>8, <1>9, <1>10

\* A frame of the peer is read.
LEMMA PeerFrameInv ==
  ASSUME IInv, NEW d \in Devices, PeerFrame(d)
  PROVE  IInv'
<1> USE DEF IInv
<1> DEFINE e == Other(d)
           f == Head(wire[e])
<1>1. /\ peer[d] = "recv" /\ wire[e] # <<>> /\ wire' = [wire EXCEPT ![e] = Tail(@)]
      /\ hand' = [hand EXCEPT ![d] = IF Wanted(d, f) THEN f ELSE Nothing]
      /\ peer' = [peer EXCEPT ![d] = IF ~Wanted(d, f) THEN Loop(d)
                                     ELSE IF f.kind = "PUBLISH" THEN "send" ELSE "expect"]
      /\ setup' = setup /\ store' = store /\ heard' = heard /\ old' = old /\ watching' = watching /\ up' = up
      /\ down' = down /\ open' = open /\ cut' = cut /\ main' = main /\ local' = local /\ running' = running
      /\ echo' = echo
      /\ wrote' = wrote /\ ops' = ops /\ sessions' = sessions /\ faults' = faults
    BY DEF PeerFrame, daemons, socks, bounds
<1>2. sessions \in Nat /\ sessions <= sessions' /\ ops \in Nat /\ ops <= ops' /\ open \subseteq Devices /\ open' \subseteq open
    BY <1>1 DEF Types, LinkOK
<1>3. e \in Devices /\ f \in Data
  <2>1. e \in Devices
      BY OtherIs
  <2>2. \A i \in DOMAIN wire[e] : wire[e][i] \in Data
      BY <1>1 DEF WireInv, WireOf
  <2>3. f = wire[e][1] /\ 1 \in DOMAIN wire[e]
      BY <1>1, <2>1, Taken DEF Types
  <2> QED
      BY <2>1, <2>2, <2>3, Zenon
<1>4. /\ peer' \in [Devices -> {"off", "hello", "recv", "expect", "send", "leave", "done"}]
      /\ hand' \in [Devices -> Data \cup {Nothing}]
      /\ \A k \in Devices \ {d} : peer'[k] = peer[k] /\ hand'[k] = hand[k]
      /\ \/ ~Wanted(d, f) /\ peer'[d] \in {"recv", "leave"} /\ hand'[d] = Nothing
         \/ Wanted(d, f) /\ f.kind = "PUBLISH" /\ peer'[d] = "send" /\ hand'[d] = f
         \/ Wanted(d, f) /\ f.kind # "PUBLISH" /\ peer'[d] = "expect" /\ hand'[d] = f
  <2> DEFINE p == IF ~Wanted(d, f) THEN Loop(d) ELSE IF f.kind = "PUBLISH" THEN "send" ELSE "expect"
             r == IF Wanted(d, f) THEN f ELSE Nothing
  <2>1. /\ p \in {"recv", "leave", "send", "expect"} /\ r \in Data \cup {Nothing}
        /\ \/ ~Wanted(d, f) /\ p \in {"recv", "leave"} /\ r = Nothing
           \/ Wanted(d, f) /\ f.kind = "PUBLISH" /\ p = "send" /\ r = f
           \/ Wanted(d, f) /\ f.kind # "PUBLISH" /\ p = "expect" /\ r = f
      BY <1>3, LoopIs
  <2>2. hand' = [hand EXCEPT ![d] = r] /\ peer' = [peer EXCEPT ![d] = p]
      BY <1>1
  <2>3. /\ hand \in [Devices -> Data \cup {Nothing}]
        /\ peer \in [Devices -> {"off", "hello", "recv", "expect", "send", "leave", "done"}]
      BY DEF Types, LinkOK
  <2> HIDE DEF p, r
  <2>4. /\ peer' \in [Devices -> {"off", "hello", "recv", "expect", "send", "leave", "done"}]
        /\ hand' \in [Devices -> Data \cup {Nothing}]
        /\ \A k \in Devices \ {d} : peer'[k] = peer[k] /\ hand'[k] = hand[k]
        /\ peer'[d] = p /\ hand'[d] = r
      BY <2>1, <2>2, <2>3
  <2> QED
      BY <2>1, <2>4, Zenon
<1>5. /\ wire' \in [Devices -> Seq(Data \cup {Hello})] /\ \A k \in Devices : Len(wire'[k]) <= Cap
      /\ wire'[e] = Tail(wire[e]) /\ \A k \in Devices \ {e} : wire'[k] = wire[k]
      /\ WireInv'
    BY <1>1, <1>3, <1>4, ReadWire
<1> HIDE DEF f
<1>6. Types'
    BY <1>1, <1>4, <1>5 DEF Types, LinkOK
<1>7. ThreadInv'
  <2>1. main[d] # "off" /\ local[d] # "off" /\ d \in setup.accepts
      BY <1>1 DEF ThreadInv, ThreadOf
  <2>2. ThreadOf(d)'
      BY <1>1, <1>3, <1>4, <2>1 DEF ThreadOf, Wanted, Carries
  <2>3. ASSUME NEW k \in Devices, k # d PROVE ThreadOf(k)'
      BY <1>1, <1>4, <2>3, ThreadStays, Zenon DEF ThreadInv
  <2> QED
      BY <2>2, <2>3, Zenon DEF ThreadInv
<1>8. UpInv'
    BY <1>1, UpStays, Zenon DEF UpInv
<1>9. LaneInv'
  <2>1. \A k \in Devices : Calm(wire[k], wire'[k])
      BY <1>1, <1>5, CalmQueues, Zenon
  <2>2. \A k \in Devices : (peer'[k] = "send" /\ hand'[k].kind = "PUBLISH" => peer[k] = "send" /\ hand'[k] = hand[k]) => Still(k)
      BY <1>1, <2>1, OtherIs, CalmQueues, Zenon DEF Still
  <2>3. \A k \in Devices \ {d} : Still(k)
      BY <1>4, <2>2, Zenon
  <2>4. CASE Wanted(d, f) /\ f.kind = "PUBLISH" /\ peer'[d] = "send" /\ hand'[d] = f
    <3>1. \A a1, a2, a3, a4 \in Nat : sessions <= 1 /\ Lane(d, Other(d), a1, a2, a3, a4) =>
             \E b1, b2, b3, b4 \in Nat : Lane(d, Other(d), b1, b2, b3, b4)'
      <4> SUFFICES ASSUME NEW a1 \in Nat, NEW a2 \in Nat, NEW a3 \in Nat, NEW a4 \in Nat, Lane(d, e, a1, a2, a3, a4)
                   PROVE  \E b1, b2, b3, b4 \in Nat : Lane(d, e, b1, b2, b3, b4)'
          OBVIOUS
      <4> HIDE DEF e
      <4>1. Types /\ Head(wire[e]).kind = "PUBLISH" /\ hand'[d] = Head(wire[e])
          BY <2>4, Zenon DEF f
      <4>2. \E b3 \in Nat : Lane(d, e, a1, a2, b3, a4)'
          BY <1>1, <1>3, <1>5, <1>6, <4>1, LaneRead
      <4> QED
          BY <4>2, Zenon
    <3>2. Types /\ LaneInv
        OBVIOUS
    <3> QED
        BY <1>1, <1>2, <1>6, <2>3, <3>1, <3>2, LaneMoves
  <2>5. CASE ~(peer'[d] = "send" /\ hand'[d].kind = "PUBLISH")
    <3>1. \A k \in Devices : Still(k)
        BY <2>2, <2>3, <2>5, Zenon
    <3> QED
        BY <1>1, <1>2, <1>6, <3>1, LanesStill, Zenon
  <2> QED
      BY <1>4, <2>4, <2>5
<1>10. EchoInv'
  <2>1. peer[d] # "send"
      BY <1>1
  <2>2. d \in open' => EchoOf(d)'
      BY <1>1, <2>1, EchoIdle, Zenon DEF EchoInv
  <2> QED
      BY <1>1, <1>2, <1>4, <2>2, EchoMoves, Zenon
<1> QED
    BY <1>5, <1>6, <1>7, <1>8, <1>9, <1>10

\* An echo is expected of the value in hand.
LEMMA ExpectEchoInv ==
  ASSUME IInv, NEW d \in Devices, ExpectEcho(d, "expect", "send")
  PROVE  IInv'
<1> USE DEF IInv
<1> DEFINE y == hand[d].arg
<1>1. /\ peer[d] = "expect" /\ peer' = [peer EXCEPT ![d] = "send"]
      /\ echo' = [echo EXCEPT ![d][y] = @ + 1]
      /\ setup' = setup /\ store' = store /\ heard' = heard /\ old' = old /\ watching' = watching /\ up' = up
      /\ down' = down /\ open' = open /\ wire' = wire /\ cut' = cut /\ main' = main /\ local' = local
      /\ running' = running /\ hand' = hand
      /\ wrote' = wrote /\ ops' = ops /\ sessions' = sessions /\ faults' = faults
    BY DEF ExpectEcho, daemons, socks, bounds
<1>2. /\ sessions \in Nat /\ sessions <= sessions' /\ ops \in Nat /\ ops <= ops' /\ open \subseteq Devices /\ open' \subseteq open
      /\ echo \in [Devices -> [Marks -> Nat]]
      /\ peer \in [Devices -> {"off", "hello", "recv", "expect", "send", "leave", "done"}]
    BY <1>1 DEF Types, LinkOK
<1>3. hand[d] \in Data /\ hand[d].kind # "PUBLISH" /\ Wanted(d, hand[d])
    BY <1>1 DEF ThreadInv, ThreadOf
<1>4. hand[d].kind \in {"SET", "DEL"} /\ y \in Marks
    BY <1>3, DataIs
<1>5. \A x : Marked(hand[d], x) <=> x = y
    BY <1>4 DEF Marked
<1> HIDE DEF y
<1>6. /\ peer' \in [Devices -> {"off", "hello", "recv", "expect", "send", "leave", "done"}]
      /\ peer'[d] = "send" /\ \A k \in Devices \ {d} : peer'[k] = peer[k]
    BY <1>1, <1>2
<1>7. /\ echo' \in [Devices -> [Marks -> Nat]] /\ (\A k \in Devices \ {d} : echo'[k] = echo[k])
      /\ \A x \in Marks : echo'[d][x] = echo[d][x] + (IF x = y THEN 1 ELSE 0)
  <2> DEFINE r == [echo[d] EXCEPT ![y] = echo[d][y] + 1]
  <2>1. echo' = [echo EXCEPT ![d] = r]
      BY <1>1
  <2>2. echo[d] \in [Marks -> Nat] /\ echo[d][y] + 1 \in Nat
      BY <1>2, <1>4
  <2>3. r \in [Marks -> Nat] /\ \A x \in Marks : r[x] = echo[d][x] + (IF x = y THEN 1 ELSE 0)
      BY <1>4, <2>2
  <2> HIDE DEF r
  <2>4. echo' \in [Devices -> [Marks -> Nat]] /\ echo'[d] = r /\ \A k \in Devices \ {d} : echo'[k] = echo[k]
      BY <1>2, <2>1, <2>3
  <2> QED
      BY <2>3, <2>4, Zenon
<1>8. Types'
    BY <1>1, <1>6, <1>7 DEF Types, LinkOK
<1>9. WireInv'
  <2>1. \A k \in Devices : peer'[k] \in {"recv", "expect", "send"} => peer[k] \in {"recv", "expect", "send"}
      BY <1>1, <1>6
  <2> QED
      BY <1>1, <2>1, Zenon DEF WireInv, WireOf
<1>10. ThreadInv'
  <2>1. main[d] # "off" /\ local[d] # "off" /\ d \in setup.accepts
      BY <1>1 DEF ThreadInv, ThreadOf
  <2>2. ThreadOf(d)'
      BY <1>1, <1>3, <1>6, <2>1 DEF ThreadOf, Wanted, Carries
  <2>3. ASSUME NEW k \in Devices, k # d PROVE ThreadOf(k)'
      BY <1>1, <1>6, <1>7, <2>3, ThreadStays, Zenon DEF ThreadInv
  <2> QED
      BY <2>2, <2>3, Zenon DEF ThreadInv
<1>11. UpInv'
    BY <1>1, UpStays, Zenon DEF UpInv
<1>12. LaneInv'
  <2>1. \A k \in Devices : peer'[k] = "send" /\ hand'[k].kind = "PUBLISH" => peer[k] = "send" /\ hand'[k] = hand[k]
      BY <1>1, <1>3, <1>6, Zenon
  <2>2. \A k \in Devices : Still(k)
      BY <1>1, <2>1, OtherIs, CalmQueues, Zenon DEF Still
  <2> QED
      BY <1>1, <1>2, <1>8, <2>2, LanesStill, Zenon
<1>13. EchoInv'
  <2>1. ASSUME d \in open' PROVE EchoOf(d)'
    <3> SUFFICES ASSUME NEW x \in Marks
                 PROVE  echo'[d][x] <= Count(up'[d], x) + Count(down'[d], x) + (IF InHand(d, x)' THEN 1 ELSE 0)
        BY Zenon DEF EchoOf
    <3> DEFINE a == Count(up[d], x)
               b == Count(down[d], x)
               n == echo[d][x]
    <3>1. ~InHand(d, x) /\ (InHand(d, x)' <=> x = y)
        BY <1>1, <1>5, <1>6 DEF InHand
    <3>2. n \in Nat /\ n <= a + b + 0
        BY <1>1, <1>2, <2>1, <3>1 DEF EchoInv, EchoOf
    <3>3. a \in Nat /\ b \in Nat
        BY CountIs DEF Types
    <3>4. a = Count(up'[d], x) /\ b = Count(down'[d], x) /\ echo'[d][x] = n + (IF x = y THEN 1 ELSE 0)
        BY <1>1, <1>7, Zenon
    <3> HIDE DEF a, b, n, IInv
    <3>5. n + (IF x = y THEN 1 ELSE 0) <= a + b + (IF x = y THEN 1 ELSE 0)
        BY <3>2, <3>3
    <3> QED
        BY <3>1, <3>4, <3>5, Zenon
  <2> QED
      BY <1>1, <1>2, <1>6, <1>7, <2>1, EchoMoves, Zenon
<1> QED
    BY <1>8, <1>9, <1>10, <1>11, <1>12, <1>13

\* What is in hand is sent to the daemon.
LEMMA SendLocalInv ==
  ASSUME IInv, NEW d \in Devices, SendLocal(d, "send", Loop(d), Nothing)
  PROVE  IInv'
<1> USE DEF IInv
<1> DEFINE f == hand[d]
<1>1. /\ peer[d] = "send" /\ peer' = [peer EXCEPT ![d] = Loop(d)]
      /\ (d \in open => Len(up[d]) < Cap)
      /\ up' = (IF d \in open THEN [up EXCEPT ![d] = Append(@, f)] ELSE up)
      /\ hand' = [hand EXCEPT ![d] = Nothing]
      /\ setup' = setup /\ store' = store /\ heard' = heard /\ old' = old /\ watching' = watching
      /\ down' = down /\ open' = open /\ wire' = wire /\ cut' = cut /\ main' = main /\ local' = local
      /\ running' = running /\ echo' = echo
      /\ wrote' = wrote /\ ops' = ops /\ sessions' = sessions /\ faults' = faults
    BY DEF SendLocal, daemons, bounds
<1>2. /\ sessions \in Nat /\ sessions <= sessions' /\ ops \in Nat /\ ops <= ops' /\ open \subseteq Devices /\ open' \subseteq open
      /\ echo \in [Devices -> [Marks -> Nat]] /\ up \in [Devices -> Seq(Data \cup {Ask})]
      /\ hand \in [Devices -> Data \cup {Nothing}] /\ (\A k \in Devices : Len(up[k]) <= Cap)
      /\ peer \in [Devices -> {"off", "hello", "recv", "expect", "send", "leave", "done"}]
    BY <1>1 DEF Types, LinkOK
<1>3. f \in Data /\ Wanted(d, f) /\ d \in setup.accepts /\ main[d] # "off" /\ local[d] # "off"
    BY <1>1 DEF ThreadInv, ThreadOf
<1>4. /\ peer' \in [Devices -> {"off", "hello", "recv", "expect", "send", "leave", "done"}]
      /\ peer'[d] \in {"recv", "leave"} /\ \A k \in Devices \ {d} : peer'[k] = peer[k]
      /\ hand' \in [Devices -> Data \cup {Nothing}] /\ \A k \in Devices \ {d} : hand'[k] = hand[k]
    BY <1>1, <1>2, LoopIs
<1> HIDE DEF f
<1>5. /\ up' \in [Devices -> Seq(Data \cup {Ask})] /\ (\A k \in Devices \ {d} : up'[k] = up[k])
      /\ (d \in open => up'[d] = Append(up[d], f)) /\ (d \notin open => up'[d] = up[d])
      /\ \A k \in Devices : Len(up'[k]) <= Cap
  <2>1. CASE d \in open
    <3>1. up' = [up EXCEPT ![d] = Append(@, f)] /\ Len(up[d]) < Cap
        BY <1>1, <2>1
    <3>2. /\ Append(up[d], f) \in Seq(Data \cup {Ask}) /\ Len(Append(up[d], f)) = Len(up[d]) + 1
          /\ Len(up[d]) \in Nat
        BY <1>2, <1>3, Added
    <3>3. Len(Append(up[d], f)) <= Cap
        BY <3>1, <3>2, LinkAssumption
    <3>4. /\ up' \in [Devices -> Seq(Data \cup {Ask})] /\ up'[d] = Append(up[d], f)
          /\ \A k \in Devices \ {d} : up'[k] = up[k]
        BY <1>2, <3>1, <3>2
    <3> QED
        BY <1>2, <2>1, <3>3, <3>4, Zenon
  <2>2. CASE d \notin open
      BY <1>1, <1>2, <2>2, Zenon
  <2> QED
      BY <2>1, <2>2
<1>6. Types'
    BY <1>1, <1>4, <1>5 DEF Types, LinkOK
<1>7. WireInv'
  <2>1. \A k \in Devices : peer'[k] \in {"recv", "expect", "send"} => peer[k] \in {"recv", "expect", "send"}
      BY <1>1, <1>4
  <2> QED
      BY <1>1, <2>1, Zenon DEF WireInv, WireOf
<1>8. ThreadInv'
  <2>1. ThreadOf(d)'
      BY <1>1, <1>3, <1>4 DEF ThreadOf
  <2>2. ASSUME NEW k \in Devices, k # d PROVE ThreadOf(k)'
      BY <1>1, <1>4, <2>2, ThreadStays, Zenon DEF ThreadInv
  <2> QED
      BY <2>1, <2>2, Zenon DEF ThreadInv
<1>9. UpInv'
  <2>1. UpOf(d) /\ up[d] \in Seq(Data \cup {Ask}) /\ f \in Data \cup {Ask}
      BY <1>2, <1>3 DEF UpInv
  <2>2. sessions # 0
      BY <1>3, <2>1, Zenon DEF UpOf
  <2>3. CASE d \in open
    <3> DEFINE s == up[d]
               t == Append(s, f)
    <3>1. /\ \A i \in DOMAIN t : t[i] = f \/ (i \in DOMAIN s /\ t[i] = s[i])
          /\ s # <<>> => t # <<>> /\ t[1] = s[1]
        BY <2>1, Added
    <3>2. up'[d] = t
        BY <1>5, <2>3
    <3>3. /\ d \in open' => watching[d] \/ (s # <<>> /\ s[1] = Ask)
          /\ \A i \in DOMAIN s : s[i] = Ask \/ (d \in setup.accepts /\ Wanted(d, s[i]))
        BY <1>1, <2>1, Zenon DEF UpOf
    <3> HIDE DEF s, t
    <3>4. /\ d \in open' => watching[d] \/ (t # <<>> /\ t[1] = Ask)
          /\ \A i \in DOMAIN t : t[i] = Ask \/ (d \in setup.accepts /\ Wanted(d, t[i]))
        BY <1>3, <3>1, <3>3, Zenon
    <3>5. sessions' <= 1 => old'[d] = <<>>
        BY <1>1, <2>1, Zenon DEF UpOf
    <3>6. UpOf(d)'
        BY <1>1, <2>2, <3>2, <3>4, <3>5, Zenon DEF UpOf, Wanted, Carries
    <3> QED
        BY <1>1, <1>2, <1>5, <3>6, UpMoves, Zenon
  <2>4. CASE d \notin open
    <3>1. UpOf(d)'
        BY <1>1, <1>5, <2>1, <2>4, UpStays, Zenon
    <3> QED
        BY <1>1, <1>2, <1>5, <3>1, UpMoves, Zenon
  <2> QED
      BY <2>3, <2>4
<1>10. LaneInv'
  <2>1. \A k \in Devices : peer'[k] = "send" /\ hand'[k].kind = "PUBLISH" => peer[k] = "send" /\ hand'[k] = hand[k]
      BY <1>4
  <2>2. \A k \in Devices : Calm(up[k], up'[k]) => Still(k)
      BY <1>1, <2>1, OtherIs, CalmQueues, Zenon DEF Still
  <2>3. \A k \in Devices \ {d} : Still(k)
      BY <1>5, <2>2, CalmQueues, Zenon
  <2>4. CASE d \notin open \/ f.kind # "PUBLISH"
    <3>1. Calm(up[d], up'[d])
        BY <1>3, <1>5, <2>4, CalmQueues, Zenon
    <3>2. \A k \in Devices : Still(k)
        BY <2>2, <2>3, <3>1, Zenon
    <3> QED
        BY <1>1, <1>2, <1>6, <3>2, LanesStill, Zenon
  <2>5. CASE d \in open /\ f.kind = "PUBLISH"
    <3> DEFINE e == Other(d)
    <3>1. e \in Devices /\ peer'[d] # "send"
        BY <1>4, OtherIs
    <3>2. \A a1, a2, a3, a4 \in Nat : sessions <= 1 /\ Lane(d, Other(d), a1, a2, a3, a4) =>
             \E b1, b2, b3, b4 \in Nat : Lane(d, Other(d), b1, b2, b3, b4)'
      <4> SUFFICES ASSUME NEW a1 \in Nat, NEW a2 \in Nat, NEW a3 \in Nat, NEW a4 \in Nat, Lane(d, e, a1, a2, a3, a4)
                   PROVE  \E b1, b2, b3, b4 \in Nat : Lane(d, e, b1, b2, b3, b4)'
          OBVIOUS
      <4> HIDE DEF e
      <4>1. Types /\ hand[d] \in Data /\ hand[d].kind = "PUBLISH" /\ up'[d] = Append(up[d], hand[d])
          BY <1>3, <1>5, <2>5, Zenon DEF f
      <4>2. \E b2 \in Nat : Lane(d, e, a1, b2, a3, a4)'
          BY <1>1, <1>6, <3>1, <4>1, LaneSent
      <4> QED
          BY <4>2, Zenon
    <3>3. Types /\ LaneInv
        OBVIOUS
    <3> QED
        BY <1>1, <1>2, <1>6, <2>3, <3>2, <3>3, LaneMoves
  <2> QED
      BY <2>4, <2>5
<1>11. EchoInv'
  <2>1. ASSUME d \in open' PROVE EchoOf(d)'
    <3> SUFFICES ASSUME NEW x \in Marks
                 PROVE  echo'[d][x] <= Count(up'[d], x) + Count(down'[d], x) + (IF InHand(d, x)' THEN 1 ELSE 0)
        BY Zenon DEF EchoOf
    <3> DEFINE a == Count(up[d], x)
               b == Count(down[d], x)
               u == Count(up'[d], x)
               n == echo[d][x]
               q == IF Marked(f, x) THEN 1 ELSE 0
    <3>1. (InHand(d, x) <=> Marked(f, x)) /\ ~InHand(d, x)'
        BY <1>1, <1>4 DEF InHand, f
    <3>2. n \in Nat /\ n <= a + b + q
        BY <1>1, <1>2, <2>1, <3>1 DEF EchoInv, EchoOf
    <3>3. a \in Nat /\ b \in Nat /\ q \in Nat
        BY CountIs DEF Types
    <3>4. u = a + q
      <4>1. up'[d] = Append(up[d], f) /\ up[d] \in Seq(Data \cup {Ask}) /\ f \in Data \cup {Ask}
          BY <1>1, <1>2, <1>3, <1>5, <2>1
      <4>2. Count(Append(up[d], f), x) = a + q
          BY <4>1, CountAdded
      <4> QED
          BY <4>1, <4>2, Zenon
    <3>5. b = Count(down'[d], x) /\ echo'[d][x] = n
        BY <1>1, Zenon
    <3> HIDE DEF a, b, n, u, q, IInv
    <3>6. n <= u + b + 0
        BY <3>2, <3>3, <3>4
    <3> QED
        BY <3>1, <3>5, <3>6, Zenon DEF u
  <2> QED
      BY <1>1, <1>2, <1>4, <1>5, <2>1, EchoMoves, Zenon
<1> QED
    BY <1>6, <1>7, <1>8, <1>9, <1>10, <1>11

\* peer_loop ends.
LEMMA PeerEndInv ==
  ASSUME IInv, NEW d \in Devices, PeerEnd(d)
  PROVE  IInv'
<1> USE DEF IInv
<1>1. /\ peer[d] \in {"leave", "hello", "recv"} /\ peer' = [peer EXCEPT ![d] = "done"]
      /\ running' = running \ {d} /\ open' = open \ {d}
      /\ setup' = setup /\ store' = store /\ heard' = heard /\ old' = old /\ watching' = watching /\ up' = up
      /\ down' = down /\ wire' = wire /\ cut' = cut /\ main' = main /\ local' = local /\ hand' = hand /\ echo' = echo
      /\ wrote' = wrote /\ ops' = ops /\ sessions' = sessions /\ faults' = faults
    BY DEF PeerEnd, daemons, bounds
<1>2. sessions \in Nat /\ sessions <= sessions' /\ ops \in Nat /\ ops <= ops' /\ open \subseteq Devices /\ open' \subseteq open
    BY <1>1 DEF Types, LinkOK
<1>3. Types'
    BY <1>1 DEF Types, LinkOK
<1>4. peer'[d] = "done" /\ d \notin open' /\ \A k \in Devices \ {d} : peer'[k] = peer[k]
    BY <1>1 DEF Types, LinkOK
<1>5. WireInv'
  <2>1. \A k \in Devices : peer'[k] \in {"recv", "expect", "send"} => peer[k] \in {"recv", "expect", "send"}
      BY <1>4
  <2> QED
      BY <1>1, <2>1, Zenon DEF WireInv, WireOf
<1>6. ThreadInv'
  <2>1. main[d] # "off" /\ local[d] # "off"
      BY <1>1 DEF ThreadInv, ThreadOf
  <2>2. ThreadOf(d)'
      BY <1>1, <1>4, <2>1 DEF ThreadOf
  <2>3. ASSUME NEW k \in Devices, k # d PROVE ThreadOf(k)'
      BY <1>1, <1>2, <1>4, <2>3, ThreadStays, Zenon DEF ThreadInv
  <2> QED
      BY <2>2, <2>3, Zenon DEF ThreadInv
<1>7. UpInv'
    BY <1>1, <1>2, UpStays, Zenon DEF UpInv
<1>8. LaneInv'
  <2>1. \A k \in Devices : peer'[k] = "send" => peer[k] = "send"
      BY <1>4
  <2>2. \A k \in Devices : Still(k)
      BY <1>1, <2>1, OtherIs, CalmQueues, Zenon DEF Still
  <2> QED
      BY <1>1, <1>2, <1>3, <2>2, LanesStill, Zenon
<1>9. EchoInv'
    BY <1>1, <1>2, <1>4, EchoMoves, Zenon
<1> QED
    BY <1>3, <1>5, <1>6, <1>7, <1>8, <1>9

-----------------------------------------------------------------------------
(* The invariant and what follows                                          *)

\* Before the links are started.
LEMMA InitIInv ==
  ASSUME Init
  PROVE  IInv
<1>1. PICK v \in Values : store = [d \in Devices |-> IF d = setup.owner THEN v ELSE NONE]
    BY DEF Init
<1>2. /\ setup \in Setups
      /\ heard = [d \in Devices |-> <<>>] /\ watching = [d \in Devices |-> FALSE]
      /\ up = [d \in Devices |-> <<>>] /\ down = [d \in Devices |-> <<>>]
      /\ old = [d \in Devices |-> <<>>] /\ wire = [d \in Devices |-> <<>>]
      /\ open = {} /\ cut = TRUE /\ running = {}
      /\ main = [d \in Devices |-> "off"]
      /\ local = [d \in Devices |-> "off"] /\ peer = [d \in Devices |-> "off"]
      /\ hand = [d \in Devices |-> Nothing]
      /\ echo = [d \in Devices |-> [x \in Marks |-> 0]]
      /\ ops = 0 /\ sessions = 0 /\ faults = 0
    BY DEF Init
<1>3. /\ <<>> \in Seq(Msgs) /\ <<>> \in Seq(Data \cup {Ask}) /\ <<>> \in Seq(Pushed) /\ <<>> \in Seq(Data \cup {Hello})
      /\ Len(<<>>) = 0 /\ DOMAIN <<>> = {}
    OBVIOUS
<1>4. \A d \in Devices : /\ up[d] = <<>> /\ down[d] = <<>> /\ old[d] = <<>> /\ wire[d] = <<>> /\ heard[d] = <<>>
                         /\ main[d] = "off" /\ local[d] = "off" /\ peer[d] = "off"
                         /\ \A x \in Marks : echo[d][x] = 0
    BY <1>2
<1>5. Types
  <2>1. LinkOK
    <3>1. store \in [Devices -> Values \cup {NONE}]
        BY <1>1
    <3>2. /\ watching \in [Devices -> BOOLEAN] /\ open \subseteq Devices /\ running \subseteq Devices /\ cut \in BOOLEAN
          /\ main \in [Devices -> {"off", "run"}]
          /\ local \in [Devices -> {"off", "recv", "leave", "done"}]
          /\ peer \in [Devices -> {"off", "hello", "recv", "expect", "send", "leave", "done"}]
          /\ echo \in [Devices -> [Marks -> Nat]]
        BY <1>2
    <3>3. \A d \in Devices : Len(wire[d]) <= Cap /\ Len(up[d]) <= Cap /\ Len(down[d]) <= Cap
        BY <1>3, <1>4, LinkAssumption
    <3> QED
        BY <3>1, <3>2, <3>3 DEF LinkOK
  <2>2. /\ heard \in [Devices -> Seq(Msgs)] /\ up \in [Devices -> Seq(Data \cup {Ask})]
        /\ old \in [Devices -> Seq(Data \cup {Ask})] /\ down \in [Devices -> Seq(Pushed)]
        /\ wire \in [Devices -> Seq(Data \cup {Hello})] /\ hand \in [Devices -> Data \cup {Nothing}]
      BY <1>2, <1>3
  <2> QED
      BY <1>2, <2>1, <2>2 DEF Types
<1>6. WireInv
    BY <1>3, <1>4, OtherIs DEF WireInv, WireOf
<1>7. ThreadInv
    BY <1>2, <1>4 DEF ThreadInv, ThreadOf
<1>8. UpInv
    BY <1>2, <1>3, <1>4 DEF UpInv, UpOf
<1>9. LaneInv
  <2> SUFFICES ASSUME NEW d \in Devices PROVE \E a1, a2, a3, a4 \in Nat : Lane(d, Other(d), a1, a2, a3, a4)
      BY DEF LaneInv
  <2> DEFINE e == Other(d)
  <2>1. e \in Devices
      BY OtherIs
  <2>2. Arrived(d, e, 0)
      BY <1>3, <1>4, Zenon DEF Arrived
  <2>3. \A s : s = <<>> => Ordered(s, e, 0, 0)
      BY <1>3, Zenon DEF Ordered
  <2>4. Applying(d, e, 0, 0)
      BY <1>4 DEF Applying
  <2>5. 0 \in Nat /\ 0 <= 0
      OBVIOUS
  <2> HIDE DEF e
  <2>6. Lane(d, e, 0, 0, 0, 0)
      BY <1>2, <1>4, <2>1, <2>2, <2>3, <2>4, <2>5, Zenon DEF Lane
  <2> QED
      BY <2>5, <2>6, Zenon DEF e
<1>10. EchoInv
    BY <1>2 DEF EchoInv
<1> QED
    BY <1>5, <1>6, <1>7, <1>8, <1>9, <1>10 DEF IInv

\* Every step keeps the invariant.
LEMMA NextIInv ==
  ASSUME IInv, [Next]_vars
  PROVE  IInv'
<1>1. CASE UNCHANGED vars
  <2>1. /\ setup' = setup /\ store' = store /\ heard' = heard /\ old' = old
        /\ watching' = watching /\ up' = up /\ down' = down /\ open' = open /\ wire' = wire /\ cut' = cut
        /\ main' = main /\ local' = local /\ peer' = peer /\ running' = running /\ hand' = hand /\ echo' = echo
        /\ ops' = ops /\ sessions' = sessions /\ faults' = faults
      BY <1>1 DEF vars, daemons, socks, procs, bounds
  <2> QED
      BY <2>1, SameIInv, Zenon
<1>2. ASSUME NEW d \in Devices, User(d) \/ DaemonNext(d) \/ ServeOld(d)
      PROVE  IInv'
    BY <1>2, UserInv, ServeInv, SubscribeInv, ReplayInv, ServeOldInv DEF DaemonNext
<1>3. ASSUME NEW d \in Devices, MainNext(d) \/ Signal(d)
      PROVE  IInv'
  <2>1. CASE Lost(d)
    <3>1. Stop(d) /\ ops' = ops /\ sessions' = sessions /\ faults' \in Nat
        BY <2>1 DEF Lost, bounds, IInv, Types
    <3> QED
        BY <3>1, StopInv
  <2>2. CASE Signal(d)
    <3>1. Stop(d) /\ ops' = ops /\ sessions' = sessions /\ faults' \in Nat
        BY <2>2 DEF Signal, Fault, IInv, Types
    <3> QED
        BY <3>1, StopInv
  <2>3. CASE Exit(d)
      BY <2>3, ExitInv
  <2> QED
      BY <1>3, <2>1, <2>2, <2>3 DEF MainNext
<1>4. ASSUME NEW d \in Devices, LocalNext(d)
      PROVE  IInv'
    BY <1>4, LocalFrameInv, LocalEndInv DEF LocalNext
<1>5. ASSUME NEW d \in Devices, PeerNext(d)
      PROVE  IInv'
    BY <1>5, PeerHelloInv, PeerFrameInv, ExpectEchoInv, SendLocalInv, PeerEndInv DEF PeerNext, Apply
<1> QED
    BY <1>1, <1>2, <1>3, <1>4, <1>5, HangUpInv, EstablishInv DEF Next

\* The inductive invariant of the pair of links.
THEOREM Invariance == Spec => []IInv
<1>1. Init => IInv
    BY InitIInv
<1>2. IInv /\ [Next]_vars => IInv'
    BY NextIInv
<1> QED
    BY <1>1, <1>2, PTL DEF Spec

\* A step leaves subscriptions and retained values what they are.
LEMMA NextSubs ==
  ASSUME SubsOK, [Next]_vars
  PROVE  SubsOK'
<1>1. CASE subs' = subs /\ retained' = retained
    BY <1>1, Zenon DEF SubsOK
<1>2. ASSUME NEW d \in Devices, User(d) PROVE SubsOK'
  <2>1. subs' = subs
      BY <1>2 DEF User
  <2>2. CASE retained' = retained
      BY <1>1, <2>1, <2>2
  <2>3. CASE \E t \in Topics : \E keep \in {retained[d], retained[d] \cup {t}, retained[d] \ {t}} :
               retained' = [retained EXCEPT ![d] = keep]
      BY <2>1, <2>3 DEF SubsOK
  <2> QED
      BY <1>2, <2>2, <2>3, Zenon DEF User
<1>3. ASSUME NEW d \in Devices, DaemonNext(d) PROVE SubsOK'
  <2>1. retained' = retained
      BY <1>3, Zenon DEF DaemonNext, Serve, Subscribe, Replay, daemons
  <2>2. subs' = subs \/ \E t \in Topics, x \in {"added", "done"} : subs' = [subs EXCEPT ![d][t] = x]
    <3>1. subs' = subs \/ \E t \in Topics : \/ subs' = [subs EXCEPT ![d][t] = "added"]
                                            \/ subs' = [subs EXCEPT ![d][t] = "done"]
        BY <1>3, Zenon DEF DaemonNext, Serve, Subscribe, Replay
    <3> QED
        BY <3>1, Zenon
  <2>3. ASSUME NEW t \in Topics, NEW x \in {"added", "done"}, subs' = [subs EXCEPT ![d][t] = x]
        PROVE  SubsOK'
    <3>1. subs[d] \in [Topics -> {"none", "added", "done"}]
        BY DEF SubsOK
    <3>2. [subs[d] EXCEPT ![t] = x] \in [Topics -> {"none", "added", "done"}]
        BY <2>3, <3>1
    <3> DEFINE r == [subs[d] EXCEPT ![t] = x]
    <3>3. subs' = [subs EXCEPT ![d] = r]
        BY <2>3
    <3> HIDE DEF r
    <3> QED
        BY <2>1, <3>2, <3>3 DEF SubsOK, r
  <2> QED
      BY <1>1, <2>1, <2>2, <2>3
<1>4. ASSUME NEW d \in Devices, MainNext(d) \/ Signal(d) PROVE SubsOK'
  <2>1. retained' = retained /\ (subs' = subs \/ subs' = [subs EXCEPT ![d] = NoSubs])
      BY <1>4, Zenon DEF MainNext, Signal, Lost, Exit, Stop, daemons
  <2> QED
      BY <2>1 DEF SubsOK, NoSubs
<1>5. ASSUME NEW d \in Devices, ServeOld(d) \/ LocalNext(d) \/ PeerNext(d) PROVE SubsOK'
  <2>1. subs' = subs /\ retained' = retained
      BY <1>5, Zenon DEF ServeOld, LocalNext, LocalFrame, LocalEnd, PeerNext, PeerHello, PeerFrame,
                         Apply, ExpectEcho, SendLocal, PeerEnd, daemons, socks
  <2> QED
      BY <1>1, <2>1
<1>6. CASE HangUp \/ UNCHANGED vars
  <2>1. subs' = subs /\ retained' = retained
      BY <1>6, Zenon DEF HangUp, vars, daemons, socks
  <2> QED
      BY <1>1, <2>1
<1>7. CASE Establish
    BY <1>7 DEF Establish, SubsOK, NoSubs
<1> QED
    BY <1>2, <1>3, <1>4, <1>5, <1>6, <1>7, Zenon DEF Next

\* The state keeps its types, and no socket takes more than it can.
THEOREM LinkTypeCorrect == Spec => []TypeOK
<1>1. Init => SubsOK
    BY DEF Init, SubsOK, NoSubs
<1>2. SubsOK /\ [Next]_vars => SubsOK'
    BY NextSubs
<1>3. IInv /\ SubsOK => TypeOK
    BY DEF IInv, Types, TypeOK
<1> QED
    BY <1>1, <1>2, <1>3, Invariance, PTL DEF Spec

\* Echo suppression balances (link.hpp:134): when both links are up and idle no
\* expectation is left over to swallow a genuine change, after any crossing of
\* writes and whatever earlier sessions left behind.
THEOREM EchoesBalance == Spec => []NoLeftoverEcho
<1>1. IInv => NoLeftoverEcho
  <2> SUFFICES ASSUME IInv, Linked, NEW d \in Devices, NEW x \in Marks PROVE echo[d][x] = 0
      BY Zenon DEF NoLeftoverEcho
  <2>1. d \in open /\ up[d] = <<>> /\ down[d] = <<>> /\ peer[d] = "recv"
      BY Zenon DEF Linked
  <2>2. ~InHand(d, x)
      BY <2>1 DEF InHand
  <2>3. echo[d][x] <= Count(up[d], x) + Count(down[d], x) + (IF InHand(d, x) THEN 1 ELSE 0)
      BY <2>1, Zenon DEF IInv, EchoInv, EchoOf
  <2>4. echo[d][x] <= 0 + 0 + 0
      BY <2>1, <2>2, <2>3, CountNone
  <2>5. echo[d][x] \in Nat
      BY DEF IInv, Types, LinkOK
  <2> QED
      BY <2>4, <2>5
<1> QED
    BY <1>1, Invariance, PTL

\* A device gets only what its link was told to carry, from a peer it accepted
\* (link.hpp:208).  In the first session it never gets one of its own messages,
\* and what it is sent as it is published comes at most once and in the order
\* of publication, whatever retained values its peer's daemon replays in between
\* (server.hpp:188); those have no place in that order.
THEOREM OnlyWhatWasAgreed == Spec => []OnlyAgreed
<1>1. IInv => OnlyAgreed
  <2> SUFFICES ASSUME IInv, NEW d \in Devices
               PROVE  /\ \A i \in DOMAIN up[d] : up[d][i].kind \in {"SET", "DEL", "PUBLISH"} =>
                            d \in setup.accepts /\ Wanted(d, up[d][i])
                      /\ sessions = 1 => \A i, j \in DOMAIN heard[d] :
                            /\ heard[d][i].from # d /\ heard[d][i].topic \in Carries(d)
                            /\ i < j /\ heard[d][j].id # 0 => heard[d][i].id < heard[d][j].id
      BY Zenon DEF OnlyAgreed
  <2>1. \A i \in DOMAIN up[d] : up[d][i].kind \in {"SET", "DEL", "PUBLISH"} =>
           d \in setup.accepts /\ Wanted(d, up[d][i])
    <3>1. \A i \in DOMAIN up[d] : up[d][i] = Ask \/ (d \in setup.accepts /\ Wanted(d, up[d][i]))
        BY Zenon DEF IInv, UpInv, UpOf
    <3>2. Ask.kind \notin {"SET", "DEL", "PUBLISH"}
        BY KindIs
    <3> QED
        BY <3>1, <3>2, Zenon
  <2>2. ASSUME sessions = 1
        PROVE  \A i, j \in DOMAIN heard[d] : /\ heard[d][i].from # d /\ heard[d][i].topic \in Carries(d)
                                             /\ i < j /\ heard[d][j].id # 0 => heard[d][i].id < heard[d][j].id
    <3>1. sessions <= 1
        BY <2>2
    <3>2. PICK a1 \in Nat, a2 \in Nat, a3 \in Nat, a4 \in Nat : Lane(d, Other(d), a1, a2, a3, a4)
        BY <3>1, Zenon DEF IInv, LaneInv
    <3>3. Arrived(d, Other(d), a1) /\ Other(d) # d
        BY <3>2, OtherIs, Zenon DEF Lane
    <3> QED
        BY <3>3, Zenon DEF Arrived, Above
  <2> QED
      BY <2>1, <2>2
<1> QED
    BY <1>1, Invariance, PTL

-----------------------------------------------------------------------------
(* The key's way from the one device that writes it                        *)

\* A frame that sets the key, and to what.  The answer to a get that found
\* nothing is not passed on.
Keyed(f)   == f.kind \in {"SET", "UPDATE", "DEL"} \/ (f.kind = "REPLY" /\ f.arg # NONE)
Val(f)     == IF f.kind = "DEL" THEN NONE ELSE f.arg
Unkeyed(s) == \A i \in DOMAIN s : ~Keyed(s[i])
Vals       == Values \cup {NONE}

\* A key that is v is w when all of s has been applied.
Ends(s, v, w) ==
  \/ Unkeyed(s) /\ w = v
  \/ \E i \in DOMAIN s : /\ Keyed(s[i]) /\ Val(s[i]) = w
                         /\ \A j \in DOMAIN s : i < j => ~Keyed(s[j])

\* What the peer loop is applying, as a queue.
Holding(d) == IF peer[d] \in {"expect", "send"} THEN <<hand[d]>> ELSE <<>>

\* The first session, with both links connected and told to carry the key.
Sync == sessions = 1 /\ ~cut /\ \A d \in Devices :
  /\ d \in open /\ local[d] = "recv" /\ peer[d] \in {"hello", "recv", "expect", "send"}
  /\ KEY \in Carries(d)

\* A link asks its daemon before all else, and greets its peer.
Ready(d, e) ==
  /\ \A i \in DOMAIN up[d] : up[d][i] = Ask => ~watching[d] /\ i = 1
  /\ peer[d] = "hello" => wire[e] # <<>> /\ wire[e][1] = Hello

\* Nothing of the key comes to o, nor is expected back there.
NoneBack(o, e) ==
  /\ Unkeyed(wire[e]) /\ Unkeyed(Holding(o)) /\ Unkeyed(up[o])
  /\ \A x \in Marks : echo[o][x] = 0

\* Each copy that will come back to e is expected.
Owed(e) == \A x \in Marks :
  Count(up[e], x) + Count(down[e], x) + (IF InHand(e, x) THEN 1 ELSE 0) <= echo[e][x]

\* e has nothing of its own to tell.
Blank(e) ==
  /\ \A i \in DOMAIN down[e] : down[e][i].kind = "REPLY" => ~Keyed(down[e][i])
  /\ ~watching[e] => store[e] = NONE

\* What is under way from o's daemon to e's leaves e's with o's value, once o's
\* link has asked for it; until then with none.
Source(o) == IF watching[o] THEN store[o] ELSE NONE
Way(o, e) == \E a1, a2, a3 \in Vals :
  /\ Ends(up[e], store[e], a1) /\ Ends(Holding(e), a1, a2)
  /\ Ends(wire[o], a2, a3) /\ Ends(down[o], a3, Source(o))

Owns(o, e) == NoneBack(o, e) /\ Owed(e) /\ Blank(e) /\ Way(o, e)

\* Before the first session nobody watches and only writers have a value.
OwnInv ==
  /\ wrote \subseteq Devices
  /\ sessions = 0 => \A d \in Devices :
       ~watching[d] /\ down[d] = <<>> /\ (d \notin wrote => store[d] = NONE)
  /\ Sync => \A d \in Devices : Ready(d, Other(d)) /\ (wrote \subseteq {d} => Owns(d, Other(d)))

\* An empty queue changes nothing.
LEMMA EndsNone == ASSUME NEW v PROVE Ends(<<>>, v, v) /\ Unkeyed(<<>>)
BY NoFrames DEF Ends, Unkeyed

\* A queue with no change to the key changes nothing.
LEMMA EndsUnkeyed ==
  ASSUME NEW s, Unkeyed(s), NEW v, NEW w
  PROVE  Ends(s, v, w) <=> w = v
BY Zenon DEF Ends, Unkeyed

\* A frame that is added decides, if it sets the key.
LEMMA EndsAdded ==
  ASSUME NEW S, NEW s \in Seq(S), NEW f \in S, NEW v, NEW w, Ends(s, v, w)
  PROVE  Ends(Append(s, f), v, IF Keyed(f) THEN Val(f) ELSE w)
<1> DEFINE n == Len(s) + 1
           t == Append(s, f)
<1>1. /\ \A i \in DOMAIN s : t[i] = s[i] /\ i \in DOMAIN t
      /\ t[n] = f /\ n \in DOMAIN t /\ \A i \in DOMAIN t : i \in DOMAIN s \/ i = n
    BY Added
<1>2. \A j \in DOMAIN t : ~(n < j)
    BY Added
<1> HIDE DEF t, n
<1>3. CASE Keyed(f)
  <2>1. Ends(t, v, Val(f))
      BY <1>1, <1>2, <1>3, Zenon DEF Ends
  <2> QED
      BY <1>3, <2>1 DEF t
<1>4. CASE ~Keyed(f)
  <2>1. Ends(t, v, w)
    <3>1. CASE Unkeyed(s) /\ w = v
        BY <1>1, <1>4, <3>1, Zenon DEF Ends, Unkeyed
    <3>2. CASE \E i \in DOMAIN s : /\ Keyed(s[i]) /\ Val(s[i]) = w
                                   /\ \A j \in DOMAIN s : i < j => ~Keyed(s[j])
        BY <1>1, <1>4, <3>2, Zenon DEF Ends
    <3> QED
        BY <3>1, <3>2, Zenon DEF Ends
  <2> QED
      BY <1>4, <2>1 DEF t
<1> QED
    BY <1>3, <1>4

\* What is left when the first frame has been applied.
LEMMA EndsTaken ==
  ASSUME NEW S, NEW s \in Seq(S), s # <<>>, NEW v, NEW w, Ends(s, v, w)
  PROVE  Ends(Tail(s), IF Keyed(Head(s)) THEN Val(Head(s)) ELSE v, w)
<1> DEFINE t == Tail(s)
           u == IF Keyed(s[1]) THEN Val(s[1]) ELSE v
<1>1. Head(s) = s[1] /\ 1 \in DOMAIN s
    BY Taken
<1>2. \A i \in DOMAIN t : i + 1 \in DOMAIN s /\ t[i] = s[i + 1]
    BY Taken
<1>3. \A i \in DOMAIN s : i = 1 \/ (i - 1 \in DOMAIN t /\ t[i - 1] = s[i])
    OBVIOUS
<1>4. \A i \in DOMAIN s : \A j \in DOMAIN t : i - 1 < j => i < j + 1
    OBVIOUS
<1>5. \A j \in DOMAIN t : 1 < j + 1
    OBVIOUS
<1> HIDE DEF t
<1>6. CASE Unkeyed(s) /\ w = v
  <2>1. Unkeyed(t) /\ ~Keyed(s[1])
      BY <1>1, <1>2, <1>6, Zenon DEF Unkeyed
  <2> QED
      BY <1>1, <1>6, <2>1 DEF Ends, t
<1>7. ASSUME NEW i \in DOMAIN s, Keyed(s[i]), Val(s[i]) = w, \A j \in DOMAIN s : i < j => ~Keyed(s[j])
      PROVE  Ends(t, u, w)
  <2>1. CASE i = 1
    <3>1. Unkeyed(t)
        BY <1>2, <1>5, <1>7, <2>1, Zenon DEF Unkeyed
    <3>2. w = u
        BY <1>7, <2>1
    <3> QED
        BY <3>1, <3>2, Zenon DEF Ends
  <2>2. CASE i # 1
    <3>1. i - 1 \in DOMAIN t /\ t[i - 1] = s[i]
        BY <1>3, <2>2, Zenon
    <3>2. \A j \in DOMAIN t : i - 1 < j => ~Keyed(t[j])
        BY <1>2, <1>4, <1>7, Zenon
    <3>3. Keyed(t[i - 1]) /\ Val(t[i - 1]) = w
        BY <1>7, <3>1
    <3> HIDE DEF u
    <3> QED
        BY <3>1, <3>2, <3>3, Zenon DEF Ends
  <2> QED
      BY <2>1, <2>2
<1>8. Ends(t, u, w)
    BY <1>6, <1>7, <1>1 DEF Ends, t, u
<1> QED
    BY <1>1, <1>8 DEF t, u

\* The same for queues without a change to the key.
LEMMA UnkeyedMoves ==
  ASSUME NEW S, NEW s \in Seq(S), Unkeyed(s)
  PROVE  /\ \A f \in S : ~Keyed(f) => Unkeyed(Append(s, f))
         /\ s # <<>> => Unkeyed(Tail(s)) /\ ~Keyed(Head(s))
<1>1. ASSUME NEW f \in S, ~Keyed(f) PROVE Unkeyed(Append(s, f))
  <2> DEFINE t == Append(s, f)
             n == Len(s) + 1
  <2>1. /\ \A i \in DOMAIN s : t[i] = s[i]
        /\ t[n] = f /\ \A i \in DOMAIN t : i \in DOMAIN s \/ i = n
      BY Added
  <2> HIDE DEF t, n
  <2>2. Unkeyed(t)
      BY <1>1, <2>1, Zenon DEF Unkeyed
  <2> QED
      BY <2>2 DEF t
<1>2. ASSUME s # <<>> PROVE Unkeyed(Tail(s)) /\ ~Keyed(Head(s))
  <2> DEFINE t == Tail(s)
  <2>1. /\ Head(s) = s[1] /\ 1 \in DOMAIN s
        /\ \A i \in DOMAIN t : i + 1 \in DOMAIN s /\ t[i] = s[i + 1]
      BY <1>2, Taken
  <2> HIDE DEF t
  <2>2. Unkeyed(t)
      BY <2>1, Zenon DEF Unkeyed
  <2> QED
      BY <2>1, <2>2 DEF Unkeyed, t
<1> QED
    BY <1>1, <1>2

\* The first frame of t goes on to s, in a form that says the same of the key,
\* or is dropped if it says nothing.
LEMMA EndsMoved ==
  ASSUME NEW S, NEW s \in Seq(S), NEW T, NEW t \in Seq(T), t # <<>>,
         NEW v, NEW a \in Vals, NEW w, Ends(s, v, a), Ends(t, a, w),
         NEW r, Keyed(Head(t)) => Val(Head(t)) \in Vals,
         \/ r = s /\ ~Keyed(Head(t))
         \/ \E g \in S : /\ r = Append(s, g) /\ (Keyed(g) <=> Keyed(Head(t)))
                         /\ Keyed(g) => Val(g) = Val(Head(t))
  PROVE  \E b \in Vals : Ends(r, v, b) /\ Ends(Tail(t), b, w)
<1> DEFINE b == IF Keyed(Head(t)) THEN Val(Head(t)) ELSE a
<1>1. b \in Vals
    OBVIOUS
<1>2. Ends(Tail(t), b, w)
    BY EndsTaken
<1>3. CASE r = s /\ ~Keyed(Head(t))
    BY <1>1, <1>2, <1>3
<1>4. ASSUME NEW g \in S, r = Append(s, g), Keyed(g) <=> Keyed(Head(t)), Keyed(g) => Val(g) = Val(Head(t))
      PROVE  Ends(r, v, b)
  <2>1. Ends(Append(s, g), v, IF Keyed(g) THEN Val(g) ELSE a)
      BY EndsAdded
  <2>2. b = IF Keyed(g) THEN Val(g) ELSE a
      BY <1>4
  <2> QED
      BY <1>4, <2>1, <2>2
<1> HIDE DEF b
<1> QED
    BY <1>1, <1>2, <1>3, <1>4, Zenon

\* What the link's frames are to the key.
LEMMA KeyedIs ==
  /\ \A f \in Data : /\ Keyed(f) <=> f.kind # "PUBLISH"
                     /\ Keyed(f) => Val(f) \in Vals
                     /\ \A x : Marked(f, x) => Keyed(f)
                     /\ Keyed(f) => Marked(f, IF Val(f) = NONE THEN DEL ELSE Val(f))
  /\ \A f \in Pushed : /\ Keyed(f) => Val(f) \in Vals
                       /\ f.kind = "PUBLISH" => ~Keyed(f)
                       /\ Keyed(f) /\ f.kind # "REPLY" => f.arg \in Marks /\ Marked(f, f.arg)
                       /\ f.kind = "REPLY" => \A x : ~Marked(f, x)
  /\ ~Keyed(Ask) /\ ~Keyed(Hello) /\ ~Keyed(Nothing)
  /\ \A x : ~Marked(Ask, x)
<1>1. ASSUME NEW f \in Data
      PROVE  /\ Keyed(f) <=> f.kind # "PUBLISH"
             /\ Keyed(f) => Val(f) \in Vals
             /\ \A x : Marked(f, x) => Keyed(f)
             /\ Keyed(f) => Marked(f, IF Val(f) = NONE THEN DEL ELSE Val(f))
    BY DataIs, LinkAssumption DEF Keyed, Val, Vals, Marked
<1>2. ASSUME NEW f \in Pushed
      PROVE  /\ Keyed(f) => Val(f) \in Vals
             /\ f.kind = "PUBLISH" => ~Keyed(f)
             /\ Keyed(f) /\ f.kind # "REPLY" => f.arg \in Marks /\ Marked(f, f.arg)
             /\ f.kind = "REPLY" => \A x : ~Marked(f, x)
    BY PushedIs DEF Keyed, Val, Vals, Marked, Marks
<1>3. /\ ~Keyed(Ask) /\ ~Keyed(Hello) /\ ~Keyed(Nothing)
      /\ \A x : ~Marked(Ask, x)
  <2>1. \A f : f.kind \notin {"SET", "UPDATE", "DEL", "REPLY"} => ~Keyed(f) /\ \A x : ~Marked(f, x)
      BY DEF Keyed, Marked
  <2>2. \A f \in {Ask, Hello, Nothing} : f.kind \notin {"SET", "UPDATE", "DEL", "REPLY"}
      BY KindIs, Zenon
  <2> QED
      BY <2>1, <2>2, Zenon
<1> QED
    BY <1>1, <1>2, <1>3

\* What is passed on says the same of the key.
LEMMA ForwardedKeyed ==
  ASSUME NEW d, NEW f \in Pushed
  PROVE  /\ Keyed(Forwarded(d, f)) <=> Keyed(f)
         /\ Keyed(f) => Val(Forwarded(d, f)) = Val(f)
<1>1. CASE f.kind = "PUBLISH"
  <2>1. Forwarded(d, f) = f \/ Forwarded(d, f) = Nothing
      BY <1>1 DEF Forwarded
  <2> QED
      BY <1>1, <2>1, KeyedIs
<1>2. CASE f.kind = "REPLY"
  <2>1. CASE f.arg = NONE
    <3>1. Forwarded(d, f) = Nothing /\ ~Keyed(f)
        BY <1>2, <2>1 DEF Forwarded, Keyed
    <3> QED
        BY <3>1, KeyedIs
  <2>2. CASE f.arg # NONE
      BY <1>2, <2>2 DEF Forwarded, Keyed, Val, F
  <2> QED
      BY <2>1, <2>2
<1>3. CASE f.kind = "UPDATE"
    BY <1>3 DEF Forwarded, Keyed, Val, F
<1>4. CASE f.kind = "DEL"
    BY <1>4 DEF Forwarded
<1> QED
    BY <1>1, <1>2, <1>3, <1>4, PushedIs

\* What the daemon tells a watcher of a write.
Notice(v) == IF v = NONE THEN F("DEL", DEL) ELSE F("UPDATE", v)

\* It sets the key to what was written.
LEMMA NoticeIs ==
  ASSUME NEW v \in Vals
  PROVE  /\ Notice(v) \in Pushed /\ Notice(v).kind \in {"DEL", "UPDATE"}
         /\ Keyed(Notice(v)) /\ Val(Notice(v)) = v
         /\ \A x : Marked(Notice(v), x) <=> x = IF v = NONE THEN DEL ELSE v
<1>1. CASE v = NONE
  <2>1. Notice(v) = F("DEL", DEL)
      BY <1>1 DEF Notice
  <2>2. F("DEL", DEL) \in Pushed /\ F("DEL", DEL).kind = "DEL" /\ F("DEL", DEL).arg = DEL
      BY DEF F, Pushed
  <2> QED
      BY <1>1, <2>1, <2>2 DEF Keyed, Val, Marked
<1>2. CASE v # NONE
  <2>1. Notice(v) = F("UPDATE", v) /\ v \in Values
      BY <1>2 DEF Notice, Vals
  <2>2. F("UPDATE", v) \in Pushed /\ F("UPDATE", v).kind = "UPDATE" /\ F("UPDATE", v).arg = v
      BY <2>1 DEF F, Pushed
  <2> QED
      BY <1>2, <2>1, <2>2 DEF Keyed, Val, Marked
<1> QED
    BY <1>1, <1>2

\* A write while the link stays connected.
LEMMA WriteTells ==
  ASSUME Types, NEW d \in Devices, NEW v \in Vals, Write(d, v), d \in open'
  PROVE  /\ store' = [store EXCEPT ![d] = v] /\ \A k \in Devices \ {d} : down'[k] = down[k]
         /\ down'[d] = IF watching[d] /\ KEY \in Carries(d) THEN Append(down[d], Notice(v)) ELSE down[d]
<1>1. store' = [store EXCEPT ![d] = v]
    BY DEF Write
<1>2. CASE watching[d] /\ KEY \in Carries(d)
  <2>1. Push(d, Notice(v))
      BY <1>2, Zenon DEF Write, Notice
  <2>2. /\ \A k \in Devices \ {d} : down'[k] = down[k]
        /\ down'[d] = Append(down[d], Notice(v))
      BY <2>1, PushIs, NoticeIs
  <2> QED
      BY <1>1, <1>2, <2>2
<1>3. CASE ~(watching[d] /\ KEY \in Carries(d))
  <2>1. down' = down
      BY <1>3 DEF Write
  <2> QED
      BY <1>1, <1>3, <2>1
<1> QED
    BY <1>2, <1>3

\* A link's greeting and question, where nothing they are about changes.
LEMMA ReadyStays ==
  ASSUME NEW d, NEW e, Ready(d, e), up'[d] = up[d], watching'[d] = watching[d],
         peer'[d] = peer[d], wire'[e] = wire[e]
  PROVE  Ready(d, e)'
BY Zenon DEF Ready

\* The way back to the owner, where nothing on it changes.
LEMMA NoneBackStays ==
  ASSUME NEW o, NEW e, NoneBack(o, e), wire'[e] = wire[e], up'[o] = up[o],
         echo'[o] = echo[o], peer'[o] = peer[o], hand'[o] = hand[o]
  PROVE  NoneBack(o, e)'
<1>1. Holding(o)' = Holding(o)
    BY Zenon DEF Holding
<1> QED
    BY <1>1, Zenon DEF NoneBack

\* The copies that will come back, where nothing happens to them.
LEMMA OwedStays ==
  ASSUME NEW e, Owed(e), up'[e] = up[e], down'[e] = down[e], echo'[e] = echo[e],
         peer'[e] = peer[e], hand'[e] = hand[e]
  PROVE  Owed(e)'
BY Zenon DEF Owed, InHand

\* What e has to tell, where nothing happens to it.
LEMMA BlankStays ==
  ASSUME NEW e, Blank(e), down'[e] = down[e], watching'[e] = watching[e], store'[e] = store[e]
  PROVE  Blank(e)'
BY Zenon DEF Blank

\* The way from the owner, where nothing on it moves.
LEMMA WayStays ==
  ASSUME NEW o, NEW e, Way(o, e), up'[e] = up[e], store'[e] = store[e],
         peer'[e] = peer[e], hand'[e] = hand[e], wire'[o] = wire[o], down'[o] = down[o],
         Source(o)' = Source(o)
  PROVE  Way(o, e)'
<1>1. Holding(e)' = Holding(e)
    BY Zenon DEF Holding
<1> QED
    BY <1>1, Zenon DEF Way

\* A step at d keeps both ways as they should be.
Keeps(d, e) ==
  /\ Ready(d, e)' /\ Ready(e, d)'
  /\ wrote' \subseteq {d} /\ Owns(d, e) => Owns(d, e)'
  /\ wrote' \subseteq {e} /\ Owns(e, d) => Owns(e, d)'

\* That is what is left to show for it: in the first session links that are
\* connected have been so from the start.
LEMMA OwnStep ==
  ASSUME OwnInv, NEW d \in Devices, NEW e \in Devices, e = Other(d),
         setup' = setup, sessions' = sessions, ~cut' => ~cut, open' \subseteq open,
         \A k \in Devices : /\ local'[k] = "recv" => local[k] = "recv"
                            /\ peer'[k] \in {"hello", "recv", "expect", "send"} =>
                                  peer[k] \in {"hello", "recv", "expect", "send"},
         wrote \subseteq wrote', wrote' \subseteq Devices,
         sessions = 0 => \A k \in Devices :
            ~watching'[k] /\ down'[k] = <<>> /\ (k \notin wrote' => store'[k] = NONE),
         Sync /\ Sync' /\ Ready(d, e) /\ Ready(e, d) => Keeps(d, e)
  PROVE  OwnInv'
<1>1. Sync' => Sync
    BY Zenon DEF Sync, Carries
<1>2. e # d /\ Other(e) = d /\ \A k \in Devices : k = d \/ k = e
    BY OtherIs
<1>3. ASSUME Sync', NEW k \in Devices
      PROVE  Ready(k, Other(k))' /\ (wrote' \subseteq {k} => Owns(k, Other(k))')
  <2>1. Sync
      BY <1>1, <1>3
  <2>2. /\ Ready(d, e) /\ Ready(e, d)
        /\ wrote \subseteq {d} => Owns(d, e)
        /\ wrote \subseteq {e} => Owns(e, d)
      BY <1>2, <2>1, Zenon DEF OwnInv
  <2>3. /\ Ready(d, e)' /\ Ready(e, d)'
        /\ wrote' \subseteq {d} /\ Owns(d, e) => Owns(d, e)'
        /\ wrote' \subseteq {e} /\ Owns(e, d) => Owns(e, d)'
      BY <1>3, <2>1, <2>2 DEF Keeps
  <2>4. (wrote' \subseteq {d} => Owns(d, e)') /\ (wrote' \subseteq {e} => Owns(e, d)')
      BY <2>2, <2>3
  <2>5. CASE k = d
      BY <2>3, <2>4, <2>5
  <2>6. CASE k = e
      BY <1>2, <2>3, <2>4, <2>6
  <2> QED
      BY <1>2, <2>5, <2>6
<1> QED
    BY <1>3, Zenon DEF OwnInv

\* Before the first session there is no link to take a step.
LEMMA NoneYet ==
  ASSUME IInv, sessions = 0, NEW d \in Devices
  PROVE  main[d] = "off" /\ local[d] = "off" /\ peer[d] = "off" /\ up[d] = <<>> /\ old[d] = <<>>
<1>1. main[d] = "off" /\ up[d] = <<>> /\ old[d] = <<>>
    BY DEF IInv, UpInv, UpOf
<1> QED
    BY <1>1, Zenon DEF IInv, ThreadInv, ThreadOf

\* A step that loses a connection, or of which neither way is a part.
LEMMA OwnLost ==
  ASSUME IInv, OwnInv, sessions' = sessions, wrote' = wrote, ~Sync',
         sessions = 0 => watching' = watching /\ down' = down /\ store' = store
  PROVE  OwnInv'
BY Zenon DEF OwnInv

\* The owner's daemon tells its link of the key, or of something else.
LEMMA WayTold ==
  ASSUME Types, NEW o \in Devices, NEW e \in Devices, NEW g \in Pushed, Way(o, e),
         up'[e] = up[e], store'[e] = store[e], peer'[e] = peer[e], hand'[e] = hand[e],
         wire'[o] = wire[o], down'[o] = Append(down[o], g),
         Source(o)' = IF Keyed(g) THEN Val(g) ELSE Source(o)
  PROVE  Way(o, e)'
<1>1. Holding(e)' = Holding(e)
    BY Zenon DEF Holding
<1>2. PICK a1 \in Vals, a2 \in Vals, a3 \in Vals :
        /\ Ends(up[e], store[e], a1) /\ Ends(Holding(e), a1, a2)
        /\ Ends(wire[o], a2, a3) /\ Ends(down[o], a3, Source(o))
    BY Zenon DEF Way
<1>3. down[o] \in Seq(Pushed)
    BY DEF Types
<1>4. Ends(down'[o], a3, Source(o)')
    BY <1>2, <1>3, EndsAdded
<1> QED
    BY <1>1, <1>2, <1>4, Zenon DEF Way

\* The other daemon applies a frame.
LEMMA WayRead ==
  ASSUME Types, NEW o \in Devices, NEW e \in Devices, Way(o, e), up[e] # <<>>,
         up'[e] = Tail(up[e]), store'[e] = IF Keyed(Head(up[e])) THEN Val(Head(up[e])) ELSE store[e],
         peer'[e] = peer[e], hand'[e] = hand[e], wire'[o] = wire[o], down'[o] = down[o],
         Source(o)' = Source(o)
  PROVE  Way(o, e)'
<1>1. Holding(e)' = Holding(e)
    BY Zenon DEF Holding
<1>2. PICK a1 \in Vals, a2 \in Vals, a3 \in Vals :
        /\ Ends(up[e], store[e], a1) /\ Ends(Holding(e), a1, a2)
        /\ Ends(wire[o], a2, a3) /\ Ends(down[o], a3, Source(o))
    BY Zenon DEF Way
<1>3. up[e] \in Seq(Data \cup {Ask})
    BY DEF Types
<1>4. Ends(up'[e], store'[e], a1)
    BY <1>2, <1>3, EndsTaken
<1> QED
    BY <1>1, <1>2, <1>4, Zenon DEF Way

\* No more copies will come back than before, and as many are expected.
LEMMA OwedKept ==
  ASSUME Types, NEW e \in Devices, Owed(e), echo'[e] = echo[e],
         \A x \in Marks : InHand(e, x)' <=> InHand(e, x),
         \A x \in Marks : /\ Count(up'[e], x) \in Nat /\ Count(down'[e], x) \in Nat
                          /\ Count(up'[e], x) + Count(down'[e], x) <= Count(up[e], x) + Count(down[e], x)
  PROVE  Owed(e)'
<1> SUFFICES ASSUME NEW x \in Marks
             PROVE  Count(up'[e], x) + Count(down'[e], x) + (IF InHand(e, x)' THEN 1 ELSE 0) <= echo'[e][x]
    BY Zenon DEF Owed
<1> DEFINE a == Count(up[e], x)
           b == Count(down[e], x)
           u == Count(up'[e], x)
           v == Count(down'[e], x)
           n == echo[e][x]
           h == IF InHand(e, x) THEN 1 ELSE 0
<1>1. n \in Nat /\ a + b + h <= n /\ echo'[e][x] = n
    BY DEF Types, LinkOK, Owed
<1>2. a \in Nat /\ b \in Nat
    BY CountIs DEF Types
<1>3. u \in Nat /\ v \in Nat /\ u + v <= a + b
    OBVIOUS
<1>4. h = IF InHand(e, x)' THEN 1 ELSE 0
    BY Zenon
<1>5. h \in Nat
    OBVIOUS
<1> HIDE DEF a, b, u, v, n, h
<1>6. u + v + h <= n
    BY <1>1, <1>2, <1>3, <1>5
<1> QED
    BY <1>1, <1>4, <1>6 DEF u, v

\* The other daemon tells its link of something.
LEMMA BlankTold ==
  ASSUME Types, NEW e \in Devices, NEW g \in Pushed, Blank(e), down'[e] = Append(down[e], g),
         g.kind = "REPLY" => ~Keyed(g), ~watching'[e] => store'[e] = NONE
  PROVE  Blank(e)'
<1> DEFINE s == down[e]
           t == Append(s, g)
           n == Len(s) + 1
<1>1. s \in Seq(Pushed)
    BY DEF Types
<1>2. /\ \A i \in DOMAIN s : t[i] = s[i]
      /\ t[n] = g /\ \A i \in DOMAIN t : i \in DOMAIN s \/ i = n
    BY <1>1, Added
<1>3. \A i \in DOMAIN s : s[i].kind = "REPLY" => ~Keyed(s[i])
    BY Zenon DEF Blank
<1> HIDE DEF s, t, n
<1>4. \A i \in DOMAIN t : t[i].kind = "REPLY" => ~Keyed(t[i])
    BY <1>2, <1>3, Zenon
<1>5. down'[e] = t
    BY DEF s, t
<1> QED
    BY <1>4, <1>5, Zenon DEF Blank

\* The daemon reads a frame of its link.
LEMMA ReadyRead ==
  ASSUME Types, NEW d \in Devices, NEW e, Ready(d, e), up[d] # <<>>, up'[d] = Tail(up[d]),
         peer'[d] = peer[d], wire'[e] = wire[e]
  PROVE  Ready(d, e)'
<1>1. up[d] \in Seq(Data \cup {Ask})
    BY DEF Types
<1>2. \A i \in DOMAIN Tail(up[d]) : /\ i + 1 \in DOMAIN up[d] /\ Tail(up[d])[i] = up[d][i + 1]
                                    /\ i + 1 # 1
    BY <1>1, Taken
<1> QED
    BY <1>2, Zenon DEF Ready

\* Counting the changes to x when the daemon reads or tells.
LEMMA CountSteps ==
  ASSUME Types, NEW d \in Devices, NEW x
  PROVE  /\ Count(up[d], x) \in Nat /\ Count(down[d], x) \in Nat
         /\ up[d] # <<>> => /\ Count(Tail(up[d]), x) \in Nat
                            /\ Count(up[d], x) = Count(Tail(up[d]), x) + (IF Marked(Head(up[d]), x) THEN 1 ELSE 0)
         /\ down[d] # <<>> => /\ Count(Tail(down[d]), x) \in Nat
                              /\ Count(down[d], x) = Count(Tail(down[d]), x) + (IF Marked(Head(down[d]), x) THEN 1 ELSE 0)
         /\ \A g \in Pushed : Count(Append(down[d], g), x) = Count(down[d], x) + (IF Marked(g, x) THEN 1 ELSE 0)
         /\ \A f \in Data : Count(Append(up[d], f), x) = Count(up[d], x) + (IF Marked(f, x) THEN 1 ELSE 0)
<1>1. up[d] \in Seq(Data \cup {Ask}) /\ down[d] \in Seq(Pushed)
    BY DEF Types
<1>2. Count(up[d], x) \in Nat /\ Count(down[d], x) \in Nat
    BY <1>1, CountIs
<1>3. up[d] # <<>> => /\ Count(Tail(up[d]), x) \in Nat
                      /\ Count(up[d], x) = Count(Tail(up[d]), x) + (IF Marked(Head(up[d]), x) THEN 1 ELSE 0)
    BY <1>1, Taken, CountIs, CountTaken
<1>4. down[d] # <<>> => /\ Count(Tail(down[d]), x) \in Nat
                        /\ Count(down[d], x) = Count(Tail(down[d]), x) + (IF Marked(Head(down[d]), x) THEN 1 ELSE 0)
    BY <1>1, Taken, CountIs, CountTaken
<1>5. \A g \in Pushed : Count(Append(down[d], g), x) = Count(down[d], x) + (IF Marked(g, x) THEN 1 ELSE 0)
    BY <1>1, CountAdded
<1>6. \A f \in Data : Count(Append(up[d], f), x) = Count(up[d], x) + (IF Marked(f, x) THEN 1 ELSE 0)
    BY <1>1, CountAdded
<1> QED
    BY <1>2, <1>3, <1>4, <1>5, <1>6

-----------------------------------------------------------------------------
(* The key's way, step by step                                             *)

\* The daemon tells the link of a message, which is none of the key's.
LEMMA MessageOwn ==
  ASSUME IInv, OwnInv, NEW d \in Devices, NEW g \in Pushed, g.kind = "PUBLISH", Told(d, g),
         setup' = setup, watching' = watching, up' = up, wire' = wire, cut' = cut, procs' = procs,
         sessions' = sessions, store' = store, wrote' = wrote
  PROVE  OwnInv'
<1> Types
    BY DEF IInv
<1>1. main' = main /\ local' = local /\ peer' = peer /\ hand' = hand /\ echo' = echo
    BY DEF procs
<1>2. PICK e \in Devices : e = Other(d) /\ e # d
    BY OtherIs
<1>3. ~Keyed(g) /\ g.kind # "REPLY" /\ \A x : ~Marked(g, x)
    BY DEF Keyed, Marked
<1>4. open' \subseteq open /\ down'[e] = down[e]
    BY <1>2, Zenon DEF Told
<1>5. wrote \subseteq wrote' /\ wrote' \subseteq Devices
    BY DEF OwnInv
<1>6. ASSUME sessions = 0, NEW k \in Devices
      PROVE  ~watching'[k] /\ down'[k] = <<>> /\ (k \notin wrote' => store'[k] = NONE)
  <2>1. ~watching[d] /\ ~watching[k] /\ down[k] = <<>> /\ (k \notin wrote => store[k] = NONE)
      BY <1>6, Zenon DEF OwnInv
  <2>2. d \notin open
      BY <1>6, Zenon DEF IInv, UpInv, UpOf, ThreadInv, ThreadOf
  <2>3. down' = down
      BY <2>2, Zenon DEF Told
  <2> QED
      BY <2>1, <2>3
<1>7. ASSUME Sync, Sync', Ready(d, e), Ready(e, d)
      PROVE  Keeps(d, e)
  <2>1. down'[d] = down[d] \/ down'[d] = Append(down[d], g)
      BY Zenon DEF Told
  <2>2. Ready(d, e)' /\ Ready(e, d)'
      BY <1>1, <1>7, ReadyStays
  <2>3. Source(d)' = Source(d) /\ Source(e)' = Source(e)
      BY DEF Source
  <2>4. ASSUME Owns(d, e) PROVE Owns(d, e)'
    <3>1. NoneBack(d, e)' /\ Owed(e)' /\ Blank(e)'
        BY <1>1, <1>4, <2>4, NoneBackStays, OwedStays, BlankStays DEF Owns
    <3>2. CASE down'[d] = down[d]
        BY <1>1, <2>3, <2>4, <3>1, <3>2, WayStays DEF Owns
    <3>3. CASE down'[d] = Append(down[d], g)
        BY <1>1, <1>3, <2>3, <2>4, <3>1, <3>3, WayTold DEF Owns
    <3> QED
        BY <2>1, <3>2, <3>3
  <2>5. ASSUME Owns(e, d) PROVE Owns(e, d)'
    <3>1. NoneBack(e, d)'
        BY <1>1, <2>5, NoneBackStays DEF Owns
    <3>2. Way(e, d)'
        BY <1>1, <1>4, <2>3, <2>5, WayStays DEF Owns
    <3>3. CASE down'[d] = down[d]
        BY <1>1, <2>5, <3>1, <3>2, <3>3, OwedStays, BlankStays DEF Owns
    <3>4. CASE down'[d] = Append(down[d], g)
      <4>1. Blank(d)'
          BY <1>3, <2>5, <3>4, BlankTold DEF Owns, Blank
      <4>2. \A x \in Marks : /\ Count(up'[d], x) \in Nat /\ Count(down'[d], x) \in Nat
                             /\ Count(up'[d], x) + Count(down'[d], x) <= Count(up[d], x) + Count(down[d], x)
        <5>1. \A x : /\ Count(up[d], x) \in Nat /\ Count(down[d], x) \in Nat
                     /\ Count(Append(down[d], g), x) = Count(down[d], x) + 0
            BY <1>3, CountSteps
        <5> QED
            BY <3>4, <5>1
      <4>3. \A x \in Marks : InHand(d, x)' <=> InHand(d, x)
          BY <1>1 DEF InHand
      <4>4. Owed(d)'
          BY <1>1, <2>5, <4>2, <4>3, OwedKept DEF Owns
      <4> QED
          BY <3>1, <3>2, <4>1, <4>4 DEF Owns
    <3> QED
        BY <2>1, <3>3, <3>4
  <2> QED
      BY <2>2, <2>4, <2>5 DEF Keeps
<1> QED
    BY <1>1, <1>2, <1>4, <1>5, <1>6, <1>7, OwnStep

\* A user writes, as the owner, or publishes.
LEMMA UserOwn ==
  ASSUME IInv, OwnInv, NEW d \in Devices, User(d)
  PROVE  OwnInv'
<1>1. /\ setup' = setup /\ watching' = watching /\ up' = up /\ wire' = wire /\ cut' = cut
      /\ procs' = procs /\ sessions' = sessions /\ ops' = ops + 1
    BY DEF User
<1>2. main' = main /\ local' = local /\ peer' = peer /\ hand' = hand /\ echo' = echo
    BY <1>1 DEF procs
<1>3. PICK e \in Devices : e = Other(d) /\ e # d
    BY OtherIs
<1>4. Types /\ ops' \in Nat
  <2>1. Types
      BY DEF IInv
  <2>2. ops \in Nat
      BY <2>1, Zenon DEF Types
  <2> QED
      BY <1>1, <2>1, <2>2
<1>5. ASSUME NEW v \in Vals, Write(d, v), wrote' = wrote \cup {d}
      PROVE  OwnInv'
  <2>1. open' \subseteq open
    <3>1. (down' = down /\ open' = open) \/ \E g \in Pushed : Push(d, g)
        BY <1>4, <1>5, WriteIs, Zenon DEF Vals
    <3> QED
        BY <1>4, <3>1, PushIs, Zenon
  <2>2. wrote \subseteq wrote' /\ wrote' \subseteq Devices
      BY <1>5 DEF OwnInv
  <2>3. ASSUME sessions = 0, NEW k \in Devices
        PROVE  ~watching'[k] /\ down'[k] = <<>> /\ (k \notin wrote' => store'[k] = NONE)
    <3>1. ~watching[d] /\ ~watching[k] /\ down[k] = <<>> /\ (k \notin wrote => store[k] = NONE)
        BY <2>3, Zenon DEF OwnInv
    <3>2. down' = down /\ store' = [store EXCEPT ![d] = v] /\ store \in [Devices -> Values \cup {NONE}]
        BY <1>4, <1>5, <3>1 DEF Write, Types, LinkOK
    <3>3. k \notin wrote' => k # d /\ k \notin wrote
        BY <1>5
    <3> QED
        BY <1>1, <3>1, <3>2, <3>3
  <2>4. ASSUME Sync, Sync', Ready(d, e), Ready(e, d)
        PROVE  Keeps(d, e)
    <3>1. d \in open' /\ KEY \in Carries(d)
        BY <2>4 DEF Sync
    <3>2. /\ store' = [store EXCEPT ![d] = v] /\ down'[e] = down[e]
          /\ down'[d] = IF watching[d] /\ KEY \in Carries(d) THEN Append(down[d], Notice(v)) ELSE down[d]
        BY <1>3, <1>4, <1>5, <3>1, WriteTells
    <3>3. store'[d] = v /\ store'[e] = store[e]
        BY <1>3, <1>4, <3>2 DEF Types, LinkOK
    <3>4. Ready(d, e)' /\ Ready(e, d)'
        BY <1>1, <1>2, <2>4, ReadyStays
    <3>5. ASSUME Owns(d, e) PROVE Owns(d, e)'
      <4>1. NoneBack(d, e)' /\ Owed(e)' /\ Blank(e)'
          BY <1>1, <1>2, <3>2, <3>3, <3>5, NoneBackStays, OwedStays, BlankStays DEF Owns
      <4>2. Way(d, e)'
        <5>1. CASE watching[d]
          <6>1. down'[d] = Append(down[d], Notice(v)) /\ Source(d)' = v
              BY <1>1, <3>1, <3>2, <3>3, <5>1 DEF Source
          <6>2. Notice(v) \in Pushed /\ Keyed(Notice(v)) /\ Val(Notice(v)) = v
              BY NoticeIs
          <6> QED
              BY <1>1, <1>2, <1>4, <3>3, <3>5, <6>1, <6>2, WayTold DEF Owns
        <5>2. CASE ~watching[d]
          <6>1. down'[d] = down[d] /\ Source(d)' = Source(d)
              BY <1>1, <3>2, <5>2 DEF Source
          <6> QED
              BY <1>1, <1>2, <3>3, <3>5, <6>1, WayStays DEF Owns
        <5> QED
            BY <5>1, <5>2
      <4> QED
          BY <4>1, <4>2 DEF Owns
    <3>6. ~(wrote' \subseteq {e})
        BY <1>3, <1>5
    <3> QED
        BY <3>4, <3>5, <3>6 DEF Keeps
  <2> QED
      BY <1>1, <1>2, <1>3, <2>1, <2>2, <2>3, <2>4, OwnStep
<1>6. ASSUME NEW t \in Topics, Route(d, [from |-> d, id |-> ops', topic |-> t]), store' = store, wrote' = wrote
      PROVE  OwnInv'
  <2> DEFINE m == [from |-> d, id |-> ops', topic |-> t]
             g == F("PUBLISH", m)
  <2>1. g \in Pushed /\ g.kind = "PUBLISH"
      BY <1>4 DEF F, Pushed, Msgs
  <2>2. (down' = down /\ open' = open) \/ Push(d, g)
      BY <1>6, Zenon DEF Route
  <2> HIDE DEF m, g
  <2>3. Told(d, g)
      BY <1>4, <2>1, <2>2, ToldIs
  <2> QED
      BY <1>1, <1>6, <2>1, <2>3, MessageOwn
<1> QED
    BY <1>5, <1>6, Zenon DEF User, Vals

\* The daemon looks up a topic's retained value.
LEMMA ReplayOwn ==
  ASSUME IInv, OwnInv, NEW d \in Devices, Replay(d)
  PROVE  OwnInv'
<1>1. /\ setup' = setup /\ watching' = watching /\ up' = up /\ wire' = wire /\ cut' = cut /\ procs' = procs
      /\ sessions' = sessions /\ store' = store /\ wrote' = wrote
    BY Zenon DEF Replay, daemons, bounds
<1>2. PICK g \in Pushed : g.kind = "PUBLISH" /\ Told(d, g)
    BY ReplayTells, Zenon DEF IInv
<1> QED
    BY <1>1, <1>2, MessageOwn

\* A step that has nothing to do with the key.
LEMMA SameOwn ==
  ASSUME OwnInv, setup' = setup, store' = store, watching' = watching, up' = up, down' = down,
         open' = open, wire' = wire, cut' = cut, local' = local, peer' = peer,
         hand' = hand, echo' = echo, wrote' = wrote, sessions' = sessions
  PROVE  OwnInv'
<1>1. Sync' => Sync
    BY DEF Sync, Carries
<1>2. ASSUME NEW d \in Devices, NEW e \in Devices
      PROVE  (Ready(d, e) => Ready(d, e)') /\ (Owns(d, e) => Owns(d, e)')
  <2>1. Source(d)' = Source(d)
      BY DEF Source
  <2> QED
      BY <2>1, ReadyStays, NoneBackStays, OwedStays, BlankStays, WayStays, Zenon DEF Owns
<1>3. \A d \in Devices : Other(d) \in Devices
    BY OtherIs
<1> QED
    BY <1>1, <1>2, <1>3, Zenon DEF OwnInv

\* The daemon subscribes the link to a topic.
LEMMA SubscribeOwn ==
  ASSUME OwnInv, NEW d \in Devices, Subscribe(d)
  PROVE  OwnInv'
<1>1. /\ setup' = setup /\ store' = store /\ watching' = watching /\ up' = up /\ down' = down
      /\ open' = open /\ wire' = wire /\ cut' = cut /\ local' = local /\ peer' = peer
      /\ hand' = hand /\ echo' = echo /\ wrote' = wrote /\ sessions' = sessions
    BY Zenon DEF Subscribe, daemons, procs, bounds
<1> QED
    BY <1>1, SameOwn, Zenon

\* A daemon answers its link's question, applies a value or takes a message.
LEMMA ServeOwn ==
  ASSUME IInv, OwnInv, NEW d \in Devices, Serve(d)
  PROVE  OwnInv'
<1> DEFINE f == Head(up[d])
<1>1. /\ up[d] # <<>> /\ up' = [up EXCEPT ![d] = Tail(@)]
      /\ setup' = setup /\ wire' = wire /\ cut' = cut /\ procs' = procs
      /\ wrote' = wrote /\ sessions' = sessions
    BY Zenon DEF Serve, bounds
<1>2. main' = main /\ local' = local /\ peer' = peer /\ hand' = hand /\ echo' = echo
    BY <1>1 DEF procs
<1>3. PICK e \in Devices : e = Other(d) /\ e # d
    BY OtherIs
<1>4. Types /\ UpOf(d)
    BY DEF IInv, UpInv
<1>5. f \in Data \cup {Ask} /\ f = up[d][1] /\ 1 \in DOMAIN up[d] /\ up[d] \in Seq(Data \cup {Ask})
    BY <1>1, <1>4, Taken DEF Types
<1>6. up'[d] = Tail(up[d]) /\ up'[e] = up[e]
    BY <1>1, <1>3, <1>4 DEF Types
<1>7. wrote' \subseteq Devices /\ sessions # 0
    BY <1>1, NoneYet DEF OwnInv
<1>8. /\ f = Ask => /\ watching' = [watching EXCEPT ![d] = TRUE] /\ store' = store
                    /\ IF KEY \in Carries(d) THEN Push(d, F("REPLY", store[d])) ELSE down' = down /\ open' = open
      /\ f # Ask /\ ~Keyed(f) => watching' = watching /\ store' = store /\ down' = down /\ open' = open
      /\ Keyed(f) => watching' = watching /\ Write(d, Val(f)) /\ Val(f) \in Vals
  <2>1. CASE f = Ask
    <3>1. ~Keyed(f)
        BY <2>1, KeyedIs
    <3>2. f.kind = "SUBSCRIBE, GET"
        BY <2>1, KindIs, Zenon
    <3>3. /\ watching' = [watching EXCEPT ![d] = TRUE] /\ store' = store
          /\ IF KEY \in Carries(d) THEN Push(d, F("REPLY", store[d])) ELSE down' = down /\ open' = open
        BY <3>2, Zenon DEF Serve
    <3> QED
        BY <2>1, <3>1, <3>3, Zenon
  <2>2. CASE f # Ask
    <3>1. f \in Data
        BY <1>5, <2>2
    <3>2. CASE f.kind = "PUBLISH"
      <4>1. ~Keyed(f)
          BY <3>1, <3>2, KeyedIs
      <4> QED
          BY <2>2, <3>2, <4>1 DEF Serve
    <3>3. CASE f.kind # "PUBLISH"
      <4>1. Keyed(f) /\ Val(f) \in Vals /\ f.kind \in {"SET", "DEL"}
          BY <3>1, <3>3, KeyedIs, DataIs
      <4> DEFINE v == IF f.kind = "DEL" THEN NONE ELSE f.arg
      <4>2. Write(d, v) /\ heard' = heard /\ watching' = watching
          BY <4>1, ZenonT(60) DEF Serve
      <4>3. Write(d, Val(f))
          BY <4>2, Zenon DEF Val
      <4> QED
          BY <2>2, <4>1, <4>2, <4>3
    <3> QED
        BY <3>2, <3>3
  <2> QED
      BY <2>1, <2>2
<1> HIDE DEF f
<1>9. F("REPLY", store[d]) \in Pushed
    BY <1>4 DEF F, Pushed, Types, LinkOK
<1>10. open' \subseteq open
  <2>1. CASE f = Ask
      BY <1>4, <1>8, <1>9, <2>1, PushIs
  <2>2. CASE f # Ask /\ ~Keyed(f)
      BY <1>8, <2>2
  <2>3. CASE Keyed(f)
    <3>1. (down' = down /\ open' = open) \/ \E g \in Pushed : Push(d, g)
        BY <1>4, <1>8, <2>3, WriteIs, Zenon DEF Vals
    <3> QED
        BY <1>4, <3>1, PushIs, Zenon
  <2> QED
      BY <2>1, <2>2, <2>3
<1>11. ASSUME Sync, Sync', Ready(d, e), Ready(e, d)
       PROVE  Keeps(d, e)
  <2>1. d \in open' /\ d \in open /\ KEY \in Carries(d)
      BY <1>11 DEF Sync
  <2>2. \A x \in Marks : InHand(d, x)' <=> InHand(d, x)
      BY <1>2 DEF InHand
  <2>3. Ready(d, e)'
      BY <1>1, <1>2, <1>4, <1>6, <1>11, ReadyRead
  <2>4. CASE f = Ask
    <3> DEFINE g == F("REPLY", store[d])
    <3>1. /\ g.kind = "REPLY" /\ g.arg = store[d] /\ g \in Pushed
        BY <1>9 DEF F
    <3>2. Keyed(g) <=> store[d] # NONE
        BY <3>1 DEF Keyed
    <3>3. Val(g) = store[d] /\ \A x : ~Marked(g, x)
        BY <3>1 DEF Val, Marked
    <3>4. ~watching[d] /\ watching'[d] /\ watching'[e] = watching[e] /\ store' = store
        BY <1>3, <1>4, <1>5, <1>8, <1>11, <2>4 DEF Ready, Types, LinkOK
    <3>5. down'[d] = Append(down[d], g) /\ down'[e] = down[e]
        BY <1>3, <1>4, <1>8, <1>9, <2>1, <2>4, PushIs
    <3> HIDE DEF g
    <3>6. ~Keyed(f) /\ \A x : ~Marked(f, x)
        BY <2>4, KeyedIs
    <3>7. Ready(e, d)'
        BY <1>1, <1>2, <1>6, <1>11, <3>4, ReadyStays
    <3>8. ASSUME Owns(d, e) PROVE Owns(d, e)'
      <4>1. Owed(e)' /\ Blank(e)'
          BY <1>1, <1>2, <1>6, <3>4, <3>5, <3>8, OwedStays, BlankStays DEF Owns
      <4>2. NoneBack(d, e)'
        <5>1. Unkeyed(up'[d])
            BY <1>1, <1>5, <1>6, <3>8, UnkeyedMoves DEF Owns, NoneBack
        <5>2. Holding(d)' = Holding(d)
            BY <1>2 DEF Holding
        <5> QED
            BY <1>1, <1>2, <3>8, <5>1, <5>2 DEF Owns, NoneBack
      <4>3. Way(d, e)'
        <5>1. Source(d)' = IF Keyed(g) THEN Val(g) ELSE Source(d)
            BY <3>2, <3>3, <3>4 DEF Source
        <5> QED
            BY <1>1, <1>2, <1>4, <1>6, <3>1, <3>4, <3>5, <3>8, <5>1, WayTold DEF Owns
      <4> QED
          BY <4>1, <4>2, <4>3 DEF Owns
    <3>9. ASSUME Owns(e, d) PROVE Owns(e, d)'
      <4>1. NoneBack(e, d)'
          BY <1>1, <1>2, <1>6, <3>9, NoneBackStays DEF Owns
      <4>2. Blank(d)'
        <5>1. store[d] = NONE
            BY <3>4, <3>9 DEF Owns, Blank
        <5> QED
            BY <1>4, <3>1, <3>2, <3>4, <3>5, <3>9, <5>1, BlankTold DEF Owns
      <4>3. Owed(d)'
        <5>1. \A x : /\ Count(up[d], x) \in Nat /\ Count(down[d], x) \in Nat /\ Count(Tail(up[d]), x) \in Nat
                     /\ Count(up[d], x) = Count(Tail(up[d]), x) + 0
                     /\ Count(Append(down[d], g), x) = Count(down[d], x) + 0
            BY <1>1, <1>4, <3>1, <3>3, <3>6, CountSteps DEF f
        <5>2. \A x \in Marks : /\ Count(up'[d], x) \in Nat /\ Count(down'[d], x) \in Nat
                               /\ Count(up'[d], x) + Count(down'[d], x) <= Count(up[d], x) + Count(down[d], x)
            BY <1>6, <3>5, <5>1
        <5> QED
            BY <1>2, <1>4, <2>2, <3>9, <5>2, OwedKept DEF Owns
      <4>4. Way(e, d)'
        <5>1. Source(e)' = Source(e)
            BY <3>4 DEF Source
        <5> QED
            BY <1>1, <1>2, <1>4, <1>6, <3>4, <3>5, <3>6, <3>9, <5>1, WayRead DEF Owns, f
      <4> QED
          BY <4>1, <4>2, <4>3, <4>4 DEF Owns
    <3> QED
        BY <2>3, <3>7, <3>8, <3>9 DEF Keeps
  <2>5. CASE f # Ask /\ ~Keyed(f)
    <3>1. watching' = watching /\ store' = store /\ down' = down
        BY <1>8, <2>5
    <3>2. \A x : ~Marked(f, x)
        BY <2>5 DEF Keyed, Marked
    <3>3. Ready(e, d)'
        BY <1>1, <1>2, <1>6, <1>11, <3>1, ReadyStays
    <3>4. Source(d)' = Source(d) /\ Source(e)' = Source(e)
        BY <3>1 DEF Source
    <3>5. ASSUME Owns(d, e) PROVE Owns(d, e)'
      <4>1. Owed(e)' /\ Blank(e)' /\ Way(d, e)'
          BY <1>1, <1>2, <1>6, <3>1, <3>4, <3>5, OwedStays, BlankStays, WayStays DEF Owns
      <4>2. NoneBack(d, e)'
        <5>1. Unkeyed(up'[d])
            BY <1>1, <1>5, <1>6, <3>5, UnkeyedMoves DEF Owns, NoneBack
        <5>2. Holding(d)' = Holding(d)
            BY <1>2 DEF Holding
        <5> QED
            BY <1>1, <1>2, <3>5, <5>1, <5>2 DEF Owns, NoneBack
      <4> QED
          BY <4>1, <4>2 DEF Owns
    <3>6. ASSUME Owns(e, d) PROVE Owns(e, d)'
      <4>1. NoneBack(e, d)' /\ Blank(d)'
          BY <1>1, <1>2, <1>6, <3>1, <3>6, NoneBackStays, BlankStays DEF Owns
      <4>2. Owed(d)'
        <5>1. \A x : /\ Count(up[d], x) \in Nat /\ Count(down[d], x) \in Nat /\ Count(Tail(up[d]), x) \in Nat
                     /\ Count(up[d], x) = Count(Tail(up[d]), x) + 0
            BY <1>1, <1>4, <3>2, CountSteps DEF f
        <5>2. \A x \in Marks : /\ Count(up'[d], x) \in Nat /\ Count(down'[d], x) \in Nat
                               /\ Count(up'[d], x) + Count(down'[d], x) <= Count(up[d], x) + Count(down[d], x)
            BY <1>6, <3>1, <5>1
        <5> QED
            BY <1>2, <1>4, <2>2, <3>6, <5>2, OwedKept DEF Owns
      <4>3. Way(e, d)'
          BY <1>1, <1>2, <1>4, <1>6, <2>5, <3>1, <3>4, <3>6, WayRead DEF Owns, f
      <4> QED
          BY <4>1, <4>2, <4>3 DEF Owns
    <3> QED
        BY <2>3, <3>3, <3>5, <3>6 DEF Keeps
  <2>6. CASE Keyed(f)
    <3> DEFINE v == Val(f)
               g == Notice(v)
    <3>1. v \in Vals /\ Write(d, v) /\ watching' = watching /\ f \in Data
        BY <1>5, <1>8, <2>6, KeyedIs
    <3>2. watching[d]
      <4>1. f # Ask
          BY <2>6, KeyedIs
      <4> QED
          BY <1>4, <1>5, <2>1, <4>1 DEF UpOf
    <3>3. store' = [store EXCEPT ![d] = v] /\ down'[e] = down[e] /\ down'[d] = Append(down[d], g)
        BY <1>3, <1>4, <2>1, <3>1, <3>2, WriteTells
    <3>4. store'[d] = v /\ store'[e] = store[e]
        BY <1>3, <1>4, <3>3 DEF Types, LinkOK
    <3>5. /\ g \in Pushed /\ g.kind # "REPLY"
          /\ \A x : Marked(g, x) <=> x = IF v = NONE THEN DEL ELSE v
        BY <3>1, NoticeIs
    <3>6. Marked(f, IF v = NONE THEN DEL ELSE v)
        BY <2>6, <3>1, KeyedIs
    <3> HIDE DEF v, g
    <3>7. \A x : Marked(f, x) <=> Marked(g, x)
        BY <3>5, <3>6 DEF Marked
    <3>8. Ready(e, d)'
        BY <1>1, <1>2, <1>6, <1>11, <3>1, ReadyStays
    <3>9. ~Owns(d, e)
        BY <1>1, <1>5, <2>6, UnkeyedMoves DEF Owns, NoneBack, f
    <3>10. ASSUME Owns(e, d) PROVE Owns(e, d)'
      <4>1. NoneBack(e, d)'
          BY <1>1, <1>2, <1>6, <3>10, NoneBackStays DEF Owns
      <4>2. Blank(d)'
          BY <1>4, <3>1, <3>2, <3>3, <3>5, <3>10, BlankTold DEF Owns
      <4>3. Owed(d)'
        <5>1. \A x : /\ Count(up[d], x) \in Nat /\ Count(down[d], x) \in Nat /\ Count(Tail(up[d]), x) \in Nat
                     /\ Count(up[d], x) = Count(Tail(up[d]), x) + (IF Marked(g, x) THEN 1 ELSE 0)
                     /\ Count(Append(down[d], g), x) = Count(down[d], x) + (IF Marked(g, x) THEN 1 ELSE 0)
            BY <1>1, <1>4, <3>5, <3>7, CountSteps DEF f
        <5>2. \A b, c \in Nat, r \in {0, 1} : b + r \in Nat /\ c + (b + r) <= (c + r) + b
            OBVIOUS
        <5>3. ASSUME NEW x \in Marks
              PROVE  /\ Count(up'[d], x) \in Nat /\ Count(down'[d], x) \in Nat
                     /\ Count(up'[d], x) + Count(down'[d], x) <= Count(up[d], x) + Count(down[d], x)
          <6>1. /\ Count(up'[d], x) = Count(Tail(up[d]), x)
                /\ Count(down'[d], x) = Count(Append(down[d], g), x)
              BY <1>6, <3>3
          <6> DEFINE r == IF Marked(g, x) THEN 1 ELSE 0
          <6>2. r \in {0, 1}
              OBVIOUS
          <6>3. /\ Count(up[d], x) = Count(Tail(up[d]), x) + r /\ Count(Append(down[d], g), x) = Count(down[d], x) + r
                /\ Count(down[d], x) \in Nat /\ Count(Tail(up[d]), x) \in Nat
              BY <5>1, Zenon
          <6> HIDE DEF r
          <6> QED
              BY <5>2, <6>1, <6>2, <6>3
        <5> QED
            BY <1>2, <1>4, <2>2, <3>10, <5>3, OwedKept DEF Owns
      <4>4. Way(e, d)'
        <5>1. Source(e)' = Source(e)
            BY <3>1, <3>4 DEF Source
        <5> QED
            BY <1>1, <1>2, <1>4, <1>6, <2>6, <3>3, <3>4, <3>10, <5>1, WayRead DEF Owns, f, v
      <4> QED
          BY <4>1, <4>2, <4>3, <4>4 DEF Owns
    <3> QED
        BY <2>3, <3>8, <3>9, <3>10 DEF Keeps
  <2> QED
      BY <2>4, <2>5, <2>6
<1> QED
    BY <1>1, <1>2, <1>3, <1>7, <1>10, <1>11, OwnStep

\* local_loop passes the owner's changes on, and drops every copy that comes
\* back at the other device, where there is nothing else.
LEMMA LocalFrameOwn ==
  ASSUME IInv, OwnInv, NEW d \in Devices, LocalFrame(d)
  PROVE  OwnInv'
<1> DEFINE f == Head(down[d])
           g == Forwarded(d, f)
           mine == Expected(d, g)
           sent == g # Nothing /\ ~mine /\ ~cut
<1>1. /\ local[d] = "recv" /\ down[d] # <<>>
      /\ wire' = (IF sent THEN [wire EXCEPT ![d] = Append(@, g)] ELSE wire)
      /\ echo' = (IF mine THEN [echo EXCEPT ![d][g.arg] = @ - 1] ELSE echo)
      /\ down' = [down EXCEPT ![d] = Tail(@)] /\ local' = [local EXCEPT ![d] = Loop(d)]
      /\ setup' = setup /\ store' = store /\ watching' = watching /\ up' = up
      /\ open' = open /\ cut' = cut /\ peer' = peer /\ hand' = hand
      /\ wrote' = wrote /\ sessions' = sessions
    BY DEF LocalFrame, daemons, bounds
<1>2. PICK e \in Devices : e = Other(d) /\ e # d
    BY OtherIs
<1>3. /\ Types /\ down \in [Devices -> Seq(Pushed)] /\ wire \in [Devices -> Seq(Data \cup {Hello})]
      /\ echo \in [Devices -> [Marks -> Nat]] /\ local \in [Devices -> {"off", "recv", "leave", "done"}]
    BY DEF IInv, Types, LinkOK
<1>4. wrote' \subseteq Devices /\ sessions # 0
    BY <1>1, NoneYet DEF OwnInv
<1>5. /\ f \in Pushed /\ f = down[d][1] /\ 1 \in DOMAIN down[d]
      /\ down'[d] = Tail(down[d]) /\ down'[e] = down[e]
    BY <1>1, <1>2, <1>3, Taken
<1>6. /\ g \in Data \cup {Nothing} /\ (Keyed(g) <=> Keyed(f)) /\ (Keyed(f) => Val(g) = Val(f))
      /\ \A x : Marked(f, x) => g \in Data /\ g.kind # "PUBLISH" /\ g.arg = x
    BY <1>5, ForwardedIs, ForwardedKeyed
<1>7. mine => Keyed(f) /\ g.arg \in Marks /\ echo[d][g.arg] > 0
  <2>1. mine => g.kind \in {"SET", "DEL"} /\ echo[d][g.arg] > 0
      BY DEF Expected
  <2>2. mine => g \in Data
    <3>1. Nothing.kind \notin {"SET", "DEL"}
        BY DEF Nothing, F
    <3> QED
        BY <1>6, <2>1, <3>1
  <2> QED
      BY <1>6, <2>1, <2>2, DataIs, KeyedIs
<1>8. \A x : Marked(f, x) /\ echo[d][x] > 0 => mine
  <2> SUFFICES ASSUME NEW x, Marked(f, x), echo[d][x] > 0 PROVE mine
      OBVIOUS
  <2>1. g \in Data /\ g.kind # "PUBLISH" /\ g.arg = x
      BY <1>6
  <2>2. g.kind \in {"SET", "DEL"}
      BY <2>1, DataIs
  <2> QED
      BY <2>1, <2>2, Zenon DEF Expected
<1> HIDE DEF f, g, mine, sent
<1>9. /\ wire'[e] = wire[e] /\ echo'[e] = echo[e]
      /\ sent => g \in Data /\ wire'[d] = Append(wire[d], g)
      /\ ~sent => wire'[d] = wire[d]
      /\ ~mine => echo'[d] = echo[d]
    BY <1>1, <1>2, <1>3, <1>6 DEF sent
<1>10. mine => \A x \in Marks : echo'[d][x] = IF x = g.arg THEN echo[d][x] - 1 ELSE echo[d][x]
    BY <1>1, <1>3, <1>7
<1>11. ASSUME Sync, Sync', Ready(d, e), Ready(e, d)
       PROVE  Keeps(d, e)
  <2>1. ~cut
      BY <1>11 DEF Sync
  <2>2. Ready(d, e)'
      BY <1>1, <1>9, <1>11, ReadyStays
  <2>3. Ready(e, d)'
    <3>1. wire[d] # <<>> => wire'[d] # <<>> /\ wire'[d][1] = wire[d][1]
      <4>1. CASE sent
        <5>1. g \in Data \cup {Hello} /\ wire[d] \in Seq(Data \cup {Hello}) /\ wire'[d] = Append(wire[d], g)
            BY <1>3, <1>9, <4>1
        <5> QED
            BY <5>1
      <4>2. CASE ~sent
          BY <1>9, <4>2
      <4> QED
          BY <4>1, <4>2
    <3> QED
        BY <1>1, <1>11, <3>1, Zenon DEF Ready
  <2>4. Source(d)' = Source(d) /\ Source(e)' = Source(e) /\ Holding(e)' = Holding(e)
      BY <1>1 DEF Source, Holding
  <2>5. ASSUME Owns(d, e) PROVE Owns(d, e)'
    <3>1. ~mine
        BY <1>7, <2>5 DEF Owns, NoneBack
    <3>2. NoneBack(d, e)' /\ Owed(e)' /\ Blank(e)'
        BY <1>1, <1>5, <1>9, <2>5, <3>1, NoneBackStays, OwedStays, BlankStays DEF Owns
    <3>3. Way(d, e)'
      <4>1. PICK a1 \in Vals, a2 \in Vals, a3 \in Vals :
              /\ Ends(up[e], store[e], a1) /\ Ends(Holding(e), a1, a2)
              /\ Ends(wire[d], a2, a3) /\ Ends(down[d], a3, Source(d))
          BY <2>5, Zenon DEF Owns, Way
      <4>2. \/ wire'[d] = wire[d] /\ ~Keyed(f)
            \/ \E c \in Data \cup {Hello} : /\ wire'[d] = Append(wire[d], c) /\ (Keyed(c) <=> Keyed(f))
                                            /\ Keyed(c) => Val(c) = Val(f)
        <5>1. CASE sent
            BY <1>6, <1>9, <5>1
        <5>2. CASE ~sent
          <6>1. g = Nothing
              BY <2>1, <3>1, <5>2 DEF sent
          <6> QED
              BY <1>6, <1>9, <5>2, <6>1, KeyedIs
        <5> QED
            BY <5>1, <5>2
      <4>3. Keyed(f) => Val(f) \in Vals
          BY <1>5, KeyedIs
      <4>4. \E b \in Vals : Ends(wire'[d], a2, b) /\ Ends(Tail(down[d]), b, Source(d))
          BY <1>1, <1>3, <4>1, <4>2, <4>3, EndsMoved DEF f
      <4> QED
          BY <1>1, <1>5, <2>4, <4>1, <4>4, Zenon DEF Way
    <3> QED
        BY <3>2, <3>3 DEF Owns
  <2>6. ASSUME Owns(e, d) PROVE Owns(e, d)'
    <3>1. Keyed(f) => mine /\ Marked(f, g.arg)
      <4> SUFFICES ASSUME Keyed(f) PROVE mine /\ Marked(f, g.arg)
          OBVIOUS
      <4>1. f.kind # "REPLY"
          BY <1>5, <2>6 DEF Owns, Blank
      <4> DEFINE x == f.arg
      <4>2. x \in Marks /\ Marked(f, x)
          BY <1>5, <4>1, KeyedIs
      <4>3. g.arg = x
          BY <1>6, <4>2
      <4>4. /\ Count(up[d], x) \in Nat /\ Count(Tail(down[d]), x) \in Nat
            /\ Count(down[d], x) = Count(Tail(down[d]), x) + 1
          BY <1>1, <1>3, <4>2, CountSteps DEF f
      <4>5. /\ Count(up[d], x) + Count(down[d], x) + (IF InHand(d, x) THEN 1 ELSE 0) <= echo[d][x]
            /\ echo[d][x] \in Nat
          BY <1>3, <2>6, <4>2 DEF Owns, Owed
      <4> HIDE DEF x
      <4>6. echo[d][x] > 0
          BY <4>4, <4>5
      <4> QED
          BY <1>8, <4>2, <4>3, <4>6
    <3>2. NoneBack(e, d)'
      <4>1. Unkeyed(wire[d])
          BY <2>6 DEF Owns, NoneBack
      <4>2. sent => ~Keyed(g)
          BY <1>6, <3>1 DEF sent
      <4>3. Unkeyed(wire'[d])
        <5>1. CASE sent
          <6>1. g \in Data \cup {Hello} /\ wire[d] \in Seq(Data \cup {Hello})
              BY <1>3, <1>9, <5>1
          <6> QED
              BY <1>9, <4>1, <4>2, <5>1, <6>1, UnkeyedMoves
        <5>2. CASE ~sent
            BY <1>9, <4>1, <5>2
        <5> QED
            BY <5>1, <5>2
      <4> QED
          BY <1>1, <1>9, <2>4, <2>6, <4>3, Zenon DEF Owns, NoneBack
    <3>3. Blank(d)'
      <4>1. \A i \in DOMAIN down'[d] : i + 1 \in DOMAIN down[d] /\ down'[d][i] = down[d][i + 1]
          BY <1>1, <1>3, <1>5, Taken
      <4> QED
          BY <1>1, <2>6, <4>1, Zenon DEF Owns, Blank
    <3>4. Owed(d)'
      <4> SUFFICES ASSUME NEW x \in Marks
                   PROVE  Count(up'[d], x) + Count(down'[d], x) + (IF InHand(d, x)' THEN 1 ELSE 0) <= echo'[d][x]
          BY Zenon DEF Owed
      <4> DEFINE a == Count(up[d], x)
                 b == Count(down[d], x)
                 v == Count(down'[d], x)
                 n == echo[d][x]
                 m == echo'[d][x]
                 q == IF InHand(d, x) THEN 1 ELSE 0
      <4>1. n \in Nat /\ a + b + q <= n
          BY <1>3, <2>6 DEF Owns, Owed
      <4>2. /\ a \in Nat /\ b \in Nat /\ v \in Nat /\ q \in Nat
            /\ b = v + (IF Marked(f, x) THEN 1 ELSE 0)
          BY <1>1, <1>3, <1>5, CountSteps DEF f
      <4>3. q = (IF InHand(d, x)' THEN 1 ELSE 0) /\ a = Count(up'[d], x)
          BY <1>1, Zenon DEF InHand
      <4>4. m = IF Marked(f, x) THEN n - 1 ELSE n
        <5>1. CASE Marked(f, x)
          <6>1. Keyed(f) /\ g.arg = x
              BY <1>6, <5>1 DEF Keyed, Marked
          <6> QED
              BY <1>10, <3>1, <5>1, <6>1
        <5>2. CASE ~Marked(f, x)
          <6>1. CASE mine
            <7>1. x # g.arg
                BY <1>7, <3>1, <5>2, <6>1
            <7> QED
                BY <1>10, <5>2, <6>1, <7>1
          <6>2. CASE ~mine
              BY <1>9, <5>2, <6>2
          <6> QED
              BY <6>1, <6>2
        <5> QED
            BY <5>1, <5>2
      <4> HIDE DEF a, b, v, n, m, q
      <4>5. a + v + q <= m
        <5>1. CASE Marked(f, x)
            BY <4>1, <4>2, <4>4, <5>1
        <5>2. CASE ~Marked(f, x)
            BY <4>1, <4>2, <4>4, <5>2
        <5> QED
            BY <5>1, <5>2
      <4> QED
          BY <4>3, <4>5, Zenon DEF v, m
    <3>5. Way(e, d)'
        BY <1>1, <1>5, <1>9, <2>4, <2>6, WayStays DEF Owns
    <3> QED
        BY <3>2, <3>3, <3>4, <3>5 DEF Owns
  <2> QED
      BY <2>2, <2>3, <2>5, <2>6 DEF Keeps
<1>12. \A k \in Devices : local'[k] = "recv" => local[k] = "recv"
    BY <1>1, <1>3
<1> QED
    BY <1>1, <1>2, <1>4, <1>11, <1>12, OwnStep

\* A queue of one frame.
LEMMA OneFrame ==
  ASSUME NEW S, NEW f \in S
  PROVE  /\ <<f>> \in Seq(S) /\ <<f>> # <<>> /\ <<f>> = Append(<<>>, f)
         /\ DOMAIN <<f>> = {1} /\ <<f>>[1] = f /\ Head(<<f>>) = f /\ Tail(<<f>>) = <<>>
OBVIOUS

\* The copies that will come back, where the peer loop has none to send.
LEMMA OwedIdle ==
  ASSUME NEW e, Owed(e), up'[e] = up[e], down'[e] = down[e], echo'[e] = echo[e],
         \A x \in Marks : InHand(e, x)' <=> InHand(e, x)
  PROVE  Owed(e)'
<1> SUFFICES ASSUME NEW x \in Marks
             PROVE  Count(up'[e], x) + Count(down'[e], x) + (IF InHand(e, x)' THEN 1 ELSE 0) <= echo'[e][x]
    BY Zenon DEF Owed
<1>1. (IF InHand(e, x)' THEN 1 ELSE 0) = IF InHand(e, x) THEN 1 ELSE 0
    BY Zenon
<1>2. Count(up[e], x) + Count(down[e], x) + (IF InHand(e, x) THEN 1 ELSE 0) <= echo[e][x]
    BY Zenon DEF Owed
<1> QED
    BY <1>1, <1>2, Zenon

\* The peer's hello says nothing of the key.
LEMMA PeerHelloOwn ==
  ASSUME IInv, OwnInv, NEW d \in Devices, PeerHello(d)
  PROVE  OwnInv'
<1>1. PICK e \in Devices : e = Other(d) /\ e # d
    BY OtherIs
<1>2. /\ peer[d] = "hello" /\ wire[e] # <<>> /\ wire' = [wire EXCEPT ![e] = Tail(@)]
      /\ peer' = [peer EXCEPT ![d] = IF d \in setup.accepts THEN Loop(d) ELSE "leave"]
      /\ setup' = setup /\ store' = store /\ watching' = watching /\ up' = up
      /\ down' = down /\ open' = open /\ cut' = cut /\ local' = local
      /\ hand' = hand /\ echo' = echo /\ wrote' = wrote /\ sessions' = sessions
    BY <1>1 DEF PeerHello, daemons, socks, bounds
<1>3. /\ wire \in [Devices -> Seq(Data \cup {Hello})]
      /\ peer \in [Devices -> {"off", "hello", "recv", "expect", "send", "leave", "done"}]
    BY DEF IInv, Types, LinkOK
<1>4. wrote' \subseteq Devices /\ sessions # 0
    BY <1>2, NoneYet DEF OwnInv
<1>5. /\ peer'[d] \in {"recv", "leave"} /\ peer'[e] = peer[e]
      /\ wire'[e] = Tail(wire[e]) /\ wire'[d] = wire[d] /\ Head(wire[e]) = wire[e][1]
    BY <1>1, <1>2, <1>3, LoopIs
<1>6. ASSUME Sync, Sync', Ready(d, e), Ready(e, d)
      PROVE  Keeps(d, e)
  <2>1. Ready(e, d)'
      BY <1>2, <1>5, <1>6, ReadyStays
  <2>2. Ready(d, e)'
      BY <1>2, <1>5, <1>6 DEF Ready
  <2>3. Holding(d) = <<>> /\ Holding(d)' = <<>> /\ \A x \in Marks : ~InHand(d, x) /\ ~InHand(d, x)'
      BY <1>2, <1>5 DEF Holding, InHand
  <2>4. ~Keyed(Head(wire[e]))
      BY <1>2, <1>5, <1>6, KeyedIs, Zenon DEF Ready
  <2>5. Source(d)' = Source(d) /\ Source(e)' = Source(e)
      BY <1>2 DEF Source
  <2>6. ASSUME Owns(d, e) PROVE Owns(d, e)'
    <3>1. Owed(e)' /\ Blank(e)' /\ Way(d, e)'
        BY <1>2, <1>5, <2>5, <2>6, OwedStays, BlankStays, WayStays DEF Owns
    <3>2. Unkeyed(wire'[e])
        BY <1>2, <1>3, <1>5, <2>6, UnkeyedMoves DEF Owns, NoneBack
    <3> QED
        BY <1>2, <2>3, <2>6, <3>1, <3>2 DEF Owns, NoneBack
  <2>7. ASSUME Owns(e, d) PROVE Owns(e, d)'
    <3>1. NoneBack(e, d)' /\ Owed(d)' /\ Blank(d)'
        BY <1>2, <1>5, <2>3, <2>7, NoneBackStays, OwedIdle, BlankStays DEF Owns
    <3>2. Way(e, d)'
      <4>1. PICK a1 \in Vals, a2 \in Vals, a3 \in Vals :
              /\ Ends(up[d], store[d], a1) /\ Ends(Holding(d), a1, a2)
              /\ Ends(wire[e], a2, a3) /\ Ends(down[e], a3, Source(e))
          BY <2>7, Zenon DEF Owns, Way
      <4>2. Ends(wire'[e], a2, a3)
          BY <1>2, <1>3, <1>5, <2>4, <4>1, EndsTaken
      <4> QED
          BY <1>2, <2>3, <2>5, <4>1, <4>2, Zenon DEF Way
    <3> QED
        BY <3>1, <3>2 DEF Owns
  <2> QED
      BY <2>1, <2>2, <2>6, <2>7 DEF Keeps
<1>7. \A k \in Devices : peer'[k] \in {"hello", "recv", "expect", "send"} =>
                            peer[k] \in {"hello", "recv", "expect", "send"}
    BY <1>2, <1>3
<1> QED
    BY <1>1, <1>2, <1>4, <1>6, <1>7, OwnStep

\* The peer loop takes what the owner's link sent, and at the owner finds
\* nothing of the key.
LEMMA PeerFrameOwn ==
  ASSUME IInv, OwnInv, NEW d \in Devices, PeerFrame(d)
  PROVE  OwnInv'
<1>1. PICK e \in Devices : e = Other(d) /\ e # d
    BY OtherIs
<1> DEFINE f == Head(wire[e])
           p == IF ~Wanted(d, f) THEN Loop(d) ELSE IF f.kind = "PUBLISH" THEN "send" ELSE "expect"
           r == IF Wanted(d, f) THEN f ELSE Nothing
<1>2. /\ peer[d] = "recv" /\ wire[e] # <<>> /\ wire' = [wire EXCEPT ![e] = Tail(@)]
      /\ hand' = [hand EXCEPT ![d] = r] /\ peer' = [peer EXCEPT ![d] = p]
      /\ setup' = setup /\ store' = store /\ watching' = watching /\ up' = up
      /\ down' = down /\ open' = open /\ cut' = cut /\ local' = local
      /\ echo' = echo /\ wrote' = wrote /\ sessions' = sessions
    BY <1>1 DEF PeerFrame, daemons, socks, bounds
<1>3. /\ wire \in [Devices -> Seq(Data \cup {Hello})] /\ hand \in [Devices -> Data \cup {Nothing}]
      /\ peer \in [Devices -> {"off", "hello", "recv", "expect", "send", "leave", "done"}]
    BY DEF IInv, Types, LinkOK
<1>4. wrote' \subseteq Devices /\ sessions # 0
    BY <1>2, NoneYet DEF OwnInv
<1>5. f \in Data
  <2>1. \A i \in DOMAIN wire[e] : wire[e][i] \in Data
      BY <1>1, <1>2 DEF IInv, WireInv, WireOf
  <2>2. f = wire[e][1] /\ 1 \in DOMAIN wire[e]
      BY <1>2, <1>3, Taken
  <2> QED
      BY <2>1, <2>2, Zenon
<1>6. /\ ~Wanted(d, f) => p \in {"recv", "leave"}
      /\ Wanted(d, f) => r = f /\ p = IF f.kind = "PUBLISH" THEN "send" ELSE "expect"
    BY LoopIs
<1> HIDE DEF f, p, r
<1>7. /\ peer'[d] = p /\ peer'[e] = peer[e] /\ hand'[d] = r /\ hand'[e] = hand[e]
      /\ wire'[e] = Tail(wire[e]) /\ wire'[d] = wire[d]
    BY <1>1, <1>2, <1>3
<1>8. ASSUME Sync, Sync', Ready(d, e), Ready(e, d)
      PROVE  Keeps(d, e)
  <2>1. Ready(e, d)'
      BY <1>2, <1>7, <1>8, ReadyStays
  <2>2. p # "hello"
      BY <1>6
  <2>3. Ready(d, e)'
      BY <1>2, <1>7, <1>8, <2>2 DEF Ready
  <2>4. Holding(d) = <<>> /\ Holding(d)' = IF Wanted(d, f) THEN <<f>> ELSE <<>>
      BY <1>2, <1>6, <1>7 DEF Holding
  <2>5. \A x \in Marks : ~InHand(d, x) /\ ~InHand(d, x)'
    <3>1. p = "send" => r.kind = "PUBLISH"
        BY <1>6
    <3> QED
        BY <1>2, <1>7, <3>1 DEF InHand, Marked
  <2>6. ~Wanted(d, f) => ~Keyed(f)
    <3>1. KEY \in Carries(d)
        BY <1>8 DEF Sync
    <3>2. ~Wanted(d, f) => f.kind = "PUBLISH"
        BY <3>1 DEF Wanted
    <3> QED
        BY <1>5, <3>2, KeyedIs
  <2>7. Source(d)' = Source(d) /\ Source(e)' = Source(e)
      BY <1>2 DEF Source
  <2>8. <<f>> = Append(<<>>, f) /\ DOMAIN <<f>> = {1} /\ <<f>>[1] = f
      BY <1>5, OneFrame
  <2>9. ASSUME Owns(d, e) PROVE Owns(d, e)'
    <3>1. Owed(e)' /\ Blank(e)' /\ Way(d, e)'
        BY <1>2, <1>7, <2>7, <2>9, OwedStays, BlankStays, WayStays DEF Owns
    <3>2. Unkeyed(wire'[e]) /\ ~Keyed(f)
        BY <1>2, <1>3, <1>7, <2>9, UnkeyedMoves DEF Owns, NoneBack, f
    <3>3. Unkeyed(<<f>>) /\ Unkeyed(<<>>)
      <4>1. DOMAIN <<>> = {}
          OBVIOUS
      <4> QED
          BY <2>8, <3>2, <4>1 DEF Unkeyed
    <3>4. Unkeyed(Holding(d)')
        BY <2>4, <3>3
    <3>5. Unkeyed(Holding(d))'
        BY <3>4, Zenon DEF Unkeyed
    <3> QED
        BY <1>2, <2>9, <3>1, <3>2, <3>5, Zenon DEF Owns, NoneBack
  <2>10. ASSUME Owns(e, d) PROVE Owns(e, d)'
    <3>1. NoneBack(e, d)' /\ Owed(d)' /\ Blank(d)'
        BY <1>2, <1>7, <2>5, <2>10, NoneBackStays, OwedIdle, BlankStays DEF Owns
    <3>2. Way(e, d)'
      <4>1. PICK a1 \in Vals, a2 \in Vals, a3 \in Vals :
              /\ Ends(up[d], store[d], a1) /\ Ends(Holding(d), a1, a2)
              /\ Ends(wire[e], a2, a3) /\ Ends(down[e], a3, Source(e))
          BY <2>10, Zenon DEF Owns, Way
      <4> DEFINE s == Holding(d)'
      <4>2. \/ s = <<>> /\ ~Keyed(f)
            \/ \E c \in Data : s = Append(<<>>, c) /\ (Keyed(c) <=> Keyed(f)) /\ (Keyed(c) => Val(c) = Val(f))
        <5>1. CASE Wanted(d, f)
            BY <1>5, <2>4, <2>8, <5>1
        <5>2. CASE ~Wanted(d, f)
            BY <2>4, <2>6, <5>2
        <5> QED
            BY <5>1, <5>2
      <4>3. Keyed(f) => Val(f) \in Vals
          BY <1>5, KeyedIs
      <4>4. <<>> \in Seq(Data) /\ Ends(<<>>, a1, a2)
          BY <2>4, <4>1
      <4> HIDE DEF s
      <4>5. \E b \in Vals : Ends(s, a1, b) /\ Ends(Tail(wire[e]), b, a3)
          BY <1>2, <1>3, <4>1, <4>2, <4>3, <4>4, EndsMoved DEF f
      <4>6. \E b \in Vals : Ends(Holding(d)', a1, b) /\ Ends(wire'[e], b, a3)
          BY <1>7, <4>5, Zenon DEF s
      <4> QED
          BY <1>2, <2>7, <4>1, <4>6, Zenon DEF Way
    <3> QED
        BY <3>1, <3>2 DEF Owns
  <2> QED
      BY <2>1, <2>3, <2>9, <2>10 DEF Keeps
<1>9. \A k \in Devices : peer'[k] \in {"hello", "recv", "expect", "send"} =>
                            peer[k] \in {"hello", "recv", "expect", "send"}
    BY <1>2, <1>3
<1> QED
    BY <1>1, <1>2, <1>4, <1>8, <1>9, OwnStep

\* The copy of what is about to be applied is expected.
LEMMA ExpectEchoOwn ==
  ASSUME IInv, OwnInv, NEW d \in Devices, ExpectEcho(d, "expect", "send")
  PROVE  OwnInv'
<1> DEFINE y == hand[d].arg
<1>1. /\ peer[d] = "expect" /\ peer' = [peer EXCEPT ![d] = "send"]
      /\ echo' = [echo EXCEPT ![d][y] = @ + 1]
      /\ setup' = setup /\ store' = store /\ watching' = watching /\ up' = up
      /\ down' = down /\ open' = open /\ wire' = wire /\ cut' = cut /\ local' = local
      /\ hand' = hand /\ wrote' = wrote /\ sessions' = sessions
    BY DEF ExpectEcho, daemons, socks, bounds
<1>2. PICK e \in Devices : e = Other(d) /\ e # d
    BY OtherIs
<1>3. /\ Types /\ echo \in [Devices -> [Marks -> Nat]]
      /\ peer \in [Devices -> {"off", "hello", "recv", "expect", "send", "leave", "done"}]
    BY DEF IInv, Types, LinkOK
<1>4. wrote' \subseteq Devices /\ sessions # 0
    BY <1>1, NoneYet DEF OwnInv
<1>5. hand[d] \in Data /\ hand[d].kind # "PUBLISH"
    BY <1>1 DEF IInv, ThreadInv, ThreadOf
<1>6. y \in Marks /\ Keyed(hand[d]) /\ \A x : Marked(hand[d], x) <=> x = y
  <2>1. y \in Marks /\ Keyed(hand[d]) /\ hand[d].kind \in {"SET", "DEL"}
      BY <1>5, DataIs, KeyedIs
  <2> QED
      BY <2>1 DEF Marked
<1> HIDE DEF y
<1>7. /\ peer'[d] = "send" /\ peer'[e] = peer[e] /\ echo'[e] = echo[e]
      /\ \A x \in Marks : echo'[d][x] = IF x = y THEN echo[d][x] + 1 ELSE echo[d][x]
    BY <1>1, <1>2, <1>3, <1>6
<1>8. ASSUME Sync, Sync', Ready(d, e), Ready(e, d)
      PROVE  Keeps(d, e)
  <2>1. Ready(e, d)'
      BY <1>1, <1>7, <1>8, ReadyStays
  <2>2. Ready(d, e)'
      BY <1>1, <1>7, <1>8 DEF Ready
  <2>3. Holding(d) = <<hand[d]>> /\ Holding(d)' = Holding(d)
      BY <1>1, <1>7 DEF Holding
  <2>4. ~Owns(d, e)
    <3>1. DOMAIN <<hand[d]>> = {1} /\ <<hand[d]>>[1] = hand[d]
        BY <1>5, OneFrame
    <3> QED
        BY <1>6, <2>3, <3>1 DEF Owns, NoneBack, Unkeyed
  <2>5. ASSUME Owns(e, d) PROVE Owns(e, d)'
    <3>1. NoneBack(e, d)' /\ Blank(d)'
        BY <1>1, <1>7, <2>5, NoneBackStays, BlankStays DEF Owns
    <3>2. Source(e)' = Source(e)
        BY <1>1 DEF Source
    <3>3. Way(e, d)'
        BY <1>1, <2>3, <2>5, <3>2, Zenon DEF Owns, Way
    <3>4. Owed(d)'
      <4> SUFFICES ASSUME NEW x \in Marks
                   PROVE  Count(up'[d], x) + Count(down'[d], x) + (IF InHand(d, x)' THEN 1 ELSE 0) <= echo'[d][x]
          BY Zenon DEF Owed
      <4> DEFINE a == Count(up[d], x)
                 b == Count(down[d], x)
                 n == echo[d][x]
      <4>1. ~InHand(d, x) /\ (InHand(d, x)' <=> x = y)
          BY <1>1, <1>6, <1>7 DEF InHand
      <4>2. n \in Nat /\ a + b + 0 <= n
          BY <1>3, <2>5, <4>1 DEF Owns, Owed
      <4>3. a \in Nat /\ b \in Nat
          BY <1>3, CountSteps
      <4>4. /\ a = Count(up'[d], x) /\ b = Count(down'[d], x)
            /\ echo'[d][x] = IF x = y THEN n + 1 ELSE n
          BY <1>1, <1>7, Zenon
      <4> HIDE DEF a, b, n
      <4>5. a + b + (IF x = y THEN 1 ELSE 0) <= IF x = y THEN n + 1 ELSE n
          BY <4>2, <4>3
      <4> QED
          BY <4>1, <4>4, <4>5, Zenon
    <3> QED
        BY <3>1, <3>3, <3>4 DEF Owns
  <2> QED
      BY <2>1, <2>2, <2>4, <2>5 DEF Keeps
<1>9. \A k \in Devices : peer'[k] \in {"hello", "recv", "expect", "send"} =>
                            peer[k] \in {"hello", "recv", "expect", "send"}
    BY <1>1, <1>3
<1> QED
    BY <1>1, <1>2, <1>4, <1>8, <1>9, OwnStep

\* What is in hand is sent to the daemon.
LEMMA SendLocalOwn ==
  ASSUME IInv, OwnInv, NEW d \in Devices, SendLocal(d, "send", Loop(d), Nothing)
  PROVE  OwnInv'
<1> DEFINE f == hand[d]
<1>1. /\ peer[d] = "send" /\ peer' = [peer EXCEPT ![d] = Loop(d)]
      /\ up' = (IF d \in open THEN [up EXCEPT ![d] = Append(@, f)] ELSE up)
      /\ hand' = [hand EXCEPT ![d] = Nothing]
      /\ setup' = setup /\ store' = store /\ watching' = watching
      /\ down' = down /\ open' = open /\ wire' = wire /\ cut' = cut /\ local' = local
      /\ echo' = echo /\ wrote' = wrote /\ sessions' = sessions
    BY DEF SendLocal, daemons, bounds
<1>2. PICK e \in Devices : e = Other(d) /\ e # d
    BY OtherIs
<1>3. /\ Types /\ up \in [Devices -> Seq(Data \cup {Ask})] /\ hand \in [Devices -> Data \cup {Nothing}]
      /\ peer \in [Devices -> {"off", "hello", "recv", "expect", "send", "leave", "done"}]
      /\ echo \in [Devices -> [Marks -> Nat]]
    BY DEF IInv, Types, LinkOK
<1>4. wrote' \subseteq Devices /\ sessions # 0
    BY <1>1, NoneYet DEF OwnInv
<1>5. f \in Data /\ f # Ask
    BY <1>1, DataIs DEF IInv, ThreadInv, ThreadOf
<1>6. peer'[d] \in {"recv", "leave"} /\ peer'[e] = peer[e] /\ hand'[e] = hand[e]
    BY <1>1, <1>2, <1>3, LoopIs
<1>7. ASSUME Sync, Sync', Ready(d, e), Ready(e, d)
      PROVE  Keeps(d, e)
  <2>1. d \in open
      BY <1>7 DEF Sync
  <2>2. up'[d] = Append(up[d], f) /\ up'[e] = up[e]
      BY <1>1, <1>2, <1>3, <2>1
  <2>3. Holding(d) = <<f>> /\ Holding(d)' = <<>>
      BY <1>1, <1>6 DEF Holding
  <2> HIDE DEF f
  <2>4. up[d] \in Seq(Data \cup {Ask}) /\ f \in Data \cup {Ask}
      BY <1>3, <1>5
  <2>5. Ready(e, d)'
      BY <1>1, <1>6, <1>7, <2>2, ReadyStays
  <2>6. Ready(d, e)'
    <3>1. \A i \in DOMAIN up'[d] : up'[d][i] = f \/ (i \in DOMAIN up[d] /\ up'[d][i] = up[d][i])
        BY <2>2, <2>4, Added
    <3>2. peer'[d] # "hello"
        BY <1>6
    <3> QED
        BY <1>1, <1>5, <1>7, <3>1, <3>2, Zenon DEF Ready
  <2>7. Source(d)' = Source(d) /\ Source(e)' = Source(e)
      BY <1>1 DEF Source
  <2>8. /\ <<f>> \in Seq(Data) /\ <<f>> # <<>> /\ DOMAIN <<f>> = {1} /\ <<f>>[1] = f
        /\ Head(<<f>>) = f /\ Tail(<<f>>) = <<>>
      BY <1>5, OneFrame
  <2>9. ASSUME Owns(d, e) PROVE Owns(d, e)'
    <3>1. Owed(e)' /\ Blank(e)' /\ Way(d, e)'
        BY <1>1, <1>6, <2>2, <2>7, <2>9, OwedStays, BlankStays, WayStays DEF Owns
    <3>2. ~Keyed(f)
        BY <2>3, <2>8, <2>9 DEF Owns, NoneBack, Unkeyed
    <3>3. Unkeyed(up'[d])
        BY <2>2, <2>4, <2>9, <3>2, UnkeyedMoves DEF Owns, NoneBack
    <3>4. Unkeyed(<<>>)
        BY NoFrames DEF Unkeyed
    <3>5. Unkeyed(Holding(d))'
        BY <2>3, <3>4, Zenon DEF Unkeyed
    <3> QED
        BY <1>1, <2>9, <3>1, <3>3, <3>5, Zenon DEF Owns, NoneBack
  <2>10. ASSUME Owns(e, d) PROVE Owns(e, d)'
    <3>1. NoneBack(e, d)' /\ Blank(d)'
        BY <1>1, <1>6, <2>2, <2>10, NoneBackStays, BlankStays DEF Owns
    <3>2. Owed(d)'
      <4> SUFFICES ASSUME NEW x \in Marks
                   PROVE  Count(up'[d], x) + Count(down'[d], x) + (IF InHand(d, x)' THEN 1 ELSE 0) <= echo'[d][x]
          BY Zenon DEF Owed
      <4> DEFINE a == Count(up[d], x)
                 b == Count(down[d], x)
                 u == Count(up'[d], x)
                 n == echo[d][x]
                 q == IF Marked(f, x) THEN 1 ELSE 0
      <4>1. (InHand(d, x) <=> Marked(f, x)) /\ ~InHand(d, x)'
          BY <1>1, <1>6 DEF InHand, f
      <4>2. n \in Nat /\ a + b + q <= n
          BY <1>3, <2>10, <4>1 DEF Owns, Owed
      <4>3. a \in Nat /\ b \in Nat /\ q \in Nat /\ u = a + q
          BY <1>3, <1>5, <2>2, CountSteps
      <4>4. b = Count(down'[d], x) /\ echo'[d][x] = n
          BY <1>1, Zenon
      <4> HIDE DEF a, b, n, u, q
      <4>5. u + b + 0 <= n
          BY <4>2, <4>3
      <4> QED
          BY <4>1, <4>4, <4>5, Zenon DEF u
    <3>3. Way(e, d)'
      <4>1. PICK a1 \in Vals, a2 \in Vals, a3 \in Vals :
              /\ Ends(up[d], store[d], a1) /\ Ends(Holding(d), a1, a2)
              /\ Ends(wire[e], a2, a3) /\ Ends(down[e], a3, Source(e))
          BY <2>10, Zenon DEF Owns, Way
      <4>2. Keyed(f) => Val(f) \in Vals
          BY <1>5, KeyedIs
      <4>3. Ends(<<f>>, a1, a2)
          BY <2>3, <4>1
      <4>4. \E b \in Vals : Ends(up'[d], store[d], b) /\ Ends(<<>>, b, a2)
        <5> DEFINE t == <<f>>
        <5>1. t \in Seq(Data) /\ t # <<>> /\ Head(t) = f /\ Tail(t) = <<>> /\ Ends(t, a1, a2)
            BY <2>8, <4>3
        <5> HIDE DEF t
        <5>2. \E b \in Vals : Ends(up'[d], store[d], b) /\ Ends(Tail(t), b, a2)
            BY <2>2, <2>4, <4>1, <4>2, <5>1, EndsMoved
        <5> QED
            BY <5>1, <5>2
      <4> QED
          BY <1>1, <2>3, <2>7, <4>1, <4>4, Zenon DEF Way
    <3> QED
        BY <3>1, <3>2, <3>3 DEF Owns
  <2> QED
      BY <2>5, <2>6, <2>9, <2>10 DEF Keeps
<1>8. \A k \in Devices : peer'[k] \in {"hello", "recv", "expect", "send"} =>
                            peer[k] \in {"hello", "recv", "expect", "send"}
    BY <1>1, <1>3
<1> QED
    BY <1>1, <1>2, <1>4, <1>7, <1>8, OwnStep

\* A link shuts its connections down.
LEMMA StopOwn ==
  ASSUME IInv, OwnInv, NEW d \in Devices, Stop(d), wrote' = wrote, sessions' = sessions
  PROVE  OwnInv'
<1>1. cut' = TRUE /\ watching' = watching /\ down' = down /\ store' = store
    BY DEF Stop, daemons
<1>2. ~Sync'
    BY <1>1 DEF Sync
<1> QED
    BY <1>1, <1>2, OwnLost

\* A process is gone.
LEMMA ExitOwn ==
  ASSUME IInv, OwnInv, NEW d \in Devices, Exit(d)
  PROVE  OwnInv'
<1>1. main[d] = "run" /\ local' = [local EXCEPT ![d] = "off"] /\ sessions' = sessions /\ wrote' = wrote
    BY DEF Exit, bounds
<1>2. sessions # 0
    BY <1>1, NoneYet
<1>3. local'[d] = "off"
    BY <1>1 DEF IInv, Types, LinkOK
<1>4. ~Sync'
    BY <1>3 DEF Sync
<1> QED
    BY <1>1, <1>2, <1>4, OwnLost

\* local_loop ends, and with it the connection to the peer.
LEMMA LocalEndOwn ==
  ASSUME IInv, OwnInv, NEW d \in Devices, LocalEnd(d)
  PROVE  OwnInv'
<1>1. /\ cut' = TRUE /\ watching' = watching /\ down' = down /\ store' = store
      /\ sessions' = sessions /\ wrote' = wrote
    BY DEF LocalEnd, daemons, socks, bounds
<1>2. ~Sync'
    BY <1>1 DEF Sync
<1> QED
    BY <1>1, <1>2, OwnLost

\* peer_loop ends, and with it the connection to the daemon.
LEMMA PeerEndOwn ==
  ASSUME IInv, OwnInv, NEW d \in Devices, PeerEnd(d)
  PROVE  OwnInv'
<1>1. /\ open' = open \ {d} /\ watching' = watching /\ down' = down /\ store' = store
      /\ sessions' = sessions /\ wrote' = wrote
    BY DEF PeerEnd, daemons, bounds
<1>2. ~Sync'
    BY <1>1 DEF Sync
<1> QED
    BY <1>1, <1>2, OwnLost

\* A connection is lost.
LEMMA HangUpOwn ==
  ASSUME IInv, OwnInv, HangUp
  PROVE  OwnInv'
<1>1. /\ watching' = watching /\ down' = down /\ store' = store
      /\ sessions' = sessions /\ wrote' = wrote
    BY DEF HangUp, Fault, daemons
<1>2. (\E d \in open : open' = open \ {d}) \/ cut' = TRUE
    BY DEF HangUp
<1>3. open \subseteq Devices
    BY DEF IInv, Types, LinkOK
<1>4. ~Sync'
    BY <1>2, <1>3 DEF Sync
<1> QED
    BY <1>1, <1>4, OwnLost

\* What a dead link left is read in a later session.
LEMMA ServeOldOwn ==
  ASSUME IInv, OwnInv, NEW d \in Devices, ServeOld(d)
  PROVE  OwnInv'
<1>1. old[d] # <<>> /\ sessions' = sessions /\ wrote' = wrote
    BY Zenon DEF ServeOld, bounds
<1>2. sessions \in Nat /\ (sessions <= 1 => old[d] = <<>>)
    BY DEF IInv, Types, UpInv, UpOf
<1>3. sessions # 0 /\ sessions # 1
    BY <1>1, <1>2
<1>4. ~Sync'
    BY <1>1, <1>3 DEF Sync
<1> QED
    BY <1>1, <1>3, <1>4, OwnLost

\* The links start: the daemon of a device that has not written has no value,
\* and nothing of the key is under way.
LEMMA EstablishOwn ==
  ASSUME IInv, OwnInv, Establish
  PROVE  OwnInv'
<1>1. /\ \A d \in Devices : main[d] = "off"
      /\ sessions' = sessions + 1 /\ wire' = [d \in Devices |-> <<Hello>>] /\ up' = [d \in Devices |-> <<Ask>>]
      /\ peer' = [d \in Devices |-> "hello"] /\ store' = store /\ watching' = [d \in Devices |-> FALSE]
      /\ down' = down /\ echo' = echo /\ wrote' = wrote
    BY Zenon DEF Establish, Hello, Ask
<1>2. sessions \in Nat /\ wrote' \subseteq Devices
    BY <1>1 DEF IInv, Types, OwnInv
<1>3. CASE sessions # 0
  <2>1. sessions' # 0 /\ sessions' # 1
      BY <1>1, <1>2, <1>3
  <2> QED
      BY <1>2, <2>1 DEF OwnInv, Sync
<1>4. CASE sessions = 0
  <2>1. sessions' # 0
      BY <1>1, <1>4
  <2>2. \A d \in Devices : down[d] = <<>> /\ (d \notin wrote => store[d] = NONE)
      BY <1>4, Zenon DEF OwnInv
  <2>3. /\ <<Ask>> = Append(<<>>, Ask) /\ DOMAIN <<Ask>> = {1} /\ <<Ask>>[1] = Ask
        /\ <<Hello>> # <<>> /\ DOMAIN <<Hello>> = {1} /\ <<Hello>>[1] = Hello
      BY OneFrame
  <2>4. Unkeyed(<<Ask>>) /\ Unkeyed(<<Hello>>) /\ Unkeyed(<<>>)
    <3>1. \A i : i \in {1} => i = 1
        OBVIOUS
    <3>2. DOMAIN <<>> = {}
        OBVIOUS
    <3> QED
        BY <2>3, <3>1, <3>2, KeyedIs, Zenon DEF Unkeyed
  <2>5. ASSUME NEW d \in Devices
        PROVE  Ready(d, Other(d))' /\ (wrote' \subseteq {d} => Owns(d, Other(d))')
    <3>1. PICK e \in Devices : e = Other(d) /\ e # d
        BY OtherIs
    <3>2. \A k \in Devices : /\ up'[k] = <<Ask>> /\ wire'[k] = <<Hello>> /\ peer'[k] = "hello" /\ Holding(k)' = <<>>
                             /\ down'[k] = <<>> /\ ~watching'[k]
        BY <1>1, <2>2 DEF Holding
    <3>3. Ready(d, e)'
      <4>1. \A i \in DOMAIN <<Ask>> : i = 1
          BY <2>3
      <4> QED
          BY <2>3, <3>1, <3>2, <4>1, Zenon DEF Ready
    <3>4. ASSUME wrote' \subseteq {d} PROVE Owns(d, e)'
      <4>1. \A k \in Devices : \A x \in Marks : echo'[k][x] = 0
          BY <1>1, Zenon DEF IInv, ThreadInv, ThreadOf
      <4>2. NoneBack(d, e)'
          BY <2>4, <3>1, <3>2, <4>1, Zenon DEF NoneBack, Unkeyed
      <4>3. Owed(e)'
        <5> SUFFICES ASSUME NEW x \in Marks
                     PROVE  Count(up'[e], x) + Count(down'[e], x) + (IF InHand(e, x)' THEN 1 ELSE 0) <= echo'[e][x]
            BY Zenon DEF Owed
        <5>1. ~InHand(e, x)'
            BY <3>2 DEF InHand
        <5>2. Count(<<>>, x) = 0
            BY CountNone
        <5>3. Count(<<Ask>>, x) = 0
          <6>1. <<>> \in Seq({Ask}) /\ Ask \in {Ask} /\ ~Marked(Ask, x)
              BY KeyedIs, NoFrames
          <6>2. Count(Append(<<>>, Ask), x) = Count(<<>>, x) + 0
              BY <6>1, CountAdded
          <6> QED
              BY <2>3, <5>2, <6>2
        <5> QED
            BY <3>2, <4>1, <5>1, <5>2, <5>3
      <4>4. store'[e] = NONE
          BY <1>1, <2>2, <3>1, <3>4
      <4>5. Blank(e)'
        <5>1. DOMAIN <<>> = {}
            OBVIOUS
        <5> QED
            BY <3>2, <4>4, <5>1 DEF Blank
      <4>6. Way(d, e)'
        <5>1. Source(d)' = NONE /\ NONE \in Vals
            BY <3>2 DEF Source, Vals
        <5>2. Ends(<<Ask>>, NONE, NONE) /\ Ends(<<>>, NONE, NONE) /\ Ends(<<Hello>>, NONE, NONE)
            BY <2>4, EndsUnkeyed
        <5> QED
            BY <3>1, <3>2, <4>4, <5>1, <5>2, Zenon DEF Way
      <4> QED
          BY <4>2, <4>3, <4>5, <4>6 DEF Owns
    <3> QED
        BY <3>1, <3>3, <3>4
  <2> QED
      BY <1>2, <2>1, <2>5, Zenon DEF OwnInv
<1> QED
    BY <1>3, <1>4

\* Before the links are started only the owner has a value.
LEMMA InitOwn ==
  ASSUME Init
  PROVE  OwnInv
<1>1. PICK v \in Values : store = [d \in Devices |-> IF d = setup.owner THEN v ELSE NONE]
    BY DEF Init
<1>2. /\ wrote = Devices \cap {setup.owner} /\ watching = [d \in Devices |-> FALSE]
      /\ down = [d \in Devices |-> <<>>] /\ cut = TRUE /\ sessions = 0
    BY DEF Init
<1>3. ~Sync
    BY <1>2 DEF Sync
<1>4. \A d \in Devices : ~watching[d] /\ down[d] = <<>> /\ (d \notin wrote => store[d] = NONE)
    BY <1>1, <1>2
<1> QED
    BY <1>2, <1>3, <1>4 DEF OwnInv

\* Every step keeps the key's way.
LEMMA NextOwn ==
  ASSUME IInv, OwnInv, [Next]_vars
  PROVE  OwnInv'
<1>1. CASE UNCHANGED vars
  <2>1. /\ setup' = setup /\ store' = store /\ watching' = watching /\ up' = up /\ down' = down
        /\ open' = open /\ wire' = wire /\ cut' = cut /\ local' = local /\ peer' = peer
        /\ hand' = hand /\ echo' = echo /\ wrote' = wrote /\ sessions' = sessions
      BY <1>1 DEF vars, daemons, socks, procs, bounds
  <2> QED
      BY <2>1, SameOwn, Zenon
<1>2. ASSUME NEW d \in Devices, User(d) \/ DaemonNext(d) \/ ServeOld(d)
      PROVE  OwnInv'
    BY <1>2, UserOwn, ServeOwn, SubscribeOwn, ReplayOwn, ServeOldOwn DEF DaemonNext
<1>3. ASSUME NEW d \in Devices, MainNext(d) \/ Signal(d)
      PROVE  OwnInv'
  <2>1. CASE Lost(d)
    <3>1. Stop(d) /\ wrote' = wrote /\ sessions' = sessions
        BY <2>1 DEF Lost, bounds
    <3> QED
        BY <3>1, StopOwn
  <2>2. CASE Signal(d)
    <3>1. Stop(d) /\ wrote' = wrote /\ sessions' = sessions
        BY <2>2 DEF Signal, Fault
    <3> QED
        BY <3>1, StopOwn
  <2>3. CASE Exit(d)
      BY <2>3, ExitOwn
  <2> QED
      BY <1>3, <2>1, <2>2, <2>3 DEF MainNext
<1>4. ASSUME NEW d \in Devices, LocalNext(d)
      PROVE  OwnInv'
    BY <1>4, LocalFrameOwn, LocalEndOwn DEF LocalNext
<1>5. ASSUME NEW d \in Devices, PeerNext(d)
      PROVE  OwnInv'
    BY <1>5, PeerHelloOwn, PeerFrameOwn, ExpectEchoOwn, SendLocalOwn, PeerEndOwn DEF PeerNext, Apply
<1> QED
    BY <1>1, <1>2, <1>3, <1>4, <1>5, HangUpOwn, EstablishOwn DEF Next

\* One device's value reaches the other: links of the first session that are
\* idle, with at most one device writing, leave both daemons with the same.
LEMMA IdleAgree ==
  ASSUME IInv, OwnInv, Single, sessions = 1
  PROVE  Agree
<1>1. /\ ~cut /\ Cardinality(wrote) <= 1 /\ wrote \subseteq Devices
      /\ \A d \in Devices : /\ local[d] = "recv" /\ peer[d] = "recv" /\ d \in open /\ KEY \in Carries(d)
                            /\ up[d] = <<>> /\ down[d] = <<>> /\ wire[d] = <<>>
    BY DEF Single, Linked, OwnInv
<1>2. Sync
    BY <1>1 DEF Sync
<1>3. \E o \in Devices : wrote \subseteq {o}
  <2>1. IsFiniteSet(Devices) /\ Cardinality(Devices) = 2 /\ IsFiniteSet(wrote) /\ Cardinality(wrote) \in Nat
      BY <1>1, LinkAssumption, FS_Subset, FS_CardinalityType
  <2>2. CASE Cardinality(wrote) = 0
    <3>1. wrote = {} /\ Devices # {}
        BY <2>1, <2>2, FS_EmptySet
    <3> QED
        BY <3>1
  <2>3. CASE Cardinality(wrote) = 1
    <3>1. PICK o : wrote = {o}
        BY <2>1, <2>3, FS_Singleton
    <3> QED
        BY <1>1, <3>1
  <2> QED
      BY <1>1, <2>1, <2>2, <2>3
<1>4. PICK o \in Devices : wrote \subseteq {o}
    BY <1>3
<1>5. PICK e \in Devices : e = Other(o) /\ \A k \in Devices : k = o \/ k = e
    BY OtherIs
<1>6. Way(o, e)
    BY <1>2, <1>4, <1>5 DEF OwnInv, Owns
<1>7. watching[o]
    BY <1>1, Zenon DEF IInv, UpInv, UpOf
<1>8. PICK a1 \in Vals, a2 \in Vals, a3 \in Vals :
        /\ Ends(<<>>, store[e], a1) /\ Ends(<<>>, a1, a2)
        /\ Ends(<<>>, a2, a3) /\ Ends(<<>>, a3, store[o])
  <2>1. Holding(e) = <<>> /\ Source(o) = store[o]
      BY <1>1, <1>7 DEF Holding, Source
  <2> QED
      BY <1>1, <1>6, <2>1, Zenon DEF Way
<1>9. \A v, w : Ends(<<>>, v, w) => w = v
    BY EndsNone, EndsUnkeyed
<1>10. store[e] = store[o]
    BY <1>8, <1>9, Zenon
<1> QED
    BY <1>5, <1>10 DEF Agree

\* A key that one device writes arrives (link.hpp:73), for any values and any
\* number of writes, whatever else is published and in every order of the
\* threads' steps: where the links of the first session are idle, both daemons
\* have its last value.
THEOREM OwnerArrives == Spec => []OwnerConverges
<1>1. Init => IInv /\ OwnInv
    BY InitIInv, InitOwn
<1>2. (IInv /\ OwnInv) /\ [Next]_vars => (IInv /\ OwnInv)'
    BY NextIInv, NextOwn
<1>3. IInv /\ OwnInv => OwnerConverges
    BY IdleAgree DEF OwnerConverges
<1> QED
    BY <1>1, <1>2, <1>3, PTL DEF Spec
=============================================================================
