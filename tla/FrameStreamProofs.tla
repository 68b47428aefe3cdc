------------------------- MODULE FrameStreamProofs -------------------------
(***************************************************************************)
(* Proofs about FrameStream, for any threads, frames, byte size, buffers   *)
(* and limits.  What has been sent is one sequence of bytes, in which each *)
(* frame has its place; the invariant says where in it the reader, its     *)
(* buffer, the socket and the send under way are.                          *)
(***************************************************************************)
EXTENDS FrameStream, SequenceTheorems, TLAPS

\* The bytes of a frame.
Size(f) == 5 + Len(f.name) + Len(f.payload)

\* One sender at a time has something to write, and it holds the lock.
LockInv ==
  /\ \A s \in Senders : left[s] # <<>> => send_mu = {s}
  /\ \A s \in send_mu : left[s] # <<>>
  /\ shut => send_mu = {}

\* The i-th frame is the bytes after start[i - 1] of all that was sent.
Layout(all, start) ==
  /\ start[0] = 0 /\ start[Len(sent)] = Len(all)
  /\ \A i \in 0 .. Len(sent) : start[i] <= Len(all)
  /\ \A i \in 1 .. Len(sent) :
       /\ start[i] = start[i - 1] + Size(sent[i])
       /\ \A j \in 1 .. Size(sent[i]) : all[start[i - 1] + j] = build_frame(sent[i])[j]

\* The reader is at byte p, and what follows is in its buffer, then in the
\* socket, then with the sender; a shut down connection has lost the rest.
Carried(all, p) ==
  LET q == p + (Len(data) - pos)
  IN  /\ \A j \in 1 .. Len(data) - pos : all[p + j] = data[pos + j]
      /\ \A j \in 1 .. Len(sock) : all[q + j] = sock[j]
      /\ \A s \in Senders : \A j \in 1 .. Len(left[s]) : all[q + Len(sock) + j] = left[s][j]
      /\ q + Len(sock) <= Len(all)
      /\ ~shut /\ send_mu = {} => q + Len(sock) = Len(all)
      /\ \A s \in send_mu : q + Len(sock) + Len(left[s]) = Len(all)

\* The reader has the frames before byte p, and is at a field of the next.
Parsed(start, p) ==
  LET g == Len(got)
      f == sent[g + 1]
  IN  /\ g <= Len(sent) /\ \A i \in 1 .. g : got[i] = sent[i]
      /\ field = "kind"    => p = start[g] /\ need = 1
      /\ field # "kind"    => g < Len(sent) /\ part.kind = f.kind
      /\ field = "nlen"    => p = start[g] + 1 /\ need = 2
      /\ field = "name"    => p = start[g] + 3 /\ need = Len(f.name)
      /\ field = "plen"    => p = start[g] + 3 + Len(f.name) /\ need = 2 /\ part.name = f.name
      /\ field = "payload" => p = start[g] + 5 + Len(f.name) /\ need = Len(f.payload)
                              /\ part.name = f.name

\* Why the reader goes on and why it gave up.
QuitInv ==
  /\ quit # "oversized" => need <= Largest
  /\ quit = "oversized" => field \in {"name", "payload"} /\ need > MaxFrameBytes
  /\ quit = "end" => shut /\ sock = <<>>

Types ==
  /\ TypeOK
  /\ sent \in Seq(Frames) /\ got \in Seq(Frames)
  /\ part \in [kind : Bytes, name : Seq(Bytes)]

InStream(all, start, p) == Layout(all, start) /\ Carried(all, p) /\ Parsed(start, p)

IInv ==
  /\ Types /\ LockInv /\ QuitInv
  /\ \E all \in Seq(Bytes), start \in [Nat -> Nat], p \in Nat : InStream(all, start, p)

-----------------------------------------------------------------------------
(* The encoding                                                            *)

\* What a concatenation of bytes is.
LEMMA Joined ==
  \A s, t \in Seq(Bytes) :
    /\ s \o t \in Seq(Bytes) /\ Len(s \o t) = Len(s) + Len(t)
    /\ \A i \in 1 .. Len(s) + Len(t) : (s \o t)[i] = IF i <= Len(s) THEN s[i] ELSE t[i - Len(s)]
BY ConcatProperties

\* A length that fits is two bytes, from which read_u32 gets it back.
LEMMA LengthCode ==
  ASSUME NEW n \in Nat, n < Base * Base
  PROVE  /\ append_u32(n) \in Seq(Bytes) /\ Len(append_u32(n)) = 2
         /\ append_u32(n)[1] + Base * append_u32(n)[2] = n
<1>1. Base \in Nat /\ Base > 0
    BY StreamAssumption
<1>2. n % Base \in 0 .. Base - 1 /\ n \div Base \in Nat /\ n = Base * (n \div Base) + (n % Base)
    BY <1>1
<1>3. n \div Base < Base
  <2> DEFINE q == n \div Base
             r == n % Base
  <2>1. q \in Nat /\ r \in Nat /\ n = Base * q + r
      BY <1>2
  <2> HIDE DEF q, r
  <2>2. CASE q >= Base
    <3>1. Base * q >= Base * Base
        BY <1>1, <2>1, <2>2
    <3> QED
        BY <1>1, <2>1, <3>1
  <2> QED
      BY <1>1, <2>1, <2>2 DEF q
<1>4. n % Base \in Bytes /\ n \div Base \in Bytes
    BY <1>1, <1>2, <1>3 DEF Bytes
<1>5. append_u32(n) = <<n % Base, n \div Base>>
    BY DEF append_u32
<1>6. <<n % Base, n \div Base>> \in Seq(Bytes)
    BY <1>4
<1>7. <<n % Base, n \div Base>>[1] + Base * <<n % Base, n \div Base>>[2] = n
    BY <1>1, <1>2
<1>8. Len(<<n % Base, n \div Base>>) = 2
    OBVIOUS
<1> QED
    BY <1>5, <1>6, <1>7, <1>8, Zenon

\* Where build_frame puts the fields of a frame.
LEMMA FrameCode ==
  ASSUME NEW f \in Frames
  PROVE  /\ f.kind \in Bytes /\ f.name \in Seq(Bytes) /\ f.payload \in Seq(Bytes)
         /\ Size(f) \in Nat /\ Size(f) >= 5
         /\ build_frame(f) \in Seq(Bytes) /\ Len(build_frame(f)) = Size(f)
         /\ build_frame(f)[1] = f.kind
         /\ build_frame(f)[2] + Base * build_frame(f)[3] = Len(f.name)
         /\ \A j \in 1 .. Len(f.name) : build_frame(f)[3 + j] = f.name[j]
         /\ build_frame(f)[Len(f.name) + 4] + Base * build_frame(f)[Len(f.name) + 5] = Len(f.payload)
         /\ \A j \in 1 .. Len(f.payload) : build_frame(f)[5 + Len(f.name) + j] = f.payload[j]
<1> DEFINE k == <<f.kind>>
           u == append_u32(Len(f.name))
           v == append_u32(Len(f.payload))
           nm == f.name
           pl == f.payload
           a == k \o u
           b == a \o nm
           c == b \o v
           d == c \o pl
<1>1. /\ f.kind \in Bytes /\ nm \in Seq(Bytes) /\ pl \in Seq(Bytes)
      /\ Len(nm) \in Nat /\ Len(pl) \in Nat
      /\ Len(nm) < Base * Base /\ Len(pl) < Base * Base
    BY StreamAssumption
<1>2. k \in Seq(Bytes) /\ Len(k) = 1 /\ k[1] = f.kind
    BY <1>1
<1>3. /\ u \in Seq(Bytes) /\ Len(u) = 2 /\ u[1] + Base * u[2] = Len(nm)
      /\ v \in Seq(Bytes) /\ Len(v) = 2 /\ v[1] + Base * v[2] = Len(pl)
    BY <1>1, LengthCode
<1>4. build_frame(f) = d
    BY DEF build_frame
<1>5. Size(f) = 5 + Len(nm) + Len(pl)
    BY DEF Size
<1> HIDE DEF k, u, v, nm, pl
<1>6. /\ a \in Seq(Bytes) /\ Len(a) = 3
      /\ a[1] = k[1] /\ a[2] = u[1] /\ a[3] = u[2]
  <2>1. /\ k \o u \in Seq(Bytes) /\ Len(k \o u) = Len(k) + Len(u)
        /\ \A i \in 1 .. Len(k) + Len(u) : (k \o u)[i] = IF i <= Len(k) THEN k[i] ELSE u[i - Len(k)]
      BY <1>2, <1>3, Joined, Zenon
  <2> QED
      BY <1>2, <1>3, <2>1
<1> HIDE DEF a
<1>7. /\ b \in Seq(Bytes) /\ Len(b) = 3 + Len(nm)
      /\ b[1] = k[1] /\ b[2] = u[1] /\ b[3] = u[2]
      /\ \A j \in 1 .. Len(nm) : b[3 + j] = nm[j]
  <2>1. /\ a \o nm \in Seq(Bytes) /\ Len(a \o nm) = Len(a) + Len(nm)
        /\ \A i \in 1 .. Len(a) + Len(nm) : (a \o nm)[i] = IF i <= Len(a) THEN a[i] ELSE nm[i - Len(a)]
      BY <1>1, <1>6, Joined, Zenon
  <2> QED
      BY <1>1, <1>6, <2>1
<1> HIDE DEF b
<1>8. /\ c \in Seq(Bytes) /\ Len(c) = 5 + Len(nm)
      /\ c[1] = k[1] /\ c[2] = u[1] /\ c[3] = u[2]
      /\ \A j \in 1 .. Len(nm) : c[3 + j] = nm[j]
      /\ c[Len(nm) + 4] = v[1] /\ c[Len(nm) + 5] = v[2]
  <2>1. /\ b \o v \in Seq(Bytes) /\ Len(b \o v) = Len(b) + Len(v)
        /\ \A i \in 1 .. Len(b) + Len(v) : (b \o v)[i] = IF i <= Len(b) THEN b[i] ELSE v[i - Len(b)]
      BY <1>3, <1>7, Joined, Zenon
  <2> QED
      BY <1>1, <1>3, <1>7, <2>1
<1> HIDE DEF c
<1>9. /\ d \in Seq(Bytes) /\ Len(d) = 5 + Len(nm) + Len(pl)
      /\ d[1] = k[1] /\ d[2] = u[1] /\ d[3] = u[2]
      /\ \A j \in 1 .. Len(nm) : d[3 + j] = nm[j]
      /\ d[Len(nm) + 4] = v[1] /\ d[Len(nm) + 5] = v[2]
      /\ \A j \in 1 .. Len(pl) : d[5 + Len(nm) + j] = pl[j]
  <2>1. /\ c \o pl \in Seq(Bytes) /\ Len(c \o pl) = Len(c) + Len(pl)
        /\ \A i \in 1 .. Len(c) + Len(pl) : (c \o pl)[i] = IF i <= Len(c) THEN c[i] ELSE pl[i - Len(c)]
      BY <1>1, <1>8, Joined, Zenon
  <2> QED
      BY <1>1, <1>8, <2>1
<1> HIDE DEF d
<1>10. Size(f) \in Nat /\ Size(f) >= 5
    BY <1>1, <1>5
<1>11. d[2] + Base * d[3] = Len(nm) /\ d[Len(nm) + 4] + Base * d[Len(nm) + 5] = Len(pl)
    BY <1>3, <1>9
<1> QED
    BY <1>1, <1>2, <1>4, <1>5, <1>9, <1>10, <1>11 DEF nm, pl

-----------------------------------------------------------------------------
(* The senders                                                             *)

\* The invariant holds initially.
LEMMA InitIInv == Init => IInv
<1> SUFFICES ASSUME Init PROVE IInv
    OBVIOUS
<1>1. <<>> \in Seq(Bytes) /\ <<>> \in Seq(Frames) /\ Len(<<>>) = 0
    OBVIOUS
<1>2. 0 \in Bytes
    BY StreamAssumption DEF Bytes
<1>3. FirstSize \in Nat /\ FirstSize > 1 /\ MaxFrameBytes \in Nat /\ SockBuf \in Nat
      /\ Largest \in Nat /\ Largest >= FirstSize
    BY StreamAssumption DEF Largest
<1>4. TypeOK
  <2>1. left \in [Senders -> Seq(Bytes)] /\ send_mu \subseteq Senders /\ shut \in BOOLEAN
      BY <1>1, Zenon DEF Init
  <2>2. /\ sock = <<>> /\ data = <<>> /\ pos = 0 /\ size = FirstSize /\ need = 1
        /\ field = "kind" /\ quit = "no"
      BY DEF Init
  <2> QED
      BY <1>1, <1>3, <2>1, <2>2 DEF TypeOK
<1>5. Types
    BY <1>1, <1>2, <1>4 DEF Init, Types, NoPart
<1>6. LockInv
    BY DEF Init, LockInv
<1>7. QuitInv
    BY <1>3 DEF Init, QuitInv
<1>8. InStream(<<>>, [i \in Nat |-> 0], 0)
  <2> DEFINE start == [i \in Nat |-> 0]
  <2>1. start[0] = 0
      OBVIOUS
  <2> HIDE DEF start
  <2>2. Layout(<<>>, start)
      BY <1>1, <2>1 DEF Init, Layout
  <2>3. Carried(<<>>, 0)
      BY <1>1 DEF Init, Carried
  <2>4. Parsed(start, 0)
      BY <1>1, <2>1 DEF Init, Parsed
  <2> QED
      BY <2>2, <2>3, <2>4 DEF InStream, start
<1>9. [i \in Nat |-> 0] \in [Nat -> Nat]
    OBVIOUS
<1> QED
    BY <1>1, <1>5, <1>6, <1>7, <1>8, <1>9 DEF IInv

\* What is sent with a new frame after it, and where that begins and ends.
LEMMA Longer ==
  ASSUME NEW all \in Seq(Bytes), NEW start \in [Nat -> Nat], NEW f \in Frames, NEW n \in Nat
  PROVE  \E more \in Seq(Bytes), next \in [Nat -> Nat] :
           /\ Len(more) = Len(all) + Size(f)
           /\ \A i \in 1 .. Len(all) : more[i] = all[i]
           /\ \A i \in 1 .. Size(f) : more[Len(all) + i] = build_frame(f)[i]
           /\ next[n + 1] = Len(all) + Size(f)
           /\ \A i \in 0 .. n : next[i] = start[i]
<1> DEFINE w == build_frame(f)
<1>1. Len(all) \in Nat
    OBVIOUS
<1>2. w \in Seq(Bytes) /\ Len(w) = Size(f) /\ Size(f) \in Nat
    BY FrameCode
<1> HIDE DEF w
<1>3. /\ all \o w \in Seq(Bytes) /\ Len(all \o w) = Len(all) + Len(w)
      /\ \A i \in 1 .. Len(all) + Len(w) : (all \o w)[i] = IF i <= Len(all) THEN all[i] ELSE w[i - Len(all)]
    BY <1>2, Joined, Zenon
<1> DEFINE more == all \o w
           next == [start EXCEPT ![n + 1] = Len(all) + Size(f)]
<1>4. next \in [Nat -> Nat] /\ next[n + 1] = Len(all) + Size(f) /\ \A i \in 0 .. n : next[i] = start[i]
  <2> DEFINE e == Len(all) + Size(f)
  <2>1. e \in Nat /\ n + 1 \in Nat
      BY <1>1, <1>2, SMTT(30)
  <2>2. \A i \in 0 .. n : i \in Nat /\ i # n + 1
      OBVIOUS
  <2> HIDE DEF e
  <2>3. \A k \in Nat : /\ [start EXCEPT ![k] = e] \in [Nat -> Nat] /\ [start EXCEPT ![k] = e][k] = e
                      /\ \A i \in Nat : i # k => [start EXCEPT ![k] = e][i] = start[i]
      BY <2>1, Zenon
  <2>4. next = [start EXCEPT ![n + 1] = e]
      BY Zenon DEF e
  <2> HIDE DEF next
  <2> QED
      BY <2>1, <2>2, <2>3, <2>4, Zenon DEF e
<1>5. more \in Seq(Bytes) /\ Len(more) = Len(all) + Size(f)
    BY <1>2, <1>3
<1>6. /\ \A i \in 1 .. Len(all) : more[i] = all[i]
      /\ \A i \in 1 .. Size(f) : more[Len(all) + i] = w[i]
    BY <1>1, <1>2, <1>3
<1> HIDE DEF more, next
<1> QED
    BY <1>4, <1>5, <1>6 DEF w

\* The j-th byte of a part of c bytes that ends within the first l.
LEMMA Within ==
  ASSUME NEW a \in Nat, NEW b \in Nat, NEW c \in Nat, NEW l \in Nat, NEW j \in Nat,
         b = a + c, b <= l, j >= 1, j <= c
  PROVE  a + j \in 1 .. l
OBVIOUS

\* A new frame is laid out after all others.
LEMMA LayoutGrows ==
  ASSUME sent \in Seq(Frames), NEW all \in Seq(Bytes), NEW start \in [Nat -> Nat], Layout(all, start),
         NEW f \in Frames, sent' = Append(sent, f),
         NEW more \in Seq(Bytes), NEW next \in [Nat -> Nat],
         Len(more) = Len(all) + Size(f),
         \A i \in 1 .. Len(all) : more[i] = all[i],
         \A i \in 1 .. Size(f) : more[Len(all) + i] = build_frame(f)[i],
         next[Len(sent) + 1] = Len(all) + Size(f),
         \A i \in 0 .. Len(sent) : next[i] = start[i]
  PROVE  Layout(more, next)'
<1> DEFINE n == Len(sent)
<1>1. n \in Nat /\ Len(all) \in Nat
    BY LenProperties, Zenon
<1>2. /\ Len(sent') = n + 1 /\ sent'[n + 1] = f
      /\ \A i \in 1 .. n : sent'[i] = sent[i]
    OBVIOUS
<1>3. Size(f) \in Nat
    BY FrameCode
<1>4. \A i \in 0 .. n : next[i] = start[i]
    OBVIOUS
<1>5. /\ start[0] = 0 /\ start[n] = Len(all)
      /\ \A i \in 0 .. n : start[i] <= Len(all)
      /\ \A i \in 1 .. n : /\ start[i] = start[i - 1] + Size(sent[i])
                           /\ \A j \in 1 .. Size(sent[i]) : all[start[i - 1] + j] = build_frame(sent[i])[j]
    BY DEF Layout
<1>6. next[n + 1] = Len(all) + Size(f)
    OBVIOUS
<1>7. \A i \in 1 .. n : Size(sent[i]) \in Nat
  <2> SUFFICES ASSUME NEW i \in 1 .. n PROVE Size(sent[i]) \in Nat
      OBVIOUS
  <2>1. sent[i] \in Frames
      OBVIOUS
  <2> QED
      BY <2>1, FrameCode
<1> HIDE DEF n
<1>9. ASSUME NEW i \in 1 .. n + 1
      PROVE  /\ next[i] = next[i - 1] + Size(sent'[i])
             /\ \A j \in 1 .. Size(sent'[i]) : more[next[i - 1] + j] = build_frame(sent'[i])[j]
  <2>1. CASE i = n + 1
    <3>1. n \in 0 .. n /\ i - 1 = n
        BY <1>1, <2>1
    <3>2. next[i - 1] = Len(all)
        BY <1>4, <1>5, <3>1
    <3> QED
        BY <1>2, <1>6, <2>1, <3>2
  <2>2. CASE i # n + 1
    <3>1. i \in 1 .. n /\ i - 1 \in 0 .. n /\ i \in 0 .. n /\ i \in Nat /\ i - 1 \in Nat
        BY <1>1, <2>2
    <3>2. next[i] = start[i] /\ next[i - 1] = start[i - 1] /\ sent'[i] = sent[i]
        BY <1>2, <1>4, <3>1
    <3>3. start[i] = start[i - 1] + Size(sent[i]) /\ start[i] <= Len(all) /\ Size(sent[i]) \in Nat
        BY <1>5, <1>7, <3>1
    <3>4. ASSUME NEW j \in 1 .. Size(sent[i]) PROVE more[start[i - 1] + j] = build_frame(sent[i])[j]
      <4>1. start[i] \in Nat /\ start[i - 1] \in Nat /\ j \in Nat /\ j >= 1 /\ j <= Size(sent[i])
          BY <3>1, <3>3, SMTT(30)
      <4>2. start[i - 1] + j \in 1 .. Len(all)
          BY <1>1, <3>3, <4>1, Within, Zenon
      <4> QED
          BY <1>5, <3>1, <4>2
    <3> QED
        BY <3>2, <3>3, <3>4
  <2> QED
      BY <2>1, <2>2
<1>10. next[0] = 0
    BY <1>1, <1>4, <1>5
<1>11. ASSUME NEW i \in 0 .. n + 1 PROVE next[i] <= Len(more)
  <2>1. CASE i = n + 1
      BY <1>1, <1>3, <1>6, <2>1
  <2>2. CASE i # n + 1
    <3>1. i \in 0 .. n /\ i \in Nat
        BY <1>1, <2>2
    <3>2. next[i] <= Len(all) /\ next[i] \in Nat
        BY <1>4, <1>5, <3>1
    <3> QED
        BY <1>1, <1>3, <3>2, SMTT(30)
  <2> QED
      BY <2>1, <2>2
<1>12. next[n + 1] = Len(more)
    BY <1>6
<1> QED
    BY <1>2, <1>9, <1>10, <1>11, <1>12, Zenon DEF Layout

\* The reader has a number of bytes left in its buffer, all lengths are numbers.
LEMMA Lengths ==
  ASSUME Types
  PROVE  /\ Len(data) - pos \in Nat /\ Len(data) \in Nat /\ pos \in Nat /\ pos <= Len(data)
         /\ Len(sock) \in Nat /\ Len(sent) \in Nat /\ Len(got) \in Nat
         /\ \A all \in Seq(Bytes) : Len(all) \in Nat
         /\ \A s \in Senders : left[s] \in Seq(Bytes) /\ Len(left[s]) \in Nat
<1>1. /\ sock \in Seq(Bytes) /\ data \in Seq(Bytes) /\ pos \in 0 .. Len(data)
      /\ sent \in Seq(Frames) /\ got \in Seq(Frames) /\ left \in [Senders -> Seq(Bytes)]
    BY DEF Types, TypeOK
<1>2. Len(data) \in Nat /\ Len(sock) \in Nat /\ Len(sent) \in Nat /\ Len(got) \in Nat
    BY <1>1, LenProperties, Zenon
<1>3. pos \in Nat /\ pos <= Len(data) /\ Len(data) - pos \in Nat
    BY <1>1, <1>2
<1> QED
    BY <1>1, <1>2, <1>3

\* A frame begins to be written.
LEMMA BeginSendIInv ==
  ASSUME IInv, NEW s \in Senders, NEW f \in Frames, BeginSend(s, f) PROVE IInv'
<1> DEFINE w == build_frame(f)
<1>1. /\ left[s] = <<>> /\ ~shut /\ send_mu = {} /\ send_mu' = {s}
      /\ left' = [left EXCEPT ![s] = w] /\ sent' = Append(sent, f)
      /\ UNCHANGED <<shut, sock, data, pos, size, field, need, part, got, quit>>
    BY DEF BeginSend, Lock, reading
<1>2. w \in Seq(Bytes) /\ Len(w) = Size(f) /\ Size(f) \in Nat /\ Size(f) >= 5
    BY FrameCode
<1> HIDE DEF w
<1>3. /\ left \in [Senders -> Seq(Bytes)] /\ sent \in Seq(Frames) /\ got \in Seq(Frames)
    BY DEF IInv, Types, TypeOK
<1>4. /\ left' \in [Senders -> Seq(Bytes)] /\ left'[s] = w
      /\ \A t \in Senders \ {s} : left'[t] = left[t]
    BY <1>1, <1>2, <1>3
<1>5. \A t \in Senders : left[t] = <<>>
    BY <1>1, Zenon DEF IInv, LockInv
<1>6. /\ sent' \in Seq(Frames) /\ Len(sent') = Len(sent) + 1
      /\ \A i \in 1 .. Len(sent) : sent'[i] = sent[i]
    BY <1>1, <1>3
<1>7. w # <<>>
    BY <1>2
<1>8. Types'
    BY <1>1, <1>4, <1>6 DEF IInv, Types, TypeOK
<1>9. LockInv' /\ QuitInv'
  <2>1. LockInv'
      BY <1>1, <1>4, <1>5, <1>7, Zenon DEF LockInv
  <2>2. QuitInv'
      BY <1>1, Zenon DEF IInv, QuitInv
  <2> QED
      BY <2>1, <2>2
<1>10. PICK all \in Seq(Bytes), start \in [Nat -> Nat], p \in Nat : InStream(all, start, p)
    BY DEF IInv
<1> DEFINE n == Len(sent)
           L == Len(all)
           D == Len(data) - pos
           K == Len(sock)
           g == Len(got)
<1>11. n \in Nat /\ L \in Nat /\ D \in Nat /\ K \in Nat /\ g \in Nat
    BY <1>3, Lengths DEF IInv
<1>12. PICK more \in Seq(Bytes), next \in [Nat -> Nat] :
           /\ Len(more) = Len(all) + Size(f)
           /\ \A i \in 1 .. Len(all) : more[i] = all[i]
           /\ \A i \in 1 .. Size(f) : more[Len(all) + i] = build_frame(f)[i]
           /\ next[n + 1] = Len(all) + Size(f)
           /\ \A i \in 0 .. n : next[i] = start[i]
  <2> HIDE DEF n
  <2> QED
      BY <1>11, Longer, ZenonT(60)
<1>13. Layout(more, next)'
  <2>1. Layout(all, start)
      BY <1>10 DEF InStream
  <2> QED
      BY <1>1, <1>3, <1>12, <2>1, LayoutGrows, ZenonT(60)
<1>14. Carried(more, p)'
  <2>1. /\ \A j \in 1 .. D : all[p + j] = data[pos + j]
        /\ \A j \in 1 .. K : all[p + D + j] = sock[j]
        /\ p + D + K = L
      BY <1>1, <1>10 DEF InStream, Carried
  <2>2. /\ Len(more) = L + Size(f) /\ \A i \in 1 .. L : more[i] = all[i]
        /\ \A i \in 1 .. Size(f) : more[L + i] = w[i]
      BY <1>12 DEF w
  <2> HIDE DEF L, D, K
  <2>3. \A j \in 1 .. D : more[p + j] = data[pos + j]
    <3> SUFFICES ASSUME NEW j \in 1 .. D PROVE more[p + j] = data[pos + j]
        OBVIOUS
    <3>1. p + j \in 1 .. L
        BY <1>11, <2>1
    <3> QED
        BY <2>1, <2>2, <3>1
  <2>4. \A j \in 1 .. K : more[p + D + j] = sock[j]
    <3> SUFFICES ASSUME NEW j \in 1 .. K PROVE more[p + D + j] = sock[j]
        OBVIOUS
    <3>1. p + D + j \in 1 .. L
        BY <1>11, <2>1
    <3> QED
        BY <2>1, <2>2, <3>1
  <2>5. p + D + K <= Len(more) /\ p + D + K + Len(w) = Len(more)
    <3>1. Len(more) = (p + D + K) + Size(f) /\ Len(w) = Size(f)
        BY <1>2, <2>1, <2>2, Zenon
    <3>2. p + D + K \in Nat
        BY <1>11
    <3>3. p + D + K <= (p + D + K) + Size(f)
        BY <1>2, <3>2
    <3> QED
        BY <3>1, <3>3, Zenon
  <2>6. \A t \in Senders : \A j \in 1 .. Len(left'[t]) : more[p + D + K + j] = left'[t][j]
    <3> SUFFICES ASSUME NEW t \in Senders, NEW j \in 1 .. Len(left'[t])
                 PROVE  more[p + D + K + j] = left'[t][j]
        OBVIOUS
    <3>1. CASE t = s
      <4>1. left'[t] = w /\ j \in 1 .. Size(f)
          BY <1>2, <1>4, <3>1
      <4> QED
          BY <2>1, <2>2, <4>1
    <3>2. CASE t # s
      <4>1. left'[t] = <<>>
          BY <1>4, <1>5, <3>2
      <4> QED
          BY <4>1
    <3> QED
        BY <3>1, <3>2
  <2>7. \A t \in send_mu' : p + D + K + Len(left'[t]) = Len(more)
      BY <1>1, <1>4, <2>5
  <2> QED
      BY <1>1, <2>3, <2>4, <2>5, <2>6, <2>7, Zenon DEF Carried, D, K
<1>15. Parsed(next, p)'
  <2>1. Parsed(start, p)
      BY <1>10 DEF InStream
  <2>2. g <= n /\ \A i \in 1 .. g : got[i] = sent[i]
      BY <2>1 DEF Parsed
  <2> HIDE DEF g, n
  <2>3. next[g] = start[g]
      BY <1>11, <1>12, <2>2
  <2>4. g <= n + 1 /\ \A i \in 1 .. g : got[i] = sent'[i]
    <3>1. g <= n + 1 /\ \A i \in 1 .. g : i \in 1 .. n
        BY <1>11, <2>2
    <3> QED
        BY <1>6, <2>2, <3>1, Zenon DEF n
  <2>5. field # "kind" => g < n
      BY <2>1 DEF Parsed, g, n
  <2>6. field # "kind" => g < n + 1 /\ sent'[g + 1] = sent[g + 1]
    <3> SUFFICES ASSUME field # "kind" PROVE g < n + 1 /\ sent'[g + 1] = sent[g + 1]
        OBVIOUS
    <3>1. g + 1 \in 1 .. n /\ g < n + 1
        BY <1>11, <2>5
    <3> QED
        BY <1>6, <3>1 DEF n
  <2> QED
      BY <1>1, <1>6, <2>1, <2>3, <2>4, <2>6 DEF Parsed, g, n
<1>16. InStream(more, next, p)'
    BY <1>13, <1>14, <1>15 DEF InStream
<1> QED
    BY <1>8, <1>9, <1>16 DEF IInv

\* Pieces of a sequence.
LEMMA Pieces ==
  ASSUME NEW t \in Seq(Bytes), NEW k \in 0 .. Len(t)
  PROVE  /\ SubSeq(t, 1, k) \in Seq(Bytes) /\ Len(SubSeq(t, 1, k)) = k
         /\ \A i \in 1 .. k : SubSeq(t, 1, k)[i] = t[i]
         /\ SubSeq(t, k + 1, Len(t)) \in Seq(Bytes) /\ Len(SubSeq(t, k + 1, Len(t))) = Len(t) - k
         /\ \A i \in 1 .. Len(t) - k : SubSeq(t, k + 1, Len(t))[i] = t[k + i]
<1>1. Len(t) \in Nat /\ k \in Nat /\ k <= Len(t) /\ \A i \in 1 .. Len(t) : t[i] \in Bytes
    OBVIOUS
<1>2. \A i \in 1 .. k : t[i] \in Bytes
    BY <1>1
<1>3. \A i \in k + 1 .. Len(t) : t[i] \in Bytes
    BY <1>1
<1>4. /\ SubSeq(t, 1, k) \in Seq(Bytes)
      /\ Len(SubSeq(t, 1, k)) = IF 1 <= k THEN k - 1 + 1 ELSE 0
      /\ \A i \in 1 .. k - 1 + 1 : SubSeq(t, 1, k)[i] = t[1 + i - 1]
    BY <1>1, <1>2, SubSeqProperties
<1>5. /\ SubSeq(t, k + 1, Len(t)) \in Seq(Bytes)
      /\ Len(SubSeq(t, k + 1, Len(t))) = IF k + 1 <= Len(t) THEN Len(t) - (k + 1) + 1 ELSE 0
      /\ \A i \in 1 .. Len(t) - (k + 1) + 1 : SubSeq(t, k + 1, Len(t))[i] = t[k + 1 + i - 1]
    BY <1>1, <1>3, SubSeqProperties
<1> DEFINE a == SubSeq(t, 1, k)
           b == SubSeq(t, k + 1, Len(t))
           l == Len(t)
<1>6. Len(a) = k /\ \A i \in 1 .. k : a[i] = t[i]
    BY <1>1, <1>4
<1>7. Len(b) = l - k /\ \A i \in 1 .. l - k : b[i] = t[k + i]
  <2> HIDE DEF b
  <2>1. Len(b) = (IF k + 1 <= l THEN l - (k + 1) + 1 ELSE 0) /\ \A i \in 1 .. l - (k + 1) + 1 : b[i] = t[k + 1 + i - 1]
      BY <1>5 DEF b
  <2> HIDE DEF l
  <2>2. l \in Nat /\ k <= l /\ k \in Nat
      BY <1>1 DEF l
  <2>3. Len(b) = l - k
      BY <2>1, <2>2
  <2>4. ASSUME NEW i \in 1 .. l - k PROVE b[i] = t[k + i]
    <3>1. i \in 1 .. l - (k + 1) + 1 /\ k + 1 + i - 1 = k + i
        BY <2>2
    <3> QED
        BY <2>1, <3>1
  <2> QED
      BY <2>3, <2>4
<1> QED
    BY <1>4, <1>5, <1>6, <1>7

\* What the senders and the socket do leaves the frames and the parser alone.
LEMMA SameParse ==
  ASSUME NEW all, NEW start, NEW p, Layout(all, start), Parsed(start, p),
         UNCHANGED <<sent, got, field, need, part>>
  PROVE  Layout(all, start)' /\ Parsed(start, p)'
<1>1. sent' = sent /\ got' = got /\ field' = field /\ need' = need /\ part' = part
    OBVIOUS
<1>2. Layout(all, start)'
    BY <1>1, ZenonT(60) DEF Layout
<1>3. Parsed(start, p)'
    BY <1>1, Zenon DEF Parsed
<1> QED
    BY <1>2, <1>3

\* The socket takes a piece of a frame.
LEMMA WriteIInv == ASSUME IInv, NEW s \in Senders, Write(s) PROVE IInv'
<1> DEFINE v == left[s]
<1>1. PICK k \in 1 .. Len(v) :
        /\ Len(sock) + k <= SockBuf
        /\ sock' = sock \o SubSeq(v, 1, k)
        /\ left' = [left EXCEPT ![s] = SubSeq(v, k + 1, Len(v))]
        /\ send_mu' = IF SubSeq(v, k + 1, Len(v)) = <<>> THEN {} ELSE send_mu
    BY DEF Write, Written
<1>2. /\ v # <<>> /\ ~shut
      /\ UNCHANGED <<shut, sent, data, pos, size, field, need, part, got, quit>>
    BY DEF Write, reading
<1>3. send_mu = {s} /\ \A t \in Senders \ {s} : left[t] = <<>>
    BY <1>2, Zenon DEF IInv, LockInv
<1>4. left \in [Senders -> Seq(Bytes)] /\ sock \in Seq(Bytes) /\ SockBuf \in Nat /\ v \in Seq(Bytes)
    BY StreamAssumption DEF IInv, Types, TypeOK
<1> DEFINE a == SubSeq(v, 1, k)
           b == SubSeq(v, k + 1, Len(v))
           V == Len(v)
           K == Len(sock)
<1>5. V \in Nat /\ K \in Nat /\ k \in 1 .. V /\ k \in 0 .. V
    BY <1>1, <1>4
<1>6. /\ a \in Seq(Bytes) /\ Len(a) = k /\ \A i \in 1 .. k : a[i] = v[i]
      /\ b \in Seq(Bytes) /\ Len(b) = V - k /\ \A i \in 1 .. V - k : b[i] = v[k + i]
    BY <1>4, <1>5, Pieces
<1>7. /\ K + k <= SockBuf /\ sock' = sock \o a /\ left' = [left EXCEPT ![s] = b]
      /\ send_mu' = IF b = <<>> THEN {} ELSE {s}
    BY <1>1, <1>3
<1> HIDE DEF a, b, v
<1>8. /\ left' \in [Senders -> Seq(Bytes)] /\ left'[s] = b
      /\ \A t \in Senders \ {s} : left'[t] = <<>>
    BY <1>3, <1>4, <1>6, <1>7
<1>9. /\ sock' \in Seq(Bytes) /\ Len(sock') = K + k
      /\ \A i \in 1 .. K + k : sock'[i] = IF i <= K THEN sock[i] ELSE a[i - K]
  <2>1. /\ sock \o a \in Seq(Bytes) /\ Len(sock \o a) = Len(sock) + Len(a)
        /\ \A i \in 1 .. Len(sock) + Len(a) : (sock \o a)[i] = IF i <= Len(sock) THEN sock[i] ELSE a[i - Len(sock)]
      BY <1>4, <1>6, Joined, Zenon
  <2>2. Len(a) = k
      BY <1>6
  <2> QED
      BY <1>7, <2>1, <2>2, Zenon
<1>10. send_mu' \subseteq Senders /\ send_mu' \subseteq {s} /\ (b # <<>> => send_mu' = {s})
      /\ (b = <<>> => send_mu' = {})
    BY <1>7
<1>11. Types'
  <2>1. Len(sock') <= SockBuf
      BY <1>7, <1>9
  <2> QED
      BY <1>2, <1>8, <1>9, <1>10, <2>1 DEF IInv, Types, TypeOK
<1>12. LockInv'
  <2>1. \A t \in Senders : left'[t] # <<>> => send_mu' = {t}
      BY <1>8, <1>10
  <2>2. \A t \in send_mu' : left'[t] # <<>>
      BY <1>8, <1>10
  <2> QED
      BY <1>2, <2>1, <2>2 DEF LockInv
<1>13. QuitInv'
    BY <1>2, Zenon DEF IInv, QuitInv
<1>14. PICK all \in Seq(Bytes), start \in [Nat -> Nat], p \in Nat : InStream(all, start, p)
    BY DEF IInv
<1>15. Carried(all, p)'
  <2> DEFINE L == Len(all)
             D == Len(data) - pos
  <2>1. L \in Nat /\ D \in Nat
      BY Lengths DEF IInv
  <2>2. /\ \A j \in 1 .. D : all[p + j] = data[pos + j]
        /\ \A j \in 1 .. K : all[p + D + j] = sock[j]
        /\ \A j \in 1 .. V : all[p + D + K + j] = v[j]
        /\ p + D + K + V = L
      BY <1>3, <1>14 DEF InStream, Carried, v
  <2> HIDE DEF L, D, V, K
  <2>3. \A j \in 1 .. K + k : all[p + D + j] = sock'[j]
    <3> SUFFICES ASSUME NEW j \in 1 .. K + k PROVE all[p + D + j] = sock'[j]
        OBVIOUS
    <3>1. CASE j <= K
      <4>1. j \in 1 .. K
          BY <1>5, <3>1
      <4>2. sock'[j] = sock[j]
          BY <1>9, <3>1, Zenon
      <4> QED
          BY <2>2, <4>1, <4>2
    <3>2. CASE ~(j <= K)
      <4>1. j - K \in 1 .. k /\ j - K \in 1 .. V /\ p + D + K + (j - K) = p + D + j
          BY <1>5, <2>1, <3>2
      <4>2. sock'[j] = v[j - K]
          BY <1>6, <1>9, <3>2, <4>1, Zenon
      <4> QED
          BY <2>2, <4>1, <4>2
    <3> QED
        BY <3>1, <3>2
  <2>4. ASSUME NEW j \in 1 .. V - k PROVE all[p + D + (K + k) + j] = b[j]
    <3>1. k + j \in 1 .. V /\ p + D + (K + k) + j = p + D + K + (k + j)
        BY <1>5, <2>1
    <3> QED
        BY <1>6, <2>2, <3>1
  <2>5. p + D + (K + k) <= L /\ p + D + (K + k) + (V - k) = L
      BY <1>5, <2>1, <2>2
  <2>6. \A t \in Senders : \A j \in 1 .. Len(left'[t]) : all[p + D + (K + k) + j] = left'[t][j]
    <3> SUFFICES ASSUME NEW t \in Senders, NEW j \in 1 .. Len(left'[t])
                 PROVE  all[p + D + (K + k) + j] = left'[t][j]
        OBVIOUS
    <3>1. CASE t = s
        BY <1>6, <1>8, <2>4, <3>1
    <3>2. CASE t # s
      <4>1. left'[t] = <<>>
          BY <1>8, <3>2
      <4> QED
          BY <4>1
    <3> QED
        BY <3>1, <3>2
  <2>7. \A t \in send_mu' : p + D + (K + k) + Len(left'[t]) = L
      BY <1>6, <1>8, <1>10, <2>5
  <2>8. send_mu' = {} => p + D + (K + k) = L
    <3> SUFFICES ASSUME send_mu' = {} PROVE p + D + (K + k) = L
        OBVIOUS
    <3>1. b = <<>>
        BY <1>10
    <3>2. V - k = 0
        BY <1>6, <3>1
    <3> QED
        BY <1>5, <2>1, <2>5, <3>2
  <2>9. D' = D
      BY <1>2 DEF D
  <2> QED
      BY <1>2, <1>9, <2>2, <2>3, <2>5, <2>6, <2>7, <2>8, ZenonT(60) DEF Carried, D, L
<1>16. InStream(all, start, p)'
    BY <1>2, <1>14, <1>15, SameParse DEF InStream
<1> QED
    BY <1>11, <1>12, <1>13, <1>16 DEF IInv

\* The connection is shut down.
LEMMA ShutdownIInv == ASSUME IInv, Shutdown PROVE IInv'
<1>1. /\ shut' = TRUE /\ left' = [s \in Senders |-> <<>>] /\ send_mu' = {}
      /\ UNCHANGED <<sent, sock, data, pos, size, field, need, part, got, quit>>
    BY DEF Shutdown, reading
<1>2. <<>> \in Seq(Bytes)
    OBVIOUS
<1>3. left' \in [Senders -> Seq(Bytes)] /\ (\A s \in Senders : left'[s] = <<>>) /\ shut' \in BOOLEAN
    BY <1>1, <1>2, Zenon
<1>4. Types'
    BY <1>1, <1>3 DEF IInv, Types, TypeOK
<1>5. LockInv' /\ QuitInv'
  <2>1. LockInv'
      BY <1>1, <1>3, Zenon DEF LockInv
  <2>2. QuitInv'
      BY <1>1, Zenon DEF IInv, QuitInv
  <2> QED
      BY <2>1, <2>2
<1>6. PICK all \in Seq(Bytes), start \in [Nat -> Nat], p \in Nat : InStream(all, start, p)
    BY DEF IInv
<1>7. Carried(all, p)'
  <2>1. Carried(all, p)
      BY <1>6 DEF InStream
  <2>2. \A s \in Senders : \A j \in 1 .. Len(left'[s]) : FALSE
      BY <1>3
  <2> QED
      BY <1>1, <2>1, <2>2, Zenon DEF Carried
<1>8. InStream(all, start, p)'
    BY <1>1, <1>6, <1>7, SameParse DEF InStream
<1> QED
    BY <1>4, <1>5, <1>8 DEF IInv

-----------------------------------------------------------------------------
(* The reader                                                              *)

\* What is not parsed yet.
LEMMA RestIs ==
  ASSUME Types
  PROVE  /\ Rest \in Seq(Bytes) /\ Len(Rest) = Len(data) - pos
         /\ \A j \in 1 .. Len(data) - pos : Rest[j] = data[pos + j]
<1>1. data \in Seq(Bytes) /\ pos \in 0 .. Len(data)
    BY DEF Types, TypeOK
<1> QED
    BY <1>1, Pieces DEF Rest

\* fill has room for another byte without doubling, and the buffer does not
\* outgrow its limit.
LEMMA GrownIs ==
  ASSUME Types, need <= Largest, Len(data) - pos < need
  PROVE  /\ Grown \in Nat /\ Grown <= Largest /\ Len(Rest) < Grown /\ need <= Grown
<1> DEFINE D == Len(Rest)
<1>1. Len(Rest) = Len(data) - pos /\ D \in Nat
    BY RestIs, Lengths
<1>2. size \in Nat /\ size <= Largest /\ need \in Nat /\ D < need
    BY <1>1 DEF Types, TypeOK
<1> HIDE DEF D
<1>3. Grown = LET s == IF size < need THEN need ELSE size IN IF s = D THEN 2 * s ELSE s
    BY DEF Grown, D
<1>4. CASE size < need
    BY <1>1, <1>2, <1>3, <1>4 DEF D
<1>5. CASE ~(size < need)
    BY <1>1, <1>2, <1>3, <1>5 DEF D
<1> QED
    BY <1>4, <1>5

\* A recv takes k of the bytes in the socket.
LEMMA RecvIInv ==
  ASSUME IInv, quit = "no", Len(data) - pos < need, pos' = 0, size' = Grown,
         NEW k \in 0 .. Len(sock), k <= Grown - Len(Rest),
         data' = Rest \o SubSeq(sock, 1, k), sock' = SubSeq(sock, k + 1, Len(sock)),
         UNCHANGED quit, UNCHANGED <<writing, field, need, part, got>>
  PROVE  IInv'
<1> DEFINE r == Rest
           a == SubSeq(sock, 1, k)
           b == SubSeq(sock, k + 1, Len(sock))
           D == Len(data) - pos
           K == Len(sock)
<1>1. /\ UNCHANGED <<left, send_mu, shut, sent, quit, field, need, part, got>> /\ pos' = 0
      /\ size' = Grown /\ data' = r \o a /\ sock' = b /\ k <= Grown - Len(r) /\ quit = "no"
    BY DEF writing
<1>2. D \in Nat /\ K \in Nat /\ k \in Nat /\ k <= K /\ sock \in Seq(Bytes)
    BY Lengths DEF IInv, Types, TypeOK
<1>3. /\ r \in Seq(Bytes) /\ Len(r) = D
      /\ \A j \in 1 .. D : r[j] = data[pos + j]
    BY RestIs DEF IInv
<1>4. /\ a \in Seq(Bytes) /\ Len(a) = k /\ \A i \in 1 .. k : a[i] = sock[i]
      /\ b \in Seq(Bytes) /\ Len(b) = K - k /\ \A i \in 1 .. K - k : b[i] = sock[k + i]
    BY <1>2, Pieces
<1>5. Grown \in Nat /\ Grown <= Largest
  <2>1. need <= Largest
      BY <1>1 DEF IInv, QuitInv
  <2> QED
      BY <2>1, GrownIs DEF IInv
<1> HIDE DEF r, a, b
<1>6. /\ data' \in Seq(Bytes) /\ Len(data') = D + k
      /\ \A i \in 1 .. D + k : data'[i] = IF i <= D THEN r[i] ELSE a[i - D]
  <2>1. /\ r \o a \in Seq(Bytes) /\ Len(r \o a) = Len(r) + Len(a)
        /\ \A i \in 1 .. Len(r) + Len(a) : (r \o a)[i] = IF i <= Len(r) THEN r[i] ELSE a[i - Len(r)]
      BY <1>3, <1>4, Joined, Zenon
  <2>2. Len(a) = k /\ Len(r) = D
      BY <1>3, <1>4
  <2> QED
      BY <1>1, <2>1, <2>2, Zenon
<1> HIDE DEF D, K
<1>7. Types'
  <2>1. pos' \in 0 .. Len(data') /\ Len(data') <= size' /\ size' \in Nat /\ size' <= Largest
      BY <1>1, <1>2, <1>3, <1>5, <1>6, SMTT(30)
  <2>2. K <= SockBuf /\ SockBuf \in Nat
      BY StreamAssumption DEF IInv, Types, TypeOK, K
  <2>3. Len(sock') <= SockBuf /\ sock' \in Seq(Bytes)
      BY <1>1, <1>2, <1>4, <2>2, SMTT(30)
  <2> QED
      BY <1>1, <1>6, <2>1, <2>3 DEF IInv, Types, TypeOK
<1>8. LockInv' /\ QuitInv'
  <2>1. LockInv'
      BY <1>1, Zenon DEF IInv, LockInv
  <2>2. QuitInv'
      BY <1>1 DEF IInv, QuitInv
  <2> QED
      BY <2>1, <2>2
<1>9. PICK all \in Seq(Bytes), start \in [Nat -> Nat], p \in Nat : InStream(all, start, p)
    BY DEF IInv
<1>10. Carried(all, p)'
  <2>1. /\ \A j \in 1 .. D : all[p + j] = data[pos + j]
        /\ \A j \in 1 .. K : all[p + D + j] = sock[j]
        /\ \A s \in Senders : \A j \in 1 .. Len(left[s]) : all[p + D + K + j] = left[s][j]
        /\ p + D + K <= Len(all)
        /\ ~shut /\ send_mu = {} => p + D + K = Len(all)
        /\ \A s \in send_mu : p + D + K + Len(left[s]) = Len(all)
      BY <1>9, Zenon DEF InStream, Carried, D, K
  <2>2. \A j \in 1 .. D + k : all[p + j] = data'[j]
    <3> SUFFICES ASSUME NEW j \in 1 .. D + k PROVE all[p + j] = data'[j]
        OBVIOUS
    <3>1. CASE j <= D
      <4>1. j \in 1 .. D
          BY <1>2, <3>1
      <4>2. data'[j] = r[j]
          BY <1>6, <3>1, Zenon
      <4> QED
          BY <1>3, <2>1, <4>1, <4>2
    <3>2. CASE ~(j <= D)
      <4>1. j - D \in 1 .. k /\ j - D \in 1 .. K /\ p + D + (j - D) = p + j
          BY <1>2, <3>2
      <4>2. data'[j] = sock[j - D]
          BY <1>4, <1>6, <3>2, <4>1, Zenon
      <4> QED
          BY <2>1, <4>1, <4>2
    <3> QED
        BY <3>1, <3>2
  <2>3. ASSUME NEW j \in 1 .. K - k PROVE all[p + (D + k) + j] = b[j]
    <3>1. k + j \in 1 .. K /\ p + (D + k) + j = p + D + (k + j)
        BY <1>2
    <3> QED
        BY <1>4, <2>1, <3>1
  <2>4. p + (D + k) + (K - k) = p + D + K
      BY <1>2
  <2>5. Len(data') - pos' = D + k /\ Len(sock') = K - k /\ sock' = b
    <3>1. \A x \in Nat : x - 0 = x
        OBVIOUS
    <3>2. D + k \in Nat
        BY <1>2
    <3> QED
        BY <1>1, <1>4, <1>6, <3>1, <3>2, Zenon
  <2>6. \A j \in 1 .. D + k : all[p + j] = data'[pos' + j]
    <3> SUFFICES ASSUME NEW j \in 1 .. D + k PROVE all[p + j] = data'[pos' + j]
        OBVIOUS
    <3>1. pos' + j = j
        BY <1>1, <1>2
    <3> QED
        BY <2>2, <3>1
  <2>7. p + (Len(data') - pos') + Len(sock') = p + D + K
      BY <2>4, <2>5, Zenon
  <2>8. \A j \in 1 .. Len(sock') : all[p + (Len(data') - pos') + j] = sock'[j]
      BY <2>3, <2>5, Zenon
  <2> DEFINE y == p + (Len(data') - pos') + Len(sock')
             z == p + D + K
  <2>9. /\ \A s \in Senders : \A j \in 1 .. Len(left[s]) : all[z + j] = left[s][j]
        /\ z <= Len(all)
        /\ ~shut /\ send_mu = {} => z = Len(all)
        /\ \A s \in send_mu : z + Len(left[s]) = Len(all)
      BY <2>1, Zenon
  <2>10. y = z
      BY <2>7
  <2> HIDE DEF y, z
  <2>11. /\ \A s \in Senders : \A j \in 1 .. Len(left'[s]) : all[y + j] = left'[s][j]
         /\ y <= Len(all)
         /\ ~shut' /\ send_mu' = {} => y = Len(all)
         /\ \A s \in send_mu' : y + Len(left'[s]) = Len(all)
      BY <1>1, <2>9, <2>10, Zenon
  <2>12. \A j \in 1 .. Len(data') - pos' : all[p + j] = data'[pos' + j]
      BY <2>5, <2>6, Zenon
  <2> QED
      BY <2>8, <2>11, <2>12, Zenon DEF Carried, y
<1>11. InStream(all, start, p)'
    BY <1>1, <1>9, <1>10, SameParse DEF InStream
<1> QED
    BY <1>7, <1>8, <1>11 DEF IInv

\* fill: some bytes arrive, or the connection has ended.
LEMMA FillIInv == ASSUME IInv, Fill PROVE IInv'
<1>1. /\ quit = "no" /\ Len(data) - pos < need /\ pos' = 0 /\ size' = Grown
      /\ UNCHANGED <<writing, field, need, part, got>>
    BY DEF Fill
<1>2. /\ Grown \in Nat /\ Grown <= Largest /\ Len(Rest) < Grown
  <2>1. need <= Largest
      BY <1>1 DEF IInv, QuitInv
  <2> QED
      BY <1>1, <2>1, GrownIs DEF IInv
<1>3. CASE /\ sock # <<>> /\ Grown > Len(Rest)
           /\ \E k \in 0 .. Len(sock) :
                /\ k <= Grown - Len(Rest)
                /\ data' = Rest \o SubSeq(sock, 1, k)
                /\ sock' = SubSeq(sock, k + 1, Len(sock))
           /\ UNCHANGED quit
    BY <1>1, <1>3, RecvIInv
<1>4. CASE /\ Grown = Len(Rest) \/ (sock = <<>> /\ shut)
           /\ quit' = "end" /\ data' = Rest /\ UNCHANGED sock
  <2> DEFINE D == Len(data) - pos
             r == Rest
  <2>1. /\ UNCHANGED <<left, send_mu, shut, sent, sock, field, need, part, got>> /\ pos' = 0
        /\ size' = Grown /\ data' = r /\ sock = <<>> /\ shut /\ quit' = "end" /\ quit = "no"
      BY <1>1, <1>2, <1>4 DEF writing
  <2>2. r \in Seq(Bytes) /\ Len(r) = D /\ \A j \in 1 .. D : r[j] = data[pos + j]
      BY RestIs DEF IInv
  <2>3. D \in Nat
      BY Lengths DEF IInv
  <2>4. Len(r) < Grown
      BY <1>2
  <2> HIDE DEF D, r
  <2>5. Types'
    <3>1. /\ pos' \in 0 .. Len(data') /\ Len(data') <= size' /\ size' \in Nat /\ size' <= Largest
          /\ data' \in Seq(Bytes)
        BY <1>2, <2>1, <2>2, <2>3, <2>4
    <3> QED
        BY <2>1, <3>1 DEF IInv, Types, TypeOK
  <2>6. LockInv'
      BY <2>1, Zenon DEF IInv, LockInv
  <2>7. QuitInv'
      BY <2>1 DEF IInv, QuitInv
  <2>8. PICK all \in Seq(Bytes), start \in [Nat -> Nat], p \in Nat : InStream(all, start, p)
      BY DEF IInv
  <2>9. Carried(all, p)'
    <3>1. /\ \A j \in 1 .. D : all[p + j] = data[pos + j]
          /\ \A j \in 1 .. Len(sock) : all[p + D + j] = sock[j]
          /\ \A s \in Senders : \A j \in 1 .. Len(left[s]) : all[p + D + Len(sock) + j] = left[s][j]
          /\ p + D + Len(sock) <= Len(all)
          /\ ~shut /\ send_mu = {} => p + D + Len(sock) = Len(all)
          /\ \A s \in send_mu : p + D + Len(sock) + Len(left[s]) = Len(all)
        BY <2>8, Zenon DEF InStream, Carried, D
    <3>2. Len(data') - pos' = D
        BY <2>1, <2>2, <2>3
    <3>3. \A j \in 1 .. D : all[p + j] = data'[pos' + j]
      <4> SUFFICES ASSUME NEW j \in 1 .. D PROVE all[p + j] = data'[pos' + j]
          OBVIOUS
      <4>1. pos' + j = j
          BY <2>1, <2>3
      <4> QED
          BY <2>1, <2>2, <3>1, <4>1
    <3> QED
        BY <2>1, <3>1, <3>2, <3>3, Zenon DEF Carried
  <2>10. InStream(all, start, p)'
      BY <2>1, <2>8, <2>9, SameParse DEF InStream
  <2> QED
      BY <2>5, <2>6, <2>7, <2>10 DEF IInv
<1> QED
    BY <1>3, <1>4 DEF Fill

\* A field is there whole and the reader moves past it.
LEMMA TakeField ==
  ASSUME IInv, NEW f, NEW next, NEW n, Take(f, next, n),
         NEW all \in Seq(Bytes), NEW start \in [Nat -> Nat], NEW p \in Nat, InStream(all, start, p)
  PROVE  /\ quit = "no" /\ field = f /\ need \in Nat /\ need <= Len(data) - pos
         /\ field' = next /\ need' = n
         /\ UNCHANGED <<left, send_mu, shut, sent, sock, data, size>>
         /\ pos' \in 0 .. Len(data')
         /\ LockInv' /\ Layout(all, start)'
         /\ p + need \in Nat
         /\ \A r : r = p + need => Carried(all, r)'
<1>1. /\ quit = "no" /\ field = f /\ need <= Len(data) - pos /\ pos' = pos + need
      /\ field' = next /\ need' = n
      /\ UNCHANGED <<left, send_mu, shut, sent, sock, data, size>>
  <2>1. Len(data) - pos \in Nat /\ need \in Nat
      BY Lengths DEF IInv, Types, TypeOK
  <2> QED
      BY <2>1 DEF Take, writing
<1> DEFINE D == Len(data) - pos
           K == Len(sock)
<1>2. D \in Nat /\ K \in Nat /\ need \in Nat /\ pos \in Nat /\ Len(data) \in Nat /\ pos <= Len(data)
    BY Lengths DEF IInv, Types, TypeOK
<1>3. pos' \in 0 .. Len(data')
    BY <1>1, <1>2
<1>4. LockInv' /\ Layout(all, start)'
  <2>1. LockInv'
      BY <1>1, Zenon DEF IInv, LockInv
  <2>2. Layout(all, start)'
      BY <1>1, Zenon DEF InStream, Layout
  <2> QED
      BY <2>1, <2>2
<1>5. ASSUME NEW r, r = p + need PROVE Carried(all, r)'
  <2>1. /\ \A j \in 1 .. D : all[p + j] = data[pos + j]
        /\ \A j \in 1 .. K : all[p + D + j] = sock[j]
        /\ \A s \in Senders : \A j \in 1 .. Len(left[s]) : all[p + D + K + j] = left[s][j]
        /\ p + D + K <= Len(all)
        /\ ~shut /\ send_mu = {} => p + D + K = Len(all)
        /\ \A s \in send_mu : p + D + K + Len(left[s]) = Len(all)
      BY Zenon DEF InStream, Carried
  <2>2. Len(data') - pos' = D - need /\ pos' = pos + need
      BY <1>1, <1>2
  <2>3. need <= D
      BY <1>1
  <2> HIDE DEF D, K
  <2>4. r + (D - need) = p + D
      BY <1>2, <1>5
  <2>5. \A j \in 1 .. D - need : all[r + j] = data[pos + need + j]
    <3> SUFFICES ASSUME NEW j \in 1 .. D - need PROVE all[r + j] = data[pos + need + j]
        OBVIOUS
    <3>1. need + j \in 1 .. D /\ r + j = p + (need + j) /\ pos + need + j = pos + (need + j)
        BY <1>2, <1>5, <2>3
    <3> QED
        BY <2>1, <3>1, Zenon
  <2> DEFINE y == r + (Len(data') - pos')
             z == p + D
  <2>6. /\ \A j \in 1 .. K : all[z + j] = sock[j]
        /\ \A s \in Senders : \A j \in 1 .. Len(left[s]) : all[z + K + j] = left[s][j]
        /\ z + K <= Len(all)
        /\ ~shut /\ send_mu = {} => z + K = Len(all)
        /\ \A s \in send_mu : z + K + Len(left[s]) = Len(all)
      BY <2>1, Zenon
  <2>7. y = z
      BY <2>2, <2>4
  <2> HIDE DEF y, z
  <2>8. /\ \A j \in 1 .. Len(sock') : all[y + j] = sock'[j]
        /\ \A s \in Senders : \A j \in 1 .. Len(left'[s]) : all[y + Len(sock') + j] = left'[s][j]
        /\ y + Len(sock') <= Len(all)
        /\ ~shut' /\ send_mu' = {} => y + Len(sock') = Len(all)
        /\ \A s \in send_mu' : y + Len(sock') + Len(left'[s]) = Len(all)
      BY <1>1, <2>6, <2>7, Zenon DEF K
  <2>9. \A j \in 1 .. Len(data') - pos' : all[r + j] = data'[pos' + j]
      BY <1>1, <2>2, <2>5, Zenon
  <2> QED
      BY <2>8, <2>9, Zenon DEF Carried, y
<1> QED
    BY <1>1, <1>2, <1>3, <1>4, <1>5

\* The frame that is being parsed is one that was sent.
LEMMA Current ==
  ASSUME Types, Len(got) < Len(sent)
  PROVE  /\ Len(got) + 1 \in 1 .. Len(sent) /\ (Len(got) + 1) - 1 = Len(got)
         /\ sent[Len(got) + 1] \in Frames
<1> DEFINE g == Len(got)
           n == Len(sent)
<1>1. g \in Nat /\ n \in Nat /\ g < n
    BY Lengths
<1> HIDE DEF g, n
<1>2. g + 1 \in 1 .. n /\ (g + 1) - 1 = g
    BY <1>1
<1>3. sent \in Seq(Frames)
    BY DEF Types
<1>4. \A i \in 1 .. n : sent[i] \in Frames
    BY <1>3, ElementOfSeq DEF n
<1>5. sent[g + 1] \in Frames
    BY <1>2, <1>4, Zenon
<1> QED
    BY <1>2, <1>5, Zenon DEF g, n

\* The reader is within the frame it parses: the bytes before it are that
\* frame's.
LEMMA ByteIs ==
  ASSUME Types,
         NEW all \in Seq(Bytes), NEW start \in [Nat -> Nat], NEW p \in Nat, InStream(all, start, p),
         Len(got) < Len(sent), NEW c \in Nat, p = start[Len(got)] + c,
         NEW j \in 1 .. Len(data) - pos, c + j <= Size(sent[Len(got) + 1])
  PROVE  data[pos + j] = build_frame(sent[Len(got) + 1])[c + j]
<1> DEFINE g == Len(got)
           n == Len(sent)
           S == Size(sent[g + 1])
<1>1. g \in Nat /\ n \in Nat /\ Len(data) - pos \in Nat
    BY Lengths
<1>2. j \in Nat /\ j >= 1
    BY <1>1
<1>3. g + 1 \in 1 .. n /\ (g + 1) - 1 = g
    BY Current, Zenon
<1>4. sent[g + 1] \in Frames
    BY Current, Zenon
<1>5. S \in Nat
    BY <1>4, FrameCode
<1>6. \A i \in 1 .. n : \A k \in 1 .. Size(sent[i]) : all[start[i - 1] + k] = build_frame(sent[i])[k]
    BY Zenon DEF InStream, Layout
<1>7. all[p + j] = data[pos + j]
    BY Zenon DEF InStream, Carried
<1> HIDE DEF g, n
<1>8. c + j \in 1 .. S
    BY <1>2, <1>5 DEF g
<1>9. start[g] \in Nat
    BY <1>1
<1>10. p + j = start[g] + (c + j)
  <2>1. p = start[g] + c
      BY Zenon DEF g
  <2>2. \A x, y, z \in Nat : (x + y) + z = x + (y + z)
      OBVIOUS
  <2>3. (start[g] + c) + j = start[g] + (c + j)
      BY <1>2, <1>9, <2>2, Zenon
  <2> QED
      BY <2>1, <2>3, Zenon
<1>11. all[start[(g + 1) - 1] + (c + j)] = build_frame(sent[g + 1])[c + j]
    BY <1>3, <1>6, <1>8, Zenon
<1> QED
    BY <1>3, <1>7, <1>10, <1>11, Zenon DEF g

\* The whole of a field of m bytes that begins after c bytes of the frame.
LEMMA FieldIs ==
  ASSUME Types,
         NEW all \in Seq(Bytes), NEW start \in [Nat -> Nat], NEW p \in Nat, InStream(all, start, p),
         Len(got) < Len(sent), NEW c \in Nat, p = start[Len(got)] + c,
         NEW t \in Seq(Bytes), need = Len(t), need <= Len(data) - pos,
         c + Len(t) <= Size(sent[Len(got) + 1]),
         \A j \in 1 .. Len(t) : build_frame(sent[Len(got) + 1])[c + j] = t[j]
  PROVE  SubSeq(Rest, 1, need) = t
<1> DEFINE f == sent[Len(got) + 1]
           r == Rest
           u == SubSeq(r, 1, need)
           D == Len(data) - pos
           m == Len(t)
<1>1. D \in Nat /\ m \in Nat /\ Len(got) \in Nat /\ Len(sent) \in Nat
    BY Lengths
<1>2. r \in Seq(Bytes) /\ Len(r) = D /\ \A j \in 1 .. D : r[j] = data[pos + j]
    BY RestIs
<1>3. Size(f) \in Nat
  <2>1. f \in Frames
      BY Current, Zenon
  <2> QED
      BY <2>1, FrameCode
<1>4. need = m /\ m <= D /\ need \in 0 .. Len(r)
    BY <1>1, <1>2
<1>5. u \in Seq(Bytes) /\ Len(u) = need /\ \A i \in 1 .. need : u[i] = r[i]
    BY <1>2, <1>4, Pieces
<1> HIDE DEF r, u
<1>6. ASSUME NEW j \in 1 .. m PROVE u[j] = t[j]
  <2>1. j \in 1 .. D /\ c + j <= Size(f)
    <3>1. c + m <= Size(f)
        OBVIOUS
    <3> HIDE DEF D, m, f
    <3> QED
        BY <1>1, <1>3, <1>4, <3>1
  <2>2. data[pos + j] = build_frame(f)[c + j]
      BY <2>1, ByteIs
  <2>3. u[j] = data[pos + j]
      BY <1>2, <1>4, <1>5, <2>1
  <2> QED
      BY <2>2, <2>3
<1>7. u = t
    BY <1>4, <1>5, <1>6, SeqEqual
<1> QED
    BY <1>7 DEF u, r

\* next reads the kind.
LEMMA TakeKindIInv == ASSUME IInv, TakeKind PROVE IInv'
<1>1. PICK all \in Seq(Bytes), start \in [Nat -> Nat], p \in Nat : InStream(all, start, p)
    BY DEF IInv
<1>2. Take("kind", "nlen", 2) /\ part' = [part EXCEPT !.kind = data[pos + 1]] /\ UNCHANGED <<got, quit>>
    BY DEF TakeKind
<1>3. /\ quit = "no" /\ field = "kind" /\ need \in Nat /\ need <= Len(data) - pos
      /\ field' = "nlen" /\ need' = 2
      /\ UNCHANGED <<left, send_mu, shut, sent, sock, data, size>>
      /\ pos' \in 0 .. Len(data')
      /\ LockInv' /\ Layout(all, start)'
      /\ p + need \in Nat /\ \A r : r = p + need => Carried(all, r)'
    BY <1>1, <1>2, TakeField
<1> DEFINE g == Len(got)
           n == Len(sent)
           D == Len(data) - pos
           f == sent[g + 1]
<1>4. g \in Nat /\ n \in Nat /\ D \in Nat /\ Len(all) \in Nat /\ Len(sock) \in Nat
    BY Lengths DEF IInv
<1>5. p = start[g] /\ need = 1 /\ g <= n /\ \A i \in 1 .. g : got[i] = sent[i]
    BY <1>1, <1>3 DEF InStream, Parsed
<1>6. g < n
  <2>1. start[n] = Len(all) /\ p + D + Len(sock) <= Len(all)
      BY <1>1, Zenon DEF InStream, Layout, Carried
  <2>2. need <= D
      BY <1>3
  <2> HIDE DEF g, n, D
  <2>3. CASE g = n
      BY <1>4, <1>5, <2>1, <2>2, <2>3
  <2> QED
      BY <1>4, <1>5, <2>3
<1>7. f \in Frames /\ Size(f) >= 5 /\ Size(f) \in Nat /\ f.kind \in Bytes /\ build_frame(f)[1] = f.kind
  <2>1. f \in Frames
      BY <1>6, Current DEF IInv
  <2> HIDE DEF f
  <2> QED
      BY <2>1, FrameCode
<1>8. data[pos + 1] = f.kind
  <2>1. 1 \in 1 .. Len(data) - pos
    <3>1. need <= D
        BY <1>3
    <3> HIDE DEF D
    <3>2. 1 \in 1 .. D
        BY <1>4, <1>5, <3>1
    <3> QED
        BY <3>2 DEF D
  <2>2. data[pos + 1] = build_frame(f)[0 + 1]
    <3>1. 0 + 1 <= Size(f) /\ 0 \in Nat /\ \A x \in Nat : x = x + 0
        BY <1>7
    <3>2. p = start[g] + 0
        BY <1>5, <3>1, Zenon
    <3>3. Types
        BY DEF IInv
    <3> QED
        BY <1>1, <1>6, <2>1, <3>1, <3>2, <3>3, ByteIs, Zenon
  <2> QED
      BY <1>7, <2>2
<1>9. part' \in [kind : Bytes, name : Seq(Bytes)] /\ part'.kind = f.kind
    BY <1>2, <1>7, <1>8 DEF IInv, Types
<1>10. Types'
    BY <1>2, <1>3, <1>9 DEF IInv, Types, TypeOK
<1>11. QuitInv'
  <2>1. 2 <= Largest
      BY StreamAssumption DEF Largest
  <2> QED
      BY <1>2, <1>3, <2>1 DEF IInv, QuitInv
<1>12. Parsed(start, p + 1)'
    BY <1>2, <1>3, <1>5, <1>6, <1>9 DEF Parsed
<1>13. InStream(all, start, p + 1)'
    BY <1>3, <1>5, <1>12 DEF InStream
<1> QED
    BY <1>3, <1>5, <1>10, <1>11, <1>13 DEF IInv

\* The two bytes of a length that begins after c bytes of the frame.
LEMMA LengthIs ==
  ASSUME Types,
         NEW all \in Seq(Bytes), NEW start \in [Nat -> Nat], NEW p \in Nat, InStream(all, start, p),
         Len(got) < Len(sent), NEW c \in Nat, p = start[Len(got)] + c,
         2 <= Len(data) - pos, c + 2 <= Size(sent[Len(got) + 1])
  PROVE  U32 = build_frame(sent[Len(got) + 1])[c + 1] + Base * build_frame(sent[Len(got) + 1])[c + 2]
<1> DEFINE f == sent[Len(got) + 1]
           D == Len(data) - pos
<1>1. D \in Nat /\ 2 <= D
    BY Lengths
<1>2. Size(f) \in Nat
  <2>1. f \in Frames
      BY Current, Zenon
  <2> QED
      BY <2>1, FrameCode
<1>3. c + 2 <= Size(f)
    OBVIOUS
<1> HIDE DEF f, D
<1>4. 1 \in 1 .. D /\ 2 \in 1 .. D /\ c + 1 <= Size(f)
    BY <1>1, <1>2, <1>3
<1>5. data[pos + 1] = build_frame(f)[c + 1]
    BY <1>4, ByteIs, Zenon DEF D, f
<1>6. data[pos + 2] = build_frame(f)[c + 2]
    BY <1>3, <1>4, ByteIs, Zenon DEF D, f
<1> QED
    BY <1>5, <1>6, Zenon DEF U32, f

\* The reader goes on with a length that is accepted, and stops at another.
LEMMA LengthQuit ==
  ASSUME NEW n \in Nat, need' = n, field' \in {"name", "payload"}, quit = "no", 
         quit' = IF TooLong(n) THEN "oversized" ELSE quit
  PROVE  QuitInv' /\ quit' \in {"no", "oversized"}
<1>1. MaxFrameBytes \in Nat /\ FirstSize \in Nat
    BY StreamAssumption
<1> QED
    BY <1>1 DEF QuitInv, TooLong, Largest

\* next reads the length of the name.
LEMMA TakeNameLengthIInv == ASSUME IInv, TakeLength("nlen", "name") PROVE IInv'
<1>1. PICK all \in Seq(Bytes), start \in [Nat -> Nat], p \in Nat : InStream(all, start, p)
    BY DEF IInv
<1>2. /\ Take("nlen", "name", U32) /\ quit' = IF TooLong(U32) THEN "oversized" ELSE quit
      /\ UNCHANGED <<part, got>>
    BY DEF TakeLength
<1>3. /\ quit = "no" /\ field = "nlen" /\ need \in Nat /\ need <= Len(data) - pos
      /\ field' = "name" /\ need' = U32
      /\ UNCHANGED <<left, send_mu, shut, sent, sock, data, size>>
      /\ pos' \in 0 .. Len(data')
      /\ LockInv' /\ Layout(all, start)'
      /\ p + need \in Nat /\ \A r : r = p + need => Carried(all, r)'
    BY <1>1, <1>2, TakeField
<1> DEFINE g == Len(got)
           n == Len(sent)
           f == sent[g + 1]
<1>4. /\ p = start[g] + 1 /\ need = 2 /\ g <= n /\ g < n /\ part.kind = f.kind
      /\ \A i \in 1 .. g : got[i] = sent[i]
    BY <1>1, <1>3 DEF InStream, Parsed
<1>5. Types
    BY DEF IInv
<1>6. f \in Frames
    BY <1>4, <1>5, Current
<1>7. U32 = Len(f.name) /\ Len(f.name) \in Nat
  <2>1. /\ Size(f) \in Nat /\ Size(f) >= 5 /\ f.name \in Seq(Bytes)
        /\ build_frame(f)[2] + Base * build_frame(f)[3] = Len(f.name)
      BY <1>6, FrameCode, Zenon
  <2>2. 1 + 2 <= Size(f) /\ 1 + 1 = 2 /\ 1 + 2 = 3 /\ 1 \in Nat
      BY <2>1
  <2>3. 2 <= Len(data) - pos
      BY <1>3, <1>4
  <2>4. U32 = build_frame(f)[1 + 1] + Base * build_frame(f)[1 + 2]
      BY <1>1, <1>4, <1>5, <2>2, <2>3, LengthIs, Zenon
  <2>5. Len(f.name) \in Nat
      BY <2>1, LenProperties, Zenon
  <2> QED
      BY <2>1, <2>2, <2>4, <2>5
<1>8. QuitInv' /\ quit' \in {"no", "oversized"}
    BY <1>2, <1>3, <1>7, LengthQuit
<1>9. Types'
    BY <1>2, <1>3, <1>5, <1>7, <1>8 DEF Types, TypeOK
<1>10. p + 2 = start[g] + 3 /\ p + 2 \in Nat
  <2>1. g \in Nat
      BY <1>5, Lengths
  <2>2. p = start[g] + 1
      BY <1>4
  <2> HIDE DEF g
  <2>3. start[g] \in Nat
      BY <2>1
  <2>4. \A x \in Nat : (x + 1) + 2 = x + 3 /\ (x + 1) + 2 \in Nat
      OBVIOUS
  <2> QED
      BY <2>2, <2>3, <2>4, Zenon
<1>11. Parsed(start, p + 2)'
    BY <1>2, <1>3, <1>4, <1>7, <1>10 DEF Parsed
<1>12. InStream(all, start, p + 2)'
    BY <1>3, <1>4, <1>11 DEF InStream
<1> QED
    BY <1>3, <1>8, <1>9, <1>10, <1>12 DEF IInv

\* next reads the name.
LEMMA TakeNameIInv == ASSUME IInv, TakeName PROVE IInv'
<1>1. PICK all \in Seq(Bytes), start \in [Nat -> Nat], p \in Nat : InStream(all, start, p)
    BY DEF IInv
<1>2. /\ Take("name", "plen", 2) /\ part' = [part EXCEPT !.name = SubSeq(Rest, 1, need)]
      /\ UNCHANGED <<got, quit>>
    BY DEF TakeName
<1>3. /\ quit = "no" /\ field = "name" /\ need \in Nat /\ need <= Len(data) - pos
      /\ field' = "plen" /\ need' = 2
      /\ UNCHANGED <<left, send_mu, shut, sent, sock, data, size>>
      /\ pos' \in 0 .. Len(data')
      /\ LockInv' /\ Layout(all, start)'
      /\ p + need \in Nat /\ \A r : r = p + need => Carried(all, r)'
    BY <1>1, <1>2, TakeField
<1> DEFINE g == Len(got)
           n == Len(sent)
           f == sent[g + 1]
<1>4. /\ p = start[g] + 3 /\ need = Len(f.name) /\ g <= n /\ g < n /\ part.kind = f.kind
      /\ \A i \in 1 .. g : got[i] = sent[i]
    BY <1>1, <1>3 DEF InStream, Parsed
<1>5. Types
    BY DEF IInv
<1>6. f \in Frames
    BY <1>4, <1>5, Current
<1>7. SubSeq(Rest, 1, need) = f.name /\ f.name \in Seq(Bytes)
  <2>1. /\ f.name \in Seq(Bytes) /\ f.payload \in Seq(Bytes)
        /\ \A j \in 1 .. Len(f.name) : build_frame(f)[3 + j] = f.name[j]
      BY <1>6, FrameCode, Zenon
  <2>2. 3 + Len(f.name) <= Size(f) /\ 3 \in Nat
    <3>1. Len(f.name) \in Nat /\ Len(f.payload) \in Nat
        BY <2>1, LenProperties, Zenon
    <3>2. \A x, y \in Nat : 3 + x <= 5 + x + y
        OBVIOUS
    <3> QED
        BY <3>1, <3>2, Zenon DEF Size
  <2>3. p = start[Len(got)] + 3 /\ need = Len(f.name) /\ Len(got) < Len(sent)
      BY <1>4
  <2>4. need <= Len(data) - pos
      BY <1>3
  <2>5. SubSeq(Rest, 1, need) = f.name
      BY <1>1, <1>5, <2>1, <2>2, <2>3, <2>4, FieldIs, ZenonT(60)
  <2> QED
      BY <2>1, <2>5
<1>8. part' \in [kind : Bytes, name : Seq(Bytes)] /\ part'.kind = f.kind /\ part'.name = f.name
  <2>1. part' = [part EXCEPT !.name = f.name] /\ part \in [kind : Bytes, name : Seq(Bytes)]
      BY <1>2, <1>5, <1>7 DEF Types
  <2> HIDE DEF f
  <2> QED
      BY <1>4, <1>7, <2>1
<1>9. Types'
    BY <1>2, <1>3, <1>5, <1>8 DEF Types, TypeOK
<1>10. QuitInv'
  <2>1. 2 <= Largest
      BY StreamAssumption DEF Largest
  <2> QED
      BY <1>2, <1>3, <2>1 DEF IInv, QuitInv
<1>11. PICK r \in Nat : r = p + need
    BY <1>3
<1>12. r = start[g] + 3 + Len(f.name)
    BY <1>4, <1>11, Zenon
<1>13. Parsed(start, r)'
    BY <1>2, <1>3, <1>4, <1>8, <1>12 DEF Parsed
<1>14. InStream(all, start, r)'
    BY <1>3, <1>11, <1>13 DEF InStream
<1> QED
    BY <1>3, <1>9, <1>10, <1>14 DEF IInv

\* next reads the length of the payload.
LEMMA TakePayloadLengthIInv == ASSUME IInv, TakeLength("plen", "payload") PROVE IInv'
<1>1. PICK all \in Seq(Bytes), start \in [Nat -> Nat], p \in Nat : InStream(all, start, p)
    BY DEF IInv
<1>2. /\ Take("plen", "payload", U32) /\ quit' = IF TooLong(U32) THEN "oversized" ELSE quit
      /\ UNCHANGED <<part, got>>
    BY DEF TakeLength
<1>3. /\ quit = "no" /\ field = "plen" /\ need \in Nat /\ need <= Len(data) - pos
      /\ field' = "payload" /\ need' = U32
      /\ UNCHANGED <<left, send_mu, shut, sent, sock, data, size>>
      /\ pos' \in 0 .. Len(data')
      /\ LockInv' /\ Layout(all, start)'
      /\ p + need \in Nat /\ \A r : r = p + need => Carried(all, r)'
    BY <1>1, <1>2, TakeField
<1> DEFINE g == Len(got)
           n == Len(sent)
           f == sent[g + 1]
           m == Len(f.name)
<1>4. /\ p = start[g] + 3 + m /\ need = 2 /\ g <= n /\ g < n
      /\ part.kind = f.kind /\ part.name = f.name
      /\ \A i \in 1 .. g : got[i] = sent[i]
    BY <1>1, <1>3 DEF InStream, Parsed
<1>5. Types
    BY DEF IInv
<1>6. f \in Frames
    BY <1>4, <1>5, Current
<1>7. start[g] \in Nat /\ m \in Nat /\ Len(f.payload) \in Nat
  <2>1. f.name \in Seq(Bytes) /\ f.payload \in Seq(Bytes)
      BY <1>6, FrameCode, Zenon
  <2>2. g \in Nat
      BY <1>5, Lengths
  <2>3. m \in Nat /\ Len(f.payload) \in Nat
      BY <2>1, LenProperties, Zenon
  <2> QED
      BY <2>2, <2>3
<1>8. \A x, y \in Nat : /\ x + 3 + y = x + (3 + y) /\ 3 + y \in Nat
                        /\ (3 + y) + 1 = y + 4 /\ (3 + y) + 2 = y + 5
                        /\ (x + 3 + y) + 2 = x + 5 + y /\ (x + 3 + y) + 2 \in Nat
    OBVIOUS
<1>9. \A y, z \in Nat : (3 + y) + 2 <= 5 + y + z
    OBVIOUS
<1>10. U32 = Len(f.payload)
  <2>1. build_frame(f)[m + 4] + Base * build_frame(f)[m + 5] = Len(f.payload)
      BY <1>6, FrameCode, Zenon
  <2>2. (3 + m) + 2 <= Size(f) /\ 3 + m \in Nat /\ p = start[Len(got)] + (3 + m)
    <3>1. (3 + m) + 2 <= Size(f)
        BY <1>7, <1>9, Zenon DEF Size
    <3> QED
        BY <1>4, <1>7, <1>8, <3>1, Zenon
  <2>3. 2 <= Len(data) - pos
      BY <1>3, <1>4
  <2>4. Len(got) < Len(sent)
      BY <1>4
  <2>5. U32 = build_frame(f)[(3 + m) + 1] + Base * build_frame(f)[(3 + m) + 2]
    <3> HIDE DEF m
    <3> QED
      BY <1>1, <1>5, <2>2, <2>3, <2>4, LengthIs, Zenon
  <2>6. (3 + m) + 1 = m + 4 /\ (3 + m) + 2 = m + 5
      BY <1>7, <1>8, Zenon
  <2> QED
      BY <2>1, <2>5, <2>6, Zenon
<1>11. QuitInv' /\ quit' \in {"no", "oversized"}
    BY <1>2, <1>3, <1>7, <1>10, LengthQuit
<1>12. Types'
    BY <1>2, <1>3, <1>5, <1>7, <1>10, <1>11 DEF Types, TypeOK
<1>13. p + 2 = start[g] + 5 + m /\ p + 2 \in Nat
    BY <1>4, <1>7, <1>8, Zenon
<1>14. Parsed(start, p + 2)'
    BY <1>2, <1>3, <1>4, <1>10, <1>13 DEF Parsed
<1>15. InStream(all, start, p + 2)'
    BY <1>3, <1>4, <1>14 DEF InStream
<1> QED
    BY <1>3, <1>11, <1>12, <1>13, <1>15 DEF IInv

\* next has the payload and returns the frame, which is the one that was sent.
LEMMA TakePayloadIInv == ASSUME IInv, TakePayload PROVE IInv'
<1>1. PICK all \in Seq(Bytes), start \in [Nat -> Nat], p \in Nat : InStream(all, start, p)
    BY DEF IInv
<1>2. /\ Take("payload", "kind", 1) /\ part' = NoPart /\ UNCHANGED quit
      /\ got' = Append(got, [kind |-> part.kind, name |-> part.name, payload |-> SubSeq(Rest, 1, need)])
    BY DEF TakePayload
<1>3. /\ quit = "no" /\ field = "payload" /\ need \in Nat /\ need <= Len(data) - pos
      /\ field' = "kind" /\ need' = 1
      /\ UNCHANGED <<left, send_mu, shut, sent, sock, data, size>>
      /\ pos' \in 0 .. Len(data')
      /\ LockInv' /\ Layout(all, start)'
      /\ p + need \in Nat /\ \A r : r = p + need => Carried(all, r)'
    BY <1>1, <1>2, TakeField
<1> DEFINE g == Len(got)
           n == Len(sent)
           f == sent[g + 1]
           m == Len(f.name)
<1>4. /\ p = start[g] + 5 + m /\ need = Len(f.payload) /\ g <= n /\ g < n
      /\ part.kind = f.kind /\ part.name = f.name
      /\ \A i \in 1 .. g : got[i] = sent[i]
    BY <1>1, <1>3 DEF InStream, Parsed
<1>5. Types
    BY DEF IInv
<1>6. f \in Frames /\ g + 1 \in 1 .. n /\ (g + 1) - 1 = g
    BY <1>4, <1>5, Current
<1>7. g \in Nat /\ n \in Nat /\ start[g] \in Nat /\ m \in Nat /\ Len(f.payload) \in Nat
  <2>1. f.name \in Seq(Bytes) /\ f.payload \in Seq(Bytes)
      BY <1>6, FrameCode, Zenon
  <2>2. g \in Nat /\ n \in Nat
      BY <1>5, Lengths
  <2>3. m \in Nat /\ Len(f.payload) \in Nat
      BY <2>1, LenProperties, Zenon
  <2> QED
      BY <2>2, <2>3
<1>8. SubSeq(Rest, 1, need) = f.payload
  <2>1. /\ f.payload \in Seq(Bytes)
        /\ \A j \in 1 .. Len(f.payload) : build_frame(f)[5 + m + j] = f.payload[j]
      BY <1>6, FrameCode, Zenon
  <2>2. 5 + m \in Nat /\ p = start[Len(got)] + (5 + m) /\ (5 + m) + Len(f.payload) <= Size(f)
    <3>1. \A x, y, z \in Nat : 5 + y \in Nat /\ x + 5 + y = x + (5 + y) /\ (5 + y) + z <= 5 + y + z
        OBVIOUS
    <3> QED
        BY <1>4, <1>7, <3>1, Zenon DEF Size
  <2>3. need = Len(f.payload) /\ need <= Len(data) - pos /\ Len(got) < Len(sent)
      BY <1>3, <1>4
  <2> HIDE DEF m
  <2> QED
      BY <1>1, <1>5, <2>1, <2>2, <2>3, FieldIs
<1>9. [kind |-> part.kind, name |-> part.name, payload |-> SubSeq(Rest, 1, need)] = f
  <2>1. f \in [kind : Bytes, name : Seq(Bytes), payload : Seq(Bytes)]
      BY <1>6, StreamAssumption
  <2> HIDE DEF f
  <2>2. f = [kind |-> f.kind, name |-> f.name, payload |-> f.payload]
      BY <2>1
  <2> QED
      BY <1>4, <1>8, <2>2
<1>10. /\ got' \in Seq(Frames) /\ Len(got') = g + 1 /\ got'[g + 1] = f
       /\ \A i \in 1 .. g : got'[i] = got[i]
  <2>1. got' = Append(got, f) /\ got \in Seq(Frames)
      BY <1>2, <1>5, <1>9 DEF Types
  <2>2. f \in Frames
      BY <1>6
  <2> HIDE DEF f
  <2> QED
      BY <2>1, <2>2
<1>11. Types'
  <2>1. part' \in [kind : Bytes, name : Seq(Bytes)]
    <3>1. 0 \in Bytes
        BY StreamAssumption DEF Bytes
    <3> QED
        BY <1>2, <3>1 DEF NoPart
  <2> QED
      BY <1>2, <1>3, <1>5, <1>10, <2>1 DEF Types, TypeOK
<1>12. QuitInv'
  <2>1. 1 <= Largest
      BY StreamAssumption DEF Largest
  <2> QED
      BY <1>2, <1>3, <2>1 DEF IInv, QuitInv
<1>13. PICK r \in Nat : r = p + need
    BY <1>3
<1>14. r = start[g + 1]
  <2>1. start[g + 1] = start[g] + Size(f)
    <3>1. \A i \in 1 .. n : start[i] = start[i - 1] + Size(sent[i])
        BY <1>1, Zenon DEF InStream, Layout
    <3> HIDE DEF g, n
    <3> QED
        BY <1>6, <3>1, Zenon
  <2>2. \A x, y, z \in Nat : (x + 5 + y) + z = x + (5 + y + z)
      OBVIOUS
  <2>3. r = (start[g] + 5 + m) + Len(f.payload)
      BY <1>4, <1>13, Zenon
  <2>4. (start[g] + 5 + m) + Len(f.payload) = start[g] + (5 + m + Len(f.payload))
    <3> DEFINE x == start[g]
               z == Len(f.payload)
    <3>1. x \in Nat /\ m \in Nat /\ z \in Nat
        BY <1>7
    <3> HIDE DEF x, m, z
    <3>2. (x + 5 + m) + z = x + (5 + m + z)
        BY <2>2, <3>1
    <3> QED
        BY <3>2 DEF x, z
  <2>5. Size(f) = 5 + m + Len(f.payload)
      BY DEF Size
  <2> QED
      BY <2>1, <2>3, <2>4, <2>5, Zenon
<1>15. \A i \in 1 .. g + 1 : got'[i] = sent'[i]
  <2> SUFFICES ASSUME NEW i \in 1 .. g + 1 PROVE got'[i] = sent[i]
      BY <1>3
  <2>1. CASE i = g + 1
      BY <1>10, <2>1, Zenon
  <2>2. CASE i # g + 1
    <3>1. i \in 1 .. g
      <4>1. g \in Nat /\ i \in 1 .. g + 1 /\ i # g + 1
          BY <1>7, <2>2
      <4> HIDE DEF g
      <4> QED
          BY <4>1
    <3> QED
        BY <1>4, <1>10, <3>1, Zenon
  <2> QED
      BY <2>1, <2>2
<1>16. Parsed(start, r)'
  <2>1. g + 1 <= n
      BY <1>6, <1>7
  <2>2. sent' = sent /\ Len(got') = g + 1 /\ field' = "kind" /\ need' = 1
      BY <1>3, <1>10
  <2> HIDE DEF f, g
  <2> QED
      BY <1>14, <1>15, <2>1, <2>2 DEF Parsed
<1>17. InStream(all, start, r)'
    BY <1>3, <1>13, <1>16 DEF InStream
<1> QED
    BY <1>3, <1>11, <1>12, <1>17 DEF IInv

-----------------------------------------------------------------------------
(* The theorems                                                            *)

\* Every step keeps the invariant.
LEMMA NextIInv == ASSUME IInv, [Next]_vars PROVE IInv'
<1>1. CASE UNCHANGED vars
  <2>1. UNCHANGED <<left, send_mu, shut, sent, sock, data, pos, size, field, need, part, got, quit>>
      BY <1>1 DEF vars, writing, reading
  <2>2. Types' /\ LockInv' /\ QuitInv'
    <3>1. Types'
        BY <2>1 DEF IInv, Types, TypeOK
    <3>2. LockInv' /\ QuitInv'
        BY <2>1, Zenon DEF IInv, LockInv, QuitInv
    <3> QED
        BY <3>1, <3>2
  <2>3. PICK all \in Seq(Bytes), start \in [Nat -> Nat], p \in Nat : InStream(all, start, p)
      BY DEF IInv
  <2>4. Carried(all, p)'
      BY <2>1, <2>3, Zenon DEF InStream, Carried
  <2>5. InStream(all, start, p)'
      BY <2>1, <2>3, <2>4, SameParse DEF InStream
  <2> QED
      BY <2>2, <2>5 DEF IInv
<1>2. ASSUME NEW s \in Senders, Write(s) PROVE IInv'
    BY <1>2, WriteIInv
<1>3. ASSUME NEW s \in Senders, NEW f \in Frames, BeginSend(s, f) PROVE IInv'
    BY <1>3, BeginSendIInv
<1>4. CASE Shutdown
    BY <1>4, ShutdownIInv
<1>5. CASE Fill
    BY <1>5, FillIInv
<1>6. CASE TakeKind
    BY <1>6, TakeKindIInv
<1>7. CASE TakeLength("nlen", "name")
    BY <1>7, TakeNameLengthIInv
<1>8. CASE TakeName
    BY <1>8, TakeNameIInv
<1>9. CASE TakeLength("plen", "payload")
    BY <1>9, TakePayloadLengthIInv
<1>10. CASE TakePayload
    BY <1>10, TakePayloadIInv
<1> QED
    BY <1>1, <1>2, <1>3, <1>4, <1>5, <1>6, <1>7, <1>8, <1>9, <1>10, Zenon DEF Next, ReaderNext

\* The invariant holds.
LEMMA Invariance == Spec => []IInv
<1>1. Init => IInv
    BY InitIInv
<1>2. IInv /\ [Next]_vars => IInv'
    BY NextIInv
<1> QED
    BY <1>1, <1>2, PTL DEF Spec

\* Whatever length a sender announces, FrameReader's buffer stays within the
\* longest field it accepts, and holds what it has received
\* (transport.hpp:413).
THEOREM StreamTypeCorrect == Spec => []TypeOK
<1>1. IInv => TypeOK
    BY DEF IInv, Types
<1> QED
    BY <1>1, Invariance, PTL

\* Frames arrive whole, in order and unmixed, however many threads send,
\* however the writes and the receives are cut up and wherever a frame lies in
\* the reader's buffer; the reader ends only with the connection, or at a frame
\* that really is too long (transport.hpp:413, :435).
THEOREM FramesArriveIntact == Spec => []FramesIntact
<1>1. IInv => FramesIntact
  <2> SUFFICES ASSUME IInv PROVE FramesIntact
      OBVIOUS
  <2>1. PICK all \in Seq(Bytes), start \in [Nat -> Nat], p \in Nat : InStream(all, start, p)
      BY DEF IInv
  <2>2. Parsed(start, p)
      BY <2>1 DEF InStream
  <2>3. got \in Seq(Frames) /\ DOMAIN got = 1 .. Len(got)
      BY DEF IInv, Types
  <2>4. Len(got) <= Len(sent) /\ \A i \in DOMAIN got : got[i] = sent[i]
      BY <2>2, <2>3, Zenon DEF Parsed
  <2>5. quit = "end" => shut /\ sock = <<>>
      BY DEF IInv, QuitInv
  <2>6. quit = "oversized" => Len(got) < Len(sent) /\ Oversized(sent[Len(got) + 1])
    <3> SUFFICES ASSUME quit = "oversized"
                 PROVE  Len(got) < Len(sent) /\ Oversized(sent[Len(got) + 1])
        OBVIOUS
    <3>1. field \in {"name", "payload"} /\ need > MaxFrameBytes
        BY DEF IInv, QuitInv
    <3> QED
        BY <2>2, <3>1 DEF Parsed, Oversized
  <2> QED
      BY <2>4, <2>5, <2>6 DEF FramesIntact
<1> QED
    BY <1>1, Invariance, PTL
=============================================================================
