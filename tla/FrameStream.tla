---------------------------- MODULE FrameStream ----------------------------
(***************************************************************************)
(* How frames cross a socket (src/include/ipc/transport.hpp): threads that *)
(* share a connection build a frame and write it under the sender's lock,  *)
(* in as many pieces as the socket takes; the one reader of the other end  *)
(* receives what there is into a buffer that it compacts and grows, and    *)
(* parses frames out of it.                                                *)
(*                                                                         *)
(* A byte is a number below Base and a length field has two of them        *)
(* (u32: four bytes).  The data behind pos_ that fill moves or overwrites  *)
(* is left out: data is buf_[0 .. end_ - 1], so end_ is its length.        *)
(***************************************************************************)
EXTENDS Naturals, Sequences

CONSTANTS Senders,        \* threads that send on the connection
          Frames,         \* what they send: [kind, name, payload]
          Base,
          MaxFrameBytes,  \* MAX_FRAME_BYTES
          FirstSize,      \* the reader's first buffer, 4096 bytes
          SockBuf,        \* bytes the socket holds
          MaxSends        \* bound: frames sent in a behaviour

Bytes == 0 .. Base - 1

ASSUME StreamAssumption ==
  /\ Base \in Nat \ {0} /\ FirstSize \in Nat \ {0, 1} /\ SockBuf \in Nat \ {0}
  /\ MaxFrameBytes \in Nat /\ MaxSends \in Nat
  /\ Frames \subseteq [kind : Bytes, name : Seq(Bytes), payload : Seq(Bytes)]
  /\ \A f \in Frames : Len(f.name) < Base * Base /\ Len(f.payload) < Base * Base

VARIABLES
  left,      \* sender -> the bytes write_full has still to send
  send_mu,   \* the sender that holds the lock, or the empty set
  sock,      \* bytes in the socket
  shut,      \* the connection is shut down for sending
  sent,      \* history: the frames in the order of their locks
  data, pos, size,     \* the reader's buf_[0 .. end_ - 1], pos_ and buf_.size()
  field,     \* the field that next reads
  need,      \* the bytes it requires
  part,      \* the fields read so far
  got,       \* the frames that next has returned
  quit       \* why next returned false, or "no"

writing == <<left, send_mu, shut, sent>>
reading == <<data, pos, size, field, need, part, got, quit>>
vars    == <<writing, sock, reading>>

NoPart == [kind |-> 0, name |-> <<>>]

Init ==
  /\ left = [s \in Senders |-> <<>>] /\ send_mu = {} /\ shut = FALSE /\ sent = <<>>
  /\ sock = <<>>
  /\ data = <<>> /\ pos = 0 /\ size = FirstSize
  /\ field = "kind" /\ need = 1 /\ part = NoPart /\ got = <<>> /\ quit = "no"

-----------------------------------------------------------------------------
(* Sending                                                                 *)

append_u32(n)  == <<n % Base, n \div Base>>
build_frame(f) == <<f.kind>> \o append_u32(Len(f.name)) \o f.name
                    \o append_u32(Len(f.payload)) \o f.payload

\* Mutant: the lock is not taken.
LockBug(s) == UNCHANGED send_mu

Lock(s) == send_mu = {} /\ send_mu' = {s}

\* A frame is built and, once the lock is had, on its way.
BeginSend(s, f) ==
  /\ Len(sent) < MaxSends /\ left[s] = <<>> /\ ~shut
  /\ Lock(s)
  /\ left' = [left EXCEPT ![s] = build_frame(f)] /\ sent' = Append(sent, f)
  /\ UNCHANGED <<shut, sock, reading>>

\* Mutant: send is taken to have written everything.
WrittenBug(s, k) == <<>>

\* What is left when send has taken k bytes.
Written(s, k) == SubSeq(left[s], k + 1, Len(left[s]))

\* One send of write_full takes as much as it likes of what fits; with the
\* last byte the lock is released.
Write(s) ==
  /\ left[s] # <<>> /\ ~shut
  /\ \E k \in 1 .. Len(left[s]) :
        /\ Len(sock) + k <= SockBuf
        /\ sock' = sock \o SubSeq(left[s], 1, k)
        /\ left' = [left EXCEPT ![s] = Written(s, k)]
        /\ send_mu' = IF Written(s, k) = <<>> THEN {} ELSE send_mu
  /\ UNCHANGED <<shut, sent, reading>>

\* The connection is shut down: a send under way fails, no other begins.
Shutdown ==
  /\ ~shut /\ shut' = TRUE
  /\ left' = [s \in Senders |-> <<>>] /\ send_mu' = {}
  /\ UNCHANGED <<sent, sock, reading>>

-----------------------------------------------------------------------------
(* FrameReader                                                             *)

\* What is not parsed yet; fill moves it to the front.
Rest == SubSeq(data, pos + 1, Len(data))

\* fill grows to what is required, and doubles a full buffer.
Grown == LET s == IF size < need THEN need ELSE size
         IN  IF s = Len(Rest) THEN 2 * s ELSE s

\* fill: one recv, of any part of what there is, or of nothing when interrupted.
Fill ==
  /\ quit = "no" /\ Len(data) - pos < need
  /\ pos' = 0 /\ size' = Grown
  /\ \/ /\ sock # <<>> /\ Grown > Len(Rest)
        /\ \E k \in 0 .. Len(sock) :
              /\ k <= Grown - Len(Rest)
              /\ data' = Rest \o SubSeq(sock, 1, k)
              /\ sock' = SubSeq(sock, k + 1, Len(sock))
        /\ UNCHANGED quit
     \/ /\ Grown = Len(Rest) \/ (sock = <<>> /\ shut)
        /\ quit' = "end" /\ data' = Rest /\ UNCHANGED sock
  /\ UNCHANGED <<writing, field, need, part, got>>

\* read_u32, of the two bytes at pos.
U32 == data[pos + 1] + Base * data[pos + 2]

\* next: take a field that is there whole, and require the following one.
Take(f, next, n) ==
  /\ quit = "no" /\ field = f /\ Len(data) - pos >= need
  /\ field' = next /\ need' = n /\ pos' = pos + need
  /\ UNCHANGED <<writing, sock, data, size>>

\* Mutant: any length is accepted.
TooLongBug(n) == FALSE

TooLong(n) == n > MaxFrameBytes

TakeLength(f, next) ==
  /\ Take(f, next, U32)
  /\ quit' = IF TooLong(U32) THEN "oversized" ELSE quit
  /\ UNCHANGED <<part, got>>

TakeKind == Take("kind", "nlen", 2) /\ part' = [part EXCEPT !.kind = data[pos + 1]] /\ UNCHANGED <<got, quit>>
TakeName == Take("name", "plen", 2) /\ part' = [part EXCEPT !.name = SubSeq(Rest, 1, need)] /\ UNCHANGED <<got, quit>>

TakePayload ==
  /\ Take("payload", "kind", 1)
  /\ got' = Append(got, [kind |-> part.kind, name |-> part.name, payload |-> SubSeq(Rest, 1, need)])
  /\ part' = NoPart /\ UNCHANGED quit

-----------------------------------------------------------------------------
ReaderNext == Fill \/ TakeKind \/ TakeLength("nlen", "name") \/ TakeName
                \/ TakeLength("plen", "payload") \/ TakePayload

Next ==
  \/ \E s \in Senders : Write(s) \/ \E f \in Frames : BeginSend(s, f)
  \/ Shutdown \/ ReaderNext

Spec == Init /\ [][Next]_vars

\* A recv that has bytes to return is not interrupted for ever.
Received == Fill /\ (Len(data') - pos' > Len(data) - pos \/ quit' # "no")

\* The reader runs, and a send that has room goes on.
FairSpec == /\ Spec
            /\ WF_vars(ReaderNext) /\ SF_vars(Received)
            /\ \A s \in Senders : WF_vars(Write(s))

-----------------------------------------------------------------------------
Largest == IF MaxFrameBytes > FirstSize THEN MaxFrameBytes ELSE FirstSize

\* The buffer never holds more than its size, and its size not more than the
\* longest field accepted asks for, whatever length the sender announces (so
\* the doubling in fill, for a buffer that is full, is never needed).
TypeOK ==
  /\ left \in [Senders -> Seq(Bytes)] /\ send_mu \subseteq Senders /\ shut \in BOOLEAN
  /\ sock \in Seq(Bytes) /\ Len(sock) <= SockBuf
  /\ data \in Seq(Bytes) /\ pos \in 0 .. Len(data)
  /\ size \in Nat /\ Len(data) <= size /\ size <= Largest
  /\ field \in {"kind", "nlen", "name", "plen", "payload"} /\ need \in Nat
  /\ quit \in {"no", "end", "oversized"}

Oversized(f) == Len(f.name) > MaxFrameBytes \/ Len(f.payload) > MaxFrameBytes

\* Frames arrive whole, in order and unmixed (transport.hpp:413, 435), however
\* the sends of the threads and the receives are cut up; the reader gives up
\* only at the end of a connection that was shut down, or on a frame that is
\* too long, never because its buffer was full.
FramesIntact ==
  /\ Len(got) <= Len(sent) /\ \A i \in DOMAIN got : got[i] = sent[i]
  /\ quit = "end" => shut /\ sock = <<>>
  /\ quit = "oversized" => Len(got) < Len(sent) /\ Oversized(sent[Len(got) + 1])

\* Every frame arrives, unless the connection is shut down or refused.
AllArrive == \A n \in 1 .. MaxSends :
  (Len(sent) >= n) ~> (Len(got) >= n \/ shut \/ quit = "oversized")
=============================================================================
