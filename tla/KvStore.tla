------------------------------ MODULE KvStore ------------------------------
(***************************************************************************)
(* The key-value store: the daemon's table, deadlines and watchers         *)
(* (src/include/server.hpp), the nodes' read-through caches that its       *)
(* pushes keep warm (src/include/node.hpp), and the connections between    *)
(* them, which may stall, break and be replaced, as may the daemon itself. *)
(*                                                                         *)
(* Every kv handler of the daemon holds kv_mu_ from its first read to its  *)
(* last push, so a handler is one step.  A connection carries each         *)
(* direction in order.  The daemon's socket buffer towards a node takes    *)
(* SendBuf frames; a frame that does not fit runs into the send timeout    *)
(* and the daemon shuts the connection down.                               *)
(***************************************************************************)
EXTENDS Integers, Sequences, FiniteSets, SequencesExt

CONSTANTS Nodes, Keys,
          IntModulus,    \* the counters' 2^64
          TTL,           \* ticks from a set with a ttl to its deadline
          SendBuf,       \* frames in flight to one node before a send times out
          MaxOps,        \* bound: requests sent in a behaviour
          MaxTime,       \* bound: clock ticks in a behaviour
          MaxRestarts,   \* bound: daemon restarts in a behaviour
          MaxConns,      \* bound: connections a node makes in a behaviour
          BLOB,          \* a value that is not an 8-byte integer
          ABSENT, NEVER, NONE

AllConns == Nodes \X (1 .. MaxConns)
Ints     == 0 .. IntModulus - 1
Values   == Ints \cup {BLOB}
Cells    == Values \cup {ABSENT}

ASSUME KvAssumption ==
  /\ IntModulus \in Nat \ {0, 1} /\ TTL \in Nat \ {0} /\ SendBuf \in Nat \ {0}
  /\ MaxOps \in Nat /\ MaxTime \in Nat /\ MaxRestarts \in Nat /\ MaxConns \in Nat
  /\ {BLOB, ABSENT, NEVER} \cap Ints = {} /\ BLOB # ABSENT
  /\ NONE \notin AllConns

VARIABLES
  \* daemon
  kv,          \* kv_: key -> value, ABSENT for no entry
  expires,     \* expires_: key -> deadline, NEVER for no entry
  watchers,    \* watchers_: key -> connections
  sweep,       \* the clock reading the sweeper took before kv_mu_, or NEVER
  now,         \* steady_clock
  restarts,
  \* connections
  up, down,    \* connection -> frames to the daemon, frames to the node
  open,        \* connections the daemon can still write to
  served,      \* connections whose reader thread runs (client_loop)
  \* nodes
  conn,        \* node -> the connection behind fd_, or NONE
  made,        \* node -> connections it made so far
  reader,      \* node -> where its reader thread is (run)
  watched,     \* kv_watched_: node -> keys its cache answers for
  cache,       \* kv_cache_: node -> key -> value, ABSENT for no entry
  ops

daemon == <<kv, expires, watchers, sweep, now, restarts>>
wires  == <<up, down, open, served>>
nodes  == <<conn, made, reader, watched, cache>>
vars   == <<daemon, wires, nodes, ops>>

Init ==
  /\ kv = [x \in Keys |-> ABSENT]
  /\ expires = [x \in Keys |-> NEVER]
  /\ watchers = [x \in Keys |-> {}]
  /\ sweep = NEVER /\ now = 0 /\ restarts = 0
  /\ up = [k \in AllConns |-> <<>>]
  /\ down = [k \in AllConns |-> <<>>]
  /\ open = {} /\ served = {}
  /\ conn = [n \in Nodes |-> NONE]
  /\ made = [n \in Nodes |-> 0]
  /\ reader = [n \in Nodes |-> "connect"]
  /\ watched = [n \in Nodes |-> {}]
  /\ cache = [n \in Nodes |-> [x \in Keys |-> ABSENT]]
  /\ ops = 0

-----------------------------------------------------------------------------
(* Node: the calls of its users                                            *)

\* Node::send: dropped in a reconnect window; a connection the daemon shut
\* down takes no frame either.
Send(n, f) ==
  /\ ops < MaxOps
  /\ conn[n] # NONE /\ conn[n] \in open
  /\ up' = [up EXCEPT ![conn[n]] = Append(@, f)]
  /\ ops' = ops + 1
  /\ UNCHANGED <<daemon, down, open, served, nodes>>

\* set and setnx without and with a ttl, del, incr by one.
Write(n, x) ==
  \/ Send(n, [op |-> "SET", key |-> x, val |-> BLOB])
  \/ Send(n, [op |-> "SETEX", key |-> x, val |-> BLOB])
  \/ Send(n, [op |-> "DEL", key |-> x])
  \/ Send(n, [op |-> "INCR", key |-> x])
  \/ \E ttl \in BOOLEAN : Send(n, [op |-> "SETNX", key |-> x, val |-> BLOB, ttl |-> ttl])

\* get: a watched key is answered from the cache, another one is asked for.
Get(n, x) == x \notin watched[n] /\ Send(n, [op |-> "GET", key |-> x])

-----------------------------------------------------------------------------
(* Daemon: sending                                                         *)

\* Each connection k is sent the frames fs[k].  Those that fit are delivered;
\* the first that does not runs into SO_SNDTIMEO, and the daemon shuts down.
Fits(k, fs) == Len(down[k] \o fs[k]) <= SendBuf
Sent(fs) ==
  /\ down' = [k \in AllConns |-> IF k \notin open THEN down[k]
                                 ELSE IF Fits(k, fs) THEN down[k] \o fs[k]
                                 ELSE SubSeq(down[k] \o fs[k], 1, SendBuf)]
  /\ open' = {k \in open : Fits(k, fs)}

Reply(x, v)   == [t |-> "REPLY", key |-> x, val |-> v]
Update(x, v)  == [t |-> "UPDATE", key |-> x, val |-> v]
Deleted(x)    == [t |-> "DEL", key |-> x, val |-> ABSENT]
Result(x, ok) == [t |-> "RESULT", key |-> x, val |-> IF ok THEN 1 ELSE 0]

\* A push to every watcher of x, and then `extra` to connection r.
Push(x, f, r, extra) ==
  [k \in AllConns |-> (IF k \in watchers[x] THEN f ELSE <<>>) \o (IF k = r THEN extra ELSE <<>>)]

Due(x, t) == expires[x] # NEVER /\ expires[x] <= t

\* The push drop_if_expired makes on the way, if the key's time has passed.
Expiry(x) == IF Due(x, now) THEN <<Deleted(x)>> ELSE <<>>
Current(x) == IF Due(x, now) THEN ABSENT ELSE kv[x]

Deadline(ttl) == IF ttl THEN now + TTL ELSE NEVER

-----------------------------------------------------------------------------
(* Daemon: handle_frame, one action per verb, all under kv_mu_             *)

\* The reader thread of connection k takes the next frame.
Take(k, op) ==
  /\ k \in served /\ up[k] # <<>> /\ Head(up[k]).op = op
  /\ up' = [up EXCEPT ![k] = Tail(@)]
  /\ UNCHANGED <<sweep, now, restarts, served, nodes, ops>>

\* store(): value, deadline (a set without one clears the old), pushes.
HandleSet(k) ==
  \E op \in {"SET", "SETEX"} :
    /\ Take(k, op)
    /\ LET x == Head(up[k]).key  v == Head(up[k]).val IN
         /\ kv' = [kv EXCEPT ![x] = v]
         /\ expires' = [expires EXCEPT ![x] = Deadline(op = "SETEX")]
         /\ Sent(Push(x, <<Update(x, v)>>, NONE, <<>>))
    /\ UNCHANGED watchers

\* drop_key(), whether or not the key is there.
HandleDel(k) ==
  /\ Take(k, "DEL")
  /\ LET x == Head(up[k]).key IN
       /\ kv' = [kv EXCEPT ![x] = ABSENT]
       /\ expires' = [expires EXCEPT ![x] = NEVER]
       /\ Sent(Push(x, <<Deleted(x)>>, NONE, <<>>))
  /\ UNCHANGED watchers

\* Expire, register the watch, read and reply.
HandleGet(k) ==
  /\ Take(k, "GET")
  /\ LET x == Head(up[k]).key IN
       /\ kv' = [kv EXCEPT ![x] = Current(x)]
       /\ expires' = [expires EXCEPT ![x] = IF Due(x, now) THEN NEVER ELSE @]
       /\ watchers' = [watchers EXCEPT ![x] = @ \cup {k}]
       /\ Sent(Push(x, Expiry(x), k, <<Reply(x, Current(x))>>))

\* Mutant: incr pushes nothing to the watchers.
HandleIncrBug(k) ==
  /\ Take(k, "INCR")
  /\ LET x == Head(up[k]).key
         cur == IF Current(x) = ABSENT THEN 0 ELSE Current(x)
         ok == cur # BLOB
         sum == (cur + 1) % IntModulus
     IN  /\ kv' = [kv EXCEPT ![x] = IF ok THEN sum ELSE BLOB]
         /\ expires' = [expires EXCEPT ![x] = IF Due(x, now) THEN NEVER ELSE @]
         /\ Sent(Push(x, Expiry(x), k, <<Result(x, ok)>>))
  /\ UNCHANGED watchers

\* Mutant: the sum does not wrap around.
HandleIncrWideBug(k) ==
  /\ Take(k, "INCR")
  /\ LET x == Head(up[k]).key
         cur == IF Current(x) = ABSENT THEN 0 ELSE Current(x)
         ok == cur # BLOB
     IN  /\ kv' = [kv EXCEPT ![x] = IF ok THEN cur + 1 ELSE BLOB]
         /\ expires' = [expires EXCEPT ![x] = IF Due(x, now) THEN NEVER ELSE @]
         /\ Sent(Push(x, Expiry(x) \o (IF ok THEN <<Update(x, cur + 1)>> ELSE <<>>),
                      k, <<Result(x, ok)>>))
  /\ UNCHANGED watchers

\* A type error on anything but an integer; else the sum, wrapping around,
\* with the deadline left alone.
HandleIncr(k) ==
  /\ Take(k, "INCR")
  /\ LET x == Head(up[k]).key
         cur == IF Current(x) = ABSENT THEN 0 ELSE Current(x)
         ok == cur # BLOB
         sum == (cur + 1) % IntModulus
     IN  /\ kv' = [kv EXCEPT ![x] = IF ok THEN sum ELSE BLOB]
         /\ expires' = [expires EXCEPT ![x] = IF Due(x, now) THEN NEVER ELSE @]
         /\ Sent(Push(x, Expiry(x) \o (IF ok THEN <<Update(x, sum)>> ELSE <<>>),
                      k, <<Result(x, ok)>>))
  /\ UNCHANGED watchers

\* Expire, then store, with the ttl if there is one, if the key is free.
HandleSetnx(k) ==
  /\ Take(k, "SETNX")
  /\ LET x == Head(up[k]).key
         v == Head(up[k]).val
         acquired == Current(x) = ABSENT
     IN  /\ kv' = [kv EXCEPT ![x] = IF acquired THEN v ELSE @]
         /\ expires' = [expires EXCEPT ![x] = IF acquired THEN Deadline(Head(up[k]).ttl)
                                             ELSE @]
         /\ Sent(Push(x, Expiry(x) \o (IF acquired THEN <<Update(x, v)>> ELSE <<>>),
                      k, <<Result(x, acquired)>>))
  /\ UNCHANGED watchers

Handle(k) == HandleSet(k) \/ HandleDel(k) \/ HandleGet(k) \/ HandleIncr(k) \/ HandleSetnx(k)

\* remove_client: the reader loop saw the end of its input, which a shutdown
\* of either side brings about once what was sent before is consumed.
RemoveClient(k) ==
  /\ k \in served \ open /\ up[k] = <<>>
  /\ served' = served \ {k}
  /\ watchers' = [x \in Keys |-> watchers[x] \ {k}]
  /\ UNCHANGED <<kv, expires, sweep, now, restarts, up, down, open, nodes, ops>>

-----------------------------------------------------------------------------
(* Daemon: the sweeper, the clock and a restart                            *)

\* sweep_loop reads the clock before it has kv_mu_ ...
SweepRead ==
  /\ sweep = NEVER
  /\ \E x \in Keys : Due(x, now)
  /\ sweep' = now
  /\ UNCHANGED <<kv, expires, watchers, now, restarts, wires, nodes, ops>>

\* Mutant: the sweep drops every key that has a deadline.
SweepDropBug ==
  /\ sweep # NEVER
  /\ LET due == {x \in Keys : expires[x] # NEVER} IN
       /\ kv' = [x \in Keys |-> IF x \in due THEN ABSENT ELSE kv[x]]
       /\ expires' = [x \in Keys |-> IF x \in due THEN NEVER ELSE expires[x]]
       /\ Sent([k \in AllConns |-> SetToSeq({Deleted(x) : x \in {y \in due : k \in watchers[y]}})])
  /\ sweep' = NEVER
  /\ UNCHANGED <<watchers, now, restarts, up, served, nodes, ops>>

\* ... and under it drops the keys that were due by then, telling each
\* watcher of each.
SweepDrop ==
  /\ sweep # NEVER
  /\ LET due == {x \in Keys : Due(x, sweep)} IN
       /\ kv' = [x \in Keys |-> IF x \in due THEN ABSENT ELSE kv[x]]
       /\ expires' = [x \in Keys |-> IF x \in due THEN NEVER ELSE expires[x]]
       /\ Sent([k \in AllConns |-> SetToSeq({Deleted(x) : x \in {y \in due : k \in watchers[y]}})])
  /\ sweep' = NEVER
  /\ UNCHANGED <<watchers, now, restarts, up, served, nodes, ops>>

Tick ==
  /\ now < MaxTime
  /\ now' = now + 1
  /\ UNCHANGED <<kv, expires, watchers, sweep, restarts, wires, nodes, ops>>

\* The daemon dies and another takes its place: the store lived in memory.
\* What it had already sent can still be read.
Restart ==
  /\ restarts < MaxRestarts
  /\ restarts' = restarts + 1
  /\ kv' = [x \in Keys |-> ABSENT]
  /\ expires' = [x \in Keys |-> NEVER]
  /\ watchers' = [x \in Keys |-> {}]
  /\ sweep' = NEVER
  /\ up' = [k \in AllConns |-> <<>>]
  /\ open' = {} /\ served' = {}
  /\ UNCHANGED <<now, down, nodes, ops>>

-----------------------------------------------------------------------------
(* Node: the reader thread (run)                                           *)

\* connect, or reconnect_backoff's success.
Connect(n) ==
  /\ reader[n] = "connect"
  /\ made[n] < MaxConns
  /\ made' = [made EXCEPT ![n] = @ + 1]
  /\ conn' = [conn EXCEPT ![n] = <<n, made[n] + 1>>]
  /\ open' = open \cup {<<n, made[n] + 1>>}
  /\ served' = served \cup {<<n, made[n] + 1>>}
  /\ reader' = [reader EXCEPT ![n] = "read"]
  /\ UNCHANGED <<daemon, up, down, watched, cache, ops>>

\* Mutant: the answer to an incr or setnx marks the key watched, as a reply
\* to a get does.
DeliverBug(n) ==
  /\ reader[n] = "read" /\ down[conn[n]] # <<>>
  /\ LET f == Head(down[conn[n]]) IN
       /\ watched' = [watched EXCEPT ![n] = IF f.t = "DEL" THEN @ ELSE @ \cup {f.key}]
       /\ cache' = [cache EXCEPT ![n][f.key] = f.val]
  /\ down' = [down EXCEPT ![conn[n]] = Tail(@)]
  /\ UNCHANGED <<daemon, up, open, served, conn, made, reader, ops>>

\* read_until_closed: a reply or an update makes the cache answer for the
\* key, a deletion empties the entry, a result touches neither.
Deliver(n) ==
  /\ reader[n] = "read" /\ down[conn[n]] # <<>>
  /\ LET f == Head(down[conn[n]]) IN
       /\ watched' = [watched EXCEPT ![n] =
                        IF f.t \in {"REPLY", "UPDATE"} THEN @ \cup {f.key} ELSE @]
       /\ cache' = [cache EXCEPT ![n][f.key] = IF f.t = "RESULT" THEN @ ELSE f.val]
  /\ down' = [down EXCEPT ![conn[n]] = Tail(@)]
  /\ UNCHANGED <<daemon, up, open, served, conn, made, reader, ops>>

\* The stream ended: close fd_.
LinkDown(n) ==
  /\ reader[n] = "read" /\ down[conn[n]] = <<>> /\ conn[n] \notin open
  /\ conn' = [conn EXCEPT ![n] = NONE]
  /\ reader' = [reader EXCEPT ![n] = "clear"]
  /\ UNCHANGED <<daemon, wires, made, watched, cache, ops>>

\* Mutant: the cache survives the connection that kept it warm.
DropCacheBug(n) ==
  /\ reader[n] = "clear"
  /\ reader' = [reader EXCEPT ![n] = "connect"]
  /\ UNCHANGED <<daemon, wires, conn, made, watched, cache, ops>>

\* The daemon's watches died with the link: the cache stops answering.
DropCache(n) ==
  /\ reader[n] = "clear"
  /\ watched' = [watched EXCEPT ![n] = {}]
  /\ cache' = [cache EXCEPT ![n] = [x \in Keys |-> ABSENT]]
  /\ reader' = [reader EXCEPT ![n] = "connect"]
  /\ UNCHANGED <<daemon, wires, conn, made, ops>>

\* ~Node: the reader thread is stopped and fd_ closed.
Close(n) ==
  /\ reader[n] = "read"
  /\ open' = open \ {conn[n]}
  /\ down' = [down EXCEPT ![conn[n]] = <<>>]
  /\ conn' = [conn EXCEPT ![n] = NONE]
  /\ reader' = [reader EXCEPT ![n] = "closed"]
  /\ watched' = [watched EXCEPT ![n] = {}]
  /\ cache' = [cache EXCEPT ![n] = [x \in Keys |-> ABSENT]]
  /\ UNCHANGED <<daemon, up, served, made, ops>>

-----------------------------------------------------------------------------
Next == \/ \E n \in Nodes, x \in Keys : Write(n, x) \/ Get(n, x)
        \/ \E k \in AllConns : Handle(k) \/ RemoveClient(k)
        \/ SweepRead \/ SweepDrop \/ Tick \/ Restart
        \/ \E n \in Nodes : Connect(n) \/ Deliver(n) \/ LinkDown(n) \/ DropCache(n) \/ Close(n)

Spec == Init /\ [][Next]_vars

\* The daemon's reader threads and its sweeper run (the sweep timer fires
\* every SWEEP_MS), and so does each node's reader thread.  Nobody has to
\* send anything or to reconnect.
Fairness == /\ \A k \in AllConns : WF_vars(Handle(k)) /\ WF_vars(RemoveClient(k))
            /\ WF_vars(SweepRead) /\ WF_vars(SweepDrop)
            /\ \A n \in Nodes : WF_vars(Deliver(n) \/ LinkDown(n) \/ DropCache(n))

FairSpec == Spec /\ Fairness

-----------------------------------------------------------------------------
(* Properties                                                              *)

ToDaemon == [op : {"SET", "SETEX"}, key : Keys, val : Values]
              \cup [op : {"SETNX"}, key : Keys, val : Values, ttl : BOOLEAN]
              \cup [op : {"DEL", "INCR", "GET"}, key : Keys]
ToNode   == [t : {"REPLY", "UPDATE", "DEL", "RESULT"}, key : Keys, val : Cells]

TypeOK ==
  /\ kv \in [Keys -> Cells]
  /\ expires \in [Keys -> Nat \cup {NEVER}]
  /\ watchers \in [Keys -> SUBSET AllConns]
  /\ sweep \in Nat \cup {NEVER}
  /\ now \in Nat /\ restarts \in Nat /\ ops \in Nat
  /\ up \in [AllConns -> Seq(ToDaemon)]
  /\ down \in [AllConns -> Seq(ToNode)]
  /\ open \in SUBSET served /\ served \in SUBSET AllConns
  /\ conn \in [Nodes -> AllConns \cup {NONE}]
  /\ made \in [Nodes -> 0 .. MaxConns]
  /\ reader \in [Nodes -> {"connect", "read", "clear", "closed"}]
  /\ watched \in [Nodes -> SUBSET Keys]
  /\ cache \in [Nodes -> [Keys -> Cells]]

\* A key a node's cache answers for is one the daemon pushes to that node's
\* present connection: through incr and setnx results, reconnects and daemon
\* restarts, a node never serves from a cache nobody refreshes.
WatchedMeansPushed ==
  \A n \in Nodes, x \in Keys :
     x \in watched[n] /\ conn[n] \in open => conn[n] \in watchers[x]

\* The last thing the daemon said about x on connection k, or the cached value
\* once all of it has been read.
Said(n, k, x) == {i \in 1 .. Len(down[k]) : down[k][i].key = x /\ down[k][i].t # "RESULT"}
LastWord(n, k, x) ==
  IF Said(n, k, x) = {} THEN cache[n][x]
  ELSE down[k][CHOOSE i \in Said(n, k, x) : \A j \in Said(n, k, x) : j <= i].val

\* The last word each watcher has been given about a key is the store's value:
\* no reply overtakes a later update, no expiry goes unannounced.
CacheCoherent ==
  \A n \in Nodes, x \in Keys :
     conn[n] \in open /\ conn[n] \in watchers[x] => LastWord(n, conn[n], x) = kv[x]

\* A key vanishes only by a del, a restart or at its deadline: a set that slips
\* in between the sweeper's look at the clock and its lock is not lost.
NoEarlyExpiry ==
  [][\A x \in Keys : kv[x] # ABSENT /\ kv'[x] = ABSENT
        => Due(x, now) \/ restarts' # restarts \/ \E k \in AllConns : HandleDel(k)]_vars

\* "Key absent means node gone": no node goes on reading a key from its cache
\* for ever once the key's deadline has passed or the store has lost it, be
\* the node's link healthy, stalled or broken.
Ghost(n, x) == /\ x \in watched[n] /\ cache[n][x] # ABSENT
               /\ kv[x] = ABSENT \/ Due(x, now)
ExpiryReachesCaches == \A n \in Nodes, x \in Keys : []<>~Ghost(n, x)
=============================================================================
