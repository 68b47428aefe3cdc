---------------------------- MODULE KvStoreProofs ----------------------------
(***************************************************************************)
(* KvStore's safety properties, for any number of nodes, keys,             *)
(* connections, requests, ticks and restarts, and any counter width.       *)
(***************************************************************************)
EXTENDS KvStore, FiniteSetTheorems, SequenceTheorems, TLAPS

\* Only finitely many keys have a deadline; the sweeper looked at the clock at
\* some time in the past.
DeadlineInv == IsFiniteSet({x \in Keys : expires[x] # NEVER})
SweepInv    == sweep # NEVER => sweep <= now

\* fd_ is the last connection the node made, while the reader reads it, and the
\* cache answers for nothing when the reader comes to connect again.
ConnInv ==
  \A n \in Nodes :
    /\ IF reader[n] = "read" THEN made[n] \in 1 .. MaxConns /\ conn[n] = <<n, made[n]>>
       ELSE conn[n] = NONE
    /\ reader[n] = "connect" => watched[n] = {}

\* The daemon knows nothing of a connection that was not made yet, and watches
\* only for connections it serves.
FreshInv ==
  /\ \A n \in Nodes : \A i \in 1 .. MaxConns :
       i > made[n] => <<n, i>> \notin served /\ down[<<n, i>>] = <<>>
  /\ \A x \in Keys : watchers[x] \subseteq served

\* Whoever is sent a reply or an update is a watcher.
DownInv ==
  \A k \in open : \A i \in DOMAIN down[k] :
    down[k][i].t \in {"REPLY", "UPDATE"} => k \in watchers[down[k][i].key]

\* The frames of s that say something about x; the last of them says v.
About(s, x)   == {i \in 1 .. Len(s) : s[i].key = x /\ s[i].t # "RESULT"}
Ends(s, x, v) == \E i \in About(s, x) : s[i].val = v /\ \A j \in About(s, x) : j <= i

\* CacheCoherent without the CHOOSE of LastWord.
Coherent ==
  \A n \in Nodes, x \in Keys :
     conn[n] \in open /\ conn[n] \in watchers[x] =>
       \/ Ends(down[conn[n]], x, kv[x])
       \/ About(down[conn[n]], x) = {} /\ cache[n][x] = kv[x]

IInv == /\ TypeOK /\ DeadlineInv /\ SweepInv /\ ConnInv /\ FreshInv /\ DownInv
        /\ WatchedMeansPushed /\ Coherent

-----------------------------------------------------------------------------
(* What a stream says about a key                                          *)

\* The cells are distinct from one another.
LEMMA Distinct ==
  /\ IntModulus \in Nat /\ IntModulus > 1 /\ 0 \in Ints /\ 1 \in Ints
  /\ ABSENT \notin Values /\ BLOB \notin Ints
    BY KvAssumption DEF Values, Ints

\* Coherent says what CacheCoherent says.
LEMMA CoherentSuffices ==
  ASSUME TypeOK, ConnInv, Coherent
  PROVE  CacheCoherent
<1> SUFFICES ASSUME NEW n \in Nodes, NEW x \in Keys, conn[n] \in open, conn[n] \in watchers[x]
             PROVE  LastWord(n, conn[n], x) = kv[x]
    BY DEF CacheCoherent
<1> DEFINE k == conn[n]
           S == About(down[k], x)
<1>1. k \in AllConns /\ down[k] \in Seq(ToNode)
    BY DEF TypeOK
<1>3. LastWord(n, k, x) = IF S = {} THEN cache[n][x]
                          ELSE down[k][CHOOSE i \in S : \A j \in S : j <= i].val
    BY Zenon DEF LastWord, Said, About
<1>4. CASE S = {} /\ cache[n][x] = kv[x]
    BY <1>3, <1>4
<1>5. CASE Ends(down[k], x, kv[x])
  <2>1. PICK i \in S : down[k][i].val = kv[x] /\ \A j \in S : j <= i
      BY <1>5 DEF Ends
  <2> DEFINE c == CHOOSE m \in S : \A j \in S : j <= m
  <2>2. c \in S /\ \A j \in S : j <= c
      BY <2>1, Zenon
  <2>3. S \subseteq Nat
      BY <1>1 DEF About
  <2> HIDE DEF c, S
  <2>4. c <= i /\ i <= c /\ c \in Nat /\ i \in Nat
      BY <2>1, <2>2, <2>3, Zenon
  <2>5. c = i
      BY <2>4
  <2> QED
      BY <1>3, <2>1, <2>5, Zenon DEF c
<1> QED
    BY <1>4, <1>5 DEF Coherent

\* Appending one stream to another: the second has the last word, if it says
\* anything.
LEMMA ConcatWord ==
  ASSUME NEW s \in Seq(ToNode), NEW t \in Seq(ToNode), NEW x, NEW v
  PROVE  /\ s \o t \in Seq(ToNode)
         /\ Ends(t, x, v) => Ends(s \o t, x, v)
         /\ About(t, x) = {} /\ Ends(s, x, v) => Ends(s \o t, x, v)
         /\ About(t, x) = {} /\ About(s, x) = {} => About(s \o t, x) = {}
         /\ \A i \in DOMAIN (s \o t) : \/ \E j \in DOMAIN s : (s \o t)[i] = s[j]
                                       \/ \E j \in DOMAIN t : (s \o t)[i] = t[j]
<1> DEFINE u == s \o t
           a == Len(s)
           b == Len(t)
<1>1. /\ a \in Nat /\ b \in Nat /\ u \in Seq(ToNode)
      /\ DOMAIN s = 1 .. a /\ DOMAIN t = 1 .. b /\ DOMAIN u = 1 .. a + b
      /\ Len(s) = a /\ Len(t) = b /\ Len(u) = a + b
      /\ \A i \in 1 .. a : u[i] = s[i]
      /\ \A i \in 1 .. b : u[a + i] = t[i]
    OBVIOUS
<1> HIDE DEF u, a, b
<1>2. \A i \in 1 .. a + b : i \in 1 .. a \/ (i - a \in 1 .. b /\ u[i] = t[i - a])
    BY <1>1
<1>3. /\ \A i \in About(s, x) : i \in About(u, x) /\ u[i] = s[i] /\ i \in 1 .. a
      /\ \A i \in About(t, x) : a + i \in About(u, x) /\ u[a + i] = t[i] /\ i \in 1 .. b
      /\ \A i \in About(u, x) : i \in About(s, x) \/ (i - a \in About(t, x) /\ i \in 1 .. a + b)
  <2>1. \A i \in About(s, x) : i \in About(u, x) /\ u[i] = s[i] /\ i \in 1 .. a
      BY <1>1 DEF About
  <2>2. \A i \in About(t, x) : a + i \in About(u, x) /\ u[a + i] = t[i] /\ i \in 1 .. b
      BY <1>1 DEF About
  <2>3. \A i \in About(u, x) : i \in About(s, x) \/ (i - a \in About(t, x) /\ i \in 1 .. a + b)
    <3> SUFFICES ASSUME NEW i \in About(u, x)
                 PROVE  i \in About(s, x) \/ (i - a \in About(t, x) /\ i \in 1 .. a + b)
        OBVIOUS
    <3>1. i \in 1 .. a + b /\ u[i].key = x /\ u[i].t # "RESULT"
        BY <1>1 DEF About
    <3>2. CASE i \in 1 .. a
        BY <1>1, <3>1, <3>2 DEF About
    <3>3. CASE i - a \in 1 .. b /\ u[i] = t[i - a]
        BY <1>1, <3>1, <3>3 DEF About
    <3> QED
        BY <1>2, <3>1, <3>2, <3>3
  <2> QED
      BY <2>1, <2>2, <2>3
<1>4. ASSUME NEW i \in About(t, x), t[i].val = v, \A j \in About(t, x) : j <= i
      PROVE  Ends(u, x, v)
  <2>1. a + i \in About(u, x) /\ u[a + i].val = v
      BY <1>3, <1>4
  <2>2. \A j \in About(u, x) : j <= a + i
      BY <1>1, <1>3, <1>4
  <2> QED
      BY <2>1, <2>2 DEF Ends
<1>5. ASSUME About(t, x) = {} PROVE About(u, x) = About(s, x) /\ \A i \in About(s, x) : u[i] = s[i]
    BY <1>3, <1>5
<1>6. About(t, x) = {} /\ Ends(s, x, v) => Ends(u, x, v)
    BY <1>5, Zenon DEF Ends
<1>7. \A i \in DOMAIN u : \/ \E j \in DOMAIN s : u[i] = s[j]
                          \/ \E j \in DOMAIN t : u[i] = t[j]
    BY <1>1, <1>2
<1>8. Ends(t, x, v) => Ends(u, x, v)
    BY <1>4 DEF Ends
<1> QED
    BY <1>1, <1>5, <1>6, <1>7, <1>8, Zenon DEF u

\* Taking the first frame: if it was about x it goes into the cache.
LEMMA TailWord ==
  ASSUME NEW s \in Seq(ToNode), s # <<>>, NEW x, NEW v, NEW c, NEW d,
         Ends(s, x, v) \/ (About(s, x) = {} /\ c = v),
         Head(s).key = x /\ Head(s).t # "RESULT" => d = Head(s).val,
         ~(Head(s).key = x /\ Head(s).t # "RESULT") => d = c
  PROVE  Ends(Tail(s), x, v) \/ (About(Tail(s), x) = {} /\ d = v)
<1> DEFINE u == Tail(s)
<1>1. /\ Len(s) \in Nat /\ Len(s) >= 1 /\ DOMAIN s = 1 .. Len(s) /\ Head(s) = s[1]
      /\ Len(u) = Len(s) - 1 /\ \A i \in 1 .. Len(s) - 1 : u[i] = s[i + 1]
    OBVIOUS
<1> HIDE DEF u
<1>2. /\ \A i \in About(u, x) : i + 1 \in About(s, x) /\ i \in Nat \ {0}
      /\ \A i \in About(s, x) : i = 1 \/ (i - 1 \in About(u, x) /\ u[i - 1] = s[i])
      /\ About(s, x) \subseteq 1 .. Len(s)
    BY <1>1 DEF About
<1>3. CASE About(s, x) = {} /\ c = v
  <2>1. 1 \notin About(s, x)
      BY <1>3
  <2>2. d = v
      BY <1>1, <1>3, <2>1 DEF About
  <2>3. About(u, x) = {}
      BY <1>2, <1>3
  <2> QED
      BY <2>2, <2>3 DEF u
<1>4. ASSUME NEW i \in About(s, x), s[i].val = v, \A j \in About(s, x) : j <= i
      PROVE  Ends(u, x, v) \/ (About(u, x) = {} /\ d = v)
  <2>1. CASE i = 1
    <3>1. About(u, x) = {}
      <4> SUFFICES ASSUME NEW j \in About(u, x) PROVE FALSE
          OBVIOUS
      <4>1. j + 1 <= 1 /\ j \in Nat \ {0}
          BY <1>2, <1>4, <2>1
      <4> QED
          BY <4>1
    <3>2. d = v
        BY <1>1, <1>4, <2>1 DEF About
    <3> QED
        BY <3>1, <3>2
  <2>2. CASE i # 1
    <3>1. i - 1 \in About(u, x) /\ u[i - 1].val = v
        BY <1>2, <1>4, <2>2
    <3>2. \A j \in About(u, x) : j <= i - 1
        BY <1>2, <1>4
    <3> QED
        BY <3>1, <3>2, Zenon DEF Ends
  <2> QED
      BY <2>1, <2>2
<1>5. Ends(u, x, v) \/ (About(u, x) = {} /\ d = v)
    BY <1>3, <1>4, Zenon DEF Ends, u
<1> QED
    BY <1>5 DEF u

\* One frame.
LEMMA OneWord ==
  ASSUME NEW f \in ToNode
  PROVE  /\ <<f>> \in Seq(ToNode) /\ DOMAIN <<f>> = {1} /\ <<f>>[1] = f
         /\ \A x : f.key = x /\ f.t # "RESULT" => Ends(<<f>>, x, f.val)
         /\ \A x : ~(f.key = x /\ f.t # "RESULT") => About(<<f>>, x) = {}
<1>1. /\ <<f>> \in Seq(ToNode) /\ DOMAIN <<f>> = {1} /\ <<f>>[1] = f /\ 1 <= 1
      /\ 1 .. Len(<<f>>) = {1}
    OBVIOUS
<1>2. \A x : About(<<f>>, x) = IF f.key = x /\ f.t # "RESULT" THEN {1} ELSE {}
    BY <1>1, Zenon DEF About
<1> QED
    BY <1>1, <1>2 DEF Ends

\* No frame.
LEMMA NoWord ==
  /\ <<>> \in Seq(ToNode) /\ DOMAIN <<>> = {}
  /\ \A x : About(<<>>, x) = {}
    BY DEF About

-----------------------------------------------------------------------------
(* The daemon's steps                                                      *)

\* A connection that the daemon can still write to was sent everything.
LEMMA SentStep ==
  ASSUME TypeOK, NEW fs \in [AllConns -> Seq(ToNode)], Sent(fs)
  PROVE  /\ down' \in [AllConns -> Seq(ToNode)] /\ open' \subseteq open
         /\ \A k \in open' : down'[k] = down[k] \o fs[k]
         /\ \A k \in AllConns \ open : down'[k] = down[k]
<1>1. /\ open \subseteq AllConns /\ down \in [AllConns -> Seq(ToNode)]
      /\ SendBuf \in Nat
    BY KvAssumption DEF TypeOK
<1>2. ASSUME NEW s \in Seq(ToNode), ~(Len(s) <= SendBuf)
      PROVE  SubSeq(s, 1, SendBuf) \in Seq(ToNode)
    BY <1>1, <1>2
<1>3. ASSUME NEW k \in AllConns
      PROVE  (IF k \notin open THEN down[k]
              ELSE IF Fits(k, fs) THEN down[k] \o fs[k]
              ELSE SubSeq(down[k] \o fs[k], 1, SendBuf)) \in Seq(ToNode)
  <2>1. down[k] \in Seq(ToNode) /\ fs[k] \in Seq(ToNode)
      BY <1>1
  <2>2. down[k] \o fs[k] \in Seq(ToNode)
      BY <2>1
  <2> QED
      BY <1>2, <2>1, <2>2, Zenon DEF Fits
<1>4. down' \in [AllConns -> Seq(ToNode)]
    BY <1>3, Zenon DEF Sent
<1>5. open' \subseteq open /\ \A k \in open' : k \in AllConns /\ Fits(k, fs)
    BY <1>1, Zenon DEF Sent
<1>6. \A k \in open' : down'[k] = down[k] \o fs[k]
    BY <1>5, Zenon DEF Sent
<1>7. \A k \in AllConns \ open : down'[k] = down[k]
    BY Zenon DEF Sent
<1> QED
    BY <1>4, <1>5, <1>6, <1>7

\* A step in which the daemon changes its table and sends fs: it keeps the
\* invariant when only watchers get replies and updates, and when every watcher
\* that can be written to is told what the table now says.
LEMMA PushStep ==
  ASSUME IInv, NEW fs \in [AllConns -> Seq(ToNode)], Sent(fs),
         UNCHANGED <<served, nodes, now, restarts, ops>>,
         kv' \in [Keys -> Cells], expires' \in [Keys -> Nat \cup {NEVER}], DeadlineInv',
         sweep' \in {sweep, NEVER}, up' \in [AllConns -> Seq(ToDaemon)],
         watchers' \in [Keys -> SUBSET served],
         \A x \in Keys : watchers[x] \subseteq watchers'[x],
         \A k \in open : \A i \in DOMAIN fs[k] :
            fs[k][i].t \in {"REPLY", "UPDATE"} => k \in watchers'[fs[k][i].key],
         \A k \in open, x \in Keys : k \in watchers'[x] =>
            \/ Ends(fs[k], x, kv'[x])
            \/ About(fs[k], x) = {} /\ kv'[x] = kv[x] /\ k \in watchers[x]
  PROVE  IInv'
<1>1. /\ UNCHANGED <<served, conn, made, reader, watched, cache, now, restarts, ops>>
    BY DEF nodes
<1>2. /\ down' \in [AllConns -> Seq(ToNode)] /\ open' \subseteq open
      /\ \A k \in open' : down'[k] = down[k] \o fs[k]
      /\ \A k \in AllConns \ open : down'[k] = down[k]
    BY SentStep DEF IInv
<1>3. /\ open \subseteq served /\ served \subseteq AllConns
      /\ \A k \in AllConns : down[k] \in Seq(ToNode) /\ fs[k] \in Seq(ToNode)
    BY DEF IInv, TypeOK
<1>4. TypeOK'
  <2>1. watchers' \in [Keys -> SUBSET AllConns]
      BY <1>3
  <2>2. sweep' \in Nat \cup {NEVER} /\ open' \in SUBSET served
      BY <1>2, <1>3 DEF IInv, TypeOK
  <2> QED
      BY <1>1, <1>2, <2>1, <2>2 DEF IInv, TypeOK
<1>5. SweepInv'
    BY <1>1 DEF IInv, SweepInv
<1>6. ConnInv'
    BY <1>1, Zenon DEF IInv, ConnInv
<1>7. FreshInv'
  <2>1. ASSUME NEW n \in Nodes, NEW i \in 1 .. MaxConns, i > made[n]
        PROVE  <<n, i>> \notin served /\ down'[<<n, i>>] = <<>>
    <3>1. <<n, i>> \in AllConns
        BY DEF AllConns
    <3>2. <<n, i>> \notin served /\ down[<<n, i>>] = <<>>
        BY <2>1 DEF IInv, FreshInv
    <3> QED
        BY <1>2, <1>3, <3>1, <3>2
  <2> QED
      BY <1>1, <2>1 DEF FreshInv
<1>8. DownInv'
  <2> SUFFICES ASSUME NEW k \in open', NEW i \in DOMAIN (down[k] \o fs[k]),
                      (down[k] \o fs[k])[i].t \in {"REPLY", "UPDATE"}
               PROVE  k \in watchers'[(down[k] \o fs[k])[i].key]
      BY <1>2 DEF DownInv
  <2> DEFINE f == (down[k] \o fs[k])[i]
  <2>1. k \in open /\ k \in AllConns
      BY <1>2, <1>3
  <2>2. \/ \E j \in DOMAIN down[k] : f = down[k][j]
        \/ \E j \in DOMAIN fs[k] : f = fs[k][j]
      BY <1>3, <2>1, ConcatWord
  <2> HIDE DEF f
  <2>3. CASE \E j \in DOMAIN down[k] : f = down[k][j]
    <3>1. PICK j \in DOMAIN down[k] : f = down[k][j]
        BY <2>3
    <3>2. f \in ToNode
        BY <1>3, <2>1, <3>1
    <3>3. f.key \in Keys
        BY <3>2 DEF ToNode
    <3>4. k \in watchers[f.key]
        BY <2>1, <3>1, ZenonT(60) DEF IInv, DownInv, f
    <3> QED
        BY <3>3, <3>4 DEF f
  <2>4. CASE \E j \in DOMAIN fs[k] : f = fs[k][j]
      BY <2>1, <2>4, ZenonT(60) DEF f
  <2> QED
      BY <2>2, <2>3, <2>4
<1>9. WatchedMeansPushed'
    BY <1>1, <1>2 DEF IInv, WatchedMeansPushed
<1>10. Coherent'
  <2> SUFFICES ASSUME NEW n \in Nodes, NEW x \in Keys, conn[n] \in open', conn[n] \in watchers'[x]
               PROVE  \/ Ends(down[conn[n]] \o fs[conn[n]], x, kv'[x])
                      \/ About(down[conn[n]] \o fs[conn[n]], x) = {} /\ cache[n][x] = kv'[x]
      BY <1>1, <1>2, ZenonT(60) DEF Coherent
  <2> DEFINE k == conn[n]
  <2>1. k \in open /\ k \in AllConns
      BY <1>2, <1>3
  <2>2. down[k] \in Seq(ToNode) /\ fs[k] \in Seq(ToNode)
      BY <1>3, <2>1
  <2> DEFINE s == down[k]
             t == fs[k]
             v == kv'[x]
  <2>3. \/ Ends(t, x, v)
        \/ About(t, x) = {} /\ v = kv[x] /\ k \in watchers[x]
      BY <2>1
  <2>4. k \in watchers[x] => Ends(s, x, kv[x]) \/ (About(s, x) = {} /\ cache[n][x] = kv[x])
      BY <2>1 DEF IInv, Coherent
  <2> HIDE DEF s, t, v
  <2>5. /\ Ends(t, x, v) => Ends(s \o t, x, v)
        /\ About(t, x) = {} /\ Ends(s, x, v) => Ends(s \o t, x, v)
        /\ About(t, x) = {} /\ About(s, x) = {} => About(s \o t, x) = {}
      BY <2>2, ConcatWord DEF s, t
  <2>6. Ends(s \o t, x, v) \/ (About(s \o t, x) = {} /\ cache[n][x] = v)
      BY <2>3, <2>4, <2>5
  <2> QED
      BY <2>6 DEF s, t, v
<1> QED
    BY <1>4, <1>5, <1>6, <1>7, <1>8, <1>9, <1>10 DEF IInv

\* Every frame of s is about key x and has one of the types T.
Only(s, x, T) == \A i \in DOMAIN s : s[i].key = x /\ s[i].t \in T

\* Such streams, appended.
LEMMA OnlyConcat ==
  ASSUME NEW s \in Seq(ToNode), NEW t \in Seq(ToNode), NEW x, NEW T, NEW U,
         Only(s, x, T), Only(t, x, U)
  PROVE  /\ Only(s \o t, x, T \cup U)
         /\ \A y : y # x => About(s \o t, y) = {}
<1>1. \A i \in DOMAIN (s \o t) : \/ \E j \in DOMAIN s : (s \o t)[i] = s[j]
                                 \/ \E j \in DOMAIN t : (s \o t)[i] = t[j]
    BY ConcatWord
<1>2. Only(s \o t, x, T \cup U)
    BY <1>1, Zenon DEF Only
<1>3. \A i \in 1 .. Len(s \o t) : i \in DOMAIN (s \o t)
    OBVIOUS
<1> QED
    BY <1>2, <1>3, Zenon DEF Only, About

\* A handler of key x: the watchers are sent f and its client is sent extra.
LEMMA HandleStep ==
  ASSUME IInv, NEW k \in served, NEW op, Take(k, op),
         NEW x \in Keys, NEW v \in Cells, NEW e \in Nat \cup {NEVER},
         kv' = [kv EXCEPT ![x] = v], expires' = [expires EXCEPT ![x] = e],
         NEW f \in Seq(ToNode), NEW r, NEW extra \in Seq(ToNode), Sent(Push(x, f, r, extra)),
         Only(f, x, {"UPDATE", "DEL"}), Only(extra, x, {"REPLY", "RESULT"}),
         Ends(f, x, v) \/ (About(f, x) = {} /\ v = kv[x]),
         \/ watchers' = watchers /\ Only(extra, x, {"RESULT"})
         \/ watchers' = [watchers EXCEPT ![x] = @ \cup {k}] /\ r = k /\ Ends(extra, x, v)
  PROVE  IInv'
<1> DEFINE p(j) == IF j \in watchers[x] THEN f ELSE <<>>
           q(j) == IF j = r THEN extra ELSE <<>>
           fs == Push(x, f, r, extra)
<1>1. \A j \in AllConns : /\ fs[j] = p(j) \o q(j)
                          /\ p(j) \in Seq(ToNode) /\ q(j) \in Seq(ToNode)
    BY NoWord DEF Push
<1>2. fs \in [AllConns -> Seq(ToNode)]
  <2>1. \A j \in AllConns : p(j) \o q(j) \in Seq(ToNode)
      BY <1>1
  <2> QED
      BY <2>1 DEF Push
<1>3. /\ up' = [up EXCEPT ![k] = Tail(@)] /\ up[k] # <<>>
      /\ UNCHANGED <<sweep, now, restarts, served, nodes, ops>>
    BY DEF Take
<1>4. /\ served \subseteq AllConns /\ open \subseteq served /\ up \in [AllConns -> Seq(ToDaemon)]
      /\ kv \in [Keys -> Cells] /\ expires \in [Keys -> Nat \cup {NEVER}]
      /\ watchers \in [Keys -> SUBSET AllConns]
      /\ \A y \in Keys : watchers[y] \subseteq served
    BY DEF IInv, TypeOK, FreshInv
<1>5. up' \in [AllConns -> Seq(ToDaemon)]
  <2>1. Tail(up[k]) \in Seq(ToDaemon)
      BY <1>3, <1>4
  <2> QED
      BY <1>3, <1>4, <2>1
<1>6. /\ kv' \in [Keys -> Cells] /\ kv'[x] = v /\ \A y \in Keys \ {x} : kv'[y] = kv[y]
      /\ expires' \in [Keys -> Nat \cup {NEVER}] /\ \A y \in Keys \ {x} : expires'[y] = expires[y]
    BY <1>4
<1>7. DeadlineInv'
  <2> DEFINE D == {y \in Keys : expires[y] # NEVER}
  <2>1. IsFiniteSet(D)
      BY DEF IInv, DeadlineInv
  <2>2. IsFiniteSet(D \cup {x})
      BY <2>1, FS_AddElement
  <2>3. {y \in Keys : expires'[y] # NEVER} \in SUBSET (D \cup {x})
      BY <1>6
  <2>4. IsFiniteSet({y \in Keys : expires'[y] # NEVER})
      BY <2>2, <2>3, FS_Subset, Zenon
  <2> QED
      BY <2>4 DEF DeadlineInv
<1>8. /\ watchers' \in [Keys -> SUBSET served]
      /\ \A y \in Keys : watchers[y] \subseteq watchers'[y]
      /\ \A y \in Keys \ {x} : watchers'[y] = watchers[y]
      /\ \A j \in watchers'[x] : j \in watchers[x] \/ (j = r /\ Ends(extra, x, v))
      /\ Only(extra, x, {"RESULT"}) \/ r \in watchers'[x]
  <2>1. CASE watchers' = watchers /\ Only(extra, x, {"RESULT"})
      BY <1>4, <2>1
  <2>2. CASE watchers' = [watchers EXCEPT ![x] = @ \cup {k}] /\ r = k /\ Ends(extra, x, v)
      BY <1>4, <2>2
  <2> QED
      BY <2>1, <2>2
<1> HIDE DEF fs
<1>9. ASSUME NEW j \in AllConns
      PROVE  /\ Only(fs[j], x, {"UPDATE", "DEL", "REPLY", "RESULT"})
             /\ \A y : y # x => About(fs[j], y) = {}
  <2>1. Only(p(j), x, {"UPDATE", "DEL"}) /\ Only(q(j), x, {"REPLY", "RESULT"})
      BY NoWord, Zenon DEF Only
  <2> DEFINE s == p(j)
             t == q(j)
  <2>2. fs[j] = s \o t /\ s \in Seq(ToNode) /\ t \in Seq(ToNode)
      BY <1>1
  <2> HIDE DEF p, q, s, t
  <2>3. /\ Only(s \o t, x, {"UPDATE", "DEL"} \cup {"REPLY", "RESULT"})
        /\ \A y : y # x => About(s \o t, y) = {}
      BY <2>1, <2>2, OnlyConcat DEF s, t
  <2>4. {"UPDATE", "DEL"} \cup {"REPLY", "RESULT"} = {"UPDATE", "DEL", "REPLY", "RESULT"}
      OBVIOUS
  <2> QED
      BY <2>2, <2>3, <2>4, Zenon
<1>10. ASSUME NEW j \in open, NEW i \in DOMAIN fs[j], fs[j][i].t \in {"REPLY", "UPDATE"}
       PROVE  j \in watchers'[fs[j][i].key]
  <2>1. j \in AllConns /\ fs[j][i].key = x
      BY <1>4, <1>9 DEF Only
  <2>2. \/ \E m \in DOMAIN p(j) : fs[j][i] = p(j)[m]
        \/ \E m \in DOMAIN q(j) : fs[j][i] = q(j)[m]
    <3> DEFINE s == p(j)
               t == q(j)
    <3>1. fs[j] = s \o t /\ s \in Seq(ToNode) /\ t \in Seq(ToNode)
        BY <1>1, <2>1
    <3> HIDE DEF p, q, s, t
    <3>2. \A l \in DOMAIN (s \o t) : \/ \E m \in DOMAIN s : (s \o t)[l] = s[m]
                                     \/ \E m \in DOMAIN t : (s \o t)[l] = t[m]
        BY <3>1, ConcatWord
    <3> QED
        BY <3>1, <3>2, Zenon DEF s, t
  <2>3. CASE \E m \in DOMAIN p(j) : fs[j][i] = p(j)[m]
    <3>1. j \in watchers[x]
        BY <2>3, NoWord, Zenon
    <3> QED
        BY <1>8, <2>1, <3>1
  <2>4. CASE \E m \in DOMAIN q(j) : fs[j][i] = q(j)[m]
    <3>1. PICK m \in DOMAIN q(j) : fs[j][i] = q(j)[m]
        BY <2>4
    <3>2. j = r /\ m \in DOMAIN extra /\ fs[j][i] = extra[m]
        BY <3>1, NoWord, Zenon
    <3>3. extra[m].t # "UPDATE" /\ extra[m].t = "REPLY"
        BY <1>10, <3>2 DEF Only
    <3>4. ~Only(extra, x, {"RESULT"})
        BY <3>2, <3>3 DEF Only
    <3> QED
        BY <1>8, <2>1, <3>2, <3>4
  <2> QED
      BY <2>2, <2>3, <2>4
<1>11. ASSUME NEW j \in open, NEW y \in Keys, j \in watchers'[y]
       PROVE  \/ Ends(fs[j], y, kv'[y])
              \/ About(fs[j], y) = {} /\ kv'[y] = kv[y] /\ j \in watchers[y]
  <2>1. j \in AllConns
      BY <1>4
  <2>2. CASE y # x
      BY <1>6, <1>8, <1>9, <1>11, <2>1, <2>2
  <2>3. CASE y = x
    <3>1. /\ Ends(q(j), x, v) => Ends(fs[j], x, v)
          /\ About(q(j), x) = {} /\ Ends(p(j), x, v) => Ends(fs[j], x, v)
          /\ About(q(j), x) = {} /\ About(p(j), x) = {} => About(fs[j], x) = {}
      <4> DEFINE s == p(j)
                 t == q(j)
      <4>1. fs[j] = s \o t /\ s \in Seq(ToNode) /\ t \in Seq(ToNode)
          BY <1>1, <2>1
      <4> HIDE DEF p, q, s, t
      <4>2. /\ Ends(t, x, v) => Ends(s \o t, x, v)
            /\ About(t, x) = {} /\ Ends(s, x, v) => Ends(s \o t, x, v)
            /\ About(t, x) = {} /\ About(s, x) = {} => About(s \o t, x) = {}
          BY <4>1, ConcatWord
      <4> QED
          BY <4>1, <4>2, Zenon DEF s, t
    <3>2. Ends(q(j), x, v) \/ (About(q(j), x) = {} /\ j \in watchers[x])
      <4>1. CASE Only(extra, x, {"RESULT"}) /\ watchers' = watchers
        <5>1. About(extra, x) = {}
          <6>1. \A i \in 1 .. Len(extra) : i \in DOMAIN extra
              OBVIOUS
          <6> QED
              BY <4>1, <6>1 DEF Only, About
        <5> QED
            BY <1>11, <2>3, <4>1, <5>1, NoWord, Zenon
      <4>2. CASE r = k /\ Ends(extra, x, v)
        <5>1. j = r \/ j \in watchers[x]
            BY <1>8, <1>11, <2>3
        <5> QED
            BY <4>2, <5>1, NoWord, Zenon
      <4> QED
          BY <4>1, <4>2
    <3>3. j \in watchers[x] => p(j) = f
        OBVIOUS
    <3> HIDE DEF p, q
    <3> QED
        BY <1>6, <2>3, <3>1, <3>2, <3>3
  <2> QED
      BY <2>2, <2>3
<1> QED
    BY <1>2, <1>3, <1>5, <1>6, <1>7, <1>8, <1>10, <1>11, PushStep DEF fs

\* What the daemon's frames say.
LEMMA DaemonFrames ==
  ASSUME NEW x \in Keys
  PROVE  /\ \A v \in Cells : /\ <<Update(x, v)>> \in Seq(ToNode)
                             /\ Only(<<Update(x, v)>>, x, {"UPDATE", "DEL"})
                             /\ Ends(<<Update(x, v)>>, x, v)
         /\ \A v \in Cells : /\ <<Reply(x, v)>> \in Seq(ToNode)
                             /\ Only(<<Reply(x, v)>>, x, {"REPLY", "RESULT"})
                             /\ Ends(<<Reply(x, v)>>, x, v)
         /\ /\ <<Deleted(x)>> \in Seq(ToNode)
            /\ Only(<<Deleted(x)>>, x, {"UPDATE", "DEL"})
            /\ Ends(<<Deleted(x)>>, x, ABSENT)
         /\ \A ok \in BOOLEAN : /\ <<Result(x, ok)>> \in Seq(ToNode)
                                /\ Only(<<Result(x, ok)>>, x, {"REPLY", "RESULT"})
                                /\ Only(<<Result(x, ok)>>, x, {"RESULT"})
<1>1. ABSENT \in Cells /\ 0 \in Cells /\ 1 \in Cells
    BY Distinct DEF Cells, Values
<1>2. \A v \in Cells : LET f == Update(x, v) IN
        f \in ToNode /\ f.key = x /\ f.t = "UPDATE" /\ f.val = v
    BY DEF Update, ToNode
<1>3. \A v \in Cells : LET f == Reply(x, v) IN
        f \in ToNode /\ f.key = x /\ f.t = "REPLY" /\ f.val = v
    BY DEF Reply, ToNode
<1>4. LET f == Deleted(x) IN f \in ToNode /\ f.key = x /\ f.t = "DEL" /\ f.val = ABSENT
    BY <1>1 DEF Deleted, ToNode
<1>5. \A ok \in BOOLEAN : LET f == Result(x, ok) IN f \in ToNode /\ f.key = x /\ f.t = "RESULT"
  <2>1. \A ok \in BOOLEAN : (IF ok THEN 1 ELSE 0) \in Cells
      BY <1>1
  <2> QED
      BY <2>1 DEF Result, ToNode
<1>6. ASSUME NEW f \in ToNode, f.key = x
      PROVE  /\ <<f>> \in Seq(ToNode)
             /\ \A T : f.t \in T => Only(<<f>>, x, T)
             /\ f.t # "RESULT" => Ends(<<f>>, x, f.val)
  <2>1. /\ <<f>> \in Seq(ToNode) /\ DOMAIN <<f>> = {1} /\ <<f>>[1] = f
        /\ f.t # "RESULT" => Ends(<<f>>, x, f.val)
      BY <1>6, OneWord
  <2> QED
      BY <1>6, <2>1, Zenon DEF Only
<1>7. ASSUME NEW v \in Cells
      PROVE  /\ <<Update(x, v)>> \in Seq(ToNode)
             /\ Only(<<Update(x, v)>>, x, {"UPDATE", "DEL"})
             /\ Ends(<<Update(x, v)>>, x, v)
    BY <1>2, <1>6
<1>8. ASSUME NEW v \in Cells
      PROVE  /\ <<Reply(x, v)>> \in Seq(ToNode)
             /\ Only(<<Reply(x, v)>>, x, {"REPLY", "RESULT"})
             /\ Ends(<<Reply(x, v)>>, x, v)
    BY <1>3, <1>6
<1>9. /\ <<Deleted(x)>> \in Seq(ToNode)
      /\ Only(<<Deleted(x)>>, x, {"UPDATE", "DEL"})
      /\ Ends(<<Deleted(x)>>, x, ABSENT)
    BY <1>4, <1>6
<1>10. ASSUME NEW ok \in BOOLEAN
       PROVE  /\ <<Result(x, ok)>> \in Seq(ToNode)
              /\ Only(<<Result(x, ok)>>, x, {"REPLY", "RESULT"})
              /\ Only(<<Result(x, ok)>>, x, {"RESULT"})
    BY <1>5, <1>6
<1> QED
    BY <1>7, <1>8, <1>9, <1>10

\* The push that an expiry makes on the way, and what is left of the key.
LEMMA ExpiryFrames ==
  ASSUME TypeOK, NEW x \in Keys
  PROVE  /\ Current(x) \in Cells
         /\ Expiry(x) \in Seq(ToNode) /\ Only(Expiry(x), x, {"UPDATE", "DEL"})
         /\ \/ Ends(Expiry(x), x, ABSENT) /\ Current(x) = ABSENT /\ Due(x, now)
            \/ About(Expiry(x), x) = {} /\ Current(x) = kv[x] /\ ~Due(x, now)
         /\ (IF Due(x, now) THEN NEVER ELSE expires[x]) \in Nat \cup {NEVER}
<1>1. kv[x] \in Cells /\ ABSENT \in Cells /\ expires[x] \in Nat \cup {NEVER}
    BY DEF TypeOK, Cells
<1>2. CASE Due(x, now)
    BY <1>1, <1>2, DaemonFrames, Zenon DEF Current, Expiry
<1>3. CASE ~Due(x, now)
  <2>1. Only(<<>>, x, {"UPDATE", "DEL"})
      BY NoWord, Zenon DEF Only
  <2> QED
      BY <1>1, <1>3, <2>1, NoWord, Zenon DEF Current, Expiry
<1> QED
    BY <1>2, <1>3

\* The request that a handler has taken.
LEMMA Taken ==
  ASSUME TypeOK, NEW k \in AllConns, NEW op, Take(k, op)
  PROVE  LET h == Head(up[k]) IN
         /\ k \in served /\ h.op = op /\ h.key \in Keys
         /\ op \in {"SET", "SETEX", "SETNX"} => h.val \in Values
         /\ op = "SETNX" => h.ttl \in BOOLEAN
<1> DEFINE h == Head(up[k])
<1>1. k \in served /\ up[k] # <<>> /\ h.op = op /\ up[k] \in Seq(ToDaemon)
    BY DEF Take, TypeOK
<1>2. h \in ToDaemon
    BY <1>1
<1> HIDE DEF h
<1>3. /\ h.key \in Keys
      /\ h.op \in {"SET", "SETEX", "SETNX"} => h.val \in Values
      /\ h.op = "SETNX" => h.ttl \in BOOLEAN
    BY <1>2 DEF ToDaemon
<1> QED
    BY <1>1, <1>3 DEF h

\* A new deadline.
LEMMA DeadlineType ==
  ASSUME TypeOK, NEW ttl \in BOOLEAN
  PROVE  Deadline(ttl) \in Nat \cup {NEVER}
<1>1. now + TTL \in Nat
    BY KvAssumption DEF TypeOK
<1> QED
    BY <1>1 DEF Deadline

\* KV_SET and KV_SETEX.
LEMMA HandleSetIInv == ASSUME IInv, NEW k \in AllConns, HandleSet(k) PROVE IInv'
<1> DEFINE x == Head(up[k]).key
           v == Head(up[k]).val
<1>1. PICK op \in {"SET", "SETEX"} :
        /\ Take(k, op)
        /\ kv' = [kv EXCEPT ![x] = v]
        /\ expires' = [expires EXCEPT ![x] = Deadline(op = "SETEX")]
        /\ Sent(Push(x, <<Update(x, v)>>, NONE, <<>>))
    BY DEF HandleSet
<1>2. watchers' = watchers
    BY DEF HandleSet
<1>3. k \in served /\ x \in Keys /\ v \in Cells
    BY <1>1, Taken DEF IInv, Cells
<1>4. Deadline(op = "SETEX") \in Nat \cup {NEVER}
    BY DeadlineType DEF IInv
<1> HIDE DEF x, v
<1> DEFINE f == <<Update(x, v)>>
<1>5. f \in Seq(ToNode) /\ Only(f, x, {"UPDATE", "DEL"}) /\ Ends(f, x, v)
    BY <1>3, DaemonFrames
<1>6. <<>> \in Seq(ToNode) /\ Only(<<>>, x, {"REPLY", "RESULT"}) /\ Only(<<>>, x, {"RESULT"})
    BY NoWord, Zenon DEF Only
<1> HIDE DEF f
<1>7. Sent(Push(x, f, NONE, <<>>))
    BY <1>1 DEF f
<1> QED
    BY <1>1, <1>2, <1>3, <1>4, <1>5, <1>6, <1>7, HandleStep

\* KV_DEL.
LEMMA HandleDelIInv == ASSUME IInv, NEW k \in AllConns, HandleDel(k) PROVE IInv'
<1> DEFINE x == Head(up[k]).key
<1>1. /\ Take(k, "DEL")
      /\ kv' = [kv EXCEPT ![x] = ABSENT]
      /\ expires' = [expires EXCEPT ![x] = NEVER]
      /\ Sent(Push(x, <<Deleted(x)>>, NONE, <<>>))
      /\ watchers' = watchers
    BY DEF HandleDel
<1>2. k \in served /\ x \in Keys /\ ABSENT \in Cells
    BY <1>1, Taken DEF IInv, Cells
<1> HIDE DEF x
<1> DEFINE f == <<Deleted(x)>>
<1>3. f \in Seq(ToNode) /\ Only(f, x, {"UPDATE", "DEL"}) /\ Ends(f, x, ABSENT)
    BY <1>2, DaemonFrames
<1>4. <<>> \in Seq(ToNode) /\ Only(<<>>, x, {"REPLY", "RESULT"}) /\ Only(<<>>, x, {"RESULT"})
    BY NoWord, Zenon DEF Only
<1> HIDE DEF f
<1>5. Sent(Push(x, f, NONE, <<>>)) /\ NEVER \in Nat \cup {NEVER}
    BY <1>1 DEF f
<1> QED
    BY <1>1, <1>2, <1>3, <1>4, <1>5, HandleStep

\* KV_GET: the client becomes a watcher and gets the value.
LEMMA HandleGetIInv == ASSUME IInv, NEW k \in AllConns, HandleGet(k) PROVE IInv'
<1> DEFINE x == Head(up[k]).key
           e == IF Due(x, now) THEN NEVER ELSE expires[x]
<1>1. /\ Take(k, "GET")
      /\ kv' = [kv EXCEPT ![x] = Current(x)]
      /\ expires' = [expires EXCEPT ![x] = e]
      /\ watchers' = [watchers EXCEPT ![x] = @ \cup {k}]
      /\ Sent(Push(x, Expiry(x), k, <<Reply(x, Current(x))>>))
    BY DEF HandleGet
<1>2. k \in served /\ x \in Keys
    BY <1>1, Taken DEF IInv
<1>3. /\ Current(x) \in Cells
      /\ Expiry(x) \in Seq(ToNode) /\ Only(Expiry(x), x, {"UPDATE", "DEL"})
      /\ \/ Ends(Expiry(x), x, ABSENT) /\ Current(x) = ABSENT
         \/ About(Expiry(x), x) = {} /\ Current(x) = kv[x]
      /\ e \in Nat \cup {NEVER}
    BY <1>2, ExpiryFrames DEF IInv
<1> HIDE DEF x, e
<1> DEFINE extra == <<Reply(x, Current(x))>>
           v == Current(x)
           f == Expiry(x)
<1>4. /\ extra \in Seq(ToNode) /\ Only(extra, x, {"REPLY", "RESULT"}) /\ Ends(extra, x, v)
    BY <1>2, <1>3, DaemonFrames
<1>5. /\ kv' = [kv EXCEPT ![x] = v] /\ Sent(Push(x, f, k, extra))
      /\ f \in Seq(ToNode) /\ Only(f, x, {"UPDATE", "DEL"}) /\ v \in Cells
      /\ Ends(f, x, v) \/ (About(f, x) = {} /\ v = kv[x])
    BY <1>1, <1>3, Zenon
<1> HIDE DEF extra, v, f
<1> QED
    BY <1>1, <1>2, <1>3, <1>4, <1>5, HandleStep

\* KV_INCR: the sum wraps around.
LEMMA HandleIncrIInv == ASSUME IInv, NEW k \in AllConns, HandleIncr(k) PROVE IInv'
<1> DEFINE x == Head(up[k]).key
           e == IF Due(x, now) THEN NEVER ELSE expires[x]
           cur == IF Current(x) = ABSENT THEN 0 ELSE Current(x)
           sum == (cur + 1) % IntModulus
           ok == cur # BLOB
           v == IF ok THEN sum ELSE BLOB
           g == IF ok THEN <<Update(x, sum)>> ELSE <<>>
<1>1. /\ Take(k, "INCR") /\ watchers' = watchers
      /\ kv' = [kv EXCEPT ![x] = v] /\ expires' = [expires EXCEPT ![x] = e]
      /\ Sent(Push(x, Expiry(x) \o g, k, <<Result(x, ok)>>))
    BY DEF HandleIncr
<1>2. k \in served /\ x \in Keys
    BY <1>1, Taken DEF IInv
<1>3. /\ Current(x) \in Cells
      /\ Expiry(x) \in Seq(ToNode) /\ Only(Expiry(x), x, {"UPDATE", "DEL"})
      /\ \/ Ends(Expiry(x), x, ABSENT) /\ Current(x) = ABSENT
         \/ About(Expiry(x), x) = {} /\ Current(x) = kv[x]
      /\ e \in Nat \cup {NEVER}
    BY <1>2, ExpiryFrames DEF IInv
<1> HIDE DEF x, e
<1>4. /\ ok => cur \in Ints
      /\ ~ok => Current(x) = BLOB /\ BLOB # ABSENT
    BY <1>3, Distinct DEF Cells, Values
<1> HIDE DEF cur
<1>5. ok => sum \in Ints
    BY <1>4, Distinct DEF Ints
<1> HIDE DEF sum
<1>6. ok \in BOOLEAN /\ v \in Cells /\ (ok => v = sum) /\ (~ok => v = Current(x))
    BY <1>4, <1>5 DEF Cells, Values
<1>7. /\ g \in Seq(ToNode) /\ Only(g, x, {"UPDATE", "DEL"})
      /\ ok => Ends(g, x, v)
      /\ ~ok => g = <<>> /\ About(g, x) = {}
  <2>1. CASE ok
      BY <1>2, <1>6, <2>1, DaemonFrames
  <2>2. CASE ~ok
      BY <2>2, NoWord, Zenon DEF Only
  <2> QED
      BY <2>1, <2>2
<1> DEFINE f == Expiry(x) \o g
           extra == <<Result(x, ok)>>
<1>8. extra \in Seq(ToNode) /\ Only(extra, x, {"REPLY", "RESULT"}) /\ Only(extra, x, {"RESULT"})
    BY <1>2, <1>6, DaemonFrames
<1>9. Sent(Push(x, f, k, extra))
    BY <1>1
<1> HIDE DEF g, v, ok, extra
<1>10. /\ f \in Seq(ToNode) /\ Only(f, x, {"UPDATE", "DEL"})
  <2>1. Only(f, x, {"UPDATE", "DEL"} \cup {"UPDATE", "DEL"})
      BY <1>3, <1>7, OnlyConcat
  <2>2. {"UPDATE", "DEL"} \cup {"UPDATE", "DEL"} = {"UPDATE", "DEL"}
      OBVIOUS
  <2>3. f \in Seq(ToNode)
      BY <1>3, <1>7, ConcatWord
  <2> QED
      BY <2>1, <2>2, <2>3
<1>11. Ends(f, x, v) \/ (About(f, x) = {} /\ v = kv[x])
  <2>1. /\ Ends(g, x, v) => Ends(f, x, v)
        /\ About(g, x) = {} /\ About(Expiry(x), x) = {} => About(f, x) = {}
      BY <1>3, <1>7, ConcatWord
  <2>2. ~ok => Current(x) # ABSENT
      BY <1>4
  <2> QED
      BY <1>3, <1>6, <1>7, <2>1, <2>2
<1> HIDE DEF f
<1> QED
    BY <1>1, <1>2, <1>3, <1>6, <1>8, <1>9, <1>10, <1>11, HandleStep

\* KV_SETNX.
LEMMA HandleSetnxIInv == ASSUME IInv, NEW k \in AllConns, HandleSetnx(k) PROVE IInv'
<1> DEFINE x == Head(up[k]).key
           w == Head(up[k]).val
           ok == Current(x) = ABSENT
           v == IF ok THEN w ELSE kv[x]
           e == IF ok THEN Deadline(Head(up[k]).ttl) ELSE expires[x]
           g == IF ok THEN <<Update(x, w)>> ELSE <<>>
<1>1. /\ Take(k, "SETNX") /\ watchers' = watchers
      /\ kv' = [kv EXCEPT ![x] = v] /\ expires' = [expires EXCEPT ![x] = e]
      /\ Sent(Push(x, Expiry(x) \o g, k, <<Result(x, ok)>>))
    BY DEF HandleSetnx
<1>2. k \in served /\ x \in Keys /\ w \in Cells /\ Head(up[k]).ttl \in BOOLEAN
    BY <1>1, Taken DEF IInv, Cells
<1>3. /\ Expiry(x) \in Seq(ToNode) /\ Only(Expiry(x), x, {"UPDATE", "DEL"})
      /\ \/ Ends(Expiry(x), x, ABSENT) /\ Current(x) = ABSENT
         \/ About(Expiry(x), x) = {} /\ Current(x) = kv[x]
    BY <1>2, ExpiryFrames DEF IInv
<1>4. e \in Nat \cup {NEVER}
  <2>1. Deadline(Head(up[k]).ttl) \in Nat \cup {NEVER}
      BY <1>2, DeadlineType DEF IInv
  <2>2. expires[x] \in Nat \cup {NEVER}
      BY <1>2 DEF IInv, TypeOK
  <2> QED
      BY <2>1, <2>2
<1> HIDE DEF x, e, w
<1>5. ok \in BOOLEAN /\ v \in Cells /\ (ok => v = w) /\ (~ok => v = kv[x])
    BY <1>2 DEF IInv, TypeOK
<1>6. /\ g \in Seq(ToNode) /\ Only(g, x, {"UPDATE", "DEL"})
      /\ ok => Ends(g, x, v)
      /\ ~ok => About(g, x) = {} /\ About(Expiry(x), x) = {}
  <2>1. CASE ok
      BY <1>2, <1>5, <2>1, DaemonFrames
  <2>2. CASE ~ok
      BY <1>3, <2>2, NoWord, Zenon DEF Only
  <2> QED
      BY <2>1, <2>2
<1> DEFINE f == Expiry(x) \o g
           extra == <<Result(x, ok)>>
<1>7. extra \in Seq(ToNode) /\ Only(extra, x, {"REPLY", "RESULT"}) /\ Only(extra, x, {"RESULT"})
    BY <1>2, <1>5, DaemonFrames
<1>8. Sent(Push(x, f, k, extra))
    BY <1>1
<1> HIDE DEF g, v, ok, extra
<1>9. f \in Seq(ToNode) /\ Only(f, x, {"UPDATE", "DEL"})
  <2>1. Only(f, x, {"UPDATE", "DEL"} \cup {"UPDATE", "DEL"})
      BY <1>3, <1>6, OnlyConcat
  <2>2. {"UPDATE", "DEL"} \cup {"UPDATE", "DEL"} = {"UPDATE", "DEL"}
      OBVIOUS
  <2>3. f \in Seq(ToNode)
      BY <1>3, <1>6, ConcatWord
  <2> QED
      BY <2>1, <2>2, <2>3
<1>10. Ends(f, x, v) \/ (About(f, x) = {} /\ v = kv[x])
  <2>1. /\ Ends(g, x, v) => Ends(f, x, v)
        /\ About(g, x) = {} /\ About(Expiry(x), x) = {} => About(f, x) = {}
      BY <1>3, <1>6, ConcatWord
  <2> QED
      BY <1>5, <1>6, <2>1
<1> HIDE DEF f
<1> QED
    BY <1>1, <1>2, <1>4, <1>5, <1>7, <1>8, <1>9, <1>10, HandleStep

\* A step that leaves the table, the streams to the nodes and the nodes alone.
LEMMA QuietStep ==
  ASSUME IInv, UNCHANGED <<kv, expires, watchers, down, open, served, nodes>>,
         up' \in [AllConns -> Seq(ToDaemon)], sweep' \in Nat \cup {NEVER},
         now' \in Nat, restarts' \in Nat, ops' \in Nat, SweepInv'
  PROVE  IInv'
<1>1. /\ UNCHANGED <<kv, expires, watchers, down, open, served>>
      /\ UNCHANGED <<conn, made, reader, watched, cache>>
    BY DEF nodes
<1>2. TypeOK'
    BY <1>1 DEF IInv, TypeOK
<1>3. DeadlineInv' /\ ConnInv'
    BY <1>1, Zenon DEF IInv, DeadlineInv, ConnInv
<1>4. FreshInv' /\ DownInv'
    BY <1>1, Zenon DEF IInv, FreshInv, DownInv
<1>5. WatchedMeansPushed' /\ Coherent'
    BY <1>1, Zenon DEF IInv, WatchedMeansPushed, Coherent
<1> QED
    BY <1>2, <1>3, <1>4, <1>5 DEF IInv

\* A request is sent.
LEMMA SendIInv ==
  ASSUME IInv, NEW n \in Nodes, NEW f \in ToDaemon, Send(n, f)
  PROVE  IInv'
<1>1. /\ conn[n] \in open /\ up' = [up EXCEPT ![conn[n]] = Append(@, f)] /\ ops' = ops + 1
      /\ UNCHANGED <<kv, expires, watchers, sweep, now, restarts, down, open, served, nodes>>
    BY DEF Send, daemon
<1>2. /\ open \subseteq AllConns /\ up \in [AllConns -> Seq(ToDaemon)]
      /\ sweep \in Nat \cup {NEVER} /\ now \in Nat /\ restarts \in Nat /\ ops \in Nat
    BY DEF IInv, TypeOK
<1>3. up' \in [AllConns -> Seq(ToDaemon)]
  <2>1. conn[n] \in AllConns /\ Append(up[conn[n]], f) \in Seq(ToDaemon)
      BY <1>1, <1>2
  <2> QED
      BY <1>1, <1>2, <2>1
<1>4. SweepInv'
    BY <1>1 DEF IInv, SweepInv
<1>5. /\ sweep' \in Nat \cup {NEVER} /\ now' \in Nat /\ restarts' \in Nat /\ ops' \in Nat
      /\ UNCHANGED <<kv, expires, watchers, down, open, served, nodes>>
    BY <1>1, <1>2
<1> QED
    BY <1>3, <1>4, <1>5, QuietStep

\* What the users of a node send.
LEMMA WriteGetIInv ==
  ASSUME IInv, NEW n \in Nodes, NEW x \in Keys, Write(n, x) \/ Get(n, x)
  PROVE  IInv'
<1>1. BLOB \in Values
    BY DEF Values
<1>2. /\ [op |-> "SET", key |-> x, val |-> BLOB] \in ToDaemon
      /\ [op |-> "SETEX", key |-> x, val |-> BLOB] \in ToDaemon
      /\ [op |-> "DEL", key |-> x] \in ToDaemon
      /\ [op |-> "INCR", key |-> x] \in ToDaemon
      /\ [op |-> "GET", key |-> x] \in ToDaemon
    BY <1>1 DEF ToDaemon
<1>3. \A ttl \in BOOLEAN : [op |-> "SETNX", key |-> x, val |-> BLOB, ttl |-> ttl] \in ToDaemon
    BY <1>1 DEF ToDaemon
<1> QED
    BY <1>2, <1>3, SendIInv, Zenon DEF Write, Get

\* remove_client takes away the watches of a connection nobody writes to.
LEMMA RemoveClientIInv == ASSUME IInv, NEW k \in AllConns, RemoveClient(k) PROVE IInv'
<1>1. /\ k \notin open /\ served' = served \ {k}
      /\ watchers' = [x \in Keys |-> watchers[x] \ {k}]
      /\ UNCHANGED <<kv, expires, sweep, now, restarts, up, down, open, ops>>
      /\ UNCHANGED <<conn, made, reader, watched, cache>>
    BY DEF RemoveClient, nodes
<1>2. TypeOK'
    BY <1>1 DEF IInv, TypeOK
<1>3. DeadlineInv' /\ ConnInv' /\ SweepInv'
    BY <1>1, Zenon DEF IInv, DeadlineInv, ConnInv, SweepInv
<1>4. FreshInv'
    BY <1>1 DEF IInv, FreshInv
<1>5. \A x \in Keys : \A j \in open : j \in watchers'[x] <=> j \in watchers[x]
    BY <1>1
<1>6. DownInv'
  <2> SUFFICES ASSUME NEW j \in open, NEW i \in DOMAIN down[j],
                      down[j][i].t \in {"REPLY", "UPDATE"}
               PROVE  j \in watchers'[down[j][i].key]
      BY <1>1 DEF DownInv
  <2>1. down[j][i] \in ToNode
      BY DEF IInv, TypeOK
  <2>2. down[j][i].key \in Keys
      BY <2>1 DEF ToNode
  <2> QED
      BY <1>5, <2>2 DEF IInv, DownInv
<1>7. WatchedMeansPushed' /\ Coherent'
    BY <1>1, <1>5, Zenon DEF IInv, WatchedMeansPushed, Coherent
<1> QED
    BY <1>2, <1>3, <1>4, <1>6, <1>7 DEF IInv

\* The sweeper's look at the clock, and the clock.
LEMMA ClockIInv == ASSUME IInv, SweepRead \/ Tick PROVE IInv'
<1>1. /\ up \in [AllConns -> Seq(ToDaemon)]
      /\ sweep \in Nat \cup {NEVER} /\ now \in Nat /\ restarts \in Nat /\ ops \in Nat
    BY DEF IInv, TypeOK
<1>2. CASE SweepRead
  <2>1. /\ sweep' = now /\ UNCHANGED <<up, now, restarts, ops>>
        /\ UNCHANGED <<kv, expires, watchers, down, open, served, nodes>>
      BY <1>2 DEF SweepRead, wires
  <2>2. SweepInv'
      BY <1>1, <2>1 DEF SweepInv
  <2> QED
      BY <1>1, <2>1, <2>2, QuietStep
<1>3. CASE Tick
  <2>1. /\ now' = now + 1 /\ UNCHANGED <<up, sweep, restarts, ops>>
        /\ UNCHANGED <<kv, expires, watchers, down, open, served, nodes>>
      BY <1>3 DEF Tick, wires
  <2>2. SweepInv'
      BY <1>1, <2>1 DEF IInv, SweepInv
  <2> QED
      BY <1>1, <2>1, <2>2, QuietStep
<1> QED
    BY <1>2, <1>3

\* A sequence of a finite set's members holds each of them, at one place.
LEMMA Listing ==
  ASSUME NEW S, IsFiniteSet(S)
  PROVE  /\ SetToSeq(S) \in Seq(S)
         /\ \A e \in S : \E i \in 1 .. Len(SetToSeq(S)) : SetToSeq(S)[i] = e
         /\ \A i, j \in 1 .. Len(SetToSeq(S)) : SetToSeq(S)[i] = SetToSeq(S)[j] => i = j
<1> DEFINE c == Cardinality(S)
           s == SetToSeq(S)
<1>1. c \in Nat /\ ExistsBijection(1 .. c, S)
    BY FS_CardinalityType
<1>2. PICK f \in [1 .. c -> S] : IsInjective(f)
    BY <1>1 DEF ExistsBijection, Bijection, Injection, IsInjective
<1>3. s \in [1 .. c -> S] /\ IsInjective(s)
    BY <1>2, Zenon DEF SetToSeq
<1> HIDE DEF s
<1>4. s \in Seq(S) /\ Len(s) = c
    BY <1>1, <1>3
<1>5. s \in Injection(1 .. c, S)
    BY <1>3 DEF Injection
<1>6. Cardinality(1 .. c) = c /\ IsFiniteSet(1 .. c)
  <2> HIDE DEF c
  <2>1. 1 \in Int /\ c \in Int
      BY <1>1
  <2>2. IsFiniteSet(1 .. c) /\ Cardinality(1 .. c) = IF 1 > c THEN 0 ELSE c - 1 + 1
      BY <2>1, FS_Interval
  <2> QED
      BY <1>1, <2>2
<1>7. s \in Surjection(1 .. c, S)
    BY <1>5, <1>6, FS_Injection
<1>8. \A e \in S : \E i \in 1 .. c : s[i] = e
    BY <1>7 DEF Surjection
<1>9. \A i, j \in 1 .. c : s[i] = s[j] => i = j
    BY <1>3 DEF IsInjective
<1> QED
    BY <1>4, <1>8, <1>9 DEF s

\* What the sweep tells a watcher: of each key of S that it is gone.
LEMMA SweepFrames ==
  ASSUME NEW S \in SUBSET Keys, IsFiniteSet(S)
  PROVE  LET s == SetToSeq({Deleted(x) : x \in S}) IN
         /\ s \in Seq(ToNode)
         /\ \A i \in DOMAIN s : s[i].t = "DEL"
         /\ \A x \in S : Ends(s, x, ABSENT)
         /\ \A x : x \notin S => About(s, x) = {}
<1> DEFINE T == {Deleted(x) : x \in S}
           g == [x \in S |-> Deleted(x)]
           s == SetToSeq(T)
<1>1. g \in Surjection(S, T)
    BY DEF Surjection
<1>2. IsFiniteSet(T)
    BY <1>1, FS_Surjection
<1>3. /\ s \in Seq(T)
      /\ \A e \in T : \E i \in 1 .. Len(s) : s[i] = e
      /\ \A i, j \in 1 .. Len(s) : s[i] = s[j] => i = j
    BY <1>2, Listing
<1>4. \A x \in Keys : LET f == Deleted(x) IN
        f \in ToNode /\ f.key = x /\ f.t = "DEL" /\ f.val = ABSENT
    BY DEF Deleted, ToNode, Cells
<1>5. T \subseteq ToNode
    BY <1>4
<1>6. \A x \in S : Deleted(x) \in T
    OBVIOUS
<1>7. \A e \in T : e.key \in S /\ e.t = "DEL" /\ e.val = ABSENT /\ e = Deleted(e.key)
    BY <1>4
<1> HIDE DEF s, T
<1>8. s \in Seq(ToNode) /\ DOMAIN s = 1 .. Len(s) /\ Len(s) \in Nat /\ \A i \in 1 .. Len(s) : s[i] \in T
    BY <1>3, <1>5
<1>9. ASSUME NEW x \in S PROVE Ends(s, x, ABSENT)
  <2>1. PICK i \in 1 .. Len(s) : s[i] = Deleted(x)
      BY <1>3, <1>6
  <2>2. i \in About(s, x) /\ s[i].val = ABSENT
      BY <1>4, <2>1 DEF About
  <2>3. ASSUME NEW j \in About(s, x) PROVE j = i
    <3>1. j \in 1 .. Len(s) /\ s[j].key = x
        BY DEF About
    <3>2. s[j] = Deleted(x)
        BY <1>7, <1>8, <3>1
    <3> QED
        BY <1>3, <2>1, <3>1, <3>2
  <2>4. \A j \in About(s, x) : j <= i
      BY <1>8, <2>3
  <2> QED
      BY <2>2, <2>4 DEF Ends
<1>10. ASSUME NEW x, x \notin S PROVE About(s, x) = {}
    BY <1>7, <1>8, <1>10 DEF About
<1>11. \A i \in DOMAIN s : s[i].t = "DEL"
    BY <1>7, <1>8
<1> QED
    BY <1>8, <1>9, <1>10, <1>11 DEF s, T

\* The sweep.
LEMMA SweepDropIInv == ASSUME IInv, SweepDrop PROVE IInv'
<1> DEFINE due == {x \in Keys : Due(x, sweep)}
           S(k) == {y \in due : k \in watchers[y]}
           fs == [k \in AllConns |-> SetToSeq({Deleted(x) : x \in S(k)})]
<1>1. /\ kv' = [x \in Keys |-> IF x \in due THEN ABSENT ELSE kv[x]]
      /\ expires' = [x \in Keys |-> IF x \in due THEN NEVER ELSE expires[x]]
      /\ Sent(fs) /\ sweep' = NEVER
      /\ UNCHANGED <<watchers, now, restarts, up, served, nodes, ops>>
    BY DEF SweepDrop
<1>2. /\ open \subseteq AllConns /\ served \subseteq AllConns /\ up \in [AllConns -> Seq(ToDaemon)]
      /\ watchers \in [Keys -> SUBSET AllConns] /\ \A x \in Keys : watchers[x] \subseteq served
      /\ kv \in [Keys -> Cells] /\ expires \in [Keys -> Nat \cup {NEVER}]
    BY DEF IInv, TypeOK, FreshInv
<1> DEFINE D == {x \in Keys : expires[x] # NEVER}
<1>3. IsFiniteSet(D)
    BY DEF IInv, DeadlineInv
<1>4. due \subseteq D
    BY DEF Due
<1>5. ASSUME NEW k \in AllConns
      PROVE  /\ fs[k] \in Seq(ToNode)
             /\ \A i \in DOMAIN fs[k] : fs[k][i].t = "DEL"
             /\ \A x \in S(k) : Ends(fs[k], x, ABSENT)
             /\ \A x : x \notin S(k) => About(fs[k], x) = {}
  <2> DEFINE R == S(k)
  <2>1. R \in SUBSET D /\ R \in SUBSET Keys
      BY <1>4
  <2>2. fs[k] = SetToSeq({Deleted(x) : x \in R})
      OBVIOUS
  <2> HIDE DEF R, D, fs
  <2>3. IsFiniteSet(R)
      BY <1>3, <2>1, FS_Subset
  <2>4. LET s == SetToSeq({Deleted(x) : x \in R}) IN
        /\ s \in Seq(ToNode)
        /\ \A i \in DOMAIN s : s[i].t = "DEL"
        /\ \A x \in R : Ends(s, x, ABSENT)
        /\ \A x : x \notin R => About(s, x) = {}
      BY <2>1, <2>3, SweepFrames
  <2> QED
      BY <2>2, <2>4, Zenon DEF R
<1>6. fs \in [AllConns -> Seq(ToNode)]
  <2>1. \A k \in AllConns : SetToSeq({Deleted(x) : x \in S(k)}) \in Seq(ToNode)
      BY <1>5, Zenon
  <2> QED
      BY <2>1, Zenon
<1> HIDE DEF fs
<1>7. /\ kv' \in [Keys -> Cells] /\ expires' \in [Keys -> Nat \cup {NEVER}]
      /\ \A x \in Keys : kv'[x] = IF x \in due THEN ABSENT ELSE kv[x]
      /\ \A x \in Keys : expires'[x] # NEVER => expires[x] # NEVER
  <2> HIDE DEF due
  <2>1. ABSENT \in Cells /\ NEVER \in Nat \cup {NEVER}
      BY DEF Cells
  <2> QED
      BY <1>1, <1>2, <2>1
<1>8. DeadlineInv'
  <2>1. {x \in Keys : expires'[x] # NEVER} \in SUBSET D
      BY <1>7
  <2> HIDE DEF D
  <2>2. IsFiniteSet({x \in Keys : expires'[x] # NEVER})
      BY <1>3, <2>1, FS_Subset, Zenon
  <2> QED
      BY <2>2 DEF DeadlineInv
<1>9. ASSUME NEW k \in open, NEW i \in DOMAIN fs[k], fs[k][i].t \in {"REPLY", "UPDATE"}
      PROVE  k \in watchers'[fs[k][i].key]
  <2>1. fs[k][i].t = "DEL"
      BY <1>2, <1>5
  <2> QED
      BY <1>9, <2>1
<1>10. ASSUME NEW k \in open, NEW x \in Keys, k \in watchers'[x]
       PROVE  \/ Ends(fs[k], x, kv'[x])
              \/ About(fs[k], x) = {} /\ kv'[x] = kv[x] /\ k \in watchers[x]
  <2>1. k \in AllConns /\ k \in watchers[x]
      BY <1>1, <1>2, <1>10
  <2>2. CASE x \in due
    <3>1. x \in S(k)
        BY <2>1, <2>2
    <3>2. Ends(fs[k], x, ABSENT)
        BY <1>5, <2>1, <3>1
    <3> QED
        BY <1>7, <2>2, <3>2, Zenon
  <2>3. CASE x \notin due
    <3>1. x \notin S(k)
        BY <2>3
    <3>2. About(fs[k], x) = {}
        BY <1>5, <2>1, <3>1
    <3> QED
        BY <1>7, <2>1, <2>3, <3>2, Zenon
  <2> QED
      BY <2>2, <2>3
<1>11. /\ UNCHANGED <<served, nodes, now, restarts, ops>> /\ sweep' \in {sweep, NEVER}
       /\ up' \in [AllConns -> Seq(ToDaemon)] /\ watchers' \in [Keys -> SUBSET served]
       /\ \A x \in Keys : watchers[x] \subseteq watchers'[x]
    BY <1>1, <1>2
<1> QED
    BY <1>1, <1>6, <1>7, <1>8, <1>9, <1>10, <1>11, PushStep

\* A restart: the new daemon has no connections.
LEMMA RestartIInv == ASSUME IInv, Restart PROVE IInv'
<1>1. /\ restarts' = restarts + 1 /\ kv' = [x \in Keys |-> ABSENT]
      /\ expires' = [x \in Keys |-> NEVER] /\ watchers' = [x \in Keys |-> {}]
      /\ sweep' = NEVER /\ up' = [k \in AllConns |-> <<>>] /\ open' = {} /\ served' = {}
      /\ UNCHANGED <<now, down, conn, made, reader, watched, cache, ops>>
    BY DEF Restart, nodes
<1>2. TypeOK'
  <2>1. kv' \in [Keys -> Cells] /\ expires' \in [Keys -> Nat \cup {NEVER}]
      BY <1>1 DEF Cells
  <2>2. up' \in [AllConns -> Seq(ToDaemon)] /\ watchers' \in [Keys -> SUBSET AllConns]
      BY <1>1
  <2> QED
      BY <1>1, <2>1, <2>2 DEF IInv, TypeOK
<1>3. DeadlineInv'
  <2>1. {x \in Keys : expires'[x] # NEVER} = {}
      BY <1>1
  <2> QED
      BY <2>1, FS_EmptySet DEF DeadlineInv
<1>4. SweepInv' /\ ConnInv'
    BY <1>1, Zenon DEF IInv, SweepInv, ConnInv
<1>5. FreshInv'
    BY <1>1 DEF IInv, FreshInv
<1>6. DownInv' /\ WatchedMeansPushed' /\ Coherent'
    BY <1>1 DEF DownInv, WatchedMeansPushed, Coherent
<1> QED
    BY <1>2, <1>3, <1>4, <1>5, <1>6 DEF IInv

-----------------------------------------------------------------------------
(* The nodes' reader threads                                               *)

\* A new connection: nobody watches for it, nothing was sent on it.
LEMMA ConnectIInv == ASSUME IInv, NEW n \in Nodes, Connect(n) PROVE IInv'
<1> DEFINE k == <<n, made[n] + 1>>
<1>1. /\ reader[n] = "connect" /\ made[n] < MaxConns
      /\ made' = [made EXCEPT ![n] = made[n] + 1] /\ conn' = [conn EXCEPT ![n] = k]
      /\ open' = open \cup {k} /\ served' = served \cup {k}
      /\ reader' = [reader EXCEPT ![n] = "read"]
      /\ UNCHANGED <<kv, expires, watchers, sweep, now, restarts, up, down, watched, cache, ops>>
    BY DEF Connect, daemon
<1>2. /\ made \in [Nodes -> 0 .. MaxConns] /\ conn \in [Nodes -> AllConns \cup {NONE}]
      /\ reader \in [Nodes -> {"connect", "read", "clear", "closed"}]
      /\ open \subseteq served /\ served \subseteq AllConns /\ MaxConns \in Nat
    BY KvAssumption DEF IInv, TypeOK
<1>3. made[n] + 1 \in 1 .. MaxConns /\ made[n] \in Nat
    BY <1>1, <1>2
<1>4. k \in AllConns
    BY <1>3 DEF AllConns
<1>5. k \notin served /\ down[k] = <<>>
    BY <1>3 DEF IInv, FreshInv
<1>6. /\ made'[n] = made[n] + 1 /\ conn'[n] = k /\ reader'[n] = "read"
      /\ \A m \in Nodes \ {n} : made'[m] = made[m] /\ conn'[m] = conn[m] /\ reader'[m] = reader[m]
    BY <1>1, <1>2
<1> HIDE DEF k
<1>7. TypeOK'
  <2>1. made' \in [Nodes -> 0 .. MaxConns]
      BY <1>1, <1>2, <1>3
  <2>2. conn' \in [Nodes -> AllConns \cup {NONE}]
      BY <1>1, <1>2, <1>4
  <2>3. reader' \in [Nodes -> {"connect", "read", "clear", "closed"}]
      BY <1>1, <1>2
  <2>4. open' \in SUBSET served' /\ served' \in SUBSET AllConns
      BY <1>1, <1>2, <1>4
  <2> QED
      BY <1>1, <2>1, <2>2, <2>3, <2>4 DEF IInv, TypeOK
<1>8. DeadlineInv' /\ SweepInv'
    BY <1>1, Zenon DEF IInv, DeadlineInv, SweepInv
<1>9. ConnInv'
  <2> SUFFICES ASSUME NEW m \in Nodes
               PROVE  /\ IF reader'[m] = "read" THEN made'[m] \in 1 .. MaxConns /\ conn'[m] = <<m, made'[m]>>
                         ELSE conn'[m] = NONE
                      /\ reader'[m] = "connect" => watched[m] = {}
      BY <1>1 DEF ConnInv
  <2>1. CASE m = n
      BY <1>3, <1>6, <2>1 DEF k
  <2>2. CASE m # n
      BY <1>6, <2>2 DEF IInv, ConnInv
  <2> QED
      BY <2>1, <2>2
<1>10. FreshInv'
  <2>1. ASSUME NEW m \in Nodes, NEW i \in 1 .. MaxConns, i > made'[m]
        PROVE  <<m, i>> \notin served' /\ down[<<m, i>>] = <<>>
    <3>1. made[m] \in Nat /\ made'[m] \in Nat /\ made'[m] >= made[m]
        BY <1>2, <1>3, <1>6
    <3>2. <<m, i>> \notin served /\ down[<<m, i>>] = <<>>
        BY <2>1, <3>1 DEF IInv, FreshInv
    <3>3. <<m, i>> # k
        BY <1>6, <2>1, <3>1 DEF k
    <3> QED
        BY <1>1, <3>2, <3>3
  <2>2. \A x \in Keys : watchers[x] \subseteq served'
      BY <1>1 DEF IInv, FreshInv
  <2> QED
      BY <1>1, <2>1, <2>2 DEF FreshInv
<1>11. DownInv'
    BY <1>1, <1>5 DEF IInv, DownInv
<1>12. \A x \in Keys : k \notin watchers[x]
    BY <1>5 DEF IInv, FreshInv
<1>13. ASSUME NEW m \in Nodes, m # n PROVE conn[m] # k
  <2>1. CASE reader[m] = "read"
      BY <1>13, <2>1 DEF k, IInv, ConnInv
  <2>2. CASE reader[m] # "read"
      BY <1>4, <2>2, KvAssumption DEF IInv, ConnInv
  <2> QED
      BY <2>1, <2>2
<1>14. WatchedMeansPushed'
  <2> SUFFICES ASSUME NEW m \in Nodes, NEW x \in Keys, x \in watched[m], conn'[m] \in open'
               PROVE  conn'[m] \in watchers[x]
      BY <1>1 DEF WatchedMeansPushed
  <2>1. m # n
      BY <1>1 DEF IInv, ConnInv
  <2>2. conn'[m] = conn[m] /\ conn[m] \in open
    <3>1. conn'[m] = conn[m]
        BY <1>6, <2>1
    <3> QED
        BY <1>1, <1>13, <2>1, <3>1
  <2> QED
      BY <2>2 DEF IInv, WatchedMeansPushed
<1>15. Coherent'
  <2> SUFFICES ASSUME NEW m \in Nodes, NEW x \in Keys, conn'[m] \in open', conn'[m] \in watchers[x]
               PROVE  \/ Ends(down[conn'[m]], x, kv[x])
                      \/ About(down[conn'[m]], x) = {} /\ cache[m][x] = kv[x]
      BY <1>1, Zenon DEF Coherent
  <2>1. conn'[m] # k /\ conn'[m] \in open
      BY <1>1, <1>12
  <2>2. m # n /\ conn'[m] = conn[m]
      BY <1>6, <2>1
  <2> QED
      BY <2>1, <2>2 DEF IInv, Coherent
<1> QED
    BY <1>7, <1>8, <1>9, <1>10, <1>11, <1>14, <1>15 DEF IInv

\* No two nodes share a connection.
LEMMA OwnConnection ==
  ASSUME IInv, NEW n \in Nodes, NEW m \in Nodes, m # n, reader[n] = "read"
  PROVE  conn[n] \in AllConns /\ conn[m] # conn[n]
<1>1. made[n] \in 1 .. MaxConns /\ conn[n] = <<n, made[n]>>
    BY DEF IInv, ConnInv
<1>2. conn[n] \in AllConns
    BY <1>1 DEF AllConns
<1>3. CASE reader[m] = "read"
    BY <1>1, <1>2, <1>3 DEF IInv, ConnInv
<1>4. CASE reader[m] # "read"
    BY <1>2, <1>4, KvAssumption DEF IInv, ConnInv
<1> QED
    BY <1>2, <1>3, <1>4

\* read_until_closed: the frame goes from the stream into the cache.
LEMMA DeliverIInv == ASSUME IInv, NEW n \in Nodes, Deliver(n) PROVE IInv'
<1> DEFINE k == conn[n]
           f == Head(down[k])
<1>1. /\ reader[n] = "read" /\ down[k] # <<>>
      /\ watched' = [watched EXCEPT ![n] = IF f.t \in {"REPLY", "UPDATE"}
                                           THEN watched[n] \cup {f.key} ELSE watched[n]]
      /\ cache' = [cache EXCEPT ![n][f.key] = IF f.t = "RESULT" THEN @ ELSE f.val]
      /\ down' = [down EXCEPT ![k] = Tail(down[k])]
      /\ UNCHANGED <<kv, expires, watchers, sweep, now, restarts, up, open, served>>
      /\ UNCHANGED <<conn, made, reader, ops>>
    BY DEF Deliver, daemon
<1>2. /\ down \in [AllConns -> Seq(ToNode)] /\ watched \in [Nodes -> SUBSET Keys]
      /\ cache \in [Nodes -> [Keys -> Cells]] /\ open \subseteq AllConns
      /\ made[n] \in 1 .. MaxConns /\ k = <<n, made[n]>>
    BY <1>1 DEF IInv, TypeOK, ConnInv
<1>3. k \in AllConns
    BY <1>2 DEF AllConns
<1>4. f \in ToNode /\ down[k] \in Seq(ToNode) /\ Tail(down[k]) \in Seq(ToNode)
      /\ f = down[k][1] /\ 1 \in DOMAIN down[k]
    BY <1>1, <1>2, <1>3
<1> HIDE DEF f, k
<1>5. f.key \in Keys /\ f.val \in Cells
    BY <1>4 DEF ToNode
<1>6. /\ down' \in [AllConns -> Seq(ToNode)] /\ down'[k] = Tail(down[k])
      /\ \A j \in AllConns \ {k} : down'[j] = down[j]
    BY <1>1, <1>2, <1>3, <1>4
<1>7. /\ watched' \in [Nodes -> SUBSET Keys]
      /\ \A x \in watched'[n] : x \in watched[n] \/ (x = f.key /\ f.t \in {"REPLY", "UPDATE"})
      /\ \A m \in Nodes \ {n} : watched'[m] = watched[m]
    BY <1>1, <1>2, <1>5
<1>8. /\ cache' \in [Nodes -> [Keys -> Cells]]
      /\ \A m \in Nodes \ {n} : cache'[m] = cache[m]
      /\ \A x \in Keys : cache'[n][x] = IF x = f.key /\ f.t # "RESULT" THEN f.val ELSE cache[n][x]
  <2> DEFINE w == IF f.t = "RESULT" THEN cache[n][f.key] ELSE f.val
             row == [cache[n] EXCEPT ![f.key] = w]
  <2>1. w \in Cells
      BY <1>2, <1>5
  <2>2. cache' = [cache EXCEPT ![n] = row]
      BY <1>1
  <2>3. row \in [Keys -> Cells] /\ \A x \in Keys : row[x] = IF x = f.key THEN w ELSE cache[n][x]
      BY <1>2, <1>5, <2>1
  <2>4. \A x \in Keys : row[x] = IF x = f.key /\ f.t # "RESULT" THEN f.val ELSE cache[n][x]
      BY <2>3
  <2> HIDE DEF row, w
  <2> QED
      BY <1>2, <2>2, <2>3, <2>4
<1>9. TypeOK'
    BY <1>1, <1>6, <1>7, <1>8 DEF IInv, TypeOK
<1>10. DeadlineInv' /\ SweepInv'
    BY <1>1, Zenon DEF IInv, DeadlineInv, SweepInv
<1>11. ConnInv'
  <2>1. \A m \in Nodes : reader[m] = "connect" => watched'[m] = {}
      BY <1>1, <1>7 DEF IInv, ConnInv
  <2> QED
      BY <1>1, <2>1 DEF IInv, ConnInv
<1>12. FreshInv'
  <2>1. ASSUME NEW m \in Nodes, NEW i \in 1 .. MaxConns, i > made[m]
        PROVE  <<m, i>> \notin served /\ down'[<<m, i>>] = <<>>
    <3>1. <<m, i>> \in AllConns
        BY DEF AllConns
    <3>2. <<m, i>> \notin served /\ down[<<m, i>>] = <<>>
        BY <2>1 DEF IInv, FreshInv
    <3>3. <<m, i>> # k
        BY <1>1, <3>2
    <3> QED
        BY <1>6, <3>1, <3>2, <3>3
  <2> QED
      BY <1>1, <2>1 DEF IInv, FreshInv
<1>13. DownInv'
  <2> SUFFICES ASSUME NEW j \in open, NEW i \in DOMAIN down'[j],
                      down'[j][i].t \in {"REPLY", "UPDATE"}
               PROVE  j \in watchers[down'[j][i].key]
      BY <1>1 DEF DownInv
  <2>1. CASE j = k
    <3>1. i + 1 \in DOMAIN down[k] /\ down'[j][i] = down[k][i + 1]
        BY <1>1, <1>4, <1>6, <2>1
    <3> QED
        BY <2>1, <3>1 DEF IInv, DownInv
  <2>2. CASE j # k
    <3>1. down'[j] = down[j]
        BY <1>2, <1>6, <2>2
    <3> QED
        BY <3>1 DEF IInv, DownInv
  <2> QED
      BY <2>1, <2>2
<1>14. WatchedMeansPushed'
  <2> SUFFICES ASSUME NEW m \in Nodes, NEW x \in Keys, x \in watched'[m], conn[m] \in open
               PROVE  conn[m] \in watchers[x]
      BY <1>1 DEF WatchedMeansPushed
  <2>1. CASE x \in watched[m]
      BY <2>1 DEF IInv, WatchedMeansPushed
  <2>2. CASE x \notin watched[m]
    <3>1. m = n /\ x = f.key /\ f.t \in {"REPLY", "UPDATE"} /\ k \in open
        BY <1>7, <2>2 DEF k
    <3>2. k \in watchers[f.key]
        BY <1>4, <3>1 DEF IInv, DownInv
    <3> QED
        BY <3>1, <3>2 DEF k
  <2> QED
      BY <2>1, <2>2
<1>15. Coherent'
  <2> SUFFICES ASSUME NEW m \in Nodes, NEW x \in Keys, conn[m] \in open, conn[m] \in watchers[x]
               PROVE  \/ Ends(down'[conn[m]], x, kv[x])
                      \/ About(down'[conn[m]], x) = {} /\ cache'[m][x] = kv[x]
      BY <1>1, Zenon DEF Coherent
  <2>1. \/ Ends(down[conn[m]], x, kv[x])
        \/ About(down[conn[m]], x) = {} /\ cache[m][x] = kv[x]
      BY DEF IInv, Coherent
  <2>2. CASE m = n
    <3> DEFINE s == down[k]
               c == cache[n][x]
               d == cache'[n][x]
               v == kv[x]
    <3>1. Ends(s, x, v) \/ (About(s, x) = {} /\ c = v)
        BY <2>1, <2>2 DEF k
    <3>2. /\ f.key = x /\ f.t # "RESULT" => d = f.val
          /\ ~(f.key = x /\ f.t # "RESULT") => d = c
        BY <1>8
    <3>3. s \in Seq(ToNode) /\ s # <<>> /\ f = Head(s)
        BY <1>1, <1>4 DEF f
    <3> HIDE DEF s, c, d, v
    <3>4. Ends(Tail(s), x, v) \/ (About(Tail(s), x) = {} /\ d = v)
        BY <3>1, <3>2, <3>3, TailWord
    <3> QED
        BY <1>6, <2>2, <3>4, Zenon DEF s, c, d, v, k
  <2>3. CASE m # n
    <3>1. conn[m] # k
        BY <1>1, <2>3, OwnConnection DEF k
    <3> QED
        BY <1>2, <1>6, <1>8, <2>1, <2>3, <3>1
  <2> QED
      BY <2>2, <2>3
<1> QED
    BY <1>9, <1>10, <1>11, <1>12, <1>13, <1>14, <1>15 DEF IInv

\* The reader stops to read: the stream ended, or the node is destroyed.  What
\* the daemon watches for the connection is nobody's any more.
LEMMA HangUpIInv ==
  ASSUME IInv, NEW n \in Nodes,
         UNCHANGED <<kv, expires, watchers, sweep, now, restarts, up, served, made, ops>>,
         open' \subseteq open, down' \in [AllConns -> Seq(ToNode)],
         \A k \in AllConns : down'[k] = down[k] \/ (k = conn[n] /\ down'[k] = <<>>),
         conn' = [conn EXCEPT ![n] = NONE],
         reader' \in [Nodes -> {"connect", "read", "clear", "closed"}],
         reader'[n] \in {"clear", "closed"},
         \A m \in Nodes \ {n} : reader'[m] = reader[m],
         watched' \in [Nodes -> SUBSET Keys], cache' \in [Nodes -> [Keys -> Cells]],
         \A m \in Nodes \ {n} : watched'[m] = watched[m] /\ cache'[m] = cache[m],
         reader[n] = "read"
  PROVE  IInv'
<1>1. /\ conn \in [Nodes -> AllConns \cup {NONE}] /\ open \subseteq served /\ served \subseteq AllConns
      /\ down \in [AllConns -> Seq(ToNode)]
    BY DEF IInv, TypeOK
<1>2. conn' \in [Nodes -> AllConns \cup {NONE}] /\ conn'[n] = NONE
      /\ \A m \in Nodes \ {n} : conn'[m] = conn[m]
    BY <1>1
<1>3. TypeOK'
  <2>1. open' \in SUBSET served
      BY <1>1
  <2> QED
      BY <1>2, <2>1 DEF IInv, TypeOK
<1>4. DeadlineInv' /\ SweepInv'
    BY Zenon DEF IInv, DeadlineInv, SweepInv
<1>5. ConnInv'
  <2> SUFFICES ASSUME NEW m \in Nodes
               PROVE  /\ IF reader'[m] = "read" THEN made[m] \in 1 .. MaxConns /\ conn'[m] = <<m, made[m]>>
                         ELSE conn'[m] = NONE
                      /\ reader'[m] = "connect" => watched'[m] = {}
      BY DEF ConnInv
  <2>1. CASE m = n
      BY <1>2, <2>1
  <2>2. CASE m # n
      BY <1>2, <2>2 DEF IInv, ConnInv
  <2> QED
      BY <2>1, <2>2
<1>6. FreshInv'
  <2>1. ASSUME NEW m \in Nodes, NEW i \in 1 .. MaxConns, i > made[m]
        PROVE  <<m, i>> \notin served /\ down'[<<m, i>>] = <<>>
    <3>1. <<m, i>> \in AllConns
        BY DEF AllConns
    <3>2. <<m, i>> \notin served /\ down[<<m, i>>] = <<>>
        BY <2>1 DEF IInv, FreshInv
    <3> QED
        BY <3>1, <3>2
  <2> QED
      BY <2>1 DEF IInv, FreshInv
<1>7. DownInv'
  <2> SUFFICES ASSUME NEW j \in open', NEW i \in DOMAIN down'[j],
                      down'[j][i].t \in {"REPLY", "UPDATE"}
               PROVE  j \in watchers[down'[j][i].key]
      BY DEF DownInv
  <2>1. j \in open /\ j \in AllConns
      BY <1>1
  <2>2. down'[j] = down[j]
    <3>1. down'[j] # <<>>
        BY NoWord, Zenon
    <3> QED
        BY <2>1, <3>1
  <2> QED
      BY <2>1, <2>2 DEF IInv, DownInv
<1>8. ASSUME NEW m \in Nodes, conn'[m] \in open'
      PROVE  /\ m # n /\ conn'[m] = conn[m] /\ conn[m] \in open
             /\ down'[conn[m]] = down[conn[m]]
  <2>1. NONE \notin open'
      BY <1>1, KvAssumption
  <2>2. m # n /\ conn'[m] = conn[m] /\ conn[m] \in open
      BY <1>2, <1>8, <2>1
  <2>3. conn[m] # conn[n] /\ conn[m] \in AllConns
      BY <1>1, <2>2, OwnConnection
  <2> QED
      BY <2>2, <2>3
<1>9. WatchedMeansPushed'
    BY <1>8 DEF IInv, WatchedMeansPushed
<1>10. Coherent'
  <2> SUFFICES ASSUME NEW m \in Nodes, NEW x \in Keys, conn'[m] \in open', conn'[m] \in watchers[x]
               PROVE  \/ Ends(down'[conn'[m]], x, kv[x])
                      \/ About(down'[conn'[m]], x) = {} /\ cache'[m][x] = kv[x]
      BY Zenon DEF Coherent
  <2>1. /\ m # n /\ conn'[m] = conn[m] /\ conn[m] \in open
        /\ down'[conn'[m]] = down[conn[m]] /\ cache'[m] = cache[m]
      BY <1>8
  <2>2. conn[m] \in watchers[x]
      BY <2>1
  <2>3. \/ Ends(down[conn[m]], x, kv[x])
        \/ About(down[conn[m]], x) = {} /\ cache[m][x] = kv[x]
      BY <2>1, <2>2, Zenon DEF IInv, Coherent
  <2> QED
      BY <2>1, <2>3, Zenon
<1> QED
    BY <1>3, <1>4, <1>5, <1>6, <1>7, <1>9, <1>10 DEF IInv

\* The stream ended.
LEMMA LinkDownIInv == ASSUME IInv, NEW n \in Nodes, LinkDown(n) PROVE IInv'
<1>1. /\ reader[n] = "read" /\ conn' = [conn EXCEPT ![n] = NONE]
      /\ reader' = [reader EXCEPT ![n] = "clear"]
      /\ UNCHANGED <<kv, expires, watchers, sweep, now, restarts, up, served, made, ops>>
      /\ UNCHANGED <<open, down, watched, cache>>
    BY DEF LinkDown, daemon, wires
<1>2. /\ reader' \in [Nodes -> {"connect", "read", "clear", "closed"}]
      /\ reader'[n] \in {"clear", "closed"}
      /\ \A m \in Nodes \ {n} : reader'[m] = reader[m]
      /\ down' \in [AllConns -> Seq(ToNode)] /\ open' \subseteq open
      /\ watched' \in [Nodes -> SUBSET Keys] /\ cache' \in [Nodes -> [Keys -> Cells]]
    BY <1>1 DEF IInv, TypeOK
<1>3. /\ \A k \in AllConns : down'[k] = down[k] \/ (k = conn[n] /\ down'[k] = <<>>)
      /\ \A m \in Nodes \ {n} : watched'[m] = watched[m] /\ cache'[m] = cache[m]
    BY <1>1
<1> QED
    BY <1>1, <1>2, <1>3, HangUpIInv, Zenon

\* The node is destroyed.
LEMMA CloseIInv == ASSUME IInv, NEW n \in Nodes, Close(n) PROVE IInv'
<1>1. /\ reader[n] = "read" /\ open' = open \ {conn[n]} /\ down' = [down EXCEPT ![conn[n]] = <<>>]
      /\ conn' = [conn EXCEPT ![n] = NONE] /\ reader' = [reader EXCEPT ![n] = "closed"]
      /\ watched' = [watched EXCEPT ![n] = {}]
      /\ cache' = [cache EXCEPT ![n] = [x \in Keys |-> ABSENT]]
      /\ UNCHANGED <<kv, expires, watchers, sweep, now, restarts, up, served, made, ops>>
    BY DEF Close, daemon
<1>2. /\ reader' \in [Nodes -> {"connect", "read", "clear", "closed"}]
      /\ reader'[n] \in {"clear", "closed"}
      /\ \A m \in Nodes \ {n} : reader'[m] = reader[m]
      /\ open' \subseteq open /\ watched' \in [Nodes -> SUBSET Keys]
      /\ \A m \in Nodes \ {n} : watched'[m] = watched[m] /\ cache'[m] = cache[m]
    BY <1>1 DEF IInv, TypeOK
<1>3. cache' \in [Nodes -> [Keys -> Cells]]
  <2>1. [x \in Keys |-> ABSENT] \in [Keys -> Cells]
      BY DEF Cells
  <2> QED
      BY <1>1, <2>1 DEF IInv, TypeOK
<1>4. /\ down' \in [AllConns -> Seq(ToNode)]
      /\ \A k \in AllConns : down'[k] = down[k] \/ (k = conn[n] /\ down'[k] = <<>>)
  <2>1. down \in [AllConns -> Seq(ToNode)]
      BY DEF IInv, TypeOK
  <2>2. <<>> \in Seq(ToNode)
      BY NoWord
  <2>3. conn[n] \in AllConns
    <3>1. made[n] \in 1 .. MaxConns /\ conn[n] = <<n, made[n]>>
        BY <1>1, Zenon DEF IInv, ConnInv
    <3> QED
        BY <3>1 DEF AllConns
  <2>4. \A k \in AllConns : down'[k] = down[k] \/ (k = conn[n] /\ down'[k] = <<>>)
      BY <1>1, <2>1
  <2>5. down' \in [AllConns -> Seq(ToNode)]
      BY <1>1, <2>1, <2>2
  <2> QED
      BY <2>4, <2>5
<1> QED
    BY <1>1, <1>2, <1>3, <1>4, HangUpIInv, Zenon

\* The cache stops answering.
LEMMA DropCacheIInv == ASSUME IInv, NEW n \in Nodes, DropCache(n) PROVE IInv'
<1>1. /\ reader[n] = "clear" /\ reader' = [reader EXCEPT ![n] = "connect"]
      /\ watched' = [watched EXCEPT ![n] = {}]
      /\ cache' = [cache EXCEPT ![n] = [x \in Keys |-> ABSENT]]
      /\ UNCHANGED <<kv, expires, watchers, sweep, now, restarts, up, served, made, ops>>
      /\ UNCHANGED <<open, down, conn>>
    BY DEF DropCache, daemon, wires
<1>2. /\ reader' \in [Nodes -> {"connect", "read", "clear", "closed"}] /\ reader'[n] = "connect"
      /\ \A m \in Nodes \ {n} : reader'[m] = reader[m]
      /\ watched' \in [Nodes -> SUBSET Keys] /\ watched'[n] = {}
      /\ \A m \in Nodes \ {n} : watched'[m] = watched[m] /\ cache'[m] = cache[m]
    BY <1>1 DEF IInv, TypeOK
<1>3. cache' \in [Nodes -> [Keys -> Cells]]
  <2>1. [x \in Keys |-> ABSENT] \in [Keys -> Cells]
      BY DEF Cells
  <2> QED
      BY <1>1, <2>1 DEF IInv, TypeOK
<1>4. conn[n] = NONE /\ conn[n] \notin open
    BY <1>1, KvAssumption DEF IInv, ConnInv, TypeOK
<1>5. TypeOK'
    BY <1>1, <1>2, <1>3 DEF IInv, TypeOK
<1>6. DeadlineInv' /\ SweepInv' /\ FreshInv' /\ DownInv'
    BY <1>1, Zenon DEF IInv, DeadlineInv, SweepInv, FreshInv, DownInv
<1>7. ConnInv'
  <2> SUFFICES ASSUME NEW m \in Nodes
               PROVE  /\ IF reader'[m] = "read" THEN made[m] \in 1 .. MaxConns /\ conn[m] = <<m, made[m]>>
                         ELSE conn[m] = NONE
                      /\ reader'[m] = "connect" => watched'[m] = {}
      BY <1>1 DEF ConnInv
  <2>1. CASE m = n
      BY <1>2, <1>4, <2>1
  <2>2. CASE m # n
      BY <1>2, <2>2 DEF IInv, ConnInv
  <2> QED
      BY <2>1, <2>2
<1>8. WatchedMeansPushed'
    BY <1>1, <1>2, <1>4 DEF IInv, WatchedMeansPushed
<1>9. Coherent'
  <2> SUFFICES ASSUME NEW m \in Nodes, NEW x \in Keys, conn[m] \in open, conn[m] \in watchers[x]
               PROVE  \/ Ends(down[conn[m]], x, kv[x])
                      \/ About(down[conn[m]], x) = {} /\ cache'[m][x] = kv[x]
      BY <1>1, Zenon DEF Coherent
  <2>1. cache'[m] = cache[m]
      BY <1>2, <1>4
  <2> QED
      BY <2>1, Zenon DEF IInv, Coherent
<1> QED
    BY <1>5, <1>6, <1>7, <1>8, <1>9 DEF IInv

-----------------------------------------------------------------------------
(* The invariant                                                           *)

\* The store starts empty and without connections.
LEMMA InitIInv == Init => IInv
<1> SUFFICES ASSUME Init PROVE IInv
    OBVIOUS
<1>1. TypeOK
  <2>1. /\ kv \in [Keys -> Cells] /\ expires \in [Keys -> Nat \cup {NEVER}]
        /\ watchers \in [Keys -> SUBSET AllConns] /\ sweep \in Nat \cup {NEVER}
      BY DEF Init, Cells
  <2>2. up \in [AllConns -> Seq(ToDaemon)] /\ down \in [AllConns -> Seq(ToNode)]
      BY DEF Init
  <2>3. /\ conn \in [Nodes -> AllConns \cup {NONE}]
        /\ reader \in [Nodes -> {"connect", "read", "clear", "closed"}]
        /\ watched \in [Nodes -> SUBSET Keys]
      BY DEF Init
  <2>4. made \in [Nodes -> 0 .. MaxConns]
    <3>1. 0 \in 0 .. MaxConns
        BY KvAssumption
    <3> QED
        BY <3>1 DEF Init
  <2>5. cache \in [Nodes -> [Keys -> Cells]]
    <3>1. [x \in Keys |-> ABSENT] \in [Keys -> Cells]
        BY DEF Cells
    <3> QED
        BY <3>1 DEF Init
  <2> QED
      BY <2>1, <2>2, <2>3, <2>4, <2>5 DEF Init, TypeOK
<1>2. DeadlineInv
  <2>1. {x \in Keys : expires[x] # NEVER} = {}
      BY DEF Init
  <2> QED
      BY <2>1, FS_EmptySet DEF DeadlineInv
<1>3. SweepInv /\ ConnInv
    BY DEF Init, SweepInv, ConnInv
<1>4. FreshInv
    BY DEF Init, FreshInv, AllConns
<1>5. DownInv /\ WatchedMeansPushed /\ Coherent
    BY DEF Init, DownInv, WatchedMeansPushed, Coherent
<1> QED
    BY <1>1, <1>2, <1>3, <1>4, <1>5 DEF IInv

\* Every step keeps the invariant.
LEMMA NextIInv == IInv /\ [Next]_vars => IInv'
<1> SUFFICES ASSUME IInv, [Next]_vars PROVE IInv'
    OBVIOUS
<1>1. ASSUME NEW k \in AllConns, Handle(k) PROVE IInv'
    BY <1>1, HandleSetIInv, HandleDelIInv, HandleGetIInv, HandleIncrIInv, HandleSetnxIInv, Zenon
       DEF Handle
<1>2. CASE UNCHANGED vars
  <2>1. /\ UNCHANGED <<kv, expires, watchers, down, open, served, nodes>>
        /\ UNCHANGED <<up, sweep, now, restarts, ops>>
      BY <1>2 DEF vars, daemon, wires
  <2>2. /\ up' \in [AllConns -> Seq(ToDaemon)] /\ sweep' \in Nat \cup {NEVER}
        /\ now' \in Nat /\ restarts' \in Nat /\ ops' \in Nat
      BY <2>1 DEF IInv, TypeOK
  <2>3. SweepInv'
      BY <2>1 DEF IInv, SweepInv
  <2> QED
      BY <2>1, <2>2, <2>3, QuietStep
<1>3. CASE \E n \in Nodes, x \in Keys : Write(n, x) \/ Get(n, x)
    BY <1>3, WriteGetIInv
<1>4. CASE \E n \in Nodes : Connect(n) \/ Deliver(n) \/ LinkDown(n) \/ DropCache(n) \/ Close(n)
    BY <1>4, ConnectIInv, DeliverIInv, LinkDownIInv, DropCacheIInv, CloseIInv, Zenon
<1> QED
    BY <1>1, <1>2, <1>3, <1>4, RemoveClientIInv, ClockIInv, SweepDropIInv, RestartIInv, Zenon
       DEF Next

\* The invariant holds throughout.
LEMMA SpecIInv == Spec => []IInv
    BY InitIInv, NextIInv, PTL DEF Spec

-----------------------------------------------------------------------------
(* The theorems                                                            *)

\* The store keeps its types: in particular every counter stays within its
\* width, whatever increments it (server.hpp:292).
THEOREM KvTypeCorrect == Spec => []TypeOK
<1>1. IInv => TypeOK
    BY DEF IInv
<1> QED
    BY <1>1, SpecIInv, PTL

\* No node serves a key from a cache that nobody refreshes (node.hpp:667), over
\* reconnects, daemon restarts and results that are not replies.
THEOREM CachesStayWarm == Spec => []WatchedMeansPushed
<1>1. IInv => WatchedMeansPushed
    BY DEF IInv
<1> QED
    BY <1>1, SpecIInv, PTL

\* The last word a watcher was given is the table's value: no reply overtakes
\* an update and no expiry goes unannounced (server.hpp:369).
THEOREM CachesCohere == Spec => []CacheCoherent
<1>1. IInv => CacheCoherent
    BY CoherentSuffices DEF IInv
<1> QED
    BY <1>1, SpecIInv, PTL

\* What a step may do to a key: it vanishes by a del, a restart or its deadline.
Vanishes(x) ==
  kv[x] # ABSENT /\ kv'[x] = ABSENT
    => Due(x, now) \/ restarts' # restarts \/ \E k \in AllConns : HandleDel(k)

\* A handler that leaves something in the table, or drops what is due.
LEMMA StoredKeyStays ==
  ASSUME TypeOK, NEW y \in Keys, NEW v, kv' = [kv EXCEPT ![y] = v],
         v # ABSENT \/ Due(y, now) \/ v = kv[y]
  PROVE  \A x \in Keys : kv[x] # ABSENT /\ kv'[x] = ABSENT => Due(x, now)
<1>1. \A x \in Keys : kv'[x] = IF x = y THEN v ELSE kv[x]
    BY DEF TypeOK
<1> QED
    BY <1>1

\* No step makes a key vanish before its time.
LEMMA NoStepExpiresEarly == IInv /\ [Next]_vars => \A x \in Keys : Vanishes(x)
<1> SUFFICES ASSUME IInv, [Next]_vars PROVE \A x \in Keys : Vanishes(x)
    OBVIOUS
<1>1. TypeOK /\ SweepInv /\ kv \in [Keys -> Cells] /\ now \in Nat
      /\ expires \in [Keys -> Nat \cup {NEVER}] /\ sweep \in Nat \cup {NEVER} /\ restarts \in Nat
    BY DEF IInv, TypeOK
<1>2. CASE kv' = kv
    BY <1>2 DEF Vanishes
<1>3. ASSUME NEW k \in AllConns, HandleSet(k) PROVE \A x \in Keys : Vanishes(x)
  <2> DEFINE x == Head(up[k]).key
             v == Head(up[k]).val
  <2>1. PICK op \in {"SET", "SETEX"} : Take(k, op) /\ kv' = [kv EXCEPT ![x] = v]
      BY <1>3 DEF HandleSet
  <2>2. x \in Keys /\ v # ABSENT
      BY <1>1, <2>1, Taken, Distinct
  <2> HIDE DEF x, v
  <2> QED
      BY <1>1, <2>1, <2>2, StoredKeyStays DEF Vanishes
<1>4. ASSUME NEW k \in AllConns, HandleGet(k) PROVE \A x \in Keys : Vanishes(x)
  <2> DEFINE x == Head(up[k]).key
             v == Current(x)
  <2>1. Take(k, "GET") /\ kv' = [kv EXCEPT ![x] = v]
      BY <1>4 DEF HandleGet
  <2>2. x \in Keys
      BY <1>1, <2>1, Taken
  <2>3. Due(x, now) \/ v = kv[x]
      BY Zenon DEF Current
  <2> HIDE DEF x, v
  <2> QED
      BY <1>1, <2>1, <2>2, <2>3, StoredKeyStays DEF Vanishes
<1>5. ASSUME NEW k \in AllConns, HandleIncr(k) PROVE \A x \in Keys : Vanishes(x)
  <2> DEFINE x == Head(up[k]).key
             cur == IF Current(x) = ABSENT THEN 0 ELSE Current(x)
             v == IF cur # BLOB THEN (cur + 1) % IntModulus ELSE BLOB
  <2>1. Take(k, "INCR") /\ kv' = [kv EXCEPT ![x] = v]
      BY <1>5 DEF HandleIncr
  <2>2. x \in Keys
      BY <1>1, <2>1, Taken
  <2>3. cur # BLOB => cur \in Ints
    <3>1. Current(x) \in Cells
        BY <1>1, <2>2, ExpiryFrames
    <3> QED
        BY <3>1, Distinct DEF Cells, Values
  <2> HIDE DEF x, cur
  <2>4. cur # BLOB => (cur + 1) % IntModulus \in Ints
      BY <2>3, Distinct DEF Ints
  <2>5. v # ABSENT
      BY <2>4, Distinct DEF Values
  <2> HIDE DEF v
  <2> QED
      BY <1>1, <2>1, <2>2, <2>5, StoredKeyStays DEF Vanishes
<1>6. ASSUME NEW k \in AllConns, HandleSetnx(k) PROVE \A x \in Keys : Vanishes(x)
  <2> DEFINE x == Head(up[k]).key
             w == Head(up[k]).val
             v == IF Current(x) = ABSENT THEN w ELSE kv[x]
  <2>1. Take(k, "SETNX") /\ kv' = [kv EXCEPT ![x] = v]
      BY <1>6 DEF HandleSetnx
  <2>2. x \in Keys /\ w # ABSENT
      BY <1>1, <2>1, Taken, Distinct
  <2>3. v # ABSENT \/ v = kv[x]
      BY <2>2, Zenon
  <2> HIDE DEF x, v, w
  <2> QED
      BY <1>1, <2>1, <2>2, <2>3, StoredKeyStays DEF Vanishes
<1>7. CASE SweepDrop
  <2>1. /\ sweep # NEVER
        /\ \A x \in Keys : kv'[x] = IF Due(x, sweep) THEN ABSENT ELSE kv[x]
      BY <1>7 DEF SweepDrop
  <2>2. \A x \in Keys : Due(x, sweep) => Due(x, now)
      BY <1>1, <2>1 DEF Due, SweepInv
  <2> QED
      BY <2>1, <2>2, Zenon DEF Vanishes
<1>8. CASE Restart
  <2>1. restarts' # restarts
      BY <1>1, <1>8 DEF Restart
  <2> QED
      BY <2>1 DEF Vanishes
<1>9. ASSUME NEW k \in AllConns, HandleDel(k) PROVE \A x \in Keys : Vanishes(x)
    BY <1>9 DEF Vanishes
<1>10. CASE \E n \in Nodes, x \in Keys : Write(n, x) \/ Get(n, x)
    BY <1>2, <1>10 DEF Write, Get, Send, daemon
<1>11. CASE \E k \in AllConns : RemoveClient(k)
    BY <1>2, <1>11 DEF RemoveClient
<1>12. CASE SweepRead \/ Tick
    BY <1>2, <1>12 DEF SweepRead, Tick
<1>13. CASE \E n \in Nodes : Connect(n) \/ Deliver(n) \/ LinkDown(n) \/ DropCache(n) \/ Close(n)
    BY <1>2, <1>13 DEF Connect, Deliver, LinkDown, DropCache, Close, daemon
<1>14. CASE UNCHANGED vars
    BY <1>2, <1>14 DEF vars, daemon
<1> QED
    BY <1>3, <1>4, <1>5, <1>6, <1>7, <1>8, <1>9, <1>10, <1>11, <1>12, <1>13, <1>14, Zenon
       DEF Next, Handle

\* A key vanishes only by a del, a restart or at its deadline, even when a set
\* slips in between the sweeper's look at the clock and its lock
\* (server.hpp:418).
THEOREM KeysDoNotVanish == Spec => NoEarlyExpiry
<1>1. IInv /\ [Next]_vars =>
        [\A x \in Keys : kv[x] # ABSENT /\ kv'[x] = ABSENT
            => Due(x, now) \/ restarts' # restarts \/ \E k \in AllConns : HandleDel(k)]_vars
    BY NoStepExpiresEarly DEF Vanishes
<1> QED
    BY <1>1, SpecIInv, PTL DEF Spec, NoEarlyExpiry
=============================================================================
