--------------------------- MODULE TrackingProofs ---------------------------
(***************************************************************************)
(* Which connection traffic belongs to, for any number of threads,         *)
(* descriptors, addresses, sockets and queued events.                      *)
(***************************************************************************)
EXTENDS TrackingSideProofs

(* The queue *)

IsClose(e, fd, g) == e.tag = "Close" /\ e.fd = fd /\ e.gen = g
Establishes(e) == e.tag = "accept" \/ (e.tag = "getsockopt" /\ e.res = "ok")
(* Place 0 is what the consumer thread has already recorded. *)
OpenAt(i, fd, g) ==
    \/ i = 0 /\ fd \in DOMAIN p2p_cns /\ p2p_cns[fd].gen = g
    \/ i \in DOMAIN queue /\ Establishes(queue[i]) /\ queue[i].fd = fd /\ queue[i].gen = g

(* No event of another socket before the end of this one. *)
Separate(i, fd, g) ==
    \A j \in DOMAIN queue : i < j /\ queue[j].fd = fd /\ queue[j].gen # g =>
        \E k \in DOMAIN queue : i < k /\ k < j /\ IsClose(queue[k], fd, g)
(* The end is on its way, or the socket is still watched. *)
Ends(i, fd, g) ==
    \/ \E k \in DOMAIN queue : i < k /\ IsClose(queue[k], fd, g)
    \/ /\ sock[fd].gen = g
       /\ fd \in connections \/ \E t \in Threads : Ending(t, fd)
Sessions ==
    \A fd \in Fds, i \in Nat, g \in Nat : OpenAt(i, fd, g) => Separate(i, fd, g) /\ Ends(i, fd, g)

(* The outgoing connection that a getsockopt event at place n confirms. *)
Dials(e, fd) == e.fd = fd /\ e.tag \in {"connect", "getsockopt"}
PendingAt(n, fd, g) ==
    \/ \E k \in DOMAIN queue :
          /\ k < n /\ queue[k].tag = "connect" /\ queue[k].fd = fd /\ queue[k].gen = g
          /\ \A m \in DOMAIN queue : k < m /\ m < n => ~Dials(queue[m], fd)
    \/ /\ fd \in DOMAIN pending_out_cns /\ pending_out_cns[fd].gen = g
       /\ \A m \in DOMAIN queue : m < n => ~Dials(queue[m], fd)
Confirms ==
    \A i \in DOMAIN queue : queue[i].tag = "getsockopt" => PendingAt(i, queue[i].fd, queue[i].gen)
Dialled ==
    \A fd \in Fds :
        sock[fd].st = "connecting" /\ ~(\E t \in Threads : Dialling(t, fd)) =>
            PendingAt(Len(queue) + 1, fd, sock[fd].gen)

(* Generations are new, and a watched socket is not reported closed. *)
Generations ==
    /\ \A i \in DOMAIN queue : queue[i].gen <= gen
    /\ \A fd \in Fds : sock[fd].gen <= gen
    /\ \A t \in Threads, fd \in Fds, i \in DOMAIN queue :
         /\ On(t, fd) /\ thr[t].op \in {"connect", "accept"} /\ thr[t].pc \in {"kernel", "insert"}
         /\ queue[i].fd = fd
         => queue[i].gen # sock[fd].gen
    /\ \A fd \in connections, i \in DOMAIN queue : ~IsClose(queue[i], fd, sock[fd].gen)

(* What is watched and established is recorded, or will be. *)
Recorded ==
    \A fd \in connections :
        sock[fd].st = "open" \/ (\E t \in Threads : Established(t, fd)) =>
            \E i \in 0 .. Len(queue) : OpenAt(i, fd, sock[fd].gen)

QueueInv == Sessions /\ Confirms /\ Dialled /\ Generations /\ Recorded

IInv ==
    /\ TrackingType /\ UserInv
    /\ ~lost => ThreadInv /\ QueueInv

-----------------------------------------------------------------------------
(* Steps that leave the queue alone *)

(* What the ring holds.                                                    *)
LEMMA QueueType ==
    ASSUME TrackingType, NEW i \in DOMAIN queue
    PROVE  /\ queue[i] \in Events /\ queue[i].gen \in Nat /\ queue[i].fd \in Fds
           /\ i \in Nat \ {0} /\ i <= Len(queue)
<1>1. queue \in Seq(Events) /\ i \in 1 .. Len(queue)
  BY DEF TrackingType
<1>2. queue[i] \in Events
  BY <1>1
<1>3. QED
  BY <1>1, <1>2 DEF Events

(* A step that sends and takes no event keeps the invariant of the queue.  *)
LEMMA CalmQueue ==
    ASSUME TrackingType, TrackingType', QueueInv, Calm, UNCHANGED <<queue, userVars>>
    PROVE  QueueInv'
<1>1. UNCHANGED <<queue, pending_out_cns, p2p_cns>>
  BY DEF userVars
<1>2. Sessions'
  <2>1. SUFFICES ASSUME NEW fd \in Fds, NEW i \in Nat, NEW g \in Nat, OpenAt(i, fd, g)'
                 PROVE  Separate(i, fd, g)' /\ Ends(i, fd, g)'
    BY DEF Sessions
  <2>2. Separate(i, fd, g) /\ Ends(i, fd, g)
    BY <1>1, <2>1 DEF QueueInv, Sessions, OpenAt
  <2>3. Separate(i, fd, g)'
    BY <1>1, <2>2 DEF Separate
  <2>4. Ends(i, fd, g)'
    BY <1>1, <2>2 DEF Ends, Calm
  <2>5. QED
    BY <2>3, <2>4
<1>3. Confirms'
  BY <1>1 DEF QueueInv, Confirms, PendingAt
<1>4. Dialled'
  BY <1>1 DEF QueueInv, Dialled, PendingAt, Calm
<1>5. Generations'
  <2>1. \A i \in DOMAIN queue : queue[i].gen \in Nat
    BY QueueType
  <2>2. \A fd \in Fds : sock[fd].gen \in Nat
    BY DEF TrackingType, Socks
  <2>3. /\ \A i \in DOMAIN queue' : queue'[i].gen <= gen'
        /\ \A fd \in Fds : sock'[fd].gen <= gen'
    BY <1>1, <2>1, <2>2 DEF QueueInv, Generations, Calm, TrackingType
  <2>4. ASSUME NEW t \in Threads, NEW fd \in Fds, NEW i \in DOMAIN queue',
               (On(t, fd) /\ thr[t].op \in {"connect", "accept"} /\ thr[t].pc \in {"kernel", "insert"})',
               queue'[i].fd = fd
        PROVE  queue'[i].gen # sock'[fd].gen
    BY <1>1, <2>1, <2>2, <2>4 DEF QueueInv, Generations, Calm, TrackingType
  <2>5. ASSUME NEW fd \in connections', NEW i \in DOMAIN queue'
        PROVE  ~IsClose(queue[i], fd, sock[fd].gen)'
    <3>1. fd \in Fds /\ sock'[fd].gen = sock[fd].gen /\ queue'[i] = queue[i] /\ i \in DOMAIN queue
      BY <1>1, <2>5 DEF Calm, TrackingType
    <3>2. ~IsClose(queue[i], fd, sock[fd].gen)
      BY <2>5, <3>1 DEF QueueInv, Generations, Calm, IsClose
    <3>3. QED
      BY <3>1, <3>2 DEF IsClose
  <2>6. QED
    BY <2>3, <2>4, <2>5 DEF Generations
<1>6. Recorded'
  <2>1. SUFFICES ASSUME NEW fd \in connections',
                        sock'[fd].st = "open" \/ (\E t \in Threads : Established(t, fd)')
                 PROVE  \E i \in 0 .. Len(queue') : OpenAt(i, fd, sock[fd].gen)'
    BY DEF Recorded
  <2>2. fd \in connections /\ sock'[fd].gen = sock[fd].gen
    BY <2>1 DEF Calm
  <2>3. PICK i \in 0 .. Len(queue) : OpenAt(i, fd, sock[fd].gen)
    BY <2>1, <2>2 DEF Calm, QueueInv, Recorded
  <2>4. OpenAt(i, fd, sock[fd].gen)'
    BY <1>1, <2>2, <2>3 DEF OpenAt
  <2>5. QED
    BY <1>1, <2>3, <2>4
<1>7. QED
  BY <1>2, <1>3, <1>4, <1>5, <1>6 DEF QueueInv

-----------------------------------------------------------------------------
(* An event is sent *)

(* Thread t says e on descriptor fd, as the last of n + 1 events. *)
Says(t, fd, e) ==
    /\ On(t, fd) /\ fd = thr[t].fd /\ e.fd = fd /\ e.gen = sock[fd].gen /\ e.res = thr[t].res
    /\ \/ SendError(t) /\ e.tag = "Error" /\ thr'[t].pc = "send"
       \/ Send(t) /\ e.tag = Tag(t) /\ thr'[t].pc = "leave"
Speaks(t) ==
    /\ thr[t].pc = "error" <=> SendError(t)
    /\ thr[t].pc = "send" <=> Send(t)
    /\ thr[t].pc \in {"error", "send"}
    /\ thr[t].pc = "error" => thr[t].op \in {"read", "write"} /\ thr[t].res = "error"
    /\ thr[t].op \in {"connect", "accept", "getsockopt", "read", "write", "close", "shutdown"}
Moved(t, fd) ==
    /\ thr'[t].op = thr[t].op /\ thr'[t].fd = fd /\ thr'[t].res = thr[t].res
    /\ \A u \in Threads \ {t} : thr'[u] = thr[u]
    /\ UNCHANGED <<sock, gen, connections, p2p_cns, pending_out_cns>>
Appends(e, n) ==
    /\ n = Len(queue) /\ DOMAIN queue = 1 .. n /\ DOMAIN queue' = 1 .. n + 1 /\ Len(queue') = n + 1
    /\ queue'[n + 1] = e /\ \A i \in 1 .. n : queue'[i] = queue[i]

(* What sending an event does, in one piece.                               *)
LEMMA SendStep ==
    ASSUME TrackingType, ThreadInv, NEW t \in Threads, SendError(t) \/ Send(t), ~lost'
    PROVE  \E fd \in Fds, e \in Events, n \in Nat :
             Says(t, fd, e) /\ Speaks(t) /\ Moved(t, fd) /\ Appends(e, n)
<1>1. PICK fd \in Fds, e \in Events : Says(t, fd, e) /\ queue' = Append(queue, e)
  BY SendFacts DEF Says
<1>2. PICK n \in Nat : n = Len(queue)
  BY DEF TrackingType
<1>3. Appends(e, n)
  BY SMTT(30), <1>1, <1>2 DEF TrackingType, Appends
<1>4. Moved(t, fd)
  BY SMTT(30), <1>1, SendType DEF kernelVars, userVars, Moved, Says
<1>5. Speaks(t)
  <2>1. thr[t] \in Calls /\ thr[t].op # "none"
    BY <1>1 DEF TrackingType, Says, On
  <2>2. QED
    BY <1>1, <2>1 DEF Says, Send, SendError, ThreadInv, CallOrder, Calls, Speaks
<1>6. QED
  BY <1>1, <1>3, <1>4, <1>5

(* A sent event keeps the invariant of the queue, conjunct by conjunct.    *)
LEMMA SendQueue ==
    ASSUME TrackingType, ThreadInv, QueueInv, NEW t \in Threads, SendError(t) \/ Send(t), ~lost'
    PROVE  QueueInv'
<1>1. PICK fd \in Fds, e \in Events, n \in Nat : Says(t, fd, e) /\ Speaks(t) /\ Moved(t, fd) /\ Appends(e, n)
  BY SendStep
<1>2. \A u \in Threads : thr[t].op \in {"connect", "accept", "getsockopt", "close"} /\ On(u, fd) => u = t
  BY <1>1 DEF Says, ThreadInv, Shared
<1>3. (Establishes(e) => fd \in connections /\ sock'[fd].gen = e.gen)
  <2>1. CASE e.tag = "accept"
    <3>1. thr[t].op = "accept" /\ thr[t].pc = "send"
      BY SMTT(30), <1>1, <2>1 DEF Says, Speaks, Tag
    <3>2. QED
      BY <1>1, <3>1 DEF Says, Moved, ThreadInv, Watching
  <2>2. CASE e.tag = "getsockopt"
    <3>1. thr[t].op = "getsockopt"
      BY <1>1, <2>2 DEF Says, Speaks, Tag
    <3>2. sock[fd].st = "connecting"
      BY <1>1, <3>1 DEF Says, ThreadInv, CallState
    <3>3. \A u \in Threads : ~Starting(u, fd) /\ ~Closer(u, fd)
      BY <1>2, <3>1 DEF Starting, Closer
    <3>4. QED
      BY <1>1, <3>2, <3>3 DEF Says, Moved, ThreadInv, Watching
  <2>3. QED
    BY <2>1, <2>2 DEF Establishes
<1>4. Sessions'
  <2>1. SUFFICES ASSUME NEW f \in Fds, NEW i \in Nat, NEW g \in Nat, OpenAt(i, f, g)'
                 PROVE  Separate(i, f, g)' /\ Ends(i, f, g)'
    BY DEF Sessions
  <2>2. CASE OpenAt(i, f, g)
    <3>1. Separate(i, f, g) /\ Ends(i, f, g)
      BY <2>2 DEF QueueInv, Sessions
    <3>2. Separate(i, f, g)'
      <4>1. SUFFICES ASSUME NEW j \in 1 .. n + 1, i < j, queue'[j].fd = f, queue'[j].gen # g
                     PROVE  \E k \in 1 .. n + 1 : i < k /\ k < j /\ IsClose(queue'[k], f, g)
        BY SMTT(30), <1>1 DEF Appends, Separate, IsClose
      <4>2. CASE j \in 1 .. n
        <5>1. PICK k \in 1 .. n : i < k /\ k < j /\ IsClose(queue[k], f, g)
          BY <1>1, <3>1, <4>1, <4>2 DEF Appends, Separate
        <5>2. QED
          BY <1>1, <5>1 DEF Appends
      <4>3. CASE j = n + 1
        <5>1. PICK k \in 1 .. n : i < k /\ IsClose(queue[k], f, g)
          BY SMTT(30), <1>1, <3>1, <4>1, <4>3 DEF Says, Appends, Ends
        <5>2. QED
          BY SMTT(30), <1>1, <4>3, <5>1 DEF Appends
      <4>4. QED
        BY <4>2, <4>3
    <3>3. Ends(i, f, g)'
      <4>1. CASE \E k \in DOMAIN queue : i < k /\ IsClose(queue[k], f, g)
        <5>1. PICK k \in 1 .. n : i < k /\ IsClose(queue[k], f, g)
          BY <1>1, <4>1 DEF Appends
        <5>2. k \in DOMAIN queue' /\ i < k /\ IsClose(queue[k], f, g)'
          BY <1>1, <5>1 DEF Appends, IsClose
        <5>3. QED
          BY <5>2 DEF Ends, IsClose
      <4>2. CASE sock[f].gen = g /\ f \in connections
        BY <1>1, <4>2 DEF Moved, Ends
      <4>3. CASE sock[f].gen = g /\ \E u \in Threads : Ending(u, f)
        <5>1. PICK u \in Threads : Ending(u, f)
          BY SMTT(30), <4>3
        <5>2. CASE u # t
          <6>1. Ending(u, f)'
            BY <1>1, <5>1, <5>2 DEF Moved, Ending, On, Tag
          <6>2. QED
            BY <1>1, <4>3, <6>1 DEF Moved, Ends
        <5>3. CASE u = t /\ SendError(t)
          <6>1. f = fd /\ Ending(t, f)'
            BY <1>1, <5>1, <5>3 DEF Says, Moved, Speaks, Ending, On, Tag
          <6>2. QED
            BY <1>1, <4>3, <6>1 DEF Moved, Ends
        <5>4. CASE u = t /\ Send(t)
          <6>1. f = fd /\ e.tag = "Close"
            BY <1>1, <5>1, <5>4 DEF Says, Speaks, Ending, On
          <6>2. i < n + 1
            BY SMTT(30), <1>1, <2>2 DEF Appends, OpenAt
          <6>3. n + 1 \in DOMAIN queue' /\ IsClose(queue'[n + 1], f, g)
            BY SMTT(30), <1>1, <4>3, <6>1 DEF Says, Appends, IsClose
          <6>4. QED
            BY SMTT(30), <6>2, <6>3 DEF Ends, IsClose
        <5>5. QED
          BY <1>1, <5>2, <5>3, <5>4 DEF Says
      <4>4. QED
        BY <3>1, <4>1, <4>2, <4>3 DEF Ends
    <3>4. QED
      BY <3>2, <3>3
  <2>3. CASE ~OpenAt(i, f, g)
    <3>1. i = n + 1 /\ Establishes(e) /\ f = fd /\ g = e.gen
      BY <1>1, <2>1, <2>3 DEF Says, Appends, Moved, OpenAt, Establishes
    <3>2. Separate(i, f, g)'
      BY SMTT(30), <1>1, <3>1 DEF Appends, Separate
    <3>3. Ends(i, f, g)'
      BY SMTT(30), <1>1, <1>3, <3>1 DEF Moved, Ends
    <3>4. QED
      BY <3>2, <3>3
  <2>4. QED
    BY <2>2, <2>3
<1>5. ASSUME NEW f \in Fds, NEW g \in Nat, NEW m \in 1 .. n + 1, PendingAt(m, f, g)
       PROVE  PendingAt(m, f, g)'
  <2>1. CASE \E k \in DOMAIN queue :
                /\ k < m /\ queue[k].tag = "connect" /\ queue[k].fd = f /\ queue[k].gen = g
                /\ \A l \in DOMAIN queue : k < l /\ l < m => ~Dials(queue[l], f)
    <3>1. PICK k \in 1 .. n :
                /\ k < m /\ queue[k].tag = "connect" /\ queue[k].fd = f /\ queue[k].gen = g
                /\ \A l \in 1 .. n : k < l /\ l < m => ~Dials(queue[l], f)
      BY SMTT(30), <1>1, <2>1 DEF Appends
    <3>2. \A l \in DOMAIN queue' : k < l /\ l < m => ~Dials(queue[l], f)'
      BY SMTT(30), <1>1, <3>1 DEF Appends, Dials
    <3>3. QED
      BY SMTT(30), <1>1, <3>1, <3>2 DEF Appends, PendingAt
  <2>2. CASE /\ f \in DOMAIN pending_out_cns /\ pending_out_cns[f].gen = g
             /\ \A l \in DOMAIN queue : l < m => ~Dials(queue[l], f)
    <3>1. \A l \in DOMAIN queue' : l < m => ~Dials(queue[l], f)'
      BY <1>1, <2>2 DEF Appends, Dials
    <3>2. QED
      BY SMTT(30), <1>1, <2>2, <3>1 DEF Moved, PendingAt
  <2>3. QED
    BY SMTT(30), <1>5, <2>1, <2>2 DEF PendingAt
<1>6. Confirms'
  <2>1. SUFFICES ASSUME NEW i \in 1 .. n + 1, queue'[i].tag = "getsockopt"
                 PROVE  PendingAt(i, queue[i].fd, queue[i].gen)'
    BY <1>1 DEF Appends, Confirms
  <2>2. CASE i \in 1 .. n
    <3>1. queue'[i] = queue[i] /\ queue[i].fd \in Fds /\ queue[i].gen \in Nat
      BY SMTT(30), <1>1, <2>2, QueueType DEF Appends
    <3>2. PendingAt(i, queue[i].fd, queue[i].gen)
      BY <1>1, <2>1, <2>2, <3>1 DEF Appends, QueueInv, Confirms
    <3>3. PICK f \in Fds, g \in Nat : f = queue[i].fd /\ g = queue[i].gen
      BY <3>1
    <3>4. PendingAt(i, f, g)'
      BY SMTT(30), <1>5, <3>2, <3>3
    <3>5. QED
      BY <3>1, <3>3, <3>4 DEF PendingAt
  <2>3. CASE i = n + 1
    <3>1. thr[t].op = "getsockopt" /\ thr[t].pc = "send"
      BY SMTT(30), <1>1, <2>1, <2>3 DEF Says, Appends, Speaks, Tag
    <3>2. sock[fd].st = "connecting" /\ \A u \in Threads : ~Dialling(u, fd)
      BY <1>1, <1>2, <3>1 DEF Says, ThreadInv, CallState, Dialling
    <3>3. PICK g \in Nat : g = sock[fd].gen
      BY SMTT(30) DEF TrackingType, Socks
    <3>4. PendingAt(n + 1, fd, g)
      BY <1>1, <3>2, <3>3 DEF Appends, QueueInv, Dialled
    <3>5. PendingAt(n + 1, fd, g)'
      BY <1>5, <3>4
    <3>6. QED
      BY <1>1, <2>3, <3>3, <3>5 DEF Says, Appends, PendingAt
  <2>4. QED
    BY <2>2, <2>3
<1>7. Dialled'
  <2>1. SUFFICES ASSUME NEW f \in Fds, sock'[f].st = "connecting", ~(\E u \in Threads : Dialling(u, f)')
                 PROVE  PendingAt(Len(queue) + 1, f, sock[f].gen)'
    BY DEF Dialled
  <2>2. PICK g \in Nat : g = sock[f].gen
    BY DEF TrackingType, Socks
  <2>3. SUFFICES PendingAt(n + 2, f, g)'
    <3>1. (Len(queue) + 1)' = n + 2 /\ sock'[f].gen = g
      BY <1>1, <2>2 DEF Appends, Moved
    <3>2. QED
      BY <3>1 DEF PendingAt
  <2>4. CASE f = fd /\ thr[t].op = "connect"
    <3>1. thr[t].res = "ok" /\ Send(t)
      BY <1>1, <2>1, <2>4 DEF Says, Moved, Speaks, Dialling, On
    <3>2. e.tag = "connect"
      BY SMTT(30), <1>1, <2>4, <3>1 DEF Says, Speaks, Tag, Send, SendError
    <3>3. PendingAt(n + 2, f, g)'
      BY <1>1, <2>2, <2>4, <3>2 DEF Says, Appends, PendingAt
    <3>4. QED
      BY <3>3
  <2>5. CASE ~(f = fd /\ thr[t].op = "connect")
    <3>1. f = fd => e.tag \in {"Close", "Error"} /\ thr[t].op = "close"
      <4>1. f = fd => thr[t].op \in {"getsockopt", "close"}
        BY SMTT(30), <1>1, <2>1, <2>5 DEF Says, Moved, Speaks, ThreadInv, CallState
      <4>2. f = fd => thr[t].op # "getsockopt"
        BY SMTT(30), <1>1, <2>1 DEF Says, Moved, Speaks, Dialling, On
      <4>3. QED
        BY SMTT(30), <1>1, <4>1, <4>2 DEF Says, Tag
    <3>2. \A u \in Threads : ~Dialling(u, f)
      BY SMTT(30), <1>1, <2>1, <2>5, <3>1 DEF Says, Moved, Dialling, On
    <3>3. PendingAt(n + 1, f, g)
      BY <1>1, <2>1, <2>2, <3>2 DEF Appends, Moved, QueueInv, Dialled
    <3>4. PendingAt(n + 1, f, g)'
      BY <1>5, <3>3
    <3>5. ~Dials(e, f)
      BY SMTT(30), <1>1, <3>1 DEF Says, Dials
    <3>6. PendingAt(n + 2, f, g)'
      BY SMTT(30), <1>1, <3>4, <3>5 DEF Appends, PendingAt
    <3>7. QED
      BY <3>6
  <2>6. QED
    BY <2>4, <2>5
<1>8. Generations'
  <2>1. \A i \in DOMAIN queue' : queue'[i].gen <= gen'
    BY SMTT(30), <1>1 DEF Says, Appends, Moved, QueueInv, Generations
  <2>2. \A f \in Fds : sock'[f].gen <= gen'
    BY SMTT(30), <1>1 DEF Moved, QueueInv, Generations
  <2>3. ASSUME NEW u \in Threads, NEW f \in Fds, NEW i \in DOMAIN queue',
               (On(u, f) /\ thr[u].op \in {"connect", "accept"} /\ thr[u].pc \in {"kernel", "insert"})',
               queue'[i].fd = f
        PROVE  queue'[i].gen # sock'[f].gen
    <3>1. u # t /\ On(u, f) /\ thr[u].op \in {"connect", "accept"} /\ thr[u].pc \in {"kernel", "insert"}
      BY Zenon, <1>1, <2>3 DEF Says, Moved, On
    <3>2. Shared /\ On(t, fd)
      BY <1>1 DEF Says, ThreadInv
    <3>3. f # fd
      BY <3>1, <3>2 DEF Shared
    <3>4. i \in 1 .. n
      BY SMTT(30), <1>1, <2>3, <3>3 DEF Says, Appends
    <3>5. i \in DOMAIN queue /\ queue'[i] = queue[i] /\ sock' = sock
      BY <1>1, <3>4 DEF Appends, Moved
    <3>6. Generations
      BY <1>1 DEF QueueInv
    <3>7. QED
      BY <2>3, <3>1, <3>5, <3>6 DEF Generations
  <2>4. ASSUME NEW f \in connections', NEW i \in DOMAIN queue'
        PROVE  ~IsClose(queue[i], f, sock[f].gen)'
    <3>1. CASE i \in 1 .. n
      BY SMTT(30), <1>1, <2>4, <3>1 DEF Appends, Moved, QueueInv, Generations, IsClose
    <3>2. CASE i = n + 1 /\ f = fd
      <4>1. ~Ending(t, fd)
        BY Zenon, <1>1, <2>4, <3>2 DEF Says, Moved, ThreadInv, Watching
      <4>2. e.tag # "Close"
        BY SMTT(30), <1>1, <4>1 DEF Says, Speaks, Ending
      <4>3. QED
        BY SMTT(30), <1>1, <3>2, <4>2 DEF Appends, IsClose
    <3>3. CASE i = n + 1 /\ f # fd
      BY <1>1, <3>3 DEF Says, Appends, IsClose
    <3>4. QED
      BY SMTT(30), <1>1, <3>1, <3>2, <3>3 DEF Appends
  <2>5. QED
    BY SMTT(30), <2>1, <2>2, <2>3, <2>4 DEF Generations
<1>9. Recorded'
  <2>1. SUFFICES ASSUME NEW f \in connections,
                        sock[f].st = "open" \/ (\E u \in Threads : Established(u, f)')
                 PROVE  \E i \in 0 .. n + 1 : OpenAt(i, f, sock[f].gen)'
    BY <1>1 DEF Appends, Moved, Recorded, OpenAt
  <2>2. CASE Established(t, f)'
    <3>1. f = fd /\ Establishes(e)
      BY SMTT(30), <1>1, <2>2 DEF Says, Moved, Speaks, Established, On, Establishes, Tag
    <3>2. OpenAt(n + 1, f, sock[f].gen)'
      BY SMTT(30), <1>1, <3>1 DEF Says, Appends, Moved, OpenAt, Establishes
    <3>3. QED
      BY <3>2
  <2>3. CASE ~Established(t, f)'
    <3>1. sock[f].st = "open" \/ (\E u \in Threads : Established(u, f))
      BY SMTT(30), <1>1, <2>1, <2>3 DEF Moved, Established, On
    <3>2. PICK i \in 0 .. n : OpenAt(i, f, sock[f].gen)
      BY SMTT(30), <1>1, <2>1, <3>1 DEF Appends, QueueInv, Recorded
    <3>3. OpenAt(i, f, sock[f].gen)'
      BY <1>1, <3>2 DEF Appends, Moved, OpenAt, Establishes
    <3>4. QED
      BY SMTT(30), <3>2, <3>3
  <2>4. QED
    BY SMTT(30), <2>2, <2>3
<1>10. QED
  BY <1>4, <1>6, <1>7, <1>8, <1>9 DEF QueueInv

-----------------------------------------------------------------------------
(* An event is dispatched *)

(* h leaves the queue, and n events are left. *)
Pops(h, n) ==
    /\ h = queue[1] /\ n + 1 = Len(queue)
    /\ DOMAIN queue = 1 .. n + 1 /\ DOMAIN queue' = 1 .. n /\ Len(queue') = n
    /\ \A i \in 1 .. n : queue'[i] = queue[i + 1]
Keeps == UNCHANGED <<sock, gen, thr, connections>>
(* What h does to the maps.  A getsockopt event confirms the connection of *)
(* its own socket.                                                         *)
Handled(h) ==
    /\ \A f \in DOMAIN p2p_cns : f # h.fd => f \in DOMAIN p2p_cns' /\ p2p_cns'[f] = p2p_cns[f]
    /\ \A f \in DOMAIN p2p_cns' : f # h.fd => f \in DOMAIN p2p_cns
    /\ Establishes(h) => h.fd \in DOMAIN p2p_cns' /\ p2p_cns'[h.fd].gen = h.gen
    /\ h.tag = "Close" => h.fd \notin DOMAIN p2p_cns'
    /\ ~Establishes(h) /\ h.tag # "Close" => UNCHANGED p2p_cns
    /\ \A f \in DOMAIN pending_out_cns : f # h.fd =>
         f \in DOMAIN pending_out_cns' /\ pending_out_cns'[f] = pending_out_cns[f]
    /\ h.tag = "connect" => h.fd \in DOMAIN pending_out_cns' /\ pending_out_cns'[h.fd].gen = h.gen
    /\ h.tag \notin {"connect", "getsockopt"} => UNCHANGED pending_out_cns

(* What taking the first event does to the queue.                          *)
LEMMA DispatchPops ==
    ASSUME TrackingType, Dispatch
    PROVE  \E n \in Nat : Pops(Head1, n)
<1>1. PICK n \in Nat : n + 1 = Len(queue)
  <2>1. Len(queue) \in Nat \ {0}
    BY DispatchType
  <2>2. Len(queue) - 1 \in Nat /\ Len(queue) - 1 + 1 = Len(queue)
    BY <2>1
  <2>3. QED
    BY <2>2, Zenon
<1>2. queue \in Seq(Events) /\ queue' \in Seq(Events) /\ Len(queue') = n /\ queue[1] = Head1
  BY <1>1, DispatchType DEF TrackingType
<1>3. DOMAIN queue = 1 .. n + 1 /\ DOMAIN queue' = 1 .. n
  BY <1>1, <1>2
<1>4. \A i \in 1 .. n : queue'[i] = queue[i + 1]
  BY <1>3, DispatchType
<1>5. QED
  BY <1>1, <1>2, <1>3, <1>4 DEF Pops

(* What the event does to the consumer thread's maps.                      *)
LEMMA DispatchHandled ==
    ASSUME TrackingType, QueueInv, Dispatch
    PROVE  Handled(Head1)
<1>1. PICK h \in Events : h = Head1 /\ h = queue[1]
  BY DispatchType
<1>2. CASE h.tag = "connect"
  <2>1. OnOutgoingConnection(h)
    BY <1>1, <1>2 DEF Dispatch
  <2>2. /\ UNCHANGED p2p_cns
        /\ pending_out_cns' = With(pending_out_cns, h.fd, [addr |-> h.addr, gen |-> h.gen])
    BY <2>1 DEF OnOutgoingConnection
  <2>3. QED
    BY <1>1, <1>2, <2>2 DEF Handled, Establishes, With, Without, Restricted
<1>3. CASE h.tag = "getsockopt"
  <2>1. OnGetSockOpt(h)
    BY <1>1, <1>3 DEF Dispatch
  <2>2. pending_out_cns' = Without(pending_out_cns, h.fd)
    BY <2>1 DEF OnGetSockOpt
  <2>3. h.fd \in DOMAIN pending_out_cns /\ pending_out_cns[h.fd].gen = h.gen
    <3>1. PendingAt(1, h.fd, h.gen)
      BY <1>1, <1>3, DispatchType DEF QueueInv, Confirms
    <3>2. \A k \in DOMAIN queue : ~(k < 1)
      BY QueueType
    <3>3. QED
      BY <3>1, <3>2 DEF PendingAt
  <2>4. CASE h.res = "ok"
    <3>1. p2p_cns' = With(p2p_cns, h.fd, [addr |-> pending_out_cns[h.fd].addr, gen |-> h.gen])
      BY <2>1, <2>3, <2>4 DEF OnGetSockOpt, NewConnection
    <3>2. QED
      BY SMTT(30), <1>1, <1>3, <2>2, <2>4, <3>1 DEF Handled, Establishes, With, Without, Restricted
  <2>5. CASE h.res # "ok"
    <3>1. UNCHANGED p2p_cns
      BY <2>1, <2>5 DEF OnGetSockOpt
    <3>2. QED
      BY <1>1, <1>3, <2>2, <2>5, <3>1 DEF Handled, Establishes, With, Without, Restricted
  <2>6. QED
    BY <2>4, <2>5
<1>4. CASE h.tag = "accept"
  <2>1. OnIncomingConnection(h)
    BY <1>1, <1>4 DEF Dispatch
  <2>2. /\ UNCHANGED pending_out_cns
        /\ p2p_cns' = With(p2p_cns, h.fd, [addr |-> h.addr, gen |-> h.gen])
    BY <2>1 DEF OnIncomingConnection, NewConnection
  <2>3. QED
    BY <1>1, <1>4, <2>2 DEF Handled, Establishes, With, Without, Restricted
<1>5. CASE h.tag = "Close"
  <2>1. OnDisconnected(h)
    BY <1>1, <1>5 DEF Dispatch
  <2>2. UNCHANGED pending_out_cns /\ p2p_cns' = Without(p2p_cns, h.fd)
    BY <2>1 DEF OnDisconnected
  <2>3. QED
    BY <1>1, <1>5, <2>2 DEF Handled, Establishes, With, Without, Restricted
<1>6. CASE h.tag \notin {"connect", "getsockopt", "accept", "Close"}
  <2>1. UNCHANGED <<p2p_cns, pending_out_cns>>
    BY <1>1, <1>6 DEF Dispatch, OnDataOrError, userVars
  <2>2. QED
    BY <1>1, <1>6, <2>1 DEF Handled, Establishes
<1>7. QED
  BY <1>1, <1>2, <1>3, <1>4, <1>5, <1>6

(* A handled event keeps the invariant of the queue, conjunct by conjunct. *)
LEMMA DispatchQueue ==
    ASSUME TrackingType, QueueInv, Dispatch
    PROVE  QueueInv'
<1>1. PICK h \in Events, n \in Nat : Pops(h, n) /\ Keeps /\ Handled(h)
  BY DispatchType, DispatchPops, DispatchHandled DEF Keeps
<1>2. ASSUME NEW f \in Fds, NEW i \in Nat, NEW g \in Nat, NEW a \in Nat,
             a = i + 1 \/ (a = 0 /\ i = 0 /\ ~IsClose(h, f, g)),
             Separate(a, f, g), Ends(a, f, g)
      PROVE  Separate(i, f, g)' /\ Ends(i, f, g)'
  <2>1. ASSUME NEW k \in 1 .. n + 1, a < k, IsClose(queue[k], f, g)
        PROVE  k - 1 \in 1 .. n /\ i < k - 1 /\ IsClose(queue'[k - 1], f, g)
    <3>1. k # 1
      BY <1>1, <1>2, <2>1 DEF Pops
    <3>2. k - 1 \in 1 .. n /\ queue'[k - 1] = queue[k]
      BY <1>1, <3>1 DEF Pops
    <3>3. i < k - 1
      BY <1>2, <2>1, <3>1
    <3>4. QED
      BY SMTT(30), <2>1, <3>2, <3>3
  <2>2. Separate(i, f, g)'
    <3>1. SUFFICES ASSUME NEW j \in 1 .. n, i < j, queue'[j].fd = f, queue'[j].gen # g
                   PROVE  \E k \in 1 .. n : i < k /\ k < j /\ IsClose(queue'[k], f, g)
      BY <1>1, Zenon DEF Pops, Separate, IsClose
    <3>2. j + 1 \in 1 .. n + 1 /\ queue[j + 1] = queue'[j] /\ a < j + 1
      BY SMTT(30), <1>1, <1>2, <3>1 DEF Pops
    <3>3. PICK k \in 1 .. n + 1 : a < k /\ k < j + 1 /\ IsClose(queue[k], f, g)
      BY SMTT(30), <1>1, <1>2, <3>1, <3>2 DEF Pops, Separate
    <3>4. k - 1 \in 1 .. n /\ i < k - 1 /\ IsClose(queue'[k - 1], f, g)
      BY <2>1, <3>3
    <3>5. k - 1 < j
      BY <3>3
    <3>6. QED
      BY <3>4, <3>5
  <2>3. Ends(i, f, g)'
    <3>1. CASE \E k \in DOMAIN queue : a < k /\ IsClose(queue[k], f, g)
      <4>1. PICK k \in 1 .. n + 1 : a < k /\ IsClose(queue[k], f, g)
        BY <1>1, <3>1 DEF Pops
      <4>2. k - 1 \in DOMAIN queue' /\ i < k - 1 /\ IsClose(queue'[k - 1], f, g)
        BY <1>1, <2>1, <4>1 DEF Pops
      <4>3. PICK l \in DOMAIN queue' : i < l /\ IsClose(queue'[l], f, g)
        BY <4>2
      <4>4. QED
        BY <4>3 DEF Ends, IsClose
    <3>2. CASE /\ sock[f].gen = g
               /\ f \in connections \/ \E t \in Threads : Ending(t, f)
      BY <1>1, <3>2 DEF Keeps, Ends, Ending, On, Tag
    <3>3. QED
      BY SMTT(30), <1>2, <3>1, <3>2 DEF Ends
  <2>4. QED
    BY <2>2, <2>3
<1>3. Sessions'
  <2>1. SUFFICES ASSUME NEW f \in Fds, NEW i \in Nat, NEW g \in Nat, OpenAt(i, f, g)'
                 PROVE  Separate(i, f, g)' /\ Ends(i, f, g)'
    BY DEF Sessions
  <2>2. PICK a \in Nat : /\ a = i + 1 \/ (a = 0 /\ i = 0 /\ ~IsClose(h, f, g))
                         /\ OpenAt(a, f, g)
    <3>1. CASE i # 0
      <4>1. i \in 1 .. n /\ Establishes(queue'[i]) /\ queue'[i].fd = f /\ queue'[i].gen = g
        BY <1>1, <2>1, <3>1 DEF Pops, OpenAt, Establishes
      <4>2. OpenAt(i + 1, f, g)
        BY <1>1, <4>1 DEF Pops, OpenAt, Establishes
      <4>3. QED
        BY <4>2
    <3>2. CASE i = 0
      <4>1. f \in DOMAIN p2p_cns' /\ p2p_cns'[f].gen = g
        BY <1>1, <2>1, <3>2 DEF Pops, OpenAt
      <4>2. CASE f = h.fd /\ Establishes(h)
        <5>1. OpenAt(1, f, g)
          BY <1>1, <4>1, <4>2 DEF Pops, Handled, OpenAt
        <5>2. QED
          BY SMTT(30), <3>2, <5>1
      <4>3. CASE ~(f = h.fd /\ Establishes(h))
        <5>1. ~(h.tag = "Close" /\ h.fd = f) /\ f \in DOMAIN p2p_cns /\ p2p_cns'[f] = p2p_cns[f]
          BY <1>1, <4>1, <4>3 DEF Pops, Handled
        <5>2. OpenAt(0, f, g) /\ ~IsClose(h, f, g)
          BY <4>1, <5>1 DEF OpenAt, IsClose
        <5>3. QED
          BY <3>2, <5>2
      <4>4. QED
        BY SMTT(30), <4>2, <4>3
    <3>3. QED
      BY <3>1, <3>2
  <2>3. Separate(a, f, g) /\ Ends(a, f, g)
    BY SMTT(30), <2>2 DEF QueueInv, Sessions
  <2>4. QED
    BY <1>2, <2>2, <2>3
<1>4. ASSUME NEW f \in Fds, NEW g \in Nat, NEW m \in Nat \ {0}, PendingAt(m + 1, f, g)
      PROVE  PendingAt(m, f, g)'
  <2>1. CASE \E k \in DOMAIN queue :
                /\ k < m + 1 /\ queue[k].tag = "connect" /\ queue[k].fd = f /\ queue[k].gen = g
                /\ \A l \in DOMAIN queue : k < l /\ l < m + 1 => ~Dials(queue[l], f)
    <3>1. PICK k \in 1 .. n + 1 :
                /\ k < m + 1 /\ queue[k].tag = "connect" /\ queue[k].fd = f /\ queue[k].gen = g
                /\ \A l \in 1 .. n + 1 : k < l /\ l < m + 1 => ~Dials(queue[l], f)
      BY Zenon, <1>1, <2>1 DEF Pops
    <3>2. \A l \in 1 .. n : k - 1 < l /\ l < m => ~Dials(queue'[l], f)
      <4>1. SUFFICES ASSUME NEW l \in 1 .. n, k - 1 < l, l < m PROVE ~Dials(queue'[l], f)
        OBVIOUS
      <4>2. l + 1 \in 1 .. n + 1 /\ k < l + 1 /\ l + 1 < m + 1 /\ queue'[l] = queue[l + 1]
        BY <1>1, <4>1 DEF Pops
      <4>3. QED
        BY <3>1, <4>2
    <3>3. CASE k = 1
      <4>1. f \in DOMAIN pending_out_cns' /\ pending_out_cns'[f].gen = g
        BY <1>1, <3>1, <3>3 DEF Pops, Handled
      <4>2. \A l \in DOMAIN queue' : l < m => ~Dials(queue[l], f)'
        BY SMTT(30), <1>1, <3>2, <3>3 DEF Pops, Dials
      <4>3. QED
        BY SMTT(30), <4>1, <4>2 DEF PendingAt
    <3>4. CASE k # 1
      <4>1. k - 1 \in DOMAIN queue' /\ queue'[k - 1] = queue[k] /\ k - 1 < m
        BY <1>1, <3>1, <3>4 DEF Pops
      <4>2. PICK l \in DOMAIN queue' : l = k - 1
        BY <4>1
      <4>3. \A x \in DOMAIN queue' : l < x /\ x < m => ~Dials(queue[x], f)'
        BY <1>1, <3>2, <4>2 DEF Pops, Dials
      <4>4. QED
        BY SMTT(30), <3>1, <4>1, <4>2, <4>3 DEF PendingAt
    <3>5. QED
      BY <3>3, <3>4
  <2>2. CASE /\ f \in DOMAIN pending_out_cns /\ pending_out_cns[f].gen = g
             /\ \A l \in DOMAIN queue : l < m + 1 => ~Dials(queue[l], f)
    <3>1. ~Dials(h, f)
      BY SMTT(30), <1>1, <2>2 DEF Pops
    <3>2. f \in DOMAIN pending_out_cns' /\ pending_out_cns'[f].gen = g
      BY <1>1, <2>2, <3>1 DEF Pops, Handled, Dials
    <3>3. \A l \in DOMAIN queue' : l < m => ~Dials(queue[l], f)'
      BY SMTT(30), <1>1, <2>2 DEF Pops, Dials
    <3>4. QED
      BY <3>2, <3>3 DEF PendingAt
  <2>3. QED
    BY <1>4, <2>1, <2>2 DEF PendingAt
<1>5. Confirms'
  <2>1. SUFFICES ASSUME NEW i \in 1 .. n, queue'[i].tag = "getsockopt"
                 PROVE  PendingAt(i, queue[i].fd, queue[i].gen)'
    BY <1>1 DEF Pops, Confirms
  <2>2. i + 1 \in DOMAIN queue /\ queue'[i] = queue[i + 1]
    BY <1>1 DEF Pops
  <2>3. PICK f \in Fds, g \in Nat : f = queue[i + 1].fd /\ g = queue[i + 1].gen
    BY <2>2, QueueType
  <2>4. PendingAt(i + 1, f, g)
    BY <2>1, <2>2, <2>3 DEF QueueInv, Confirms
  <2>5. PendingAt(i, f, g)'
    BY SMTT(30), <1>4, <2>4
  <2>6. QED
    BY <2>2, <2>3, <2>5 DEF PendingAt
<1>6. Dialled'
  <2>1. SUFFICES ASSUME NEW f \in Fds, sock[f].st = "connecting", ~(\E u \in Threads : Dialling(u, f))
                 PROVE  PendingAt(Len(queue) + 1, f, sock[f].gen)'
    BY <1>1 DEF Keeps, Dialled, Dialling, On
  <2>2. PICK g \in Nat : g = sock[f].gen
    BY DEF TrackingType, Socks
  <2>3. PendingAt(n + 2, f, g)
    <3>1. n + 2 = Len(queue) + 1
      BY <1>1 DEF Pops
    <3>2. QED
      BY <2>1, <2>2, <3>1 DEF QueueInv, Dialled
  <2>4. PendingAt(n + 1, f, g)'
    <3>1. n + 1 \in Nat \ {0} /\ n + 2 = (n + 1) + 1
      OBVIOUS
    <3>2. QED
      BY <1>4, <2>3, <3>1
  <2>5. (Len(queue) + 1)' = n + 1 /\ sock'[f].gen = g
    BY SMTT(30), <1>1, <2>2 DEF Pops, Keeps
  <2>6. QED
    BY SMTT(30), <2>4, <2>5 DEF PendingAt
<1>7. Generations'
  <2>1. \A i \in DOMAIN queue' : i + 1 \in DOMAIN queue /\ queue'[i] = queue[i + 1]
    BY SMTT(30), <1>1 DEF Pops
  <2>2. ASSUME NEW i \in DOMAIN queue'
        PROVE  /\ queue'[i].gen <= gen'
               /\ \A t \in Threads, fd \in Fds :
                    (/\ On(t, fd) /\ thr[t].op \in {"connect", "accept"} /\ thr[t].pc \in {"kernel", "insert"}
                     /\ queue[i].fd = fd)'
                    => queue'[i].gen # sock'[fd].gen
               /\ \A fd \in connections' : ~IsClose(queue[i], fd, sock[fd].gen)'
    <3>1. PICK j \in DOMAIN queue : queue'[i] = queue[j]
      BY <2>1
    <3>2. QED
      BY SMTT(30), <1>1, <3>1 DEF Keeps, QueueInv, Generations, On, IsClose
  <2>3. QED
    BY Zenon, <1>1, <2>2 DEF Keeps, QueueInv, Generations
<1>8. Recorded'
  <2>1. SUFFICES ASSUME NEW f \in connections,
                        sock[f].st = "open" \/ (\E u \in Threads : Established(u, f))
                 PROVE  \E i \in 0 .. n : OpenAt(i, f, sock[f].gen)'
    BY <1>1 DEF Pops, Keeps, Recorded, Established, On, OpenAt
  <2>2. PICK g \in Nat : g = sock[f].gen /\ f \in Fds
    BY DEF TrackingType, Socks
  <2>3. PICK i \in 0 .. n + 1 : OpenAt(i, f, g)
    BY <1>1, <2>1, <2>2 DEF Pops, QueueInv, Recorded
  <2>4. PICK a \in 0 .. n : OpenAt(a, f, g)'
    <3>1. CASE i = 0 /\ h.fd # f
      <4>1. f \in DOMAIN p2p_cns' /\ p2p_cns'[f].gen = g
        BY SMTT(30), <1>1, <2>3, <3>1 DEF Pops, Handled, OpenAt
      <4>2. QED
        BY SMTT(30), <4>1 DEF OpenAt
    <3>2. CASE i = 0 /\ h.fd = f
      <4>1. Separate(0, f, g) /\ f \in DOMAIN p2p_cns /\ p2p_cns[f].gen = g
        BY SMTT(30), <1>1, <2>2, <2>3, <3>2 DEF Pops, QueueInv, Sessions, OpenAt
      <4>2. h.gen = g
        BY SMTT(30), <1>1, <3>2, <4>1 DEF Pops, Separate
      <4>3. h.tag # "Close"
        BY SMTT(30), <1>1, <2>2, <3>2, <4>2 DEF Pops, QueueInv, Generations, IsClose
      <4>4. f \in DOMAIN p2p_cns' /\ p2p_cns'[f].gen = g
        BY SMTT(30), <1>1, <3>2, <4>1, <4>2, <4>3 DEF Pops, Handled
      <4>5. QED
        BY <4>4 DEF OpenAt
    <3>3. CASE i = 1
      <4>1. f \in DOMAIN p2p_cns' /\ p2p_cns'[f].gen = g
        BY <1>1, <2>3, <3>3 DEF Pops, Handled, OpenAt
      <4>2. QED
        BY <4>1 DEF OpenAt
    <3>4. CASE i \in 2 .. n + 1
      <4>1. i - 1 \in 1 .. n /\ queue'[i - 1] = queue[i]
        BY <1>1, <3>4 DEF Pops
      <4>2. PICK a \in 1 .. n : a = i - 1
        BY <4>1
      <4>3. OpenAt(a, f, g)'
        BY <1>1, <2>3, <3>4, <4>1, <4>2 DEF Pops, OpenAt, Establishes
      <4>4. QED
        BY <4>3
    <3>5. QED
      BY <3>1, <3>2, <3>3, <3>4
  <2>5. QED
    BY SMTT(30), <1>1, <2>2, <2>4 DEF Keeps, OpenAt
<1>9. QED
  BY SMTT(30), <1>3, <1>5, <1>6, <1>7, <1>8 DEF QueueInv

-----------------------------------------------------------------------------
(* The theorems *)

(* Nothing is watched, queued or recorded at the start.                    *)
LEMMA InitInv == Init => IInv
<1> SUFFICES ASSUME Init PROVE IInv
  OBVIOUS
<1>1. TrackingType
  <2>1. NoSock \in Socks /\ Idle \in Calls
    BY DEF NoSock, Socks, Places, Idle, Calls
  <2>2. /\ sock \in [Fds -> Socks] /\ thr \in [Threads -> Calls]
        /\ gen \in Nat /\ connections \subseteq Fds /\ lost \in BOOLEAN
    BY <2>1, Zenon DEF Init
  <2>3. queue \in Seq(Events)
    BY DEF Init
  <2>4. \A t \in Threads : thr[t].pc = "idle"
    BY Zenon DEF Init, Idle
  <2>5. QED
    BY SMTT(30), <2>2, <2>3, <2>4 DEF TrackingType
<1>2. UserInv
  BY SMTT(30) DEF Init, Empty, UserInv, Known, Reported, NoLeakedConnection
<1>3. ThreadInv
  BY DEF Init, Idle, NoSock, ThreadInv, CallOrder, CallState, Shared, Watching, On, Ending
<1>4. QueueInv
  <2>1. /\ DOMAIN queue = {} /\ DOMAIN p2p_cns = {} /\ connections = {}
        /\ \A fd \in Fds : sock[fd].st = "free" /\ sock[fd].gen = 0
        /\ \A t \in Threads, fd \in Fds : ~On(t, fd)
    BY DEF Init, Empty, NoSock, Idle, On
  <2>2. Sessions
    BY <2>1 DEF Sessions, OpenAt
  <2>3. Confirms
    BY <2>1 DEF Confirms
  <2>4. Dialled
    BY <2>1 DEF Dialled
  <2>5. Generations
    BY SMTT(30), <2>1 DEF Init, Generations
  <2>6. Recorded
    BY SMTT(30), <2>1 DEF Recorded
  <2>7. QED
    BY SMTT(30), <2>2, <2>3, <2>4, <2>5, <2>6 DEF QueueInv
<1>5. QED
  BY <1>1, <1>2, <1>3, <1>4 DEF IInv

(* Every step keeps the inductive invariant.                               *)
LEMMA NextInv == IInv /\ [Next]_vars => IInv'
<1> SUFFICES ASSUME IInv, [Next]_vars PROVE IInv'
  OBVIOUS
<1> USE DEF IInv
<1>1. ASSUME NEW t \in Threads,
             \/ EnterConnect(t) \/ EnterAccept(t) \/ EnterGetSockOpt(t) \/ EnterIo(t) \/ EnterClose(t)
             \/ ReturnsEagain(t) \/ ReturnsConnect(t) \/ ReturnsAccept(t)
             \/ ReturnsGetSockOpt(t) \/ ReturnsIo(t)
             \/ Insert(t) \/ Get(t) \/ Remove(t) \/ Leave(t)
      PROVE  IInv'
  <2>1. TrackingType' /\ UNCHANGED <<queue, userVars>> /\ (~lost' => ~lost)
    BY <1>1, EnterType, ReturnType, ProbeType, LeaveType, Zenon
  <2>2. UserInv'
    BY <2>1, UserStays
  <2>3. ASSUME ~lost' PROVE ThreadInv' /\ QueueInv'
    <3>1. ThreadInv /\ QueueInv
      BY SMTT(30), <2>1, <2>3
    <3>2. ThreadInv' /\ Calm
      BY SMTT(30), <1>1, <2>3, <3>1, EnterConnectStep, EnterAcceptStep, EnterSocketStep, EagainStep, ReturnsStep,
         ReturnsAcceptStep, InsertStep, GetStep, RemoveStep, LeaveStep
    <3>3. QED
      BY <2>1, <3>1, <3>2, CalmQueue
  <2>4. QED
    BY <2>1, <2>2, <2>3
<1>2. ASSUME NEW t \in Threads, SendError(t) \/ Send(t) PROVE IInv'
  <2>1. TrackingType' /\ UNCHANGED userVars /\ (~lost' => ~lost)
    BY <1>2, SendType
  <2>2. UserInv'
    BY <2>1, UserStays
  <2>3. ~lost' => ThreadInv' /\ QueueInv'
    BY <1>2, <2>1, SendThread, SendQueue
  <2>4. QED
    BY SMTT(30), <2>1, <2>2, <2>3
<1>3. CASE Dispatch
  <2>1. TrackingType' /\ UNCHANGED <<sock, gen, thr, connections>> /\ (~lost' => ~lost)
    BY <1>3, DispatchType
  <2>2. UserInv'
    BY SMTT(30), <1>3, DispatchUser
  <2>3. ThreadInv => ThreadInv'
    BY <2>1 DEF ThreadInv, CallOrder, CallState, Shared, Watching, On, Starting, Closer, Ending, Tag
  <2>4. QED
    BY SMTT(30), <1>3, <2>1, <2>2, <2>3, DispatchQueue
<1>4. CASE UNCHANGED vars
  <2>1. UNCHANGED <<sock, gen, thr, connections, queue, pending_out_cns, p2p_cns, cns, network, lost>>
    BY <1>4 DEF vars
  <2>2. TrackingType'
    BY <2>1 DEF TrackingType
  <2>3. UserInv'
    BY SMTT(30), <2>1, UserStays DEF userVars
  <2>4. ThreadInv => ThreadInv'
    BY SMTT(30), <2>1 DEF ThreadInv, CallOrder, CallState, Shared, Watching, On, Starting, Closer, Ending, Tag
  <2>5. Calm
    BY <2>1 DEF Calm, TrackingType, Ending, On, Tag, Dialling, Established
  <2>6. QED
    BY <2>1, <2>2, <2>3, <2>4, <2>5, CalmQueue DEF userVars
<1>5. QED
  BY <1>1, <1>2, <1>3, <1>4 DEF Next

(* The inductive invariant always holds.                                   *)
LEMMA TrackingInv == Spec => []IInv
BY InitInv, NextInv, PTL DEF Spec

(* No connection of the recorder is ever out of the consumer thread's      *)
(* sight, whatever is lost between the two.                                *)
THEOREM TrackingNoLeakedConnection == Spec => []NoLeakedConnection
<1>1. IInv => NoLeakedConnection
  BY DEF IInv, UserInv
<1>2. QED
  BY <1>1, TrackingInv, PTL

(* While nothing is lost, data and the end of a socket go to the           *)
(* connection of that socket and to its entry of the report, however       *)
(* descriptors are reused and calls interleaved.                           *)
THEOREM TrackingAttributed == Spec => []Attributed
<1>1. IInv => Attributed
  <2>1. SUFFICES ASSUME IInv, ~lost, queue # <<>>, Head1.fd \in DOMAIN p2p_cns
                 PROVE  /\ p2p_cns[Head1.fd].gen = Head1.gen
                        /\ network[ReportEntry(Head1.fd)].gen = p2p_cns[Head1.fd].gen
    BY DEF Attributed
  <2>2. PICK fd \in Fds, g \in Nat : fd = Head1.fd /\ g = p2p_cns[fd].gen
    BY <2>1 DEF IInv, UserInv, Known
  <2>3. 1 \in DOMAIN queue /\ queue[1] = Head1
    BY <2>1 DEF IInv, TrackingType, Head1
  <2>4. Separate(0, fd, g)
    BY <2>1, <2>2 DEF IInv, QueueInv, Sessions, OpenAt
  <2>5. Head1.gen = g
    <3>1. \A k \in DOMAIN queue : ~(0 < k /\ k < 1)
      BY SMTT(30), <2>1, QueueType DEF IInv
    <3>2. QED
      BY SMTT(30), <2>2, <2>3, <2>4, <3>1 DEF Separate
  <2>6. network[ReportEntry(fd)].gen = g
    <3> DEFINE I == {i \in DOMAIN network : network[i].fd = fd /\ network[i].ip = p2p_cns[fd].addr[1]}
    <3>1. DOMAIN network \subseteq Nat
      BY SMTT(30), <2>1 DEF IInv, UserInv
    <3>2. PICK i \in I : network[i].gen = g /\ \A j \in DOMAIN network : i < j => j \notin I
      BY SMTT(30), <2>1, <2>2 DEF IInv, UserInv, Reported
    <3>3. \A j \in I : j <= i
      BY SMTT(30), <3>1, <3>2
    <3>4. \A k \in I : (\A j \in I : j <= k) => k = i
      BY SMTT(30), <3>1, <3>2, <3>3
    <3>5. ReportEntry(fd) = i
      BY <3>2, <3>3, <3>4 DEF ReportEntry
    <3>6. QED
      BY SMTT(30), <3>2, <3>5
  <2>7. QED
    BY <2>2, <2>5, <2>6
<1>2. QED
  BY <1>1, TrackingInv, PTL

(* When nothing is lost or under way, the kernel's and the consumer        *)
(* thread's maps know the same connections.                                *)
THEOREM TrackingMapsAgree == Spec => []MapsAgree
<1>1. IInv => MapsAgree
  <2>1. SUFFICES ASSUME IInv, Quiet, ~lost
                 PROVE  /\ \A fd \in DOMAIN p2p_cns : fd \in connections /\ sock[fd].gen = p2p_cns[fd].gen
                        /\ \A fd \in connections : sock[fd].st = "open" => fd \in DOMAIN p2p_cns
    BY DEF MapsAgree
  <2>2. DOMAIN queue = {} /\ Len(queue) = 0
    BY <2>1 DEF Quiet
  <2>3. \A t \in Threads, fd \in Fds : ~Ending(t, fd)
    BY <2>1 DEF Quiet, Ending
  <2>4. ASSUME NEW fd \in DOMAIN p2p_cns
        PROVE  fd \in connections /\ sock[fd].gen = p2p_cns[fd].gen
    <3>1. PICK f \in Fds, g \in Nat : f = fd /\ g = p2p_cns[fd].gen
      BY <2>1, <2>4 DEF IInv, UserInv, Known
    <3>2. Ends(0, f, g)
      BY SMTT(30), <2>1, <2>4, <3>1 DEF IInv, QueueInv, Sessions, OpenAt
    <3>3. QED
      BY SMTT(30), <2>2, <2>3, <3>1, <3>2 DEF Ends
  <2>5. ASSUME NEW fd \in connections, sock[fd].st = "open"
        PROVE  fd \in DOMAIN p2p_cns
    BY <2>1, <2>2, <2>5 DEF IInv, QueueInv, Recorded, OpenAt
  <2>6. QED
    BY <2>4, <2>5
<1>2. QED
  BY <1>1, TrackingInv, PTL
=============================================================================
