------------------------ MODULE TrackingSideProofs --------------------------
(***************************************************************************)
(* The two sides of the ring of Tracking, each by itself: the calls of the *)
(* program's threads with the kernel's map of watched descriptors, and the *)
(* consumer thread's maps.  The queue between them is in TrackingProofs.   *)
(***************************************************************************)
EXTENDS Tracking, TLAPS

Places == Addrs \cup {<<0, 0>>}
Socks == [gen : Nat, addr : Places, st : {"free", "connecting", "accepted", "open", "failed"}]
Calls ==
    [pc : {"idle", "kernel", "insert", "get", "remove", "error", "send", "leave"},
     op : {"none", "connect", "accept", "getsockopt", "read", "write", "close", "shutdown"},
     fd : Fds \cup {0}, ctx : BOOLEAN, res : {"none", "ok", "error"}]
Events ==
    [tag : {"connect", "accept", "getsockopt", "read", "write", "Close", "Error"},
     fd : Fds, addr : Places, gen : Nat, res : {"none", "ok", "error"}]

TrackingType ==
    /\ sock \in [Fds -> Socks]
    /\ gen \in Nat
    /\ thr \in [Threads -> Calls]
    /\ connections \subseteq Fds
    /\ queue \in Seq(Events)
    /\ lost \in BOOLEAN
    /\ \A t \in Threads : thr[t].pc # "idle" =>
         thr[t].op # "none" /\ (thr[t].fd \in Fds \/ (thr[t].pc = "kernel" /\ thr[t].op = "accept"))

-----------------------------------------------------------------------------
(* Threads, sockets and the kernel map *)

(* On is about a thread in a system call on a descriptor. *)
On(t, fd) == thr[t].pc # "idle" /\ thr[t].fd = fd

(* Which steps a call goes through. *)
CallOrder(t) ==
    /\ thr[t].pc = "kernel" => /\ thr[t].op \in {"connect", "accept", "getsockopt", "read", "write"}
                               /\ thr[t].op = "accept" => thr[t].fd = 0
                               /\ thr[t].res = "none" /\ thr[t].ctx
    /\ thr[t].pc = "insert" => thr[t].op \in {"connect", "accept"} /\ thr[t].res = "ok"
    /\ thr[t].pc \in {"get", "error"} => thr[t].op \in {"read", "write"}
    /\ thr[t].pc \in {"get", "send"} /\ thr[t].op \notin {"close", "shutdown"} => thr[t].res # "none"
    /\ thr[t].pc = "leave" /\ thr[t].op \in {"connect", "getsockopt"} => thr[t].res # "none"
    /\ thr[t].pc = "error" => thr[t].res = "error"
    /\ thr[t].pc = "remove" =>
         \/ thr[t].op \in {"close", "shutdown"}
         \/ thr[t].op \in {"read", "write"} /\ thr[t].res = "error"
    /\ thr[t].pc \in {"send", "leave"} /\ thr[t].op = "accept" => thr[t].res = "ok"

(* What a call on a socket says of the socket. *)
CallState(t) ==
    \A fd \in Fds : On(t, fd) =>
        /\ thr[t].op \in {"connect", "getsockopt"} => sock[fd].st = "connecting"
        /\ thr[t].op = "accept" => sock[fd].st = "accepted"
        /\ thr[t].op \in {"read", "write", "shutdown"} => sock[fd].st = "open"
        /\ thr[t].op = "close" => sock[fd].st # "free"

(* Only reads, writes and shutdowns share a socket. *)
Shared ==
    \A t, u \in Threads, fd \in Fds :
        t # u /\ On(t, fd) /\ On(u, fd) => thr[t].op \in {"read", "write", "shutdown"}

(* A thread about to report the end of a connection. *)
Ending(t, fd) == On(t, fd) /\ (thr[t].pc = "error" \/ (thr[t].pc = "send" /\ Tag(t) = "Close"))
(* A connect that has not watched its descriptor, or never will. *)
Starting(t, fd) == On(t, fd) /\ thr[t].op = "connect" /\ (thr[t].pc = "insert" \/ thr[t].res # "ok")
Closer(t, fd) == On(t, fd) /\ thr[t].op = "close"

(* Who is in the map of watched descriptors. *)
Watching ==
    \A fd \in Fds :
        /\ fd \in connections => sock[fd].st # "free"
        /\ sock[fd].st = "connecting" =>
             \/ fd \in connections
             \/ \E t \in Threads : Starting(t, fd) \/ Closer(t, fd)
        /\ \A t \in Threads : On(t, fd) =>
             /\ thr[t].op = "accept" /\ thr[t].pc = "send" => fd \in connections
             /\ thr[t].op = "close" /\ thr[t].pc # "remove" => fd \notin connections
             /\ Ending(t, fd) => fd \notin connections

ThreadInv ==
    /\ \A t \in Threads : CallOrder(t) /\ CallState(t)
    /\ Shared
    /\ Watching

(* An outgoing connection that is not yet reported, or not to be reported. *)
Dialling(t, fd) ==
    /\ On(t, fd)
    /\ \/ thr[t].op = "connect" /\ (thr[t].pc \in {"insert", "send"} \/ thr[t].res # "ok")
       \/ thr[t].op = "getsockopt" /\ thr[t].pc = "leave"
Established(t, fd) ==
    /\ On(t, fd) /\ thr[t].pc = "leave"
    /\ thr[t].op = "accept" \/ (thr[t].op = "getsockopt" /\ thr[t].res = "ok")

-----------------------------------------------------------------------------
(* How a step changes a call *)

(* A thread's call is replaced, the others are not.                        *)
LEMMA NewCall ==
    ASSUME TrackingType, NEW t \in Threads, NEW c \in Calls, thr' = [thr EXCEPT ![t] = c]
    PROVE  /\ thr' \in [Threads -> Calls] /\ thr'[t] = c
           /\ \A u \in Threads \ {t} : thr'[u] = thr[u]
BY DEF TrackingType

(* A call goes to its next step and keeps what it is about.                *)
LEMMA Moves ==
    ASSUME TrackingType, NEW t \in Threads, Goto(t, "send") \/ Goto(t, "leave") \/ Goto(t, "remove") \/ Goto(t, "error")
    PROVE  /\ thr' \in [Threads -> Calls]
           /\ \A u \in Threads \ {t} : thr'[u] = thr[u]
           /\ thr'[t].op = thr[t].op /\ thr'[t].fd = thr[t].fd /\ thr'[t].res = thr[t].res
           /\ \A pc \in {"send", "leave", "remove", "error"} : Goto(t, pc) => thr'[t].pc = pc
<1>1. PICK c \in Calls : c = thr[t]
  BY DEF TrackingType
<1>2. PICK pc \in {"send", "leave", "remove", "error"} : thr' = [thr EXCEPT ![t].pc = pc]
  BY DEF Goto
<1>3. [c EXCEPT !.pc = pc] \in Calls
  BY DEF Calls
<1>4. QED
  BY <1>1, <1>2, <1>3 DEF TrackingType, Goto, Calls

(* The kernel returns; with a context the exit probe goes on.              *)
LEMMA Exits ==
    ASSUME TrackingType, NEW t \in Threads, thr[t].pc = "kernel",
           NEW fd \in Fds, NEW pc \in {"insert", "send", "get"}, NEW res \in {"ok", "error"},
           Exit(t, fd, pc, res)
    PROVE  /\ thr' \in [Threads -> Calls]
           /\ \A u \in Threads \ {t} : thr'[u] = thr[u]
           /\ thr'[t].op = thr[t].op /\ thr'[t].fd = fd /\ thr'[t].res = res
           /\ thr'[t].pc # "kernel"
           /\ ThreadInv => thr'[t].pc = pc
<1>1. ThreadInv => thr[t].ctx
  BY DEF ThreadInv, CallOrder
<1> DEFINE c == [pc |-> IF thr[t].ctx THEN pc ELSE "leave", op |-> thr[t].op, fd |-> fd,
                 ctx |-> FALSE, res |-> res]
<1>2. thr' = [thr EXCEPT ![t] = c]
  BY DEF Exit
<1>3. c \in Calls
  <2>1. thr[t] \in Calls
    BY DEF TrackingType
  <2>2. QED
    BY <2>1 DEF Calls
<1>4. QED
  BY <1>1, <1>2, <1>3, NewCall, Zenon

(* The entry probe stores a context, unless that map is full.              *)
LEMMA Enters ==
    ASSUME TrackingType, NEW t \in Threads, NEW op \in {"connect", "accept", "getsockopt", "read", "write"},
           NEW fd \in Fds \cup {0}, Enter(t, op, fd)
    PROVE  /\ thr[t].pc = "idle" /\ thr' \in [Threads -> Calls] /\ lost' \in BOOLEAN
           /\ \A u \in Threads \ {t} : thr'[u] = thr[u]
           /\ thr'[t].pc = "kernel" /\ thr'[t].op = op /\ thr'[t].fd = fd /\ thr'[t].res = "none"
           /\ ~lost' => ~lost /\ thr'[t].ctx
<1>1. PICK room \in BOOLEAN :
          /\ thr' = [thr EXCEPT ![t] = [pc |-> "kernel", op |-> op, fd |-> fd, ctx |-> room, res |-> "none"]]
          /\ lost' = (lost \/ ~room)
  BY Zenon DEF Enter
<1>2. [pc |-> "kernel", op |-> op, fd |-> fd, ctx |-> room, res |-> "none"] \in Calls
  BY DEF Calls
<1>3. lost' \in BOOLEAN /\ (~lost' => ~lost /\ room)
  BY <1>1, Zenon DEF TrackingType
<1>4. QED
  BY <1>1, <1>2, <1>3, NewCall, Zenon DEF Enter

(* A finished call leaves the thread idle.                                 *)
LEMMA IdleCall ==
    ASSUME TrackingType, NEW t \in Threads, Done(t)
    PROVE  /\ thr' \in [Threads -> Calls] /\ thr'[t].pc = "idle"
           /\ \A u \in Threads \ {t} : thr'[u] = thr[u]
<1>1. Idle \in Calls
  BY DEF Idle, Calls
<1>2. QED
  BY <1>1, NewCall, Zenon DEF Done, Idle

(* A new socket takes a free descriptor and a new generation.              *)
LEMMA NewSocket ==
    ASSUME TrackingType, NEW fd \in Fds, NEW addr \in Addrs, NEW st \in {"connecting", "accepted"},
           NewSock(fd, addr, st)
    PROVE  /\ sock[fd].st = "free" /\ gen' = gen + 1 /\ gen' \in Nat
           /\ sock' \in [Fds -> Socks]
           /\ \A f \in Fds \ {fd} : sock'[f] = sock[f]
           /\ sock'[fd].st = st /\ sock'[fd].gen = gen + 1
<1>1. [gen |-> gen + 1, addr |-> addr, st |-> st] \in Socks
  BY DEF TrackingType, Socks, Places
<1>2. QED
  BY <1>1 DEF NewSock, TrackingType

-----------------------------------------------------------------------------
(* Types *)

(* A step of a thread gives its call a descriptor of the program's. *)
LEMMA TypeOfStep ==
    ASSUME TrackingType, NEW t \in Threads, thr' \in [Threads -> Calls],
           \A u \in Threads \ {t} : thr'[u] = thr[u],
           thr'[t].pc # "idle" =>
             /\ thr'[t].op # "none"
             /\ thr'[t].fd \in Fds \/ (thr'[t].pc = "kernel" /\ thr'[t].op = "accept"),
           sock' \in [Fds -> Socks], gen' \in Nat, connections' \subseteq Fds,
           queue' \in Seq(Events), lost' \in BOOLEAN
    PROVE  TrackingType'
BY SMTT(30) DEF TrackingType

(* Entering a call keeps the types.                                        *)
LEMMA EnterType ==
    ASSUME TrackingType, NEW t \in Threads,
           \/ EnterConnect(t) \/ EnterAccept(t) \/ EnterGetSockOpt(t) \/ EnterIo(t) \/ EnterClose(t)
    PROVE  TrackingType' /\ UNCHANGED <<queue, userVars, connections>> /\ (~lost' => ~lost)
<1> USE DEF kernelVars
<1>1. CASE EnterConnect(t)
  <2>1. PICK fd \in Fds, addr \in Addrs :
          /\ Enter(t, "connect", fd) /\ NewSock(fd, addr, "connecting")
          /\ UNCHANGED <<connections, queue>> /\ UNCHANGED userVars
    BY <1>1 DEF EnterConnect
  <2>2. QED
    BY <2>1, Enters, NewSocket, TypeOfStep DEF TrackingType
<1>2. CASE EnterAccept(t)
  BY <1>2, Enters, TypeOfStep DEF EnterAccept, TrackingType
<1>3. CASE EnterGetSockOpt(t)
  BY <1>3, Enters, TypeOfStep DEF EnterGetSockOpt, TrackingType
<1>4. CASE EnterIo(t)
  BY <1>4, Enters, TypeOfStep DEF EnterIo, TrackingType
<1>5. CASE EnterClose(t)
  <2>1. PICK fd \in Fds, op \in {"close", "shutdown"} :
          thr' = [thr EXCEPT ![t] = [pc |-> "remove", op |-> op, fd |-> fd, ctx |-> FALSE, res |-> "none"]]
    BY <1>5, Zenon DEF EnterClose
  <2>2. [pc |-> "remove", op |-> op, fd |-> fd, ctx |-> FALSE, res |-> "none"] \in Calls
    BY DEF Calls
  <2>3. UNCHANGED <<kernelVars, queue, userVars, lost>>
    BY <1>5 DEF EnterClose
  <2>4. QED
    BY <2>1, <2>2, <2>3, NewCall, TypeOfStep DEF TrackingType
<1>6. QED
  BY <1>1, <1>2, <1>3, <1>4, <1>5

(* Returning from the kernel keeps the types.                              *)
LEMMA ReturnType ==
    ASSUME TrackingType, NEW t \in Threads,
           \/ ReturnsEagain(t) \/ ReturnsConnect(t) \/ ReturnsAccept(t)
           \/ ReturnsGetSockOpt(t) \/ ReturnsIo(t)
    PROVE  TrackingType' /\ UNCHANGED <<queue, userVars, connections, lost>>
<1> USE DEF kernelVars
<1>1. CASE ReturnsEagain(t)
  BY <1>1, IdleCall, TypeOfStep DEF ReturnsEagain, TrackingType
<1>2. CASE ReturnsConnect(t)
  BY <1>2, Exits, TypeOfStep DEF ReturnsConnect, TrackingType
<1>3. CASE ReturnsAccept(t)
  <2>1. PICK fd \in Fds, addr \in Addrs : NewSock(fd, addr, "accepted") /\ Exit(t, fd, "insert", "ok")
    BY <1>3 DEF ReturnsAccept
  <2>2. QED
    BY <1>3, <2>1, Exits, NewSocket, TypeOfStep DEF ReturnsAccept, TrackingType
<1>4. CASE ReturnsGetSockOpt(t)
  BY <1>4, Exits, TypeOfStep DEF ReturnsGetSockOpt, TrackingType
<1>5. CASE ReturnsIo(t)
  BY <1>5, Exits, TypeOfStep DEF ReturnsIo, TrackingType
<1>6. QED
  BY <1>1, <1>2, <1>3, <1>4, <1>5

(* A probe that reads or writes the map of descriptors keeps the types.    *)
LEMMA ProbeType ==
    ASSUME TrackingType, NEW t \in Threads, Insert(t) \/ Get(t) \/ Remove(t)
    PROVE  /\ TrackingType' /\ UNCHANGED <<sock, gen, queue, userVars>> /\ (~lost' => ~lost)
           /\ thr'[t].op = thr[t].op /\ thr'[t].fd = thr[t].fd /\ thr'[t].res = thr[t].res
           /\ thr[t].fd \in Fds
           /\ \A u \in Threads \ {t} : thr'[u] = thr[u]
<1> USE DEF kernelVars
<1>1. thr[t].pc \in {"insert", "get", "remove"} /\ UNCHANGED <<sock, gen, queue, userVars>>
  BY DEF Insert, Get, Remove
<1>2. thr[t].fd \in Fds /\ thr[t].op # "none"
  BY <1>1 DEF TrackingType
<1>3. Goto(t, "send") \/ Goto(t, "leave") \/ Goto(t, "remove") \/ Goto(t, "error")
  BY DEF Insert, Get, Remove, AfterRemove
<1>4. connections' \subseteq Fds /\ lost' \in BOOLEAN /\ (~lost' => ~lost)
  BY <1>2, Zenon DEF Insert, Get, Remove, TrackingType
<1>5. QED
  BY <1>1, <1>2, <1>3, <1>4, Moves, TypeOfStep DEF TrackingType

(* The end of a call keeps the types and settles the state of its socket.  *)
LEMMA LeaveType ==
    ASSUME TrackingType, NEW t \in Threads, Leave(t)
    PROVE  /\ TrackingType' /\ UNCHANGED <<gen, connections, queue, userVars, lost>>
           /\ thr[t].fd \in Fds /\ thr'[t].pc = "idle"
           /\ \A u \in Threads \ {t} : thr'[u] = thr[u]
           /\ \A fd \in Fds \ {thr[t].fd} : sock'[fd] = sock[fd]
           /\ IF thr[t].op = "close" THEN sock'[thr[t].fd] = NoSock
              ELSE /\ sock'[thr[t].fd].gen = sock[thr[t].fd].gen
                   /\ sock'[thr[t].fd].st = Outcome(thr[t].op, thr[t].res, sock[thr[t].fd].st)
<1>1. PICK f \in Fds : f = thr[t].fd
  BY DEF Leave, TrackingType
<1>2. PICK s \in Socks : s = sock[f]
  BY DEF TrackingType
<1>3. NoSock \in Socks
  BY DEF NoSock, Socks, Places
<1>4. PICK q \in Socks : /\ sock' = [sock EXCEPT ![f] = q]
                         /\ IF thr[t].op = "close" THEN q = NoSock
                            ELSE q.gen = s.gen /\ q.st = Outcome(thr[t].op, thr[t].res, s.st)
  <2>1. CASE thr[t].op = "close"
    BY <1>1, <1>3, <2>1, Zenon DEF Leave
  <2>2. CASE thr[t].op # "close"
    <3> DEFINE q == [s EXCEPT !.st = Outcome(thr[t].op, thr[t].res, s.st)]
    <3>1. Outcome(thr[t].op, thr[t].res, s.st) \in {"free", "connecting", "accepted", "open", "failed"}
      BY DEF Outcome, Socks
    <3>2. q \in Socks /\ q.gen = s.gen /\ q.st = Outcome(thr[t].op, thr[t].res, s.st)
      BY <3>1 DEF Socks
    <3>3. sock' = [sock EXCEPT ![f] = q]
      BY <1>1, <1>2, <2>2 DEF Leave
    <3> HIDE DEF q
    <3>4. QED
      BY <2>2, <3>2, <3>3, Zenon
  <2>3. QED
    BY <2>1, <2>2
<1>5. sock' \in [Fds -> Socks] /\ sock'[f] = q /\ \A fd \in Fds \ {f} : sock'[fd] = sock[fd]
  BY <1>4 DEF TrackingType
<1>6. UNCHANGED <<gen, connections, queue, userVars, lost>> /\ Done(t)
  BY DEF Leave
<1>7. TrackingType'
  BY <1>5, <1>6, IdleCall, TypeOfStep DEF TrackingType
<1>8. QED
  BY <1>1, <1>2, <1>4, <1>5, <1>6, <1>7, IdleCall

(* The event a probe is about to send is the program's.                    *)
LEMMA EventType ==
    ASSUME TrackingType, NEW t \in Threads, thr[t].pc \in {"error", "send"}
    PROVE  /\ thr[t].fd \in Fds
           /\ EventOf(t, "Error") \in Events /\ EventOf(t, Tag(t)) \in Events
<1>1. thr[t].fd \in Fds /\ thr[t] \in Calls /\ thr[t].op # "none"
  BY DEF TrackingType
<1>2. sock[thr[t].fd] \in Socks
  BY <1>1 DEF TrackingType
<1>3. Tag(t) \in {"connect", "accept", "getsockopt", "read", "write", "Close", "Error"}
  BY <1>1 DEF Tag, Calls
<1>4. QED
  BY <1>1, <1>2, <1>3 DEF EventOf, Events, Socks, Calls

(* Sending an event keeps the types.                                       *)
LEMMA SendType ==
    ASSUME TrackingType, NEW t \in Threads, SendError(t) \/ Send(t)
    PROVE  /\ TrackingType' /\ UNCHANGED <<kernelVars, userVars>> /\ (~lost' => ~lost)
           /\ thr'[t].op = thr[t].op /\ thr'[t].fd = thr[t].fd /\ thr'[t].res = thr[t].res
           /\ thr[t].fd \in Fds
           /\ \A u \in Threads \ {t} : thr'[u] = thr[u]
<1> USE DEF kernelVars
<1>1. thr[t].pc \in {"error", "send"} /\ UNCHANGED <<kernelVars, userVars>>
  BY DEF Send, SendError
<1>2. thr[t].fd \in Fds /\ thr[t].op # "none"
  BY <1>1 DEF TrackingType
<1>3. Goto(t, "send") \/ Goto(t, "leave")
  BY DEF Send, SendError
<1>4. queue' \in Seq(Events) /\ lost' \in BOOLEAN /\ (~lost' => ~lost)
  <2>1. PICK e \in Events : Sent(e) \/ Lost
    BY <1>1, EventType DEF Send, SendError
  <2>2. CASE Sent(e)
    BY <2>2 DEF Sent, TrackingType
  <2>3. CASE Lost
    BY <2>3 DEF Lost, TrackingType
  <2>4. QED
    BY <2>1, <2>2, <2>3
<1>5. QED
  BY <1>1, <1>2, <1>3, <1>4, Moves, TypeOfStep DEF TrackingType

(* Taking an event keeps the types and moves the others up.                *)
LEMMA DispatchType ==
    ASSUME TrackingType, Dispatch
    PROVE  /\ TrackingType' /\ UNCHANGED <<sock, gen, thr, connections>> /\ (~lost' => ~lost)
           /\ Head1 \in Events /\ queue' \in Seq(Events) /\ queue[1] = Head1 /\ 1 \in DOMAIN queue
           /\ Len(queue) \in Nat \ {0} /\ Len(queue') = Len(queue) - 1
           /\ \A i \in DOMAIN queue' : i + 1 \in DOMAIN queue /\ queue'[i] = queue[i + 1]
           /\ \A i \in DOMAIN queue : i # 1 => i - 1 \in DOMAIN queue' /\ queue'[i - 1] = queue[i]
<1>1. queue \in Seq(Events) /\ queue # <<>> /\ queue' = Tail(queue)
  BY DEF TrackingType, Dispatch
<1>2. /\ Head1 \in Events /\ queue' \in Seq(Events) /\ queue[1] = Head1
      /\ Len(queue) \in Nat \ {0} /\ Len(queue') = Len(queue) - 1
  BY <1>1 DEF Head1
<1>3. /\ \A i \in DOMAIN queue' : i + 1 \in DOMAIN queue /\ queue'[i] = queue[i + 1]
      /\ \A i \in DOMAIN queue : i # 1 => i - 1 \in DOMAIN queue' /\ queue'[i - 1] = queue[i]
  BY <1>1, <1>2
<1>4. lost' \in BOOLEAN /\ (~lost' => ~lost)
  <2>1. CASE UNCHANGED lost
    BY <2>1 DEF TrackingType
  <2>2. CASE \E ok \in BOOLEAN : lost' = (lost \/ ~ok)
    BY <2>2 DEF TrackingType
  <2>3. QED
    BY <1>2, <2>1, <2>2 DEF Dispatch, Events, OnOutgoingConnection, OnGetSockOpt, OnIncomingConnection,
                     OnDisconnected, OnDataOrError, NewConnection
<1>5. UNCHANGED <<sock, gen, thr, connections>>
  BY DEF Dispatch
<1>6. TrackingType'
  BY <1>2, <1>4, <1>5 DEF TrackingType
<1>7. QED
  BY <1>1, <1>2, <1>3, <1>4, <1>5, <1>6

-----------------------------------------------------------------------------
(* The kernel's side, step by step *)

(* What such a step must keep for what the queue says to stay true. *)
Calm ==
    /\ \A fd \in Fds : fd \in connections \/ (\E t \in Threads : Ending(t, fd)) =>
         /\ sock'[fd].gen = sock[fd].gen
         /\ fd \in connections' \/ \E t \in Threads : Ending(t, fd)'
    /\ \A fd \in Fds : sock'[fd].st = "connecting" /\ ~(\E t \in Threads : Dialling(t, fd)') =>
         /\ sock[fd].st = "connecting" /\ sock'[fd].gen = sock[fd].gen
         /\ ~(\E t \in Threads : Dialling(t, fd))
    /\ gen' \in Nat /\ gen <= gen' /\ \A fd \in Fds : sock'[fd].gen = sock[fd].gen \/ sock'[fd].gen \in {0, gen'}
    /\ \A t \in Threads, fd \in Fds :
         (On(t, fd) /\ thr[t].op \in {"connect", "accept"} /\ thr[t].pc \in {"kernel", "insert"})' =>
            \/ sock'[fd].gen = gen' /\ gen' = gen + 1
            \/ /\ On(t, fd) /\ thr[t].op \in {"connect", "accept"} /\ thr[t].pc \in {"kernel", "insert"}
               /\ sock'[fd].gen = sock[fd].gen
    /\ \A fd \in connections' :
         /\ sock'[fd].gen = sock[fd].gen
         /\ \/ fd \in connections
            \/ \E t \in Threads : On(t, fd) /\ thr[t].op \in {"connect", "accept"} /\ thr[t].pc = "insert"
         /\ sock'[fd].st = "open" \/ (\E t \in Threads : Established(t, fd)') =>
               fd \in connections /\ (sock[fd].st = "open" \/ \E t \in Threads : Established(t, fd))

(* A connect begins on a descriptor no one uses.                           *)
LEMMA EnterConnectStep ==
    ASSUME TrackingType, ThreadInv, NEW t \in Threads, EnterConnect(t), ~lost'
    PROVE  ThreadInv' /\ Calm
<1>1. PICK fd \in Fds, addr \in Addrs : /\ Enter(t, "connect", fd) /\ NewSock(fd, addr, "connecting")
                                        /\ UNCHANGED connections
  BY DEF EnterConnect
<1>2. /\ thr[t].pc = "idle" /\ \A u \in Threads \ {t} : thr'[u] = thr[u]
      /\ thr'[t].pc = "kernel" /\ thr'[t].op = "connect" /\ thr'[t].fd = fd /\ thr'[t].res = "none"
      /\ thr'[t].ctx
  BY <1>1, Enters
<1>3. /\ sock[fd].st = "free" /\ gen' = gen + 1 /\ gen' \in Nat
      /\ \A f \in Fds \ {fd} : sock'[f] = sock[f]
      /\ sock'[fd].st = "connecting" /\ sock'[fd].gen = gen + 1
  BY <1>1, NewSocket
<1>4. fd \notin connections /\ \A u \in Threads : ~On(u, fd)
  <2>1. fd \notin connections
    BY <1>3 DEF ThreadInv, Watching
  <2>2. ASSUME NEW u \in Threads, On(u, fd) PROVE FALSE
    <3>1. thr[u].op # "none" /\ thr[u] \in Calls
      BY <2>2 DEF TrackingType, On
    <3>2. QED
      BY <1>3, <2>2, <3>1 DEF ThreadInv, CallState, Calls
  <2>3. QED
    BY <2>1, <2>2
<1>5. \A u \in Threads : CallOrder(u)' /\ CallState(u)'
  BY <1>2, <1>3, <1>4 DEF ThreadInv, CallOrder, CallState, On
<1>6. Shared'
  BY <1>2, <1>4 DEF ThreadInv, Shared, On
<1>7. Watching'
  BY <1>1, <1>2, <1>3, <1>4 DEF ThreadInv, Watching, Starting, Closer, Ending, On, Tag
<1>8. Calm
  BY <1>1, <1>2, <1>3, <1>4 DEF Calm, Ending, Dialling, Established, On, Tag, TrackingType
<1>9. QED
  BY <1>5, <1>6, <1>7, <1>8 DEF ThreadInv

(* An accept begins without a descriptor.                                  *)
LEMMA EnterAcceptStep ==
    ASSUME TrackingType, ThreadInv, NEW t \in Threads, EnterAccept(t), ~lost'
    PROVE  ThreadInv' /\ Calm
<1>1. /\ thr[t].pc = "idle" /\ \A u \in Threads \ {t} : thr'[u] = thr[u]
      /\ thr'[t].pc = "kernel" /\ thr'[t].op = "accept" /\ thr'[t].fd = 0 /\ thr'[t].res = "none"
      /\ thr'[t].ctx /\ UNCHANGED <<sock, gen, connections>>
  BY Enters DEF EnterAccept, kernelVars
<1>2. 0 \notin Fds
  BY SMTT(30), FdsAssumption
<1>3. \A u \in Threads : CallOrder(u)' /\ CallState(u)'
  BY <1>1, <1>2 DEF ThreadInv, CallOrder, CallState, On
<1>4. Shared'
  BY <1>1, <1>2 DEF ThreadInv, Shared, On
<1>5. Watching'
  BY <1>1, <1>2 DEF ThreadInv, Watching, Starting, Closer, Ending, On, Tag
<1>6. Calm
  BY <1>1, <1>2 DEF Calm, Ending, Dialling, Established, On, Tag, TrackingType
<1>7. QED
  BY <1>3, <1>4, <1>5, <1>6 DEF ThreadInv

(* A call on a socket that is there already begins. *)
LEMMA EnterSocketStep ==
    ASSUME TrackingType, ThreadInv, NEW t \in Threads,
           EnterGetSockOpt(t) \/ EnterIo(t) \/ EnterClose(t), ~lost'
    PROVE  ThreadInv' /\ Calm
<1>1. PICK fd \in Fds, op \in {"getsockopt", "read", "write", "close", "shutdown"} :
        /\ \A u \in Threads : On(u, fd) => op \in {"read", "write", "shutdown"} /\ thr[u].op # "close"
        /\ op = "getsockopt" => sock[fd].st = "connecting"
        /\ op \in {"read", "write", "shutdown"} => sock[fd].st = "open"
        /\ op = "close" => sock[fd].st # "free"
        /\ thr[t].pc = "idle" /\ \A u \in Threads \ {t} : thr'[u] = thr[u]
        /\ thr'[t].pc = IF op \in {"close", "shutdown"} THEN "remove" ELSE "kernel"
        /\ thr'[t].op = op /\ thr'[t].fd = fd /\ thr'[t].res = "none"
        /\ thr'[t].pc = "kernel" => thr'[t].ctx
  <2>1. CASE EnterGetSockOpt(t)
    <3>1. PICK fd \in Fds : sock[fd].st = "connecting" /\ Busy(fd) = {} /\ Enter(t, "getsockopt", fd)
      BY <2>1 DEF EnterGetSockOpt
    <3>2. /\ thr[t].pc = "idle" /\ \A u \in Threads \ {t} : thr'[u] = thr[u]
          /\ thr'[t].pc = "kernel" /\ thr'[t].op = "getsockopt" /\ thr'[t].fd = fd
          /\ thr'[t].res = "none" /\ thr'[t].ctx
      BY <3>1, Enters
    <3>3. \A u \in Threads : ~On(u, fd)
      BY <3>1 DEF Busy, On
    <3>4. QED
      BY <3>1, <3>2, <3>3
  <2>2. CASE EnterIo(t)
    <3>1. PICK fd \in Fds, op \in {"read", "write"} :
            sock[fd].st = "open" /\ ClosingOf(fd) = {} /\ Enter(t, op, fd)
      BY <2>2 DEF EnterIo
    <3>2. /\ thr[t].pc = "idle" /\ \A u \in Threads \ {t} : thr'[u] = thr[u]
          /\ thr'[t].pc = "kernel" /\ thr'[t].op = op /\ thr'[t].fd = fd
          /\ thr'[t].res = "none" /\ thr'[t].ctx
      BY <3>1, Enters
    <3>3. \A u \in Threads : On(u, fd) => thr[u].op # "close"
      BY <3>1 DEF ClosingOf, Busy, On
    <3>4. QED
      BY <3>1, <3>2, <3>3
  <2>3. CASE EnterClose(t)
    <3>1. PICK fd \in Fds, op \in {"close", "shutdown"} :
            /\ thr[t].pc = "idle" /\ sock[fd].st # "free"
            /\ IF op = "close" THEN Busy(fd) = {}
               ELSE sock[fd].st = "open" /\ \A u \in Busy(fd) : thr[u].op \in {"read", "write"}
            /\ thr' = [thr EXCEPT ![t] = [pc |-> "remove", op |-> op, fd |-> fd,
                                          ctx |-> FALSE, res |-> "none"]]
      BY <2>3, Zenon DEF EnterClose
    <3>2. [pc |-> "remove", op |-> op, fd |-> fd, ctx |-> FALSE, res |-> "none"] \in Calls
      BY DEF Calls
    <3>3. /\ \A u \in Threads \ {t} : thr'[u] = thr[u]
          /\ thr'[t].pc = "remove" /\ thr'[t].op = op /\ thr'[t].fd = fd /\ thr'[t].res = "none"
      BY <3>1, <3>2, NewCall, Zenon
    <3>4. \A u \in Threads : On(u, fd) => op = "shutdown" /\ thr[u].op # "close"
      BY <3>1 DEF Busy, On
    <3>5. QED
      BY <3>1, <3>3, <3>4
  <2>4. QED
    BY <2>1, <2>2, <2>3
<1>2. UNCHANGED <<sock, gen, connections>>
  BY SMTT(30) DEF EnterGetSockOpt, EnterIo, EnterClose, kernelVars
<1>3. \A u \in Threads : CallOrder(u)' /\ CallState(u)'
  BY <1>1, <1>2 DEF ThreadInv, CallOrder, CallState, On
<1>4. Shared'
  <2>1. ASSUME NEW u \in Threads, u # t, On(u, fd)
        PROVE  thr[u].op \in {"read", "write", "shutdown"} /\ op \in {"read", "write", "shutdown"}
    <3>1. thr[u].op # "none" /\ thr[u] \in Calls
      BY <2>1 DEF TrackingType, On
    <3>2. sock[fd].st = "open" /\ thr[u].op # "close"
      BY <1>1, <2>1
    <3>3. QED
      BY <1>1, <2>1, <3>1, <3>2 DEF ThreadInv, CallState, Calls
  <2>2. QED
    BY <1>1, <2>1 DEF ThreadInv, Shared, On
<1>5. Watching'
  BY <1>1, <1>2 DEF ThreadInv, Watching, Starting, Closer, Ending, On, Tag
<1>6. Calm
  BY <1>1, <1>2 DEF Calm, Ending, Dialling, Established, On, Tag, TrackingType
<1>7. QED
  BY <1>3, <1>4, <1>5, <1>6 DEF ThreadInv

(* A call that would block is as if it had not been made.                  *)
LEMMA EagainStep ==
    ASSUME TrackingType, ThreadInv, NEW t \in Threads, ReturnsEagain(t), ~lost'
    PROVE  ThreadInv' /\ Calm
<1>1. /\ thr[t].pc = "kernel" /\ thr[t].op \in {"accept", "read", "write"}
      /\ thr'[t].pc = "idle" /\ \A u \in Threads \ {t} : thr'[u] = thr[u]
      /\ UNCHANGED <<sock, gen, connections>>
  BY IdleCall DEF ReturnsEagain, kernelVars
<1>2. \A u \in Threads : CallOrder(u)' /\ CallState(u)'
  BY <1>1 DEF ThreadInv, CallOrder, CallState, On
<1>3. Shared'
  BY <1>1 DEF ThreadInv, Shared, On
<1>4. Watching'
  BY <1>1 DEF ThreadInv, Watching, Starting, Closer, Ending, On, Tag
<1>5. Calm
  BY <1>1 DEF Calm, Ending, Dialling, Established, On, Tag, TrackingType
<1>6. QED
  BY <1>2, <1>3, <1>4, <1>5 DEF ThreadInv

(* A call on a socket returns from the kernel. *)
LEMMA ReturnsStep ==
    ASSUME TrackingType, ThreadInv, NEW t \in Threads, ~lost',
           ReturnsConnect(t) \/ ReturnsGetSockOpt(t) \/ ReturnsIo(t)
    PROVE  ThreadInv' /\ Calm
<1>1. PICK fd \in Fds, res \in {"ok", "error"} :
        /\ fd = thr[t].fd /\ thr[t].pc = "kernel" /\ thr[t].op \in {"connect", "getsockopt", "read", "write"}
        /\ thr'[t].op = thr[t].op /\ thr'[t].fd = fd /\ thr'[t].res = res
        /\ thr'[t].pc = CASE thr[t].op = "connect" /\ res = "ok" -> "insert"
                          [] thr[t].op \in {"read", "write"} -> "get"
                          [] OTHER -> "send"
        /\ \A u \in Threads \ {t} : thr'[u] = thr[u]
  <2>1. thr[t].fd \in Fds
    BY DEF ReturnsConnect, ReturnsGetSockOpt, ReturnsIo, TrackingType
  <2>2. CASE ReturnsConnect(t)
    BY <2>1, <2>2, Exits DEF ReturnsConnect
  <2>3. CASE ReturnsGetSockOpt(t)
    BY <2>1, <2>3, Exits DEF ReturnsGetSockOpt
  <2>4. CASE ReturnsIo(t)
    BY <2>1, <2>4, Exits DEF ReturnsIo
  <2>5. QED
    BY <2>2, <2>3, <2>4
<1>2. UNCHANGED <<sock, gen, connections>>
  BY DEF ReturnsConnect, ReturnsGetSockOpt, ReturnsIo, kernelVars
<1>3. \A u \in Threads : CallOrder(u)' /\ CallState(u)'
  BY <1>1, <1>2 DEF ThreadInv, CallOrder, CallState, On
<1>4. Shared'
  BY <1>1, <1>2 DEF ThreadInv, Shared, On
<1>5. Watching'
  BY SMTT(30), <1>1, <1>2 DEF ThreadInv, Watching, CallOrder, Starting, Closer, Ending, On, Tag
<1>6. Calm
  BY <1>1, <1>2 DEF Calm, ThreadInv, CallOrder, Ending, Dialling, Established, On, Tag, TrackingType
<1>7. QED
  BY <1>3, <1>4, <1>5, <1>6 DEF ThreadInv

(* An accept returns with a socket no one else uses.                       *)
LEMMA ReturnsAcceptStep ==
    ASSUME TrackingType, ThreadInv, NEW t \in Threads, ReturnsAccept(t), ~lost'
    PROVE  ThreadInv' /\ Calm
<1>1. PICK fd \in Fds, addr \in Addrs :
        thr[t].pc = "kernel" /\ NewSock(fd, addr, "accepted") /\ Exit(t, fd, "insert", "ok")
  BY DEF ReturnsAccept
<1>2. /\ thr[t].pc = "kernel" /\ thr[t].op = "accept" /\ thr[t].fd = 0
      /\ thr'[t].pc = "insert" /\ thr'[t].op = "accept" /\ thr'[t].fd = fd /\ thr'[t].res = "ok"
      /\ \A u \in Threads \ {t} : thr'[u] = thr[u]
      /\ UNCHANGED connections
  <2>1. thr[t].op = "accept" /\ thr[t].fd = 0 /\ UNCHANGED connections
    BY <1>1 DEF ReturnsAccept, ThreadInv, CallOrder
  <2>2. QED
    BY SMTT(30), <1>1, <2>1, Exits
<1>3. /\ sock[fd].st = "free" /\ gen' = gen + 1 /\ gen' \in Nat
      /\ \A f \in Fds \ {fd} : sock'[f] = sock[f]
      /\ sock'[fd].st = "accepted" /\ sock'[fd].gen = gen + 1
  BY <1>1, NewSocket
<1>4. fd \notin connections /\ \A u \in Threads : ~On(u, fd)
  <2>1. fd \notin connections
    BY <1>3 DEF ThreadInv, Watching
  <2>2. ASSUME NEW u \in Threads, On(u, fd) PROVE FALSE
    <3>1. thr[u].op # "none" /\ thr[u] \in Calls
      BY <2>2 DEF TrackingType, On
    <3>2. QED
      BY <1>3, <2>2, <3>1 DEF ThreadInv, CallState, Calls
  <2>3. QED
    BY <2>1, <2>2
<1>5. 0 \notin Fds
  BY SMTT(30), FdsAssumption
<1>6. \A u \in Threads : CallOrder(u)' /\ CallState(u)'
  BY <1>2, <1>3, <1>4 DEF ThreadInv, CallOrder, CallState, On
<1>7. Shared'
  BY <1>2, <1>4 DEF ThreadInv, Shared, On
<1>8. Watching'
  BY <1>2, <1>3, <1>4, <1>5 DEF ThreadInv, Watching, Starting, Closer, Ending, On, Tag
<1>9. Calm
  BY SMTT(30), <1>2, <1>3, <1>4, <1>5 DEF Calm, Ending, Dialling, Established, On, Tag, TrackingType
<1>10. QED
  BY <1>6, <1>7, <1>8, <1>9 DEF ThreadInv

(* The new descriptor becomes watched.                                     *)
LEMMA InsertStep ==
    ASSUME TrackingType, ThreadInv, NEW t \in Threads, Insert(t), ~lost'
    PROVE  ThreadInv' /\ Calm
<1>1. PICK fd \in Fds : fd = thr[t].fd
  BY SMTT(30), ProbeType
<1>2. /\ thr[t].pc = "insert" /\ thr[t].op \in {"connect", "accept"} /\ thr[t].res = "ok"
      /\ connections' = connections \cup {fd} /\ thr'[t].pc = "send"
      /\ thr'[t].op = thr[t].op /\ thr'[t].fd = fd /\ thr'[t].res = "ok"
      /\ \A u \in Threads \ {t} : thr'[u] = thr[u]
      /\ UNCHANGED <<sock, gen>>
  BY SMTT(30), <1>1, ProbeType, Moves DEF Insert, ThreadInv, CallOrder
<1>3. \A u \in Threads : On(u, fd) => u = t
  BY SMTT(30), <1>1, <1>2 DEF ThreadInv, Shared, On
<1>4. sock[fd].st \in {"connecting", "accepted"}
  BY SMTT(30), <1>1, <1>2 DEF ThreadInv, CallState, On
<1>5. \A u \in Threads : CallOrder(u)' /\ CallState(u)'
  BY <1>1, <1>2 DEF ThreadInv, CallOrder, CallState, On
<1>6. Shared'
  BY <1>1, <1>2 DEF ThreadInv, Shared, On
<1>7. Watching'
  BY <1>1, <1>2, <1>3, <1>4 DEF ThreadInv, Watching, Starting, Closer, Ending, On, Tag
<1>8. Calm
  BY SMTT(30), <1>1, <1>2, <1>3, <1>4 DEF Calm, Ending, Dialling, Established, On, Tag, TrackingType
<1>9. QED
  BY <1>5, <1>6, <1>7, <1>8 DEF ThreadInv

(* A read or write looks its descriptor up.                                *)
LEMMA GetStep ==
    ASSUME TrackingType, ThreadInv, NEW t \in Threads, Get(t), ~lost'
    PROVE  ThreadInv' /\ Calm
<1>1. PICK fd \in Fds : fd = thr[t].fd
  BY ProbeType
<1>2. /\ thr[t].pc = "get" /\ thr[t].op \in {"read", "write"}
      /\ thr'[t].pc \in {"leave", "send", "remove"}
      /\ thr'[t].pc = "send" => thr[t].res = "ok"
      /\ thr'[t].pc = "remove" => thr[t].res # "ok"
      /\ thr'[t].op = thr[t].op /\ thr'[t].fd = fd /\ thr'[t].res = thr[t].res
      /\ \A u \in Threads \ {t} : thr'[u] = thr[u]
      /\ UNCHANGED <<sock, gen, connections>>
  BY <1>1, ProbeType, Moves DEF Get, ThreadInv, CallOrder, kernelVars
<1>3. thr[t].res \in {"ok", "error"}
  <2>1. thr[t].res # "none" /\ thr[t] \in Calls
    BY SMTT(30), <1>2 DEF ThreadInv, CallOrder, TrackingType
  <2>2. QED
    BY SMTT(30), <2>1 DEF Calls
<1>4. \A u \in Threads : CallOrder(u)' /\ CallState(u)'
  BY <1>1, <1>2, <1>3 DEF ThreadInv, CallOrder, CallState, On
<1>5. Shared'
  BY <1>1, <1>2 DEF ThreadInv, Shared, On
<1>6. Watching'
  BY <1>1, <1>2 DEF ThreadInv, Watching, Starting, Closer, Ending, On, Tag
<1>7. Calm
  BY <1>1, <1>2 DEF Calm, Ending, Dialling, Established, On, Tag, TrackingType
<1>8. QED
  BY <1>4, <1>5, <1>6, <1>7 DEF ThreadInv

(* Who takes the descriptor out of the map is about to say so. *)
LEMMA RemoveStep ==
    ASSUME TrackingType, ThreadInv, NEW t \in Threads, Remove(t), ~lost'
    PROVE  ThreadInv' /\ Calm
<1>1. PICK fd \in Fds : fd = thr[t].fd
  BY SMTT(30), ProbeType
<1>2. /\ thr[t].pc = "remove" /\ connections' = connections \ {fd}
      /\ \/ thr[t].op \in {"close", "shutdown"}
         \/ thr[t].op \in {"read", "write"} /\ thr[t].res = "error"
      /\ thr'[t].pc = AfterRemove(thr[t].op, fd \in connections)
      /\ thr'[t].op = thr[t].op /\ thr'[t].fd = fd /\ thr'[t].res = thr[t].res
      /\ \A u \in Threads \ {t} : thr'[u] = thr[u]
      /\ UNCHANGED <<sock, gen>>
  BY <1>1, ProbeType, Moves DEF Remove, ThreadInv, CallOrder, AfterRemove
<1>3. /\ thr'[t].pc \in {"error", "send", "leave"}
      /\ thr'[t].pc = "error" => thr[t].op \in {"read", "write"}
      /\ fd \in connections => Ending(t, fd)'
      /\ fd \notin connections => thr'[t].pc = "leave"
  BY SMTT(30), <1>2 DEF AfterRemove, Ending, On, Tag
<1>4. \A u \in Threads : CallOrder(u)' /\ CallState(u)'
  BY SMTT(30), <1>1, <1>2, <1>3 DEF ThreadInv, CallOrder, CallState, On
<1>5. Shared'
  BY SMTT(30), <1>1, <1>2, <1>3 DEF ThreadInv, Shared, On
<1>6. Watching'
  <2>1. sock[fd].st = "connecting" => Closer(t, fd)'
    BY SMTT(30), <1>1, <1>2, <1>3 DEF ThreadInv, CallState, On, Closer
  <2>2. \A f \in Fds :
          /\ f \in connections' => sock'[f].st # "free"
          /\ sock'[f].st = "connecting" =>
               \/ f \in connections'
               \/ \E u \in Threads : Starting(u, f)' \/ Closer(u, f)'
    BY SMTT(30), <1>1, <1>2, <1>3, <2>1 DEF ThreadInv, Watching, Starting, Closer, On
  <2>3. ASSUME NEW f \in Fds, NEW u \in Threads, On(u, f)'
        PROVE  /\ (thr[u].op = "accept" /\ thr[u].pc = "send" => f \in connections)'
               /\ (thr[u].op = "close" /\ thr[u].pc # "remove" => f \notin connections)'
               /\ (Ending(u, f) => f \notin connections)'
    <3>1. CASE u = t
      BY SMTT(30), <1>1, <1>2, <1>3, <2>3, <3>1 DEF On
    <3>2. CASE u # t
      <4>1. thr'[u] = thr[u] /\ On(u, f) /\ (Ending(u, f)' => Ending(u, f))
        BY SMTT(30), <1>2, <2>3, <3>2 DEF On, Ending, Tag
      <4>2. /\ thr[u].op = "accept" /\ thr[u].pc = "send" => f \in connections
            /\ thr[u].op = "close" /\ thr[u].pc # "remove" => f \notin connections
            /\ Ending(u, f) => f \notin connections
        BY SMTT(30), <4>1 DEF ThreadInv, Watching
      <4>3. f = fd => thr[u].op # "accept"
        BY SMTT(30), <1>1, <1>2, <3>2, <4>1 DEF ThreadInv, Shared, On
      <4>4. QED
        BY <1>2, <4>1, <4>2, <4>3
    <3>3. QED
      BY <3>1, <3>2
  <2>4. QED
    BY SMTT(30), <2>2, <2>3 DEF Watching
<1>7. Calm
  BY SMTT(30), <1>1, <1>2, <1>3 DEF Calm, Ending, Dialling, Established, On, Tag, TrackingType
<1>8. QED
  BY <1>4, <1>5, <1>6, <1>7 DEF ThreadInv

(* A call ends; a close frees its descriptor.                              *)
LEMMA LeaveStep ==
    ASSUME TrackingType, ThreadInv, NEW t \in Threads, Leave(t), ~lost'
    PROVE  ThreadInv' /\ Calm
<1>1. PICK fd \in Fds : fd = thr[t].fd
  BY LeaveType
<1>2. /\ thr[t].pc = "leave" /\ thr'[t].pc = "idle"
      /\ \A u \in Threads \ {t} : thr'[u] = thr[u]
      /\ \A f \in Fds \ {fd} : sock'[f] = sock[f]
      /\ UNCHANGED <<gen, connections>>
  BY <1>1, LeaveType, Zenon DEF Leave
<1>3. /\ thr[t].op = "close" => sock'[fd] = NoSock
      /\ thr[t].op # "close" =>
           sock'[fd].gen = sock[fd].gen /\ sock'[fd].st = Outcome(thr[t].op, thr[t].res, sock[fd].st)
  BY <1>1, LeaveType
<1>4. CASE thr[t].op \in {"read", "write", "shutdown"}
  <2>1. sock'[fd].gen = sock[fd].gen /\ sock'[fd].st = sock[fd].st
    BY SMTT(30), <1>3, <1>4 DEF Outcome
  <2>2. \A u \in Threads : CallOrder(u)' /\ CallState(u)'
    BY <1>1, <1>2, <2>1 DEF ThreadInv, CallOrder, CallState, On
  <2>3. Shared'
    BY <1>1, <1>2 DEF ThreadInv, Shared, On
  <2>4. Watching'
    BY SMTT(30), <1>1, <1>2, <1>4, <2>1 DEF ThreadInv, Watching, Starting, Closer, Ending, On, Tag
  <2>5. Calm
    <3>1. \A f \in Fds : sock'[f].gen = sock[f].gen /\ sock'[f].st = sock[f].st
      BY <1>2, <2>1
    <3>2. \A u \in Threads, f \in Fds :
            /\ Ending(u, f)' <=> Ending(u, f)
            /\ Dialling(u, f)' <=> Dialling(u, f)
            /\ Established(u, f)' <=> Established(u, f)
      BY <1>2, <1>4 DEF Ending, Dialling, Established, On, Tag
    <3>3. connections' \subseteq Fds
      BY SMTT(30), <1>2 DEF TrackingType
    <3>4. QED
      BY SMTT(30), <1>2, <3>1, <3>2, <3>3 DEF Calm, On, TrackingType
  <2>6. QED
    BY <2>2, <2>3, <2>4, <2>5 DEF ThreadInv
<1>5. CASE thr[t].op \in {"connect", "accept", "getsockopt", "close"}
  <2>1. \A u \in Threads : On(u, fd) => u = t
    BY SMTT(30), <1>1, <1>2, <1>5 DEF ThreadInv, Shared, On
  <2>2. /\ thr[t].op = "close" => fd \notin connections
        /\ thr[t].op = "accept" => thr[t].res = "ok"
    BY <1>1, <1>2 DEF ThreadInv, Watching, CallOrder, On
  <2>3. /\ thr[t].op = "close" => sock'[fd].st = "free" /\ sock'[fd].gen = 0
        /\ thr[t].op # "close" => sock'[fd].gen = sock[fd].gen
        /\ thr[t].op = "accept" => sock'[fd].st = "open"
        /\ thr[t].op = "getsockopt" /\ thr[t].res = "ok" => sock'[fd].st = "open"
        /\ thr[t].op \in {"connect", "getsockopt"} /\ thr[t].res = "error" => sock'[fd].st = "failed"
        /\ thr[t].op = "connect" /\ thr[t].res = "ok" => sock'[fd].st = sock[fd].st
    BY <1>3, <2>2 DEF Outcome, NoSock
  <2>4. thr[t].op \in {"connect", "getsockopt"} => thr[t].res \in {"ok", "error"}
    <3>1. thr[t].op \in {"connect", "getsockopt"} => thr[t].res # "none"
      BY <1>2 DEF ThreadInv, CallOrder
    <3>2. thr[t] \in Calls
      BY SMTT(30) DEF TrackingType
    <3>3. QED
      BY SMTT(30), <3>1, <3>2 DEF Calls
  <2>5. \A u \in Threads : CallOrder(u)' /\ CallState(u)'
    BY SMTT(30), <1>1, <1>2, <2>1 DEF ThreadInv, CallOrder, CallState, On
  <2>6. Shared'
    BY <1>1, <1>2 DEF ThreadInv, Shared, On
  <2>7. Watching'
    BY SMTT(30), <1>1, <1>2, <1>5, <2>1, <2>2, <2>3, <2>4 DEF ThreadInv, Watching, Starting, Closer, Ending, On, Tag
  <2>8. Calm
    BY SMTT(30), <1>1, <1>2, <1>5, <2>1, <2>2, <2>3, <2>4
       DEF Calm, ThreadInv, CallState, Ending, Dialling, Established, On, Tag, TrackingType
  <2>9. QED
    BY <2>5, <2>6, <2>7, <2>8 DEF ThreadInv
<1>6. QED
  <2>1. thr[t].op # "none" /\ thr[t] \in Calls
    BY SMTT(30), <1>2 DEF TrackingType
  <2>2. QED
    BY <1>4, <1>5, <2>1 DEF Calls

-----------------------------------------------------------------------------
(* A thread sends an event *)

(* The new event is the last, and is of the socket that has the            *)
(* descriptor.                                                             *)
LEMMA SendFacts ==
    ASSUME TrackingType, ThreadInv, NEW t \in Threads, SendError(t) \/ Send(t), ~lost'
    PROVE  \E fd \in Fds, e \in Events :
             /\ On(t, fd) /\ fd = thr[t].fd /\ e.fd = fd /\ e.gen = sock[fd].gen /\ e.res = thr[t].res
             /\ \/ SendError(t) /\ e.tag = "Error" /\ thr'[t].pc = "send"
                \/ Send(t) /\ e.tag = Tag(t) /\ thr'[t].pc = "leave"
             /\ queue' = Append(queue, e)
<1>1. thr[t].pc \in {"error", "send"} /\ thr[t].fd \in Fds
  BY SendType DEF SendError, Send
<1>2. CASE SendError(t)
  <2>1. Sent(EventOf(t, "Error")) /\ Goto(t, "send")
    BY <1>2 DEF SendError, Lost
  <2>2. QED
    BY <1>1, <1>2, <2>1, EventType, Moves, Zenon DEF Sent, EventOf, On
<1>3. CASE Send(t)
  <2>1. Sent(EventOf(t, Tag(t))) /\ Goto(t, "leave")
    BY <1>3 DEF Send, Lost
  <2>2. EventOf(t, Tag(t)).tag = Tag(t)
    BY DEF EventOf
  <2>3. QED
    BY <1>1, <1>3, <2>1, <2>2, EventType, Moves, Zenon DEF Sent, EventOf, On
<1>4. QED
  BY SMTT(30), <1>2, <1>3

(* Sending an event leaves the watched descriptors alone.                  *)
LEMMA SendThread ==
    ASSUME TrackingType, ThreadInv, NEW t \in Threads, SendError(t) \/ Send(t), ~lost'
    PROVE  ThreadInv'
<1>1. PICK fd \in Fds : On(t, fd) /\ fd = thr[t].fd /\ thr'[t].pc = IF SendError(t) THEN "send" ELSE "leave"
  BY SMTT(30), SendFacts DEF SendError, Send
<1>2. /\ thr'[t].op = thr[t].op /\ thr'[t].fd = fd /\ thr'[t].res = thr[t].res
      /\ \A u \in Threads \ {t} : thr'[u] = thr[u]
      /\ UNCHANGED <<sock, gen, connections>>
      /\ thr[t].pc \in {"send", "error"} /\ (thr[t].pc = "error" <=> SendError(t))
  BY SMTT(30), <1>1, SendType DEF kernelVars, Send, SendError
<1>3. \A u \in Threads : CallOrder(u)' /\ CallState(u)'
  BY SMTT(30), <1>1, <1>2 DEF ThreadInv, CallOrder, CallState, On
<1>4. Shared'
  BY SMTT(30), <1>1, <1>2 DEF ThreadInv, Shared, On
<1>5. Ending(t, fd)' => Ending(t, fd)
  BY <1>1, <1>2 DEF Ending, On
<1>6. Watching'
  BY SMTT(30), <1>1, <1>2, <1>5 DEF ThreadInv, Watching, CallOrder, Starting, Closer, Ending, On, Tag
<1>7. QED
  BY SMTT(30), <1>3, <1>4, <1>6 DEF ThreadInv

-----------------------------------------------------------------------------
(* The consumer thread's maps *)

(* The newest entry of the report for a connection is its own. *)
Reported ==
    \A fd \in DOMAIN p2p_cns : \E i \in DOMAIN network :
        /\ network[i].fd = fd /\ network[i].ip = p2p_cns[fd].addr[1]
        /\ network[i].gen = p2p_cns[fd].gen
        /\ \A j \in DOMAIN network : i < j => ~(network[j].fd = fd /\ network[j].ip = p2p_cns[fd].addr[1])
Known(f) == \A fd \in DOMAIN f : fd \in Fds /\ f[fd] \in [addr : Places, gen : Nat]
Entries == [ip : {a[1] : a \in Places}, fd : Fds, gen : Nat]
UserInv ==
    /\ Known(p2p_cns) /\ Known(pending_out_cns)
    /\ network \in Seq(Entries)
    /\ DOMAIN cns \subseteq Places \X Fds
    /\ Reported
    /\ NoLeakedConnection

(* A new connection replaces the one of the same descriptor.               *)
LEMMA NewConnectionUser ==
    ASSUME UserInv, NEW fd \in Fds, NEW addr \in Places, NEW g \in Nat, NewConnection(fd, addr, g),
           Known(pending_out_cns)'
    PROVE  UserInv'
<1>1. p2p_cns' = With(p2p_cns, fd, [addr |-> addr, gen |-> g])
  BY SMTT(30) DEF NewConnection
<1>2. /\ DOMAIN p2p_cns' = DOMAIN p2p_cns \cup {fd} /\ p2p_cns'[fd] = [addr |-> addr, gen |-> g]
      /\ \A f \in DOMAIN p2p_cns \ {fd} : p2p_cns'[f] = p2p_cns[f]
  BY SMTT(30), <1>1 DEF With
<1>3. Known(p2p_cns)'
  BY <1>2 DEF UserInv, Known
<1> DEFINE r == [ip |-> addr[1], fd |-> fd, gen |-> g]
<1>4. r \in Entries /\ network' = Append(network, r)
  BY DEF Entries, NewConnection
<1>5. PICK n \in Nat : n = Len(network)
  BY DEF UserInv
<1>6. /\ network' \in Seq(Entries) /\ DOMAIN network = 1 .. n /\ DOMAIN network' = 1 .. n + 1
      /\ network'[n + 1] = r /\ \A i \in 1 .. n : network'[i] = network[i]
  BY SMTT(30), <1>4, <1>5 DEF UserInv
<1>7. Reported'
  <2>1. SUFFICES ASSUME NEW f \in DOMAIN p2p_cns'
                 PROVE  \E i \in 1 .. n + 1 :
                          /\ network'[i].fd = f /\ network'[i].ip = p2p_cns'[f].addr[1]
                          /\ network'[i].gen = p2p_cns'[f].gen
                          /\ \A j \in 1 .. n + 1 : i < j =>
                               ~(network'[j].fd = f /\ network'[j].ip = p2p_cns'[f].addr[1])
    BY SMTT(30), <1>6 DEF Reported
  <2>2. CASE f = fd
    BY SMTT(30), <1>2, <1>6, <2>2
  <2>3. CASE f # fd
    <3>1. PICK i \in 1 .. n :
            /\ network[i].fd = f /\ network[i].ip = p2p_cns[f].addr[1]
            /\ network[i].gen = p2p_cns[f].gen
            /\ \A j \in 1 .. n : i < j => ~(network[j].fd = f /\ network[j].ip = p2p_cns[f].addr[1])
      <4>1. f \in DOMAIN p2p_cns
        BY <1>2, <2>3
      <4>2. PICK i \in DOMAIN network :
              /\ network[i].fd = f /\ network[i].ip = p2p_cns[f].addr[1]
              /\ network[i].gen = p2p_cns[f].gen
              /\ \A j \in DOMAIN network : i < j => ~(network[j].fd = f /\ network[j].ip = p2p_cns[f].addr[1])
        BY SMTT(30), <4>1 DEF UserInv, Reported
      <4>3. QED
        BY Zenon, <1>6, <4>2
    <3>2. p2p_cns'[f] = p2p_cns[f]
      BY SMTT(30), <1>2, <2>3
    <3>3. network'[n + 1].fd # f
      BY <1>6, <2>3
    <3>4. \A j \in 1 .. n + 1 : i < j => ~(network'[j].fd = f /\ network'[j].ip = p2p_cns'[f].addr[1])
      <4>1. SUFFICES ASSUME NEW j \in 1 .. n, i < j
                     PROVE  ~(network'[j].fd = f /\ network'[j].ip = p2p_cns'[f].addr[1])
        BY <3>3
      <4>2. network'[j] = network[j]
        BY <1>6
      <4>3. QED
        BY <3>1, <3>2, <4>1, <4>2
    <3>5. network'[i] = network[i] /\ i \in 1 .. n + 1
      BY <1>6
    <3>6. QED
      BY <3>1, <3>2, <3>4, <3>5
  <2>4. QED
    BY SMTT(30), <2>2, <2>3
<1> DEFINE old == IF fd \in DOMAIN p2p_cns THEN Disconnected(cns, p2p_cns[fd].addr, fd) ELSE cns
<1>8. PICK ok \in BOOLEAN : cns' = Connected(old, addr, fd, g, ok)
  BY SMTT(30) DEF NewConnection
<1>9. DOMAIN old \subseteq DOMAIN cns /\ \A k \in DOMAIN old : old[k] = cns[k] /\ k[2] # fd
  <2>1. CASE fd \in DOMAIN p2p_cns
    <3>1. /\ DOMAIN old = DOMAIN cns \ {<<p2p_cns[fd].addr, fd>>}
          /\ \A k \in DOMAIN old : old[k] = cns[k]
      BY SMTT(30), <2>1 DEF Disconnected, Without, Restricted
    <3>2. \A k \in DOMAIN cns : k[2] = fd => k = <<p2p_cns[fd].addr, fd>>
      BY SMTT(30) DEF UserInv, NoLeakedConnection
    <3>3. QED
      BY <3>1, <3>2
  <2>2. CASE fd \notin DOMAIN p2p_cns
    BY <2>2 DEF UserInv, NoLeakedConnection
  <2>3. QED
    BY SMTT(30), <2>1, <2>2
<1> HIDE DEF old
<1>10. /\ DOMAIN cns' \subseteq DOMAIN old \cup {<<addr, fd>>}
       /\ \A k \in DOMAIN cns' : IF k = <<addr, fd>> THEN cns'[k] = g ELSE cns'[k] = old[k]
  <2>1. <<addr, fd>> \notin DOMAIN old
    BY <1>9
  <2>2. QED
    BY <1>8, <2>1 DEF Connected, With
<1>11. (DOMAIN cns \subseteq Places \X Fds)'
  BY <1>9, <1>10 DEF UserInv
<1>12. NoLeakedConnection'
  <2>1. SUFFICES ASSUME NEW k \in DOMAIN cns'
                 PROVE  k[2] \in DOMAIN p2p_cns' /\ p2p_cns'[k[2]].addr = k[1] /\ p2p_cns'[k[2]].gen = cns'[k]
    BY DEF NoLeakedConnection
  <2>2. CASE k = <<addr, fd>>
    BY <1>2, <1>10, <2>2
  <2>3. CASE k # <<addr, fd>>
    <3>1. k \in DOMAIN old /\ cns'[k] = cns[k] /\ k \in DOMAIN cns /\ k[2] # fd
      BY <1>9, <1>10, <2>3
    <3>2. k[2] \in DOMAIN p2p_cns /\ p2p_cns[k[2]].addr = k[1] /\ p2p_cns[k[2]].gen = cns[k]
      BY <3>1 DEF UserInv, NoLeakedConnection
    <3>3. QED
      BY <1>2, <3>1, <3>2
  <2>4. QED
    BY <2>2, <2>3
<1>13. QED
  BY Zenon, <1>3, <1>6, <1>7, <1>11, <1>12 DEF UserInv

(* Every event keeps the consumer thread's maps in agreement.              *)
LEMMA DispatchUser ==
    ASSUME TrackingType, UserInv, Dispatch
    PROVE  UserInv'
<1>1. PICK h \in Events : h = Head1
  BY DispatchType
<1>2. h.fd \in Fds /\ h.addr \in Places /\ h.gen \in Nat
  BY SMTT(30) DEF Events
<1>3. CASE h.tag = "connect"
  <2>1. OnOutgoingConnection(h)
    BY <1>1, <1>3 DEF Dispatch
  <2>2. Known(pending_out_cns)'
    BY <1>2, <2>1 DEF OnOutgoingConnection, With, UserInv, Known
  <2>3. QED
    BY <2>1, <2>2 DEF OnOutgoingConnection, UserInv, Known, Reported, NoLeakedConnection
<1>4. CASE h.tag = "getsockopt"
  <2>1. OnGetSockOpt(h)
    BY <1>1, <1>4 DEF Dispatch
  <2>2. Known(pending_out_cns)'
    BY <2>1 DEF OnGetSockOpt, Without, Restricted, UserInv, Known
  <2>3. CASE h.fd \in DOMAIN pending_out_cns /\ h.res = "ok"
    <3>1. NewConnection(h.fd, pending_out_cns[h.fd].addr, pending_out_cns[h.fd].gen)
      BY <2>1, <2>3 DEF OnGetSockOpt
    <3>2. pending_out_cns[h.fd].addr \in Places /\ pending_out_cns[h.fd].gen \in Nat
      BY SMTT(30), <2>3 DEF UserInv, Known
    <3>3. QED
      BY <1>2, <2>2, <3>1, <3>2, NewConnectionUser
  <2>4. CASE ~(h.fd \in DOMAIN pending_out_cns /\ h.res = "ok")
    BY SMTT(30), <2>1, <2>2, <2>4 DEF OnGetSockOpt, UserInv, Known, Reported, NoLeakedConnection
  <2>5. QED
    BY <2>3, <2>4
<1>5. CASE h.tag = "accept"
  <2>1. OnIncomingConnection(h)
    BY <1>1, <1>5 DEF Dispatch
  <2>2. QED
    BY <1>2, <2>1, NewConnectionUser DEF OnIncomingConnection, UserInv, Known
<1>6. CASE h.tag = "Close"
  <2>1. OnDisconnected(h)
    BY <1>1, <1>6 DEF Dispatch
  <2>2. /\ DOMAIN p2p_cns' = DOMAIN p2p_cns \ {h.fd}
        /\ \A f \in DOMAIN p2p_cns' : p2p_cns'[f] = p2p_cns[f]
        /\ UNCHANGED <<pending_out_cns, network>>
    BY <2>1 DEF OnDisconnected, Without, Restricted
  <2>3. DOMAIN cns' \subseteq DOMAIN cns /\ \A k \in DOMAIN cns' : cns'[k] = cns[k] /\ k[2] # h.fd
    <3>1. CASE h.fd \in DOMAIN p2p_cns
      <4>1. /\ DOMAIN cns' = DOMAIN cns \ {<<p2p_cns[h.fd].addr, h.fd>>}
            /\ \A k \in DOMAIN cns' : cns'[k] = cns[k]
        BY <2>1, <3>1 DEF OnDisconnected, Disconnected, Without, Restricted
      <4>2. \A k \in DOMAIN cns : k[2] = h.fd => k = <<p2p_cns[h.fd].addr, h.fd>>
        BY DEF UserInv, NoLeakedConnection
      <4>3. QED
        BY <4>1, <4>2
    <3>2. CASE h.fd \notin DOMAIN p2p_cns
      BY <2>1, <3>2 DEF OnDisconnected, UserInv, NoLeakedConnection
    <3>3. QED
      BY <3>1, <3>2
  <2>4. NoLeakedConnection'
    BY <2>2, <2>3 DEF UserInv, NoLeakedConnection
  <2>5. Reported' /\ Known(p2p_cns)' /\ Known(pending_out_cns)'
    BY SMTT(30), <2>2 DEF UserInv, Reported, Known
  <2>6. QED
    BY <2>2, <2>3, <2>4, <2>5 DEF UserInv
<1>7. CASE h.tag \notin {"connect", "getsockopt", "accept", "Close"}
  <2>1. UNCHANGED userVars
    BY <1>1, <1>7 DEF Dispatch, OnDataOrError
  <2>2. QED
    BY <2>1 DEF userVars, UserInv, Known, Reported, NoLeakedConnection
<1>8. QED
  BY <1>3, <1>4, <1>5, <1>6, <1>7

(* Only events change the consumer thread's maps.                          *)
LEMMA UserStays ==
    ASSUME UserInv, UNCHANGED userVars
    PROVE  UserInv'
<1>1. UNCHANGED <<pending_out_cns, p2p_cns, cns, network>>
  BY DEF userVars
<1>2. Known(p2p_cns)' /\ Known(pending_out_cns)'
  BY SMTT(30), <1>1 DEF UserInv, Known
<1>3. Reported'
  BY SMTT(30), <1>1 DEF UserInv, Reported
<1>4. NoLeakedConnection'
  BY <1>1 DEF UserInv, NoLeakedConnection
<1>5. QED
  BY <1>1, <1>2, <1>3, <1>4 DEF UserInv
=============================================================================
