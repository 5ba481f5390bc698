------------------------------ MODULE Tracking ------------------------------
(***************************************************************************)
(* Which connection a piece of traffic belongs to.  The probes of          *)
(* bpf-recorder/src/main.rs keep a kernel map of the sockets worth         *)
(* watching and send an event per system call; the consumer thread of the  *)
(* same file keeps its own maps from those events and drives the           *)
(* P2pRecorder of mina-recorder/src/recorder.rs.  All of them are keyed by *)
(* file descriptor, and descriptors are reused.                            *)
(*                                                                         *)
(* A generation numbers the sockets in the order of their creation; it is  *)
(* history, never read by the code.  The traced program is not in the      *)
(* repository: it is modelled as threads that make system calls the way    *)
(* the probes expect of coda-libp2p_helper, a Go program, whose runtime    *)
(* does not close a descriptor under a running read, write or getsockopt.  *)
(* Events travel in reservation order (module RingBuffer).                 *)
(***************************************************************************)
EXTENDS Integers, Sequences

CONSTANTS
    Threads,         \* threads of the traced program
    Fds,             \* its descriptors above 2
    Addrs,           \* remote addresses, pairs <<ip, port>>
    MaxGen,          \* bound of the model: sockets created
    MaxQueue         \* events between the probes and the consumer thread

(* 0, 1 and 2 are the standard descriptors (module Programs), no sockets. *)
ASSUME FdsAssumption == Fds \subseteq Nat \ (0 .. 2)

VARIABLES
    sock,             \* the program's descriptor table: fd -> [gen, addr, st]
    gen,              \* sockets created so far
    thr,              \* what every thread is doing
    connections,      \* kernel map of watched descriptors
    queue,            \* events sent and not yet dispatched
    pending_out_cns,  \* fd -> [addr, gen]
    p2p_cns,          \* fd -> [addr, gen]
    cns,              \* the recorder's connections: <<addr, fd>> -> gen
    network,          \* the report's connections, oldest first
    lost              \* history: has anything been lost for want of room, or not written?

kernelVars == <<sock, gen, connections>>
userVars == <<pending_out_cns, p2p_cns, cns, network>>
vars == <<sock, gen, thr, connections, queue, pending_out_cns, p2p_cns, cns, network,
          lost>>

NoSock == [gen |-> 0, addr |-> <<0, 0>>, st |-> "free"]
Idle == [pc |-> "idle", op |-> "none", fd |-> 0, ctx |-> FALSE, res |-> "none"]
Restricted(f, S) == [x \in S |-> f[x]]
Without(f, x) == Restricted(f, DOMAIN f \ {x})
With(f, x, v) == [y \in DOMAIN f \cup {x} |-> IF y = x THEN v ELSE f[y]]
Empty == [x \in {} |-> 0]

Init ==
    /\ sock = [fd \in Fds |-> NoSock]
    /\ gen = 0
    /\ thr = [t \in Threads |-> Idle]
    /\ connections = {}
    /\ queue = <<>>
    /\ pending_out_cns = Empty
    /\ p2p_cns = Empty
    /\ cns = Empty
    /\ network = <<>>
    /\ lost = FALSE

-----------------------------------------------------------------------------
(* The traced program starts a system call. *)

Busy(fd) == {t \in Threads : thr[t].pc # "idle" /\ thr[t].fd = fd}
ClosingOf(fd) == {t \in Busy(fd) : thr[t].op = "close"}

(* enter: the arguments are kept under the thread's id while there is      *)
(* room.  The maps are shared by every traced process: one may be full     *)
(* whatever this program did.                                              *)
Enter(t, op, fd) ==
    /\ thr[t].pc = "idle"
    /\ \E room \in BOOLEAN :
          /\ thr' = [thr EXCEPT ![t] = [pc |-> "kernel", op |-> op, fd |-> fd,
                                        ctx |-> room, res |-> "none"]]
          /\ lost' = (lost \/ ~room)

NewSock(fd, addr, st) ==
    /\ sock[fd].st = "free"
    /\ gen < MaxGen
    /\ gen' = gen + 1
    /\ sock' = [sock EXCEPT ![fd] = [gen |-> gen + 1, addr |-> addr, st |-> st]]

EnterConnect(t) ==
    \E fd \in Fds, addr \in Addrs :
        /\ Enter(t, "connect", fd)
        /\ NewSock(fd, addr, "connecting")
        /\ UNCHANGED <<connections, queue>>
        /\ UNCHANGED userVars

EnterAccept(t) ==
    /\ Enter(t, "accept", 0)
    /\ UNCHANGED <<kernelVars, queue, userVars>>

(* The program asks a socket how its connect ended once it can be written. *)
EnterGetSockOpt(t) ==
    \E fd \in Fds :
        /\ sock[fd].st = "connecting"
        /\ Busy(fd) = {}
        /\ Enter(t, "getsockopt", fd)
        /\ UNCHANGED <<kernelVars, queue, userVars>>

(* At most one read and one write run on a descriptor at a time. *)
EnterIo(t) ==
    \E fd \in Fds, op \in {"read", "write"} :
        /\ sock[fd].st = "open"
        /\ ClosingOf(fd) = {}
        /\ \A u \in Busy(fd) : thr[u].op # op
        /\ Enter(t, op, fd)
        /\ UNCHANGED <<kernelVars, queue, userVars>>

(* enter_close runs before the descriptor is released and keeps no context; *)
(* shutdown, which may overtake a read or a write, is traced the same way.  *)
EnterClose(t) ==
    \E fd \in Fds, op \in {"close", "shutdown"} :
        /\ thr[t].pc = "idle"
        /\ sock[fd].st # "free"
        /\ IF op = "close" THEN Busy(fd) = {}
           ELSE sock[fd].st = "open" /\ \A u \in Busy(fd) : thr[u].op \in {"read", "write"}
        /\ thr' = [thr EXCEPT ![t] = [pc |-> "remove", op |-> op, fd |-> fd,
                                      ctx |-> FALSE, res |-> "none"]]
        /\ UNCHANGED <<kernelVars, queue, userVars, lost>>

-----------------------------------------------------------------------------
(* The kernel does its part and the exit probe begins. *)

Goto(t, pc) == thr' = [thr EXCEPT ![t].pc = pc]
Done(t) == thr' = [thr EXCEPT ![t] = Idle]

(* exit takes the context away; without one nothing is known of the call. *)
Exit(t, fd, pc, res) ==
    thr' = [thr EXCEPT ![t] = [pc |-> IF thr[t].ctx THEN pc ELSE "leave", op |-> thr[t].op,
                               fd |-> fd, ctx |-> FALSE, res |-> res]]

(* on_ret leaves at once on EAGAIN, whatever the call. *)
ReturnsEagain(t) ==
    /\ thr[t].pc = "kernel"
    /\ thr[t].op \in {"accept", "read", "write"}
    /\ Done(t)
    /\ UNCHANGED <<kernelVars, queue, userVars, lost>>

ReturnsConnect(t) ==
    /\ thr[t].pc = "kernel"
    /\ thr[t].op = "connect"
    /\ \/ Exit(t, thr[t].fd, "insert", "ok")        \* EINPROGRESS
       \/ Exit(t, thr[t].fd, "send", "error")
    /\ UNCHANGED <<kernelVars, queue, userVars, lost>>

ReturnsAccept(t) ==
    /\ thr[t].pc = "kernel"
    /\ thr[t].op = "accept"
    /\ \E fd \in Fds, addr \in Addrs :
          /\ NewSock(fd, addr, "accepted")
          /\ Exit(t, fd, "insert", "ok")
    /\ UNCHANGED <<connections, queue, userVars, lost>>

ReturnsGetSockOpt(t) ==
    /\ thr[t].pc = "kernel"
    /\ thr[t].op = "getsockopt"
    /\ \E res \in {"ok", "error"} : Exit(t, thr[t].fd, "send", res)
    /\ UNCHANGED <<kernelVars, queue, userVars, lost>>

ReturnsIo(t) ==
    /\ thr[t].pc = "kernel"
    /\ thr[t].op \in {"read", "write"}
    /\ \E res \in {"ok", "error"} : Exit(t, thr[t].fd, "get", res)
    /\ UNCHANGED <<kernelVars, queue, userVars, lost>>

-----------------------------------------------------------------------------
(* The probes.  Every access to a map is a step of its own. *)

(* on_ret, Connect and Accept: the descriptor is watched from now on. *)
Insert(t) ==
    /\ thr[t].pc = "insert"
    /\ \/ connections' = connections \cup {thr[t].fd} /\ Goto(t, "send") /\ UNCHANGED lost
       \/ /\ thr[t].fd \notin connections          \* no room
          /\ UNCHANGED connections /\ Goto(t, "leave") /\ lost' = TRUE
    /\ UNCHANGED <<sock, gen, queue, userVars>>

(* on_ret, Read and Write: is the descriptor watched? *)
Get(t) ==
    /\ thr[t].pc = "get"
    /\ Goto(t, IF thr[t].fd \notin connections THEN "leave"
               ELSE IF thr[t].res = "ok" THEN "send" ELSE "remove")
    /\ UNCHANGED <<kernelVars, queue, userVars, lost>>

(* enter_close, and on_ret after a failed read or write: only the one that *)
(* takes the descriptor out of the map reports the end of the connection.  *)
AfterRemove(op, found) ==
    IF found THEN (IF op \in {"read", "write"} THEN "error" ELSE "send") ELSE "leave"
Remove(t) ==
    /\ thr[t].pc = "remove"
    /\ connections' = connections \ {thr[t].fd}
    /\ Goto(t, AfterRemove(thr[t].op, thr[t].fd \in connections))
    /\ UNCHANGED <<sock, gen, queue, userVars, lost>>

(* on_ret: what the event says of the call. *)
Tag(t) ==
    CASE thr[t].op \in {"close", "shutdown"} -> "Close"
      [] thr[t].op \in {"read", "write"} /\ thr[t].res = "error" -> "Close"
      [] thr[t].op = "connect" /\ thr[t].res = "error" -> "Error"
      [] OTHER -> thr[t].op
EventOf(t, tag) ==
    [tag |-> tag, fd |-> thr[t].fd, addr |-> sock[thr[t].fd].addr,
     gen |-> sock[thr[t].fd].gen, res |-> thr[t].res]

Room == Len(queue) < MaxQueue
Sent(e) == Room /\ queue' = Append(queue, e) /\ UNCHANGED lost
Lost == ~Room /\ lost' = TRUE /\ UNCHANGED queue

(* Mutant of SendError: no Close behind the error. *)
SendErrorOnly(t) ==
    /\ thr[t].pc = "error"
    /\ Sent(EventOf(t, "Error")) \/ Lost
    /\ Goto(t, "leave")
    /\ UNCHANGED <<kernelVars, userVars>>

(* A failed read or write sends the error first; Close follows only when   *)
(* that found room.                                                        *)
SendError(t) ==
    /\ thr[t].pc = "error"
    /\ \/ Sent(EventOf(t, "Error")) /\ Goto(t, "send")
       \/ Lost /\ Goto(t, "leave")
    /\ UNCHANGED <<kernelVars, userVars>>

Send(t) ==
    /\ thr[t].pc = "send"
    /\ Sent(EventOf(t, Tag(t))) \/ Lost
    /\ Goto(t, "leave")
    /\ UNCHANGED <<kernelVars, userVars>>

(* The call returns and the program knows its outcome.  close releases the *)
(* descriptor.                                                             *)
Outcome(op, res, st) ==
    CASE op \in {"connect", "getsockopt"} /\ res = "error" -> "failed"
      [] op \in {"accept", "getsockopt"} /\ res = "ok" -> "open"
      [] OTHER -> st
Leave(t) ==
    /\ thr[t].pc = "leave"
    /\ Done(t)
    /\ LET fd == thr[t].fd
       IN  sock' = IF thr[t].op = "close" THEN [sock EXCEPT ![fd] = NoSock]
                   ELSE [sock EXCEPT ![fd].st = Outcome(thr[t].op, thr[t].res, @)]
    /\ UNCHANGED <<gen, connections, queue, userVars, lost>>

-----------------------------------------------------------------------------
(* The consumer thread: one event at a time. *)

Head1 == Head(queue)

(* on_disconnect forgets the connection, on_connect writes it to the       *)
(* database and remembers it only when that worked.                        *)
Disconnected(c, addr, fd) == Without(c, <<addr, fd>>)
Connected(c, addr, fd, g, ok) == IF ok THEN With(c, <<addr, fd>>, g) ELSE c

(* Mutant of NewConnection: the descriptor's old connection is kept. *)
NewConnectionKeeps(fd, addr, g) ==
    /\ network' = Append(network, [ip |-> addr[1], fd |-> fd, gen |-> g])
    /\ p2p_cns' = With(p2p_cns, fd, [addr |-> addr, gen |-> g])
    /\ \E ok \in BOOLEAN : cns' = Connected(cns, addr, fd, g, ok) /\ lost' = (lost \/ ~ok)

(* IncomingConnection, and GetSockOpt once it confirms: a descriptor that  *)
(* still has a connection loses it first.                                  *)
NewConnection(fd, addr, g) ==
    /\ network' = Append(network, [ip |-> addr[1], fd |-> fd, gen |-> g])
    /\ p2p_cns' = With(p2p_cns, fd, [addr |-> addr, gen |-> g])
    /\ \E ok \in BOOLEAN :
         /\ cns' = Connected(IF fd \in DOMAIN p2p_cns
                             THEN Disconnected(cns, p2p_cns[fd].addr, fd) ELSE cns,
                             addr, fd, g, ok)
         /\ lost' = (lost \/ ~ok)

OnOutgoingConnection(e) ==
    /\ pending_out_cns' = With(pending_out_cns, e.fd, [addr |-> e.addr, gen |-> e.gen])
    /\ UNCHANGED <<p2p_cns, cns, network, lost>>

OnGetSockOpt(e) ==
    /\ pending_out_cns' = Without(pending_out_cns, e.fd)
    /\ IF e.fd \in DOMAIN pending_out_cns /\ e.res = "ok"
       THEN NewConnection(e.fd, pending_out_cns[e.fd].addr, pending_out_cns[e.fd].gen)
       ELSE UNCHANGED <<p2p_cns, cns, network, lost>>

OnIncomingConnection(e) ==
    /\ NewConnection(e.fd, e.addr, e.gen)
    /\ UNCHANGED pending_out_cns

(* Mutant of OnDisconnected: the descriptor is not forgotten. *)
OnDisconnectedKeeps(e) ==
    /\ cns' = IF e.fd \in DOMAIN p2p_cns THEN Disconnected(cns, p2p_cns[e.fd].addr, e.fd) ELSE cns
    /\ UNCHANGED <<pending_out_cns, p2p_cns, network, lost>>

OnDisconnected(e) ==
    /\ p2p_cns' = Without(p2p_cns, e.fd)
    /\ cns' = IF e.fd \in DOMAIN p2p_cns THEN Disconnected(cns, p2p_cns[e.fd].addr, e.fd) ELSE cns
    /\ UNCHANGED <<pending_out_cns, network, lost>>

(* Data goes to the connection of the descriptor, an error to the log.     *)
OnDataOrError == UNCHANGED <<userVars, lost>>

Dispatch ==
    /\ queue # <<>>
    /\ queue' = Tail(queue)
    /\ CASE Head1.tag = "connect" -> OnOutgoingConnection(Head1)
         [] Head1.tag = "getsockopt" -> OnGetSockOpt(Head1)
         [] Head1.tag = "accept" -> OnIncomingConnection(Head1)
         [] Head1.tag = "Close" -> OnDisconnected(Head1)
         [] OTHER -> OnDataOrError
    /\ UNCHANGED <<sock, gen, thr, connections>>

-----------------------------------------------------------------------------
Next ==
    \/ \E t \in Threads :
          \/ EnterConnect(t) \/ EnterAccept(t) \/ EnterGetSockOpt(t) \/ EnterIo(t) \/ EnterClose(t)
          \/ ReturnsEagain(t) \/ ReturnsConnect(t) \/ ReturnsAccept(t)
          \/ ReturnsGetSockOpt(t) \/ ReturnsIo(t)
          \/ Insert(t) \/ Get(t) \/ Remove(t) \/ SendError(t) \/ Send(t) \/ Leave(t)
    \/ Dispatch

Spec == Init /\ [][Next]_vars

-----------------------------------------------------------------------------
(* Properties *)

(* The recorder never holds a connection the consumer thread has lost      *)
(* sight of, nor two on one descriptor: no ConnectionContext leaks.        *)
NoLeakedConnection ==
    \A k \in DOMAIN cns :
        k[2] \in DOMAIN p2p_cns /\ p2p_cns[k[2]].addr = k[1] /\ p2p_cns[k[2]].gen = cns[k]

(* The report finds its entry by ip and descriptor, newest first. *)
ReportEntry(fd) ==
    LET I == {i \in DOMAIN network :
                 network[i].fd = fd /\ network[i].ip = p2p_cns[fd].addr[1]}
    IN  CHOOSE i \in I : \A j \in I : j <= i

(* While nothing is lost on the way, the data, and the end, of a socket    *)
(* reach the connection recorded for that very socket, not for another     *)
(* that had or has its descriptor, and its data is counted in that         *)
(* connection's entry of the report.                                       *)
Attributed ==
    ~lost /\ queue # <<>> /\ Head1.tag \in {"read", "write", "Close"} /\ Head1.fd \in DOMAIN p2p_cns =>
        /\ p2p_cns[Head1.fd].gen = Head1.gen
        /\ Head1.tag # "Close" => network[ReportEntry(Head1.fd)].gen = Head1.gen

(* With nothing lost, no probe half way and every event dispatched, the    *)
(* consumer thread knows exactly the established sockets the kernel map    *)
(* watches.                                                                *)
Quiet == queue = <<>> /\ \A t \in Threads : thr[t].pc \in {"idle", "kernel"}
MapsAgree ==
    Quiet /\ ~lost =>
        /\ \A fd \in DOMAIN p2p_cns : fd \in connections /\ sock[fd].gen = p2p_cns[fd].gen
        /\ \A fd \in connections : sock[fd].st = "open" => fd \in DOMAIN p2p_cns
=============================================================================
