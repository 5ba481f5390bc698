-------------------------- MODULE LifecycleProofs ---------------------------
(***************************************************************************)
(* Start, service and end of the recorder process for any number of HTTP   *)
(* requests, events and tries, and a command channel of any capacity: what *)
(* the threads expect of each other, the complete report, and one answer   *)
(* for each request.                                                       *)
(***************************************************************************)
EXTENDS Lifecycle, FiniteSetTheorems, TLAPS

LifecycleType ==
    /\ server \in {"none", "up", "graceful", "panicking", "exited", "panicked"}
    /\ consumer \in {"starting", "recv", "report", "spin", "join_server", "join_reader",
                     "terminate", "done", "aborted"}
    /\ callback \in {"none", "handler", "used", "dropped"}
    /\ app \in {"serving", "joining", "exited"}
    /\ request \in [Clients -> {"idle", "lock", "send", "recv", "answered"}]
    /\ drx_lock \subseteq Clients
    /\ commands \in Seq({"GetFirewallStats", "Terminate"})
    /\ answers \in Nat

(* The server is started by the consumer, panics only when the handler     *)
(* could not be set, and has ended when the consumer has joined it.        *)
Beginning == consumer = "starting" => server = "none" /\ callback = "none"
Aborting ==
    /\ server \in {"panicking", "panicked"} => callback = "dropped"
    /\ callback = "dropped" => consumer = "aborted"
Joined == consumer \in {"join_reader", "terminate", "done"} => ServerEnded

(* A server that has ended left no request behind, and the main thread     *)
(* leaves its loop only afterwards: Terminate is the consumer's last act.  *)
Drained == ServerEnded => InFlight = {}
Farewell == \A i \in DOMAIN commands : commands[i] = "Terminate" => consumer = "done"
Over == app # "serving" => ServerEnded

(* The lock has at most one holder, and what is under way is the holder's. *)
Asked == {i \in DOMAIN commands : commands[i] = "GetFirewallStats"}
Waiting == {c \in Clients : request[c] = "recv"}
Holding ==
    /\ \A c \in Clients : request[c] \in {"send", "recv"} <=> c \in drx_lock
    /\ \A c, d \in drx_lock : c = d
Asking ==
    /\ Waiting = {} => Asked = {} /\ answers = 0
    /\ Waiting # {} => \/ Asked = {} /\ answers = 1
                       \/ (\E i \in Asked : Asked = {i}) /\ answers = 0

IInv ==
    /\ LifecycleType /\ Beginning /\ Aborting /\ Joined /\ Drained /\ Farewell /\ Over
    /\ Holding /\ Asking /\ ExpectsHold /\ ReportIsComplete

Commands == {"GetFirewallStats", "Terminate"}

-----------------------------------------------------------------------------
(* The command channel. *)

(* A sent command is the only one that can be a new request.               *)
LEMMA AskedAppend ==
  ASSUME commands \in Seq(Commands), NEW m \in Commands, commands' = Append(commands, m)
  PROVE  /\ commands' \in Seq(Commands)
         /\ \A i \in DOMAIN commands' : \/ i \in DOMAIN commands /\ commands'[i] = commands[i]
                                        \/ commands'[i] = m
         /\ m = "GetFirewallStats" => Asked' = Asked \cup {Len(commands) + 1}
         /\ m # "GetFirewallStats" => Asked' = Asked
  BY DEF Asked

(* Taking the first command moves the others up.                           *)
LEMMA AskedTail ==
  ASSUME commands \in Seq(Commands), commands # <<>>, commands' = Tail(commands)
  PROVE  /\ commands' \in Seq(Commands)
         /\ \A i \in DOMAIN commands' : i + 1 \in DOMAIN commands /\ commands'[i] = commands[i + 1]
         /\ 1 \in DOMAIN commands /\ Head(commands) = commands[1]
         /\ Asked' = {i \in 1 .. Len(commands) - 1 : i + 1 \in Asked}
  BY DEF Asked

-----------------------------------------------------------------------------
(* The steps.  What a step leaves of the requests alone: *)

requests == <<request, drx_lock, commands, answers>>

(* Steps that leave the requests alone.                                    *)
LEMMA RequestsStay ==
  ASSUME IInv, UNCHANGED requests
  PROVE  Holding' /\ Asking'
  BY DEF IInv, Holding, Asking, Asked, Waiting, requests

(* The operator, traced processes, probes and the ring reader. *)
LEMMA OutsideInv ==
  IInv /\ (Record \/ TracedExits \/ CtrlC \/ WatchPid \/ ReadEvent \/ ReaderStops) => IInv'
  <1> SUFFICES ASSUME IInv, Record \/ TracedExits \/ CtrlC \/ WatchPid \/ ReadEvent \/ ReaderStops
               PROVE  IInv'
    OBVIOUS
  <1> USE DEF IInv, Record, TracedExits, CtrlC, WatchPid, ReadEvent, ReaderStops
  <1>1. LifecycleType' /\ UNCHANGED requests
    BY DEF LifecycleType, requests
  <1>2. Beginning' /\ Aborting' /\ Joined' /\ ExpectsHold'
    BY DEF LifecycleType, Beginning, Aborting, Joined, ServerEnded, ExpectsHold
  <1>3. Drained' /\ Farewell' /\ Over'
    BY DEF LifecycleType, Beginning, Drained, Farewell, Over, ServerEnded, InFlight, ExpectsHold
  <1>4. ReportIsComplete'
    BY DEF ReportIsComplete
  <1> QED BY <1>1, <1>2, <1>3, <1>4, RequestsStay

(* The consumer thread until it tells the main thread to end. *)
LEMMA ConsumerInv ==
  IInv /\ (Start \/ Consume \/ ConsumeEnds \/ PostReport \/ JoinServer \/ JoinReader) => IInv'
  <1> SUFFICES ASSUME IInv, Start \/ Consume \/ ConsumeEnds \/ PostReport \/ JoinServer \/ JoinReader
               PROVE  IInv'
    OBVIOUS
  <1> USE DEF IInv, Start, Consume, ConsumeEnds, PostReport, AfterReport, JoinServer, JoinReader
  <1>1. LifecycleType' /\ UNCHANGED requests
    BY DEF LifecycleType, requests
  <1>2. Beginning' /\ Aborting' /\ Joined' /\ ExpectsHold'
    BY DEF LifecycleType, Beginning, Aborting, Joined, ServerEnded, ExpectsHold
  <1>3. Drained' /\ Farewell' /\ Over'
    BY DEF LifecycleType, Beginning, Drained, Farewell, Over, ServerEnded, InFlight
  <1>4. ReportIsComplete'
    BY DEF ReportIsComplete
  <1> QED BY SMTT(30), <1>1, <1>2, <1>3, <1>4, RequestsStay

(* The server ends when its last request is answered. *)
LEMMA ServerInv == IInv /\ (ServerExits \/ ServerPanics) => IInv'
  <1> SUFFICES ASSUME IInv, ServerExits \/ ServerPanics PROVE IInv'
    OBVIOUS
  <1> USE DEF IInv, ServerExits, ServerPanics
  <1>1. LifecycleType' /\ UNCHANGED requests
    BY DEF LifecycleType, requests
  <1>2. Beginning' /\ Aborting' /\ Joined' /\ ExpectsHold'
    BY DEF LifecycleType, Beginning, Aborting, Joined, ServerEnded, ExpectsHold
  <1>3. Drained' /\ Farewell' /\ Over'
    BY DEF LifecycleType, Drained, Farewell, Over, ServerEnded, InFlight
  <1>4. ReportIsComplete'
    BY DEF ReportIsComplete
  <1> QED BY <1>1, <1>2, <1>3, <1>4, RequestsStay

(* A step of a request leaves the threads alone. *)
threads == <<server, consumer, callback, reader, channel>>

(* Steps that leave the threads alone.                                     *)
LEMMA ThreadsStay ==
  ASSUME IInv, UNCHANGED threads
  PROVE  Beginning' /\ Aborting' /\ Joined' /\ ExpectsHold' /\ ReportIsComplete'
  BY DEF IInv, threads, Beginning, Aborting, Joined, ServerEnded, ExpectsHold, ReportIsComplete

(* A client asks, and waits for the lock.                                  *)
LEMMA RequestInv ==
  ASSUME IInv, NEW c \in Clients, Request(c) \/ Lock(c)
  PROVE  IInv'
  <1> USE DEF IInv, Request, Lock
  <1>1. LifecycleType' /\ UNCHANGED <<threads, commands, answers, app>>
    BY DEF LifecycleType, threads
  <1>2. request[c] \notin {"send", "recv"}
    BY DEF LifecycleType
  <1>3. Drained' /\ Farewell' /\ Over'
    BY DEF LifecycleType, Drained, Farewell, Over, ServerEnded, InFlight
  <1>4. Holding'
    BY DEF LifecycleType, Holding
  <1>5. Waiting' = Waiting /\ Asked' = Asked
    BY <1>2 DEF LifecycleType, Waiting, Asked
  <1>6. Asking'
    BY <1>1, <1>5 DEF Asking
  <1> QED BY <1>1, <1>3, <1>4, <1>6, ThreadsStay

(* The holder of the lock sends its command; nobody else waits. *)
LEMMA SendCommandInv ==
  ASSUME IInv, NEW c \in Clients, SendCommand(c)
  PROVE  IInv'
  <1>1. request[c] = "send" /\ request' = [request EXCEPT ![c] = "recv"]
    BY DEF SendCommand
  <1>2. ~ServerEnded /\ app = "serving"
    BY <1>1 DEF IInv, Drained, Over, InFlight, LifecycleType
  <1>3. commands' = Append(commands, "GetFirewallStats") /\ commands \in Seq(Commands)
    BY <1>2 DEF SendCommand, IInv, LifecycleType, Commands
  <1>4. UNCHANGED <<threads, drx_lock, answers, app>>
    BY DEF SendCommand, threads
  <1>5. LifecycleType'
    BY <1>1, <1>3, <1>4, AskedAppend DEF IInv, LifecycleType, threads, Commands
  <1>6. Drained' /\ Over'
    BY <1>2, <1>4 DEF Drained, Over, ServerEnded, threads
  <1>7. Farewell'
    BY <1>3, <1>4, AskedAppend DEF IInv, Farewell, threads, Commands
  <1>8. Waiting = {}
    BY <1>1 DEF IInv, Holding, Waiting
  <1>9. Waiting' # {}
    BY <1>1 DEF IInv, LifecycleType, Waiting
  <1>10. Asked' = {Len(commands) + 1}
    BY <1>3, <1>8, AskedAppend DEF IInv, Asking, Commands
  <1>11. Asking'
    BY <1>4, <1>8, <1>9, <1>10 DEF IInv, Asking
  <1>12. Holding'
    BY <1>1, <1>4 DEF IInv, LifecycleType, Holding
  <1> QED BY <1>4, <1>5, <1>6, <1>7, <1>11, <1>12, ThreadsStay DEF IInv

(* It takes the answer that is there, the only one. *)
LEMMA ReceiveStatsInv ==
  ASSUME IInv, NEW c \in Clients, ReceiveStats(c)
  PROVE  IInv'
  <1>1. request[c] = "recv" /\ request' = [request EXCEPT ![c] = "answered"] /\ drx_lock' = {}
    BY DEF ReceiveStats
  <1>2. ~ServerEnded /\ app = "serving"
    BY <1>1 DEF IInv, Drained, Over, InFlight, LifecycleType
  <1>3. Waiting # {}
    BY <1>1 DEF Waiting
  <1>4. answers > 0 /\ answers' = answers - 1
    BY <1>2 DEF ReceiveStats
  <1>5. Asked = {} /\ answers' = 0
    BY <1>3, <1>4 DEF IInv, Asking
  <1>6. UNCHANGED <<threads, commands, app>>
    BY DEF ReceiveStats, threads
  <1>7. LifecycleType'
    BY <1>1, <1>5, <1>6 DEF IInv, LifecycleType, threads
  <1>8. Drained' /\ Over' /\ Farewell'
    BY <1>2, <1>6 DEF IInv, Drained, Over, Farewell, ServerEnded, threads
  <1>9. \A d \in Clients : request'[d] \notin {"send", "recv"}
    BY <1>1 DEF IInv, LifecycleType, Holding
  <1>10. Holding' /\ Asking'
    BY <1>1, <1>5, <1>6, <1>9 DEF Holding, Asking, Waiting, Asked
  <1> QED BY <1>6, <1>7, <1>8, <1>10, ThreadsStay DEF IInv

(* The last command of the channel is sent.                                *)
LEMMA SendTerminateInv == IInv /\ SendTerminate => IInv'
  <1> SUFFICES ASSUME IInv, SendTerminate PROVE IInv'
    OBVIOUS
  <1>1. consumer = "terminate" /\ consumer' = "done" /\ ServerEnded
    BY DEF SendTerminate, IInv, Joined
  <1>2. UNCHANGED <<server, callback, reader, channel, request, drx_lock, answers, app>>
    BY DEF SendTerminate
  <1>3. commands \in Seq(Commands) /\ (commands' = commands \/ commands' = Append(commands, "Terminate"))
    BY DEF SendTerminate, IInv, LifecycleType, Commands
  <1>4. commands' \in Seq(Commands) /\ Asked' = Asked
    BY <1>3, AskedAppend DEF Commands, Asked
  <1>5. LifecycleType'
    BY <1>1, <1>2, <1>4 DEF IInv, LifecycleType, Commands
  <1>6. Beginning' /\ Aborting' /\ Joined' /\ ExpectsHold' /\ ReportIsComplete'
    BY <1>1, <1>2 DEF IInv, Beginning, Aborting, Joined, ServerEnded, ExpectsHold, ReportIsComplete
  <1>7. Drained' /\ Farewell' /\ Over'
    BY <1>1, <1>2 DEF IInv, Drained, InFlight, Farewell, Over, ServerEnded
  <1>8. Holding' /\ Asking'
    BY <1>2, <1>4 DEF IInv, Holding, Asking, Waiting
  <1> QED BY <1>5, <1>6, <1>7, <1>8 DEF IInv

(* The main thread turns a command into an answer, or leaves its loop when *)
(* nobody waits any more.                                                  *)
LEMMA CommandInv == IInv /\ Command => IInv'
  <1> SUFFICES ASSUME IInv, Command PROVE IInv'
    OBVIOUS
  <1>1. commands \in Seq(Commands) /\ commands # <<>> /\ commands' = Tail(commands)
    BY DEF Command, IInv, LifecycleType, Commands
  <1>2. UNCHANGED <<threads, request, drx_lock>>
    BY DEF Command, threads
  <1>3. Farewell'
    BY <1>1, <1>2, AskedTail DEF IInv, Farewell, threads
  <1>4. Drained' /\ Holding' /\ Waiting' = Waiting
    BY <1>2 DEF IInv, Drained, InFlight, ServerEnded, threads, Holding, Waiting
  <1>5. CASE Head(commands) = "Terminate"
    <2>1. app' = "joining" /\ UNCHANGED answers
      BY <1>5 DEF Command
    <2>2. ServerEnded
      BY <1>1, <1>5, AskedTail DEF IInv, Farewell, Joined
    <2>3. LifecycleType' /\ Over'
      BY <1>1, <1>2, <2>1, <2>2, AskedTail DEF IInv, LifecycleType, Over, ServerEnded, threads, Commands
    <2>4. Waiting = {} /\ Asked = {} /\ answers = 0
      BY <2>2 DEF IInv, Drained, InFlight, Waiting, Asking
    <2>5. Asked' = {}
      BY <1>1, <2>4, AskedTail
    <2>6. Asking'
      BY <1>4, <2>1, <2>4, <2>5 DEF Asking
    <2> QED BY <1>2, <1>3, <1>4, <2>3, <2>6, ThreadsStay DEF IInv
  <1>6. CASE Head(commands) # "Terminate"
    <2>1. answers' = answers + 1 /\ UNCHANGED app
      BY <1>6 DEF Command
    <2>2. 1 \in Asked
      BY <1>1, <1>6, AskedTail DEF Asked, Commands
    <2>3. Waiting # {} /\ Asked = {1} /\ answers = 0
      BY <2>2 DEF IInv, Asking
    <2>4. Asked' = {}
      BY <1>1, <2>3, AskedTail
    <2>5. LifecycleType' /\ Over'
      BY <1>1, <1>2, <2>1, <2>3, AskedTail DEF IInv, LifecycleType, Over, ServerEnded, threads, Commands
    <2>6. Asking'
      BY <1>4, <2>1, <2>3, <2>4 DEF Asking
    <2> QED BY <1>2, <1>3, <1>4, <2>5, <2>6, ThreadsStay DEF IInv
  <1> QED BY <1>5, <1>6

(* The main thread ends.                                                   *)
LEMMA MainInv == IInv /\ (NoMoreSenders \/ MainReturns) => IInv'
  <1> SUFFICES ASSUME IInv, NoMoreSenders \/ MainReturns PROVE IInv'
    OBVIOUS
  <1>1. UNCHANGED <<threads, requests>> /\ app' \in {"joining", "exited"} /\ ServerEnded
    BY DEF NoMoreSenders, MainReturns, threads, requests, IInv, Over
  <1>2. LifecycleType'
    BY <1>1 DEF IInv, LifecycleType, threads, requests
  <1>3. Drained' /\ Farewell' /\ Over'
    BY <1>1 DEF IInv, Drained, InFlight, Farewell, Over, ServerEnded, threads, requests
  <1> QED BY <1>1, <1>2, <1>3, ThreadsStay, RequestsStay DEF IInv

-----------------------------------------------------------------------------
(* The results. *)

(* All threads run and no request is made at the start.                    *)
LEMMA InitInv == Init => IInv
  <1> SUFFICES ASSUME Init PROVE IInv
    OBVIOUS
  <1> USE DEF Init
  <1>1. LifecycleType /\ Beginning /\ Aborting /\ Joined /\ ExpectsHold /\ ReportIsComplete
    BY DEF LifecycleType, Beginning, Aborting, Joined, ExpectsHold, ReportIsComplete
  <1>2. Drained /\ Farewell /\ Over /\ Holding /\ Asking
    BY DEF Drained, ServerEnded, Farewell, Over, Holding, Asking, Asked, Waiting
  <1> QED BY <1>1, <1>2 DEF IInv

(* Every step keeps the inductive invariant.                               *)
LEMMA NextInv == IInv /\ [Next]_vars => IInv'
  <1> SUFFICES ASSUME IInv, [Next]_vars PROVE IInv'
    OBVIOUS
  <1>1. CASE UNCHANGED vars
    <2>1. UNCHANGED <<threads, requests, app>>
      BY <1>1 DEF vars, threads, requests
    <2>2. LifecycleType' /\ Drained' /\ Farewell' /\ Over'
      BY <2>1 DEF threads, requests, IInv, LifecycleType, Drained, InFlight, Farewell, Over, ServerEnded
    <2> QED BY <2>1, <2>2, ThreadsStay, RequestsStay DEF IInv
  <1> QED
    BY <1>1, OutsideInv, ConsumerInv, ServerInv, RequestInv, SendCommandInv, ReceiveStatsInv,
       SendTerminateInv, CommandInv, MainInv
    DEF Next

(* The inductive invariant always holds.                                   *)
LEMMA AlwaysInv == Spec => []IInv
  BY InitInv, NextInv, PTL DEF Spec

(* The one who sends the shutdown finds its receiver, and a server that is *)
(* joined has not panicked, whatever the environment and the order of      *)
(* ctrl-c, requests and ends of traced processes.                          *)
THEOREM LifecycleExpectsHold == Spec => []ExpectsHold
  BY AlwaysInv, PTL DEF IInv

(* The report is made when the reader has stopped and its last event is    *)
(* dispatched.                                                             *)
THEOREM LifecycleReportIsComplete == Spec => []ReportIsComplete
  BY AlwaysInv, PTL DEF IInv

(* The counts of the property follow from the invariant. *)
LEMMA InvCounts == IInv => OneAnswerPerRequest
  <1> SUFFICES ASSUME IInv PROVE OneAnswerPerRequest
    OBVIOUS
  <1>1. InFlight # {} => app = "serving"
    BY DEF IInv, Drained, Over
  <1>2. Cardinality({c \in Clients : request[c] \in {"send", "recv"}}) <= 1
    <2> DEFINE H == {c \in Clients : request[c] \in {"send", "recv"}}
    <2>1. H = {} \/ \E c \in H : H = {c}
      BY DEF IInv, Holding
    <2>2. Cardinality(H) \in {0, 1}
      BY <2>1, FS_EmptySet, FS_Singleton
    <2> QED BY <2>2
  <1>3. Cardinality(Asked) + answers = Cardinality(Waiting)
    <2>1. CASE Waiting = {}
      BY <2>1, FS_EmptySet DEF IInv, Asking
    <2>2. CASE Waiting # {}
      <3>1. \E c \in Waiting : Waiting = {c}
        BY <2>2 DEF Waiting, IInv, Holding
      <3>2. Cardinality(Waiting) = 1
        BY <3>1, FS_Singleton
      <3>3. Cardinality(Asked) + answers = 1
        <4>1. CASE Asked = {} /\ answers = 1
          BY <4>1, FS_EmptySet
        <4>2. CASE (\E i \in Asked : Asked = {i}) /\ answers = 0
          <5>1. Cardinality(Asked) = 1
            BY <4>2, FS_Singleton
          <5> QED BY <4>2, <5>1
        <4> QED BY <2>2, <4>1, <4>2 DEF IInv, Asking
      <3> QED BY <3>2, <3>3
    <2> QED BY <2>1, <2>2
  <1> QED BY <1>1, <1>2, <1>3 DEF OneAnswerPerRequest, Asked, Waiting

(* A request that waits for statistics has exactly one command or answer   *)
(* under way, and the main thread serves until the last of them is done,   *)
(* whatever the capacity of the channel and however the process ends.      *)
THEOREM LifecycleOneAnswerPerRequest == Spec => []OneAnswerPerRequest
  BY AlwaysInv, InvCounts, PTL
=============================================================================
