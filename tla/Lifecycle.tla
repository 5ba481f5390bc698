----------------------------- MODULE Lifecycle ------------------------------
(***************************************************************************)
(* How the recorder process starts, serves and ends: the threads of `main` *)
(* in bpf-recorder/src/main.rs (the ring reader, the consumer, the main    *)
(* thread that runs the firewall's ApplicationServer, the ctrl-c handler   *)
(* and the watchers of traced processes), the HTTP server thread of        *)
(* mina-recorder/src/server.rs, and the channels between them.             *)
(***************************************************************************)
EXTENDS Integers, Sequences, FiniteSets

CONSTANTS
    Clients,         \* HTTP requests that ask for the firewall's statistics
    CommandCap,      \* capacity of the command channel, 256 in the code
    MaxEvents,       \* bound of the model: events not yet read or dispatched
    TriesNumber,     \* TRIES_NUMBER
    HandlerOutcomes  \* subset of {TRUE, FALSE}: can ctrlc::set_handler succeed, fail

VARIABLES
    env,         \* which of DRY, TERMINATE, REGISTRY, DEBUGGER_WAIT_FOREVER are set
    terminating,
    traced,      \* the traced process: "none", "alive" (and watched), "gone"
    ring,        \* records in the ring buffer not yet read
    reader,      \* the ring reader thread, main_thread
    channel,     \* events between the ring reader and the consumer
    consumer,    \* where the consumer thread is
    tries,       \* tries left to post the report
    server,      \* the HTTP server thread
    callback,    \* who has the sender of the server's shutdown channel
    request,     \* what every HTTP request is waiting for
    drx_lock,    \* the requests, at most one, holding the lock on the statistics channel
    commands,    \* the command channel to the ApplicationServer
    answers,     \* statistics sent back and not yet received
    app          \* the main thread

vars == <<env, terminating, traced, ring, reader, channel, consumer, tries, server,
          callback, request, drx_lock, commands, answers, app>>

ConsumerEnded == consumer \in {"done", "aborted"}
ServerEnded == server \in {"exited", "panicked"}
Exited == app = "exited"
InFlight == {c \in Clients : request[c] \notin {"idle", "answered"}}

Init ==
    /\ env \in SUBSET {"DRY", "TERMINATE", "REGISTRY", "DEBUGGER_WAIT_FOREVER"}
    /\ terminating = ("DRY" \in env)
    /\ traced = "none"
    /\ ring = 0
    /\ reader = "reading"
    /\ channel = 0
    /\ consumer = "starting"
    /\ tries = TriesNumber
    /\ server = "none"
    /\ callback = "none"
    /\ request = [c \in Clients |-> "idle"]
    /\ drx_lock = {}
    /\ commands = <<>>
    /\ answers = 0
    /\ app = "serving"

-----------------------------------------------------------------------------
(* The outside: probes, traced processes, the operator. *)

Record ==
    /\ ~Exited /\ ring < MaxEvents /\ channel < MaxEvents
    /\ ring' = ring + 1
    /\ UNCHANGED <<env, terminating, traced, reader, channel, consumer, tries, server,
                   callback, request, drx_lock, commands, answers, app>>

TracedExits ==
    /\ ~Exited /\ traced = "alive"
    /\ traced' = "gone"
    /\ UNCHANGED <<env, terminating, ring, reader, channel, consumer, tries, server,
                   callback, request, drx_lock, commands, answers, app>>

(* Mutant of CtrlC: stops the server and forgets the flag. *)
CtrlCServerOnly ==
    /\ ~Exited /\ callback \in {"handler", "used"}
    /\ callback' = "used"
    /\ server' = IF callback = "handler" THEN "graceful" ELSE server
    /\ UNCHANGED <<env, terminating, traced, ring, reader, channel, consumer, tries, request,
                   drx_lock, commands, answers, app>>

(* The handler sends the server its shutdown once, and sets the flag. *)
CtrlC ==
    /\ ~Exited /\ callback \in {"handler", "used"}
    /\ callback' = "used"
    /\ server' = IF callback = "handler" THEN "graceful" ELSE server
    /\ terminating' = TRUE
    /\ UNCHANGED <<env, traced, ring, reader, channel, consumer, tries, request,
                   drx_lock, commands, answers, app>>

(* watch_pid, every five seconds: the process is gone. *)
WatchPid ==
    /\ ~Exited /\ traced = "gone"
    /\ traced' = "none"
    /\ terminating' = TRUE
    /\ UNCHANGED <<env, ring, reader, channel, consumer, tries, server,
                   callback, request, drx_lock, commands, answers, app>>

-----------------------------------------------------------------------------
(* The ring reader: it notices the flag only when there is nothing to read. *)

ReadEvent ==
    /\ ~Exited /\ reader = "reading" /\ ring > 0
    /\ ring' = ring - 1
    /\ channel' = IF ConsumerEnded THEN channel ELSE channel + 1
    /\ UNCHANGED <<env, terminating, traced, reader, consumer, tries, server,
                   callback, request, drx_lock, commands, answers, app>>

ReaderStops ==
    /\ ~Exited /\ reader = "reading" /\ ring = 0 /\ terminating
    /\ reader' = "stopped"
    /\ UNCHANGED <<env, terminating, traced, ring, channel, consumer, tries, server,
                   callback, request, drx_lock, commands, answers, app>>

-----------------------------------------------------------------------------
(* The consumer thread. *)

(* Mutant of Start: goes on without a handler. *)
StartAnyway ==
    /\ ~Exited /\ consumer = "starting"
    /\ consumer' = "recv"
    /\ \E ok \in HandlerOutcomes : callback' = IF ok THEN "handler" ELSE "dropped"
    /\ server' = "up"
    /\ UNCHANGED <<env, terminating, traced, ring, reader, channel, tries, request,
                   drx_lock, commands, answers, app>>

(* server::spawn, then the handler.  When the handler cannot be set, the   *)
(* closure, and with it the shutdown channel's sender, is dropped and the  *)
(* thread returns; the server's shutdown future panics on the lost sender. *)
Start ==
    /\ ~Exited /\ consumer = "starting"
    /\ \E ok \in HandlerOutcomes :
         /\ consumer' = IF ok THEN "recv" ELSE "aborted"
         /\ callback' = IF ok THEN "handler" ELSE "dropped"
    /\ server' = "up"
    /\ UNCHANGED <<env, terminating, traced, ring, reader, channel, tries, request,
                   drx_lock, commands, answers, app>>

(* One event; NewApp starts a watcher when TERMINATE is set. *)
Consume ==
    /\ ~Exited /\ consumer = "recv" /\ channel > 0
    /\ channel' = channel - 1
    /\ traced' \in IF "TERMINATE" \in env /\ traced = "none" THEN {"none", "alive"} ELSE {traced}
    /\ UNCHANGED <<env, terminating, ring, reader, consumer, tries, server,
                   callback, request, drx_lock, commands, answers, app>>

(* Mutant of ConsumeEnds: leaves the loop with the reader, events or not. *)
ConsumeEndsEarly ==
    /\ ~Exited /\ consumer = "recv" /\ reader = "stopped"
    /\ consumer' = IF "REGISTRY" \in env THEN "report" ELSE "join_server"
    /\ UNCHANGED <<env, terminating, traced, ring, reader, channel, tries, server,
                   callback, request, drx_lock, commands, answers, app>>

(* recv fails once the sender is gone and the channel is empty. *)
ConsumeEnds ==
    /\ ~Exited /\ consumer = "recv" /\ channel = 0 /\ reader = "stopped"
    /\ consumer' = IF "REGISTRY" \in env THEN "report" ELSE "join_server"
    /\ UNCHANGED <<env, terminating, traced, ring, reader, channel, tries, server,
                   callback, request, drx_lock, commands, answers, app>>

AfterReport == IF "DEBUGGER_WAIT_FOREVER" \in env THEN "spin" ELSE "join_server"
PostReport ==
    /\ ~Exited /\ consumer = "report"
    /\ \/ consumer' = AfterReport /\ UNCHANGED tries
       \/ /\ tries' = tries - 1
          /\ consumer' = IF tries' = 0 THEN AfterReport ELSE "report"
    /\ UNCHANGED <<env, terminating, traced, ring, reader, channel, server,
                   callback, request, drx_lock, commands, answers, app>>

JoinServer ==
    /\ ~Exited /\ consumer = "join_server" /\ ServerEnded
    /\ consumer' = "join_reader"
    /\ UNCHANGED <<env, terminating, traced, ring, reader, channel, tries, server,
                   callback, request, drx_lock, commands, answers, app>>

JoinReader ==
    /\ ~Exited /\ consumer = "join_reader" /\ reader = "stopped"
    /\ consumer' = "terminate"
    /\ UNCHANGED <<env, terminating, traced, ring, reader, channel, tries, server,
                   callback, request, drx_lock, commands, answers, app>>

(* app_client.terminate() waits while the command channel is full. *)
SendTerminate ==
    /\ ~Exited /\ consumer = "terminate"
    /\ app = "serving" => Len(commands) < CommandCap
    /\ commands' = IF app = "serving" THEN Append(commands, "Terminate") ELSE commands
    /\ consumer' = "done"
    /\ UNCHANGED <<env, terminating, traced, ring, reader, channel, tries, server,
                   callback, request, drx_lock, answers, app>>

-----------------------------------------------------------------------------
(* The HTTP server and its requests. *)

(* get_firewall_stats: lock, send the command, wait for the answer. *)
Request(c) ==
    /\ ~Exited /\ server = "up" /\ request[c] \in {"idle", "answered"}
    /\ request' = [request EXCEPT ![c] = "lock"]
    /\ UNCHANGED <<env, terminating, traced, ring, reader, channel, consumer, tries, server,
                   callback, drx_lock, commands, answers, app>>

(* Mutant of Lock: no exclusion. *)
LockAnyway(c) ==
    /\ ~Exited /\ request[c] = "lock"
    /\ drx_lock' = {c}
    /\ request' = [request EXCEPT ![c] = "send"]
    /\ UNCHANGED <<env, terminating, traced, ring, reader, channel, consumer, tries, server,
                   callback, commands, answers, app>>

Lock(c) ==
    /\ ~Exited /\ request[c] = "lock" /\ drx_lock = {}
    /\ drx_lock' = {c}
    /\ request' = [request EXCEPT ![c] = "send"]
    /\ UNCHANGED <<env, terminating, traced, ring, reader, channel, consumer, tries, server,
                   callback, commands, answers, app>>

SendCommand(c) ==
    /\ ~Exited /\ request[c] = "send"
    /\ app = "serving" => Len(commands) < CommandCap
    /\ commands' = IF app = "serving" THEN Append(commands, "GetFirewallStats") ELSE commands
    /\ request' = [request EXCEPT ![c] = "recv"]
    /\ UNCHANGED <<env, terminating, traced, ring, reader, channel, consumer, tries, server,
                   callback, drx_lock, answers, app>>

(* An answer, or the default once the other side is gone. *)
ReceiveStats(c) ==
    /\ ~Exited /\ request[c] = "recv"
    /\ answers > 0 \/ app # "serving"
    /\ answers' = IF answers > 0 THEN answers - 1 ELSE 0
    /\ request' = [request EXCEPT ![c] = "answered"]
    /\ drx_lock' = {}
    /\ UNCHANGED <<env, terminating, traced, ring, reader, channel, consumer, tries, server,
                   callback, commands, app>>

(* rx.await.expect("corresponding sender should exist") *)
ServerPanics ==
    /\ ~Exited /\ server = "up" /\ callback = "dropped"
    /\ server' = "panicking"
    /\ UNCHANGED <<env, terminating, traced, ring, reader, channel, consumer, tries,
                   callback, request, drx_lock, commands, answers, app>>

(* warp takes no new request and waits for those it has; so does a runtime *)
(* dropped by a panic for the handlers it is running.                      *)
ServerExits ==
    /\ ~Exited /\ server \in {"graceful", "panicking"} /\ InFlight = {}
    /\ server' = IF server = "graceful" THEN "exited" ELSE "panicked"
    /\ UNCHANGED <<env, terminating, traced, ring, reader, channel, consumer, tries,
                   callback, request, drx_lock, commands, answers, app>>

-----------------------------------------------------------------------------
(* The main thread: ApplicationServer::run, then the consumer's end. *)

(* Mutant of Command: statistics are not sent while the process ends. *)
CommandUnlessTerminating ==
    /\ app = "serving" /\ commands # <<>>
    /\ commands' = Tail(commands)
    /\ \/ /\ Head(commands) = "Terminate"
          /\ app' = "joining"
          /\ UNCHANGED answers
       \/ /\ Head(commands) # "Terminate"
          /\ answers' = IF terminating THEN answers ELSE answers + 1
          /\ UNCHANGED app
    /\ UNCHANGED <<env, terminating, traced, ring, reader, channel, consumer, tries, server,
                   callback, request, drx_lock>>

Command ==
    /\ app = "serving" /\ commands # <<>>
    /\ commands' = Tail(commands)
    /\ \/ /\ Head(commands) = "Terminate"
          /\ app' = "joining"
          /\ UNCHANGED answers
       \/ /\ Head(commands) # "Terminate"
          /\ answers' = answers + 1
          /\ UNCHANGED app
    /\ UNCHANGED <<env, terminating, traced, ring, reader, channel, consumer, tries, server,
                   callback, request, drx_lock>>

(* recv fails: the consumer's and the routes' senders are dropped. *)
NoMoreSenders ==
    /\ app = "serving" /\ commands = <<>> /\ ConsumerEnded /\ ServerEnded
    /\ app' = "joining"
    /\ UNCHANGED <<env, terminating, traced, ring, reader, channel, consumer, tries, server,
                   callback, request, drx_lock, commands, answers>>

MainReturns ==
    /\ app = "joining" /\ ConsumerEnded
    /\ app' = "exited"
    /\ UNCHANGED <<env, terminating, traced, ring, reader, channel, consumer, tries, server,
                   callback, request, drx_lock, commands, answers>>

ClientStep(c) == Lock(c) \/ SendCommand(c) \/ ReceiveStats(c)
ConsumerStep ==
    Start \/ Consume \/ ConsumeEnds \/ PostReport \/ JoinServer \/ JoinReader \/ SendTerminate
ServerStep == ServerExits \/ ServerPanics
MainStep == Command \/ NoMoreSenders \/ MainReturns

Next ==
    \/ Record \/ TracedExits \/ CtrlC \/ WatchPid
    \/ ReadEvent \/ ReaderStops
    \/ Start \/ Consume \/ ConsumeEnds \/ PostReport \/ JoinServer \/ JoinReader \/ SendTerminate
    \/ \E c \in Clients : Request(c) \/ Lock(c) \/ SendCommand(c) \/ ReceiveStats(c)
    \/ ServerExits \/ ServerPanics
    \/ Command \/ NoMoreSenders \/ MainReturns

Spec == Init /\ [][Next]_vars

(* Every thread is scheduled.  ReaderStops asks for more: that the ring    *)
(* buffer is found empty again and again while events keep coming.  The    *)
(* mutex promises nothing to one waiter while others keep coming.          *)
FairSpec ==
    /\ Spec
    /\ WF_vars(ReadEvent) /\ SF_vars(ReaderStops)
    /\ WF_vars(ConsumerStep) /\ WF_vars(ServerStep) /\ WF_vars(MainStep) /\ WF_vars(WatchPid)
    /\ \A c \in Clients : WF_vars(ClientStep(c))

-----------------------------------------------------------------------------
(* Properties *)

(* The two `expect`s of server::spawn and the "must not happen" of the     *)
(* consumer: whoever sends the shutdown finds its receiver, and a server   *)
(* that is joined has not panicked.                                        *)
ExpectsHold ==
    /\ callback = "handler" => server = "up"
    /\ consumer \in {"join_server", "join_reader", "terminate", "done"} => server \notin {"panicking", "panicked"}

(* The report is made from all the events the ring reader handed on: the   *)
(* consumer leaves its loop only behind the last of them.                  *)
ReportIsComplete ==
    consumer \in {"report", "spin", "join_server", "join_reader", "terminate", "done"} =>
        reader = "stopped" /\ channel = 0

(* A request waiting for statistics waits for an answer that will be its   *)
(* own: the main thread serves until the last request is answered, and     *)
(* exactly the holder of the lock has a command or an answer under way.    *)
OneAnswerPerRequest ==
    /\ InFlight # {} => app = "serving"
    /\ Cardinality({i \in DOMAIN commands : commands[i] = "GetFirewallStats"}) + answers
         = Cardinality({c \in Clients : request[c] = "recv"})
    /\ Cardinality({c \in Clients : request[c] \in {"send", "recv"}}) <= 1

(* After ctrl-c the process ends, with requests under way and with events  *)
(* still coming, unless it was told to wait for ever; and so does one that *)
(* could not install its handler.                                          *)
Exits ==
    /\ callback = "used" ~> Exited \/ (consumer = "spin" /\ "DEBUGGER_WAIT_FOREVER" \in env)
    /\ consumer = "aborted" ~> Exited

(* A request that has the statistics channel to itself is answered, also   *)
(* when the process is ending.                                             *)
RequestsAnswered == \A c \in Clients : request[c] = "send" ~> request[c] = "answered"
=============================================================================
