--------------------------- MODULE FirewallProofs ---------------------------
(***************************************************************************)
(* The packet filter for any number of CPUs, addresses, ports, packets and *)
(* commands: verdicts follow the policies in force, and the counters and   *)
(* their walk keep what they promise.                                      *)
(***************************************************************************)
EXTENDS Firewall, TLAPS

(* What a command, or the policy in force, can be. *)
Commands == {Off} \cup [on : {TRUE}, ips : SUBSET (Ips \cup DefaultIps), ports : SUBSET Ports]
Packets ==
    [pc : {"mark", "sport", "dport", "src", "count", "write", "pass", "drop"},
     flow : Flows, got : Nat, from : Commands, during : Seq(Commands)]

FirewallType ==
    /\ whitelist \subseteq Ips \cup DefaultIps \cup {Mark}
    /\ whitelist_ports \subseteq Ports
    /\ policy \in Commands
    /\ cpu \in [Cpus -> {Idle} \cup Packets]
    /\ server.pc \in {"recv", "list", "clear", "clear_ports", "insert", "insert_ports", "insert_mark"}
    /\ server.cmd \in Commands
    /\ server = [pc |-> server.pc, cmd |-> server.cmd, left |-> server.left, list |-> server.list]

Resting == server.pc \in {"recv", "list"}

(* The maps while no command is under way, and how far a command is. *)
MapsMatch ==
    Resting => IF policy.on
               THEN whitelist = policy.ips /\ whitelist_ports = policy.ports
               ELSE whitelist = {Mark} /\ whitelist_ports = {}
Progress ==
    /\ server.pc \in {"clear_ports", "insert_mark"} => whitelist = {}
    /\ server.pc \in {"insert", "insert_mark"} => whitelist_ports = {}
    /\ server.pc = "insert" => server.cmd.on /\ whitelist \subseteq server.cmd.ips
    /\ server.pc = "insert_ports" =>
         server.cmd.on /\ whitelist = server.cmd.ips /\ whitelist_ports \subseteq server.cmd.ports
    /\ server.pc = "insert_mark" => ~server.cmd.on
NoPortsYet == ~policy.on => whitelist_ports = {} \/ server.pc = "insert_ports"

(* How far a packet that no command overlapped is. *)
Undisturbed(c) ==
    LET p == cpu[c] IN
    p.pc # "idle" /\ p.during = <<>> =>
        /\ Resting /\ p.from = policy
        /\ p.pc \in {"sport", "dport", "src"} => policy.on
        /\ p.pc = "dport" => p.flow.sport \notin policy.ports
        /\ p.pc = "src" => {p.flow.sport, p.flow.dport} \cap policy.ports # {}
        /\ p.pc \in {"count", "write", "drop"} => Drops(policy, p.flow)
        /\ p.pc = "pass" => ~Drops(policy, p.flow)

(* How far a packet is that came without a policy and met one command:     *)
(* it looks for its source only after all addresses are in the map.        *)
MetOne(c) ==
    LET p == cpu[c] IN
    p.pc # "idle" /\ ~p.from.on /\ Len(p.during) = 1 =>
        /\ IF Resting THEN policy = p.during[1] ELSE policy = p.from /\ server.cmd = p.during[1]
        /\ p.pc = "src" => Resting \/ server.pc = "insert_ports"
        /\ p.pc \in {"count", "write", "drop"} => p.flow.src \notin p.during[1].ips

(* A CPU about to write a counter has read no more than was dropped. *)
DroppedOf(f) == IF f \in DOMAIN dropped THEN dropped[f] ELSE 0
ReadIsBound(c) == cpu[c].pc = "write" => cpu[c].got <= DroppedOf(cpu[c].flow)
DroppedType == \A f \in DOMAIN dropped : dropped[f] \in Nat

(* What statistics name has a counter, and the walk still has to meet it   *)
(* or has already listed it.                                               *)
Named == {StatsItem(f) : f \in DOMAIN blocked}
NamedStats == DOMAIN stats \subseteq Named /\ DOMAIN server.list \subseteq Named
WalkGoesOn ==
    server.pc = "list" =>
        \A k \in DOMAIN stats : k \in DOMAIN server.list \/ \E f \in server.left : StatsItem(f) = k

VerdictInv ==
    /\ FirewallType /\ MapsMatch /\ Progress /\ NoPortsYet
    /\ \A c \in Cpus : Undisturbed(c) /\ MetOne(c)
CountInv == DroppedType /\ CountersAreLowerBounds /\ \A c \in Cpus : ReadIsBound(c)
WalkInv == NamedStats /\ WalkGoesOn

-----------------------------------------------------------------------------
(* Commands and packets *)

(* The parts of a command.                                                 *)
LEMMA CommandFields ==
    \A k \in Commands : /\ k.on \in BOOLEAN
                        /\ k.on => k.ips \subseteq Ips \cup DefaultIps /\ k.ports \subseteq Ports
                        /\ ~k.on => k = Off
<1>1. SUFFICES ASSUME NEW k \in Commands
               PROVE  /\ k.on \in BOOLEAN
                      /\ k.on => k.ips \subseteq Ips \cup DefaultIps /\ k.ports \subseteq Ports
                      /\ ~k.on => k = Off
  OBVIOUS
<1>2. CASE k = Off
  BY <1>2 DEF Off
<1>3. CASE k \in [on : {TRUE}, ips : SUBSET (Ips \cup DefaultIps), ports : SUBSET Ports]
  BY Zenon, <1>3
<1>4. QED
  BY Zenon, <1>2, <1>3 DEF Commands

(* What the server makes of a policy: always with the default addresses.   *)
LEMMA ReceivedCommand ==
    ASSUME NEW p \in Policies
    PROVE  (IF p.on THEN [p EXCEPT !.ips = @ \cup DefaultIps] ELSE p) \in Commands
<1>1. CASE p = Off
  BY <1>1 DEF Off, Commands
<1>2. CASE p \in [on : {TRUE}, ips : SUBSET Ips, ports : SUBSET Ports]
  BY Zenon, <1>2 DEF Commands
<1>3. QED
  BY Zenon, <1>1, <1>2 DEF Policies

(* A command that comes is one more for each packet under way. *)
LEMMA Overlapped ==
    ASSUME cpu \in [Cpus -> {Idle} \cup Packets], NEW k \in Commands, NEW c \in Cpus
    PROVE  /\ Overlap(k)[c] \in {Idle} \cup Packets
           /\ (Overlap(k)[c].pc = "idle") = (cpu[c].pc = "idle")
           /\ Overlap(k)[c].pc # "idle" =>
                /\ Overlap(k)[c].pc = cpu[c].pc /\ Overlap(k)[c].flow = cpu[c].flow
                /\ Overlap(k)[c].got = cpu[c].got /\ Overlap(k)[c].from = cpu[c].from
                /\ Overlap(k)[c].during # <<>>
                /\ Overlap(k)[c].during = Append(cpu[c].during, k)
                /\ Len(Overlap(k)[c].during) = Len(cpu[c].during) + 1
<1>1. CASE cpu[c].pc = "idle"
  BY <1>1 DEF Overlap, Idle
<1>2. CASE cpu[c].pc # "idle"
  <2>1. cpu[c] \in Packets
    BY <1>2 DEF Idle
  <2>2. PICK p \in Packets : p = cpu[c]
    BY <2>1
  <2>3. Overlap(k)[c] = [p EXCEPT !.during = Append(@, k)]
    BY <1>2, <2>2 DEF Overlap
  <2>4. /\ p.during \in Seq(Commands)
        /\ Append(p.during, k) \in Seq(Commands)
        /\ Append(p.during, k) # <<>>
        /\ Len(Append(p.during, k)) = Len(p.during) + 1
    BY DEF Packets
  <2>5. QED
    BY Zenon, <1>2, <2>2, <2>3, <2>4 DEF Packets
<1>3. QED
  BY <1>1, <1>2

-----------------------------------------------------------------------------
(* Verdicts *)

(* A step of the program leaves the maps alone: what it must show is about *)
(* the packet it moves.                                                    *)
LEMMA PacketMoves ==
    ASSUME VerdictInv, NEW c \in Cpus, NEW q \in {Idle} \cup Packets,
           cpu' = [cpu EXCEPT ![c] = q], UNCHANGED program,
           Undisturbed(c)', MetOne(c)'
    PROVE  VerdictInv'
<1>1. FirewallType'
  BY DEF VerdictInv, FirewallType, program, maps
<1>2. MapsMatch' /\ Progress' /\ NoPortsYet'
  BY DEF VerdictInv, MapsMatch, Progress, NoPortsYet, Resting, program, maps
<1>3. ASSUME NEW d \in Cpus, d # c PROVE Undisturbed(d)' /\ MetOne(d)'
  <2>1. cpu'[d] = cpu[d]
    BY <1>3 DEF VerdictInv, FirewallType
  <2>2. QED
    BY <2>1 DEF VerdictInv, Undisturbed, MetOne, Resting, program, maps, Drops
<1>4. QED
  BY <1>1, <1>2, <1>3 DEF VerdictInv

(* A packet arrives.                                                       *)
LEMMA ArriveVerdict ==
    ASSUME VerdictInv, NEW c \in Cpus, Arrive(c)
    PROVE  VerdictInv'
<1>1. PICK f \in Flows :
        cpu' = [cpu EXCEPT ![c] =
                  [pc |-> "mark", flow |-> f, got |-> 0, from |-> policy,
                   during |-> IF server.pc \in {"recv", "list"} THEN <<>> ELSE <<server.cmd>>]]
  BY Zenon DEF Arrive
<1> DEFINE q == [pc |-> "mark", flow |-> f, got |-> 0, from |-> policy,
                 during |-> IF server.pc \in {"recv", "list"} THEN <<>> ELSE <<server.cmd>>]
<1>2. q \in Packets /\ cpu'[c] = q /\ UNCHANGED program
  BY <1>1 DEF Arrive, Packets, VerdictInv, FirewallType
<1>3. Undisturbed(c)'
  BY <1>2 DEF Undisturbed, Resting, program
<1>4. MetOne(c)'
  BY <1>2 DEF MetOne, Resting, program
<1>5. QED
  BY Zenon, <1>1, <1>2, <1>3, <1>4, PacketMoves

(* The packet of a CPU moves from one lookup to the next. *)
LEMMA Stepped ==
    ASSUME VerdictInv, NEW c \in Cpus,
           NEW from \in {"mark", "sport", "dport", "src"},
           NEW to \in {"sport", "dport", "src", "count", "pass"},
           Step(c, from, to)
    PROVE  /\ cpu[c] \in Packets /\ cpu[c].pc = from
           /\ [cpu[c] EXCEPT !.pc = to] \in Packets
           /\ cpu' = [cpu EXCEPT ![c] = [cpu[c] EXCEPT !.pc = to]]
           /\ cpu'[c].pc = to /\ cpu'[c].flow = cpu[c].flow /\ cpu'[c].from = cpu[c].from
           /\ cpu'[c].during = cpu[c].during
           /\ UNCHANGED program
<1>1. cpu[c] \in Packets /\ cpu[c].pc = from
  BY DEF Step, VerdictInv, FirewallType, Idle
<1>2. PICK p \in Packets : p = cpu[c]
  BY <1>1
<1>3. [p EXCEPT !.pc = to] \in Packets
  BY DEF Packets
<1>4. cpu' = [cpu EXCEPT ![c] = [p EXCEPT !.pc = to]]
  BY <1>2 DEF Step
<1>5. QED
  BY <1>1, <1>2, <1>3, <1>4 DEF Step, VerdictInv, FirewallType, Packets

(* The first lookup: is the firewall on?                                   *)
LEMMA LookMarkVerdict ==
    ASSUME VerdictInv, NEW c \in Cpus, LookMark(c)
    PROVE  VerdictInv'
<1> DEFINE to == IF Mark \in whitelist THEN "pass" ELSE "sport"
<1>1. Step(c, "mark", to)
  BY DEF LookMark
<1>2. /\ cpu[c] \in Packets /\ cpu[c].pc = "mark"
      /\ [cpu[c] EXCEPT !.pc = to] \in Packets
      /\ cpu' = [cpu EXCEPT ![c] = [cpu[c] EXCEPT !.pc = to]]
      /\ cpu'[c].pc = to /\ cpu'[c].flow = cpu[c].flow /\ cpu'[c].from = cpu[c].from
      /\ cpu'[c].during = cpu[c].during
      /\ UNCHANGED program
  BY Zenon, <1>1, Stepped
<1>3. Undisturbed(c)'
  <2>1. Resting => (Mark \in whitelist) = ~policy.on
    BY MarkAssumption, CommandFields DEF VerdictInv, MapsMatch, FirewallType
  <2>2. QED
    BY <1>2, <2>1 DEF VerdictInv, Undisturbed, Resting, program, Drops
<1>4. MetOne(c)'
  BY <1>2 DEF VerdictInv, MetOne, Resting, program
<1>5. QED
  BY Zenon, <1>2, <1>3, <1>4, PacketMoves

(* The lookup of the port.                                                 *)
LEMMA LookPortVerdict ==
    ASSUME VerdictInv, NEW c \in Cpus, LookPort(c)
    PROVE  VerdictInv'
<1>1. PICK from \in {"sport", "dport"}, to \in {"dport", "src", "pass"} :
        /\ Step(c, from, to)
        /\ to = IF (IF from = "sport" THEN cpu[c].flow.sport ELSE cpu[c].flow.dport) \in whitelist_ports
                THEN "src" ELSE IF from = "sport" THEN "dport" ELSE "pass"
  <2>1. CASE Step(c, "sport", IF cpu[c].flow.sport \in whitelist_ports THEN "src" ELSE "dport")
    BY <2>1
  <2>2. CASE Step(c, "dport", IF cpu[c].flow.dport \in whitelist_ports THEN "src" ELSE "pass")
    BY <2>2
  <2>3. QED
    BY <2>1, <2>2 DEF LookPort
<1>2. /\ cpu[c] \in Packets /\ cpu[c].pc = from
      /\ [cpu[c] EXCEPT !.pc = to] \in Packets
      /\ cpu' = [cpu EXCEPT ![c] = [cpu[c] EXCEPT !.pc = to]]
      /\ cpu'[c].pc = to /\ cpu'[c].flow = cpu[c].flow /\ cpu'[c].from = cpu[c].from
      /\ cpu'[c].during = cpu[c].during
      /\ UNCHANGED program
  BY Zenon, <1>1, Stepped
<1>3. Undisturbed(c)'
  BY <1>1, <1>2 DEF VerdictInv, MapsMatch, Undisturbed, Resting, program, maps, Drops
<1>4. MetOne(c)'
  BY <1>1, <1>2 DEF VerdictInv, NoPortsYet, MetOne, Resting, program, maps
<1>5. QED
  BY Zenon, <1>2, <1>3, <1>4, PacketMoves

(* The lookup of the source address.                                       *)
LEMMA LookSrcVerdict ==
    ASSUME VerdictInv, NEW c \in Cpus, LookSrc(c)
    PROVE  VerdictInv'
<1> DEFINE to == IF cpu[c].flow.src \in whitelist THEN "pass" ELSE "count"
<1>1. Step(c, "src", to)
  BY DEF LookSrc
<1>2. /\ cpu[c] \in Packets /\ cpu[c].pc = "src"
      /\ [cpu[c] EXCEPT !.pc = to] \in Packets
      /\ cpu' = [cpu EXCEPT ![c] = [cpu[c] EXCEPT !.pc = to]]
      /\ cpu'[c].pc = to /\ cpu'[c].flow = cpu[c].flow /\ cpu'[c].from = cpu[c].from
      /\ cpu'[c].during = cpu[c].during
      /\ UNCHANGED program
  BY Zenon, <1>1, Stepped
<1>3. Undisturbed(c)'
  BY <1>2 DEF VerdictInv, MapsMatch, Undisturbed, Resting, program, maps, Drops
<1>4. MetOne(c)'
  <2>1. policy.on \/ policy.ips = {}
    BY CommandFields DEF VerdictInv, FirewallType, Off
  <2>2. QED
    BY <1>2, <2>1 DEF VerdictInv, MapsMatch, Progress, MetOne, Resting, program, maps
<1>5. QED
  BY Zenon, <1>2, <1>3, <1>4, PacketMoves
(* The counter of the flow does not matter to a verdict. *)
LEMMA CounterVerdict ==
    ASSUME VerdictInv, CountInv, NEW c \in Cpus, ReadCounter(c) \/ WriteCounter(c)
    PROVE  VerdictInv'
<1>1. cpu[c] \in Packets /\ cpu[c].pc \in {"count", "write"} /\ UNCHANGED program
  BY DEF ReadCounter, WriteCounter, VerdictInv, FirewallType, Idle
<1>2. PICK p \in Packets : p = cpu[c]
  BY <1>1
<1>3. PICK q \in Packets :
        /\ cpu' = [cpu EXCEPT ![c] = q]
        /\ q.pc \in {"write", "drop"}
        /\ q.flow = p.flow /\ q.from = p.from /\ q.during = p.during
  <2>1. CASE ReadCounter(c)
    <3> DEFINE n == IF p.flow \in DOMAIN blocked THEN blocked[p.flow] ELSE 0
    <3>1. n \in Nat
      BY DEF CountInv, CountersAreLowerBounds, DroppedType
    <3>2. cpu' = [cpu EXCEPT ![c] = [p EXCEPT !.pc = "write", !.got = n]]
      BY Zenon, <1>2, <2>1 DEF ReadCounter, VerdictInv, FirewallType
    <3> HIDE DEF n
    <3> DEFINE q == [p EXCEPT !.pc = "write", !.got = n]
    <3>3. q \in Packets /\ q.pc = "write" /\ q.flow = p.flow /\ q.from = p.from /\ q.during = p.during
      BY Zenon, <3>1 DEF Packets
    <3>4. cpu' = [cpu EXCEPT ![c] = q]
      BY <3>2
    <3> HIDE DEF q
    <3>5. QED
      BY Zenon, <3>3, <3>4
  <2>2. CASE WriteCounter(c)
    <3>1. cpu' = [cpu EXCEPT ![c] = [p EXCEPT !.pc = "drop"]]
      BY <1>2, <2>2 DEF WriteCounter
    <3> DEFINE q == [p EXCEPT !.pc = "drop"]
    <3>2. q \in Packets /\ q.pc = "drop" /\ q.flow = p.flow /\ q.from = p.from /\ q.during = p.during
      BY DEF Packets
    <3>3. QED
      BY Zenon, <3>1, <3>2
  <2>3. QED
    BY <2>1, <2>2
<1>4. cpu'[c] = q
  BY <1>3 DEF VerdictInv, FirewallType
<1>5. Undisturbed(c)' /\ MetOne(c)'
  BY <1>1, <1>2, <1>3, <1>4 DEF VerdictInv, Undisturbed, MetOne, Resting, program, Drops
<1>6. QED
  BY Zenon, <1>1, <1>3, <1>5, PacketMoves

(* A packet leaves.                                                        *)
LEMMA LeaveVerdict ==
    ASSUME VerdictInv, NEW c \in Cpus, Leave(c)
    PROVE  VerdictInv'
<1>1. cpu'[c] = Idle
  BY DEF Leave, VerdictInv, FirewallType
<1>2. Undisturbed(c)' /\ MetOne(c)'
  BY <1>1 DEF Undisturbed, MetOne, Idle
<1>3. QED
  BY Zenon, <1>2, PacketMoves DEF Leave

(* A command that comes meets packets that no other did, or is at least    *)
(* their second.                                                           *)
LEMMA ReceiveVerdict ==
    ASSUME VerdictInv, Receive
    PROVE  VerdictInv'
<1>1. PICK k \in Commands :
        server' = [server EXCEPT !.pc = "clear", !.cmd = k] /\ cpu' = Overlap(k)
  BY Zenon, ReceivedCommand DEF Receive
<1>2. UNCHANGED maps /\ UNCHANGED policy /\ server.pc = "recv"
  BY DEF Receive
<1>3. /\ server'.pc = "clear" /\ server'.cmd = k
      /\ server' = [pc |-> server'.pc, cmd |-> server'.cmd, left |-> server'.left, list |-> server'.list]
  BY Zenon, <1>1 DEF VerdictInv, FirewallType
<1>4. FirewallType'
  <2>1. cpu' \in [Cpus -> {Idle} \cup Packets]
    <3>1. \A c \in Cpus : Overlap(k)[c] \in {Idle} \cup Packets
      BY Overlapped DEF VerdictInv, FirewallType
    <3>2. QED
      BY Zenon, <1>1, <3>1 DEF Overlap
  <2>2. QED
    BY <1>2, <1>3, <2>1 DEF VerdictInv, FirewallType, maps
<1>5. MapsMatch' /\ Progress'
  BY <1>3 DEF MapsMatch, Progress, Resting
<1>6. NoPortsYet'
  BY <1>2 DEF VerdictInv, NoPortsYet, maps
<1>7. ASSUME NEW c \in Cpus, cpu'[c].pc # "idle" PROVE Undisturbed(c)' /\ MetOne(c)'
  <2>1. cpu[c] \in Packets /\ cpu[c].pc # "idle"
    BY <1>1, <1>7, Overlapped DEF VerdictInv, FirewallType, Idle
  <2>2. /\ cpu'[c].pc = cpu[c].pc /\ cpu'[c].from = cpu[c].from
        /\ cpu'[c].during # <<>>
        /\ cpu'[c].during = Append(cpu[c].during, k)
        /\ Len(cpu'[c].during) = Len(cpu[c].during) + 1
    BY <1>1, <1>7, Overlapped DEF VerdictInv, FirewallType
  <2>3. Undisturbed(c)'
    BY <2>2 DEF Undisturbed
  <2>4. ASSUME ~cpu'[c].from.on, Len(cpu'[c].during) = 1 PROVE MetOne(c)'
    <3>1. cpu[c].during \in Seq(Commands) /\ Len(cpu[c].during) = 0
      BY <2>1, <2>2, <2>4 DEF Packets
    <3>2. cpu[c].during = <<>>
      BY <3>1
    <3>3. cpu'[c].during[1] = k
      BY <2>2, <3>2
    <3>4. cpu[c].from = policy /\ cpu[c].pc \in {"mark", "pass"}
      BY <2>1, <2>2, <2>4, <3>2 DEF VerdictInv, Undisturbed, Drops, Packets
    <3>5. QED
      BY <1>2, <1>3, <2>2, <3>3, <3>4 DEF MetOne, Resting
  <2>5. QED
    BY <2>3, <2>4 DEF MetOne
<1>8. \A c \in Cpus : Undisturbed(c)' /\ MetOne(c)'
  BY <1>7 DEF Undisturbed, MetOne
<1>9. QED
  BY <1>4, <1>5, <1>6, <1>8 DEF VerdictInv

(* Clearing and inserting change no packet: what they must show is that    *)
(* the maps are as they should be, and that those that looked stay right.  *)
LEMMA ServerMoves ==
    ASSUME VerdictInv, ~Resting, UNCHANGED cpu, FirewallType', NoPortsYet',
           MapsMatch', Progress',
           \/ ~Resting' /\ policy' = policy /\ server'.cmd = server.cmd
           \/ Resting' /\ policy' = server.cmd,
           server.pc = "insert_ports" => Resting' \/ server'.pc = "insert_ports"
    PROVE  VerdictInv'
<1>1. ASSUME NEW c \in Cpus PROVE Undisturbed(c)' /\ MetOne(c)'
  BY DEF VerdictInv, Undisturbed, MetOne
<1>2. QED
  BY <1>1 DEF VerdictInv
(* The maps of a former policy are cleared.                                *)
LEMMA ClearVerdict ==
    ASSUME VerdictInv, ClearIps \/ ClearPorts
    PROVE  VerdictInv'
<1>1. /\ UNCHANGED <<cpu, policy>> /\ ~Resting /\ ~Resting' /\ server'.cmd = server.cmd
      /\ server.pc # "insert_ports" /\ server'.pc # "insert_ports"
  BY DEF ClearIps, ClearPorts, Goto, world, Resting, VerdictInv, FirewallType
<1>2. whitelist' \subseteq whitelist /\ whitelist_ports' \subseteq whitelist_ports
  BY DEF ClearIps, ClearPorts
<1>3. FirewallType'
  BY <1>1, <1>2 DEF ClearIps, ClearPorts, Goto, VerdictInv, FirewallType
<1>4. NoPortsYet' /\ MapsMatch'
  BY <1>1, <1>2 DEF NoPortsYet, MapsMatch, VerdictInv
<1>5. Progress'
  <2>1. CASE ClearIps
    BY <2>1 DEF ClearIps, Goto, VerdictInv, FirewallType, Progress
  <2>2. CASE ClearPorts
    <3>1. whitelist = {} /\ whitelist' = {}
      BY <2>2 DEF ClearPorts, VerdictInv, Progress
    <3>2. server.cmd.on \in BOOLEAN
      BY CommandFields DEF VerdictInv, FirewallType
    <3>3. QED
      BY <2>2, <3>1, <3>2 DEF ClearPorts, Goto, VerdictInv, FirewallType, Progress
  <2>3. QED
    BY <2>1, <2>2
<1>6. QED
  BY <1>1, <1>3, <1>4, <1>5, ServerMoves

(* The allowed addresses are being inserted.                               *)
LEMMA InsertIpsVerdict ==
    ASSUME VerdictInv, InsertIps
    PROVE  VerdictInv'
<1>1. /\ UNCHANGED <<cpu, policy, whitelist_ports>> /\ ~Resting /\ ~Resting'
      /\ server'.cmd = server.cmd /\ server.pc = "insert" /\ server'.pc \in {"insert", "insert_ports"}
  BY DEF InsertIps, Goto, world, Resting, VerdictInv, FirewallType
<1>2. server.cmd.ips \subseteq Ips \cup DefaultIps
  BY <1>1, CommandFields DEF VerdictInv, FirewallType, Progress
<1>3. FirewallType'
  BY <1>1, <1>2 DEF InsertIps, Goto, VerdictInv, FirewallType
<1>4. NoPortsYet' /\ MapsMatch'
  BY <1>1 DEF NoPortsYet, MapsMatch, Progress, VerdictInv
<1>5. Progress'
  BY Zenon, <1>1 DEF InsertIps, Goto, VerdictInv, FirewallType, Progress
<1>6. QED
  BY <1>1, <1>3, <1>4, <1>5, ServerMoves

(* The allowed ports are being inserted.                                   *)
LEMMA InsertPortsVerdict ==
    ASSUME VerdictInv, InsertPorts
    PROVE  VerdictInv'
<1>1. UNCHANGED <<cpu, whitelist>> /\ ~Resting /\ server.pc = "insert_ports"
  BY DEF InsertPorts, Resting
<1>2. /\ server.cmd.on /\ server.cmd.ports \subseteq Ports
      /\ whitelist = server.cmd.ips /\ whitelist_ports \subseteq server.cmd.ports
  BY <1>1, CommandFields DEF VerdictInv, FirewallType, Progress
<1>3. CASE UNCHANGED <<server, policy>> /\ \E p \in server.cmd.ports : whitelist_ports' = whitelist_ports \cup {p}
  <2>1. FirewallType' /\ NoPortsYet' /\ MapsMatch' /\ Progress'
    BY <1>1, <1>2, <1>3 DEF VerdictInv, FirewallType, NoPortsYet, MapsMatch, Progress, Resting
  <2>2. QED
    BY <1>1, <1>3, <2>1, ServerMoves DEF Resting
<1>4. CASE server.cmd.ports \subseteq whitelist_ports /\ Complete /\ UNCHANGED whitelist_ports
  <2>1. Resting' /\ policy' = server.cmd /\ whitelist_ports' = server.cmd.ports /\ server' = Receiving
    BY <1>2, <1>4 DEF Complete, Receiving, Resting
  <2>2. FirewallType'
    BY Zenon, <1>1, <1>4, <2>1 DEF VerdictInv, FirewallType, Receiving, Commands
  <2>3. NoPortsYet' /\ MapsMatch' /\ Progress'
    BY <1>1, <1>2, <2>1 DEF NoPortsYet, MapsMatch, Progress, Receiving
  <2>4. QED
    BY <1>1, <2>1, <2>2, <2>3, ServerMoves
<1>5. QED
  BY <1>3, <1>4 DEF InsertPorts

(* The mark is inserted: the firewall is off.                              *)
LEMMA InsertMarkVerdict ==
    ASSUME VerdictInv, InsertMark
    PROVE  VerdictInv'
<1>1. UNCHANGED cpu /\ ~Resting /\ server.pc = "insert_mark"
  BY DEF InsertMark, Resting
<1>2. ~server.cmd.on /\ whitelist' = {Mark} /\ whitelist_ports' = {}
  BY <1>1 DEF InsertMark, VerdictInv, Progress
<1>3. Resting' /\ policy' = server.cmd /\ server' = Receiving
  BY DEF InsertMark, Complete, Receiving, Resting
<1>4. FirewallType'
  BY Zenon, <1>1, <1>2, <1>3 DEF VerdictInv, FirewallType, Receiving, Commands
<1>5. NoPortsYet' /\ MapsMatch' /\ Progress'
  BY <1>2, <1>3 DEF NoPortsYet, MapsMatch, Progress, Receiving
<1>6. QED
  BY <1>1, <1>3, <1>4, <1>5, ServerMoves

(* Statistics are read while no command is under way, and change no map. *)
LEMMA StatsVerdict ==
    ASSUME VerdictInv, GetFirewallStats \/ ListKey \/ SendList
    PROVE  VerdictInv'
<1>1. UNCHANGED <<maps, cpu, policy>> /\ Resting /\ Resting'
  <2>1. CASE GetFirewallStats
    BY <2>1 DEF GetFirewallStats, world, Resting, VerdictInv, FirewallType
  <2>2. CASE ListKey
    BY Zenon, <2>2 DEF ListKey, world, Resting, VerdictInv, FirewallType
  <2>3. CASE SendList
    BY <2>3 DEF SendList, world, Resting, Receiving
  <2>4. QED
    BY <2>1, <2>2, <2>3
<1>2. FirewallType'
  <2>1. CASE SendList
    BY Zenon, <1>1, <2>1 DEF SendList, Receiving, VerdictInv, FirewallType, maps, Commands
  <2>2. CASE GetFirewallStats \/ ListKey
    BY Zenon, <1>1, <2>2 DEF GetFirewallStats, ListKey, VerdictInv, FirewallType, maps
  <2>3. QED
    BY <2>1, <2>2
<1>3. MapsMatch' /\ Progress' /\ NoPortsYet'
  BY <1>1 DEF VerdictInv, MapsMatch, Progress, NoPortsYet, Resting, maps
<1>4. ASSUME NEW c \in Cpus PROVE Undisturbed(c)' /\ MetOne(c)'
  BY <1>1 DEF VerdictInv, Undisturbed, MetOne, maps
<1>5. QED
  BY <1>2, <1>3, <1>4 DEF VerdictInv
-----------------------------------------------------------------------------
(* Counters *)

(* A step that writes no counter keeps the counts when the CPUs that are   *)
(* about to write were about to write the same.                            *)
LEMMA CountsStay ==
    ASSUME CountInv, UNCHANGED <<blocked, dropped>>,
           \A c \in Cpus : cpu'[c].pc = "write" =>
               /\ cpu[c].pc = "write"
               /\ cpu'[c].flow = cpu[c].flow /\ cpu'[c].got = cpu[c].got
    PROVE  CountInv'
BY DEF CountInv, DroppedType, CountersAreLowerBounds, ReadIsBound, DroppedOf

(* Steps of a packet other than those on a counter.                        *)
LEMMA PacketCounts ==
    ASSUME FirewallType, CountInv, NEW c \in Cpus,
           Arrive(c) \/ LookMark(c) \/ LookPort(c) \/ LookSrc(c) \/ Leave(c)
    PROVE  CountInv'
<1>1. UNCHANGED <<blocked, dropped>>
  BY DEF Arrive, LookMark, LookPort, LookSrc, Leave, Step
<1>2. cpu'[c].pc # "write" /\ \A d \in Cpus \ {c} : cpu'[d] = cpu[d]
  <2>1. CASE Arrive(c)
    BY <2>1 DEF Arrive, FirewallType
  <2>2. CASE Leave(c)
    BY <2>2 DEF Leave, FirewallType, Idle
  <2>3. CASE LookMark(c) \/ LookPort(c) \/ LookSrc(c)
    <3>1. PICK from \in {"mark", "sport", "dport", "src"},
               to \in {"sport", "dport", "src", "count", "pass"} : Step(c, from, to)
      BY <2>3, Zenon DEF LookMark, LookPort, LookSrc
    <3>2. cpu[c] \in Packets
      BY <3>1 DEF Step, FirewallType, Idle
    <3>3. QED
      BY <3>1, <3>2 DEF Step, FirewallType, Packets
  <2>4. QED
    BY <2>1, <2>2, <2>3
<1>3. QED
  BY <1>1, <1>2, CountsStay

(* A counter is read.                                                      *)
LEMMA ReadCounts ==
    ASSUME FirewallType, CountInv, NEW c \in Cpus, ReadCounter(c)
    PROVE  CountInv'
<1>1. UNCHANGED <<blocked, dropped>> /\ cpu[c] \in Packets
  BY DEF ReadCounter, FirewallType, Idle
<1>2. PICK p \in Packets : p = cpu[c]
  BY <1>1
<1> DEFINE n == IF p.flow \in DOMAIN blocked THEN blocked[p.flow] ELSE 0
<1>3. cpu' = [cpu EXCEPT ![c] = [p EXCEPT !.pc = "write", !.got = n]]
  BY Zenon, <1>2 DEF ReadCounter, FirewallType
<1>4. n <= DroppedOf(p.flow)
  BY DEF CountInv, CountersAreLowerBounds, DroppedType, DroppedOf
<1> HIDE DEF n
<1>5. cpu'[c].flow = p.flow /\ cpu'[c].got = n /\ \A d \in Cpus \ {c} : cpu'[d] = cpu[d]
  BY <1>3 DEF FirewallType, Packets
<1>6. QED
  BY <1>1, <1>4, <1>5 DEF CountInv, DroppedType, CountersAreLowerBounds, ReadIsBound, DroppedOf

(* A counter is written, one above what was read.                          *)
LEMMA WriteCounts ==
    ASSUME FirewallType, CountInv, NEW c \in Cpus, WriteCounter(c)
    PROVE  CountInv'
<1>1. cpu[c] \in Packets /\ cpu[c].pc = "write"
  BY DEF WriteCounter, FirewallType, Idle
<1>2. PICK f : f = cpu[c].flow
  OBVIOUS
<1>3. PICK n : n = cpu[c].got
  OBVIOUS
<1>4. n \in Nat /\ n <= DroppedOf(f) /\ DroppedOf(f) \in Nat
  BY <1>1, <1>2, <1>3 DEF CountInv, ReadIsBound, Packets, DroppedType, DroppedOf
<1>5. blocked' = Set(blocked, f, n + 1) /\ dropped' = Set(dropped, f, DroppedOf(f) + 1)
  BY <1>2, <1>3 DEF WriteCounter, DroppedOf
<1>6. /\ DOMAIN blocked' = DOMAIN blocked \cup {f} /\ DOMAIN dropped' = DOMAIN dropped \cup {f}
      /\ blocked'[f] = n + 1 /\ dropped'[f] = DroppedOf(f) + 1
      /\ \A g \in DOMAIN blocked \ {f} : blocked'[g] = blocked[g]
      /\ \A g \in DOMAIN dropped \ {f} : dropped'[g] = dropped[g]
  BY <1>5 DEF Set
<1>7. DroppedType'
  BY <1>4, <1>6 DEF CountInv, DroppedType
<1>8. CountersAreLowerBounds'
  BY <1>4, <1>6 DEF CountInv, CountersAreLowerBounds
<1>9. ASSUME NEW d \in Cpus PROVE ReadIsBound(d)'
  <2>1. CASE d = c
    BY <1>1, <2>1 DEF WriteCounter, FirewallType, ReadIsBound, Packets
  <2>2. CASE d # c
    <3>1. cpu'[d] = cpu[d]
      BY <2>2 DEF WriteCounter, FirewallType
    <3>2. PICK g : g = cpu[d].flow
      OBVIOUS
    <3>3. DroppedOf(g) \in Nat /\ DroppedOf(g)' \in Nat /\ DroppedOf(g) <= DroppedOf(g)'
      BY <1>4, <1>6 DEF DroppedOf, CountInv, DroppedType
    <3>4. cpu[d].pc = "write" => cpu[d].got \in Nat
      BY DEF FirewallType, Idle, Packets
    <3>5. DroppedOf(cpu[d].flow)' = DroppedOf(g)'
      BY <3>1, <3>2 DEF DroppedOf
    <3>6. QED
      BY <3>1, <3>2, <3>3, <3>4, <3>5 DEF CountInv, ReadIsBound
  <2>3. QED
    BY <2>1, <2>2
<1>10. QED
  BY <1>7, <1>8, <1>9 DEF CountInv

(* The server's steps leave the counters alone.                            *)
LEMMA ServerCounts ==
    ASSUME FirewallType, CountInv,
           \/ Receive \/ ClearIps \/ ClearPorts \/ InsertIps \/ InsertPorts \/ InsertMark
           \/ GetFirewallStats \/ ListKey \/ SendList
    PROVE  CountInv'
<1>1. CASE Receive
  <2>1. PICK k \in Commands : cpu' = Overlap(k)
    BY Zenon, <1>1, ReceivedCommand DEF Receive
  <2>2. ASSUME NEW c \in Cpus, cpu'[c].pc = "write"
        PROVE  cpu[c].pc = "write" /\ cpu'[c].flow = cpu[c].flow /\ cpu'[c].got = cpu[c].got
    BY SMTT(30), <2>1, <2>2, Overlapped DEF FirewallType
  <2>3. UNCHANGED <<blocked, dropped>>
    BY Zenon, <1>1 DEF Receive
  <2>4. QED
    BY SMTT(30), <2>2, <2>3, CountsStay
<1>2. CASE ~Receive
  <2>1. UNCHANGED <<blocked, dropped, cpu>>
    BY Zenon, <1>2 DEF ClearIps, ClearPorts, InsertIps, InsertPorts, InsertMark,
                GetFirewallStats, ListKey, SendList, world
  <2>2. QED
    BY SMTT(30), <2>1, CountsStay
<1>3. QED
  BY <1>1, <1>2
-----------------------------------------------------------------------------
(* The walk over the counters *)

(* Counters are never removed. *)
LEMMA CountersStay ==
    ASSUME Next
    PROVE  DOMAIN blocked \subseteq DOMAIN blocked'
<1>1. CASE \E c \in Cpus : WriteCounter(c)
  BY <1>1 DEF WriteCounter, Set
<1>2. CASE \E c \in Cpus : Arrive(c) \/ LookMark(c) \/ LookPort(c) \/ LookSrc(c) \/ ReadCounter(c) \/ Leave(c)
  BY <1>2 DEF Arrive, LookMark, LookPort, LookSrc, Step, ReadCounter, Leave
<1>3. CASE \/ Receive \/ ClearIps \/ ClearPorts \/ InsertIps \/ InsertPorts \/ InsertMark
           \/ GetFirewallStats \/ ListKey \/ SendList
  <2>1. UNCHANGED blocked
    BY <1>3, Zenon DEF Receive, ClearIps, ClearPorts, InsertIps, InsertPorts, InsertMark,
                GetFirewallStats, ListKey, SendList, world
  <2>2. QED
    BY <2>1
<1>4. QED
  BY <1>1, <1>2, <1>3 DEF Next

(* The server's list begins empty and grows by what it meets. *)
LEMMA WalkStep ==
    ASSUME FirewallType, WalkInv, Next
    PROVE  WalkInv' /\ (stats' # stats => DOMAIN stats \subseteq DOMAIN stats')
<1>1. Named \subseteq Named'
  BY CountersStay DEF Named
<1>2. CASE GetFirewallStats
  <2>1. /\ server'.pc = "list" /\ server'.left = DOMAIN blocked /\ server'.list = server.list
        /\ UNCHANGED stats
    BY <1>2 DEF GetFirewallStats, FirewallType
  <2>2. QED
    BY <1>1, <2>1 DEF WalkInv, NamedStats, WalkGoesOn, Named
<1>3. CASE ListKey
  <2>1. PICK f \in DOMAIN blocked :
          /\ server'.pc = "list" /\ server'.left = server.left \ {f}
          /\ server'.list = Set(server.list, StatsItem(f), blocked[f])
          /\ server.pc = "list" /\ UNCHANGED stats
    BY <1>3 DEF ListKey, FirewallType
  <2>2. DOMAIN server'.list = DOMAIN server.list \cup {StatsItem(f)}
    BY <2>1 DEF Set
  <2>3. StatsItem(f) \in Named
    BY DEF Named
  <2>4. QED
    BY <1>1, <2>1, <2>2, <2>3 DEF WalkInv, NamedStats, WalkGoesOn
<1>4. CASE SendList
  <2>1. /\ server.pc = "list" /\ server.left = {} /\ stats' = server.list
        /\ server'.pc = "recv" /\ DOMAIN server'.list = {}
    BY <1>4 DEF SendList, Receiving, NoCounts
  <2>2. QED
    BY <1>1, <2>1 DEF WalkInv, NamedStats, WalkGoesOn
<1>5. CASE ~(GetFirewallStats \/ ListKey \/ SendList)
  <2>1. /\ UNCHANGED stats
        /\ \/ server' = server
           \/ server'.pc # "list" /\ server'.list = server.list
           \/ server'.pc # "list" /\ DOMAIN server'.list = {}
    <3>1. CASE \E c \in Cpus : \/ Arrive(c) \/ LookMark(c) \/ LookPort(c) \/ LookSrc(c)
                               \/ ReadCounter(c) \/ WriteCounter(c) \/ Leave(c)
      BY <3>1 DEF Arrive, LookMark, LookPort, LookSrc, Step, ReadCounter, WriteCounter, Leave, program
    <3>2. CASE Receive
      BY <3>2 DEF Receive, FirewallType
    <3>3. CASE ClearIps \/ ClearPorts \/ InsertIps
      BY <3>3 DEF ClearIps, ClearPorts, InsertIps, Goto, FirewallType
    <3>4. CASE InsertPorts \/ InsertMark
      BY <3>4 DEF InsertPorts, InsertMark, Complete, Receiving, NoCounts
    <3>5. QED
      BY <1>5, <3>1, <3>2, <3>3, <3>4 DEF Next
  <2>2. QED
    BY <1>1, <2>1 DEF WalkInv, NamedStats, WalkGoesOn
<1>6. QED
  BY <1>2, <1>3, <1>4, <1>5

-----------------------------------------------------------------------------
(* The theorems *)

IInv == VerdictInv /\ CountInv /\ WalkInv

(* The maps are empty and nothing is under way at the start.               *)
LEMMA InitInv == Init => IInv
<1> SUFFICES ASSUME Init PROVE IInv
  OBVIOUS
<1>1. FirewallType
  BY DEF Init, FirewallType, Receiving, Commands
<1>2. MapsMatch /\ Progress /\ NoPortsYet
  BY DEF Init, MapsMatch, Progress, NoPortsYet, Receiving, Off
<1>3. \A c \in Cpus : Undisturbed(c) /\ MetOne(c) /\ ReadIsBound(c)
  BY DEF Init, Idle, Undisturbed, MetOne, ReadIsBound
<1>4. DroppedType /\ CountersAreLowerBounds
  BY DEF Init, NoCounts, DroppedType, CountersAreLowerBounds
<1>5. WalkInv
  BY DEF Init, NoCounts, Receiving, WalkInv, NamedStats, WalkGoesOn
<1>6. QED
  BY <1>1, <1>2, <1>3, <1>4, <1>5 DEF IInv, VerdictInv, CountInv

(* Every step keeps the inductive invariant.                               *)
LEMMA NextInv == IInv /\ [Next]_vars => IInv'
<1> SUFFICES ASSUME IInv, [Next]_vars PROVE IInv'
  OBVIOUS
<1> USE DEF IInv
<1>1. CASE Next
  <2>1. WalkInv'
    BY <1>1, WalkStep DEF VerdictInv
  <2>2. VerdictInv'
    BY <1>1, ArriveVerdict, LookMarkVerdict, LookPortVerdict, LookSrcVerdict, CounterVerdict,
       LeaveVerdict, ReceiveVerdict, ClearVerdict, InsertIpsVerdict, InsertPortsVerdict,
       InsertMarkVerdict, StatsVerdict DEF Next
  <2>3. CountInv'
    BY <1>1, PacketCounts, ReadCounts, WriteCounts, ServerCounts DEF Next, VerdictInv
  <2>4. QED
    BY <2>1, <2>2, <2>3
<1>2. CASE UNCHANGED vars
  <2>1. VerdictInv'
    BY <1>2 DEF vars, maps, VerdictInv, FirewallType, MapsMatch, Progress, NoPortsYet, Resting,
                Undisturbed, MetOne, Drops
  <2>2. CountInv'
    BY <1>2, CountsStay DEF vars
  <2>3. WalkInv'
    BY <1>2 DEF vars, WalkInv, NamedStats, WalkGoesOn, Named
  <2>4. QED
    BY SMTT(30), <2>1, <2>2, <2>3
<1>3. QED
  BY <1>1, <1>2

(* The inductive invariant always holds.                                   *)
LEMMA FirewallInv == Spec => []IInv
BY InitInv, NextInv, PTL DEF Spec

(* A packet that no command overlapped is judged by the last command,      *)
(* whatever earlier commands did to the maps and however many CPUs filter. *)
THEOREM FirewallStableVerdict == Spec => []StableVerdict
<1>1. IInv => StableVerdict
  BY DEF IInv, VerdictInv, Undisturbed, StableVerdict, Decided, Drops
<1>2. QED
  BY <1>1, FirewallInv, PTL

(* Enabling the whitelist drops no packet of an address it lists.          *)
THEOREM FirewallTurningOnIsSmooth == Spec => []TurningOnIsSmooth
<1>1. IInv => TurningOnIsSmooth
  BY DEF IInv, VerdictInv, MetOne, TurningOnIsSmooth
<1>2. QED
  BY <1>1, FirewallInv, PTL

(* Racing CPUs may lose counts and never invent one, and every flow of     *)
(* which a packet was dropped has a counter.                               *)
THEOREM FirewallCountersAreLowerBounds == Spec => []CountersAreLowerBounds
<1>1. IInv => CountersAreLowerBounds
  BY DEF IInv, CountInv
<1>2. QED
  BY <1>1, FirewallInv, PTL

(* Later statistics name every flow that earlier ones named.               *)
THEOREM FirewallWalkIsComplete == Spec => WalkIsComplete
<1>1. IInv /\ [Next]_vars => [stats' # stats => \A f \in DOMAIN stats : f \in DOMAIN stats']_vars
  BY WalkStep DEF IInv, VerdictInv, vars
<1>2. QED
  BY <1>1, FirewallInv, PTL DEF Spec, WalkIsComplete
=============================================================================
