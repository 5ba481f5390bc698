------------------------------ MODULE Firewall ------------------------------
(***************************************************************************)
(* The packet filter: disable_connections, the XDP program of              *)
(* bpf-recorder/src/main.rs that runs on every CPU, against the            *)
(* ApplicationServer of mina-recorder/src/application.rs, which rewrites   *)
(* the maps the program looks into one key at a time, and reads the        *)
(* statistics one key at a time while the program updates them.            *)
(***************************************************************************)
EXTENDS Integers, FiniteSets, Sequences

CONSTANTS
    Mark,           \* the key [0; 16]: "whitelist is disabled"
    Ips,            \* source addresses, of packets and of policies
    Dsts, V6,       \* destination addresses, and those that are not IPv4
    Ports,          \* ports a policy may list
    Ephemeral,      \* the port at the other end of a flow
    DefaultIps,     \* FIREWALL_DEFAULT_WHITELIST, in Ips or not
    Cpus,
    MaxCommands,    \* bound of the model: commands received
    MaxPackets      \* bound of the model: packets received

(* The mark is the unspecified address: no peer has it, and the models do  *)
(* not let a policy list it.                                               *)
ASSUME MarkAssumption == Mark \notin Ips \cup DefaultIps

VARIABLES
    whitelist, whitelist_ports,
    blocked,        \* the map of counters: flow -> packets
    server,         \* the ApplicationServer: [pc, cmd, left, list]
    stats,          \* the last statistics it sent
    policy,         \* history: the last Enable or Disable that was completed
    commands,       \* history: how many commands were received
    cpu,            \* the packet of every CPU and how far it is
    packets,        \* history: how many packets were received
    dropped         \* history: flow -> packets dropped

maps == <<whitelist, whitelist_ports>>
vars == <<maps, blocked, server, stats, policy, commands, cpu, packets, dropped>>

Off == [on |-> FALSE, ips |-> {}, ports |-> {}]
Policies == {Off} \cup [on : {TRUE}, ips : SUBSET Ips, ports : SUBSET Ports]
Flows ==
    {f \in [src : Ips, sport : Ports \cup {Ephemeral}, dst : Dsts, dport : Ports \cup {Ephemeral}] :
        (f.sport = Ephemeral) # (f.dport = Ephemeral)}
NoCounts == [f \in {} |-> 0]
Idle == [pc |-> "idle"]
Receiving == [pc |-> "recv", cmd |-> Off, left |-> {}, list |-> NoCounts]

Set(counts, f, n) == [g \in DOMAIN counts \cup {f} |-> IF g = f THEN n ELSE counts[g]]

Init ==
    /\ whitelist = {Mark}           \* put there before the program is attached
    /\ whitelist_ports = {}
    /\ blocked = NoCounts
    /\ server = Receiving
    /\ stats = NoCounts
    /\ policy = Off
    /\ commands = 0
    /\ cpu = [c \in Cpus |-> Idle]
    /\ packets = 0
    /\ dropped = NoCounts

-----------------------------------------------------------------------------
(* The XDP program.  A packet is a TCP segment of a flow; every other       *)
(* packet is passed on or aborted with no look at a map but the first.      *)
(* Each lookup is a step.  The fields from and during are history: the      *)
(* policy in force when the packet came, and the commands that were being   *)
(* carried out, or came, since.                                             *)

program == <<maps, server, stats, policy, commands>>

Arrive(c) ==
    /\ cpu[c].pc = "idle" /\ packets < MaxPackets
    /\ \E f \in Flows :
          cpu' = [cpu EXCEPT ![c] =
                    [pc |-> "mark", flow |-> f, got |-> 0, from |-> policy,
                     during |-> IF server.pc \in {"recv", "list"} THEN <<>> ELSE <<server.cmd>>]]
    /\ packets' = packets + 1
    /\ UNCHANGED <<program, blocked, dropped>>

Step(c, from, to) ==
    /\ cpu[c].pc = from
    /\ cpu' = [cpu EXCEPT ![c].pc = to]
    /\ UNCHANGED <<program, blocked, packets, dropped>>

LookMark(c) == Step(c, "mark", IF Mark \in whitelist THEN "pass" ELSE "sport")

LookPort(c) ==
    \/ Step(c, "sport", IF cpu[c].flow.sport \in whitelist_ports THEN "src" ELSE "dport")
    \/ Step(c, "dport", IF cpu[c].flow.dport \in whitelist_ports THEN "src" ELSE "pass")

LookSrc(c) == Step(c, "src", IF cpu[c].flow.src \in whitelist THEN "pass" ELSE "count")

(* Mutant: a missing counter is inserted as one and then incremented. *)
ReadCounterFromOne(c) ==
    /\ cpu[c].pc = "count"
    /\ LET f == cpu[c].flow
       IN  cpu' = [cpu EXCEPT ![c].pc = "write",
                              ![c].got = IF f \in DOMAIN blocked THEN blocked[f] ELSE 1]
    /\ UNCHANGED <<program, blocked, packets, dropped>>

(* The counter is looked up and read, and then written or inserted: other   *)
(* CPUs may come between the two.                                           *)
ReadCounter(c) ==
    /\ cpu[c].pc = "count"
    /\ LET f == cpu[c].flow
       IN  cpu' = [cpu EXCEPT ![c].pc = "write",
                              ![c].got = IF f \in DOMAIN blocked THEN blocked[f] ELSE 0]
    /\ UNCHANGED <<program, blocked, packets, dropped>>

WriteCounter(c) ==
    /\ cpu[c].pc = "write"
    /\ LET f == cpu[c].flow
       IN  /\ blocked' = Set(blocked, f, cpu[c].got + 1)
           /\ dropped' = Set(dropped, f, IF f \in DOMAIN dropped THEN dropped[f] + 1 ELSE 1)
    /\ cpu' = [cpu EXCEPT ![c].pc = "drop"]
    /\ UNCHANGED <<program, packets>>

Leave(c) ==
    /\ cpu[c].pc \in {"pass", "drop"}
    /\ cpu' = [cpu EXCEPT ![c] = Idle]
    /\ UNCHANGED <<program, blocked, packets, dropped>>

-----------------------------------------------------------------------------
(* ApplicationServer::run *)

world == <<blocked, policy, cpu, packets, dropped>>

Goto(pc) == server' = [server EXCEPT !.pc = pc]

Overlap(cmd) ==
    [c \in Cpus |-> IF cpu[c].pc = "idle" THEN Idle
                    ELSE [cpu[c] EXCEPT !.during = Append(@, cmd)]]

(* EnableWhitelist, with the default addresses pushed, or DisableWhitelist. *)
Receive ==
    /\ server.pc = "recv" /\ commands < MaxCommands
    /\ \E p \in Policies :
          LET cmd == IF p.on THEN [p EXCEPT !.ips = @ \cup DefaultIps] ELSE p
          IN  /\ server' = [server EXCEPT !.pc = "clear", !.cmd = cmd]
              /\ cpu' = Overlap(cmd)
    /\ commands' = commands + 1
    /\ UNCHANGED <<maps, blocked, stats, policy, packets, dropped>>

(* clear_whitelist: get_next_key and remove, until the map is empty; the    *)
(* mark is a key like the others.  (Enable removes it once more.)           *)
ClearIps ==
    /\ server.pc = "clear"
    /\ \/ \E k \in whitelist : whitelist' = whitelist \ {k} /\ UNCHANGED server
       \/ whitelist = {} /\ Goto("clear_ports") /\ UNCHANGED whitelist
    /\ UNCHANGED <<whitelist_ports, stats, commands, world>>

(* Mutant: only the addresses are cleared. *)
ClearPortsKeeps ==
    /\ server.pc = "clear_ports"
    /\ Goto(IF server.cmd.on THEN "insert" ELSE "insert_mark")
    /\ UNCHANGED <<maps, stats, commands, world>>

ClearPorts ==
    /\ server.pc = "clear_ports"
    /\ \/ \E k \in whitelist_ports : whitelist_ports' = whitelist_ports \ {k} /\ UNCHANGED server
       \/ /\ whitelist_ports = {} /\ UNCHANGED whitelist_ports
          /\ Goto(IF server.cmd.on THEN "insert" ELSE "insert_mark")
    /\ UNCHANGED <<whitelist, stats, commands, world>>

(* Mutant: one loop inserts addresses and ports together. *)
InsertIpsAndPorts ==
    /\ server.pc = "insert"
    /\ \/ \E ip \in server.cmd.ips \ whitelist :
             whitelist' = whitelist \cup {ip} /\ UNCHANGED <<server, whitelist_ports>>
       \/ \E p \in server.cmd.ports \ whitelist_ports :
             whitelist_ports' = whitelist_ports \cup {p} /\ UNCHANGED <<server, whitelist>>
       \/ server.cmd.ips \subseteq whitelist /\ Goto("insert_ports") /\ UNCHANGED maps
    /\ UNCHANGED <<stats, commands, world>>

InsertIps ==
    /\ server.pc = "insert"
    /\ \/ \E ip \in server.cmd.ips \ whitelist : whitelist' = whitelist \cup {ip} /\ UNCHANGED server
       \/ server.cmd.ips \subseteq whitelist /\ Goto("insert_ports") /\ UNCHANGED whitelist
    /\ UNCHANGED <<whitelist_ports, stats, commands, world>>

Complete == server' = Receiving /\ policy' = server.cmd

InsertPorts ==
    /\ server.pc = "insert_ports"
    /\ \/ \E p \in server.cmd.ports \ whitelist_ports :
             whitelist_ports' = whitelist_ports \cup {p} /\ UNCHANGED <<server, policy>>
       \/ server.cmd.ports \subseteq whitelist_ports /\ Complete /\ UNCHANGED whitelist_ports
    /\ UNCHANGED <<whitelist, stats, commands, blocked, cpu, packets, dropped>>

InsertMark ==
    /\ server.pc = "insert_mark"
    /\ whitelist' = whitelist \cup {Mark}
    /\ Complete
    /\ UNCHANGED <<whitelist_ports, stats, commands, blocked, cpu, packets, dropped>>

(* GetFirewallStats: list walks over the keys.  Keys that were there when   *)
(* the walk began are all met (left), later ones may be.                    *)
GetFirewallStats ==
    /\ server.pc = "recv" /\ commands < MaxCommands
    /\ server' = [server EXCEPT !.pc = "list", !.left = DOMAIN blocked]
    /\ commands' = commands + 1
    /\ UNCHANGED <<maps, stats, world>>

(* The key of the list: a destination that is not IPv4 becomes the source.  *)
StatsItem(f) == IF f.dst \in V6 THEN [f EXCEPT !.dst = f.src] ELSE f

ListKey ==
    /\ server.pc = "list"
    /\ \E f \in DOMAIN blocked :
          server' = [server EXCEPT !.left = @ \ {f}, !.list = Set(@, StatsItem(f), blocked[f])]
    /\ UNCHANGED <<maps, stats, commands, world>>

(* Mutant: the walk ends one key early. *)
SendListEarly ==
    /\ server.pc = "list" /\ Cardinality(server.left) <= 1
    /\ stats' = server.list
    /\ server' = Receiving
    /\ UNCHANGED <<maps, commands, world>>

SendList ==
    /\ server.pc = "list" /\ server.left = {}
    /\ stats' = server.list
    /\ server' = Receiving
    /\ UNCHANGED <<maps, commands, world>>

Next ==
    \/ \E c \in Cpus : \/ Arrive(c) \/ LookMark(c) \/ LookPort(c) \/ LookSrc(c)
                       \/ ReadCounter(c) \/ WriteCounter(c) \/ Leave(c)
    \/ Receive \/ ClearIps \/ ClearPorts \/ InsertIps \/ InsertPorts \/ InsertMark
    \/ GetFirewallStats \/ ListKey \/ SendList

Spec == Init /\ [][Next]_vars

-----------------------------------------------------------------------------
(* Properties *)

(* What a policy says of a flow: main.rs:56, "the whitelist is only applied *)
(* to TCP packets whose src or dst port is listed in `whitelist_ports`".    *)
Drops(p, f) == p.on /\ {f.sport, f.dport} \cap p.ports # {} /\ f.src \notin p.ips
Decided(c) == cpu[c].pc \in {"pass", "drop"}

(* A packet that no command overlapped is judged by the last command and by *)
(* nothing an earlier one left in the maps.                                 *)
StableVerdict ==
    \A c \in Cpus : Decided(c) /\ cpu[c].during = <<>> =>
        (cpu[c].pc = "drop") = Drops(cpu[c].from, cpu[c].flow)

(* Turning the filter on drops no packet of a listed address, at whatever   *)
(* step of the command it comes: the addresses are in before the ports.     *)
TurningOnIsSmooth ==
    \A c \in Cpus : cpu[c].pc = "drop" /\ ~cpu[c].from.on /\ Len(cpu[c].during) = 1 =>
        cpu[c].flow.src \notin cpu[c].during[1].ips

(* However CPUs race for a counter, it never counts more than was dropped   *)
(* of the flow, and a flow of which something was dropped has one.          *)
CountersAreLowerBounds ==
    /\ DOMAIN dropped = DOMAIN blocked
    /\ \A f \in DOMAIN blocked : blocked[f] \in 1 .. dropped[f]

(* Statistics asked for later name every flow that earlier ones named: the  *)
(* walk misses no counter it can rely on, whatever is inserted meanwhile.   *)
WalkIsComplete ==
    [][stats' # stats => \A f \in DOMAIN stats : f \in DOMAIN stats']_vars
=============================================================================
