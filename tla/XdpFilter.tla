----------------------------- MODULE XdpFilter -----------------------------
(***************************************************************************)
(* The packet filter (xdp/xdp_ddos.bpf.c) on several CPUs, against the     *)
(* configuration map that the loader overwrites while packets are judged.  *)
(*                                                                         *)
(* The kernel copies a new value into the array map in place.  A reader    *)
(* can see any mixture of the words of the value before and of the value   *)
(* behind: the words still in left are the old ones.  A packet is judged   *)
(* in up to four steps, one for each place where the program loads fields  *)
(* of the configuration.                                                   *)
(*                                                                         *)
(* The prefix and port maps are constant here: the controller changes them *)
(* only while the lease is expired (ControlPlane).  Packet counters are    *)
(* left out.                                                               *)
(***************************************************************************)
EXTENDS XdpParse, FiniteSets

CONSTANTS
  Cpus,
  Frames,            \* the frames that arrive
  Owned,             \* destinations in the owned map
  Ports,             \* policy flags of each port
  Allow,             \* sources in the allow map
  Block,             \* sources in the block map, manual or bogon
  Settings,          \* static settings of the controller's configurations
  Policies,          \* modes it publishes, with their SYN budgets
  Second,            \* clock ticks per second (10^9 in the code)
  MaxBurst,          \* 10^6 in the code
  Lease,             \* lease_seconds, in ticks
  MaxTime            \* bound on the clock

ASSUME FilterAssumption ==
  /\ IsFiniteSet(Cpus)
  /\ Frames \subseteq Frame
  /\ DOMAIN Ports = {f.port : f \in Frames}
  /\ \A p \in DOMAIN Ports : /\ Ports[p] \subseteq {"protect_tcp", "drop_tcp", "drop_udp"}
                             /\ ~({"protect_tcp", "drop_tcp"} \subseteq Ports[p])
  /\ Settings \subseteq [observe : BOOLEAN, ipv6 : BOOLEAN, fragments : BOOLEAN]
  /\ Policies \subseteq [mode : 0..3, budget : [rate : Nat, burst : Nat]]
  /\ \A p \in Policies : (p.budget.rate = 0) = (p.budget.burst = 0)
  /\ {Second, MaxBurst, Lease} \subseteq Nat \ {0}
  /\ MaxTime \in Nat \ {0}

\* The words of struct config, as the copy of an aligned value moves them.
Word == {"lease", "observe", "mode", "rate", "burst"}

Config ==
  [lease : Nat, abi : {0, 2}, observe : BOOLEAN, mode : 0..3, ipv6 : BOOLEAN,
   fragments : BOOLEAN, budget : [rate : Nat, burst : Nat]]

\* An array map starts as zeroes.
NoConfig ==
  [lease |-> 0, abi |-> 0, observe |-> FALSE, mode |-> 0, ipv6 |-> FALSE,
   fragments |-> FALSE, budget |-> [rate |-> 0, burst |-> 0]]

VARIABLES
  now,       \* bpf_ktime_get_ns()
  new,       \* the configuration of the latest update
  left,      \* the words of it that differ from before and are not copied yet
  old,       \* the configuration they still come from
  pkt,       \* the packet on each CPU
  bucket     \* syn_budget of each CPU

vars == <<now, old, new, left, pkt, bucket>>

From(w) == IF w \in left THEN old ELSE new

leaseNs == From("lease").lease
abi == From("observe").abi
observe == From("observe").observe
mode == From("mode").mode
ipv6 == From("mode").ipv6
dropFragments == From("rate").fragments
synRate == From("rate").budget.rate
synBurst == From("burst").budget.burst

Init ==
  /\ now = 1
  /\ old = NoConfig /\ new = NoConfig /\ left = {}
  /\ pkt = [c \in Cpus |-> [pc |-> "pass"]]
  /\ bucket = [c \in Cpus |-> [last |-> 0, credit |-> 0, rate |-> 0, burst |-> 0]]

-----------------------------------------------------------------------------
(* The configuration map *)

Setting(k) == [observe |-> k.observe, ipv6 |-> k.ipv6, fragments |-> k.fragments]

\* lease(seconds): prepare() and every command expire the lease before the
\* settings change, with the settings of before; a tick changes the mode and
\* the budget of a running lease.
Writable(k) ==
  /\ new.abi = 0 => k.lease = 0
  /\ Setting(k) = Setting(new) \/ new.lease = 0

Writes ==
  {k \in {[lease |-> l, abi |-> 2, observe |-> s.observe, mode |-> p.mode, ipv6 |-> s.ipv6,
           fragments |-> s.fragments, budget |-> p.budget] :
             l \in {0, now + Lease}, s \in Settings, p \in Policies} : Writable(k)}

WordOf(k, w) ==
  CASE w = "lease" -> <<k.lease>>
    [] w = "observe" -> <<k.abi, k.observe>>
    [] w = "mode" -> <<k.mode, k.ipv6>>
    [] w = "rate" -> <<k.fragments, k.budget.rate>>
    [] w = "burst" -> <<k.budget.burst>>

\* "config" of the loader.
Update(k) ==
  /\ left = {}
  /\ old' = new /\ new' = k
  /\ left' = {w \in Word : WordOf(new, w) # WordOf(k, w)}
  /\ UNCHANGED <<now, pkt, bucket>>

\* The kernel's copy of one aligned word into the map.
CopyWord(w) ==
  /\ w \in left
  /\ left' = left \ {w}
  /\ old' = IF left' = {} THEN new ELSE old
  /\ UNCHANGED <<now, new, pkt, bucket>>

-----------------------------------------------------------------------------
(* The program *)

\* A CPU keeps nothing of a packet but its verdict.
Done(c) == pkt[c].pc \in {"pass", "drop"}

Finish(c, verdict) == pkt' = [pkt EXCEPT ![c] = [pc |-> verdict]]

Goto(c, pc) == pkt' = [pkt EXCEPT ![c].pc = pc]

Families(f) == Type(f) = "ipv6" => ipv6

\* Mutant: a SYN-ACK counts as a new connection.
HasSyn(f) == "syn" \in f.flags

IsSyn(f) == f.flags \cap {"syn", "ack"} = {"syn"}

PortBlocked(f) ==
  \/ f.proto = "tcp" /\ "drop_tcp" \in Ports[f.port]
  \/ f.proto = "udp" /\ "drop_udp" \in Ports[f.port]

\* What headers and port decide, for a packet to an owned destination.
StructuralReason(f) ==
  IF ParseIp(f) # "parsed" THEN ParseIp(f)
  ELSE IF Fragment(f) THEN IF f.proto = "tcp" /\ dropFragments THEN "fragment" ELSE "none"
  ELSE IF ParseTransport(f) # "parsed" THEN ParseTransport(f)
  ELSE IF PortBlocked(f) THEN "blocked_port" ELSE "none"

Malformed == {"malformed_l2", "malformed_ipv4", "other"}

\* The packet is for an owned destination, and not left to the kernel.
JudgedHere(f) ==
  /\ ParseIp(f) \in Malformed => abi = 2 /\ KnowsDst(f)
  /\ ParseIp(f) = "parsed" => f.proto # "icmp"
  /\ ParseIp(f) # "delegated"
  /\ Families(f)
  /\ f.dst \in Owned

Protected(f) ==
  /\ ParseIp(f) = "parsed" /\ ~Fragment(f)
  /\ ParseTransport(f) = "parsed"
  /\ f.proto = "tcp" /\ "protect_tcp" \in Ports[f.port]

\* xddp() up to the lookup of the port policy.  A reason is left to Judge.
Receive(c, f) ==
  LET Await(pc) == pkt' = [pkt EXCEPT ![c] = [pc |-> pc, frame |-> f, at |-> now]] IN
  /\ Done(c)
  /\ IF ~JudgedHere(f) THEN Finish(c, "pass")
     ELSE IF StructuralReason(f) \notin {"none", "delegated"} THEN Await("judge")
     ELSE IF Protected(f) THEN Await("lists")
     ELSE Finish(c, "pass")
  /\ UNCHANGED <<now, old, new, left, bucket>>

Freezes(f, t) == IsSyn(f) /\ abi = 2 /\ mode = 3 /\ t < leaseNs

\* Mutant: the allow list is asked before EMERGENCY.
AllowFirst(c) ==
  LET f == pkt[c].frame IN
  /\ pkt[c].pc = "lists"
  /\ IF f.src \in Allow THEN Finish(c, "pass")
     ELSE IF Freezes(f, pkt[c].at) \/ f.src \in Block THEN Goto(c, "judge")
     ELSE IF IsSyn(f) THEN Goto(c, "budget")
     ELSE Finish(c, "pass")
  /\ UNCHANGED <<now, old, new, left, bucket>>

\* EMERGENCY, then the source lists.
Lists(c) ==
  LET f == pkt[c].frame IN
  /\ pkt[c].pc = "lists"
  /\ IF Freezes(f, pkt[c].at) THEN Goto(c, "judge")
     ELSE IF f.src \in Allow THEN Finish(c, "pass")
     ELSE IF f.src \in Block THEN Goto(c, "judge")
     ELSE IF IsSyn(f) THEN Goto(c, "budget")
     ELSE Finish(c, "pass")
  /\ UNCHANGED <<now, old, new, left, bucket>>

Budgeted(c) ==
  /\ pkt[c].pc = "budget"
  /\ IF synRate = 0 \/ synBurst = 0 THEN Finish(c, "pass") ELSE Goto(c, "charge")
  /\ UNCHANGED <<now, old, new, left, bucket>>

AtMost(bound, n) == IF n > bound THEN bound ELSE n

\* Mutant: rounded down, a packet costs less time than the rate allows.
CostRoundedDown(rate) == IF rate = 0 THEN 0 ELSE Second \div rate

\* The time a packet costs.  BPF divides by zero to zero, which happens when
\* a budget is switched off between the two loads of its rate.
Cost(rate) == IF rate = 0 THEN 0 ELSE (Second + rate - 1) \div rate

Refilled(b, rate, burst, t) ==
  LET cap == Cost(rate) * burst IN
  [last |-> t, rate |-> rate, burst |-> burst,
   credit |-> IF b.last = 0 \/ b.rate # rate \/ b.burst # burst THEN cap
              ELSE AtMost(cap, b.credit + AtMost(cap, t - b.last))]

\* syn_allowed() behind its first test: the bucket of this CPU.
Charge(c) ==
  LET rate == AtMost(Second, synRate)
      b == Refilled(bucket[c], rate, AtMost(MaxBurst, synBurst), pkt[c].at)
  IN /\ pkt[c].pc = "charge"
     /\ IF b.credit < Cost(rate)
        THEN bucket' = [bucket EXCEPT ![c] = b] /\ Goto(c, "judge")
        ELSE /\ bucket' = [bucket EXCEPT ![c] = [b EXCEPT !.credit = @ - Cost(rate)]]
             /\ Finish(c, "pass")
     /\ UNCHANGED <<now, old, new, left>>

\* result(): the lease is compared with the time the packet arrived.
Judge(c) ==
  /\ pkt[c].pc = "judge"
  /\ Finish(c, IF abi = 2 /\ ~observe /\ pkt[c].at < leaseNs THEN "drop" ELSE "pass")
  /\ UNCHANGED <<now, old, new, left, bucket>>

Tick ==
  /\ now < MaxTime
  /\ now' = now + 1
  /\ UNCHANGED <<old, new, left, pkt, bucket>>

Program(c) == Lists(c) \/ Budgeted(c) \/ Charge(c) \/ Judge(c)

Next ==
  \/ \E k \in Writes : Update(k)
  \/ \E w \in Word : CopyWord(w)
  \/ \E c \in Cpus, f \in Frames : Receive(c, f)
  \/ \E c \in Cpus : Program(c)
  \/ Tick

Spec == Init /\ [][Next]_vars

-----------------------------------------------------------------------------
(* Properties *)

Verdict == [pc : {"pass", "drop"}]
Judging == [pc : {"lists", "budget", "charge", "judge"}, frame : Frames, at : 1..now]

\* Every variable keeps its type; no packet and no bucket is from the future.
TypeOK ==
  /\ now \in 1..MaxTime
  /\ old \in Config /\ new \in Config /\ left \subseteq Word
  /\ pkt \in [Cpus -> Verdict \cup Judging]
  /\ bucket \in [Cpus -> [last : 0..now, credit : Nat, rate : 0..Second, burst : 0..MaxBurst]]

Dropped(c) == pkt[c].pc = "judge" /\ pkt'[c].pc = "drop"

\* xdp_ddos.bpf.c "Never enforce malformed L2/IP against traffic whose
\* destination is not provably owned": a dropped packet's destination was read
\* from a captured header and is owned.  And "established ACK/PSH/FIN and
\* SYN-ACK packets pass unless a separately configured manual ACL or structural
\* rule drops them", in every mode, under every budget, and while the
\* configuration is being replaced.
DropsJustified ==
  [][\A c \in Cpus :
       LET f == pkt[c].frame IN
       Dropped(c) => /\ KnowsDst(f) /\ f.dst \in Owned
                     /\ Protected(f) /\ f.flags # {"syn"} => f.src \in Block]_vars

\* parse.h "Ethernet padding is excluded by ip_end": capturing more or less of
\* the bytes behind the IP packet changes neither parser's answer.
PaddingIgnored ==
  \A c \in Cpus :
    LET f == pkt[c].frame IN
    ~Done(c) /\ ParseIp(f) = "parsed" =>
      \A n \in IpEnd(f)..(f.size + 4) :
        LET g == [f EXCEPT !.size = n] IN
        ParseIp(g) = "parsed" /\ ParseTransport(g) = ParseTransport(f)
=============================================================================
