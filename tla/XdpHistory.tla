----------------------------- MODULE XdpHistory -----------------------------
(***************************************************************************)
(* XdpFilter with a history of the configurations in place while a packet  *)
(* is judged, and of the SYNs that each CPU's budget let through.          *)
(***************************************************************************)
EXTENDS XdpFilter

VARIABLES
  quiet,       \* CPUs whose packet met only configurations that pass all traffic
  frozen,      \* CPUs whose packet met only configurations that freeze new SYNs
  granted,     \* SYNs let through since the CPU's rate or burst last changed ...
  since        \* ... and the time of that change

history == <<quiet, frozen, granted, since>>
hvars == <<vars, history>>

Passes(k, t) == k.abi # 2 \/ k.observe \/ t >= k.lease
FreezesAll(k, t) == k.abi = 2 /\ ~k.observe /\ k.mode = 3 /\ t < k.lease

InPlace == IF left = {} THEN {new} ELSE {old, new}

HistoryInit ==
  /\ Init
  /\ quiet = {} /\ frozen = {}
  /\ granted = [c \in Cpus |-> 0] /\ since = [c \in Cpus |-> 0]

Charged(c) == pkt[c].pc = "charge" /\ pkt'[c].pc # "charge"

Rebudgeted(c) ==
  bucket[c].last = 0 \/ <<bucket[c].rate, bucket[c].burst>> # <<bucket'[c].rate, bucket'[c].burst>>

\* The CPUs of Met whose packet is new or was in past.
Kept(past, Met(_, _)) ==
  {c \in Cpus : ~Done(c)' /\ (Done(c) \/ c \in past) /\ \A k \in InPlace' : Met(k, pkt'[c].at)}

Record ==
  /\ quiet' = Kept(quiet, Passes)
  /\ frozen' = Kept(frozen, FreezesAll)
  /\ granted' = [c \in Cpus |->
       IF ~Charged(c) THEN granted[c]
       ELSE IF bucket'[c].rate = 0 THEN 0
       ELSE (IF Rebudgeted(c) THEN 0 ELSE granted[c]) + (IF pkt'[c].pc = "pass" THEN 1 ELSE 0)]
  /\ since' = [c \in Cpus |-> IF Charged(c) /\ Rebudgeted(c) THEN pkt[c].at ELSE since[c]]

HistoryNext == Next /\ Record
HistorySpec == HistoryInit /\ [][HistoryNext]_hvars

-----------------------------------------------------------------------------
\* The SYNs a CPU lets through since its budget last changed never exceed the
\* burst plus the configured rate times the time, whatever the rounding of the
\* cost, the gaps between packets and a configuration that is half copied.
SynBudget ==
  \A c \in Cpus :
    bucket[c].rate > 0 =>
      (granted[c] - bucket[c].burst) * Second <= (bucket[c].last - since[c]) * bucket[c].rate

\* docs/CONFIGURATION.md:24-26 "In EMERGENCY with a valid XDP lease and
\* observe=false, XDP drops initial TCP SYNs for owned protected services":
\* none gets through, allow-listed or not, while leases are renewed and
\* budgets change.
FrozenSynDropped ==
  [][\A c \in frozen : IsSyn(pkt[c].frame) => pkt'[c].pc # "pass"]_hvars

\* xdp_ddos.bpf.c "Lease expiry and observe mode retain the normal fail-open
\* behavior": a packet is not dropped when every configuration in place since
\* it arrived is expired or only observes.  The copy of an observing
\* configuration with a new lease, over an expired one that enforced, is for a
\* moment an enforcing configuration with a running lease.
FailOpenKept == [][\A c \in quiet : ~Dropped(c)]_hvars
=============================================================================
