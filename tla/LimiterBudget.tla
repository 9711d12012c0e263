---------------------------- MODULE LimiterBudget ----------------------------
(***************************************************************************)
(* What the token buckets of Limiter promise over a whole run: a history   *)
(* of the enforced grants, and the budget each rate and burst allows.      *)
(***************************************************************************)
EXTENDS Limiter

VARIABLES
  granted,   \* enforced grants of each event
  spent      \* enforced, non-exempt grants of each event, per key

bvars == <<vars, granted, spent>>

(* An entry that has been idle long enough to be swept would have refilled *)
(* by itself: a recreated entry, whose buckets are full, gives nothing     *)
(* away.  Two readings, of the last charge and of the sweep, may be stale. *)
ASSUME IdleAssumption ==
  \A r \in {IpRate, PrefixRate} : \A e \in Event :
    r[e].rate > 0 => r[e].rate * (IdleEntrySeconds - 2 * MaxLag) >= r[e].burst

\* Only limited buckets have a history: the others promise nothing.
Record(ip, e, p) ==
  /\ granted' = [granted EXCEPT ![e] =
       IF GlobalRate[e].rate > 0 /\ ~p.observe THEN @ + 1 ELSE @]
  /\ spent' = [k \in Key |->
       IF /\ k \in {ip, Subnet[ip]} /\ RateOf(k)[e].rate > 0
          /\ ~p.observe /\ ~p.exempt
       THEN [spent[k] EXCEPT ![e] = @ + 1] ELSE spent[k]]

BudgetInit ==
  /\ Init
  /\ granted = [e \in Event |-> 0]
  /\ spent = [k \in Key |-> [e \in Event |-> 0]]

BudgetNext ==
  \/ Ungranted /\ UNCHANGED <<granted, spent>>
  \/ \E c \in Conn, ip \in Ips, p \in Policies, t \in Reading(0) :
       AcceptAdmit(c, ip, p, t) /\ Record(ip, "connect", p)
  \/ \E c \in Conn, e \in Event, p \in Policies :
       \E t \in Reading(ticket[c].at) :
         EventGranted(c, e, p, t) /\ Record(ticket[c].ip, e, p)

BudgetSpec == BudgetInit /\ [][BudgetNext]_bvars

-----------------------------------------------------------------------------
Allowed(r) == r.burst + r.rate * now

\* However calls of different tasks interleave, and whatever mode, exemption
\* or stale clock reading they use, the enforced grants of a globally limited
\* event never exceed its burst plus its rate times the elapsed time.
GlobalBudget ==
  \A e \in Event : GlobalRate[e].rate > 0 => granted[e] <= Allowed(GlobalRate[e])

\* The same holds for each address and each prefix, also across the eviction
\* of its idle entry by sweep() and its recreation with full buckets.
IdentityBudget ==
  \A k \in Key, e \in Event :
    RateOf(k)[e].rate > 0 => spent[k][e] <= Allowed(RateOf(k)[e])
=============================================================================
