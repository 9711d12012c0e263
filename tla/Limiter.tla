------------------------------ MODULE Limiter ------------------------------
(***************************************************************************)
(* The identity limiter of the gate (gate/src/limiter.rs): two bounded     *)
(* tables of entries, one keyed by client address and one by the           *)
(* address's prefix, a set of global token buckets, and one ticket per     *)
(* accepted connection.                                                    *)
(*                                                                         *)
(* An action is one critical section of the code.  accept() and event()    *)
(* hold the address and the prefix shard together and are one action.      *)
(* mark_admitted(), Ticket::drop() and sweep() lock the two tables one     *)
(* after the other, so each is two actions and anything may run between    *)
(* them.  Instant::now() is read before a lock is waited for, so an action *)
(* may use a reading up to MaxLag ticks old.                               *)
(*                                                                         *)
(* Tokens are integers in units of 1/One token.  A mode multiplier m is    *)
(* the integer Factor[mode] = m * One, which keeps every refill exact.     *)
(* Churn scores are integers in quarter points.                            *)
(***************************************************************************)
EXTENDS Integers, FiniteSets

CONSTANTS
  Conn,              \* connection tasks of the gate
  Ips,               \* normalized client addresses
  Prefixes,          \* the prefixes they are masked to
  Subnet,            \* subnet(): the prefix of each address
  Shards,            \* number of shards of a table (SHARDS in the code)
  Shard,             \* the shard each key hashes to
  IpCapacity,        \* entries per shard of the address table
  PrefixCapacity,    \* entries per shard of the prefix table
  ConnectionsIp, ConnectionsPrefix,   \* 0 disables a cap
  PreloginIp, PreloginPrefix,
  StatusIp,
  IpRate, PrefixRate, GlobalRate,     \* [Event -> [rate, burst]]
  One, Factor,       \* token unit, mode multipliers in that unit
  PreserveBurst,
  SeparateStatus,    \* limits.separate_status_budget
  Policies,          \* the policies runtime.policy() can return
  ChurnThreshold, ChurnPrefixThreshold,
  MaxScore,          \* 1e6 points
  Decay(_, _),       \* exponential decay of a score over a duration
  PenaltySeconds, IdleEntrySeconds,
  MaxLag,            \* age of a clock reading when its lock is obtained
  MaxTime            \* bound on the clock

Event == {"connect", "handshake", "status", "login"}
Mode == 0..3
Key == Ips \cup Prefixes
Rate == [rate : Nat, burst : Nat]
ShardId == 0..(Shards - 1)
Time == 0..MaxTime

ASSUME KeyAssumption ==
  /\ IsFiniteSet(Conn)
  /\ IsFiniteSet(Ips) /\ IsFiniteSet(Prefixes) /\ Ips # {}
  /\ Ips \cap Prefixes = {}
  /\ Subnet \in [Ips -> Prefixes]
  /\ Shards \in Nat \ {0}
  /\ Shard \in [Key -> ShardId]

ASSUME LimitAssumption ==
  /\ {IpCapacity, PrefixCapacity} \subseteq Nat \ {0}
  /\ {ConnectionsIp, ConnectionsPrefix, PreloginIp, PreloginPrefix,
      StatusIp} \subseteq Nat
  /\ {ChurnThreshold, ChurnPrefixThreshold, MaxScore, PenaltySeconds} \subseteq Nat
  /\ IdleEntrySeconds \in Nat \ {0}
  /\ {MaxLag, MaxTime} \subseteq Nat
  /\ \A s \in 0..MaxScore, d \in Time : Decay(s, d) \in 0..s

ASSUME RateAssumption ==
  /\ {IpRate, PrefixRate, GlobalRate} \subseteq [Event -> Rate]
  /\ \A r \in {IpRate, PrefixRate, GlobalRate}, e \in Event :
       r[e].rate > 0 => r[e].burst > 0
  /\ One \in Nat \ {0}
  /\ Factor \in [Mode -> 1..One]
  /\ {PreserveBurst, SeparateStatus} \subseteq BOOLEAN
  /\ Policies \subseteq [mode : Mode, observe : BOOLEAN, exempt : BOOLEAN]

VARIABLES
  now,       \* the monotonic clock
  known,     \* keys present in the tables
  entry,     \* entry[k] for every key; NoEntry outside known
  global,    \* the global buckets
  ticket,    \* the ticket and the limiter call in progress of each task
  sweeper    \* the maintenance task: next shard and table

vars == <<now, known, entry, global, ticket, sweeper>>

-----------------------------------------------------------------------------
(* Token buckets *)

Lesser(a, b) == IF a < b THEN a ELSE b
Greater(a, b) == IF a < b THEN b ELSE a

\* A disabled bucket (rate 0) is never read, its clock is left at 0.
NewBucket(r, t) ==
  [tokens |-> r.burst * One, last |-> IF r.rate = 0 THEN 0 ELSE t]

BucketCap(r, mode) ==
  Greater(One, r.burst * (IF PreserveBurst THEN One ELSE Factor[mode]))

\* Mutant: an older reading sets the bucket's clock back.
RefilledBackwards(b, r, t, mode) ==
  IF r.rate = 0 THEN b
  ELSE [tokens |-> Lesser(BucketCap(r, mode),
                          b.tokens + Greater(0, t - b.last) * r.rate * Factor[mode]),
        last |-> t]

\* available(): the refill it performs, whatever it answers ...
Refilled(b, r, t, mode) ==
  IF r.rate = 0 THEN b
  ELSE [tokens |-> Lesser(BucketCap(r, mode),
                          b.tokens + Greater(0, t - b.last) * r.rate * Factor[mode]),
        last |-> Greater(b.last, t)]

\* ... and its answer about the refilled bucket.
HasToken(b, r) == r.rate = 0 \/ b.tokens >= One

Consumed(b, r) == IF r.rate = 0 THEN b ELSE [b EXCEPT !.tokens = @ - One]

-----------------------------------------------------------------------------
(* Entries and tickets *)

Bucket == [tokens : Nat, last : Time]

Entry ==
  [active : Nat, pending : Nat, status : Nat, touched : Time,
   buckets : [Event -> Bucket], score : 0..MaxScore, scoreAt : Time,
   penaltyUntil : Nat]

NewEntry(r, t) ==
  [active |-> 0, pending |-> 0, status |-> 0, touched |-> t,
   buckets |-> [e \in Event |-> NewBucket(r[e], t)],
   score |-> 0, scoreAt |-> t, penaltyUntil |-> t]

RateOf(k) == IF k \in Ips THEN IpRate ELSE PrefixRate

NoEntry(k) == NewEntry(RateOf(k), 0)

\* A task is "idle" before accept() and after its ticket is gone.  It is
\* "admitting" or "dropping" between the two tables of mark_admitted() or
\* drop().  at is the task's latest clock reading, asked the events it has
\* already called event() for.
Ticket ==
  [phase : {"idle", "live", "admitting", "dropping"}, ip : Ips,
   handshake : BOOLEAN, admitted : BOOLEAN, statusComplete : BOOLEAN,
   serverRejected : BOOLEAN, status : BOOLEAN, at : Time,
   asked : SUBSET Event]

AnIp == CHOOSE ip \in Ips : TRUE

NewTicket(phase, ip, t) ==
  [phase |-> phase, ip |-> ip, handshake |-> FALSE, admitted |-> FALSE,
   statusComplete |-> FALSE, serverRejected |-> FALSE, status |-> FALSE,
   at |-> t, asked |-> {}]

NoTicket == NewTicket("idle", AnIp, 0)

Net(c) == Subnet[ticket[c].ip]

\* A clock reading a task may be using: at most MaxLag old, and not before
\* the reading it took for its previous call.
Reading(since) == {t \in Time : t <= now /\ now - t <= MaxLag /\ since <= t}

Init ==
  /\ now = 0
  /\ known = {}
  /\ entry = [k \in Key |-> NoEntry(k)]
  /\ global = [e \in Event |-> NewBucket(GlobalRate[e], 0)]
  /\ ticket = [c \in Conn |-> NoTicket]
  /\ sweeper = [table |-> "ip", shard |-> 0, at |-> 0]

-----------------------------------------------------------------------------
(* accept() *)

TableOf(k) == IF k \in Ips THEN Ips ELSE Prefixes

Capacity(k) == IF k \in Ips THEN IpCapacity ELSE PrefixCapacity

ShardKeys(k) == {j \in known \cap TableOf(k) : Shard[j] = Shard[k]}

ShardFull(k) == k \notin known /\ Cardinality(ShardKeys(k)) >= Capacity(k)

\* Mutant: touching an entry forgives its penalty.
ProvisionalForgiven(k, t) ==
  IF k \in known THEN [entry[k] EXCEPT !.touched = t, !.penaltyUntil = t]
  ELSE NewEntry(RateOf(k), t)

\* The entry accept() works on: the stored one, or a provisional new one.
Provisional(k, t) ==
  IF k \in known THEN [entry[k] EXCEPT !.touched = t] ELSE NewEntry(RateOf(k), t)

\* Mutant: off by one.
Exceeded(cap, n) == cap > 0 /\ n > cap

Reached(cap, n) == cap > 0 /\ n >= cap

AtConnectionCap(i, n) ==
  \/ Reached(ConnectionsIp, i.active) \/ Reached(ConnectionsPrefix, n.active)

AtPreloginCap(i, n) ==
  \/ Reached(PreloginIp, i.pending) \/ Reached(PreloginPrefix, n.pending)

RefilledEntry(k, x, e, t, mode) ==
  [x EXCEPT !.buckets[e] = Refilled(@, RateOf(k)[e], t, mode)]

\* The verdict of one scope about its refilled entry.
SourceOk(k, x, e, t) ==
  HasToken(x.buckets[e], RateOf(k)[e]) /\ t >= x.penaltyUntil

Judged(ok, p) == ok \/ p.exempt \/ p.observe

\* The global scope is judged with exempt: false.
JudgedGlobal(ok, p) == ok \/ p.observe

Charged(k, x, e, ok, p) ==
  IF ok /\ ~p.exempt THEN [x EXCEPT !.buckets[e] = Consumed(@, RateOf(k)[e])] ELSE x

GlobalRefilled(e, t, mode) == Refilled(global[e], GlobalRate[e], t, mode)

GlobalCharged(e, b) ==
  [global EXCEPT ![e] = IF HasToken(b, GlobalRate[e])
                        THEN Consumed(b, GlobalRate[e]) ELSE b]

\* What a refused call leaves in the tables: provisional entries are dropped.
Stored(ip, i, n) ==
  [entry EXCEPT ![ip] = IF ip \in known THEN i ELSE @,
                ![Subnet[ip]] = IF Subnet[ip] \in known THEN n ELSE @]

\* accept() stops here: at a full shard before anything is written, or at a
\* concurrency cap after touched is.
TableFull(ip) == ShardFull(ip) \/ ShardFull(Subnet[ip])

AtCap(ip, t) ==
  LET i == Provisional(ip, t)
      n == Provisional(Subnet[ip], t)
  IN  AtConnectionCap(i, n) \/ AtPreloginCap(i, n)

AcceptCapped(c, ip, t) ==
  /\ ticket[c].phase = "idle"
  /\ TableFull(ip) \/ AtCap(ip, t)
  /\ entry' = IF TableFull(ip) THEN entry
              ELSE Stored(ip, Provisional(ip, t), Provisional(Subnet[ip], t))
  /\ UNCHANGED <<now, known, global, ticket, sweeper>>

\* Behind the caps both scopes are refilled before either is judged.
Presented(k, p, t) == RefilledEntry(k, Provisional(k, t), "connect", t, p.mode)

ConnectOk(k, p, t) == SourceOk(k, Presented(k, p, t), "connect", t)

SourcesJudged(ip, p, t) ==
  Judged(ConnectOk(ip, p, t), p) /\ Judged(ConnectOk(Subnet[ip], p, t), p)

Acceptable(c, ip, t) ==
  ticket[c].phase = "idle" /\ ~TableFull(ip) /\ ~AtCap(ip, t)

AcceptSourceLimited(c, ip, p, t) ==
  /\ Acceptable(c, ip, t)
  /\ ~SourcesJudged(ip, p, t)
  /\ entry' = Stored(ip, Presented(ip, p, t), Presented(Subnet[ip], p, t))
  /\ UNCHANGED <<now, known, global, ticket, sweeper>>

\* Mutant: the sources are charged before the global bucket is asked.
AcceptGlobalLimitedCharged(c, ip, p, t) ==
  LET g == GlobalRefilled("connect", t, p.mode)
      Paid(k) == Charged(k, Presented(k, p, t), "connect", ConnectOk(k, p, t), p)
  IN
  /\ Acceptable(c, ip, t)
  /\ SourcesJudged(ip, p, t)
  /\ ~JudgedGlobal(HasToken(g, GlobalRate["connect"]), p)
  /\ entry' = Stored(ip, Paid(ip), Paid(Subnet[ip]))
  /\ global' = [global EXCEPT !["connect"] = g]
  /\ UNCHANGED <<now, known, ticket, sweeper>>

AcceptGlobalLimited(c, ip, p, t) ==
  LET g == GlobalRefilled("connect", t, p.mode) IN
  /\ Acceptable(c, ip, t)
  /\ SourcesJudged(ip, p, t)
  /\ ~JudgedGlobal(HasToken(g, GlobalRate["connect"]), p)
  /\ entry' = Stored(ip, Presented(ip, p, t), Presented(Subnet[ip], p, t))
  /\ global' = [global EXCEPT !["connect"] = g]
  /\ UNCHANGED <<now, known, ticket, sweeper>>

Admitted(k, p, t) ==
  [Charged(k, Presented(k, p, t), "connect", ConnectOk(k, p, t), p)
     EXCEPT !.active = @ + 1, !.pending = @ + 1]

AcceptAdmit(c, ip, p, t) ==
  LET g == GlobalRefilled("connect", t, p.mode) IN
  /\ Acceptable(c, ip, t)
  /\ SourcesJudged(ip, p, t)
  /\ JudgedGlobal(HasToken(g, GlobalRate["connect"]), p)
  /\ entry' = [entry EXCEPT ![ip] = Admitted(ip, p, t),
                            ![Subnet[ip]] = Admitted(Subnet[ip], p, t)]
  /\ known' = known \cup {ip, Subnet[ip]}
  /\ global' = GlobalCharged("connect", g)
  /\ ticket' = [ticket EXCEPT ![c] = NewTicket("live", ip, t)]
  /\ UNCHANGED <<now, sweeper>>

-----------------------------------------------------------------------------
(* The calls handle() makes on a live ticket, in the order it makes them.  *)

Serving(c) == ticket[c].phase = "live" /\ ~ticket[c].serverRejected

\* handle() sets handshake once the first frame has been parsed.
Handshake(c) ==
  /\ Serving(c) /\ ~ticket[c].handshake
  /\ ticket' = [ticket EXCEPT ![c].handshake = TRUE]
  /\ UNCHANGED <<now, known, entry, global, sweeper>>

\* A status client is counted against the per-address status cap first.
EnterStatus(c) ==
  LET ip == ticket[c].ip IN
  /\ Serving(c) /\ ticket[c].handshake
  /\ ticket[c].asked = {} /\ ~ticket[c].status
  /\ ip \in known
  /\ IF Reached(StatusIp, entry[ip].status)
     THEN /\ ticket' = [ticket EXCEPT ![c].serverRejected = TRUE]
          /\ UNCHANGED entry
     ELSE /\ ticket' = [ticket EXCEPT ![c].status = TRUE]
          /\ entry' = [entry EXCEPT ![ip].status = @ + 1]
  /\ UNCHANGED <<now, known, global, sweeper>>

\* Which event() call handle() makes next.
Asks(c, e) ==
  /\ Serving(c) /\ ticket[c].handshake
  /\ ~ticket[c].admitted /\ ~ticket[c].statusComplete
  /\ e \notin ticket[c].asked
  /\ \/ e = "handshake" /\ ~(ticket[c].status /\ SeparateStatus)
     \/ /\ e = "status" /\ ticket[c].status
        /\ SeparateStatus \/ "handshake" \in ticket[c].asked
     \/ e = "login" /\ ~ticket[c].status /\ "handshake" \in ticket[c].asked

\* event() works on stored entries.  Its early return for a missing entry is
\* never taken: LiveTicketsKnown.
Touched(k, t) == [entry[k] EXCEPT !.touched = t]

AskedOf(k, e, p, t) == RefilledEntry(k, Touched(k, t), e, t, p.mode)

EventOk(k, e, p, t) == SourceOk(k, AskedOf(k, e, p, t), e, t)

\* Every caller answers a refusal by setting server_rejected and returning.
Refused(c, e, t) ==
  ticket' = [ticket EXCEPT ![c].serverRejected = TRUE, ![c].at = t,
                           ![c].asked = @ \cup {e}]

\* The address is judged before the prefix is looked at ...
EventIpLimited(c, e, p, t) ==
  LET ip == ticket[c].ip IN
  /\ Asks(c, e)
  /\ {ip, Net(c)} \subseteq known
  /\ ~Judged(EventOk(ip, e, p, t), p)
  /\ entry' = [entry EXCEPT ![ip] = AskedOf(ip, e, p, t),
                            ![Net(c)] = Touched(Net(c), t)]
  /\ Refused(c, e, t)
  /\ UNCHANGED <<now, known, global, sweeper>>

\* ... and the prefix before the global buckets are locked.
EventPrefixLimited(c, e, p, t) ==
  LET ip == ticket[c].ip IN
  /\ Asks(c, e)
  /\ {ip, Net(c)} \subseteq known
  /\ Judged(EventOk(ip, e, p, t), p)
  /\ ~Judged(EventOk(Net(c), e, p, t), p)
  /\ entry' = [entry EXCEPT ![ip] = AskedOf(ip, e, p, t),
                            ![Net(c)] = AskedOf(Net(c), e, p, t)]
  /\ Refused(c, e, t)
  /\ UNCHANGED <<now, known, global, sweeper>>

EventGlobalLimited(c, e, p, t) ==
  LET ip == ticket[c].ip
      g == GlobalRefilled(e, t, p.mode)
  IN
  /\ Asks(c, e)
  /\ {ip, Net(c)} \subseteq known
  /\ Judged(EventOk(ip, e, p, t), p) /\ Judged(EventOk(Net(c), e, p, t), p)
  /\ ~JudgedGlobal(HasToken(g, GlobalRate[e]), p)
  /\ entry' = [entry EXCEPT ![ip] = AskedOf(ip, e, p, t),
                            ![Net(c)] = AskedOf(Net(c), e, p, t)]
  /\ global' = [global EXCEPT ![e] = g]
  /\ Refused(c, e, t)
  /\ UNCHANGED <<now, known, sweeper>>

EventGranted(c, e, p, t) ==
  LET ip == ticket[c].ip
      g == GlobalRefilled(e, t, p.mode)
      Paid(k) == Charged(k, AskedOf(k, e, p, t), e, EventOk(k, e, p, t), p)
  IN
  /\ Asks(c, e)
  /\ {ip, Net(c)} \subseteq known
  /\ Judged(EventOk(ip, e, p, t), p) /\ Judged(EventOk(Net(c), e, p, t), p)
  /\ JudgedGlobal(HasToken(g, GlobalRate[e]), p)
  /\ entry' = [entry EXCEPT ![ip] = Paid(ip), ![Net(c)] = Paid(Net(c))]
  /\ global' = GlobalCharged(e, g)
  /\ ticket' = [ticket EXCEPT ![c].at = t, ![c].asked = @ \cup {e}]
  /\ UNCHANGED <<now, known, sweeper>>

\* The other refusals of handle(): a block, a full semaphore, a failed dial.
ServerReject(c) ==
  /\ Serving(c) /\ ticket[c].handshake
  /\ ~ticket[c].admitted /\ ~ticket[c].statusComplete
  /\ ticket' = [ticket EXCEPT ![c].serverRejected = TRUE]
  /\ UNCHANGED <<now, known, entry, global, sweeper>>

StatusComplete(c) ==
  /\ Serving(c) /\ "status" \in ticket[c].asked /\ ~ticket[c].statusComplete
  /\ ticket' = [ticket EXCEPT ![c].statusComplete = TRUE]
  /\ UNCHANGED <<now, known, entry, global, sweeper>>

-----------------------------------------------------------------------------
(* mark_admitted() and drop(): the address table, then the prefix table.   *)

Unpended(k) ==
  [entry EXCEPT ![k].pending = IF k \in known THEN @ - 1 ELSE @]

MarkAdmittedIp(c) ==
  /\ Serving(c) /\ "login" \in ticket[c].asked /\ ~ticket[c].admitted
  /\ entry' = Unpended(ticket[c].ip)
  /\ ticket' = [ticket EXCEPT ![c].phase = "admitting"]
  /\ UNCHANGED <<now, known, global, sweeper>>

MarkAdmittedPrefix(c) ==
  /\ ticket[c].phase = "admitting"
  /\ entry' = Unpended(Net(c))
  /\ ticket' = [ticket EXCEPT ![c].phase = "live", ![c].admitted = TRUE]
  /\ UNCHANGED <<now, known, global, sweeper>>

\* A close the client is answerable for.
Churn(tk) == ~tk.serverRejected /\ ~tk.statusComplete /\ ~tk.admitted

ChurnLimit(k) == IF k \in Ips THEN ChurnThreshold ELSE ChurnPrefixThreshold

Scored(x, tk, t) ==
  Lesser(MaxScore, Decay(x.score, Greater(0, t - x.scoreAt))
                     + (IF tk.handshake THEN 1 ELSE 4))

\* Mutant: drop() forgets the status count.
ReleasedStatusLeak(k, x, tk, t) ==
  [x EXCEPT !.active = @ - 1, !.touched = t,
            !.pending = IF tk.admitted THEN @ ELSE @ - 1]

Released(k, x, tk, t) ==
  LET freed == [x EXCEPT
        !.active = @ - 1,
        !.touched = t,
        !.status = IF k \in Ips /\ tk.status THEN @ - 1 ELSE @,
        !.pending = IF tk.admitted THEN @ ELSE @ - 1]
  IN
  IF Churn(tk) /\ ChurnLimit(k) > 0
  THEN [freed EXCEPT !.score = Scored(x, tk, t), !.scoreAt = t,
                     !.penaltyUntil = IF Scored(x, tk, t) >= ChurnLimit(k)
                                      THEN t + PenaltySeconds ELSE @]
  ELSE freed

DropIp(c, t) ==
  LET ip == ticket[c].ip IN
  /\ ticket[c].phase = "live"
  /\ entry' = IF ip \in known
              THEN [entry EXCEPT ![ip] = Released(ip, @, ticket[c], t)] ELSE entry
  /\ ticket' = [ticket EXCEPT ![c].phase = "dropping", ![c].at = t]
  /\ UNCHANGED <<now, known, global, sweeper>>

DropPrefix(c) ==
  LET net == Net(c) IN
  /\ ticket[c].phase = "dropping"
  /\ entry' = IF net \in known
              THEN [entry EXCEPT ![net] = Released(net, @, ticket[c], ticket[c].at)]
              ELSE entry
  /\ ticket' = [ticket EXCEPT ![c] = NoTicket]
  /\ UNCHANGED <<now, known, global, sweeper>>

-----------------------------------------------------------------------------
(* sweep(): one shard of the address table, then of the prefix table.      *)

\* Mutant: an entry is evicted before its buckets could have refilled.
KeepActive(x, t) == x.active > 0 \/ t < x.penaltyUntil

Keep(x, t) ==
  \/ x.active > 0
  \/ t < x.penaltyUntil
  \/ t - x.touched < IdleEntrySeconds

Swept(table, t) ==
  {k \in known \cap table : Shard[k] = sweeper.shard /\ ~Keep(entry[k], t)}

Evict(gone) ==
  /\ known' = known \ gone
  /\ entry' = [k \in Key |-> IF k \in gone THEN NoEntry(k) ELSE entry[k]]

SweepIp(t) ==
  /\ sweeper.table = "ip"
  /\ Evict(Swept(Ips, t))
  /\ sweeper' = [sweeper EXCEPT !.table = "prefix", !.at = t]
  /\ UNCHANGED <<now, global, ticket>>

SweepPrefix ==
  /\ sweeper.table = "prefix"
  /\ Evict(Swept(Prefixes, sweeper.at))
  /\ sweeper' = [sweeper EXCEPT !.table = "ip", !.shard = (@ + 1) % Shards]
  /\ UNCHANGED <<now, global, ticket>>

\* MaxLag also bounds the calls in progress: their reading ages until they end.
InProgressSince ==
  {ticket[c].at : c \in {x \in Conn : ticket[x].phase = "dropping"}}
    \cup (IF sweeper.table = "prefix" THEN {sweeper.at} ELSE {})

Tick ==
  /\ now < MaxTime
  /\ \A t \in InProgressSince : now - t < MaxLag
  /\ now' = now + 1
  /\ UNCHANGED <<known, entry, global, ticket, sweeper>>

AcceptRefused(c) ==
  \E ip \in Ips, t \in Reading(0) :
    \/ AcceptCapped(c, ip, t)
    \/ \E p \in Policies : \/ AcceptSourceLimited(c, ip, p, t)
                           \/ AcceptGlobalLimited(c, ip, p, t)

EventRefused(c) ==
  \E e \in Event, p \in Policies, t \in Reading(ticket[c].at) :
    \/ EventIpLimited(c, e, p, t)
    \/ EventPrefixLimited(c, e, p, t)
    \/ EventGlobalLimited(c, e, p, t)

Drop(c) == \E t \in Reading(ticket[c].at) : DropIp(c, t)

Sweep == \E t \in Reading(sweeper.at) : SweepIp(t)

\* Every step that grants nothing, and the two that do.
Ungranted ==
  \/ \E c \in Conn :
       \/ AcceptRefused(c) \/ EventRefused(c)
       \/ Handshake(c) \/ EnterStatus(c) \/ ServerReject(c) \/ StatusComplete(c)
       \/ MarkAdmittedIp(c) \/ MarkAdmittedPrefix(c)
       \/ Drop(c) \/ DropPrefix(c)
  \/ Sweep \/ SweepPrefix
  \/ Tick

Next ==
  \/ Ungranted
  \/ \E c \in Conn, ip \in Ips, p \in Policies, t \in Reading(0) :
       AcceptAdmit(c, ip, p, t)
  \/ \E c \in Conn, e \in Event, p \in Policies :
       \E t \in Reading(ticket[c].at) : EventGranted(c, e, p, t)

Spec == Init /\ [][Next]_vars

-----------------------------------------------------------------------------
(* Properties *)

\* Every variable keeps its type; the unsigned counters and tokens never go
\* below zero.
TypeOK ==
  /\ now \in Time
  /\ known \subseteq Key
  /\ entry \in [Key -> Entry]
  /\ global \in [Event -> Bucket]
  /\ ticket \in [Conn -> Ticket]
  /\ sweeper \in [table : {"ip", "prefix"}, shard : ShardId, at : Time]

\* The tasks an entry's counters must account for: a task leaves the address
\* entry in the first half of drop() and the prefix entry in the second, and
\* likewise for pending in mark_admitted().
ActiveOn(k) ==
  {c \in Conn : \/ k = ticket[c].ip /\ ticket[c].phase \in {"live", "admitting"}
                \/ k = Net(c) /\ ticket[c].phase # "idle"}

PendingOn(k) ==
  {c \in Conn : /\ ~ticket[c].admitted
                /\ \/ k = ticket[c].ip /\ ticket[c].phase = "live"
                   \/ k = Net(c) /\ ticket[c].phase # "idle"}

StatusOn(k) ==
  {c \in Conn : /\ ticket[c].status
                /\ k = ticket[c].ip /\ ticket[c].phase \in {"live", "admitting"}}

\* The counters of an entry are the numbers of tasks that hold it, at every
\* point between the separately locked halves of mark_admitted() and drop().
\* The unsigned decrements there therefore never wrap, and nothing leaks.
Accounting ==
  \A k \in Key : /\ entry[k].active = Cardinality(ActiveOn(k))
                 /\ entry[k].pending = Cardinality(PendingOn(k))
                 /\ entry[k].status = Cardinality(StatusOn(k))

\* sweep() never removes an entry a ticket still has to release, so the
\* `if let Some` of mark_admitted() and drop() always matches and event()
\* never refuses for a missing entry.
LiveTicketsKnown ==
  \A c \in Conn :
    /\ ticket[c].phase \in {"live", "admitting"} => ticket[c].ip \in known
    /\ ticket[c].phase # "idle" => Net(c) \in known

\* mark_admitted() runs once per ticket.
AdmittingOnce ==
  \A c \in Conn : ticket[c].phase = "admitting" => ~ticket[c].admitted

\* What every step preserves.
Inductive == TypeOK /\ Accounting /\ LiveTicketsKnown /\ AdmittingOnce

Within(cap, S) == cap > 0 => Cardinality(S) <= cap

\* The configured concurrency caps bound the tasks themselves, not only the
\* counters accept() and enter_status() compare.
CapsHold ==
  /\ \A ip \in Ips : /\ Within(ConnectionsIp, ActiveOn(ip))
                     /\ Within(PreloginIp, PendingOn(ip))
                     /\ Within(StatusIp, StatusOn(ip))
  /\ \A net \in Prefixes : /\ Within(ConnectionsPrefix, ActiveOn(net))
                           /\ Within(PreloginPrefix, PendingOn(net))

\* Both identity tables stay within their fixed memory: no shard outgrows its
\* share of ip_entries or prefix_entries.
TablesBounded == \A k \in Key : Cardinality(ShardKeys(k)) <= Capacity(k)

\* A later close can bring a running penalty forward only by the age of the
\* clock reading drop() took before it waited for the shard.
PenaltyKept ==
  [][\A k \in known \cap known' :
       entry'[k].penaltyUntil >= entry[k].penaltyUntil - MaxLag]_vars

\* docs/DESIGN.md:97 "early-close score adds a short penalty only when
\* configured": a source judged by accept() is refused for an empty bucket, or
\* under a configured churn threshold.  Entry::new() starts penalty_until at
\* the creator's clock reading, and a task that read the clock earlier and got
\* the lock later is refused.
PenaltyOnlyWhenConfigured ==
  \A c \in Conn, ip \in Ips, p \in Policies, t \in Reading(0) :
    Acceptable(c, ip, t) /\ ~SourcesJudged(ip, p, t) =>
      \E k \in {ip, Subnet[ip]} :
        \/ ChurnLimit(k) > 0
        \/ ~HasToken(Presented(k, p, t).buckets["connect"], RateOf(k)["connect"])

Granted(c, e) ==
  \/ e = "connect" /\ ticket[c].phase = "idle" /\ ticket'[c].phase = "live"
  \/ e \in ticket'[c].asked \ ticket[c].asked /\ ~ticket'[c].serverRejected

\* Tokens go to a granted call, or to the smaller burst of a stricter mode.
SpentOrClamped(old, new, r, e) ==
  new.tokens < old.tokens =>
    \/ \E c \in Conn : Granted(c, e)
    \/ \E p \in Policies : new.tokens = BucketCap(r[e], p.mode)

\* accept() and event() ask three scopes one after the other: a refusal by one
\* of them costs the others nothing.
RefusalsAreFree ==
  [][\A e \in Event :
       /\ SpentOrClamped(global[e], global'[e], GlobalRate, e)
       /\ \A k \in known \cap known' :
            SpentOrClamped(entry[k].buckets[e], entry'[k].buckets[e], RateOf(k), e)]_vars
====
