------------------------ MODULE LimiterBudgetProofs ------------------------
(***************************************************************************)
(* Proofs about what the buckets and the penalties of Limiter do, from the *)
(* invariant of LimiterProofs: the bound on what every bucket has granted  *)
(* since the start (LimiterBudget), and penalties that are served in full. *)
(***************************************************************************)
EXTENDS LimiterBudget, LimiterProofs

-----------------------------------------------------------------------------
(* What a bucket can still pay for *)

\* A bound stays one when a term of it grows.
LEMMA LargerBound ==
  \A a, b, x, y \in Nat : x <= y /\ (a <= b + x \/ a <= x) => a <= b + y
  OBVIOUS

\* A difference cut off at zero is a natural number, and no larger than what it
\* was taken from.
LEMMA CutOff == \A n, m \in Nat : Greater(0, n - m) \in Nat /\ Greater(0, n - m) <= n
BY DEF Greater

\* What does not fall short of a limit has reached it.
LEMMA NotShort == \A a, b, c \in Nat : ~(a - b < c) => a - b >= c
  OBVIOUS

\* Idle time that covers the lag of two readings is real time.
LEMMA IdleTime ==
  \A l, u, n, m, i, t \in Nat :
    l <= u + m /\ t <= n /\ t - u >= i =>
      /\ l + (i - 2 * m) <= Greater(0, n - m)
      /\ l + (i - 2 * m) \in Int /\ Greater(0, n - m) \in Int
BY DEF Greater

\* What has paid for a burst may replace it.
LEMMA PaidBack ==
  \A u \in Nat : \A a, w \in Int :
    w >= u => u + a <= a + w /\ u + a \in Int /\ a + w \in Int
  OBVIOUS

\* Bounds compose.
LEMMA Bounds == \A a, b, c \in Int : a <= b /\ b <= c => a <= c
  OBVIOUS

\* A reading that is less than m old may age by one.
LEMMA Ageing ==
  \A n, a, m \in Nat : n - a < m /\ a <= n => n + 1 <= a + m /\ a <= n + 1
  OBVIOUS

\* A penalty set from a reading that is at most l old, and one that is left.
LEMMA PenaltyBounds ==
  /\ \A a, n, t, l, d \in Nat : a <= n + d /\ n <= t + l => t + d >= a - l
  /\ \A a, n, m, l, d \in Nat : a <= n + d /\ n <= m => a <= m + d /\ a >= a - l
  OBVIOUS

\* The clock and the lag are natural numbers.
LEMMA ClockTypes == TypeOK => now \in Nat /\ MaxLag \in Nat
BY LimitAssumption DEF TypeOK, Time

\* The types of what a ticket's handlers read.
LEMMA TicketTypes ==
  ASSUME TypeOK, NEW c \in Conn
  PROVE  /\ ticket[c].ip \in Key /\ Net(c) \in Key /\ ticket[c].at \in Time /\ known \subseteq Key
         /\ now \in Nat /\ MaxLag \in Nat /\ \A k \in Key : entry[k] \in Entry
BY KeysApart, LimitAssumption, SMTT(40) DEF TypeOK, Ticket, Time

\* The clock stands or goes on by one.
LEMMA ClockStep ==
  ASSUME TypeOK, now' = now \/ now' = now + 1
  PROVE  now \in Nat /\ now' \in Nat /\ now <= now' /\ MaxLag \in Nat /\ PenaltySeconds \in Nat
BY LimitAssumption DEF TypeOK, Time

\* The types of what sweep() compares.
LEMMA SweptTypes ==
  ASSUME TypeOK, NEW table \in SUBSET Key, NEW t \in Time, NEW k \in Swept(table, t)
  PROVE  k \in Key /\ t \in Nat /\ entry[k].touched \in Nat /\ IdleEntrySeconds \in Nat
BY LimitAssumption, SMTT(20) DEF Swept, TypeOK, Entry, Time

\* A reading is at most MaxLag old.
LEMMA ReadingBounds ==
  ASSUME NEW s, NEW t \in Reading(s), now \in Nat, MaxLag \in Nat
  PROVE  t \in Time /\ t \in Nat /\ t <= now /\ now <= t + MaxLag
BY DEF Reading, Time

\* Tokens are counted in units: what is cheaper is fewer.
LEMMA Cancelled ==
  ASSUME NEW a \in Nat, NEW b \in Nat, NEW c \in Nat \ {0}, a * c <= b * c
  PROVE  a <= b
<1> SUFFICES ASSUME b + 1 <= a PROVE FALSE
  OBVIOUS
<1>1. c * (b + 1) <= c * a
  BY Products
<1>2. c * (b + 1) = b * c + c /\ c * a = a * c
  OBVIOUS
<1>3. a * c \in Nat /\ b * c \in Nat
  BY ProductIsNat
<1> QED
  BY <1>1, <1>2, <1>3

\* n tokens spent and the tokens still there come from the burst and from the
\* refill up to the bucket's clock.
Funded(b, r, n) == n * One + b.tokens <= (r.burst + r.rate * b.last) * One

\* A refill adds at most rate tokens per unit of the time it moves the clock.
LEMMA RefilledFunded ==
  ASSUME NEW b \in Bucket, NEW r \in Rate, NEW t \in Time, NEW m \in Mode, NEW n \in Nat,
         r.rate > 0, Funded(b, r, n)
  PROVE  /\ Funded(Refilled(b, r, t, m), r, n)
         /\ Refilled(b, r, t, m).last = Greater(b.last, t)
<1> DEFINE d == Greater(0, t - b.last)
           g == Refilled(b, r, t, m)
<1>1. /\ b.tokens \in Nat /\ b.last \in Nat /\ t \in Nat /\ r.rate \in Nat /\ r.burst \in Nat
      /\ One \in Nat /\ Factor[m] \in Nat /\ Factor[m] <= One
  BY RateAssumption DEF Bucket, Rate, Time
<1>2. d \in Nat /\ Greater(b.last, t) = b.last + d
  BY <1>1 DEF Greater
<1>3. /\ g.tokens <= b.tokens + d * r.rate * Factor[m]
      /\ g.last = b.last + d /\ g.tokens \in Nat
  <2>1. g \in Bucket
    BY RefilledType
  <2>2. /\ g.tokens = Lesser(BucketCap(r, m), b.tokens + d * r.rate * Factor[m])
        /\ g.last = Greater(b.last, t)
    BY DEF Refilled
  <2>3. BucketCap(r, m) \in Nat /\ b.tokens + d * r.rate * Factor[m] \in Nat
    BY <1>1, <1>2, BucketCapType, Products
  <2> HIDE DEF g, d
  <2> QED
    BY <1>2, <2>1, <2>2, <2>3 DEF Lesser, Bucket
<1> HIDE DEF g, d
<1>4. d * r.rate \in Nat /\ r.rate * d = d * r.rate /\ r.rate * b.last \in Nat
  BY <1>1, <1>2, ProductIsNat
<1>5. (d * r.rate) * Factor[m] <= (d * r.rate) * One
  BY <1>1, <1>4, Products
<1>6. r.rate * (b.last + d) = r.rate * b.last + d * r.rate
  BY <1>1, <1>2, <1>4, Products
<1>7. (r.burst + r.rate * b.last + d * r.rate) * One
        = (r.burst + r.rate * b.last) * One + (d * r.rate) * One
  BY <1>1, <1>4, Products
<1>8. /\ n * One \in Nat /\ (r.burst + r.rate * b.last) * One \in Nat
      /\ (d * r.rate) * One \in Nat /\ (d * r.rate) * Factor[m] \in Nat
  BY <1>1, <1>4, ProductIsNat
<1>9. r.burst + r.rate * g.last = r.burst + r.rate * b.last + d * r.rate
  BY <1>1, <1>3, <1>4, <1>6
<1>10. n * One + g.tokens <= (r.burst + r.rate * b.last) * One + (d * r.rate) * One
  BY <1>1, <1>3, <1>5, <1>8 DEF Funded
<1>11. Funded(g, r, n)
  BY <1>7, <1>9, <1>10 DEF Funded
<1> QED
  BY <1>2, <1>3, <1>11 DEF g

\* A token that is taken pays for one more grant.
LEMMA ConsumedFunded ==
  ASSUME NEW b \in Bucket, NEW r \in Rate, NEW n \in Nat,
         r.rate > 0, HasToken(b, r), Funded(b, r, n)
  PROVE  /\ Funded(Consumed(b, r), r, n) /\ Funded(Consumed(b, r), r, n + 1)
         /\ Consumed(b, r).last = b.last
<1>1. /\ b.tokens \in Nat /\ b.last \in Nat /\ r.rate \in Nat /\ r.burst \in Nat
      /\ One \in Nat /\ b.tokens >= One
  BY RateAssumption DEF Bucket, Rate, Time, HasToken
<1>2. Consumed(b, r).tokens = b.tokens - One /\ Consumed(b, r).last = b.last
  BY <1>1 DEF Consumed, Bucket
<1>3. (n + 1) * One = n * One + One /\ n * One \in Nat
  BY <1>1, ProductIsNat
<1>4. r.rate * b.last \in Nat
  BY <1>1, ProductIsNat
<1>5. (r.burst + r.rate * b.last) * One \in Nat
  BY <1>1, <1>4, ProductIsNat
<1> QED
  BY <1>1, <1>2, <1>3, <1>5 DEF Funded

\* A new bucket is full: it pays for the grants that the time before it paid for.
LEMMA NewBucketFunded ==
  ASSUME NEW r \in Rate, NEW t \in Time, NEW n \in Nat, r.rate > 0, n <= r.rate * t
  PROVE  Funded(NewBucket(r, t), r, n) /\ NewBucket(r, t).last = t
<1>1. r.rate \in Nat /\ r.burst \in Nat /\ t \in Nat /\ One \in Nat
  BY RateAssumption DEF Rate, Time
<1>2. NewBucket(r, t).tokens = r.burst * One /\ NewBucket(r, t).last = t
  BY <1>1 DEF NewBucket
<1>3. r.rate * t \in Nat
  BY <1>1, ProductIsNat
<1>4. One * n <= One * (r.rate * t)
  BY <1>1, <1>3, Products
<1>5. One * n = n * One /\ One * (r.rate * t) = (r.rate * t) * One
  BY <1>1, <1>3
<1>6. (r.burst + r.rate * t) * One = r.burst * One + (r.rate * t) * One
  BY <1>1, <1>3, Products
<1>7. r.burst * One \in Nat /\ n * One \in Nat /\ (r.rate * t) * One \in Nat
  BY <1>1, <1>3, ProductIsNat
<1>8. n * One + r.burst * One <= (r.burst + r.rate * t) * One
  BY <1>4, <1>5, <1>6, <1>7
<1> QED
  BY <1>2, <1>8 DEF Funded

\* What a funded bucket has paid for is within the allowance of its clock.
LEMMA FundedWithin ==
  ASSUME NEW b \in Bucket, NEW r \in Rate, NEW n \in Nat, Funded(b, r, n)
  PROVE  n <= r.burst + r.rate * b.last
<1>1. /\ b.tokens \in Nat /\ b.last \in Nat /\ r.rate \in Nat /\ r.burst \in Nat
      /\ One \in Nat \ {0}
  BY RateAssumption DEF Bucket, Rate, Time
<1>2. r.rate * b.last \in Nat /\ n * One \in Nat
  BY <1>1, ProductIsNat
<1>3. (r.burst + r.rate * b.last) \in Nat /\ (r.burst + r.rate * b.last) * One \in Nat
  BY <1>1, <1>2, ProductIsNat
<1>4. n * One <= (r.burst + r.rate * b.last) * One
  BY <1>1, <1>2, <1>3, SMTT(20) DEF Funded
<1> QED
  BY <1>1, <1>3, <1>4, Cancelled

-----------------------------------------------------------------------------
(* The global buckets *)

\* Every limited global bucket is funded and its clock is not ahead.
GlobalFunded ==
  \A e \in Event :
    GlobalRate[e].rate > 0 => /\ Funded(global[e], GlobalRate[e], granted[e])
                              /\ global[e].last <= now

\* The history counts.
BudgetTypes == granted \in [Event -> Nat] /\ spent \in [Key -> [Event -> Nat]]

\* A call that locks the global buckets refills one and may charge it.
LEMMA GlobalCallFunded ==
  ASSUME TypeOK, BudgetTypes, GlobalFunded, NEW e \in Event, NEW p \in Policies,
         NEW t \in Reading(0), GlobalRate[e].rate > 0
  PROVE  /\ Funded(GlobalRefilled(e, t, p.mode), GlobalRate[e], granted[e])
         /\ GlobalRefilled(e, t, p.mode).last <= now
         /\ HasToken(GlobalRefilled(e, t, p.mode), GlobalRate[e]) =>
              LET b == Consumed(GlobalRefilled(e, t, p.mode), GlobalRate[e])
              IN  /\ Funded(b, GlobalRate[e], granted[e])
                  /\ Funded(b, GlobalRate[e], granted[e] + 1)
                  /\ b.last <= now
<1> DEFINE r == GlobalRate[e]
           g == GlobalRefilled(e, t, p.mode)
<1>1. /\ r \in Rate /\ p.mode \in Mode /\ global[e] \in Bucket /\ granted[e] \in Nat
      /\ t \in Time /\ t \in Nat /\ t <= now /\ now \in Nat
      /\ global[e].last \in Nat /\ global[e].last <= now
  BY RateAssumption, SMTT(20) DEF TypeOK, BudgetTypes, GlobalFunded, Reading, Time, Bucket
<1>2. g \in Bucket
  BY <1>1, GlobalType, SMTT(20)
<1>3. Funded(g, r, granted[e]) /\ g.last = Greater(global[e].last, t)
  BY <1>1, RefilledFunded, ZenonT(60) DEF GlobalFunded, GlobalRefilled
<1>4. g.last <= now
  BY <1>1, <1>3, Zenon DEF Greater
<1>5. HasToken(g, r) => /\ Funded(Consumed(g, r), r, granted[e])
                        /\ Funded(Consumed(g, r), r, granted[e] + 1)
                        /\ Consumed(g, r).last = g.last
  BY <1>1, <1>2, <1>3, ConsumedFunded, SMTT(20)
<1> QED
  BY <1>3, <1>4, <1>5

\* What Record() counts for the global bucket.
LEMMA RecordedGrants ==
  ASSUME BudgetTypes, NEW ip \in Ips, NEW e \in Event, NEW p \in Policies, Record(ip, e, p)
  PROVE  /\ BudgetTypes'
         /\ granted' = [granted EXCEPT ![e] =
              IF GlobalRate[e].rate > 0 /\ ~p.observe THEN granted[e] + 1 ELSE granted[e]]
<1>1. granted' \in [Event -> Nat]
  BY DEF Record, BudgetTypes
<1>2. ASSUME NEW k \in Key PROVE spent'[k] \in [Event -> Nat]
  BY DEF Record, BudgetTypes
<1>3. spent' \in [Key -> [Event -> Nat]]
  BY <1>2 DEF Record
<1> QED
  BY <1>1, <1>3 DEF Record, BudgetTypes

\* A grant is recorded against the bucket that was charged for it.
LEMMA GrantGlobalFunded ==
  ASSUME TypeOK, BudgetTypes, GlobalFunded, NEW ip \in Ips, NEW e \in Event,
         NEW p \in Policies, NEW t \in Reading(0),
         JudgedGlobal(HasToken(GlobalRefilled(e, t, p.mode), GlobalRate[e]), p),
         global' = GlobalCharged(e, GlobalRefilled(e, t, p.mode)),
         now' = now, Record(ip, e, p)
  PROVE  BudgetTypes' /\ GlobalFunded'
<1> DEFINE g == GlobalRefilled(e, t, p.mode)
           b == IF HasToken(g, GlobalRate[e]) THEN Consumed(g, GlobalRate[e]) ELSE g
<1>1. BudgetTypes'
  BY RecordedGrants
<1>2. global' = [global EXCEPT ![e] = b] /\ global \in [Event -> Bucket]
  BY SMTT(20) DEF GlobalCharged, TypeOK
<1>3. ASSUME NEW f \in Event, GlobalRate[f].rate > 0
      PROVE  Funded(global'[f], GlobalRate[f], granted'[f]) /\ global'[f].last <= now'
  <2>1. CASE f # e
    <3>1. global'[f] = global[f] /\ granted'[f] = granted[f]
      BY <1>2, <2>1, RecordedGrants, SMTT(20) DEF BudgetTypes
    <3> QED
      BY <1>3, <3>1, ZenonT(20) DEF GlobalFunded
  <2>2. CASE f = e
    <3>1. /\ global'[f] = b
          /\ granted'[f] = IF ~p.observe THEN granted[f] + 1 ELSE granted[f]
      BY <1>2, <1>3, <2>2, RecordedGrants, SMTT(20) DEF BudgetTypes
    <3>2. CASE HasToken(g, GlobalRate[e])
      BY <1>3, <2>2, <3>1, <3>2, GlobalCallFunded, Zenon
    <3>3. CASE ~HasToken(g, GlobalRate[e])
      <4>1. p.observe
        BY <3>3, Zenon DEF JudgedGlobal
      <4> QED
        BY <1>3, <2>2, <3>1, <3>3, <4>1, GlobalCallFunded, Zenon
    <3> QED
      BY <3>2, <3>3, ZenonT(20)
  <2> QED
    BY <2>1, <2>2, ZenonT(20)
<1>4. GlobalFunded'
  BY <1>3, Zenon DEF GlobalFunded, Funded
<1> QED
  BY <1>1, <1>4

\* A refused call refills at most one global bucket, every other step none.
LEMMA UngrantedGlobal ==
  ASSUME TypeOK, Ungranted
  PROVE  /\ now' = now \/ now' = now + 1
         /\ \/ global' = global
            \/ /\ now' = now
               /\ \E e \in Event, p \in Policies, t \in Reading(0) :
                    global' = [global EXCEPT ![e] = GlobalRefilled(e, t, p.mode)]
<1>1. ASSUME NEW c \in Conn, AcceptRefused(c)
      PROVE  /\ now' = now
             /\ \/ global' = global
                \/ \E e \in Event, p \in Policies, t \in Reading(0) :
                     global' = [global EXCEPT ![e] = GlobalRefilled(e, t, p.mode)]
  <2>1. "connect" \in Event
    BY DEF Event
  <2>2. PICK ip \in Ips, t \in Reading(0) :
          \/ AcceptCapped(c, ip, t)
          \/ \E p \in Policies : \/ AcceptSourceLimited(c, ip, p, t)
                                 \/ AcceptGlobalLimited(c, ip, p, t)
    BY <1>1 DEF AcceptRefused
  <2>3. CASE AcceptCapped(c, ip, t) \/ \E p \in Policies : AcceptSourceLimited(c, ip, p, t)
    BY <2>3, Zenon DEF AcceptCapped, AcceptSourceLimited
  <2>4. ASSUME NEW p \in Policies, AcceptGlobalLimited(c, ip, p, t)
        PROVE  /\ now' = now
               /\ \E e \in Event, q \in Policies, u \in Reading(0) :
                    global' = [global EXCEPT ![e] = GlobalRefilled(e, u, q.mode)]
    <3>1. /\ now' = now
          /\ global' = [global EXCEPT !["connect"] = GlobalRefilled("connect", t, p.mode)]
      BY <2>4, Zenon DEF AcceptGlobalLimited
    <3> QED
      BY <2>1, <3>1, Zenon
  <2> QED
    BY <2>2, <2>3, <2>4, Zenon
<1>2. ASSUME NEW c \in Conn, EventRefused(c)
      PROVE  /\ now' = now
             /\ \/ global' = global
                \/ \E e \in Event, p \in Policies, t \in Reading(0) :
                     global' = [global EXCEPT ![e] = GlobalRefilled(e, t, p.mode)]
  <2>1. Reading(ticket[c].at) \subseteq Reading(0)
    BY DEF Reading, Time
  <2>2. PICK e \in Event, p \in Policies, t \in Reading(ticket[c].at) :
          \/ EventIpLimited(c, e, p, t)
          \/ EventPrefixLimited(c, e, p, t)
          \/ EventGlobalLimited(c, e, p, t)
    BY <1>2 DEF EventRefused
  <2>3. CASE EventIpLimited(c, e, p, t) \/ EventPrefixLimited(c, e, p, t)
    BY <2>3, Zenon DEF EventIpLimited, EventPrefixLimited
  <2>4. CASE EventGlobalLimited(c, e, p, t)
    <3>1. /\ now' = now
          /\ global' = [global EXCEPT ![e] = GlobalRefilled(e, t, p.mode)]
      BY <2>4, Zenon DEF EventGlobalLimited
    <3> QED
      BY <2>1, <3>1, Zenon
  <2> QED
    BY <2>2, <2>3, <2>4, Zenon
<1>3. ASSUME NEW c \in Conn,
             \/ Handshake(c) \/ EnterStatus(c) \/ ServerReject(c) \/ StatusComplete(c)
             \/ MarkAdmittedIp(c) \/ MarkAdmittedPrefix(c) \/ Drop(c) \/ DropPrefix(c)
      PROVE  now' = now /\ global' = global
  BY <1>3, Zenon DEF Handshake, EnterStatus, ServerReject, StatusComplete, MarkAdmittedIp,
                     MarkAdmittedPrefix, Drop, DropIp, DropPrefix
<1>4. CASE Sweep \/ SweepPrefix
  BY <1>4, Zenon DEF Sweep, SweepIp, SweepPrefix
<1>5. CASE Tick
  BY <1>5 DEF Tick
<1> QED
  BY ZenonT(20), <1>1, <1>2, <1>3, <1>4, <1>5 DEF Ungranted

\* Every step keeps the global buckets funded.
LEMMA GlobalFundedStep ==
  ASSUME TypeOK, BudgetTypes, GlobalFunded, [BudgetNext]_bvars
  PROVE  BudgetTypes' /\ GlobalFunded'
<1>1. CASE UNCHANGED bvars
  BY <1>1 DEF bvars, vars, BudgetTypes, GlobalFunded, Funded
<1>2. CASE Ungranted /\ UNCHANGED <<granted, spent>>
  <2>1. BudgetTypes'
    BY <1>2 DEF BudgetTypes
  <2>2. now \in Nat /\ now <= now' /\ now' \in Nat
    BY <1>2, UngrantedGlobal DEF TypeOK, Time
  <2>3. CASE global' = global
    <3>1. ASSUME NEW e \in Event, GlobalRate[e].rate > 0
          PROVE  /\ Funded(global'[e], GlobalRate[e], granted'[e])
                 /\ global'[e].last <= now'
      <4>1. global[e].last \in Nat
        BY DEF TypeOK, Bucket, Time
      <4> QED
        BY <1>2, <2>2, <2>3, <3>1, <4>1 DEF GlobalFunded
    <3> QED
      BY ZenonT(20), <2>1, <3>1 DEF GlobalFunded, Funded
  <2>4. ASSUME NEW e \in Event, NEW p \in Policies, NEW t \in Reading(0), now' = now,
               global' = [global EXCEPT ![e] = GlobalRefilled(e, t, p.mode)]
        PROVE  GlobalFunded'
    <3>1. ASSUME NEW f \in Event, GlobalRate[f].rate > 0
          PROVE  /\ Funded(global'[f], GlobalRate[f], granted'[f])
                 /\ global'[f].last <= now'
      <4>1. global'[f] = IF f = e THEN GlobalRefilled(e, t, p.mode) ELSE global[f]
        BY <2>4 DEF TypeOK
      <4>2. granted'[f] = granted[f]
        BY <1>2
      <4> QED
        BY ZenonT(20), <2>4, <3>1, <4>1, <4>2, GlobalCallFunded DEF GlobalFunded
    <3> QED
      BY <3>1, SMTT(20) DEF GlobalFunded, Funded
  <2> QED
    BY ZenonT(20), <1>2, <2>1, <2>3, <2>4, UngrantedGlobal
<1>3. ASSUME NEW c \in Conn, NEW ip \in Ips, NEW p \in Policies, NEW t \in Reading(0),
             AcceptAdmit(c, ip, p, t), Record(ip, "connect", p)
      PROVE  BudgetTypes' /\ GlobalFunded'
  <2>1. /\ JudgedGlobal(HasToken(GlobalRefilled("connect", t, p.mode),
                                 GlobalRate["connect"]), p)
        /\ global' = GlobalCharged("connect", GlobalRefilled("connect", t, p.mode))
        /\ now' = now
    BY <1>3, Zenon DEF AcceptAdmit
  <2>2. "connect" \in Event
    BY ZenonT(20) DEF Event
  <2> QED
    BY <1>3, <2>1, <2>2, GrantGlobalFunded
<1>4. ASSUME NEW c \in Conn, NEW e \in Event, NEW p \in Policies,
             NEW t \in Reading(ticket[c].at),
             EventGranted(c, e, p, t), Record(ticket[c].ip, e, p)
      PROVE  BudgetTypes' /\ GlobalFunded'
  <2>1. /\ JudgedGlobal(HasToken(GlobalRefilled(e, t, p.mode), GlobalRate[e]), p)
        /\ global' = GlobalCharged(e, GlobalRefilled(e, t, p.mode))
        /\ now' = now
    BY <1>4, Zenon DEF EventGranted
  <2>2. t \in Reading(0) /\ ticket[c].ip \in Ips
    BY KeysApart DEF Reading, Time
  <2> QED
    BY <1>4, <2>1, <2>2, GrantGlobalFunded
<1> QED
  BY <1>1, <1>2, <1>3, <1>4, Zenon DEF BudgetNext

-----------------------------------------------------------------------------
(* The buckets of an address or a prefix *)

\* The buckets of entry x of k are funded for the grants s at time n, and none
\* has been refilled much later than the entry was touched.
Banked(k, x, s, n) ==
  \A e \in Event :
    RateOf(k)[e].rate > 0 => /\ Funded(x.buckets[e], RateOf(k)[e], s[e])
                             /\ x.buckets[e].last <= n
                             /\ x.buckets[e].last <= x.touched + MaxLag

\* A key outside the tables has used no more than what had been refilled by
\* the oldest reading a call may still use.
Earned(k, s, n) ==
  \A e \in Event :
    RateOf(k)[e].rate > 0 => s[e] <= RateOf(k)[e].rate * Greater(0, n - MaxLag)

\* Every key is funded, in the tables or outside.
IdentityFunded ==
  \A k \in Key : IF k \in known THEN Banked(k, entry[k], spent[k], now)
                 ELSE Earned(k, spent[k], now)

\* drop() and sweep() use their reading within MaxLag of taking it.
ReadingsFresh ==
  /\ \A c \in Conn : ticket[c].phase = "dropping" => /\ now <= ticket[c].at + MaxLag
                                                     /\ ticket[c].at <= now
  /\ sweeper.at <= now

\* Writing other fields, or touching the entry with a fresh reading.
LEMMA KeptBanked ==
  ASSUME NEW k, NEW x, NEW y, NEW s, NEW n \in Nat, Banked(k, y, s, n),
         x.buckets = y.buckets, x.touched \in Nat,
         \A e \in Event : y.buckets[e].last \in Nat,
         x.touched = y.touched \/ n <= x.touched + MaxLag
  PROVE  Banked(k, x, s, n)
<1>1. MaxLag \in Nat
  BY LimitAssumption
<1> QED
  BY <1>1 DEF Banked

\* The entry accept() works on is banked, be it stored or new: a new one has
\* full buckets, which Earned() pays for.
LEMMA ProvisionalBanked ==
  ASSUME TypeOK, BudgetTypes, IdentityFunded, NEW k \in Key, NEW t \in Reading(0)
  PROVE  Banked(k, Provisional(k, t), spent[k], now) /\ Provisional(k, t).touched = t
<1>1. /\ t \in Time /\ t \in Nat /\ now \in Nat /\ t <= now /\ now <= t + MaxLag
      /\ MaxLag \in Nat
  BY LimitAssumption DEF Reading, Time, TypeOK
<1>2. CASE k \in known
  <2>1. entry[k] \in Entry /\ Provisional(k, t) = [entry[k] EXCEPT !.touched = t]
    BY <1>2 DEF TypeOK, Provisional
  <2>2. /\ Provisional(k, t).buckets = entry[k].buckets
        /\ Provisional(k, t).touched = t
    BY <2>1 DEF Entry
  <2>3. \A e \in Event : entry[k].buckets[e].last \in Nat
    BY <2>1 DEF Entry, Bucket, Time
  <2>4. Banked(k, entry[k], spent[k], now)
    BY <1>2 DEF IdentityFunded
  <2> QED
    BY ZenonT(20), <1>1, <2>2, <2>3, <2>4, KeptBanked
<1>3. CASE k \notin known
  <2>1. /\ Provisional(k, t).touched = t
        /\ \A e \in Event : Provisional(k, t).buckets[e] = NewBucket(RateOf(k)[e], t)
    BY <1>3 DEF Provisional, NewEntry
  <2>2. ASSUME NEW e \in Event, RateOf(k)[e].rate > 0
        PROVE  /\ Funded(NewBucket(RateOf(k)[e], t), RateOf(k)[e], spent[k][e])
               /\ NewBucket(RateOf(k)[e], t).last = t
    <3>1. RateOf(k)[e] \in Rate /\ RateOf(k)[e].rate \in Nat /\ spent[k][e] \in Nat
      BY RateOfType DEF Rate, BudgetTypes
    <3>2. Greater(0, now - MaxLag) \in Nat /\ Greater(0, now - MaxLag) <= t
      BY <1>1 DEF Greater
    <3>3. RateOf(k)[e].rate * Greater(0, now - MaxLag) <= RateOf(k)[e].rate * t
      BY ZenonT(20), <1>1, <3>1, <3>2, Products
    <3>4. /\ RateOf(k)[e].rate * Greater(0, now - MaxLag) \in Nat
          /\ RateOf(k)[e].rate * t \in Nat
      BY ZenonT(20), <1>1, <3>1, <3>2, ProductIsNat
    <3>5. spent[k][e] <= RateOf(k)[e].rate * Greater(0, now - MaxLag)
      BY ZenonT(20), <1>3, <2>2 DEF IdentityFunded, Earned
    <3>6. spent[k][e] <= RateOf(k)[e].rate * t
      BY <3>1, <3>3, <3>4, <3>5
    <3> QED
      BY ZenonT(20), <1>1, <2>2, <3>1, <3>6, NewBucketFunded
  <2> QED
    BY <1>1, <2>1, <2>2 DEF Banked
<1> QED
  BY ZenonT(20), <1>2, <1>3

\* event() touches stored entries the same way.
LEMMA TouchedBanked ==
  ASSUME TypeOK, BudgetTypes, IdentityFunded, NEW k \in known, NEW t \in Reading(0)
  PROVE  Banked(k, Touched(k, t), spent[k], now) /\ Touched(k, t).touched = t
<1>1. k \in Key /\ Touched(k, t) = Provisional(k, t)
  BY DEF TypeOK, Touched, Provisional
<1> QED
  BY <1>1, ProvisionalBanked

\* available() refills one bucket of a touched entry.
LEMMA RefilledBanked ==
  ASSUME NEW k, NEW x \in Entry, NEW s \in [Event -> Nat], NEW n \in Time,
         NEW e \in Event, NEW t \in Time, NEW m \in Mode,
         Banked(k, x, s, n), t <= n, x.touched = t
  PROVE  /\ Banked(k, RefilledEntry(k, x, e, t, m), s, n)
         /\ RefilledEntry(k, x, e, t, m).touched = t
<1> DEFINE y == RefilledEntry(k, x, e, t, m)
<1>1. /\ y.touched = t
      /\ \A f \in Event : y.buckets[f] = IF f = e THEN Refilled(x.buckets[e], RateOf(k)[e], t, m)
                                         ELSE x.buckets[f]
  BY DEF RefilledEntry, Entry
<1>2. /\ \A f \in Event : x.buckets[f] \in Bucket /\ x.buckets[f].last \in Nat
      /\ t \in Nat /\ n \in Nat /\ MaxLag \in Nat
  BY LimitAssumption, SMTT(20) DEF Entry, Bucket, Time
<1> HIDE DEF y
<1>3. ASSUME NEW f \in Event, RateOf(k)[f].rate > 0
      PROVE  /\ Funded(y.buckets[f], RateOf(k)[f], s[f])
             /\ y.buckets[f].last <= n
             /\ y.buckets[f].last <= y.touched + MaxLag
  <2>1. CASE f # e
    BY <1>1, <1>3, <2>1, ZenonT(20) DEF Banked
  <2>2. CASE f = e
    <3>1. /\ Funded(x.buckets[f], RateOf(k)[f], s[f])
          /\ x.buckets[f].last <= n /\ x.buckets[f].last <= t + MaxLag
      BY <1>3, ZenonT(20) DEF Banked
    <3>2. /\ Funded(y.buckets[f], RateOf(k)[f], s[f])
          /\ y.buckets[f].last = Greater(x.buckets[f].last, t)
      BY <1>1, <1>2, <1>3, <2>2, <3>1, RateOfType, RefilledFunded, SMTT(20)
    <3> QED
      BY <1>1, <1>2, <3>1, <3>2, SMTT(20) DEF Greater
  <2> QED
    BY <2>1, <2>2
<1>4. Banked(k, y, s, n)
  BY <1>3, ZenonT(20) DEF Banked
<1> QED
  BY <1>1, <1>4 DEF y
\* What Record() adds to the grants s of a key that was charged.
Counted(k, s, e, p) ==
  IF RateOf(k)[e].rate > 0 /\ ~p.observe /\ ~p.exempt THEN [s EXCEPT ![e] = @ + 1] ELSE s

\* A grant that is recorded has taken a token.
LEMMA ChargedBanked ==
  ASSUME NEW k, NEW x \in Entry, NEW s \in [Event -> Nat], NEW n \in Time,
         NEW e \in Event, NEW p \in Policies, NEW ok,
         ok => HasToken(x.buckets[e], RateOf(k)[e]), Judged(ok, p), Banked(k, x, s, n)
  PROVE  Banked(k, Charged(k, x, e, ok, p), Counted(k, s, e, p), n)
<1> DEFINE y == Charged(k, x, e, ok, p)
           z == Counted(k, s, e, p)
<1>1. /\ \A f \in Event : x.buckets[f] \in Bucket
      /\ x.touched \in Nat /\ MaxLag \in Nat /\ n \in Nat
      /\ \A f \in Event : RateOf(k)[f] \in Rate /\ s[f] \in Nat
  BY LimitAssumption, RateOfType, SMTT(20) DEF Entry, Time
<1>2. CASE ok /\ ~p.exempt
  <2>1. /\ y.touched = x.touched
        /\ \A f \in Event : y.buckets[f] = IF f = e THEN Consumed(x.buckets[e], RateOf(k)[e])
                                           ELSE x.buckets[f]
    BY <1>2, ZenonT(20) DEF Charged, Entry
  <2>2. \A f \in Event : z[f] = s[f] \/ (f = e /\ z[f] = s[f] + 1)
    <3>1. z = s \/ z = [s EXCEPT ![e] = s[e] + 1]
      BY Zenon DEF Counted
    <3> HIDE DEF z
    <3> QED
      BY <3>1
  <2> HIDE DEF y, z
  <2>3. ASSUME NEW f \in Event, RateOf(k)[f].rate > 0
        PROVE  /\ Funded(y.buckets[f], RateOf(k)[f], z[f])
               /\ y.buckets[f].last = x.buckets[f].last
    <3>1. Funded(x.buckets[f], RateOf(k)[f], s[f])
      BY <2>3, SMTT(20) DEF Banked
    <3>2. CASE f # e
      BY <2>1, <2>2, <3>1, <3>2, ZenonT(20)
    <3>3. CASE f = e
      BY <1>1, <1>2, <2>1, <2>2, <2>3, <3>1, <3>3, ConsumedFunded, ZenonT(60)
    <3> QED
      BY ZenonT(20), <3>2, <3>3
  <2>4. Banked(k, y, z, n)
    BY <2>1, <2>3, SMTT(20) DEF Banked
  <2> QED
    BY <2>4 DEF y, z
<1>3. CASE ~(ok /\ ~p.exempt)
  <2>1. y = x /\ z = s
    BY <1>3, Zenon DEF Charged, Counted, Judged
  <2> QED
    BY <2>1
<1> QED
  BY ZenonT(20), <1>2, <1>3

\* A refused accept() writes the entries it found, touched and refilled.
LEMMA AcceptRefusedFunded ==
  ASSUME Inductive, BudgetTypes, IdentityFunded, NEW c \in Conn, AcceptRefused(c),
         spent' = spent
  PROVE  IdentityFunded'
<1>1. PICK ip \in Ips, t \in Reading(0) :
        \/ AcceptCapped(c, ip, t)
        \/ \E p \in Policies : \/ AcceptSourceLimited(c, ip, p, t)
                               \/ AcceptGlobalLimited(c, ip, p, t)
  BY DEF AcceptRefused
<1>2. /\ ip \in Key /\ Subnet[ip] \in Key /\ ip # Subnet[ip] /\ "connect" \in Event
      /\ TypeOK /\ t \in Time /\ t <= now /\ now \in Time
      /\ \A k \in Key : spent[k] \in [Event -> Nat]
  BY KeyAssumption, ZenonT(60) DEF Key, Event, Inductive, TypeOK, Reading, BudgetTypes
<1>3. \A k \in Key : /\ Banked(k, Provisional(k, t), spent[k], now)
                     /\ Provisional(k, t).touched = t /\ Provisional(k, t) \in Entry
  BY <1>2, ProvisionalBanked, ProvisionalType, ZenonT(20)
<1>4. \A k \in Key, p \in Policies : Banked(k, Presented(k, p, t), spent[k], now)
  <2>1. \A p \in Policies : p.mode \in Mode
    BY RateAssumption, ZenonT(20)
  <2> QED
    BY ZenonT(20), <1>2, <1>3, <2>1, RefilledBanked DEF Presented
<1>5. ASSUME NEW i, NEW n, Banked(ip, i, spent[ip], now),
             Banked(Subnet[ip], n, spent[Subnet[ip]], now), entry' = Stored(ip, i, n),
             now' = now, known' = known
      PROVE  IdentityFunded'
  <2>1. \A k \in known : entry'[k] = IF k = ip THEN i ELSE IF k = Subnet[ip] THEN n ELSE entry[k]
    BY <1>2, <1>5, Zenon DEF Stored, TypeOK
  <2>2. ASSUME NEW k \in Key
        PROVE  IF k \in known' THEN Banked(k, entry'[k], spent'[k], now')
               ELSE Earned(k, spent'[k], now')
    BY <1>5, <2>1, Zenon DEF IdentityFunded
  <2> QED
    BY <2>2, SMTT(20) DEF IdentityFunded, Banked, Earned, Funded
<1>6. CASE UNCHANGED <<entry, known, now>>
  BY <1>6, Zenon DEF IdentityFunded, Banked, Earned, Funded
<1>7. CASE AcceptCapped(c, ip, t)
  <2>1. /\ entry' = entry \/ entry' = Stored(ip, Provisional(ip, t), Provisional(Subnet[ip], t))
        /\ now' = now /\ known' = known
    BY <1>7, Zenon DEF AcceptCapped
  <2> QED
    BY <1>2, <1>3, <1>5, <1>6, <2>1, ZenonT(20)
<1>8. ASSUME NEW p \in Policies,
             AcceptSourceLimited(c, ip, p, t) \/ AcceptGlobalLimited(c, ip, p, t)
      PROVE  IdentityFunded'
  <2>1. /\ entry' = Stored(ip, Presented(ip, p, t), Presented(Subnet[ip], p, t))
        /\ now' = now /\ known' = known
    BY <1>8, Zenon DEF AcceptSourceLimited, AcceptGlobalLimited
  <2> QED
    BY <1>2, <1>4, <1>5, <2>1, Zenon
<1> QED
  BY <1>1, <1>7, <1>8
\* A step at one instant leaves every key alone or stores a banked entry for it.
LEMMA WrittenFunded ==
  ASSUME IdentityFunded, now' = now,
         \A k \in Key :
           \/ k \in known' /\ Banked(k, entry'[k], spent'[k], now)
           \/ entry'[k] = entry[k] /\ spent'[k] = spent[k] /\ (k \in known' <=> k \in known)
  PROVE  IdentityFunded'
<1>1. ASSUME NEW k \in Key
      PROVE  IF k \in known' THEN Banked(k, entry'[k], spent'[k], now')
             ELSE Earned(k, spent'[k], now')
  BY SMTT(20) DEF IdentityFunded
<1> QED
  BY <1>1, Zenon DEF IdentityFunded, Banked, Earned, Funded

\* What event() makes of the two entries before it charges them.
LEMMA AskedOfBanked ==
  ASSUME TypeOK, BudgetTypes, IdentityFunded, NEW k \in known, NEW e \in Event,
         NEW p \in Policies, NEW t \in Reading(0)
  PROVE  Banked(k, AskedOf(k, e, p, t), spent[k], now)
<1>1. /\ k \in Key /\ t \in Time /\ t <= now /\ now \in Time /\ p.mode \in Mode
      /\ spent[k] \in [Event -> Nat]
  BY RateAssumption, SMTT(20) DEF TypeOK, Reading, BudgetTypes
<1>2. Touched(k, t) \in Entry
  BY <1>1, AskedOfType, Zenon
<1>3. Banked(k, Touched(k, t), spent[k], now) /\ Touched(k, t).touched = t
  BY TouchedBanked
<1> QED
  BY <1>1, <1>2, <1>3, RefilledBanked, ZenonT(20) DEF AskedOf

\* A refused event() writes both entries and charges neither.
LEMMA EventRefusedFunded ==
  ASSUME TypeOK, BudgetTypes, IdentityFunded, NEW c \in Conn, EventRefused(c),
         spent' = spent
  PROVE  IdentityFunded'
<1> DEFINE ip == ticket[c].ip
           net == Net(c)
<1>1. PICK e \in Event, p \in Policies, t \in Reading(ticket[c].at) :
        \/ EventIpLimited(c, e, p, t)
        \/ EventPrefixLimited(c, e, p, t)
        \/ EventGlobalLimited(c, e, p, t)
  BY DEF EventRefused
<1>2. PICK n \in {Touched(net, t), AskedOf(net, e, p, t)} :
        /\ entry' = [entry EXCEPT ![ip] = AskedOf(ip, e, p, t), ![net] = n]
        /\ now' = now /\ known' = known /\ ip \in known /\ net \in known
  <2>1. CASE EventIpLimited(c, e, p, t)
    BY <2>1, Zenon DEF EventIpLimited
  <2>2. CASE EventPrefixLimited(c, e, p, t) \/ EventGlobalLimited(c, e, p, t)
    BY <2>2, Zenon DEF EventPrefixLimited, EventGlobalLimited
  <2> QED
    BY <1>1, <2>1, <2>2
<1>3. t \in Reading(0) /\ ip # net /\ ip \in Key /\ net \in Key
  BY KeysApart, SMTT(40) DEF Reading, Time
<1> HIDE DEF ip, net
<1>4. /\ Banked(ip, AskedOf(ip, e, p, t), spent[ip], now)
      /\ Banked(net, n, spent[net], now)
  BY <1>2, <1>3, AskedOfBanked, TouchedBanked, Zenon
<1>5. entry'[ip] = AskedOf(ip, e, p, t) /\ entry'[net] = n
  BY <1>2, <1>3 DEF TypeOK
<1>6. \A k \in Key \ {ip, net} : entry'[k] = entry[k]
  BY <1>2 DEF TypeOK
<1> QED
  BY <1>2, <1>4, <1>5, <1>6, WrittenFunded, Zenon

\* What Record() counts for the address and the prefix of a grant.
LEMMA RecordedSpending ==
  ASSUME BudgetTypes, NEW ip \in Ips, NEW e \in Event, NEW p \in Policies, Record(ip, e, p),
         NEW k \in Key
  PROVE  spent'[k] = IF k \in {ip, Subnet[ip]} THEN Counted(k, spent[k], e, p) ELSE spent[k]
  BY Zenon DEF Record, Counted

\* A granted event() charges both entries for what is recorded.
LEMMA EventGrantedFunded ==
  ASSUME TypeOK, BudgetTypes, IdentityFunded, NEW c \in Conn, NEW e \in Event,
         NEW p \in Policies, NEW t \in Reading(ticket[c].at),
         EventGranted(c, e, p, t), Record(ticket[c].ip, e, p)
  PROVE  IdentityFunded'
<1> DEFINE ip == ticket[c].ip
           net == Net(c)
           Paid(k) == Charged(k, AskedOf(k, e, p, t), e, EventOk(k, e, p, t), p)
<1>1. /\ entry' = [entry EXCEPT ![ip] = Paid(ip), ![net] = Paid(net)]
      /\ Judged(EventOk(ip, e, p, t), p) /\ Judged(EventOk(net, e, p, t), p)
      /\ now' = now /\ known' = known /\ ip \in known /\ net \in known
  BY Zenon DEF EventGranted
<1>2. t \in Reading(0) /\ t \in Time /\ now \in Time /\ ip \in Ips
      /\ ip # net /\ ip \in Key /\ net \in Key /\ net = Subnet[ip]
  BY KeysApart, SMTT(40) DEF Reading, Time, TypeOK, Net
<1> HIDE DEF ip, net
<1>3. ASSUME NEW k \in {ip, net} PROVE Banked(k, Paid(k), Counted(k, spent[k], e, p), now)
  <2>1. k \in Key /\ k \in known /\ Judged(EventOk(k, e, p, t), p)
    BY <1>1, <1>2, Zenon
  <2>2. AskedOf(k, e, p, t) \in Entry /\ spent[k] \in [Event -> Nat]
    BY <1>2, <2>1, AskedOfType, Zenon DEF BudgetTypes
  <2>3. Banked(k, AskedOf(k, e, p, t), spent[k], now)
    BY <1>2, <2>1, AskedOfBanked, Zenon
  <2>4. EventOk(k, e, p, t) => HasToken(AskedOf(k, e, p, t).buckets[e], RateOf(k)[e])
    BY Zenon DEF EventOk, SourceOk
  <2> QED
    BY <1>2, <2>1, <2>2, <2>3, <2>4, ChargedBanked, Zenon
<1>4. entry'[ip] = Paid(ip) /\ entry'[net] = Paid(net)
  BY <1>1, <1>2, Zenon DEF TypeOK
<1>5. \A k \in Key \ {ip, net} : entry'[k] = entry[k]
  BY <1>1, ZenonT(20) DEF TypeOK
<1>6. \A k \in Key : spent'[k] = IF k \in {ip, net} THEN Counted(k, spent[k], e, p)
                                 ELSE spent[k]
  BY <1>2, RecordedSpending, SMTT(40) DEF ip
<1> HIDE DEF Paid
<1> QED
  BY <1>1, <1>3, <1>4, <1>5, <1>6, WrittenFunded, Zenon
\* An admitting accept() stores both entries, charged for what is recorded.
LEMMA AcceptAdmitFunded ==
  ASSUME Inductive, BudgetTypes, IdentityFunded, NEW c \in Conn, NEW ip \in Ips,
         NEW p \in Policies, NEW t \in Reading(0),
         AcceptAdmit(c, ip, p, t), Record(ip, "connect", p)
  PROVE  IdentityFunded'
<1> DEFINE net == Subnet[ip]
           Paid(k) == Charged(k, Presented(k, p, t), "connect", ConnectOk(k, p, t), p)
<1>1. /\ entry' = [entry EXCEPT ![ip] = Admitted(ip, p, t), ![net] = Admitted(net, p, t)]
      /\ Judged(ConnectOk(ip, p, t), p) /\ Judged(ConnectOk(net, p, t), p)
      /\ now' = now /\ known' = known \cup {ip, net}
  BY Zenon DEF AcceptAdmit, SourcesJudged
<1>2. /\ TypeOK /\ t \in Time /\ t <= now /\ now \in Time /\ now \in Nat /\ p.mode \in Mode
      /\ ip # net /\ ip \in Key /\ net \in Key /\ "connect" \in Event
  BY KeyAssumption, RateAssumption, SMTT(20) DEF Reading, Time, Inductive, TypeOK, Key, Event
<1> HIDE DEF net
<1>3. ASSUME NEW k \in {ip, net}
      PROVE  Banked(k, Admitted(k, p, t), Counted(k, spent[k], "connect", p), now)
  <2>1. k \in Key /\ Judged(ConnectOk(k, p, t), p) /\ spent[k] \in [Event -> Nat]
    BY <1>1, <1>2, SMTT(20) DEF BudgetTypes
  <2>2. Provisional(k, t) \in Entry /\ Presented(k, p, t) \in Entry
    BY <1>2, <2>1, ProvisionalType, PresentedType, Zenon
  <2>3. Banked(k, Presented(k, p, t), spent[k], now)
    BY <1>2, <2>1, <2>2, ProvisionalBanked, RefilledBanked, Zenon DEF Presented
  <2>4. ConnectOk(k, p, t) => HasToken(Presented(k, p, t).buckets["connect"],
                                       RateOf(k)["connect"])
    BY Zenon DEF ConnectOk, SourceOk
  <2>5. Banked(k, Paid(k), Counted(k, spent[k], "connect", p), now) /\ Paid(k) \in Entry
    BY <1>2, <2>1, <2>2, <2>3, <2>4, ChargedBanked, ChargedType, Zenon
  <2>6. Admitted(k, p, t) = [Paid(k) EXCEPT !.active = @ + 1, !.pending = @ + 1]
    BY DEF Admitted
  <2> HIDE DEF Paid
  <2>7. /\ Admitted(k, p, t).buckets = Paid(k).buckets
        /\ Admitted(k, p, t).touched = Paid(k).touched
        /\ Paid(k).touched \in Nat
        /\ \A e \in Event : Paid(k).buckets[e].last \in Nat
    BY <2>5, <2>6, SMTT(20) DEF Entry, Time, Bucket
  <2> QED
    BY <1>2, <2>5, <2>7, KeptBanked, Zenon
<1>4. entry'[ip] = Admitted(ip, p, t) /\ entry'[net] = Admitted(net, p, t)
  BY <1>1, <1>2 DEF TypeOK
<1>5. \A k \in Key \ {ip, net} : entry'[k] = entry[k]
  BY <1>1, <1>2, SMTT(20) DEF TypeOK
<1>6. \A k \in Key : spent'[k] = IF k \in {ip, net} THEN Counted(k, spent[k], "connect", p)
                                 ELSE spent[k]
  BY <1>2, RecordedSpending, Zenon DEF net
<1> QED
  BY <1>1, <1>3, <1>4, <1>5, <1>6, WrittenFunded, Zenon

\* A step that rewrites one stored entry but not its buckets.
LEMMA OneKeptFunded ==
  ASSUME TypeOK, IdentityFunded, NEW j \in known, NEW y,
         entry' = [entry EXCEPT ![j] = y], y.buckets = entry[j].buckets,
         y.touched \in Nat, y.touched = entry[j].touched \/ now <= y.touched + MaxLag,
         UNCHANGED <<now, known, spent>>
  PROVE  IdentityFunded'
<1>1. j \in Key /\ now \in Nat /\ entry[j] \in Entry
  BY DEF TypeOK, Time
<1>2. \A e \in Event : entry[j].buckets[e].last \in Nat
  BY <1>1 DEF Entry, Bucket, Time
<1>3. Banked(j, entry[j], spent[j], now)
  BY <1>1 DEF IdentityFunded
<1>4. Banked(j, y, spent[j], now)
  BY ZenonT(20), <1>1, <1>2, <1>3, KeptBanked
<1>5. entry'[j] = y /\ \A k \in Key \ {j} : entry'[k] = entry[k]
  BY <1>1 DEF TypeOK
<1> QED
  BY ZenonT(20), <1>1, <1>4, <1>5, WrittenFunded

\* The other steps of a task: the flags, enter_status(), mark_admitted() and
\* both halves of drop().
LEMMA KeptStepFunded ==
  ASSUME Inductive, IdentityFunded, ReadingsFresh, spent' = spent, NEW c \in Conn,
         \/ Handshake(c) \/ EnterStatus(c) \/ ServerReject(c) \/ StatusComplete(c)
         \/ MarkAdmittedIp(c) \/ MarkAdmittedPrefix(c) \/ Drop(c) \/ DropPrefix(c)
  PROVE  IdentityFunded'
<1> DEFINE ip == ticket[c].ip
           net == Net(c)
<1>1. /\ TypeOK /\ ip \in Key /\ net \in Key /\ ticket[c].at \in Nat
      /\ \A k \in Key : entry[k] \in Entry /\ entry[k].touched \in Nat
  BY KeysApart, SMTT(20) DEF Inductive, TypeOK, Ticket, Entry, Time
<1>2. CASE UNCHANGED <<now, known, entry>>
  BY <1>2, WrittenFunded, Zenon
<1>3. CASE Handshake(c) \/ ServerReject(c) \/ StatusComplete(c)
  BY ZenonT(20), <1>2, <1>3 DEF Handshake, ServerReject, StatusComplete
<1>4. CASE EnterStatus(c)
  <2>1. CASE UNCHANGED <<now, known, entry>>
    BY <1>2, <2>1
  <2>2. CASE /\ entry' = [entry EXCEPT ![ip].status = @ + 1] /\ ip \in known
             /\ UNCHANGED <<now, known>>
    <3> DEFINE y == [entry[ip] EXCEPT !.status = @ + 1]
    <3>1. entry' = [entry EXCEPT ![ip] = y]
      BY <2>2
    <3>2. y.buckets = entry[ip].buckets /\ y.touched = entry[ip].touched
      BY <1>1 DEF Entry
    <3> HIDE DEF y
    <3> QED
      BY <1>1, <2>2, <3>1, <3>2, OneKeptFunded, Zenon
  <2> QED
    BY ZenonT(20), <1>4, <2>1, <2>2 DEF EnterStatus
<1>5. ASSUME NEW j \in Key, entry' = Unpended(j), UNCHANGED <<now, known>>
      PROVE  IdentityFunded'
  <2> DEFINE y == [entry[j] EXCEPT !.pending = @ - 1]
  <2>1. CASE j \in known
    <3>1. entry' = [entry EXCEPT ![j] = y]
      BY <1>5, <2>1 DEF Unpended
    <3>2. y.buckets = entry[j].buckets /\ y.touched = entry[j].touched
      BY <1>1, ZenonT(20) DEF Entry
    <3> HIDE DEF y
    <3> QED
      BY <1>1, <1>5, <2>1, <3>1, <3>2, OneKeptFunded, Zenon
  <2>2. CASE j \notin known
    <3>1. entry' = [entry EXCEPT ![j].pending = @]
      BY <1>5, <2>2 DEF Unpended
    <3>2. \A k \in Key : entry'[k] = entry[k]
      BY <1>1, <3>1 DEF TypeOK, Entry
    <3> QED
      BY ZenonT(20), <1>5, <3>2, WrittenFunded
  <2> QED
    BY <2>1, <2>2
<1>6. CASE MarkAdmittedIp(c) \/ MarkAdmittedPrefix(c)
  BY ZenonT(20), <1>1, <1>5, <1>6 DEF MarkAdmittedIp, MarkAdmittedPrefix
<1>7. ASSUME NEW j \in Key, NEW t \in Nat, now <= t + MaxLag, UNCHANGED <<now, known>>,
             entry' = IF j \in known THEN [entry EXCEPT ![j] = Released(j, @, ticket[c], t)]
                      ELSE entry
      PROVE  IdentityFunded'
  <2>1. CASE j \in known
    <3> DEFINE y == Released(j, entry[j], ticket[c], t)
    <3>1. entry' = [entry EXCEPT ![j] = y]
      BY <1>7, <2>1, ZenonT(60)
    <3>2. y.buckets = entry[j].buckets /\ y.touched = t
      <4>1. entry[j] \in Entry
        BY <1>1, Zenon
      <4> QED
        BY <4>1, ReleasedKeeps
    <3> HIDE DEF y
    <3> QED
      BY <1>1, <1>7, <2>1, <3>1, <3>2, OneKeptFunded, Zenon
  <2> QED
    BY <1>2, <1>7, <2>1, SMTT(20)
<1>8. CASE Drop(c)
  <2>1. PICK t \in Reading(ticket[c].at) : DropIp(c, t)
    BY ZenonT(20), <1>8 DEF Drop
  <2>2. t \in Nat /\ now <= t + MaxLag
    BY <1>1, ClockTypes, ReadingBounds, Zenon
  <2> QED
    BY ZenonT(20), <1>1, <1>7, <2>1, <2>2 DEF DropIp
<1>9. CASE DropPrefix(c)
  <2>1. now <= ticket[c].at + MaxLag
    BY <1>9 DEF DropPrefix, ReadingsFresh
  <2> QED
    BY <1>1, <1>7, <1>9, <2>1, ZenonT(20) DEF DropPrefix
<1> QED
  BY <1>3, <1>4, <1>6, <1>8, <1>9, ZenonT(20)

\* The same of integers.
LEMMA IntegerProducts ==
  ASSUME NEW a \in Nat
  PROVE  /\ \A b, c \in Int : b <= c => a * b <= a * c
         /\ \A b, c \in Int : a * (b + c) = a * b + a * c
         /\ \A b \in Int : a * b \in Int
<1>1. \A b, c \in Int : b <= c => a * b <= a * c
  OBVIOUS
<1>2. \A b, c \in Int : a * (b + c) = a * b + a * c
  OBVIOUS
<1> QED
  BY <1>1, <1>2, SMTT(20)

\* An entry that has been idle for IdleEntrySeconds has earned its next burst.
LEMMA IdleHasEarned ==
  ASSUME TypeOK, BudgetTypes, IdentityFunded, NEW k \in known, NEW t \in Time, t <= now,
         t - entry[k].touched >= IdleEntrySeconds
  PROVE  Earned(k, spent[k], now)
<1>1. /\ k \in Key /\ entry[k] \in Entry /\ entry[k].touched \in Nat /\ now \in Nat
      /\ t \in Nat /\ MaxLag \in Nat /\ IdleEntrySeconds \in Nat
  BY LimitAssumption DEF TypeOK, Entry, Time
<1>2. ASSUME NEW e \in Event, RateOf(k)[e].rate > 0
      PROVE  spent[k][e] <= RateOf(k)[e].rate * Greater(0, now - MaxLag)
  <2> DEFINE r == RateOf(k)[e]
             b == entry[k].buckets[e]
             w == IdleEntrySeconds - 2 * MaxLag
  <2>1. /\ r \in Rate /\ r.rate \in Nat /\ r.burst \in Nat /\ b \in Bucket
        /\ b.last \in Nat /\ b.last \in Int /\ spent[k][e] \in Nat /\ w \in Int
    BY <1>1, RateOfType DEF Rate, Entry, Bucket, Time, BudgetTypes
  <2>2. r.rate * w >= r.burst
    BY <1>2, IdleAssumption, ZenonT(20) DEF RateOf
  <2>3. Funded(b, r, spent[k][e]) /\ b.last <= entry[k].touched + MaxLag
    BY <1>1, <1>2, ZenonT(20) DEF IdentityFunded, Banked
  <2> HIDE DEF r, b
  <2>4. spent[k][e] <= r.burst + r.rate * b.last
    BY <2>1, <2>3, FundedWithin, ZenonT(20)
  <2>5. /\ b.last + w <= Greater(0, now - MaxLag)
        /\ b.last + w \in Int /\ Greater(0, now - MaxLag) \in Int
    BY <1>1, <2>1, <2>3, IdleTime, Zenon
  <2> HIDE DEF w
  <2>6. /\ r.rate * (b.last + w) = r.rate * b.last + r.rate * w
        /\ r.rate * b.last \in Int /\ r.rate * w \in Int
    BY <2>1, IntegerProducts, Zenon
  <2>7. /\ r.rate * (b.last + w) <= r.rate * Greater(0, now - MaxLag)
        /\ r.rate * Greater(0, now - MaxLag) \in Int
    BY <2>1, <2>5, IntegerProducts, Zenon
  <2>8. spent[k][e] <= r.rate * Greater(0, now - MaxLag)
    <3>1. r.rate * b.last + r.rate * w <= r.rate * Greater(0, now - MaxLag)
      BY <2>6, <2>7, Zenon
    <3>2. /\ r.burst + r.rate * b.last <= r.rate * b.last + r.rate * w
          /\ r.burst + r.rate * b.last \in Int /\ r.rate * b.last + r.rate * w \in Int
      BY <2>1, <2>2, <2>6, PaidBack, Zenon
    <3>3. r.burst + r.rate * b.last <= r.rate * Greater(0, now - MaxLag)
      BY <2>7, <3>1, <3>2, Bounds, Zenon
    <3>4. spent[k][e] \in Int
      BY <2>1
    <3> QED
      BY <2>4, <2>7, <3>2, <3>3, <3>4, Bounds, Zenon
  <2> QED
    BY <2>8, ZenonT(20) DEF r
<1> QED
  BY ZenonT(20), <1>2 DEF Earned

\* sweep() forgets only grants that have been earned.
LEMMA EvictFunded ==
  ASSUME TypeOK, BudgetTypes, IdentityFunded, NEW table \in SUBSET Key, NEW t \in Time,
         t <= now, Evict(Swept(table, t)), UNCHANGED <<now, spent>>
  PROVE  IdentityFunded'
<1> DEFINE gone == Swept(table, t)
<1>1. \A k \in gone : k \in known /\ t - entry[k].touched >= IdleEntrySeconds
  <2>1. ASSUME NEW k \in gone PROVE t - entry[k].touched >= IdleEntrySeconds
    <3>1. /\ k \in Key /\ t \in Nat /\ entry[k].touched \in Nat /\ IdleEntrySeconds \in Nat
      BY SweptTypes, Zenon
    <3>2. ~(t - entry[k].touched < IdleEntrySeconds)
      BY DEF Swept, Keep
    <3> QED
      BY <3>1, <3>2, NotShort, Zenon
  <2> QED
    BY <2>1, Zenon DEF Swept
<1>2. known' = known \ gone /\ \A k \in known' : entry'[k] = entry[k]
  BY SMTT(20) DEF Evict, TypeOK
<1> HIDE DEF gone
<1>3. ASSUME NEW k \in Key
      PROVE  IF k \in known' THEN Banked(k, entry'[k], spent'[k], now')
             ELSE Earned(k, spent'[k], now')
  <2>1. CASE k \in gone
    BY <1>1, <1>2, <2>1, IdleHasEarned, ZenonT(20)
  <2>2. CASE k \notin gone
    BY <1>2, <2>2, ZenonT(20) DEF IdentityFunded
  <2> QED
    BY <2>1, <2>2, Zenon
<1> QED
  BY <1>3, Zenon DEF IdentityFunded, Banked, Earned, Funded

\* Time only adds to what a key may spend.
LEMMA TickFunded ==
  ASSUME TypeOK, BudgetTypes, IdentityFunded, Tick, spent' = spent
  PROVE  IdentityFunded'
<1>1. now \in Nat /\ now' = now + 1 /\ MaxLag \in Nat /\ UNCHANGED <<known, entry>>
  BY ClockTypes, Zenon DEF Tick
<1>2. ASSUME NEW k \in known, Banked(k, entry[k], spent[k], now)
      PROVE  Banked(k, entry[k], spent[k], now')
  <2>1. \A e \in Event : entry[k].buckets[e].last \in Nat
    BY DEF TypeOK, Entry, Bucket, Time
  <2> QED
    BY <1>1, <1>2, <2>1 DEF Banked
<1>3. ASSUME NEW k \in Key, Earned(k, spent[k], now) PROVE Earned(k, spent[k], now')
  <2>1. ASSUME NEW e \in Event, RateOf(k)[e].rate > 0
        PROVE  spent[k][e] <= RateOf(k)[e].rate * Greater(0, now' - MaxLag)
    <3>1. RateOf(k)[e].rate \in Nat /\ spent[k][e] \in Nat
      BY RateOfType DEF Rate, BudgetTypes
    <3>2. /\ Greater(0, now - MaxLag) <= Greater(0, now' - MaxLag)
          /\ Greater(0, now - MaxLag) \in Int /\ Greater(0, now' - MaxLag) \in Int
      BY <1>1, SMTT(20) DEF Greater
    <3>3. /\ RateOf(k)[e].rate * Greater(0, now - MaxLag)
               <= RateOf(k)[e].rate * Greater(0, now' - MaxLag)
          /\ RateOf(k)[e].rate * Greater(0, now - MaxLag) \in Int
          /\ RateOf(k)[e].rate * Greater(0, now' - MaxLag) \in Int
      BY <3>1, <3>2, IntegerProducts, ZenonT(20)
    <3>4. spent[k][e] <= RateOf(k)[e].rate * Greater(0, now - MaxLag)
      BY <1>3, <2>1, ZenonT(20) DEF Earned
    <3>5. spent[k][e] \in Int
      BY <3>1
    <3> QED
      BY <3>3, <3>4, <3>5, Bounds, Zenon
  <2> QED
    BY <2>1, ZenonT(20) DEF Earned
<1>4. ASSUME NEW k \in Key
      PROVE  IF k \in known' THEN Banked(k, entry'[k], spent'[k], now')
             ELSE Earned(k, spent'[k], now')
  BY ZenonT(20), <1>1, <1>2, <1>3 DEF IdentityFunded
<1> QED
  BY <1>4, Zenon DEF IdentityFunded, Banked, Earned, Funded
\* Only drop() starts a drop, and the clock waits for it.
LEMMA ReadingsFreshStep ==
  ASSUME TypeOK, ReadingsFresh, [Next]_vars
  PROVE  ReadingsFresh'
<1> DEFINE Older(d) == /\ ticket'[d].phase = "dropping" =>
                            ticket[d].phase = "dropping" /\ ticket'[d].at = ticket[d].at
<1>1. /\ ticket \in [Conn -> Ticket] /\ now \in Nat /\ MaxLag \in Nat /\ sweeper.at \in Nat
      /\ \A d \in Conn : ticket[d].at \in Nat
  BY LimitAssumption DEF TypeOK, Ticket, Time
<1>2. CASE (\A d \in Conn : Older(d)) /\ UNCHANGED <<now, sweeper>>
  BY <1>2 DEF ReadingsFresh
<1>3. CASE UNCHANGED <<now, sweeper, ticket>>
  BY <1>3, SMTT(20) DEF ReadingsFresh
<1>4. ASSUME NEW c \in Conn, AcceptRefused(c) PROVE UNCHANGED <<now, sweeper, ticket>>
  BY <1>4, Zenon DEF AcceptRefused, AcceptCapped, AcceptSourceLimited, AcceptGlobalLimited
<1>5. ASSUME NEW c \in Conn, EventRefused(c)
      PROVE  (\A d \in Conn : Older(d)) /\ UNCHANGED <<now, sweeper>>
  <2>1. PICK e \in Event, t \in Time : /\ Asks(c, e) /\ Refused(c, e, t)
                                       /\ UNCHANGED <<now, sweeper>>
    BY <1>5, RefusedEvent, Zenon
  <2>2. ticket'[c].phase = ticket[c].phase /\ ticket[c].phase = "live"
    BY <1>1, <2>1 DEF Refused, Asks, Serving, Ticket
  <2>3. \A d \in Conn \ {c} : ticket'[d] = ticket[d]
    BY <1>1, <2>1 DEF Refused
  <2> QED
    BY <2>1, <2>2, <2>3, Zenon
<1>6. ASSUME NEW c \in Conn, Handshake(c) \/ ServerReject(c) \/ StatusComplete(c)
      PROVE  (\A d \in Conn : Older(d)) /\ UNCHANGED <<now, sweeper>>
  BY <1>1, <1>6 DEF Handshake, ServerReject, StatusComplete, Ticket
<1>7. ASSUME NEW c \in Conn, EnterStatus(c) \/ MarkAdmittedIp(c) \/ MarkAdmittedPrefix(c)
      PROVE  (\A d \in Conn : Older(d)) /\ UNCHANGED <<now, sweeper>>
  BY <1>1, <1>7 DEF EnterStatus, MarkAdmittedIp, MarkAdmittedPrefix, Ticket
<1>8. ASSUME NEW c \in Conn, Drop(c) PROVE ReadingsFresh'
  <2>1. PICK t \in Reading(ticket[c].at) : DropIp(c, t)
    BY <1>8 DEF Drop
  <2>2. /\ ticket' = [ticket EXCEPT ![c].phase = "dropping", ![c].at = t]
        /\ UNCHANGED <<now, sweeper>>
    BY <2>1 DEF DropIp
  <2>3. ticket'[c].at = t /\ \A d \in Conn \ {c} : ticket'[d] = ticket[d]
    BY ZenonT(20), <1>1, <2>2 DEF Ticket
  <2>4. now <= t + MaxLag /\ t <= now
    BY <1>1, ReadingBounds, Zenon
  <2> QED
    BY <2>2, <2>3, <2>4, Zenon DEF ReadingsFresh
<1>9. ASSUME NEW c \in Conn, DropPrefix(c)
      PROVE  (\A d \in Conn : Older(d)) /\ UNCHANGED <<now, sweeper>>
  BY ZenonT(20), <1>1, <1>9 DEF DropPrefix, NoTicket, NewTicket
<1>10. CASE Sweep
  <2>1. PICK t \in Reading(sweeper.at) : SweepIp(t)
    BY <1>10 DEF Sweep
  <2>2. t <= now /\ sweeper'.at = t /\ UNCHANGED <<now, ticket>>
    BY ZenonT(20), <2>1 DEF SweepIp, Reading, TypeOK
  <2> QED
    BY <2>2 DEF ReadingsFresh
<1>11. CASE SweepPrefix
  <2>1. sweeper'.at = sweeper.at /\ UNCHANGED <<now, ticket>>
    BY <1>11 DEF SweepPrefix, TypeOK
  <2> QED
    BY <2>1 DEF ReadingsFresh
<1>12. CASE Tick
  <2>1. now' = now + 1 /\ UNCHANGED <<ticket, sweeper>>
    BY <1>12 DEF Tick
  <2>2. ASSUME NEW c \in Conn, ticket[c].phase = "dropping"
        PROVE  now' <= ticket[c].at + MaxLag /\ ticket[c].at <= now'
    <3>1. now - ticket[c].at < MaxLag
      BY <1>12, <2>2 DEF Tick, InProgressSince
    <3>2. ticket[c].at <= now
      BY ZenonT(20), <2>2 DEF ReadingsFresh
    <3> QED
      BY <1>1, <2>1, <3>1, <3>2, Ageing, Zenon
  <2> QED
    BY <1>1, <2>1, <2>2 DEF ReadingsFresh
<1>13. ASSUME NEW c \in Conn, NEW ip \in Ips, NEW p \in Policies, NEW t \in Reading(0),
              AcceptAdmit(c, ip, p, t)
       PROVE  (\A d \in Conn : Older(d)) /\ UNCHANGED <<now, sweeper>>
  <2>1. ticket' = [ticket EXCEPT ![c] = NewTicket("live", ip, t)]
        /\ UNCHANGED <<now, sweeper>>
    BY <1>13, Zenon DEF AcceptAdmit
  <2> QED
    BY <1>1, <2>1, ZenonT(20) DEF NewTicket
<1>14. ASSUME NEW c \in Conn, NEW e \in Event, NEW p \in Policies,
              NEW t \in Reading(ticket[c].at), EventGranted(c, e, p, t)
       PROVE  (\A d \in Conn : Older(d)) /\ UNCHANGED <<now, sweeper>>
  <2>1. /\ ticket' = [ticket EXCEPT ![c].at = t, ![c].asked = @ \cup {e}]
        /\ ticket[c].phase = "live" /\ UNCHANGED <<now, sweeper>>
    BY <1>14, Zenon DEF EventGranted, Asks, Serving
  <2>2. ticket'[c].phase = "live" /\ \A d \in Conn \ {c} : ticket'[d] = ticket[d]
    BY <1>1, <2>1 DEF Ticket
  <2> QED
    BY <2>1, <2>2, Zenon
<1>15. CASE UNCHANGED vars
  BY <1>3, <1>15 DEF vars
<1> HIDE DEF Older
<1>16. ASSUME NEW c \in Conn,
              \/ AcceptRefused(c) \/ EventRefused(c)
              \/ Handshake(c) \/ EnterStatus(c) \/ ServerReject(c) \/ StatusComplete(c)
              \/ MarkAdmittedIp(c) \/ MarkAdmittedPrefix(c)
              \/ Drop(c) \/ DropPrefix(c)
       PROVE  ReadingsFresh'
  BY <1>2, <1>3, <1>4, <1>5, <1>6, <1>7, <1>8, <1>9, <1>16, Zenon
<1> QED
  BY <1>2, <1>10, <1>11, <1>12, <1>13, <1>14, <1>15, <1>16, Zenon DEF Next, Ungranted

\* Every step keeps the identity buckets funded.
LEMMA IdentityFundedStep ==
  ASSUME Inductive, BudgetTypes, IdentityFunded, ReadingsFresh, [BudgetNext]_bvars
  PROVE  IdentityFunded'
<1>1. CASE UNCHANGED bvars
  BY <1>1 DEF bvars, vars, IdentityFunded, Banked, Earned, Funded
<1>2. CASE Ungranted /\ UNCHANGED <<granted, spent>>
  <2>1. TypeOK /\ spent' = spent
    BY <1>2 DEF Inductive
  <2>2. ASSUME NEW c \in Conn,
              \/ AcceptRefused(c) \/ EventRefused(c)
              \/ Handshake(c) \/ EnterStatus(c) \/ ServerReject(c) \/ StatusComplete(c)
              \/ MarkAdmittedIp(c) \/ MarkAdmittedPrefix(c)
              \/ Drop(c) \/ DropPrefix(c)
        PROVE IdentityFunded'
    BY <2>1, <2>2, AcceptRefusedFunded, EventRefusedFunded, KeptStepFunded, Zenon
  <2>3. Ips \subseteq Key /\ Prefixes \subseteq Key
    BY DEF Key
  <2>4. CASE Sweep
    <3>1. PICK t \in Reading(sweeper.at) : SweepIp(t)
      BY <2>4 DEF Sweep
    <3>2. t \in Time /\ t <= now /\ Evict(Swept(Ips, t)) /\ now' = now
      BY <3>1 DEF SweepIp, Reading
    <3> QED
      BY ZenonT(20), <2>1, <2>3, <3>2, EvictFunded
  <2>5. CASE SweepPrefix
    <3>1. /\ sweeper.at \in Time /\ sweeper.at <= now
          /\ Evict(Swept(Prefixes, sweeper.at)) /\ now' = now
      BY <2>1, <2>5 DEF SweepPrefix, ReadingsFresh, TypeOK
    <3> QED
      BY ZenonT(20), <2>1, <2>3, <3>1, EvictFunded
  <2>6. CASE Tick
    BY ZenonT(20), <2>1, <2>6, TickFunded
  <2> QED
    BY <1>2, <2>2, <2>4, <2>5, <2>6, Zenon DEF Ungranted
<1>3. ASSUME NEW c \in Conn, NEW ip \in Ips, NEW p \in Policies, NEW t \in Reading(0),
             AcceptAdmit(c, ip, p, t), Record(ip, "connect", p)
      PROVE  IdentityFunded'
  BY <1>3, AcceptAdmitFunded
<1>4. ASSUME NEW c \in Conn, NEW e \in Event, NEW p \in Policies,
             NEW t \in Reading(ticket[c].at),
             EventGranted(c, e, p, t), Record(ticket[c].ip, e, p)
      PROVE  IdentityFunded'
  BY <1>4, EventGrantedFunded DEF Inductive
<1> QED
  BY <1>1, <1>2, <1>3, <1>4, ZenonT(60) DEF BudgetNext

-----------------------------------------------------------------------------
(* The budgets *)

\* The invariant from which both budgets follow.
BudgetInductive ==
  Inductive /\ BudgetTypes /\ GlobalFunded /\ IdentityFunded /\ ReadingsFresh

\* A grant and its record are one step of the limiter.
LEMMA BudgetStepIsStep ==
  ASSUME [BudgetNext]_bvars
  PROVE  [Next]_vars
<1>1. CASE UNCHANGED bvars
  BY <1>1 DEF bvars
<1>2. CASE BudgetNext
  BY <1>2, Zenon DEF BudgetNext, Next
<1> QED
  BY <1>1, <1>2

\* It holds at first: every bucket begins with its burst.
LEMMA BudgetInitInductive ==
  ASSUME BudgetInit
  PROVE  BudgetInductive
<1>1. Init /\ Inductive /\ known = {} /\ now = 0
  BY InitInductive DEF BudgetInit, Init
<1>2. BudgetTypes
  BY DEF BudgetInit, BudgetTypes
<1>3. GlobalFunded
  <2>1. ASSUME NEW e \in Event, GlobalRate[e].rate > 0
        PROVE  Funded(global[e], GlobalRate[e], granted[e]) /\ global[e].last <= now
    <3>1. global[e] = NewBucket(GlobalRate[e], 0) /\ granted[e] = 0
      BY DEF BudgetInit, Init
    <3>2. GlobalRate[e] \in Rate /\ GlobalRate[e].rate \in Nat /\ 0 \in Time
      BY RateAssumption, LimitAssumption DEF Rate, Time
    <3>3. 0 <= GlobalRate[e].rate * 0
      BY <3>2
    <3>4. /\ Funded(NewBucket(GlobalRate[e], 0), GlobalRate[e], 0)
          /\ NewBucket(GlobalRate[e], 0).last = 0
      BY <2>1, <3>2, <3>3, NewBucketFunded, ZenonT(20)
    <3> QED
      BY <1>1, <3>1, <3>4, SMTT(20)
  <2> QED
    BY <2>1 DEF GlobalFunded
<1>4. IdentityFunded
  <2>1. ASSUME NEW k \in Key, NEW e \in Event
        PROVE  spent[k][e] <= RateOf(k)[e].rate * Greater(0, now - MaxLag)
    <3>1. RateOf(k)[e].rate \in Nat /\ MaxLag \in Nat
      BY ZenonT(20), RateOfType, LimitAssumption DEF Rate
    <3>2. Greater(0, now - MaxLag) = 0
      BY <1>1, <3>1 DEF Greater
    <3>3. spent[k][e] = 0
      BY ZenonT(20) DEF BudgetInit
    <3> QED
      BY <3>1, <3>2, <3>3
  <2> QED
    BY <1>1, <2>1, ZenonT(20) DEF IdentityFunded, Earned
<1>5. ReadingsFresh
  BY <1>1 DEF Init, ReadingsFresh, NoTicket, NewTicket
<1> QED
  BY <1>1, <1>2, <1>3, <1>4, <1>5, ZenonT(20) DEF BudgetInductive

\* Every step keeps it.
LEMMA BudgetNextInductive ==
  ASSUME BudgetInductive, [BudgetNext]_bvars
  PROVE  BudgetInductive'
<1>1. [Next]_vars
  BY BudgetStepIsStep
<1>2. Inductive /\ TypeOK
  BY DEF BudgetInductive, Inductive
<1>3. Inductive'
  BY ZenonT(20), <1>1, <1>2, NextInductive
<1>4. BudgetTypes' /\ GlobalFunded'
  BY <1>2, GlobalFundedStep DEF BudgetInductive
<1>5. IdentityFunded'
  BY IdentityFundedStep DEF BudgetInductive
<1>6. ReadingsFresh'
  BY <1>1, <1>2, ReadingsFreshStep DEF BudgetInductive
<1> QED
  BY ZenonT(20), <1>3, <1>4, <1>5, <1>6 DEF BudgetInductive

\* For every configuration, number of tasks and interleaving: the enforced
\* grants of a globally limited event stay within burst + rate * elapsed time,
\* although every call uses a clock reading of its own, up to MaxLag old.
THEOREM GlobalBudgetHolds == BudgetSpec => []GlobalBudget
<1>1. BudgetInit => BudgetInductive
  BY BudgetInitInductive
<1>2. BudgetInductive /\ [BudgetNext]_bvars => BudgetInductive'
  BY BudgetNextInductive, ZenonT(20)
<1>3. BudgetInductive => GlobalBudget
  <2> SUFFICES ASSUME BudgetInductive, NEW e \in Event, GlobalRate[e].rate > 0
               PROVE  granted[e] <= GlobalRate[e].burst + GlobalRate[e].rate * now
    BY ZenonT(20) DEF GlobalBudget, Allowed
  <2>1. /\ global[e] \in Bucket /\ GlobalRate[e] \in Rate /\ granted[e] \in Nat
        /\ global[e].last \in Nat /\ now \in Nat
        /\ GlobalRate[e].rate \in Nat /\ GlobalRate[e].burst \in Nat
    BY RateAssumption, SMTT(20)
       DEF BudgetInductive, Inductive, TypeOK, BudgetTypes, Bucket, Rate, Time
  <2>2. Funded(global[e], GlobalRate[e], granted[e]) /\ global[e].last <= now
    BY Zenon DEF BudgetInductive, GlobalFunded
  <2>3. granted[e] <= GlobalRate[e].burst + GlobalRate[e].rate * global[e].last
    BY <2>1, <2>2, FundedWithin, ZenonT(20)
  <2>4. /\ GlobalRate[e].rate * global[e].last <= GlobalRate[e].rate * now
        /\ GlobalRate[e].rate * global[e].last \in Nat /\ GlobalRate[e].rate * now \in Nat
    BY <2>1, <2>2, Products, ProductIsNat, ZenonT(20)
  <2> QED
    BY <2>1, <2>3, <2>4, SMTT(40)
<1> QED
  BY <1>1, <1>2, <1>3, PTL DEF BudgetSpec

\* The same for every address and prefix, across the eviction of its entry by
\* sweep() and its recreation with full buckets: an entry that is idle for
\* IdleEntrySeconds has earned what it is given back.
THEOREM IdentityBudgetHolds == BudgetSpec => []IdentityBudget
<1>1. BudgetInit => BudgetInductive
  BY BudgetInitInductive
<1>2. BudgetInductive /\ [BudgetNext]_bvars => BudgetInductive'
  BY BudgetNextInductive
<1>3. BudgetInductive => IdentityBudget
  <2> SUFFICES ASSUME BudgetInductive, NEW k \in Key, NEW e \in Event,
                      RateOf(k)[e].rate > 0
               PROVE  spent[k][e] <= RateOf(k)[e].burst + RateOf(k)[e].rate * now
    BY ZenonT(20) DEF IdentityBudget, Allowed
  <2> DEFINE r == RateOf(k)[e]
             b == entry[k].buckets[e]
  <2>1. /\ b \in Bucket /\ b.last \in Nat /\ r \in Rate /\ spent[k][e] \in Nat /\ now \in Nat
        /\ r.rate \in Nat /\ r.burst \in Nat /\ MaxLag \in Nat
    BY RateOfType, LimitAssumption, SMTT(20)
       DEF BudgetInductive, Inductive, TypeOK, BudgetTypes, Entry, Bucket, Rate, Time
  <2>2. CASE k \in known
    <3>1. Funded(b, r, spent[k][e]) /\ b.last <= now
      BY <2>2, Zenon DEF BudgetInductive, IdentityFunded, Banked
    <3> HIDE DEF b, r
    <3>2. spent[k][e] <= r.burst + r.rate * b.last
      BY <2>1, <3>1, FundedWithin, Zenon
    <3>3. /\ r.rate * b.last <= r.rate * now
          /\ r.rate * b.last \in Nat /\ r.rate * now \in Nat
      BY <2>1, <3>1, Products, ProductIsNat, ZenonT(20)
    <3>4. spent[k][e] <= r.burst + r.rate * now
      BY <2>1, <3>2, <3>3, LargerBound, Zenon
    <3> QED
      BY <3>4, Zenon DEF r
  <2>3. CASE k \notin known
    <3>1. spent[k][e] <= r.rate * Greater(0, now - MaxLag)
      BY <2>3, ZenonT(20) DEF BudgetInductive, IdentityFunded, Earned
    <3> HIDE DEF b, r
    <3>2. Greater(0, now - MaxLag) \in Nat /\ Greater(0, now - MaxLag) <= now
      BY <2>1, CutOff, Zenon
    <3>3. /\ r.rate * Greater(0, now - MaxLag) <= r.rate * now
          /\ r.rate * Greater(0, now - MaxLag) \in Nat /\ r.rate * now \in Nat
      BY <2>1, <3>2, Products, ProductIsNat, ZenonT(20)
    <3>4. spent[k][e] <= r.burst + r.rate * now
      BY <2>1, <3>1, <3>3, LargerBound, Zenon
    <3> QED
      BY <3>4, Zenon DEF r
  <2> QED
    BY <2>2, <2>3, ZenonT(20)
<1> QED
  BY <1>1, <1>2, <1>3, PTL DEF BudgetSpec

-----------------------------------------------------------------------------
(* Penalties *)

\* What one step may do to the penalty of an entry that is there afterwards.
PenaltyMoves(k) ==
  \/ k \in known /\ entry'[k].penaltyUntil = entry[k].penaltyUntil
  \/ k \notin known /\ entry'[k].penaltyUntil \in Time /\ entry'[k].penaltyUntil <= now
  \/ \E t \in Time : /\ t <= now /\ now <= t + MaxLag
                     /\ entry'[k].penaltyUntil = t + PenaltySeconds

\* Time moves by ticks and every penalty as it may.
PenaltiesMove == (now' = now \/ now' = now + 1) /\ \A k \in known' : PenaltyMoves(k)

\* accept() and event() read the penalty and leave it.
LEMMA JudgedPenalty ==
  ASSUME Inductive, NEW k \in Key, NEW p \in Policies, NEW t \in Time, t <= now
  PROVE  LET Same(x) == \/ k \in known /\ x.penaltyUntil = entry[k].penaltyUntil
                        \/ /\ k \notin known
                           /\ x.penaltyUntil \in Time /\ x.penaltyUntil <= now
         IN  /\ Same(Provisional(k, t)) /\ Same(Presented(k, p, t))
             /\ Same(Admitted(k, p, t))
<1>1. /\ Provisional(k, t) \in Entry /\ Presented(k, p, t) \in Entry
  BY ProvisionalType, PresentedType
<1>2. /\ k \in known => Provisional(k, t).penaltyUntil = entry[k].penaltyUntil
      /\ k \notin known => Provisional(k, t).penaltyUntil = t
  BY DEF Provisional, NewEntry, Inductive, TypeOK, Entry
<1>3. Presented(k, p, t).penaltyUntil = Provisional(k, t).penaltyUntil
  BY <1>1 DEF Presented, RefilledEntry, Entry
<1>4. Admitted(k, p, t).penaltyUntil = Presented(k, p, t).penaltyUntil
  BY <1>1, SMTT(20) DEF Admitted, Charged, Entry
<1> QED
  BY ZenonT(20), <1>2, <1>3, <1>4

\* Asking and charging the buckets of an entry leave its penalty alone.
LEMMA AskedPenalty ==
  ASSUME TypeOK, NEW k \in Key, NEW e \in Event, NEW p \in Policies, NEW t \in Time, NEW ok
  PROVE  /\ Touched(k, t).penaltyUntil = entry[k].penaltyUntil
         /\ AskedOf(k, e, p, t).penaltyUntil = entry[k].penaltyUntil
         /\ Charged(k, AskedOf(k, e, p, t), e, ok, p).penaltyUntil = entry[k].penaltyUntil
<1>1. entry[k] \in Entry /\ Touched(k, t) \in Entry /\ AskedOf(k, e, p, t) \in Entry
  BY AskedOfType DEF TypeOK
<1>2. Touched(k, t).penaltyUntil = entry[k].penaltyUntil
  BY <1>1 DEF Touched, Entry
<1>3. AskedOf(k, e, p, t).penaltyUntil = Touched(k, t).penaltyUntil
  BY <1>1 DEF AskedOf, RefilledEntry, Entry
<1>4. Charged(k, AskedOf(k, e, p, t), e, ok, p).penaltyUntil = AskedOf(k, e, p, t).penaltyUntil
  BY <1>1 DEF Charged, Entry
<1> QED
  BY <1>2, <1>3, <1>4, Zenon

\* drop() leaves the penalty or starts a new one at its reading.
LEMMA ReleasedPenalty ==
  ASSUME NEW k, NEW x \in Entry, NEW tk, NEW t
  PROVE  Released(k, x, tk, t).penaltyUntil \in {x.penaltyUntil, t + PenaltySeconds}
  BY DEF Released, Entry

\* accept() judges a penalty and never shortens it.
LEMMA AcceptPenalties ==
  ASSUME Inductive, NEW c \in Conn,
         \/ AcceptRefused(c)
         \/ \E ip \in Ips, p \in Policies, t \in Reading(0) : AcceptAdmit(c, ip, p, t)
  PROVE  PenaltiesMove
<1>1. TypeOK /\ Ips \subseteq Key /\ \A ip \in Ips : Subnet[ip] \in Key /\ Subnet[ip] # ip
  BY ZenonT(20), KeyAssumption DEF Inductive, Key
<1>2. CASE UNCHANGED <<now, known, entry>>
  BY <1>2, SMTT(20) DEF PenaltiesMove, PenaltyMoves
<1>3. ASSUME NEW ip \in Ips, NEW t \in Time, NEW p \in Policies, t <= now,
             entry' = Stored(ip, Presented(ip, p, t), Presented(Subnet[ip], p, t)),
             UNCHANGED <<now, known>>
      PROVE  PenaltiesMove
  <2>1. \A k \in known : entry'[k] = IF k \in {ip, Subnet[ip]} THEN Presented(k, p, t)
                                     ELSE entry[k]
    BY <1>1, <1>3, Zenon DEF Stored, TypeOK
  <2>2. \A k \in known : Presented(k, p, t).penaltyUntil = entry[k].penaltyUntil
    BY <1>1, <1>3, JudgedPenalty, Zenon DEF TypeOK
  <2> QED
    BY <1>3, <2>1, <2>2, Zenon DEF PenaltiesMove, PenaltyMoves
<1>4. ASSUME NEW ip \in Ips, NEW p \in Policies, NEW t \in Reading(0), AcceptAdmit(c, ip, p, t)
      PROVE  PenaltiesMove
  <2>1. t \in Time /\ t <= now
    BY DEF Reading
  <2>2. /\ entry' = [entry EXCEPT ![ip] = Admitted(ip, p, t),
                                  ![Subnet[ip]] = Admitted(Subnet[ip], p, t)]
        /\ now' = now /\ known' = known \cup {ip, Subnet[ip]}
    BY <1>4, Zenon DEF AcceptAdmit
  <2>3. /\ entry'[ip] = Admitted(ip, p, t) /\ entry'[Subnet[ip]] = Admitted(Subnet[ip], p, t)
        /\ \A k \in Key \ {ip, Subnet[ip]} : entry'[k] = entry[k]
    BY <1>1, <2>2, Zenon DEF TypeOK
  <2>4. \A k \in {ip, Subnet[ip]} : PenaltyMoves(k)
    <3>1. ASSUME NEW k \in Key, entry'[k] = Admitted(k, p, t) PROVE PenaltyMoves(k)
      <4>1. \/ k \in known /\ Admitted(k, p, t).penaltyUntil = entry[k].penaltyUntil
            \/ /\ k \notin known /\ Admitted(k, p, t).penaltyUntil \in Time
               /\ Admitted(k, p, t).penaltyUntil <= now
        BY <2>1, JudgedPenalty, Zenon
      <4> QED
        BY <3>1, <4>1, Zenon DEF PenaltyMoves
    <3> QED
      BY <1>1, <2>3, <3>1, Zenon
  <2>5. \A k \in known' \ {ip, Subnet[ip]} : PenaltyMoves(k)
    BY <1>1, <2>2, <2>3, Zenon DEF PenaltyMoves, TypeOK
  <2> QED
    BY <2>2, <2>4, <2>5, Zenon DEF PenaltiesMove
<1>5. ASSUME AcceptRefused(c) PROVE PenaltiesMove
  <2>1. PICK ip \in Ips, t \in Reading(0) :
          \/ AcceptCapped(c, ip, t)
          \/ \E p \in Policies : \/ AcceptSourceLimited(c, ip, p, t)
                                 \/ AcceptGlobalLimited(c, ip, p, t)
    BY <1>5 DEF AcceptRefused
  <2>2. t \in Time /\ t <= now
    BY ZenonT(20) DEF Reading
  <2>3. CASE AcceptCapped(c, ip, t)
    <3>1. /\ \/ entry' = entry
             \/ entry' = Stored(ip, Provisional(ip, t), Provisional(Subnet[ip], t))
          /\ now' = now /\ known' = known
      BY <2>3, Zenon DEF AcceptCapped
    <3>2. ASSUME entry' = Stored(ip, Provisional(ip, t), Provisional(Subnet[ip], t))
          PROVE  PenaltiesMove
      <4>1. \A k \in known : entry'[k] = IF k \in {ip, Subnet[ip]} THEN Provisional(k, t)
                                         ELSE entry[k]
        BY <1>1, <3>2, Zenon DEF Stored, TypeOK
      <4>2. \A k \in known : Provisional(k, t).penaltyUntil = entry[k].penaltyUntil
        BY <1>1, ZenonT(20) DEF Provisional, TypeOK, Entry
      <4> QED
        BY <3>1, <4>1, <4>2, Zenon DEF PenaltiesMove, PenaltyMoves
    <3> QED
      BY <1>2, <3>1, <3>2, ZenonT(20)
  <2>4. ASSUME NEW p \in Policies,
               AcceptSourceLimited(c, ip, p, t) \/ AcceptGlobalLimited(c, ip, p, t)
        PROVE  PenaltiesMove
    <3>1. /\ entry' = Stored(ip, Presented(ip, p, t), Presented(Subnet[ip], p, t))
          /\ now' = now /\ known' = known
      BY <2>4, Zenon DEF AcceptSourceLimited, AcceptGlobalLimited
    <3> QED
      BY ZenonT(20), <1>3, <2>2, <3>1
  <2> QED
    BY ZenonT(20), <2>1, <2>3, <2>4
<1> QED
  BY <1>4, <1>5

\* event() leaves penalties alone.
LEMMA EventPenalties ==
  ASSUME TypeOK, NEW c \in Conn,
         \/ EventRefused(c)
         \/ \E e \in Event, p \in Policies : \E t \in Reading(ticket[c].at) :
              EventGranted(c, e, p, t)
  PROVE  PenaltiesMove
<1> DEFINE ip == ticket[c].ip
           net == Net(c)
<1>1. ip \in Key /\ net \in Key /\ ip # net /\ known \subseteq Key
  BY KeysApart DEF TypeOK
<1>2. ASSUME NEW i, NEW n, entry' = [entry EXCEPT ![ip] = i, ![net] = n],
             i.penaltyUntil = entry[ip].penaltyUntil, n.penaltyUntil = entry[net].penaltyUntil,
             UNCHANGED <<now, known>>
      PROVE  PenaltiesMove
  <2> HIDE DEF ip, net
  <2>1. \A k \in Key : entry'[k] = IF k = ip THEN i ELSE IF k = net THEN n ELSE entry[k]
    BY <1>1, <1>2 DEF TypeOK
  <2> QED
    BY <1>1, <1>2, <2>1, Zenon DEF PenaltiesMove, PenaltyMoves
<1>3. CASE EventRefused(c)
  <2>1. PICK e \in Event, p \in Policies, t \in Reading(ticket[c].at) :
          \/ EventIpLimited(c, e, p, t)
          \/ EventPrefixLimited(c, e, p, t)
          \/ EventGlobalLimited(c, e, p, t)
    BY ZenonT(20), <1>3 DEF EventRefused
  <2>2. PICK n \in {Touched(net, t), AskedOf(net, e, p, t)} :
          /\ entry' = [entry EXCEPT ![ip] = AskedOf(ip, e, p, t), ![net] = n]
          /\ now' = now /\ known' = known
    <3>1. CASE EventIpLimited(c, e, p, t)
      BY <3>1, Zenon DEF EventIpLimited
    <3>2. CASE EventPrefixLimited(c, e, p, t) \/ EventGlobalLimited(c, e, p, t)
      BY <3>2, Zenon DEF EventPrefixLimited, EventGlobalLimited
    <3> QED
      BY ZenonT(20), <2>1, <3>1, <3>2
  <2>3. t \in Time
    BY Zenon DEF Reading
  <2>4. AskedOf(ip, e, p, t).penaltyUntil = entry[ip].penaltyUntil
    BY <1>1, <2>3, AskedPenalty, Zenon
  <2>5. n.penaltyUntil = entry[net].penaltyUntil
    <3>1. /\ Touched(net, t).penaltyUntil = entry[net].penaltyUntil
          /\ AskedOf(net, e, p, t).penaltyUntil = entry[net].penaltyUntil
      BY <1>1, <2>3, AskedPenalty, Zenon
    <3> QED
      BY <2>2, <3>1, Zenon
  <2> QED
    BY <1>2, <2>2, <2>4, <2>5, Zenon
<1>4. ASSUME NEW e \in Event, NEW p \in Policies, NEW t \in Reading(ticket[c].at),
             EventGranted(c, e, p, t)
      PROVE  PenaltiesMove
  <2> DEFINE Paid(k) == Charged(k, AskedOf(k, e, p, t), e, EventOk(k, e, p, t), p)
  <2>1. /\ entry' = [entry EXCEPT ![ip] = Paid(ip), ![net] = Paid(net)]
        /\ now' = now /\ known' = known
    BY <1>4, Zenon DEF EventGranted
  <2>2. t \in Time
    BY Zenon DEF Reading
  <2> HIDE DEF ip, net
  <2>3. /\ Paid(ip).penaltyUntil = entry[ip].penaltyUntil
        /\ Paid(net).penaltyUntil = entry[net].penaltyUntil
    <3>1. ASSUME NEW k \in Key PROVE Paid(k).penaltyUntil = entry[k].penaltyUntil
      BY <2>2, AskedPenalty, ZenonT(60)
    <3> HIDE DEF Paid
    <3> QED
      BY <1>1, <3>1, Zenon
  <2> HIDE DEF Paid
  <2> QED
    BY <1>2, <2>1, <2>3, Zenon
<1> QED
  BY ZenonT(20), <1>3, <1>4

\* Of the calls on a ticket only drop() sets a penalty, with its reading.
LEMMA KeptStepPenalties ==
  ASSUME TypeOK, ReadingsFresh, NEW c \in Conn,
         \/ Handshake(c) \/ EnterStatus(c) \/ ServerReject(c) \/ StatusComplete(c)
         \/ MarkAdmittedIp(c) \/ MarkAdmittedPrefix(c) \/ Drop(c) \/ DropPrefix(c)
  PROVE  PenaltiesMove
<1>1. /\ ticket[c].ip \in Key /\ Net(c) \in Key /\ ticket[c].at \in Time /\ known \subseteq Key
      /\ now \in Nat /\ MaxLag \in Nat /\ \A k \in Key : entry[k] \in Entry
  BY TicketTypes, Zenon
<1>2. ASSUME \A k \in known : entry'[k].penaltyUntil = entry[k].penaltyUntil,
             UNCHANGED <<now, known>>
      PROVE  PenaltiesMove
  BY ZenonT(20), <1>2 DEF PenaltiesMove, PenaltyMoves
<1>3. CASE Handshake(c) \/ ServerReject(c) \/ StatusComplete(c)
  BY <1>2, <1>3 DEF Handshake, ServerReject, StatusComplete
<1>4. CASE EnterStatus(c)
  <2>1. /\ UNCHANGED <<now, known>>
        /\ \/ entry' = entry
           \/ entry' = [entry EXCEPT ![ticket[c].ip].status = @ + 1]
    BY <1>4 DEF EnterStatus
  <2>2. \A k \in known : entry'[k].penaltyUntil = entry[k].penaltyUntil
    BY <1>1, <2>1, StatusCounted, Zenon
  <2> QED
    BY ZenonT(20), <1>2, <2>1, <2>2
<1>5. CASE MarkAdmittedIp(c) \/ MarkAdmittedPrefix(c)
  <2>1. PICK j \in Key : entry' = Unpended(j) /\ UNCHANGED <<now, known>>
    BY ZenonT(20), <1>1, <1>5 DEF MarkAdmittedIp, MarkAdmittedPrefix
  <2>2. \A k \in known : entry'[k].penaltyUntil = entry[k].penaltyUntil
    BY ZenonT(20), <1>1, <2>1 DEF Unpended, TypeOK, Entry
  <2> QED
    BY <1>2, <2>1, <2>2, Zenon
<1>6. ASSUME NEW j \in Key, NEW t \in Time, t <= now, now <= t + MaxLag,
             UNCHANGED <<now, known>>,
             entry' = IF j \in known THEN [entry EXCEPT ![j] = Released(j, @, ticket[c], t)]
                      ELSE entry
      PROVE  PenaltiesMove
  <2> DEFINE y == Released(j, entry[j], ticket[c], t)
  <2>1. y.penaltyUntil \in {entry[j].penaltyUntil, t + PenaltySeconds}
    BY <1>1, <1>6, ReleasedPenalty, Zenon
  <2>2. entry' = [entry EXCEPT ![j] = y] \/ entry' = entry
    BY <1>6, ZenonT(20)
  <2> HIDE DEF y
  <2>3. ASSUME NEW k \in known PROVE PenaltyMoves(k)
    <3>1. entry'[k] = entry[k] \/ (k = j /\ entry'[k] = y)
      BY <1>1, <1>6, <2>2, Zenon DEF TypeOK
    <3> QED
      BY <1>6, <2>1, <3>1, ZenonT(20) DEF PenaltyMoves
  <2> QED
    BY <1>6, <2>3, ZenonT(20) DEF PenaltiesMove
<1>7. CASE Drop(c)
  <2>1. PICK t \in Reading(ticket[c].at) : DropIp(c, t)
    BY <1>7, ZenonT(20) DEF Drop
  <2>2. t \in Time /\ t <= now /\ now <= t + MaxLag
    BY <1>1, ReadingBounds, Zenon
  <2> QED
    BY <1>1, <1>6, <2>1, <2>2, ZenonT(20) DEF DropIp
<1>8. CASE DropPrefix(c)
  <2>1. ticket[c].at <= now /\ now <= ticket[c].at + MaxLag
    BY <1>8 DEF DropPrefix, ReadingsFresh
  <2> QED
    BY <1>1, <1>6, <1>8, <2>1, Zenon DEF DropPrefix
<1> QED
  BY ZenonT(20), <1>3, <1>4, <1>5, <1>7, <1>8

\* So every step moves penalties as it may.
LEMMA PenaltyStep ==
  ASSUME Inductive, ReadingsFresh, [Next]_vars
  PROVE  PenaltiesMove
<1>1. TypeOK
  BY SMTT(20) DEF Inductive
<1>2. CASE UNCHANGED vars
  BY <1>2, Zenon DEF vars, PenaltiesMove, PenaltyMoves
<1>3. ASSUME NEW S, Evict(S), now' = now PROVE PenaltiesMove
  <2>1. \A k \in known' : k \in known /\ entry'[k] = entry[k]
    BY <1>1, <1>3, ZenonT(20) DEF Evict, TypeOK
  <2> QED
    BY ZenonT(20), <1>3, <2>1 DEF PenaltiesMove, PenaltyMoves
<1>4. CASE Sweep \/ SweepPrefix
  BY <1>3, <1>4, Zenon DEF Sweep, SweepIp, SweepPrefix
<1>5. CASE Tick
  BY <1>5 DEF Tick, PenaltiesMove, PenaltyMoves
<1>6. ASSUME NEW c \in Conn, AcceptRefused(c) PROVE PenaltiesMove
  BY ZenonT(20), <1>6, AcceptPenalties
<1>7. ASSUME NEW c \in Conn, EventRefused(c) PROVE PenaltiesMove
  BY ZenonT(20), <1>1, <1>7, EventPenalties
<1>8. ASSUME NEW c \in Conn,
             \/ Handshake(c) \/ EnterStatus(c) \/ ServerReject(c) \/ StatusComplete(c)
             \/ MarkAdmittedIp(c) \/ MarkAdmittedPrefix(c) \/ Drop(c) \/ DropPrefix(c)
      PROVE  PenaltiesMove
  BY ZenonT(20), <1>1, <1>8, KeptStepPenalties
<1>9. ASSUME NEW c \in Conn, NEW ip \in Ips, NEW p \in Policies, NEW t \in Reading(0),
             AcceptAdmit(c, ip, p, t)
      PROVE  PenaltiesMove
  BY ZenonT(20), <1>9, AcceptPenalties
<1>10. ASSUME NEW c \in Conn, NEW e \in Event, NEW p \in Policies,
              NEW t \in Reading(ticket[c].at), EventGranted(c, e, p, t)
       PROVE  PenaltiesMove
  BY ZenonT(20), <1>1, <1>10, EventPenalties
<1> QED
  BY <1>2, <1>4, <1>5, <1>6, <1>7, <1>8, <1>9, <1>10, Zenon DEF Next, Ungranted

\* A penalty ends at most PenaltySeconds from now.
PenaltiesBounded == \A k \in known : entry[k].penaltyUntil <= now + PenaltySeconds

\* For every configuration and interleaving: no step brings the penalty of an
\* entry forward by more than MaxLag, the age of drop()'s clock reading.
THEOREM PenaltiesAreKept == Spec => PenaltyKept
<1> DEFINE I == Inductive /\ ReadingsFresh /\ PenaltiesBounded
           Kept == \A k \in known \cap known' :
                     entry'[k].penaltyUntil >= entry[k].penaltyUntil - MaxLag
<1>1. Init => I
  BY InitInductive, SMTT(40) DEF Init, ReadingsFresh, PenaltiesBounded, NoTicket, NewTicket
<1>2. ASSUME I, [Next]_vars PROVE I' /\ Kept
  <2>1. Inductive' /\ ReadingsFresh' /\ PenaltiesMove
    BY ZenonT(20), <1>2, NextInductive, ReadingsFreshStep, PenaltyStep DEF Inductive
  <2>2. /\ now \in Nat /\ now' \in Nat /\ now <= now' /\ MaxLag \in Nat /\ PenaltySeconds \in Nat
    BY <1>2, <2>1, ClockStep, ZenonT(20) DEF PenaltiesMove, Inductive
  <2>3. \A k \in known : entry[k].penaltyUntil \in Nat
    BY <1>2 DEF Inductive, TypeOK, Entry
  <2>4. ASSUME NEW k \in known'
        PROVE  /\ entry'[k].penaltyUntil <= now' + PenaltySeconds
               /\ k \in known => entry'[k].penaltyUntil >= entry[k].penaltyUntil - MaxLag
    <3>1. k \in known => entry[k].penaltyUntil <= now + PenaltySeconds
      BY ZenonT(20), <1>2 DEF PenaltiesBounded
    <3>2. CASE k \in known /\ entry'[k].penaltyUntil = entry[k].penaltyUntil
      BY <2>2, <2>3, <3>1, <3>2, PenaltyBounds, ZenonT(20)
    <3>3. CASE /\ k \notin known /\ entry'[k].penaltyUntil \in Time
               /\ entry'[k].penaltyUntil <= now
      BY <2>2, <3>3 DEF Time
    <3>4. ASSUME NEW t \in Time, t <= now, now <= t + MaxLag,
                 entry'[k].penaltyUntil = t + PenaltySeconds
          PROVE  /\ entry'[k].penaltyUntil <= now' + PenaltySeconds
                 /\ k \in known => entry'[k].penaltyUntil >= entry[k].penaltyUntil - MaxLag
      <4>1. t \in Nat
        BY DEF Time
      <4>2. t <= now /\ now <= t + MaxLag
        BY <3>4, Zenon
      <4>3. t + PenaltySeconds <= now' + PenaltySeconds
        <5>1. \A a, b, n, d \in Nat : a <= b /\ b <= n => a + d <= n + d
          OBVIOUS
        <5> QED
          BY <2>2, <4>1, <4>2, <5>1, Zenon
      <4>4. ASSUME k \in known PROVE t + PenaltySeconds >= entry[k].penaltyUntil - MaxLag
        BY <2>2, <2>3, <3>1, <4>1, <4>2, <4>4, PenaltyBounds, ZenonT(20)
      <4> QED
        BY <3>4, <4>3, <4>4, Zenon
    <3>5. PenaltyMoves(k)
      BY ZenonT(20), <2>1 DEF PenaltiesMove
    <3> QED
      BY <3>2, <3>3, <3>4, <3>5, Zenon DEF PenaltyMoves
  <2> QED
    BY ZenonT(20), <2>1, <2>4 DEF PenaltiesBounded
<1>3. I /\ [Next]_vars => I' /\ [Kept]_vars
  BY <1>2
<1> QED
  BY <1>1, <1>3, PTL DEF Spec, PenaltyKept
=============================================================================
