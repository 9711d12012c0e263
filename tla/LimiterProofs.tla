--------------------------- MODULE LimiterProofs ---------------------------
(***************************************************************************)
(* Proofs about Limiter for any number of connection tasks, addresses,     *)
(* prefixes and shards, any limits, rates, thresholds and clock lag.       *)
(*                                                                         *)
(* First the types of buckets and entries, the steps that leave the        *)
(* counters alone, and what a step that moves one task has to show; then   *)
(* the exact counters, step by step; then what exact counters buy: the     *)
(* configured caps and the size of the identity tables; and last the       *)
(* refusals that take nothing from a bucket.                               *)
(***************************************************************************)
EXTENDS Limiter, TLAPS, FiniteSetTheorems

-----------------------------------------------------------------------------
(* Buckets *)

\* Natural numbers are closed under multiplication.
LEMMA ProductIsNat == \A a, b \in Nat : a * b \in Nat
  OBVIOUS

\* One more, and as many as before, as a booking writes them.
LEMMA Booked == \A n \in Nat : n + 1 - 0 = n + 1 /\ n + 0 - 0 = n
  OBVIOUS

\* Multiplication of natural numbers, as far as the budgets need it.
LEMMA Products ==
  /\ \A a, b, c \in Nat : b <= c => a * b <= a * c
  /\ \A a, b, c \in Nat : (a + b) * c = a * c + b * c
  /\ \A a, b, c \in Nat : a * (b + c) = a * b + a * c
  /\ \A a, b, c \in Nat : (a * b) * c \in Nat
<1>1. \A a, b, c \in Nat : b <= c => a * b <= a * c
  OBVIOUS
<1>2. \A a, b, c \in Nat : (a + b) * c = a * c + b * c
  OBVIOUS
<1>3. \A a, b, c \in Nat : a * (b + c) = a * b + a * c
  OBVIOUS
<1>4. \A a, b, c \in Nat : (a * b) * c \in Nat
  BY ProductIsNat
<1> QED
  BY <1>1, <1>2, <1>3, <1>4

\* The capacity of a bucket is a natural number of at least one token.
LEMMA BucketCapType ==
  ASSUME NEW r \in Rate, NEW m \in Mode
  PROVE  BucketCap(r, m) \in Nat /\ BucketCap(r, m) >= One
<1>1. r.burst \in Nat /\ One \in Nat /\ Factor[m] \in Nat
  BY RateAssumption DEF Rate
<1>2. r.burst * One \in Nat /\ r.burst * Factor[m] \in Nat
  BY <1>1, ProductIsNat
<1> QED
  BY <1>1, <1>2 DEF BucketCap, Greater

\* available() leaves a bucket with a natural number of tokens and a clock
\* that has not passed MaxTime.
LEMMA RefilledType ==
  ASSUME NEW b \in Bucket, NEW r \in Rate, NEW t \in Time, NEW m \in Mode
  PROVE  Refilled(b, r, t, m) \in Bucket
<1>1. /\ b.tokens \in Nat /\ b.last \in Time /\ r.rate \in Nat /\ Factor[m] \in Nat
      /\ b \in [tokens : Nat, last : Time]
  BY RateAssumption DEF Bucket, Rate
<1>2. Greater(0, t - b.last) \in Nat
  BY <1>1 DEF Greater, Time
<1>3. Greater(0, t - b.last) * r.rate * Factor[m] \in Nat
  BY <1>1, <1>2, ProductIsNat
<1>4. Lesser(BucketCap(r, m), b.tokens + Greater(0, t - b.last) * r.rate * Factor[m]) \in Nat
  BY <1>1, <1>3, BucketCapType DEF Lesser
<1>5. Greater(b.last, t) \in Time
  BY <1>1 DEF Greater
<1> QED
  BY <1>1, <1>4, <1>5 DEF Refilled, Bucket

\* consume() after a positive answer of available().
LEMMA ConsumedType ==
  ASSUME NEW b \in Bucket, NEW r \in Rate, HasToken(b, r)
  PROVE  Consumed(b, r) \in Bucket
<1>1. /\ b.tokens \in Nat /\ b.last \in Time /\ r.rate \in Nat /\ One \in Nat
  BY RateAssumption DEF Bucket, Rate
<1>2. CASE r.rate = 0
  BY <1>2 DEF Consumed
<1>3. CASE r.rate # 0
  <2>1. b.tokens - One \in Nat
    BY <1>1, <1>3 DEF HasToken
  <2>2. Consumed(b, r) = [b EXCEPT !.tokens = b.tokens - One]
    BY <1>3 DEF Consumed
  <2> QED
    BY <2>1, <2>2 DEF Bucket
<1> QED
  BY <1>2, <1>3

\* A new bucket is full.
LEMMA NewBucketType ==
  ASSUME NEW r \in Rate, NEW t \in Time
  PROVE  NewBucket(r, t) \in Bucket
<1>1. r.burst * One \in Nat
  BY RateAssumption, ProductIsNat DEF Rate
<1>2. 0 \in Time
  BY LimitAssumption DEF Time
<1> QED
  BY <1>1, <1>2 DEF NewBucket, Bucket

-----------------------------------------------------------------------------
(* Entries *)

SameCounts(x, y) == x.active = y.active /\ x.pending = y.pending /\ x.status = y.status

\* Every key has a rate for every event.
LEMMA RateOfType ==
  ASSUME NEW k, NEW e \in Event
  PROVE  RateOf(k)[e] \in Rate
  BY RateAssumption DEF RateOf

\* Entry::new() starts with free counters.
LEMMA NewEntryType ==
  ASSUME NEW k, NEW t \in Time
  PROVE  /\ NewEntry(RateOf(k), t) \in Entry
         /\ NewEntry(RateOf(k), t).active = 0
         /\ NewEntry(RateOf(k), t).pending = 0
         /\ NewEntry(RateOf(k), t).status = 0
<1>1. [e \in Event |-> NewBucket(RateOf(k)[e], t)] \in [Event -> Bucket]
  BY RateOfType, NewBucketType
<1>2. 0 \in 0..MaxScore /\ t \in Nat
  BY LimitAssumption DEF Time
<1> QED
  BY <1>1, <1>2 DEF NewEntry, Entry

\* available() on one bucket of an entry touches nothing else.
LEMMA RefilledEntryType ==
  ASSUME NEW k, NEW x \in Entry, NEW e \in Event, NEW t \in Time, NEW m \in Mode
  PROVE  /\ RefilledEntry(k, x, e, t, m) \in Entry
         /\ SameCounts(RefilledEntry(k, x, e, t, m), x)
<1>1. Refilled(x.buckets[e], RateOf(k)[e], t, m) \in Bucket
  BY RateOfType, RefilledType DEF Entry
<1> QED
  BY <1>1 DEF RefilledEntry, Entry, SameCounts

\* consume() on one bucket of an entry touches nothing else.
LEMMA ChargedType ==
  ASSUME NEW k, NEW x \in Entry, NEW e \in Event, NEW p \in Policies, NEW ok,
         ok => HasToken(x.buckets[e], RateOf(k)[e])
  PROVE  /\ Charged(k, x, e, ok, p) \in Entry
         /\ SameCounts(Charged(k, x, e, ok, p), x)
<1>1. ok => Consumed(x.buckets[e], RateOf(k)[e]) \in Bucket
  BY RateOfType, ConsumedType DEF Entry
<1> QED
  BY <1>1 DEF Charged, Entry, SameCounts

-----------------------------------------------------------------------------
(* Counting *)

\* Sets of tasks are finite, and grow and shrink by one.
LEMMA TaskSets ==
  ASSUME NEW S \in SUBSET Conn, NEW c \in Conn
  PROVE  /\ Cardinality(S) \in Nat
         /\ c \notin S => Cardinality(S \cup {c}) = Cardinality(S) + 1
         /\ c \in S => /\ Cardinality(S \ {c}) = Cardinality(S) - 1
                       /\ Cardinality(S) - 1 \in Nat
<1>1. IsFiniteSet(S)
  BY KeyAssumption, FS_Subset
<1>2. IsFiniteSet(S \ {c})
  BY <1>1, FS_RemoveElement
<1>3. Cardinality(S) \in Nat /\ Cardinality(S \ {c}) \in Nat
  BY <1>1, <1>2, FS_CardinalityType
<1>4. c \notin S => Cardinality(S \cup {c}) = Cardinality(S) + 1
  BY <1>1, FS_AddElement
<1>5. c \in S => Cardinality(S \ {c}) = Cardinality(S) - 1
  BY <1>1, FS_RemoveElement
<1> QED
  BY <1>3, <1>4, <1>5

\* An address is never a prefix.
LEMMA KeysApart ==
  ASSUME TypeOK, NEW c \in Conn
  PROVE  /\ ticket[c].ip \in Ips /\ ticket[c].ip \in Key
         /\ Net(c) \in Prefixes /\ Net(c) \in Key /\ Net(c) \notin Ips
         /\ ticket[c].ip # Net(c)
  BY KeyAssumption DEF TypeOK, Ticket, Net, Key

\* A key outside the tables is held by no task: the zero counters of a new
\* entry are right.
LEMMA UnknownIsFree ==
  ASSUME Inductive, NEW k \in Key, k \notin known
  PROVE  entry[k].active = 0 /\ entry[k].pending = 0 /\ entry[k].status = 0
<1>1. ActiveOn(k) = {} /\ PendingOn(k) = {} /\ StatusOn(k) = {}
  BY DEF Inductive, LiveTicketsKnown, ActiveOn, PendingOn, StatusOn
<1> QED
  BY <1>1, FS_EmptySet, Zenon DEF Inductive, Accounting

\* The entry accept() works on has the counters of the stored one ...
LEMMA ProvisionalType ==
  ASSUME Inductive, NEW k \in Key, NEW t \in Time
  PROVE  Provisional(k, t) \in Entry /\ SameCounts(Provisional(k, t), entry[k])
<1>1. CASE k \in known
  <2>1. entry[k] \in Entry
    BY DEF Inductive, TypeOK
  <2>2. Provisional(k, t) = [entry[k] EXCEPT !.touched = t]
    BY <1>1 DEF Provisional
  <2> QED
    BY <2>1, <2>2 DEF Entry, SameCounts
<1>2. CASE k \notin known
  BY <1>2, NewEntryType, UnknownIsFree DEF Provisional, SameCounts
<1> QED
  BY <1>1, <1>2

\* ... and so has the refilled entry it judges.
LEMMA PresentedType ==
  ASSUME Inductive, NEW k \in Key, NEW p \in Policies, NEW t \in Time
  PROVE  Presented(k, p, t) \in Entry /\ SameCounts(Presented(k, p, t), entry[k])
<1>1. p.mode \in Mode /\ "connect" \in Event
  BY RateAssumption DEF Event
<1>2. /\ Presented(k, p, t) \in Entry
      /\ SameCounts(Presented(k, p, t), Provisional(k, t))
  BY <1>1, ProvisionalType, RefilledEntryType DEF Presented
<1> QED
  BY <1>2, ProvisionalType DEF SameCounts

\* The same for event(), on stored entries.
LEMMA AskedOfType ==
  ASSUME TypeOK, NEW k \in Key, NEW e \in Event, NEW p \in Policies, NEW t \in Time
  PROVE  /\ Touched(k, t) \in Entry
         /\ SameCounts(Touched(k, t), entry[k])
         /\ AskedOf(k, e, p, t) \in Entry
         /\ SameCounts(AskedOf(k, e, p, t), entry[k])
<1>1. entry[k] \in Entry
  BY DEF TypeOK
<1>2. Touched(k, t) \in Entry /\ SameCounts(Touched(k, t), entry[k])
  BY <1>1 DEF Touched, Entry, SameCounts
<1>3. p.mode \in Mode
  BY RateAssumption
<1>4. AskedOf(k, e, p, t) \in Entry /\ SameCounts(AskedOf(k, e, p, t), Touched(k, t))
  BY <1>2, <1>3, RefilledEntryType DEF AskedOf
<1> QED
  BY <1>2, <1>4 DEF SameCounts

\* The global buckets stay buckets.
LEMMA GlobalType ==
  ASSUME TypeOK, NEW e \in Event, NEW p \in Policies, NEW t \in Time
  PROVE  /\ GlobalRefilled(e, t, p.mode) \in Bucket
         /\ [global EXCEPT ![e] = GlobalRefilled(e, t, p.mode)] \in [Event -> Bucket]
         /\ GlobalCharged(e, GlobalRefilled(e, t, p.mode)) \in [Event -> Bucket]
<1>1. p.mode \in Mode /\ GlobalRate[e] \in Rate /\ global[e] \in Bucket
  BY RateAssumption DEF TypeOK
<1>2. GlobalRefilled(e, t, p.mode) \in Bucket
  BY <1>1, RefilledType DEF GlobalRefilled
<1>3. HasToken(GlobalRefilled(e, t, p.mode), GlobalRate[e]) =>
        Consumed(GlobalRefilled(e, t, p.mode), GlobalRate[e]) \in Bucket
  BY <1>1, <1>2, ConsumedType
<1> QED
  BY <1>2, <1>3 DEF GlobalCharged, TypeOK

-----------------------------------------------------------------------------
(* Steps that move no task between the counters *)

\* A step that leaves all counters alone, and where every task stays, keeps
\* the books.
LEMMA UnmovedKeepsBooks ==
  ASSUME Inductive,
         \A k \in Key : SameCounts(entry'[k], entry[k]),
         \A c \in Conn : /\ ticket'[c].phase = ticket[c].phase
                         /\ ticket'[c].ip = ticket[c].ip
                         /\ ticket'[c].admitted = ticket[c].admitted
                         /\ ticket'[c].status = ticket[c].status,
         known \subseteq known'
  PROVE  Accounting' /\ LiveTicketsKnown' /\ AdmittingOnce'
<1>1. \A c \in Conn : Net(c)' = Net(c)
  BY DEF Net
<1>2. \A k \in Key : /\ ActiveOn(k)' = ActiveOn(k)
                     /\ PendingOn(k)' = PendingOn(k)
                     /\ StatusOn(k)' = StatusOn(k)
  BY <1>1 DEF ActiveOn, PendingOn, StatusOn
<1>3. Accounting'
  BY <1>2 DEF Inductive, Accounting, SameCounts
<1>4. LiveTicketsKnown' /\ AdmittingOnce'
  BY <1>1 DEF Inductive, LiveTicketsKnown, AdmittingOnce
<1> QED
  BY <1>3, <1>4

\* A refused accept() stores only what it refilled and touched.
LEMMA StoredKeepsBooks ==
  ASSUME Inductive, NEW ip \in Ips, NEW i \in Entry, NEW n \in Entry,
         SameCounts(i, entry[ip]), SameCounts(n, entry[Subnet[ip]]),
         entry' = Stored(ip, i, n) \/ entry' = entry,
         UNCHANGED <<now, known, ticket, sweeper>>,
         global' \in [Event -> Bucket]
  PROVE  Inductive'
<1>1. ip \in Key /\ Subnet[ip] \in Key /\ ip # Subnet[ip]
  BY KeyAssumption DEF Key
<1>2. entry' \in [Key -> Entry] /\ \A k \in Key : SameCounts(entry'[k], entry[k])
  <2>1. CASE entry' = entry
    BY <2>1 DEF Inductive, TypeOK, SameCounts
  <2>2. CASE entry' = Stored(ip, i, n)
    BY <2>2, <1>1 DEF Stored, Inductive, TypeOK, SameCounts
  <2> QED
    BY <2>1, <2>2
<1>3. TypeOK'
  BY <1>2 DEF Inductive, TypeOK
<1> QED
  BY <1>2, <1>3, UnmovedKeepsBooks DEF Inductive

\* A refusal by accept() moves no counter and stores no provisional entry.
LEMMA AcceptRefusedInductive ==
  ASSUME Inductive, NEW c \in Conn, AcceptRefused(c)
  PROVE  Inductive'
<1>1. PICK ip \in Ips, t \in Reading(0) :
        \/ AcceptCapped(c, ip, t)
        \/ \E p \in Policies : \/ AcceptSourceLimited(c, ip, p, t)
                               \/ AcceptGlobalLimited(c, ip, p, t)
  BY DEF AcceptRefused
<1>2. t \in Time /\ ip \in Key /\ Subnet[ip] \in Key /\ "connect" \in Event
  BY KeyAssumption DEF Reading, Key, Event
<1>3. CASE AcceptCapped(c, ip, t)
  <2>1. /\ Provisional(ip, t) \in Entry /\ SameCounts(Provisional(ip, t), entry[ip])
        /\ Provisional(Subnet[ip], t) \in Entry
        /\ SameCounts(Provisional(Subnet[ip], t), entry[Subnet[ip]])
    BY <1>2, ProvisionalType
  <2> QED
    BY <1>3, <2>1, StoredKeepsBooks DEF AcceptCapped, Inductive, TypeOK
<1>4. ASSUME NEW p \in Policies, AcceptSourceLimited(c, ip, p, t) \/ AcceptGlobalLimited(c, ip, p, t)
      PROVE  Inductive'
  <2>1. /\ Presented(ip, p, t) \in Entry /\ SameCounts(Presented(ip, p, t), entry[ip])
        /\ Presented(Subnet[ip], p, t) \in Entry
        /\ SameCounts(Presented(Subnet[ip], p, t), entry[Subnet[ip]])
    BY <1>2, PresentedType
  <2>2. global' \in [Event -> Bucket]
    <3>1. TypeOK /\ global \in [Event -> Bucket]
      BY DEF Inductive, TypeOK
    <3>2. [global EXCEPT !["connect"] = GlobalRefilled("connect", t, p.mode)]
            \in [Event -> Bucket]
      BY <3>1, <1>2, GlobalType
    <3> QED
      BY <3>1, <3>2, <1>4 DEF AcceptSourceLimited, AcceptGlobalLimited
  <2> QED
    BY <1>4, <2>1, <2>2, StoredKeepsBooks DEF AcceptSourceLimited, AcceptGlobalLimited
<1> QED
  BY <1>1, <1>3, <1>4

\* event() and the flags set by handle() leave a task where it is.
LEMMA FlagsKeepBooks ==
  ASSUME Inductive, NEW c \in Conn, NEW x \in Ticket,
         ticket' = [ticket EXCEPT ![c] = x],
         x.phase = ticket[c].phase, x.ip = ticket[c].ip,
         x.admitted = ticket[c].admitted, x.status = ticket[c].status,
         entry' \in [Key -> Entry], \A k \in Key : SameCounts(entry'[k], entry[k]),
         global' \in [Event -> Bucket], UNCHANGED <<now, known, sweeper>>
  PROVE  Inductive'
<1>1. TypeOK'
  BY DEF Inductive, TypeOK
<1>2. \A d \in Conn : /\ ticket'[d].phase = ticket[d].phase
                      /\ ticket'[d].ip = ticket[d].ip
                      /\ ticket'[d].admitted = ticket[d].admitted
                      /\ ticket'[d].status = ticket[d].status
  BY DEF Inductive, TypeOK
<1> QED
  BY <1>1, <1>2, UnmovedKeepsBooks DEF Inductive

\* The flags handle() sets on a ticket change what no counter counts.
LEMMA FlagStepInductive ==
  ASSUME Inductive, NEW c \in Conn, Handshake(c) \/ ServerReject(c) \/ StatusComplete(c)
  PROVE  Inductive'
<1>1. ticket[c] \in Ticket
  BY DEF Inductive, TypeOK
<1>2. PICK x \in Ticket : /\ ticket' = [ticket EXCEPT ![c] = x]
                          /\ x.phase = ticket[c].phase /\ x.ip = ticket[c].ip
                          /\ x.admitted = ticket[c].admitted
                          /\ x.status = ticket[c].status
  <2>1. CASE Handshake(c)
    <3>1. [ticket[c] EXCEPT !.handshake = TRUE] \in Ticket
      BY <1>1, Zenon DEF Ticket
    <3>2. WITNESS [ticket[c] EXCEPT !.handshake = TRUE] \in Ticket
    <3> QED
      BY <2>1, <1>1, Zenon DEF Handshake, Ticket
  <2>2. CASE ServerReject(c)
    <3>1. [ticket[c] EXCEPT !.serverRejected = TRUE] \in Ticket
      BY <1>1, Zenon DEF Ticket
    <3>2. WITNESS [ticket[c] EXCEPT !.serverRejected = TRUE] \in Ticket
    <3> QED
      BY <2>2, <1>1, Zenon DEF ServerReject, Ticket
  <2>3. CASE StatusComplete(c)
    <3>1. [ticket[c] EXCEPT !.statusComplete = TRUE] \in Ticket
      BY <1>1, Zenon DEF Ticket
    <3>2. WITNESS [ticket[c] EXCEPT !.statusComplete = TRUE] \in Ticket
    <3> QED
      BY <2>3, <1>1, Zenon DEF StatusComplete, Ticket
  <2> QED
    BY <2>1, <2>2, <2>3
<1>3. UNCHANGED <<now, known, entry, global, sweeper>>
  BY DEF Handshake, ServerReject, StatusComplete
<1> QED
  BY <1>2, <1>3, FlagsKeepBooks, Zenon DEF Inductive, TypeOK, SameCounts

\* A refusal by event() rewrites buckets and touched only.
LEMMA EventRefusedInductive ==
  ASSUME Inductive, NEW c \in Conn, EventRefused(c)
  PROVE  Inductive'
<1>1. PICK e \in Event, p \in Policies, t \in Reading(ticket[c].at) :
        \/ EventIpLimited(c, e, p, t)
        \/ EventPrefixLimited(c, e, p, t)
        \/ EventGlobalLimited(c, e, p, t)
  BY DEF EventRefused
<1> DEFINE ip == ticket[c].ip
           x == [ticket[c] EXCEPT !.serverRejected = TRUE, !.at = t, !.asked = @ \cup {e}]
<1>2. t \in Time /\ TypeOK
  BY DEF Reading, Inductive
<1>3. x \in Ticket /\ ticket' = [ticket EXCEPT ![c] = x]
  <2>1. ticket[c] \in Ticket
    BY <1>2 DEF TypeOK
  <2>2. Refused(c, e, t)
    BY <1>1 DEF EventIpLimited, EventPrefixLimited, EventGlobalLimited
  <2> QED
    BY <1>2, <2>1, <2>2, Zenon DEF Refused, Ticket, TypeOK
<1>4. \A k \in Key : /\ Touched(k, t) \in Entry /\ SameCounts(Touched(k, t), entry[k])
                     /\ AskedOf(k, e, p, t) \in Entry
                     /\ SameCounts(AskedOf(k, e, p, t), entry[k])
  BY <1>2, AskedOfType, ZenonT(20)
<1>5. /\ entry' \in [Key -> Entry]
      /\ \A k \in Key : SameCounts(entry'[k], entry[k])
  <2>1. PICK i \in Entry, n \in Entry :
          /\ entry' = [entry EXCEPT ![ip] = i, ![Net(c)] = n]
          /\ SameCounts(i, entry[ip]) /\ SameCounts(n, entry[Net(c)])
    BY <1>1, <1>2, <1>4, KeysApart, SMTT(20) DEF EventIpLimited, EventPrefixLimited, EventGlobalLimited
  <2> QED
    BY <2>1, <1>2, KeysApart, SMTT(20) DEF TypeOK, SameCounts
<1>6. global' \in [Event -> Bucket]
  <2>1. [global EXCEPT ![e] = GlobalRefilled(e, t, p.mode)] \in [Event -> Bucket]
    BY <1>2, GlobalType
  <2> QED
    BY <1>1, <1>2, <2>1 DEF EventIpLimited, EventPrefixLimited, EventGlobalLimited, TypeOK
<1>7. UNCHANGED <<now, known, sweeper>>
  BY <1>1 DEF EventIpLimited, EventPrefixLimited, EventGlobalLimited
<1>8. /\ x.phase = ticket[c].phase /\ x.ip = ticket[c].ip
      /\ x.admitted = ticket[c].admitted /\ x.status = ticket[c].status
  BY <1>2 DEF TypeOK, Ticket
<1> HIDE DEF x
<1> QED
  BY <1>3, <1>5, <1>6, <1>7, <1>8, FlagsKeepBooks, Zenon

\* A grant by event() charges buckets only.
LEMMA EventGrantedInductive ==
  ASSUME Inductive, NEW c \in Conn, NEW e \in Event, NEW p \in Policies,
         NEW t \in Reading(ticket[c].at), EventGranted(c, e, p, t)
  PROVE  Inductive'
<1> DEFINE ip == ticket[c].ip
           x == [ticket[c] EXCEPT !.at = t, !.asked = @ \cup {e}]
           Paid(k) == Charged(k, AskedOf(k, e, p, t), e, EventOk(k, e, p, t), p)
<1>2. t \in Time /\ TypeOK
  BY DEF Reading, Inductive
<1>3. x \in Ticket /\ ticket' = [ticket EXCEPT ![c] = x]
  <2>1. ticket[c] \in Ticket
    BY <1>2, ZenonT(20) DEF TypeOK
  <2> QED
    BY <1>2, <2>1, Zenon DEF EventGranted, Ticket, TypeOK
<1>4. \A k \in Key : Paid(k) \in Entry /\ SameCounts(Paid(k), entry[k])
  <2> TAKE k \in Key
  <2>1. AskedOf(k, e, p, t) \in Entry /\ SameCounts(AskedOf(k, e, p, t), entry[k])
    BY <1>2, AskedOfType
  <2>2. EventOk(k, e, p, t) => HasToken(AskedOf(k, e, p, t).buckets[e], RateOf(k)[e])
    BY DEF EventOk, SourceOk
  <2>3. Paid(k) \in Entry /\ SameCounts(Paid(k), AskedOf(k, e, p, t))
    BY <2>1, <2>2, ChargedType, Zenon
  <2> QED
    BY <2>1, <2>3 DEF SameCounts
<1>5. /\ entry' \in [Key -> Entry]
      /\ \A k \in Key : SameCounts(entry'[k], entry[k])
  <2>1. entry' = [entry EXCEPT ![ip] = Paid(ip), ![Net(c)] = Paid(Net(c))]
    BY DEF EventGranted
  <2> HIDE DEF Paid
  <2> QED
    BY <2>1, <1>2, <1>4, KeysApart DEF TypeOK, SameCounts
<1>6. global' \in [Event -> Bucket]
  BY <1>2, GlobalType DEF EventGranted
<1>7. UNCHANGED <<now, known, sweeper>>
  BY DEF EventGranted
<1>8. /\ x.phase = ticket[c].phase /\ x.ip = ticket[c].ip
      /\ x.admitted = ticket[c].admitted /\ x.status = ticket[c].status
  BY <1>2 DEF TypeOK, Ticket
<1> HIDE DEF x
<1> QED
  BY <1>3, <1>5, <1>6, <1>7, <1>8, FlagsKeepBooks, Zenon

-----------------------------------------------------------------------------
(* Steps that move one task between the counters *)

\* Whether a task with ticket tk is counted in an entry.
HoldsActive(tk, k) ==
  \/ k = tk.ip /\ tk.phase \in {"live", "admitting"}
  \/ k = Subnet[tk.ip] /\ tk.phase # "idle"

HoldsPending(tk, k) ==
  /\ ~tk.admitted
  /\ \/ k = tk.ip /\ tk.phase = "live"
     \/ k = Subnet[tk.ip] /\ tk.phase # "idle"

HoldsStatus(tk, k) ==
  tk.status /\ k = tk.ip /\ tk.phase \in {"live", "admitting"}

Unit(b) == IF b THEN 1 ELSE 0

\* The number of tasks in a set, when one task joins or leaves it.
LEMMA Recount ==
  ASSUME NEW S \in SUBSET Conn, NEW T \in SUBSET Conn, NEW c \in Conn,
         S \ {c} = T \ {c}
  PROVE  Cardinality(T) = Cardinality(S) + Unit(c \in T) - Unit(c \in S)
<1>1. Cardinality(S) \in Nat /\ Cardinality(T) \in Nat
  BY TaskSets, Zenon
<1>2. CASE c \in S /\ c \in T
  <2>1. S = T
    BY <1>2
  <2> QED
    BY <1>1, <1>2, <2>1 DEF Unit
<1>3. CASE c \notin S /\ c \notin T
  <2>1. S = T
    BY <1>3
  <2> QED
    BY <1>1, <1>3, <2>1 DEF Unit
<1>4. CASE c \in S /\ c \notin T
  <2>1. T = S \ {c}
    BY <1>4
  <2> QED
    BY <1>1, <1>4, <2>1, TaskSets DEF Unit
<1>5. CASE c \notin S /\ c \in T
  <2>1. T = S \cup {c}
    BY <1>5
  <2> QED
    BY <1>1, <1>5, <2>1, TaskSets DEF Unit
<1> QED
  BY <1>2, <1>3, <1>4, <1>5

\* A counter that a task is in can be decremented.
LEMMA HeldIsPositive ==
  ASSUME Inductive, NEW c \in Conn, NEW k \in Key
  PROVE  /\ HoldsActive(ticket[c], k) => entry[k].active - 1 \in Nat
         /\ HoldsPending(ticket[c], k) => entry[k].pending - 1 \in Nat
         /\ HoldsStatus(ticket[c], k) => entry[k].status - 1 \in Nat
<1>1. /\ ActiveOn(k) \subseteq Conn /\ PendingOn(k) \subseteq Conn
      /\ StatusOn(k) \subseteq Conn
  BY DEF ActiveOn, PendingOn, StatusOn
<1>2. /\ HoldsActive(ticket[c], k) => c \in ActiveOn(k)
      /\ HoldsPending(ticket[c], k) => c \in PendingOn(k)
      /\ HoldsStatus(ticket[c], k) => c \in StatusOn(k)
  BY DEF ActiveOn, PendingOn, StatusOn, Net, HoldsActive, HoldsPending, HoldsStatus
<1> QED
  BY <1>1, <1>2, TaskSets, Zenon DEF Inductive, Accounting

\* When one task's ticket changes, adding what it now holds and subtracting
\* what it held keeps every counter right.
LEMMA MovedKeepsBooks ==
  ASSUME Inductive, NEW c \in Conn, NEW x \in Ticket,
         ticket' = [ticket EXCEPT ![c] = x],
         \A k \in Key :
           /\ entry'[k].active = entry[k].active + Unit(HoldsActive(x, k))
                                   - Unit(HoldsActive(ticket[c], k))
           /\ entry'[k].pending = entry[k].pending + Unit(HoldsPending(x, k))
                                   - Unit(HoldsPending(ticket[c], k))
           /\ entry'[k].status = entry[k].status + Unit(HoldsStatus(x, k))
                                   - Unit(HoldsStatus(ticket[c], k))
  PROVE  Accounting'
<1> SUFFICES ASSUME NEW k \in Key
             PROVE  /\ entry'[k].active = Cardinality(ActiveOn(k)')
                    /\ entry'[k].pending = Cardinality(PendingOn(k)')
                    /\ entry'[k].status = Cardinality(StatusOn(k)')
  BY Zenon DEF Accounting, ActiveOn, PendingOn, StatusOn
<1>1. \A d \in Conn : ticket'[d] = IF d = c THEN x ELSE ticket[d]
  BY DEF Inductive, TypeOK
<1>2. ActiveOn(k) = {d \in Conn : HoldsActive(ticket[d], k)}
      /\ ActiveOn(k)' = {d \in Conn : HoldsActive(ticket'[d], k)}
  BY DEF ActiveOn, HoldsActive, Net
<1>3. PendingOn(k) = {d \in Conn : HoldsPending(ticket[d], k)}
      /\ PendingOn(k)' = {d \in Conn : HoldsPending(ticket'[d], k)}
  BY DEF PendingOn, HoldsPending, Net
<1>4. StatusOn(k) = {d \in Conn : HoldsStatus(ticket[d], k)}
      /\ StatusOn(k)' = {d \in Conn : HoldsStatus(ticket'[d], k)}
  BY ZenonT(20) DEF StatusOn, HoldsStatus, Net
<1>5. entry'[k].active = Cardinality(ActiveOn(k)')
  <2>1. /\ ActiveOn(k) \in SUBSET Conn /\ ActiveOn(k)' \in SUBSET Conn
        /\ ActiveOn(k) \ {c} = ActiveOn(k)' \ {c}
        /\ c \in ActiveOn(k) <=> HoldsActive(ticket[c], k)
        /\ c \in ActiveOn(k)' <=> HoldsActive(x, k)
    BY <1>1, <1>2
  <2>2. Cardinality(ActiveOn(k)') =
          Cardinality(ActiveOn(k)) + Unit(c \in ActiveOn(k)') - Unit(c \in ActiveOn(k))
    BY <2>1, Recount, ZenonT(20)
  <2> QED
    BY <2>1, <2>2 DEF Inductive, Accounting, Unit
<1>6. entry'[k].pending = Cardinality(PendingOn(k)')
  <2>1. /\ PendingOn(k) \in SUBSET Conn /\ PendingOn(k)' \in SUBSET Conn
        /\ PendingOn(k) \ {c} = PendingOn(k)' \ {c}
        /\ c \in PendingOn(k) <=> HoldsPending(ticket[c], k)
        /\ c \in PendingOn(k)' <=> HoldsPending(x, k)
    BY <1>1, <1>3, SMTT(20)
  <2>2. Cardinality(PendingOn(k)') =
          Cardinality(PendingOn(k)) + Unit(c \in PendingOn(k)') - Unit(c \in PendingOn(k))
    BY ZenonT(20), <2>1, Recount
  <2> QED
    BY <2>1, <2>2, SMTT(20) DEF Inductive, Accounting, Unit
<1>7. entry'[k].status = Cardinality(StatusOn(k)')
  <2>1. /\ StatusOn(k) \in SUBSET Conn /\ StatusOn(k)' \in SUBSET Conn
        /\ StatusOn(k) \ {c} = StatusOn(k)' \ {c}
        /\ c \in StatusOn(k) <=> HoldsStatus(ticket[c], k)
        /\ c \in StatusOn(k)' <=> HoldsStatus(x, k)
    BY <1>1, <1>4, SMTT(20)
  <2>2. Cardinality(StatusOn(k)') =
          Cardinality(StatusOn(k)) + Unit(c \in StatusOn(k)') - Unit(c \in StatusOn(k))
    BY <2>1, Recount, ZenonT(20)
  <2> QED
    BY <2>1, <2>2 DEF Inductive, Accounting, Unit
<1> QED
  BY <1>5, <1>6, <1>7

\* What an action that moves one task has to show.
Rebooked(x, c) ==
  \A k \in Key :
    /\ entry'[k].active = entry[k].active + Unit(HoldsActive(x, k))
                            - Unit(HoldsActive(ticket[c], k))
    /\ entry'[k].pending = entry[k].pending + Unit(HoldsPending(x, k))
                            - Unit(HoldsPending(ticket[c], k))
    /\ entry'[k].status = entry[k].status + Unit(HoldsStatus(x, k))
                            - Unit(HoldsStatus(ticket[c], k))

\* A step that moves one ticket and books it on its two entries preserves Inductive.
LEMMA MovedInductive ==
  ASSUME Inductive, NEW c \in Conn, NEW x \in Ticket,
         ticket' = [ticket EXCEPT ![c] = x],
         entry' \in [Key -> Entry], Rebooked(x, c),
         global' \in [Event -> Bucket], UNCHANGED <<now, sweeper>>,
         known \subseteq known', known' \subseteq Key,
         x.phase \in {"live", "admitting"} => x.ip \in known',
         x.phase # "idle" => Subnet[x.ip] \in known',
         x.phase = "admitting" => ~x.admitted
  PROVE  Inductive'
<1>1. Accounting'
  BY MovedKeepsBooks, Zenon DEF Rebooked
<1>2. TypeOK'
  BY DEF Inductive, TypeOK
<1>3. \A d \in Conn : ticket'[d] = IF d = c THEN x ELSE ticket[d]
  BY DEF Inductive, TypeOK
<1>4. LiveTicketsKnown' /\ AdmittingOnce'
  BY <1>3 DEF Inductive, LiveTicketsKnown, AdmittingOnce, Net
<1> QED
  BY <1>1, <1>2, <1>4 DEF Inductive

\* The counters of stored entries are numbers.
LEMMA CountsAreNat ==
  ASSUME TypeOK, NEW k \in Key
  PROVE  entry[k].active \in Nat /\ entry[k].pending \in Nat /\ entry[k].status \in Nat
  BY SMTT(20) DEF TypeOK, Entry

\* A step that writes one entry books it when the counters move there as the
\* ticket does, and the ticket's claim on every other entry stays.
LEMMA RebookedOne ==
  ASSUME TypeOK, NEW c \in Conn, NEW x, NEW j \in Key, NEW y,
         entry' = [entry EXCEPT ![j] = y],
         \A k \in Key \ {j} : /\ HoldsActive(x, k) <=> HoldsActive(ticket[c], k)
                              /\ HoldsPending(x, k) <=> HoldsPending(ticket[c], k)
                              /\ HoldsStatus(x, k) <=> HoldsStatus(ticket[c], k),
         y.active = entry[j].active + Unit(HoldsActive(x, j)) - Unit(HoldsActive(ticket[c], j)),
         y.pending = entry[j].pending + Unit(HoldsPending(x, j))
                       - Unit(HoldsPending(ticket[c], j)),
         y.status = entry[j].status + Unit(HoldsStatus(x, j)) - Unit(HoldsStatus(ticket[c], j))
  PROVE  Rebooked(x, c)
<1> SUFFICES ASSUME NEW k \in Key
    PROVE /\ entry'[k].active = entry[k].active + Unit(HoldsActive(x, k))
                                   - Unit(HoldsActive(ticket[c], k))
          /\ entry'[k].pending = entry[k].pending + Unit(HoldsPending(x, k))
                                   - Unit(HoldsPending(ticket[c], k))
          /\ entry'[k].status = entry[k].status + Unit(HoldsStatus(x, k))
                                   - Unit(HoldsStatus(ticket[c], k))
  BY DEF Rebooked
<1>1. entry'[k] = IF k = j THEN y ELSE entry[k]
  BY DEF TypeOK
<1>2. CASE k = j
  BY <1>1, <1>2
<1>3. CASE k # j
  <2>1. \A a, b : (a <=> b) => Unit(a) = Unit(b) /\ Unit(a) \in Nat
    BY DEF Unit
  <2>2. \A n, u \in Nat : n = n + u - u
    OBVIOUS
  <2> QED
    BY <1>1, <1>3, <2>1, <2>2, CountsAreNat
<1> QED
  BY <1>2, <1>3

-----------------------------------------------------------------------------
(* The steps that move one task *)

\* enter_status() counts the ticket it marks.
LEMMA EnterStatusInductive ==
  ASSUME Inductive, NEW c \in Conn, EnterStatus(c)
  PROVE  Inductive'
<1>1. /\ TypeOK /\ ticket[c] \in Ticket /\ entry[ticket[c].ip] \in Entry
      /\ ticket[c].ip # Net(c) /\ ticket[c].ip \in Key /\ ticket[c].phase = "live"
  BY KeysApart DEF Inductive, TypeOK, EnterStatus, Serving
<1>2. CASE Reached(StatusIp, entry[ticket[c].ip].status)
  <2> DEFINE x == [ticket[c] EXCEPT !.serverRejected = TRUE]
  <2>1. /\ x \in Ticket /\ x.phase = ticket[c].phase /\ x.ip = ticket[c].ip
        /\ x.admitted = ticket[c].admitted /\ x.status = ticket[c].status
    BY <1>1, Zenon DEF Ticket
  <2>2. ticket' = [ticket EXCEPT ![c] = x] /\ UNCHANGED <<now, known, entry, global, sweeper>>
    BY <1>2 DEF EnterStatus
  <2> HIDE DEF x
  <2> QED
    BY <2>1, <2>2, FlagsKeepBooks, Zenon DEF Inductive, TypeOK, SameCounts
<1>3. CASE ~Reached(StatusIp, entry[ticket[c].ip].status)
  <2> DEFINE x == [ticket[c] EXCEPT !.status = TRUE]
             i == [entry[ticket[c].ip] EXCEPT !.status = @ + 1]
  <2>1. /\ x \in Ticket /\ x.phase = "live" /\ x.ip = ticket[c].ip
        /\ x.admitted = ticket[c].admitted /\ x.status = TRUE
    BY <1>1, Zenon DEF Ticket
  <2>2. ~ticket[c].status /\ UNCHANGED <<now, known, global, sweeper>>
    BY DEF EnterStatus
  <2>3. ticket' = [ticket EXCEPT ![c] = x] /\ entry' = [entry EXCEPT ![ticket[c].ip] = i]
    BY <1>3 DEF EnterStatus
  <2>4. /\ i \in Entry /\ i.active = entry[ticket[c].ip].active
        /\ i.pending = entry[ticket[c].ip].pending
        /\ i.status = entry[ticket[c].ip].status + 1
    BY <1>1 DEF Entry
  <2> HIDE DEF x, i
  <2>5. entry' \in [Key -> Entry]
    BY <1>1, <2>3, <2>4 DEF TypeOK
  <2>6. Rebooked(x, c)
    <3> DEFINE ip == ticket[c].ip
    <3>1. \A k \in Key : /\ HoldsActive(x, k) <=> HoldsActive(ticket[c], k)
                         /\ HoldsPending(x, k) <=> HoldsPending(ticket[c], k)
      BY <1>1, <2>1 DEF HoldsActive, HoldsPending
    <3>2. \A k \in Key : HoldsStatus(x, k) <=> k = ip
      BY <1>1, <2>1 DEF HoldsStatus
    <3>3. \A k \in Key : ~HoldsStatus(ticket[c], k)
      BY <2>2, ZenonT(20) DEF HoldsStatus
    <3>4. /\ i.active = entry[ip].active + Unit(HoldsActive(x, ip)) - Unit(HoldsActive(ticket[c], ip))
          /\ i.pending = entry[ip].pending + Unit(HoldsPending(x, ip))
                           - Unit(HoldsPending(ticket[c], ip))
          /\ i.status = entry[ip].status + Unit(HoldsStatus(x, ip)) - Unit(HoldsStatus(ticket[c], ip))
      BY <1>1, <2>4, <3>1, <3>2, <3>3, CountsAreNat DEF Unit
    <3> QED
      BY <1>1, <2>3, <3>1, <3>2, <3>3, <3>4, RebookedOne, Zenon
  <2> QED
    BY <1>1, <2>1, <2>2, <2>3, <2>5, <2>6, MovedInductive, Zenon
       DEF Inductive, TypeOK, LiveTicketsKnown, Net
<1> QED
  BY <1>2, <1>3

\* accept() counts an admitted task once in active and once in pending.
LEMMA CountedType ==
  ASSUME NEW y \in Entry, NEW z, z = [y EXCEPT !.active = @ + 1, !.pending = @ + 1]
  PROVE  /\ z \in Entry /\ z.active = y.active + 1
         /\ z.pending = y.pending + 1 /\ z.status = y.status
<1>1. y.active + 1 \in Nat /\ y.pending + 1 \in Nat
  BY DEF Entry
<1> QED
  BY <1>1, Zenon DEF Entry

\* accept() counts the new ticket on both of its entries, stored or new.
LEMMA AcceptAdmitInductive ==
  ASSUME Inductive, NEW c \in Conn, NEW ip \in Ips, NEW p \in Policies,
         NEW t \in Reading(0), AcceptAdmit(c, ip, p, t)
  PROVE  Inductive'
<1> DEFINE x == NewTicket("live", ip, t)
           net == Subnet[ip]
<1>1. /\ TypeOK /\ t \in Time /\ "connect" \in Event
      /\ ip \in Key /\ net \in Key /\ net # ip /\ ticket[c].phase = "idle"
  BY KeyAssumption, ZenonT(20) DEF Inductive, Reading, Key, Event, AcceptAdmit, Acceptable
<1>2. /\ x \in Ticket /\ x.phase = "live" /\ x.ip = ip /\ ~x.admitted /\ ~x.status
  BY <1>1, ZenonT(20) DEF NewTicket, Ticket
<1>3. \A k \in Key : /\ Admitted(k, p, t) \in Entry
                     /\ Admitted(k, p, t).active = entry[k].active + 1
                     /\ Admitted(k, p, t).pending = entry[k].pending + 1
                     /\ Admitted(k, p, t).status = entry[k].status
  <2> TAKE k \in Key
  <2> DEFINE y == Charged(k, Presented(k, p, t), "connect", ConnectOk(k, p, t), p)
  <2>1. Presented(k, p, t) \in Entry /\ SameCounts(Presented(k, p, t), entry[k])
    BY ZenonT(20), <1>1, PresentedType
  <2>2. ConnectOk(k, p, t) =>
          HasToken(Presented(k, p, t).buckets["connect"], RateOf(k)["connect"])
    BY DEF ConnectOk, SourceOk
  <2>3. y \in Entry /\ SameCounts(y, Presented(k, p, t))
    BY <1>1, <2>1, <2>2, ChargedType, Zenon
  <2>4. Admitted(k, p, t) = [y EXCEPT !.active = @ + 1, !.pending = @ + 1]
    BY DEF Admitted
  <2> HIDE DEF y
  <2>5. /\ Admitted(k, p, t) \in Entry /\ Admitted(k, p, t).active = y.active + 1
        /\ Admitted(k, p, t).pending = y.pending + 1
        /\ Admitted(k, p, t).status = y.status
    BY <2>3, <2>4, CountedType, Zenon
  <2> QED
    BY <2>1, <2>3, <2>5, ZenonT(20) DEF SameCounts
<1>4. entry' = [entry EXCEPT ![ip] = Admitted(ip, p, t), ![net] = Admitted(net, p, t)]
  BY ZenonT(20) DEF AcceptAdmit
<1>5. /\ ticket' = [ticket EXCEPT ![c] = x] /\ known' = known \cup {ip, net}
      /\ UNCHANGED <<now, sweeper>>
  BY ZenonT(20) DEF AcceptAdmit
<1>6. global' \in [Event -> Bucket]
  BY <1>1, GlobalType, ZenonT(20) DEF AcceptAdmit
<1> HIDE DEF x
<1>7. entry' \in [Key -> Entry]
  BY <1>1, <1>3, <1>4, SMTT(20) DEF TypeOK
<1>8. Rebooked(x, c)
  <2>1. \A k \in Key : entry'[k] = IF k \in {ip, net} THEN Admitted(k, p, t) ELSE entry[k]
    BY ZenonT(20), <1>1, <1>4 DEF TypeOK
  <2>2. \A k \in Key : /\ HoldsActive(x, k) <=> k \in {ip, net}
                       /\ HoldsPending(x, k) <=> k \in {ip, net}
                       /\ ~HoldsStatus(x, k)
    BY <1>1, <1>2 DEF HoldsActive, HoldsPending, HoldsStatus
  <2>3. \A k \in Key : /\ ~HoldsActive(ticket[c], k) /\ ~HoldsPending(ticket[c], k)
                       /\ ~HoldsStatus(ticket[c], k)
    BY <1>1, ZenonT(20) DEF HoldsActive, HoldsPending, HoldsStatus
  <2>4. ASSUME NEW k \in Key
        PROVE  /\ entry'[k].active = entry[k].active + Unit(HoldsActive(x, k))
                                       - Unit(HoldsActive(ticket[c], k))
               /\ entry'[k].pending = entry[k].pending + Unit(HoldsPending(x, k))
                                       - Unit(HoldsPending(ticket[c], k))
               /\ entry'[k].status = entry[k].status + Unit(HoldsStatus(x, k))
                                       - Unit(HoldsStatus(ticket[c], k))
    <3>1. entry[k].active \in Nat /\ entry[k].pending \in Nat /\ entry[k].status \in Nat
      BY <1>1, CountsAreNat, Zenon
    <3>2. /\ Unit(HoldsActive(ticket[c], k)) = 0 /\ Unit(HoldsPending(ticket[c], k)) = 0
          /\ Unit(HoldsStatus(ticket[c], k)) = 0 /\ Unit(HoldsStatus(x, k)) = 0
      BY <2>2, <2>3, Zenon DEF Unit
    <3>3. CASE k \in {ip, net}
      <4>1. Unit(HoldsActive(x, k)) = 1 /\ Unit(HoldsPending(x, k)) = 1
        BY <2>2, <3>3, Zenon DEF Unit
      <4>2. entry'[k] = Admitted(k, p, t)
        BY <2>1, <3>3, Zenon
      <4> QED
        BY <1>3, <3>1, <3>2, <4>1, <4>2, Booked, ZenonT(60)
    <3>4. CASE k \notin {ip, net}
      <4>1. Unit(HoldsActive(x, k)) = 0 /\ Unit(HoldsPending(x, k)) = 0
        BY <2>2, <3>4, Zenon DEF Unit
      <4>2. entry'[k] = entry[k]
        BY <2>1, <3>4, Zenon
      <4> QED
        BY <3>1, <3>2, <4>1, <4>2
    <3> QED
      BY <3>3, <3>4
  <2> QED
    BY <2>4, Zenon DEF Rebooked
<1> QED
  BY <1>1, <1>2, <1>5, <1>6, <1>7, <1>8, MovedInductive, Zenon DEF TypeOK

\* The first half of mark_admitted() takes the ticket off the address's pending.
LEMMA MarkAdmittedIpInductive ==
  ASSUME Inductive, NEW c \in Conn, MarkAdmittedIp(c)
  PROVE  Inductive'
<1> DEFINE ip == ticket[c].ip
           x == [ticket[c] EXCEPT !.phase = "admitting"]
           i == [entry[ip] EXCEPT !.pending = entry[ip].pending - 1]
<1>1. /\ TypeOK /\ ticket[c] \in Ticket /\ ip \in Key /\ Net(c) # ip
      /\ entry[ip] \in Entry /\ ticket[c].phase = "live" /\ ~ticket[c].admitted
  BY KeysApart, SMTT(20) DEF Inductive, TypeOK, MarkAdmittedIp, Serving
<1>2. ip \in known /\ Net(c) \in known
  BY <1>1 DEF Inductive, LiveTicketsKnown
<1>3. /\ x \in Ticket /\ x.phase = "admitting" /\ x.ip = ip
      /\ ~x.admitted /\ x.status = ticket[c].status
  BY <1>1, ZenonT(20) DEF Ticket
<1>4. entry[ip].pending - 1 \in Nat
  BY <1>1, HeldIsPositive DEF HoldsPending
<1>5. /\ i \in Entry /\ i.active = entry[ip].active /\ i.status = entry[ip].status
      /\ i.pending = entry[ip].pending - 1
  BY <1>1, <1>4 DEF Entry
<1>6. /\ entry' = [entry EXCEPT ![ip] = i] /\ ticket' = [ticket EXCEPT ![c] = x]
      /\ UNCHANGED <<now, known, global, sweeper>>
  BY <1>1, <1>2 DEF MarkAdmittedIp, Unpended, TypeOK
<1> HIDE DEF x, i
<1>7. entry' \in [Key -> Entry]
  BY <1>1, <1>5, <1>6 DEF TypeOK
<1>8. Rebooked(x, c)
  <2>1. \A k \in Key \ {ip} : /\ HoldsActive(x, k) <=> HoldsActive(ticket[c], k)
                              /\ HoldsPending(x, k) <=> HoldsPending(ticket[c], k)
                              /\ HoldsStatus(x, k) <=> HoldsStatus(ticket[c], k)
    BY <1>1, <1>3, ZenonT(20) DEF HoldsActive, HoldsPending, HoldsStatus, Net
  <2>2. /\ HoldsActive(x, ip) /\ HoldsActive(ticket[c], ip)
        /\ ~HoldsPending(x, ip) /\ HoldsPending(ticket[c], ip)
        /\ HoldsStatus(x, ip) <=> HoldsStatus(ticket[c], ip)
    BY <1>1, <1>3, ZenonT(20) DEF HoldsActive, HoldsPending, HoldsStatus, Net
  <2>3. /\ i.active = entry[ip].active + Unit(HoldsActive(x, ip)) - Unit(HoldsActive(ticket[c], ip))
        /\ i.pending = entry[ip].pending + Unit(HoldsPending(x, ip))
                         - Unit(HoldsPending(ticket[c], ip))
        /\ i.status = entry[ip].status + Unit(HoldsStatus(x, ip)) - Unit(HoldsStatus(ticket[c], ip))
    BY <1>1, <1>5, <2>2, CountsAreNat DEF Unit
  <2> QED
    BY <1>1, <1>6, <2>1, <2>3, RebookedOne, Zenon
<1> QED
  BY <1>1, <1>2, <1>3, <1>6, <1>7, <1>8, MovedInductive, Zenon DEF TypeOK, Net

\* The second half takes it off the prefix's.
LEMMA MarkAdmittedPrefixInductive ==
  ASSUME Inductive, NEW c \in Conn, MarkAdmittedPrefix(c)
  PROVE  Inductive'
<1> DEFINE net == Net(c)
           x == [ticket[c] EXCEPT !.phase = "live", !.admitted = TRUE]
           n == [entry[net] EXCEPT !.pending = entry[net].pending - 1]
<1>1. /\ TypeOK /\ ticket[c] \in Ticket /\ net \in Key /\ net # ticket[c].ip
      /\ entry[net] \in Entry /\ ticket[c].phase = "admitting"
  BY KeysApart DEF Inductive, TypeOK, MarkAdmittedPrefix
<1>2. /\ ticket[c].ip \in known /\ net \in known /\ ~ticket[c].admitted
  BY <1>1 DEF Inductive, LiveTicketsKnown, AdmittingOnce
<1>3. /\ x \in Ticket /\ x.phase = "live" /\ x.ip = ticket[c].ip
      /\ x.admitted /\ x.status = ticket[c].status
  BY <1>1, Zenon DEF Ticket
<1>4. entry[net].pending - 1 \in Nat
  BY <1>1, <1>2, HeldIsPositive DEF HoldsPending, Net
<1>5. /\ n \in Entry /\ n.active = entry[net].active /\ n.status = entry[net].status
      /\ n.pending = entry[net].pending - 1
  BY <1>1, <1>4 DEF Entry
<1>6. /\ entry' = [entry EXCEPT ![net] = n] /\ ticket' = [ticket EXCEPT ![c] = x]
      /\ UNCHANGED <<now, known, global, sweeper>>
  BY <1>1, <1>2, Zenon DEF MarkAdmittedPrefix, Unpended, TypeOK
<1> HIDE DEF x, n
<1>7. entry' \in [Key -> Entry]
  BY <1>1, <1>5, <1>6 DEF TypeOK
<1>8. Rebooked(x, c)
  <2>1. \A k \in Key \ {net} : /\ HoldsActive(x, k) <=> HoldsActive(ticket[c], k)
                               /\ HoldsPending(x, k) <=> HoldsPending(ticket[c], k)
                               /\ HoldsStatus(x, k) <=> HoldsStatus(ticket[c], k)
    BY <1>1, <1>2, <1>3, ZenonT(20) DEF HoldsActive, HoldsPending, HoldsStatus, Net
  <2>2. /\ HoldsActive(x, net) /\ HoldsActive(ticket[c], net)
        /\ ~HoldsPending(x, net) /\ HoldsPending(ticket[c], net)
        /\ HoldsStatus(x, net) <=> HoldsStatus(ticket[c], net)
    BY <1>1, <1>2, <1>3, ZenonT(20) DEF HoldsActive, HoldsPending, HoldsStatus, Net
  <2>3. /\ n.active = entry[net].active + Unit(HoldsActive(x, net)) - Unit(HoldsActive(ticket[c], net))
        /\ n.pending = entry[net].pending + Unit(HoldsPending(x, net))
                         - Unit(HoldsPending(ticket[c], net))
        /\ n.status = entry[net].status + Unit(HoldsStatus(x, net)) - Unit(HoldsStatus(ticket[c], net))
    BY <1>1, <1>5, <2>2, CountsAreNat DEF Unit
  <2> QED
    BY <1>1, <1>6, <2>1, <2>3, RebookedOne, Zenon
<1> QED
  BY <1>1, <1>2, <1>3, <1>6, <1>7, <1>8, MovedInductive, Zenon DEF TypeOK, Net

\* What drop() does to one entry it holds.
LEMMA ReleasedType ==
  ASSUME NEW k, NEW y \in Entry, NEW tk \in Ticket, NEW t \in Time,
         y.active - 1 \in Nat,
         ~tk.admitted => y.pending - 1 \in Nat,
         k \in Ips /\ tk.status => y.status - 1 \in Nat
  PROVE  /\ Released(k, y, tk, t) \in Entry
         /\ Released(k, y, tk, t).active = y.active - 1
         /\ Released(k, y, tk, t).pending = IF tk.admitted THEN y.pending ELSE y.pending - 1
         /\ Released(k, y, tk, t).status =
              IF k \in Ips /\ tk.status THEN y.status - 1 ELSE y.status
<1> DEFINE freed == [y EXCEPT
                       !.active = y.active - 1,
                       !.touched = t,
                       !.status = IF k \in Ips /\ tk.status THEN y.status - 1 ELSE y.status,
                       !.pending = IF tk.admitted THEN y.pending ELSE y.pending - 1]
           until == IF Scored(y, tk, t) >= ChurnLimit(k) THEN t + PenaltySeconds
                    ELSE y.penaltyUntil
           scored == [freed EXCEPT !.score = Scored(y, tk, t), !.scoreAt = t,
                                   !.penaltyUntil = until]
<1>1. /\ freed \in Entry /\ freed.active = y.active - 1
      /\ freed.pending = IF tk.admitted THEN y.pending ELSE y.pending - 1
      /\ freed.status = IF k \in Ips /\ tk.status THEN y.status - 1 ELSE y.status
      /\ freed.penaltyUntil = y.penaltyUntil
  BY Zenon DEF Entry
<1>2. Scored(y, tk, t) \in 0..MaxScore
  <2>1. y.score \in 0..MaxScore /\ Greater(0, t - y.scoreAt) \in Time
    BY LimitAssumption DEF Entry, Greater, Time
  <2>2. Decay(y.score, Greater(0, t - y.scoreAt)) \in 0..y.score
    BY <2>1, LimitAssumption
  <2> QED
    BY <2>1, <2>2, LimitAssumption, SMTT(20) DEF Scored, Lesser
<1>3. until \in Nat
  BY LimitAssumption DEF Time, Entry
<1>4. Released(k, y, tk, t) = IF Churn(tk) /\ ChurnLimit(k) > 0 THEN scored ELSE freed
  BY <1>1 DEF Released
<1> HIDE DEF freed, until
<1>5. scored \in Entry /\ SameCounts(scored, freed)
  BY <1>1, <1>2, <1>3, Zenon DEF Entry, SameCounts
<1> QED
  BY <1>1, <1>4, <1>5 DEF SameCounts

\* The first half of drop() takes the ticket off its address entry.
LEMMA DropIpInductive ==
  ASSUME Inductive, NEW c \in Conn, NEW t \in Time, DropIp(c, t)
  PROVE  Inductive'
<1> DEFINE ip == ticket[c].ip
           x == [ticket[c] EXCEPT !.phase = "dropping", !.at = t]
           i == Released(ip, entry[ip], ticket[c], t)
<1>1. /\ TypeOK /\ ticket[c] \in Ticket /\ ip \in Ips /\ ip \in Key /\ Net(c) # ip
      /\ entry[ip] \in Entry /\ ticket[c].phase = "live"
  BY KeysApart DEF Inductive, TypeOK, DropIp
<1>2. ip \in known /\ Net(c) \in known
  BY <1>1 DEF Inductive, LiveTicketsKnown
<1>3. /\ x \in Ticket /\ x.phase = "dropping" /\ x.ip = ip
      /\ x.admitted = ticket[c].admitted /\ x.status = ticket[c].status
  BY <1>1, Zenon DEF Ticket
<1>4. /\ entry[ip].active - 1 \in Nat
      /\ ~ticket[c].admitted => entry[ip].pending - 1 \in Nat
      /\ ticket[c].status => entry[ip].status - 1 \in Nat
  BY <1>1, HeldIsPositive DEF HoldsActive, HoldsPending, HoldsStatus
<1>5. /\ i \in Entry /\ i.active = entry[ip].active - 1
      /\ i.pending = IF ticket[c].admitted THEN entry[ip].pending ELSE entry[ip].pending - 1
      /\ i.status = IF ticket[c].status THEN entry[ip].status - 1 ELSE entry[ip].status
  <2>1. ip \in Ips /\ ticket[c].status => entry[ip].status - 1 \in Nat
    BY <1>1, <1>4, Zenon
  <2> HIDE DEF ip
  <2>2. /\ i \in Entry /\ i.active = entry[ip].active - 1
        /\ i.pending = IF ticket[c].admitted THEN entry[ip].pending ELSE entry[ip].pending - 1
        /\ i.status =
             IF ip \in Ips /\ ticket[c].status THEN entry[ip].status - 1 ELSE entry[ip].status
    BY <1>1, <1>4, <2>1, ReleasedType
  <2> HIDE DEF i
  <2> QED
    BY <1>1, <2>2, Zenon
<1>6. /\ entry' = [entry EXCEPT ![ip] = i] /\ ticket' = [ticket EXCEPT ![c] = x]
      /\ UNCHANGED <<now, known, global, sweeper>>
  BY <1>1, <1>2, Zenon DEF DropIp, TypeOK
<1> HIDE DEF x, i
<1>7. entry' \in [Key -> Entry]
  BY <1>1, <1>5, <1>6 DEF TypeOK
<1>8. Rebooked(x, c)
  <2>1. \A k \in Key \ {ip} : /\ HoldsActive(x, k) <=> HoldsActive(ticket[c], k)
                              /\ HoldsPending(x, k) <=> HoldsPending(ticket[c], k)
                              /\ HoldsStatus(x, k) <=> HoldsStatus(ticket[c], k)
    BY <1>1, <1>3, Zenon DEF HoldsActive, HoldsPending, HoldsStatus, Net
  <2>2. /\ ~HoldsActive(x, ip) /\ HoldsActive(ticket[c], ip)
        /\ ~HoldsPending(x, ip) /\ (HoldsPending(ticket[c], ip) <=> ~ticket[c].admitted)
        /\ ~HoldsStatus(x, ip) /\ (HoldsStatus(ticket[c], ip) <=> ticket[c].status)
    BY <1>1, <1>3, ZenonT(20) DEF HoldsActive, HoldsPending, HoldsStatus, Net
  <2>3. i.active = entry[ip].active + Unit(HoldsActive(x, ip)) - Unit(HoldsActive(ticket[c], ip))
    <3>1. Unit(HoldsActive(x, ip)) = 0 /\ Unit(HoldsActive(ticket[c], ip)) = 1
      BY <2>2, ZenonT(20) DEF Unit
    <3> QED
      BY <1>1, <1>5, <3>1, CountsAreNat
  <2>4. i.pending = entry[ip].pending + Unit(HoldsPending(x, ip)) - Unit(HoldsPending(ticket[c], ip))
    <3>1. /\ Unit(HoldsPending(x, ip)) = 0
          /\ Unit(HoldsPending(ticket[c], ip)) = IF ticket[c].admitted THEN 0 ELSE 1
      BY <2>2, ZenonT(20) DEF Unit
    <3> QED
      BY <1>1, <1>5, <3>1, CountsAreNat
  <2>5. i.status = entry[ip].status + Unit(HoldsStatus(x, ip)) - Unit(HoldsStatus(ticket[c], ip))
    <3>1. /\ Unit(HoldsStatus(x, ip)) = 0
          /\ Unit(HoldsStatus(ticket[c], ip)) = IF ticket[c].status THEN 1 ELSE 0
      BY <2>2 DEF Unit
    <3> QED
      BY <1>1, <1>5, <3>1, CountsAreNat
  <2> QED
    BY <1>1, <1>6, <2>1, <2>3, <2>4, <2>5, RebookedOne, Zenon
<1> QED
  BY <1>1, <1>2, <1>3, <1>6, <1>7, <1>8, MovedInductive, Zenon DEF TypeOK, Net

\* The second half takes it off the prefix entry; the ticket is gone.
LEMMA DropPrefixInductive ==
  ASSUME Inductive, NEW c \in Conn, DropPrefix(c)
  PROVE  Inductive'
<1> DEFINE net == Net(c)
           n == Released(net, entry[net], ticket[c], ticket[c].at)
<1>1. /\ TypeOK /\ ticket[c] \in Ticket /\ net \in Key /\ net # ticket[c].ip
      /\ net \notin Ips /\ entry[net] \in Entry /\ ticket[c].phase = "dropping"
      /\ ticket[c].at \in Time
  BY KeysApart, ZenonT(20) DEF Inductive, TypeOK, DropPrefix, Ticket
<1>2. net \in known
  BY <1>1, ZenonT(20) DEF Inductive, LiveTicketsKnown
<1>3. NoTicket \in Ticket /\ NoTicket.phase = "idle"
  <2>1. AnIp \in Ips
    BY <1>1, KeysApart DEF AnIp
  <2>2. 0 \in Time
    BY LimitAssumption, SMTT(20) DEF Time
  <2> QED
    BY <2>1, <2>2, SMTT(20) DEF NoTicket, NewTicket, Ticket
<1>4. /\ entry[net].active - 1 \in Nat
      /\ ~ticket[c].admitted => entry[net].pending - 1 \in Nat
  BY <1>1, HeldIsPositive DEF HoldsActive, HoldsPending, Net
<1>5. /\ n \in Entry /\ n.active = entry[net].active - 1
      /\ n.pending = IF ticket[c].admitted THEN entry[net].pending ELSE entry[net].pending - 1
      /\ n.status = entry[net].status
  <2>1. net \in Ips /\ ticket[c].status => entry[net].status - 1 \in Nat
    BY <1>1, <1>4, Zenon
  <2> HIDE DEF net
  <2>2. /\ n \in Entry /\ n.active = entry[net].active - 1
        /\ n.pending = IF ticket[c].admitted THEN entry[net].pending ELSE entry[net].pending - 1
        /\ n.status =
             IF net \in Ips /\ ticket[c].status THEN entry[net].status - 1 ELSE entry[net].status
    BY <1>1, <1>4, <2>1, ReleasedType
  <2> HIDE DEF n
  <2> QED
    BY <1>1, <2>2, Zenon
<1>6. /\ entry' = [entry EXCEPT ![net] = n] /\ ticket' = [ticket EXCEPT ![c] = NoTicket]
      /\ UNCHANGED <<now, known, global, sweeper>>
  BY <1>1, <1>2, Zenon DEF DropPrefix, TypeOK
<1> HIDE DEF n
<1>7. entry' \in [Key -> Entry]
  BY ZenonT(20), <1>1, <1>5, <1>6 DEF TypeOK
<1>8. Rebooked(NoTicket, c)
  <2>1. \A k \in Key \ {net} : /\ HoldsActive(NoTicket, k) <=> HoldsActive(ticket[c], k)
                               /\ HoldsPending(NoTicket, k) <=> HoldsPending(ticket[c], k)
                               /\ HoldsStatus(NoTicket, k) <=> HoldsStatus(ticket[c], k)
    BY <1>1, <1>3, Zenon DEF HoldsActive, HoldsPending, HoldsStatus, Net
  <2>2. /\ ~HoldsActive(NoTicket, net) /\ HoldsActive(ticket[c], net)
        /\ ~HoldsPending(NoTicket, net) /\ (HoldsPending(ticket[c], net) <=> ~ticket[c].admitted)
        /\ ~HoldsStatus(NoTicket, net) /\ ~HoldsStatus(ticket[c], net)
    BY <1>1, <1>3, ZenonT(20) DEF HoldsActive, HoldsPending, HoldsStatus, Net
  <2>3. n.active = entry[net].active + Unit(HoldsActive(NoTicket, net)) - Unit(HoldsActive(ticket[c], net))
    <3>1. Unit(HoldsActive(NoTicket, net)) = 0 /\ Unit(HoldsActive(ticket[c], net)) = 1
      BY <2>2, ZenonT(20) DEF Unit
    <3> QED
      BY <1>1, <1>5, <3>1, CountsAreNat
  <2>4. n.pending = entry[net].pending + Unit(HoldsPending(NoTicket, net)) - Unit(HoldsPending(ticket[c], net))
    <3>1. /\ Unit(HoldsPending(NoTicket, net)) = 0
          /\ Unit(HoldsPending(ticket[c], net)) = IF ticket[c].admitted THEN 0 ELSE 1
      BY <2>2, ZenonT(20) DEF Unit
    <3> QED
      BY <1>1, <1>5, <3>1, CountsAreNat
  <2>5. n.status = entry[net].status + Unit(HoldsStatus(NoTicket, net)) - Unit(HoldsStatus(ticket[c], net))
    <3>1. Unit(HoldsStatus(NoTicket, net)) = 0 /\ Unit(HoldsStatus(ticket[c], net)) = 0
      BY <2>2, ZenonT(20) DEF Unit
    <3> QED
      BY <1>1, <1>5, <3>1, CountsAreNat
  <2> QED
    BY <1>1, <1>6, <2>1, <2>3, <2>4, <2>5, RebookedOne, Zenon
<1> QED
  BY <1>1, <1>3, <1>6, <1>7, <1>8, MovedInductive, Zenon DEF TypeOK

-----------------------------------------------------------------------------
(* The sweep and the clock *)

\* An entry without active tasks has no pending and no status task either.
LEMMA InactiveIsFree ==
  ASSUME Inductive, NEW k \in Key, ~(entry[k].active > 0)
  PROVE  ActiveOn(k) = {} /\ SameCounts(entry[k], NoEntry(k))
<1>1. ActiveOn(k) \subseteq Conn /\ IsFiniteSet(ActiveOn(k))
  BY KeyAssumption, FS_Subset DEF ActiveOn
<1>2. Cardinality(ActiveOn(k)) = 0
  BY <1>1, FS_CardinalityType DEF Inductive, Accounting
<1>3. ActiveOn(k) = {}
  BY <1>1, <1>2, FS_EmptySet, SMTT(20)
<1>4. PendingOn(k) = {} /\ StatusOn(k) = {}
  BY <1>3 DEF ActiveOn, PendingOn, StatusOn
<1>5. entry[k].active = 0 /\ entry[k].pending = 0 /\ entry[k].status = 0
  BY <1>2, <1>4, FS_EmptySet, Zenon DEF Inductive, Accounting
<1>6. 0 \in Time
  BY LimitAssumption DEF Time
<1> QED
  BY <1>3, <1>5, <1>6, NewEntryType, ZenonT(20) DEF SameCounts, NoEntry

\* retain() removes no entry that a task holds.
LEMMA EvictInductive ==
  ASSUME Inductive, NEW gone, gone \subseteq known, Evict(gone),
         \A k \in gone : ~(entry[k].active > 0),
         UNCHANGED <<now, global, ticket>>,
         sweeper' \in [table : {"ip", "prefix"}, shard : ShardId, at : Time]
  PROVE  Inductive'
<1>1. gone \subseteq Key
  BY DEF Inductive, TypeOK
<1>2. \A k \in Key : NoEntry(k) \in Entry
  <2>1. 0 \in Time
    BY LimitAssumption DEF Time
  <2> QED
    BY <2>1, NewEntryType DEF NoEntry
<1>3. entry' \in [Key -> Entry] /\ \A k \in Key : SameCounts(entry'[k], entry[k])
  BY <1>1, <1>2, InactiveIsFree, SMTT(20) DEF Evict, Inductive, TypeOK, SameCounts
<1>4. TypeOK'
  BY <1>3, ZenonT(20) DEF Inductive, TypeOK, Evict
<1>5. \A k \in Key : /\ ActiveOn(k)' = ActiveOn(k) /\ PendingOn(k)' = PendingOn(k)
                     /\ StatusOn(k)' = StatusOn(k)
  BY ZenonT(20) DEF ActiveOn, PendingOn, StatusOn, Net
<1>6. Accounting'
  BY <1>3, <1>5, ZenonT(20) DEF Inductive, Accounting, SameCounts
<1>7. \A k \in gone : ActiveOn(k) = {}
  BY <1>1, InactiveIsFree, ZenonT(20)
<1>8. LiveTicketsKnown' /\ AdmittingOnce'
  <2> SUFFICES ASSUME NEW c \in Conn
               PROVE  /\ ticket[c].phase \in {"live", "admitting"} => ticket[c].ip \in known'
                      /\ ticket[c].phase # "idle" => Net(c) \in known'
                      /\ ticket[c].phase = "admitting" => ~ticket[c].admitted
    BY DEF LiveTicketsKnown, AdmittingOnce, Net
  <2> QED
    BY <1>7 DEF Inductive, LiveTicketsKnown, AdmittingOnce, Evict, ActiveOn, Net
<1> QED
  BY <1>4, <1>6, <1>8 DEF Inductive

\* sweep() evicts only entries that no ticket is counted on.
LEMMA SweepInductive ==
  ASSUME Inductive, Sweep \/ SweepPrefix
  PROVE  Inductive'
<1>1. sweeper \in [table : {"ip", "prefix"}, shard : ShardId, at : Time]
  BY DEF Inductive, TypeOK
<1>2. \A table, t : /\ Swept(table, t) \subseteq known
                    /\ \A k \in Swept(table, t) : ~(entry[k].active > 0)
  BY DEF Swept, Keep
<1>3. CASE Sweep
  <2>1. PICK t \in Reading(sweeper.at) : SweepIp(t)
    BY <1>3 DEF Sweep
  <2>2. sweeper' \in [table : {"ip", "prefix"}, shard : ShardId, at : Time]
    BY <1>1, <2>1, Zenon DEF SweepIp, Reading
  <2> QED
    BY <1>2, <2>1, <2>2, EvictInductive DEF SweepIp
<1>4. CASE SweepPrefix
  <2>1. (sweeper.shard + 1) % Shards \in ShardId
    BY <1>1, KeyAssumption DEF ShardId
  <2>2. sweeper' \in [table : {"ip", "prefix"}, shard : ShardId, at : Time]
    BY <1>1, <1>4, <2>1, Zenon DEF SweepPrefix
  <2> QED
    BY <1>2, <1>4, <2>2, EvictInductive DEF SweepPrefix
<1> QED
  BY <1>3, <1>4

\* Time alone preserves the invariant.
LEMMA TickInductive ==
  ASSUME Inductive, Tick
  PROVE  Inductive'
<1>1. now' \in Time
  BY LimitAssumption DEF Inductive, TypeOK, Tick, Time
<1>2. TypeOK'
  BY <1>1 DEF Inductive, TypeOK, Tick
<1>3. Accounting' /\ LiveTicketsKnown' /\ AdmittingOnce'
  BY UnmovedKeepsBooks DEF Tick, SameCounts
<1> QED
  BY <1>2, <1>3, SMTT(20) DEF Inductive

-----------------------------------------------------------------------------
(* The invariant *)

\* Before the first accept() no task holds anything.
LEMMA InitInductive ==
  ASSUME Init
  PROVE  Inductive
<1>1. 0 \in Time /\ 0 \in ShardId
  BY KeyAssumption, LimitAssumption, SMTT(20) DEF Time, ShardId
<1>2. NoTicket \in Ticket /\ NoTicket.phase = "idle"
  <2>1. AnIp \in Ips
    BY KeyAssumption DEF AnIp
  <2> QED
    BY <1>1, <2>1 DEF NoTicket, NewTicket, Ticket
<1>3. \A k \in Key : /\ NoEntry(k) \in Entry /\ NoEntry(k).active = 0
                     /\ NoEntry(k).pending = 0 /\ NoEntry(k).status = 0
  BY <1>1, NewEntryType DEF NoEntry
<1>4. global \in [Event -> Bucket]
  <2>1. \A e \in Event : NewBucket(GlobalRate[e], 0) \in Bucket
    BY <1>1, RateAssumption, NewBucketType, SMTT(20)
  <2> QED
    BY <2>1 DEF Init
<1>5. TypeOK
  BY <1>1, <1>2, <1>3, <1>4, SMTT(20) DEF Init, TypeOK
<1>6. \A c \in Conn : ticket[c].phase = "idle"
  BY <1>2 DEF Init
<1>7. \A k \in Key : ActiveOn(k) = {} /\ PendingOn(k) = {} /\ StatusOn(k) = {}
  BY <1>6, SMTT(20) DEF ActiveOn, PendingOn, StatusOn
<1>8. Accounting
  BY <1>3, <1>7, FS_EmptySet, SMTT(20) DEF Init, Accounting
<1>9. LiveTicketsKnown /\ AdmittingOnce
  BY <1>6 DEF LiveTicketsKnown, AdmittingOnce
<1> QED
  BY <1>5, <1>8, <1>9, SMTT(20) DEF Inductive

\* Every step, and every stutter, preserves the invariant.
LEMMA NextInductive ==
  ASSUME Inductive, [Next]_vars
  PROVE  Inductive'
<1>1. CASE UNCHANGED vars
  <2>1. TypeOK'
    BY <1>1 DEF Inductive, TypeOK, vars
  <2>2. Accounting' /\ LiveTicketsKnown' /\ AdmittingOnce'
    BY <1>1, UnmovedKeepsBooks DEF vars, SameCounts
  <2> QED
    BY <2>1, <2>2 DEF Inductive
<1>2. ASSUME NEW c \in Conn, AcceptRefused(c) PROVE Inductive'
  BY <1>2, AcceptRefusedInductive
<1>3. ASSUME NEW c \in Conn, EventRefused(c) PROVE Inductive'
  BY <1>3, EventRefusedInductive
<1>4. ASSUME NEW c \in Conn, Handshake(c) \/ ServerReject(c) \/ StatusComplete(c)
      PROVE  Inductive'
  BY <1>4, FlagStepInductive, ZenonT(20)
<1>5. ASSUME NEW c \in Conn, EnterStatus(c) PROVE Inductive'
  BY <1>5, EnterStatusInductive
<1>6. ASSUME NEW c \in Conn, MarkAdmittedIp(c) PROVE Inductive'
  BY <1>6, MarkAdmittedIpInductive
<1>7. ASSUME NEW c \in Conn, MarkAdmittedPrefix(c) PROVE Inductive'
  BY <1>7, MarkAdmittedPrefixInductive
<1>8. ASSUME NEW c \in Conn, Drop(c) PROVE Inductive'
  BY <1>8, DropIpInductive DEF Drop, Reading
<1>9. ASSUME NEW c \in Conn, DropPrefix(c) PROVE Inductive'
  BY <1>9, DropPrefixInductive
<1>10. CASE Sweep \/ SweepPrefix
  BY <1>10, SweepInductive
<1>11. CASE Tick
  BY <1>11, TickInductive
<1>12. ASSUME NEW c \in Conn, NEW ip \in Ips, NEW p \in Policies, NEW t \in Reading(0),
              AcceptAdmit(c, ip, p, t)
       PROVE  Inductive'
  BY <1>12, AcceptAdmitInductive
<1>13. ASSUME NEW c \in Conn, NEW e \in Event, NEW p \in Policies,
              NEW t \in Reading(ticket[c].at), EventGranted(c, e, p, t)
       PROVE  Inductive'
  BY <1>13, EventGrantedInductive
<1> QED
  BY <1>1, <1>2, <1>3, <1>4, <1>5, <1>6, <1>7, <1>8, <1>9, <1>10, <1>11, <1>12, <1>13, Zenon
     DEF Next, Ungranted

\* The inductive invariant of the limiter: types, exact counters, no entry
\* lost under a ticket, mark_admitted() at most once.
THEOREM InductiveAlways == Spec => []Inductive
<1>1. Init => Inductive
  BY InitInductive
<1>2. Inductive /\ [Next]_vars => Inductive'
  BY NextInductive
<1> QED
  BY <1>1, <1>2, PTL DEF Spec

\* All counters stay natural numbers: no decrement of limiter.rs wraps.
THEOREM TypeCorrect == Spec => []TypeOK
<1>1. Inductive => TypeOK
  BY DEF Inductive
<1> QED
  BY <1>1, InductiveAlways, PTL

\* active, pending and status of an entry are always the numbers of tasks
\* that hold it, between the separately locked halves too.
THEOREM CountersAreExact == Spec => []Accounting
<1>1. Inductive => Accounting
  BY DEF Inductive
<1> QED
  BY <1>1, InductiveAlways, PTL

\* sweep() never removes an entry that a live ticket will look up again.
THEOREM TicketsKeepTheirEntries == Spec => []LiveTicketsKnown
<1>1. Inductive => LiveTicketsKnown
  BY DEF Inductive
<1> QED
  BY <1>1, InductiveAlways, PTL

-----------------------------------------------------------------------------
(* Only accept() makes a task hold more *)

\* What the refusals of event() have in common, whichever limit refused.
LEMMA RefusedEvent ==
  ASSUME NEW c, EventRefused(c)
  PROVE  \E e \in Event, t \in Time :
           Asks(c, e) /\ Refused(c, e, t) /\ known' = known /\ now' = now /\ sweeper' = sweeper
<1>1. PICK e \in Event, p \in Policies, t \in Reading(ticket[c].at) :
        \/ EventIpLimited(c, e, p, t) \/ EventPrefixLimited(c, e, p, t)
        \/ EventGlobalLimited(c, e, p, t)
  BY Zenon DEF EventRefused
<1>2. t \in Time
  BY Zenon DEF Reading
<1>3. Asks(c, e) /\ Refused(c, e, t) /\ known' = known /\ now' = now /\ sweeper' = sweeper
  <2>1. CASE EventIpLimited(c, e, p, t)
    BY <2>1, Zenon DEF EventIpLimited
  <2>2. CASE EventPrefixLimited(c, e, p, t)
    BY <2>2, Zenon DEF EventPrefixLimited
  <2>3. CASE EventGlobalLimited(c, e, p, t)
    BY <2>3, Zenon DEF EventGlobalLimited
  <2> QED
    BY <1>1, <2>1, <2>2, <2>3, Zenon
<1> QED
  BY <1>2, <1>3, Zenon

\* A ticket that went from y to x without taking anything.
Lets(x, y) ==
  \/ x.phase = "idle"
  \/ /\ x.ip = y.ip /\ y.phase # "idle"
     /\ x.phase # "dropping" => y.phase \in {"live", "admitting"}
     /\ y.admitted => x.admitted
     /\ x.phase = "live" => y.phase = "live" \/ x.admitted

Letting == \A c \in Conn : ticket'[c] = ticket[c] \/ Lets(ticket'[c], ticket[c])

\* Tickets that take nothing leave smaller sets of holders.
LEMMA LettingShrinks ==
  ASSUME Letting, NEW k \in Key
  PROVE  ActiveOn(k)' \subseteq ActiveOn(k) /\ PendingOn(k)' \subseteq PendingOn(k)
<1>1. ActiveOn(k)' \subseteq ActiveOn(k)
  BY DEF Letting, Lets, ActiveOn, Net
<1>2. PendingOn(k)' \subseteq PendingOn(k)
  BY DEF Letting, Lets, PendingOn, Net
<1> QED
  BY <1>1, <1>2, ZenonT(20)

\* Every action of one task other than an admitting accept().
LEMMA TaskStepLets ==
  ASSUME TypeOK, NEW c \in Conn,
         \/ AcceptRefused(c) \/ EventRefused(c)
         \/ Handshake(c) \/ EnterStatus(c) \/ ServerReject(c) \/ StatusComplete(c)
         \/ MarkAdmittedIp(c) \/ MarkAdmittedPrefix(c)
         \/ Drop(c) \/ DropPrefix(c)
         \/ \E e \in Event, p \in Policies : \E t \in Reading(ticket[c].at) :
              EventGranted(c, e, p, t)
  PROVE  Letting /\ known' = known
<1>1. ticket \in [Conn -> Ticket] /\ ticket[c] \in Ticket
  BY SMTT(20) DEF TypeOK
<1>2. CASE AcceptRefused(c)
  BY <1>2, Zenon DEF AcceptRefused, AcceptCapped, AcceptSourceLimited, AcceptGlobalLimited, Letting
<1>3. CASE EventRefused(c)
  <2>1. PICK e \in Event, t \in Time :
          Asks(c, e) /\ Refused(c, e, t) /\ known' = known
    BY <1>3, RefusedEvent, Zenon
  <2> QED
    BY <1>1, <2>1, SMTT(20) DEF Refused, Asks, Serving, Letting, Lets, Ticket
<1>4. CASE Handshake(c) \/ ServerReject(c) \/ StatusComplete(c)
  BY <1>1, <1>4 DEF Handshake, ServerReject, StatusComplete, Serving, Letting, Lets, Ticket
<1>5. CASE EnterStatus(c)
  BY <1>1, <1>5 DEF EnterStatus, Serving, Letting, Lets, Ticket
<1>6. CASE MarkAdmittedIp(c) \/ MarkAdmittedPrefix(c)
  BY <1>1, <1>6 DEF MarkAdmittedIp, MarkAdmittedPrefix, Serving, Letting, Lets, Ticket
<1>7. CASE Drop(c)
  <2>1. PICK t \in Time : DropIp(c, t)
    BY <1>7, Zenon DEF Drop, Reading
  <2>2. /\ ticket' = [ticket EXCEPT ![c].phase = "dropping", ![c].at = t]
        /\ ticket[c].phase = "live" /\ known' = known
    BY <2>1, SMTT(20) DEF DropIp
  <2> QED
    BY <1>1, <2>2, SMTT(20) DEF Letting, Lets, Ticket
<1>8. CASE DropPrefix(c)
  BY <1>1, <1>8, Zenon DEF DropPrefix, NoTicket, NewTicket, Letting, Lets
<1>9. CASE \E e \in Event, p \in Policies : \E t \in Reading(ticket[c].at) :
             EventGranted(c, e, p, t)
  <2>1. PICK e \in Event, t \in Time :
          /\ Asks(c, e) /\ known' = known
          /\ ticket' = [ticket EXCEPT ![c].at = t, ![c].asked = @ \cup {e}]
    BY <1>9, Zenon DEF EventGranted, Reading
  <2> QED
    BY <1>1, <2>1, SMTT(20) DEF Asks, Serving, Letting, Lets, Ticket
<1> QED
  BY <1>2, <1>3, <1>4, <1>5, <1>6, <1>7, <1>8, <1>9, ZenonT(20)

\* Every step is an admitting accept() or lets go.
LEMMA StepKinds ==
  ASSUME TypeOK, [Next]_vars
  PROVE  \/ Letting /\ known' \subseteq known
         \/ \E c \in Conn, ip \in Ips, p \in Policies, t \in Reading(0) :
              AcceptAdmit(c, ip, p, t)
<1>1. CASE UNCHANGED vars
  BY <1>1 DEF vars, Letting
<1>2. CASE Sweep \/ SweepPrefix \/ Tick
  BY <1>2, Zenon DEF Sweep, SweepIp, SweepPrefix, Tick, Evict, Letting
<1> QED
  BY <1>1, <1>2, TaskStepLets, Zenon DEF Next, Ungranted

-----------------------------------------------------------------------------
(* The concurrency caps *)

\* A smaller set of tasks is within the same cap.
LEMMA WithinSmaller ==
  ASSUME NEW cap \in Nat, NEW S \in SUBSET Conn, NEW T \in SUBSET S, Within(cap, S)
  PROVE  Within(cap, T)
<1>1. IsFiniteSet(S)
  BY KeyAssumption, FS_Subset
<1>2. /\ Cardinality(T) <= Cardinality(S)
      /\ Cardinality(S) \in Nat /\ Cardinality(T) \in Nat
  BY <1>1, FS_Subset, FS_CardinalityType
<1> QED
  BY <1>2 DEF Within

\* A cap that has not been reached leaves room for one more task.
LEMMA WithinOneMore ==
  ASSUME NEW cap \in Nat, NEW S \in SUBSET Conn, NEW T \in SUBSET Conn, NEW c \in Conn,
         T \subseteq S \cup {c}, Within(cap, S), ~Reached(cap, Cardinality(S))
  PROVE  Within(cap, T)
<1>1. Cardinality(S) \in Nat /\ Cardinality(S \cup {c}) <= Cardinality(S) + 1
  <2>1. CASE c \in S
    <3>1. S \cup {c} = S
      BY <2>1
    <3>2. Cardinality(S \cup {c}) = Cardinality(S)
      BY <3>1
    <3>3. Cardinality(S) \in Nat
      BY TaskSets, Zenon
    <3> QED
      BY <3>2, <3>3
  <2>2. CASE c \notin S
    BY <2>2, TaskSets
  <2> QED
    BY <2>1, <2>2
<1>2. Cardinality(S \cup {c}) \in Nat
  BY TaskSets, Zenon
<1>3. Within(cap, S \cup {c})
  BY <1>1, <1>2 DEF Within, Reached
<1> QED
  BY <1>3, WithinSmaller

CapActive(k) == IF k \in Ips THEN ConnectionsIp ELSE ConnectionsPrefix
CapPending(k) == IF k \in Ips THEN PreloginIp ELSE PreloginPrefix

ConnectionsCapped ==
  \A k \in Key : Within(CapActive(k), ActiveOn(k)) /\ Within(CapPending(k), PendingOn(k))

StatusCapped == \A ip \in Ips : Within(StatusIp, StatusOn(ip))

\* accept() compares both counters of both entries before it counts the task.
LEMMA AcceptAdmitCapped ==
  ASSUME Inductive, ConnectionsCapped, NEW c \in Conn, NEW ip \in Ips,
         NEW p \in Policies, NEW t \in Reading(0), AcceptAdmit(c, ip, p, t)
  PROVE  ConnectionsCapped'
<1> DEFINE net == Subnet[ip]
<1>1. /\ t \in Time /\ ip \in Key /\ net \in Key /\ net \notin Ips
      /\ \A k \in Key : ActiveOn(k) \in SUBSET Conn /\ PendingOn(k) \in SUBSET Conn
  BY KeyAssumption, ZenonT(20) DEF Reading, Key, ActiveOn, PendingOn
<1>2. \A k \in Key : /\ Provisional(k, t).active = Cardinality(ActiveOn(k))
                     /\ Provisional(k, t).pending = Cardinality(PendingOn(k))
  BY <1>1, ProvisionalType, ZenonT(20) DEF SameCounts, Inductive, Accounting
<1>3. \A k \in {ip, net} : /\ ~Reached(CapActive(k), Cardinality(ActiveOn(k)))
                           /\ ~Reached(CapPending(k), Cardinality(PendingOn(k)))
  BY <1>1, <1>2, Zenon DEF AcceptAdmit, Acceptable, AtCap, AtConnectionCap, AtPreloginCap,
                    CapActive, CapPending
<1>4. \A d \in Conn : ticket'[d] = IF d = c THEN NewTicket("live", ip, t) ELSE ticket[d]
  BY ZenonT(20) DEF AcceptAdmit, Inductive, TypeOK
<1>5. ASSUME NEW k \in Key
      PROVE  /\ ActiveOn(k)' \in SUBSET Conn /\ PendingOn(k)' \in SUBSET Conn
             /\ k \in {ip, net} => /\ ActiveOn(k)' \subseteq ActiveOn(k) \cup {c}
                                   /\ PendingOn(k)' \subseteq PendingOn(k) \cup {c}
             /\ k \notin {ip, net} => /\ ActiveOn(k)' \subseteq ActiveOn(k)
                                      /\ PendingOn(k)' \subseteq PendingOn(k)
  <2>1. ticket'[c].ip = ip /\ \A d \in Conn \ {c} : ticket'[d] = ticket[d]
    BY <1>4 DEF NewTicket
  <2>2. /\ ActiveOn(k)' \in SUBSET Conn
        /\ k \in {ip, net} => ActiveOn(k)' \subseteq ActiveOn(k) \cup {c}
        /\ k \notin {ip, net} => ActiveOn(k)' \subseteq ActiveOn(k)
    BY <2>1, Zenon DEF ActiveOn, Net
  <2>3. /\ PendingOn(k)' \in SUBSET Conn
        /\ k \in {ip, net} => PendingOn(k)' \subseteq PendingOn(k) \cup {c}
        /\ k \notin {ip, net} => PendingOn(k)' \subseteq PendingOn(k)
    BY <2>1, Zenon DEF PendingOn, Net
  <2> QED
    BY <2>2, <2>3, Zenon
<1>6. \A k \in Key : CapActive(k) \in Nat /\ CapPending(k) \in Nat
  BY LimitAssumption, Zenon DEF CapActive, CapPending
<1>7. ASSUME NEW k \in Key
      PROVE  Within(CapActive(k), ActiveOn(k)') /\ Within(CapPending(k), PendingOn(k)')
  <2>1. CASE k \in {ip, net}
    BY <1>1, <1>3, <1>5, <1>6, <2>1, WithinOneMore, ZenonT(20) DEF ConnectionsCapped
  <2>2. CASE k \notin {ip, net}
    <3>1. Within(CapActive(k), ActiveOn(k)) /\ Within(CapPending(k), PendingOn(k))
      BY Zenon DEF ConnectionsCapped
    <3> QED
      BY ZenonT(20), <1>1, <1>5, <1>6, <2>2, <3>1, WithinSmaller
  <2> QED
    BY <2>1, <2>2, ZenonT(20)
<1> QED
  BY <1>7, ZenonT(20) DEF ConnectionsCapped, Within

\* Every step preserves the connection and pre-login caps.
LEMMA ConnectionsCappedStep ==
  ASSUME Inductive, ConnectionsCapped, [Next]_vars
  PROVE  ConnectionsCapped'
<1>1. CASE Letting
  <2>1. \A k \in Key : /\ CapActive(k) \in Nat /\ CapPending(k) \in Nat
                       /\ ActiveOn(k) \in SUBSET Conn /\ PendingOn(k) \in SUBSET Conn
    BY LimitAssumption DEF CapActive, CapPending, ActiveOn, PendingOn
  <2>2. ASSUME NEW k \in Key
        PROVE  Within(CapActive(k), ActiveOn(k)') /\ Within(CapPending(k), PendingOn(k)')
    BY <1>1, <2>1, LettingShrinks, WithinSmaller, SMTT(20) DEF ConnectionsCapped
  <2> QED
    BY <2>2 DEF ConnectionsCapped, Within
<1> QED
  BY ZenonT(20), <1>1, StepKinds, AcceptAdmitCapped DEF Inductive

\* A ticket that is counted as a status client was counted before.
KeepsStatus(x, y) ==
  x.status /\ x.phase \in {"live", "admitting"} =>
    y.status /\ y.ip = x.ip /\ y.phase \in {"live", "admitting"}

NoNewStatus == \A c \in Conn : KeepsStatus(ticket'[c], ticket[c])

\* Only enter_status() counts a status client.
LEMMA StatusStepKinds ==
  ASSUME TypeOK, [Next]_vars
  PROVE  NoNewStatus \/ \E c \in Conn : EnterStatus(c)
<1>1. ticket \in [Conn -> Ticket]
  BY DEF TypeOK
<1>2. CASE UNCHANGED ticket
  BY <1>2, SMTT(20) DEF NoNewStatus, KeepsStatus
<1>3. ASSUME NEW c \in Conn, AcceptRefused(c) PROVE UNCHANGED ticket
  BY <1>3, Zenon DEF AcceptRefused, AcceptCapped, AcceptSourceLimited, AcceptGlobalLimited
<1>4. ASSUME NEW c \in Conn, EventRefused(c) PROVE NoNewStatus
  <2>1. PICK e \in Event, t \in Time : Asks(c, e) /\ Refused(c, e, t)
    BY <1>4, RefusedEvent, Zenon
  <2> QED
    BY <1>1, <2>1, SMTT(20) DEF Refused, Asks, Serving, NoNewStatus, KeepsStatus, Ticket
<1>5. ASSUME NEW c \in Conn, Handshake(c) \/ ServerReject(c) \/ StatusComplete(c)
      PROVE  NoNewStatus
  BY <1>1, <1>5 DEF Handshake, ServerReject, StatusComplete, Serving, NoNewStatus,
                    KeepsStatus, Ticket
<1>6. ASSUME NEW c \in Conn, MarkAdmittedIp(c) \/ MarkAdmittedPrefix(c) PROVE NoNewStatus
  BY <1>1, <1>6 DEF MarkAdmittedIp, MarkAdmittedPrefix, Serving, NoNewStatus, KeepsStatus,
                    Ticket
<1>7. ASSUME NEW c \in Conn, Drop(c) PROVE NoNewStatus
  <2>1. PICK t \in Time : ticket' = [ticket EXCEPT ![c].phase = "dropping", ![c].at = t]
    BY <1>7, Zenon DEF Drop, DropIp, Reading
  <2> QED
    BY <1>1, <2>1 DEF NoNewStatus, KeepsStatus, Ticket
<1>8. ASSUME NEW c \in Conn, DropPrefix(c) PROVE NoNewStatus
  BY <1>1, <1>8 DEF DropPrefix, NoTicket, NewTicket, NoNewStatus, KeepsStatus
<1>9. CASE Sweep \/ SweepPrefix \/ Tick \/ UNCHANGED vars
  BY <1>2, <1>9, Zenon DEF Sweep, SweepIp, SweepPrefix, Tick, vars
<1>10. ASSUME NEW c \in Conn, NEW ip \in Ips, NEW p \in Policies, NEW t \in Reading(0),
              AcceptAdmit(c, ip, p, t)
       PROVE  NoNewStatus
  BY <1>1, <1>10, Zenon DEF AcceptAdmit, NewTicket, NoNewStatus, KeepsStatus
<1>11. ASSUME NEW c \in Conn, NEW e \in Event, NEW p \in Policies,
              NEW t \in Reading(ticket[c].at), EventGranted(c, e, p, t)
       PROVE  NoNewStatus
  <2>1. ticket' = [ticket EXCEPT ![c].at = t, ![c].asked = @ \cup {e}]
        /\ ticket[c].phase = "live"
    BY <1>11 DEF EventGranted, Asks, Serving
  <2> QED
    BY <1>1, <2>1 DEF NoNewStatus, KeepsStatus, Ticket
<1> QED
  BY <1>2, <1>3, <1>4, <1>5, <1>6, <1>7, <1>8, <1>9, <1>10, <1>11, ZenonT(20) DEF Next, Ungranted

\* Every step preserves the cap on status clients of an address.
LEMMA StatusCappedStep ==
  ASSUME Inductive, StatusCapped, [Next]_vars
  PROVE  StatusCapped'
<1>1. StatusIp \in Nat /\ \A k : StatusOn(k) \in SUBSET Conn
  BY LimitAssumption DEF StatusOn
<1>2. CASE NoNewStatus
  <2>1. ASSUME NEW ip \in Ips PROVE StatusOn(ip)' \subseteq StatusOn(ip)
    BY <1>2 DEF NoNewStatus, KeepsStatus, StatusOn
  <2>2. ASSUME NEW ip \in Ips PROVE Within(StatusIp, StatusOn(ip)')
    BY <1>1, <2>1, WithinSmaller DEF StatusCapped
  <2> QED
    BY <2>2 DEF StatusCapped, Within
<1>3. ASSUME NEW c \in Conn, EnterStatus(c) PROVE StatusCapped'
  <2>1. \A d \in Conn \ {c} : ticket'[d] = ticket[d]
    BY <1>3 DEF EnterStatus, Inductive, TypeOK
  <2>2. /\ ticket'[c].ip = ticket[c].ip /\ ticket[c].phase = "live"
        /\ ticket'[c].status => /\ ~Reached(StatusIp, entry[ticket[c].ip].status)
    BY <1>3, ZenonT(60) DEF EnterStatus, Serving, Inductive, TypeOK, Ticket
  <2>3. ASSUME NEW ip \in Ips PROVE Within(StatusIp, StatusOn(ip)')
    <3>1. StatusOn(ip)' \in SUBSET Conn
      BY DEF StatusOn
    <3>2. CASE ip = ticket[c].ip /\ ticket'[c].status
      <4>1. ~Reached(StatusIp, Cardinality(StatusOn(ip)))
        BY <2>2, <3>2, ZenonT(20) DEF Inductive, Accounting, Key
      <4>2. StatusOn(ip)' \subseteq StatusOn(ip) \cup {c}
        BY <2>1 DEF StatusOn
      <4> QED
        BY <1>1, <3>1, <4>1, <4>2, WithinOneMore, ZenonT(20) DEF StatusCapped
    <3>3. CASE ~(ip = ticket[c].ip /\ ticket'[c].status)
      <4>1. StatusOn(ip)' \subseteq StatusOn(ip)
        BY <2>1, <2>2, <3>3 DEF StatusOn
      <4> QED
        BY <1>1, <4>1, WithinSmaller, ZenonT(20) DEF StatusCapped
    <3> QED
      BY <3>2, <3>3
  <2> QED
    BY <2>3 DEF StatusCapped, Within
<1> QED
  BY <1>2, <1>3, StatusStepKinds DEF Inductive

\* The configured concurrency caps bound the tasks themselves, for any
\* number of tasks racing through accept() and enter_status().
THEOREM CapsAlwaysHold == Spec => []CapsHold
<1> DEFINE I == Inductive /\ ConnectionsCapped /\ StatusCapped
<1>1. Init => I
  <2> SUFFICES ASSUME Init PROVE I
    OBVIOUS
  <2>1. Inductive
    BY InitInductive, ZenonT(20)
  <2>2. \A c \in Conn : ticket[c].phase = "idle"
    BY SMTT(20) DEF Init, NoTicket, NewTicket
  <2>3. \A k : ActiveOn(k) = {} /\ PendingOn(k) = {} /\ StatusOn(k) = {}
    BY <2>2, Zenon DEF ActiveOn, PendingOn, StatusOn
  <2>4. \A cap \in Nat : Within(cap, {})
    BY FS_EmptySet DEF Within
  <2> QED
    BY <2>1, <2>3, <2>4, LimitAssumption
       DEF ConnectionsCapped, StatusCapped, CapActive, CapPending
<1>2. I /\ [Next]_vars => I'
  BY NextInductive, ConnectionsCappedStep, StatusCappedStep, ZenonT(20)
<1>3. I => CapsHold
  BY KeyAssumption DEF ConnectionsCapped, StatusCapped, CapActive, CapPending, CapsHold, Key
<1> QED
  BY <1>1, <1>2, <1>3, PTL DEF Spec

-----------------------------------------------------------------------------
(* The size of the tables *)

\* accept() inserts a key only into a shard with room.
LEMMA TablesBoundedStep ==
  ASSUME TypeOK, TablesBounded, [Next]_vars
  PROVE  TablesBounded'
<1>1. IsFiniteSet(known) /\ \A k \in Key : Capacity(k) \in Nat /\ IsFiniteSet(ShardKeys(k))
  <2>1. IsFiniteSet(known)
    BY KeyAssumption, FS_Union, FS_Subset, Zenon DEF TypeOK, Key
  <2>2. ASSUME NEW k \in Key PROVE IsFiniteSet(ShardKeys(k))
    BY <2>1, FS_Subset DEF ShardKeys
  <2> QED
    BY <2>1, <2>2, LimitAssumption DEF Capacity
<1>2. CASE known' \subseteq known
  <2>1. ASSUME NEW k \in Key PROVE Cardinality(ShardKeys(k)') <= Capacity(k)
    <3>1. ShardKeys(k)' \subseteq ShardKeys(k)
      BY <1>2 DEF ShardKeys
    <3>2. /\ Cardinality(ShardKeys(k)') <= Cardinality(ShardKeys(k))
          /\ IsFiniteSet(ShardKeys(k)')
      BY <1>1, <3>1, FS_Subset, ZenonT(20)
    <3>3. Cardinality(ShardKeys(k)') \in Nat /\ Cardinality(ShardKeys(k)) \in Nat
      BY <1>1, <3>2, FS_CardinalityType, SMTT(20)
    <3> QED
      BY <1>1, <3>2, <3>3 DEF TablesBounded
  <2> QED
    BY <2>1 DEF TablesBounded, Capacity
<1>3. ASSUME NEW c \in Conn, NEW ip \in Ips, NEW p \in Policies, NEW t \in Reading(0),
             AcceptAdmit(c, ip, p, t)
      PROVE  TablesBounded'
  <2> DEFINE net == Subnet[ip]
  <2>1. /\ known' = known \cup {ip, net} /\ ~ShardFull(ip) /\ ~ShardFull(net)
        /\ ip \in Key /\ net \in Key /\ ip \notin Prefixes /\ net \notin Ips
    BY <1>3, KeyAssumption, ZenonT(20) DEF AcceptAdmit, Acceptable, TableFull, Key
  <2>2. ASSUME NEW k \in Key PROVE Cardinality(ShardKeys(k)') <= Capacity(k)
    <3> DEFINE new == IF k \in Ips THEN ip ELSE net
    <3>1. /\ ShardKeys(k)' = ShardKeys(k)
             \/ /\ new \notin known /\ ShardKeys(k) = ShardKeys(new)
                /\ Capacity(k) = Capacity(new) /\ new \in Key
                /\ ShardKeys(k)' = ShardKeys(k) \cup {new}
      BY <2>1, KeyAssumption DEF ShardKeys, TableOf, Capacity, Key
    <3>2. CASE ShardKeys(k)' = ShardKeys(k)
      BY <3>2 DEF TablesBounded
    <3>3. CASE /\ new \notin known /\ ShardKeys(k) = ShardKeys(new)
               /\ Capacity(k) = Capacity(new)
               /\ ShardKeys(k)' = ShardKeys(k) \cup {new}
      <4>1. ~(Cardinality(ShardKeys(k)) >= Capacity(k))
        BY <2>1, <3>3, ZenonT(20) DEF ShardFull
      <4>2. new \notin ShardKeys(k)
        BY <3>3 DEF ShardKeys
      <4>3. Cardinality(ShardKeys(k)') = Cardinality(ShardKeys(k)) + 1
        BY <1>1, <3>3, <4>2, FS_AddElement, Zenon
      <4>4. Cardinality(ShardKeys(k)) \in Nat
        BY <1>1, FS_CardinalityType
      <4> QED
        BY <1>1, <4>1, <4>3, <4>4, SMTT(20)
    <3> QED
      BY <3>1, <3>2, <3>3, ZenonT(20)
  <2> QED
    BY <2>2, ZenonT(20) DEF TablesBounded, Capacity
<1> QED
  BY <1>2, <1>3, StepKinds, ZenonT(20)

\* Neither identity table ever outgrows its fixed share of memory.
THEOREM TablesStayBounded == Spec => []TablesBounded
<1>1. Init => TypeOK /\ TablesBounded
  <2> SUFFICES ASSUME Init PROVE TablesBounded
    BY InitInductive, ZenonT(20) DEF Inductive
  <2>1. \A k \in Key : ShardKeys(k) = {} /\ Capacity(k) \in Nat
    BY LimitAssumption DEF Init, ShardKeys, Capacity
  <2> QED
    BY <2>1, FS_EmptySet DEF TablesBounded
<1>2. TypeOK /\ TablesBounded /\ [Next]_vars => TablesBounded'
  BY TablesBoundedStep
<1> QED
  BY <1>1, <1>2, TypeCorrect, PTL DEF Spec

-----------------------------------------------------------------------------
(* What a bucket loses without a grant *)

\* A bucket whose tokens went down only to the burst of some policy's mode.
Free(old, new, r) ==
  new.tokens >= old.tokens \/ \E p \in Policies : new.tokens = BucketCap(r, p.mode)

\* All the buckets of entry x of k.
FreeEntry(k, x) ==
  \A e \in Event : Free(entry[k].buckets[e], x.buckets[e], RateOf(k)[e])

\* All the entries that stay, and all the global buckets.
EntriesFree == \A k \in known \cap known' : FreeEntry(k, entry'[k])

GlobalsFree == \A e \in Event : Free(global[e], global'[e], GlobalRate[e])

\* drop() touches the entry, whatever it does to the counters and the score.
LEMMA ReleasedKeeps ==
  \A k, tk, t : \A x \in Entry :
    Released(k, x, tk, t).buckets = x.buckets /\ Released(k, x, tk, t).touched = t
  BY DEF Released, Entry

\* The buckets and the touched time of an entry that a ticket is released from.
LEMMA ReleasedEntry ==
  ASSUME TypeOK
  PROVE  \A j \in known, c \in Conn, t \in Time :
           /\ Released(j, entry[j], ticket[c], t).buckets = entry[j].buckets
           /\ Released(j, entry[j], ticket[c], t).touched = t
BY ReleasedKeeps DEF TypeOK

\* enter_status() writes neither buckets nor penalties.
LEMMA StatusCounted ==
  ASSUME TypeOK, NEW j,
         entry' = entry \/ entry' = [entry EXCEPT ![j].status = @ + 1]
  PROVE  \A k \in Key : /\ entry'[k].buckets = entry[k].buckets
                        /\ entry'[k].penaltyUntil = entry[k].penaltyUntil
BY SMTT(20) DEF TypeOK, Entry

\* Such a bucket lost nothing that RefusalsAreFree would not allow.
LEMMA FreeIsAllowed ==
  ASSUME NEW old, NEW new, old.tokens \in Nat, new.tokens \in Nat, NEW r, NEW e,
         Free(old, new, r[e])
  PROVE  SpentOrClamped(old, new, r, e)
BY DEF Free, SpentOrClamped

\* available() adds tokens, or cuts the bucket to what the mode lets it hold.
LEMMA RefilledFree ==
  ASSUME NEW b \in Bucket, NEW r \in Rate, NEW t \in Time, NEW p \in Policies
  PROVE  Free(b, Refilled(b, r, t, p.mode), r)
<1> DEFINE m == p.mode
           d == Greater(0, t - b.last)
           a == d * r.rate * Factor[m]
<1>1. /\ b.tokens \in Nat /\ b.last \in Nat /\ t \in Nat /\ r.rate \in Nat
      /\ m \in Mode /\ Factor[m] \in Nat
  BY RateAssumption DEF Bucket, Rate, Time
<1>2. d \in Nat
  BY <1>1, SMTT(20) DEF Greater
<1>3. a \in Nat /\ BucketCap(r, m) \in Nat
  BY <1>1, <1>2, BucketCapType, Products, ZenonT(20)
<1>4. \/ Refilled(b, r, t, m) = b
      \/ Refilled(b, r, t, m).tokens = Lesser(BucketCap(r, m), b.tokens + a)
  BY ZenonT(20) DEF Refilled
<1> HIDE DEF a, d
<1>5. \/ Refilled(b, r, t, m).tokens >= b.tokens
      \/ Refilled(b, r, t, m).tokens = BucketCap(r, m)
  BY <1>1, <1>3, <1>4, SMTT(40) DEF Lesser
<1> QED
  BY <1>5 DEF Free

\* A bucket that is left alone loses nothing.
LEMMA SameIsFree ==
  ASSUME NEW b \in Bucket, NEW r
  PROVE  Free(b, b, r)
  BY SMTT(20) DEF Free, Bucket

\* A refill leaves the other buckets of the entry alone.
LEMMA RefilledEntryFree ==
  ASSUME TypeOK, NEW k \in Key, NEW x \in Entry, x.buckets = entry[k].buckets,
         NEW e \in Event, NEW t \in Time, NEW p \in Policies
  PROVE  FreeEntry(k, x) /\ FreeEntry(k, RefilledEntry(k, x, e, t, p.mode))
<1> DEFINE y == RefilledEntry(k, x, e, t, p.mode)
<1>1. \A f \in Event : entry[k].buckets[f] \in Bucket
  BY DEF TypeOK, Entry
<1>2. \A f \in Event : y.buckets[f] = IF f = e
                                      THEN Refilled(x.buckets[e], RateOf(k)[e], t, p.mode)
                                      ELSE x.buckets[f]
  BY ZenonT(20) DEF RefilledEntry, Entry
<1> HIDE DEF y
<1>3. FreeEntry(k, x)
  BY <1>1, SameIsFree, ZenonT(20) DEF FreeEntry
<1>4. FreeEntry(k, y)
  BY <1>1, <1>2, SameIsFree, RefilledFree, RateOfType, Zenon DEF FreeEntry
<1> QED
  BY ZenonT(20), <1>3, <1>4 DEF y

\* Neither does an entry.
LEMMA UnchangedFree ==
  ASSUME TypeOK, NEW k \in Key
  PROVE  FreeEntry(k, entry[k])
<1>1. \A f \in Event : entry[k].buckets[f] \in Bucket
  BY DEF TypeOK, Entry
<1> QED
  BY ZenonT(20), <1>1, SameIsFree DEF FreeEntry

\* accept() judges an entry without charging it.
LEMMA JudgedFree ==
  ASSUME Inductive, NEW k \in known, NEW t \in Time, NEW p \in Policies
  PROVE  FreeEntry(k, Provisional(k, t)) /\ FreeEntry(k, Presented(k, p, t))
<1>1. k \in Key /\ entry[k] \in Entry /\ "connect" \in Event
  BY DEF Inductive, TypeOK, Event
<1>2. Provisional(k, t) \in Entry
  BY <1>1, ProvisionalType
<1>3. Provisional(k, t).buckets = entry[k].buckets
  BY ZenonT(20), <1>1 DEF Provisional, Entry
<1> QED
  BY <1>1, <1>2, <1>3, RefilledEntryFree, ZenonT(20) DEF Presented, Inductive

\* event() asks an entry without charging it.
LEMMA AskedFree ==
  ASSUME TypeOK, NEW k \in Key, NEW e \in Event, NEW t \in Time, NEW p \in Policies
  PROVE  FreeEntry(k, Touched(k, t)) /\ FreeEntry(k, AskedOf(k, e, p, t))
<1>1. entry[k] \in Entry /\ Touched(k, t) \in Entry
  BY AskedOfType DEF TypeOK
<1>2. Touched(k, t).buckets = entry[k].buckets
  BY ZenonT(20), <1>1 DEF Touched, Entry
<1> QED
  BY <1>1, <1>2, RefilledEntryFree, ZenonT(20) DEF AskedOf

\* The global buckets of a refused call.
LEMMA GlobalFree ==
  ASSUME TypeOK, NEW e \in Event, NEW p \in Policies, NEW t \in Time,
         \/ global' = global
         \/ global' = [global EXCEPT ![e] = GlobalRefilled(e, t, p.mode)]
  PROVE  GlobalsFree
<1>1. \A f \in Event : global[f] \in Bucket /\ GlobalRate[f] \in Rate
  BY ZenonT(20), RateAssumption DEF TypeOK
<1>2. \A f \in Event : \/ global'[f] = global[f]
                       \/ global'[f] = Refilled(global[f], GlobalRate[f], t, p.mode)
  BY DEF GlobalRefilled, TypeOK
<1> QED
  BY <1>1, <1>2, SameIsFree, RefilledFree, ZenonT(20) DEF GlobalsFree

\* A refused accept() refills what it found and stores it.
LEMMA AcceptRefusedFree ==
  ASSUME Inductive, NEW c \in Conn, AcceptRefused(c)
  PROVE  EntriesFree /\ GlobalsFree
<1>1. /\ TypeOK /\ Ips \subseteq Key /\ known \subseteq Key /\ "connect" \in Event
      /\ \A ip \in Ips : Subnet[ip] \in Key /\ Subnet[ip] # ip
  BY ZenonT(20), KeyAssumption DEF Inductive, TypeOK, Key, Event
<1>2. PICK ip \in Ips, t \in Reading(0) :
        \/ AcceptCapped(c, ip, t)
        \/ \E p \in Policies : \/ AcceptSourceLimited(c, ip, p, t)
                               \/ AcceptGlobalLimited(c, ip, p, t)
  BY DEF AcceptRefused
<1>3. t \in Time
  BY DEF Reading
<1>4. CASE AcceptCapped(c, ip, t)
  <2>1. /\ \/ entry' = entry
           \/ entry' = Stored(ip, Provisional(ip, t), Provisional(Subnet[ip], t))
        /\ global' = global /\ known' = known
    BY <1>4, SMTT(20) DEF AcceptCapped
  <2>2. \A k \in known : entry'[k] = entry[k] \/ entry'[k] = Provisional(k, t)
    BY <1>1, <2>1, Zenon DEF Stored, TypeOK
  <2>3. \A k \in known : FreeEntry(k, entry[k]) /\ FreeEntry(k, Provisional(k, t))
    <3>1. ASSUME NEW k \in known PROVE FreeEntry(k, Provisional(k, t))
      <4>1. Provisional(k, t) \in Entry
        BY ZenonT(20), <1>1, <1>3, ProvisionalType
      <4>2. Provisional(k, t).buckets = entry[k].buckets
        BY <1>1, ZenonT(20) DEF Provisional, TypeOK, Entry
      <4>3. \A f \in Event : entry[k].buckets[f] \in Bucket
        BY <1>1, ZenonT(20) DEF TypeOK, Entry
      <4> QED
        BY <4>2, <4>3, SameIsFree, ZenonT(20) DEF FreeEntry
    <3> QED
      BY <1>1, <3>1, UnchangedFree, ZenonT(20)
  <2>4. EntriesFree
    BY <2>1, <2>2, <2>3, ZenonT(20) DEF EntriesFree
  <2>5. \A f \in Event : global[f] \in Bucket
    BY <1>1, ZenonT(20) DEF TypeOK
  <2>6. GlobalsFree
    BY <2>1, <2>5, SameIsFree, Zenon DEF GlobalsFree
  <2> QED
    BY <2>4, <2>6, ZenonT(20)
<1>5. ASSUME NEW p \in Policies,
             AcceptSourceLimited(c, ip, p, t) \/ AcceptGlobalLimited(c, ip, p, t)
      PROVE  EntriesFree /\ GlobalsFree
  <2>1. /\ entry' = Stored(ip, Presented(ip, p, t), Presented(Subnet[ip], p, t))
        /\ known' = known
        /\ \/ global' = global
           \/ global' = [global EXCEPT !["connect"] = GlobalRefilled("connect", t, p.mode)]
    BY <1>5, Zenon DEF AcceptSourceLimited, AcceptGlobalLimited
  <2>2. \A k \in known : entry'[k] = entry[k] \/ entry'[k] = Presented(k, p, t)
    BY <1>1, <2>1, Zenon DEF Stored, TypeOK
  <2>3. \A k \in known : FreeEntry(k, entry[k]) /\ FreeEntry(k, Presented(k, p, t))
    BY <1>1, <1>3, UnchangedFree, JudgedFree, ZenonT(20)
  <2>4. EntriesFree
    BY <2>1, <2>2, <2>3, ZenonT(20) DEF EntriesFree
  <2> QED
    BY ZenonT(20), <1>1, <1>3, <2>1, <2>4, GlobalFree
<1> QED
  BY <1>2, <1>4, <1>5, ZenonT(20)

\* A refused event() refills the scopes it asked and charges none.
LEMMA EventRefusedFree ==
  ASSUME TypeOK, NEW c \in Conn, EventRefused(c)
  PROVE  EntriesFree /\ GlobalsFree
<1> DEFINE ip == ticket[c].ip
           net == Net(c)
<1>1. ip \in Key /\ net \in Key /\ ip # net /\ known \subseteq Key
  BY ZenonT(20), KeysApart DEF TypeOK
<1>2. PICK e \in Event, p \in Policies, t \in Reading(ticket[c].at) :
        \/ EventIpLimited(c, e, p, t)
        \/ EventPrefixLimited(c, e, p, t)
        \/ EventGlobalLimited(c, e, p, t)
  BY ZenonT(20) DEF EventRefused
<1>3. PICK n \in {Touched(net, t), AskedOf(net, e, p, t)} :
        /\ entry' = [entry EXCEPT ![ip] = AskedOf(ip, e, p, t), ![net] = n]
        /\ known' = known
        /\ \/ global' = global
           \/ global' = [global EXCEPT ![e] = GlobalRefilled(e, t, p.mode)]
  <2>1. CASE EventIpLimited(c, e, p, t)
    BY <2>1, Zenon DEF EventIpLimited
  <2>2. CASE EventPrefixLimited(c, e, p, t) \/ EventGlobalLimited(c, e, p, t)
    BY <2>2, Zenon DEF EventPrefixLimited, EventGlobalLimited
  <2> QED
    BY ZenonT(20), <1>2, <2>1, <2>2
<1>4. t \in Time
  BY Zenon DEF Reading
<1>5. FreeEntry(ip, AskedOf(ip, e, p, t)) /\ FreeEntry(net, n)
  BY <1>1, <1>3, <1>4, AskedFree, SMTT(20)
<1> HIDE DEF ip, net
<1>6. \A k \in Key : entry'[k] = IF k = ip THEN AskedOf(ip, e, p, t)
                                 ELSE IF k = net THEN n ELSE entry[k]
  BY <1>1, <1>3, ZenonT(20) DEF TypeOK
<1>7. EntriesFree
  BY <1>1, <1>5, <1>6, UnchangedFree, Zenon DEF EntriesFree
<1> QED
  BY <1>3, <1>4, <1>7, GlobalFree, ZenonT(20)

\* The other steps of a task, and those of the sweeper and the clock, write
\* no bucket of an entry that stays.
LEMMA OtherStepFree ==
  ASSUME TypeOK,
         \/ \E c \in Conn :
              \/ Handshake(c) \/ EnterStatus(c) \/ ServerReject(c) \/ StatusComplete(c)
              \/ MarkAdmittedIp(c) \/ MarkAdmittedPrefix(c) \/ Drop(c) \/ DropPrefix(c)
         \/ Sweep \/ SweepPrefix \/ Tick \/ UNCHANGED vars
  PROVE  EntriesFree /\ GlobalsFree
<1>1. /\ \A k \in Key : entry[k] \in Entry /\ \A e \in Event : entry[k].buckets[e] \in Bucket
      /\ \A e \in Event : global[e] \in Bucket
      /\ known \subseteq Key
  BY SMTT(20) DEF TypeOK, Entry
<1>2. ASSUME \A k \in known \cap known' : entry'[k].buckets = entry[k].buckets,
             global' = global
      PROVE  EntriesFree /\ GlobalsFree
  BY <1>1, <1>2, SameIsFree, Zenon DEF EntriesFree, FreeEntry, GlobalsFree
<1>3. CASE Sweep \/ SweepPrefix
  <2>1. PICK S : Evict(S) /\ global' = global
    BY <1>3, Zenon DEF Sweep, SweepIp, SweepPrefix
  <2>2. \A k \in known \cap known' : entry'[k] = entry[k]
    BY <1>1, <2>1, Zenon DEF Evict
  <2> QED
    BY <1>2, <2>1, <2>2, Zenon
<1>4. CASE Tick \/ UNCHANGED vars
  BY <1>2, <1>4, Zenon DEF Tick, vars
<1>5. ASSUME NEW c \in Conn,
             Handshake(c) \/ ServerReject(c) \/ StatusComplete(c)
      PROVE  EntriesFree /\ GlobalsFree
  BY ZenonT(20), <1>2, <1>5 DEF Handshake, ServerReject, StatusComplete
<1>6. ASSUME NEW c \in Conn, EnterStatus(c) PROVE EntriesFree /\ GlobalsFree
  <2>1. /\ global' = global
        /\ \/ entry' = entry
           \/ entry' = [entry EXCEPT ![ticket[c].ip].status = @ + 1]
    BY <1>6 DEF EnterStatus
  <2>2. \A k \in known : entry'[k].buckets = entry[k].buckets
    BY <1>1, <2>1, StatusCounted, Zenon
  <2> QED
    BY ZenonT(20), <1>2, <2>1, <2>2
<1>7. ASSUME NEW c \in Conn, MarkAdmittedIp(c) \/ MarkAdmittedPrefix(c)
      PROVE  EntriesFree /\ GlobalsFree
  <2>1. PICK j : entry' = Unpended(j) /\ global' = global
    BY <1>7 DEF MarkAdmittedIp, MarkAdmittedPrefix
  <2>2. \A k \in known : entry'[k].buckets = entry[k].buckets
    BY ZenonT(20), <1>1, <2>1 DEF Unpended, TypeOK, Entry
  <2> QED
    BY ZenonT(20), <1>2, <2>1, <2>2
<1>8. ASSUME NEW c \in Conn, Drop(c) \/ DropPrefix(c)
      PROVE  EntriesFree /\ GlobalsFree
  <2>1. ticket[c].at \in Time
    BY Zenon DEF TypeOK, Ticket
  <2>2. PICK t \in Time :
          /\ global' = global
          /\ \/ entry' = entry
             \/ \E j \in known :
                  entry' = [entry EXCEPT ![j] = Released(j, entry[j], ticket[c], t)]
    BY <1>8, <2>1, Zenon DEF Drop, DropIp, DropPrefix, Reading
  <2>3. PICK j : /\ global' = global
                 /\ \/ entry' = entry
                    \/ /\ j \in known
                       /\ entry' = [entry EXCEPT ![j] = Released(j, entry[j], ticket[c], t)]
    BY <2>2, Zenon
  <2> DEFINE y == Released(j, entry[j], ticket[c], t)
  <2>4. ASSUME j \in known PROVE y.buckets = entry[j].buckets
    BY <2>4, ReleasedEntry, Zenon
  <2> HIDE DEF y
  <2>5. \A k \in known : entry'[k].buckets = entry[k].buckets
    <3>1. entry' = entry \/ (j \in known /\ entry' = [entry EXCEPT ![j] = y])
      BY <2>3 DEF y
    <3> QED
      BY ZenonT(20), <1>1, <2>4, <3>1 DEF TypeOK
  <2> QED
    BY ZenonT(20), <1>2, <2>3, <2>5
<1> QED
  BY <1>3, <1>4, <1>5, <1>6, <1>7, <1>8, Zenon

\* A granted call writes no bucket of another event.
OthersKept(e) ==
  \A f \in Event \ {e} :
    /\ global'[f] = global[f]
    /\ \A k \in known \cap known' : entry'[k].buckets[f] = entry[k].buckets[f]

\* accept() charges the connect buckets only.
LEMMA AdmitKeepsOthers ==
  ASSUME Inductive, NEW c \in Conn, NEW ip \in Ips, NEW p \in Policies,
         NEW t \in Reading(0), AcceptAdmit(c, ip, p, t)
  PROVE  OthersKept("connect") /\ Granted(c, "connect")
<1>1. /\ TypeOK /\ ip \in Key /\ known \subseteq Key /\ t \in Time
      /\ Subnet[ip] \in Key /\ Subnet[ip] # ip
  BY KeyAssumption DEF Inductive, TypeOK, Key, Reading
<1>2. /\ entry' = [entry EXCEPT ![ip] = Admitted(ip, p, t),
                                ![Subnet[ip]] = Admitted(Subnet[ip], p, t)]
      /\ global' = GlobalCharged("connect", GlobalRefilled("connect", t, p.mode))
      /\ ticket' = [ticket EXCEPT ![c] = NewTicket("live", ip, t)]
      /\ ticket[c].phase = "idle"
  BY Zenon DEF AcceptAdmit, Acceptable
<1>3. \A k \in Key : entry'[k] = entry[k] \/ entry'[k] = Admitted(k, p, t)
  BY <1>1, <1>2, Zenon DEF TypeOK
<1>4. ASSUME NEW k \in known, NEW f \in Event \ {"connect"}
      PROVE  Admitted(k, p, t).buckets[f] = entry[k].buckets[f]
  <2>1. Provisional(k, t) \in Entry /\ Presented(k, p, t) \in Entry /\ entry[k] \in Entry
    BY <1>1, ProvisionalType, PresentedType, Zenon DEF TypeOK
  <2>2. Provisional(k, t).buckets = entry[k].buckets
    BY <2>1 DEF Provisional, Entry
  <2>3. Presented(k, p, t).buckets[f] = Provisional(k, t).buckets[f]
    BY <2>1 DEF Presented, RefilledEntry, Entry
  <2>4. Admitted(k, p, t).buckets[f] = Presented(k, p, t).buckets[f]
    BY <2>1, SMTT(20) DEF Admitted, Charged, Entry
  <2> QED
    BY <2>2, <2>3, <2>4, Zenon
<1>5. \A f \in Event \ {"connect"} : global'[f] = global[f]
  BY <1>1, <1>2, Zenon DEF GlobalCharged, TypeOK
<1>6. OthersKept("connect")
  BY <1>1, <1>3, <1>4, <1>5, Zenon DEF OthersKept
<1>7. ticket'[c].phase = "live"
  BY <1>1, <1>2, Zenon DEF TypeOK, NewTicket
<1> QED
  BY <1>2, <1>6, <1>7, Zenon DEF Granted

\* event() charges the buckets of its event only.
LEMMA GrantKeepsOthers ==
  ASSUME TypeOK, NEW c \in Conn, NEW e \in Event, NEW p \in Policies,
         NEW t \in Reading(ticket[c].at), EventGranted(c, e, p, t)
  PROVE  OthersKept(e) /\ Granted(c, e)
<1> DEFINE ip == ticket[c].ip
           net == Net(c)
           Paid(k) == Charged(k, AskedOf(k, e, p, t), e, EventOk(k, e, p, t), p)
<1>1. ip \in Key /\ net \in Key /\ ip # net /\ known \subseteq Key /\ ticket[c] \in Ticket
  BY KeysApart DEF TypeOK
<1>2. /\ entry' = [entry EXCEPT ![ip] = Paid(ip), ![net] = Paid(net)]
      /\ global' = GlobalCharged(e, GlobalRefilled(e, t, p.mode))
      /\ ticket' = [ticket EXCEPT ![c].at = t, ![c].asked = @ \cup {e}]
      /\ Asks(c, e)
  BY Zenon DEF EventGranted
<1>3. t \in Time
  BY Zenon DEF Reading
<1>4. ASSUME NEW k \in Key, NEW f \in Event \ {e}
      PROVE  Paid(k).buckets[f] = entry[k].buckets[f]
  <2>1. entry[k] \in Entry /\ Touched(k, t) \in Entry /\ AskedOf(k, e, p, t) \in Entry
    BY <1>3, AskedOfType DEF TypeOK
  <2>2. Touched(k, t).buckets = entry[k].buckets
    BY <2>1 DEF Touched, Entry
  <2>3. AskedOf(k, e, p, t).buckets[f] = Touched(k, t).buckets[f]
    BY <2>1 DEF AskedOf, RefilledEntry, Entry
  <2>4. Paid(k).buckets[f] = AskedOf(k, e, p, t).buckets[f]
    BY <2>1 DEF Charged, Entry
  <2> QED
    BY <2>2, <2>3, <2>4, Zenon
<1>5. \A f \in Event \ {e} : global'[f] = global[f]
  BY <1>2, SMTT(20) DEF GlobalCharged, TypeOK
<1>6. Granted(c, e)
  <2>1. /\ ticket'[c].asked = ticket[c].asked \cup {e}
        /\ ticket'[c].serverRejected = ticket[c].serverRejected
    BY ZenonT(20), <1>1, <1>2 DEF TypeOK, Ticket
  <2>2. e \notin ticket[c].asked /\ ~ticket[c].serverRejected
    BY <1>2 DEF Asks, Serving
  <2> QED
    BY <2>1, <2>2, Zenon DEF Granted
<1> HIDE DEF ip, net, Paid
<1>7. \A k \in Key : entry'[k] = entry[k] \/ entry'[k] = Paid(k)
  BY <1>1, <1>2, ZenonT(20) DEF TypeOK
<1>8. OthersKept(e)
  BY <1>1, <1>4, <1>5, <1>7, ZenonT(60) DEF OthersKept
<1> QED
  BY <1>6, <1>8, ZenonT(20)

\* For every configuration and interleaving: a bucket loses tokens in a step
\* only to a grant of its own event, or to the burst of a stricter mode.  The
\* scopes a refused accept() or event() asked before the one that refused get
\* nothing taken.
THEOREM RefusalsTakeNothing == Spec => RefusalsAreFree
<1> DEFINE Step == \A e \in Event :
                     /\ SpentOrClamped(global[e], global'[e], GlobalRate, e)
                     /\ \A k \in known \cap known' :
                          SpentOrClamped(entry[k].buckets[e], entry'[k].buckets[e], RateOf(k), e)
<1>1. ASSUME Inductive, Inductive', [Next]_vars PROVE Step
  <2>1. /\ TypeOK /\ TypeOK'
        /\ \A e \in Event : global[e].tokens \in Nat /\ global'[e].tokens \in Nat
        /\ \A k \in Key, e \in Event : /\ entry[k].buckets[e].tokens \in Nat
                                       /\ entry'[k].buckets[e].tokens \in Nat
        /\ known \subseteq Key
    BY <1>1, SMTT(20) DEF Inductive, TypeOK, Entry, Bucket
  <2>2. ASSUME EntriesFree, GlobalsFree PROVE Step
    <3>1. ASSUME NEW e \in Event
          PROVE  SpentOrClamped(global[e], global'[e], GlobalRate, e)
      BY <2>1, <2>2, FreeIsAllowed, Zenon DEF GlobalsFree
    <3>2. ASSUME NEW e \in Event, NEW k \in known \cap known'
          PROVE  SpentOrClamped(entry[k].buckets[e], entry'[k].buckets[e], RateOf(k), e)
      <4>1. Free(entry[k].buckets[e], entry'[k].buckets[e], RateOf(k)[e])
        BY <2>2, Zenon DEF EntriesFree, FreeEntry
      <4> QED
        BY <2>1, <4>1, FreeIsAllowed, Zenon
    <3> QED
      BY <3>1, <3>2, Zenon
  <2>3. ASSUME NEW c \in Conn, NEW f \in Event, OthersKept(f), Granted(c, f) PROVE Step
    <3>1. ASSUME NEW e \in Event, e # f
          PROVE  /\ SpentOrClamped(global[e], global'[e], GlobalRate, e)
                 /\ \A k \in known \cap known' :
                      SpentOrClamped(entry[k].buckets[e], entry'[k].buckets[e], RateOf(k), e)
      <4>1. ASSUME NEW old, NEW r, old.tokens \in Nat
            PROVE  SpentOrClamped(old, old, r, e)
        BY <4>1 DEF SpentOrClamped
      <4> QED
        BY <2>1, <2>3, <3>1, <4>1, Zenon DEF OthersKept
    <3>2. /\ SpentOrClamped(global[f], global'[f], GlobalRate, f)
          /\ \A k \in known \cap known' :
               SpentOrClamped(entry[k].buckets[f], entry'[k].buckets[f], RateOf(k), f)
      BY <2>3, Zenon DEF SpentOrClamped
    <3> QED
      BY <3>1, <3>2, Zenon
  <2> HIDE DEF Step
  <2>4. ASSUME NEW c \in Conn, AcceptRefused(c) PROVE Step
    BY ZenonT(20), <1>1, <2>2, <2>4, AcceptRefusedFree
  <2>5. ASSUME NEW c \in Conn, EventRefused(c) PROVE Step
    BY <2>1, <2>2, <2>5, EventRefusedFree, ZenonT(20)
  <2>6. CASE \/ \E c \in Conn :
                  \/ Handshake(c) \/ EnterStatus(c) \/ ServerReject(c) \/ StatusComplete(c)
                  \/ MarkAdmittedIp(c) \/ MarkAdmittedPrefix(c) \/ Drop(c) \/ DropPrefix(c)
             \/ Sweep \/ SweepPrefix \/ Tick \/ UNCHANGED vars
    BY <2>1, <2>2, <2>6, OtherStepFree, Zenon
  <2>7. ASSUME NEW c \in Conn, NEW ip \in Ips, NEW p \in Policies, NEW t \in Reading(0),
               AcceptAdmit(c, ip, p, t)
        PROVE  Step
    <3>1. "connect" \in Event
      BY SMTT(20) DEF Event
    <3> QED
      BY <1>1, <2>3, <2>7, <3>1, AdmitKeepsOthers, ZenonT(20)
  <2>8. ASSUME NEW c \in Conn, NEW e \in Event, NEW p \in Policies,
               NEW t \in Reading(ticket[c].at), EventGranted(c, e, p, t)
        PROVE  Step
    BY <2>1, <2>3, <2>8, GrantKeepsOthers, Zenon
  <2> QED
    BY <1>1, <2>4, <2>5, <2>6, <2>7, <2>8, Zenon DEF Next, Ungranted
<1>2. Init => Inductive
  BY InitInductive
<1>3. Inductive /\ [Next]_vars => Inductive'
  BY NextInductive
<1> QED
  BY <1>1, <1>2, <1>3, PTL DEF Spec, RefusalsAreFree
=============================================================================
