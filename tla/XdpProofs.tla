----------------------------- MODULE XdpProofs -----------------------------
(***************************************************************************)
(* What the packet filter guarantees for every frame, every number of      *)
(* CPUs, every lease and every SYN budget, while the configuration is      *)
(* being overwritten.                                                      *)
(***************************************************************************)
EXTENDS XdpHistory, TLAPS

-----------------------------------------------------------------------------
(* The parser *)

\* The numbers in a frame are natural numbers.
LEMMA FrameParts ==
  ASSUME NEW f \in Frame
  PROVE  /\ f.size \in Nat /\ f.tags \in Nat /\ f.ihl \in Nat /\ f.version \in Nat
         /\ f.len \in Nat /\ f.offset \in Nat /\ f.length \in Nat
         /\ f.flags \in SUBSET {"fin", "syn", "rst", "ack"}
<1>1. UShort \subseteq Nat
  BY DEF UShort
<1>2. /\ f.size \in Nat /\ f.tags \in Nat /\ f.ihl \in 0..15 /\ f.version \in 0..15
      /\ f.len \in UShort /\ f.offset \in 0..15 /\ f.length \in UShort
      /\ f.flags \in SUBSET {"fin", "syn", "rst", "ack"}
  BY Zenon DEF Frame
<1>3. \A k \in 0..15 : k \in Nat
  OBVIOUS
<1> QED
  BY <1>1, <1>2, <1>3, Zenon

\* A frame captured to another length has the same fields.
LEMMA Recaptured ==
  ASSUME NEW f \in Frame, NEW n \in Nat
  PROVE  LET g == [f EXCEPT !.size = n] IN
         /\ g.size = n /\ g.tags = f.tags /\ g.ether = f.ether /\ g.version = f.version
         /\ g.ihl = f.ihl /\ g.len = f.len /\ g.proto = f.proto /\ g.fragment = f.fragment
         /\ g.offset = f.offset /\ g.flags = f.flags /\ g.length = f.length
<1>1. DOMAIN f = {"size", "tags", "ether", "version", "ihl", "len", "proto", "fragment",
                  "offset", "flags", "length", "src", "dst", "port"}
  BY DEF Frame
<1> QED
  BY <1>1

\* Where the headers are does not depend on how much was captured.
LEMMA SameLayout ==
  ASSUME NEW f \in Frame, NEW n \in Nat
  PROVE  LET g == [f EXCEPT !.size = n] IN
         /\ Off(g) = Off(f) /\ Type(g) = Type(f) /\ L4(g) = L4(f) /\ IpEnd(g) = IpEnd(f)
         /\ Off(f) \in Nat /\ L4(f) \in Nat /\ IpEnd(f) \in Nat /\ Off(f) + 20 > Off(f)
         /\ Fragment(g) = Fragment(f) /\ Deferred(g) = Deferred(f)
         /\ TcpFlagsBad(g) = TcpFlagsBad(f)
<1> DEFINE g == [f EXCEPT !.size = n]
<1>1. /\ g.size = n /\ g.tags = f.tags /\ g.ether = f.ether /\ g.version = f.version
      /\ g.ihl = f.ihl /\ g.len = f.len /\ g.proto = f.proto /\ g.fragment = f.fragment
      /\ g.offset = f.offset /\ g.flags = f.flags /\ g.length = f.length
  BY Recaptured
<1> HIDE DEF g
<1>2. /\ f.tags \in Nat /\ f.ihl \in Nat /\ f.len \in Nat
  BY FrameParts
<1>3. Off(g) = Off(f) /\ Type(g) = Type(f) /\ Off(f) \in Nat /\ Off(f) + 20 > Off(f)
  BY <1>1, <1>2 DEF Off, Tags, Type, MaxTags
<1>4. L4(g) = L4(f) /\ IpEnd(g) = IpEnd(f) /\ L4(f) \in Nat /\ IpEnd(f) \in Nat
  BY <1>1, <1>2, <1>3 DEF L4, IpEnd
<1>5. /\ Fragment(g) = Fragment(f) /\ Deferred(g) = Deferred(f)
      /\ TcpFlagsBad(g) = TcpFlagsBad(f)
  BY <1>1, <1>3 DEF Fragment, Deferred, TcpFlagsBad
<1> QED
  BY <1>3, <1>4, <1>5 DEF g

\* Bytes behind the IP packet change neither parser's answer, however many
\* of them were captured.
THEOREM ParsersIgnorePadding ==
  ASSUME NEW f \in Frame, ParseIp(f) = "parsed", NEW n \in Nat, n >= IpEnd(f)
  PROVE  LET g == [f EXCEPT !.size = n] IN
         ParseIp(g) = "parsed" /\ ParseTransport(g) = ParseTransport(f)
<1> DEFINE g == [f EXCEPT !.size = n]
<1>1. /\ g.size = n /\ g.version = f.version /\ g.ihl = f.ihl /\ g.len = f.len
      /\ g.proto = f.proto /\ g.offset = f.offset /\ g.length = f.length
  BY Recaptured
<1>2. /\ Off(g) = Off(f) /\ Type(g) = Type(f) /\ L4(g) = L4(f) /\ IpEnd(g) = IpEnd(f)
      /\ Off(f) \in Nat /\ L4(f) \in Nat /\ IpEnd(f) \in Nat
      /\ Fragment(g) = Fragment(f) /\ Deferred(g) = Deferred(f)
      /\ TcpFlagsBad(g) = TcpFlagsBad(f)
  BY SameLayout
<1> HIDE DEF g
<1>3. f.size \in Nat /\ f.ihl \in Nat /\ f.len \in Nat /\ f.offset \in Nat /\ f.length \in Nat
  BY FrameParts
<1>4. ~(f.size < Off(f)) /\ Type(f) # "other" /\ FixedHeader(f) /\ LengthsFit(f)
  BY DEF ParseIp
<1>5. /\ Type(f) = "ipv4" => IpEnd(f) >= Off(f) + 20 /\ IpEnd(f) >= L4(f)
      /\ Type(f) = "ipv6" => IpEnd(f) >= Off(f) + 40 /\ IpEnd(f) >= L4(f)
  BY <1>2, <1>3, <1>4 DEF LengthsFit, IpEnd, L4
<1>6. Type(f) \in {"ipv4", "ipv6"}
  BY <1>4 DEF FixedHeader
<1>7. ParseIp(g) = "parsed"
  <2>1. ~(g.size < Off(g)) /\ Type(g) # "other"
    BY <1>1, <1>2, <1>4, <1>5, <1>6
  <2>2. FixedHeader(g)
    BY <1>1, <1>2, <1>4, <1>5 DEF FixedHeader
  <2>3. LengthsFit(g)
    BY <1>1, <1>2, <1>3, <1>4, <1>5 DEF LengthsFit
  <2> QED
    BY <2>1, <2>2, <2>3 DEF ParseIp
<1>8. ASSUME NEW k \in Nat PROVE Fits(g, k) = Fits(f, k)
  BY <1>1, <1>2, <1>3, <1>4 DEF Fits, LengthsFit
<1>9. TcpFits(g) = TcpFits(f) /\ UdpFits(g) = UdpFits(f)
  <2>1. 4 * f.offset \in Nat /\ 20 \in Nat /\ 8 \in Nat
    BY <1>3
  <2>2. Fits(g, 20) = Fits(f, 20) /\ Fits(g, 8) = Fits(f, 8)
        /\ Fits(g, 4 * f.offset) = Fits(f, 4 * f.offset) /\ Fits(g, f.length) = Fits(f, f.length)
    BY <1>3, <1>8, <2>1
  <2> QED
    BY <1>1, <1>2, <2>2 DEF TcpFits, UdpFits
<1>10. ParseTransport(g) = ParseTransport(f)
  BY <1>1, <1>2, <1>9 DEF ParseTransport
<1> QED
  BY <1>7, <1>10 DEF g

-----------------------------------------------------------------------------
(* Types *)

\* The constants, as the proofs use them.
LEMMA FilterConstants ==
  /\ Frames \subseteq Frame
  /\ Settings \subseteq [observe : BOOLEAN, ipv6 : BOOLEAN, fragments : BOOLEAN]
  /\ Policies \subseteq [mode : 0..3, budget : [rate : Nat, burst : Nat]]
  /\ Second \in Nat \ {0} /\ MaxBurst \in Nat \ {0} /\ Lease \in Nat \ {0}
  /\ MaxTime \in Nat \ {0}
BY FilterAssumption

\* The alternatives of a step, one by one.
LEMMA FilterSteps ==
  ASSUME Next
  PROVE  \/ \E k \in Writes : Update(k)
         \/ \E w \in Word : CopyWord(w)
         \/ \E c \in Cpus, f \in Frames : Receive(c, f)
         \/ \E c \in Cpus : Lists(c) \/ Budgeted(c) \/ Charge(c) \/ Judge(c)
         \/ Tick
BY DEF Next, Program

\* What the loader writes is a configuration.
LEMMA WritesType ==
  ASSUME TypeOK, NEW k \in Writes
  PROVE  k \in Config
<1>1. PICK l \in {0, now + Lease}, s \in Settings, p \in Policies :
        k = [lease |-> l, abi |-> 2, observe |-> s.observe, mode |-> p.mode, ipv6 |-> s.ipv6,
             fragments |-> s.fragments, budget |-> p.budget]
  BY DEF Writes
<1>2. l \in Nat
  BY FilterConstants DEF TypeOK
<1>3. s.observe \in BOOLEAN /\ s.ipv6 \in BOOLEAN /\ s.fragments \in BOOLEAN
  BY FilterConstants, Zenon
<1>4. p.mode \in 0..3 /\ p.budget \in [rate : Nat, burst : Nat]
  BY FilterConstants, Zenon
<1>5. 2 \in {0, 2}
  OBVIOUS
<1> QED
  BY <1>1, <1>2, <1>3, <1>4, <1>5, Zenon DEF Config

\* A packet under judgement, and what becomes of it.
LEMMA PacketParts ==
  ASSUME TypeOK, NEW c \in Cpus, ~Done(c)
  PROVE  /\ pkt[c] \in Judging
         /\ pkt[c].frame \in Frames /\ pkt[c].frame \in Frame /\ pkt[c].at \in 1..now
         /\ \A s \in {"lists", "budget", "charge", "judge"} :
              /\ [pkt[c] EXCEPT !.pc = s] \in Judging
              /\ [pkt[c] EXCEPT !.pc = s].pc = s
              /\ [pkt[c] EXCEPT !.pc = s].frame = pkt[c].frame
              /\ [pkt[c] EXCEPT !.pc = s].at = pkt[c].at
<1>1. pkt[c] \in Verdict \cup Judging
  BY DEF TypeOK
<1>2. pkt[c] \notin Verdict
  BY DEF Done, Verdict
<1>3. pkt[c] \in Judging
  BY <1>1, <1>2
<1> QED
  BY <1>3, FilterConstants DEF Judging

\* A verdict ends a packet, and only it.
LEMMA FinishType ==
  ASSUME TypeOK, NEW c \in Cpus, NEW v \in {"pass", "drop"}, Finish(c, v), now' = now
  PROVE  /\ pkt' \in [Cpus -> Verdict \cup Judging'] /\ pkt'[c].pc = v
         /\ \A d \in Cpus \ {c} : pkt'[d] = pkt[d]
<1>1. Judging' = Judging
  BY DEF Judging
<1>2. [pc |-> v] \in Verdict
  BY DEF Verdict
<1> QED
  BY <1>1, <1>2 DEF Finish, TypeOK

\* A packet that goes on keeps its frame and its time of arrival.
LEMMA GotoType ==
  ASSUME TypeOK, NEW c \in Cpus, ~Done(c), NEW s \in {"lists", "budget", "charge", "judge"},
         Goto(c, s), now' = now
  PROVE  /\ pkt' \in [Cpus -> Verdict \cup Judging']
         /\ pkt'[c].pc = s /\ pkt'[c].frame = pkt[c].frame /\ pkt'[c].at = pkt[c].at
         /\ \A d \in Cpus \ {c} : pkt'[d] = pkt[d]
<1>1. Judging' = Judging
  BY DEF Judging
<1>2. pkt' = [pkt EXCEPT ![c] = [pkt[c] EXCEPT !.pc = s]]
  BY DEF Goto
<1> DEFINE q == [pkt[c] EXCEPT !.pc = s]
<1>3. q \in Judging /\ q.pc = s /\ q.frame = pkt[c].frame /\ q.at = pkt[c].at
  BY PacketParts, Zenon
<1>4. pkt' = [pkt EXCEPT ![c] = q]
  BY <1>2
<1> HIDE DEF q
<1> QED
  BY <1>1, <1>3, <1>4 DEF TypeOK

\* A word of the configuration comes from one of the two values in place.
LEMMA WordsType ==
  ASSUME TypeOK, NEW w \in Word
  PROVE  /\ From(w) \in Config /\ From(w) \in InPlace
         /\ From(w).budget \in [rate : Nat, burst : Nat]
         /\ From(w).budget.rate \in Nat /\ From(w).budget.burst \in Nat
         /\ From(w).lease \in Nat
<1>1. From(w) \in Config
  BY DEF From, TypeOK
<1>2. From(w) \in InPlace
  BY DEF From, InPlace, TypeOK
<1>3. From(w).budget \in [rate : Nat, burst : Nat] /\ From(w).lease \in Nat
  BY <1>1, Zenon DEF Config
<1> QED
  BY <1>1, <1>2, <1>3, Zenon

\* Natural numbers are closed under multiplication.
LEMMA ProductNat ==
  \A a, b \in Nat : a * b \in Nat
OBVIOUS

\* The cost of a packet is a number of ticks, and covers its share of a second.
LEMMA CostFacts ==
  ASSUME NEW r \in Nat
  PROVE  /\ Cost(r) \in Nat
         /\ r > 0 => Cost(r) * r >= Second
<1>1. Second \in Nat
  BY FilterConstants
<1>2. \A a, b \in Nat : b > 0 => /\ ((a + b - 1) \div b) \in Nat
                                 /\ ((a + b - 1) \div b) * b >= a
  OBVIOUS
<1>3. CASE r = 0
  BY <1>3 DEF Cost
<1>4. CASE r > 0
  BY <1>1, <1>2, <1>4 DEF Cost
<1> QED
  BY <1>3, <1>4

\* A refill gives at most what is full, and at most the time since the last one.
LEMMA RefillBounds ==
  ASSUME NEW cap \in Nat, NEW credit \in Nat, NEW d \in Nat
  PROVE  /\ AtMost(cap, credit + AtMost(cap, d)) \in Nat
         /\ AtMost(cap, credit + AtMost(cap, d)) <= cap
         /\ AtMost(cap, credit + AtMost(cap, d)) <= credit + d
BY DEF AtMost

\* A bucket was last charged before the packet arrived that is to be charged.
Ordered == \A c \in Cpus : ~Done(c) => bucket[c].last <= pkt[c].at

\* The fields of a bucket.
LEMMA BucketParts ==
  ASSUME TypeOK, NEW c \in Cpus
  PROVE  /\ bucket[c].last \in 0..now /\ bucket[c].credit \in Nat
         /\ bucket[c].rate \in 0..Second /\ bucket[c].burst \in 0..MaxBurst
BY Zenon DEF TypeOK

\* The rate and the burst a charge uses: the words in place, within the limits.
LEMMA LimitParts ==
  ASSUME TypeOK
  PROVE  AtMost(Second, synRate) \in 0..Second /\ AtMost(MaxBurst, synBurst) \in 0..MaxBurst
<1>1. synRate \in Nat /\ synBurst \in Nat
  BY WordsType DEF synRate, synBurst, Word
<1>2. Second \in Nat /\ MaxBurst \in Nat
  BY FilterConstants
<1> QED
  BY <1>1, <1>2 DEF AtMost

\* What a charge does to the bucket of its CPU: refilled to n, it pays or not.
Pays(c, r, m, n) ==
  /\ n <= Cost(r) * m
  /\ bucket[c].last # 0 /\ bucket[c].rate = r /\ bucket[c].burst = m =>
       n <= bucket[c].credit + (pkt[c].at - bucket[c].last)
  /\ \/ /\ n < Cost(r) /\ Goto(c, "judge")
        /\ bucket' = [bucket EXCEPT ![c] =
             [last |-> pkt[c].at, rate |-> r, burst |-> m, credit |-> n]]
     \/ /\ n >= Cost(r) /\ Finish(c, "pass")
        /\ bucket' = [bucket EXCEPT ![c] =
             [last |-> pkt[c].at, rate |-> r, burst |-> m, credit |-> n - Cost(r)]]

\* A charge pays with some rate and burst within their limits.
LEMMA ChargeParts ==
  ASSUME TypeOK, Ordered, NEW c \in Cpus, Charge(c)
  PROVE  /\ ~Done(c) /\ pkt[c].pc = "charge" /\ UNCHANGED <<now, old, new, left>>
         /\ \E r \in 0..Second, m \in 0..MaxBurst, n \in Nat : Pays(c, r, m, n)
<1> DEFINE r == AtMost(Second, synRate)
           m == AtMost(MaxBurst, synBurst)
           b == Refilled(bucket[c], r, m, pkt[c].at)
<1>1. pkt[c].pc = "charge" /\ UNCHANGED <<now, old, new, left>>
  BY DEF Charge
<1>2. ~Done(c)
  BY <1>1 DEF Done
<1>3. IF b.credit < Cost(r)
      THEN bucket' = [bucket EXCEPT ![c] = b] /\ Goto(c, "judge")
      ELSE /\ bucket' = [bucket EXCEPT ![c] = [b EXCEPT !.credit = @ - Cost(r)]]
           /\ Finish(c, "pass")
  BY DEF Charge
<1>4. r \in 0..Second /\ m \in 0..MaxBurst
  BY LimitParts
<1> HIDE DEF r, m
<1>0. now \in Nat
  BY FilterConstants DEF TypeOK
<1>a. pkt[c].at \in 1..now
  BY <1>2, PacketParts, Zenon
<1>b. bucket[c].last \in 0..now /\ bucket[c].credit \in Nat
  BY BucketParts
<1>c. bucket[c].last <= pkt[c].at
  BY <1>2 DEF Ordered
<1>5. pkt[c].at \in Nat /\ bucket[c].last \in Nat /\ bucket[c].last <= pkt[c].at
      /\ bucket[c].credit \in Nat /\ r \in Nat /\ m \in Nat
  BY <1>0, <1>a, <1>b, <1>c, <1>4, FilterConstants
<1>6. /\ b = [last |-> pkt[c].at, rate |-> r, burst |-> m, credit |-> b.credit]
      /\ b.credit \in Nat /\ b.credit <= Cost(r) * m
      /\ bucket[c].last # 0 /\ bucket[c].rate = r /\ bucket[c].burst = m =>
           b.credit <= bucket[c].credit + (pkt[c].at - bucket[c].last)
  <2> DEFINE B == bucket[c]
             t == pkt[c].at
             cap == Cost(r) * m
             changed == B.rate # r \/ B.burst # m
             given == IF B.last = 0 \/ changed THEN cap
                      ELSE AtMost(cap, B.credit + AtMost(cap, t - B.last))
  <2>1. b = [last |-> t, rate |-> r, burst |-> m, credit |-> given]
    BY DEF Refilled
  <2>2. cap \in Nat /\ changed \in BOOLEAN
    BY <1>5, CostFacts, ProductNat
  <2>3. B.last \in Nat /\ B.credit \in Nat /\ t \in Nat /\ B.last <= t
    BY <1>5
  <2> HIDE DEF cap, t, b
  <2>4. given \in Nat /\ given <= cap /\ (B.last # 0 /\ ~changed => given <= B.credit + (t - B.last))
    <3>1. CASE B.last = 0 \/ changed
      <4>1. given = cap
        BY <3>1
      <4> QED
        BY <2>2, <3>1, <4>1
    <3>2. CASE ~(B.last = 0 \/ changed)
      <4> DEFINE d == t - B.last
      <4>1. given = AtMost(cap, B.credit + AtMost(cap, d))
        BY <3>2
      <4>2. d \in Nat
        BY <2>3
      <4> HIDE DEF given, d, B
      <4>3. given \in Nat /\ given <= cap /\ given <= B.credit + d
        BY <2>2, <2>3, <4>1, <4>2, RefillBounds, Zenon
      <4> QED
        BY <4>3 DEF d
    <3> QED
      BY <3>1, <3>2
  <2>5. b.credit = given
    BY <2>1
  <2> HIDE DEF given
  <2> QED
    BY <2>1, <2>4, <2>5 DEF cap, t
<1> HIDE DEF b
<1>7. [b EXCEPT !.credit = @ - Cost(r)] =
        [last |-> pkt[c].at, rate |-> r, burst |-> m, credit |-> b.credit - Cost(r)]
  BY <1>6
<1>8. Cost(r) \in Nat
  BY <1>5, CostFacts
<1>9. Pays(c, r, m, b.credit)
  BY <1>3, <1>6, <1>7, <1>8 DEF Pays
<1> QED
  BY <1>1, <1>2, <1>4, <1>6, <1>9

\* The bucket after a charge, and those of the other CPUs.
LEMMA ChargedBucket ==
  ASSUME TypeOK, NEW c \in Cpus, ~Done(c), NEW r \in 0..Second, NEW m \in 0..MaxBurst,
         NEW n \in Nat, Pays(c, r, m, n)
  PROVE  /\ bucket'[c].last = pkt[c].at /\ bucket'[c].rate = r /\ bucket'[c].burst = m
         /\ bucket'[c].credit \in Nat
         /\ bucket'[c] \in [last : 0..now, credit : Nat, rate : 0..Second, burst : 0..MaxBurst]
         /\ \A d \in Cpus \ {c} : bucket'[d] = bucket[d]
         /\ DOMAIN bucket' = Cpus
<1> DEFINE New(k) == [last |-> pkt[c].at, rate |-> r, burst |-> m, credit |-> k]
<1>1. Cost(r) \in Nat
  BY CostFacts, FilterConstants
<1>2. \E k \in Nat : bucket' = [bucket EXCEPT ![c] = New(k)]
  BY <1>1 DEF Pays
<1>a. pkt[c].at \in 1..now
  BY PacketParts, Zenon
<1>3. pkt[c].at \in 0..now
  BY <1>a, FilterConstants DEF TypeOK
<1> QED
  BY <1>2, <1>3 DEF TypeOK

\* A packet that is not passed at once waits for its lists or for its verdict.
Arrives(c, f, s) ==
  /\ JudgedHere(f)
  /\ \/ s = "judge" /\ StructuralReason(f) \notin {"none", "delegated"}
     \/ s = "lists" /\ Protected(f)
  /\ pkt' = [pkt EXCEPT ![c] = [pc |-> s, frame |-> f, at |-> now]]

\* A frame passes at once or its packet arrives at the first stage.
LEMMA ReceiveParts ==
  ASSUME NEW c \in Cpus, NEW f \in Frames, Receive(c, f)
  PROVE  /\ Done(c) /\ UNCHANGED <<now, old, new, left, bucket>>
         /\ Finish(c, "pass") \/ \E s \in {"lists", "judge"} : Arrives(c, f, s)
<1>1. Done(c) /\ UNCHANGED <<now, old, new, left, bucket>>
  BY DEF Receive
<1>2. CASE ~JudgedHere(f)
  BY <1>1, <1>2 DEF Receive
<1>3. CASE JudgedHere(f) /\ StructuralReason(f) \notin {"none", "delegated"}
  BY <1>1, <1>3, Zenon DEF Receive, Arrives
<1>4. CASE JudgedHere(f) /\ StructuralReason(f) \in {"none", "delegated"} /\ Protected(f)
  BY <1>1, <1>4, Zenon DEF Receive, Arrives
<1>5. CASE JudgedHere(f) /\ StructuralReason(f) \in {"none", "delegated"} /\ ~Protected(f)
  BY <1>1, <1>5, Zenon DEF Receive
<1> QED
  BY <1>2, <1>3, <1>4, <1>5

\* A packet that arrives is judged with the time of its arrival.
LEMMA ArrivesType ==
  ASSUME TypeOK, NEW c \in Cpus, NEW f \in Frames, NEW s \in {"lists", "judge"},
         Arrives(c, f, s), now' = now
  PROVE  /\ pkt' \in [Cpus -> Verdict \cup Judging']
         /\ pkt'[c].pc = s /\ pkt'[c].frame = f /\ pkt'[c].at = now
         /\ \A d \in Cpus \ {c} : pkt'[d] = pkt[d]
<1> DEFINE q == [pc |-> s, frame |-> f, at |-> now]
<1>1. Judging' = Judging
  BY DEF Judging
<1>2. now \in 1..now
  BY FilterConstants DEF TypeOK
<1>3. q \in Judging /\ q.pc = s /\ q.frame = f /\ q.at = now
  BY <1>2 DEF Judging
<1>4. pkt' = [pkt EXCEPT ![c] = q]
  BY DEF Arrives
<1> HIDE DEF q
<1> QED
  BY <1>1, <1>3, <1>4 DEF TypeOK

\* A step of the lists, of the budget's first test and of the verdict: on to a
\* later stage, or done.
LEMMA ListsParts ==
  ASSUME NEW c \in Cpus, Lists(c)
  PROVE  /\ ~Done(c) /\ pkt[c].pc = "lists" /\ UNCHANGED <<now, old, new, left, bucket>>
         /\ \/ Goto(c, "judge") /\ Freezes(pkt[c].frame, pkt[c].at)
            \/ ~Freezes(pkt[c].frame, pkt[c].at) /\ Finish(c, "pass")
            \/ ~Freezes(pkt[c].frame, pkt[c].at) /\ Goto(c, "judge") /\ pkt[c].frame.src \in Block
            \/ ~Freezes(pkt[c].frame, pkt[c].at) /\ Goto(c, "budget") /\ IsSyn(pkt[c].frame)
<1>1. pkt[c].pc = "lists" /\ UNCHANGED <<now, old, new, left, bucket>>
  BY DEF Lists
<1>2. ~Done(c)
  BY <1>1 DEF Done
<1> QED
  BY <1>1, <1>2, Zenon DEF Lists

\* The check of the budget passes a packet or sends it on to be charged.
LEMMA BudgetedParts ==
  ASSUME NEW c \in Cpus, Budgeted(c)
  PROVE  /\ ~Done(c) /\ pkt[c].pc = "budget" /\ UNCHANGED <<now, old, new, left, bucket>>
         /\ Finish(c, "pass") \/ Goto(c, "charge")
BY DEF Budgeted, Done

\* The last stage passes a packet only if nothing is enforced.
LEMMA JudgeParts ==
  ASSUME NEW c \in Cpus, Judge(c)
  PROVE  /\ ~Done(c) /\ pkt[c].pc = "judge" /\ UNCHANGED <<now, old, new, left, bucket>>
         /\ \/ Finish(c, "drop")
            \/ Finish(c, "pass") /\ ~(abi = 2 /\ ~observe /\ pkt[c].at < leaseNs)
<1>1. ~Done(c) /\ pkt[c].pc = "judge" /\ UNCHANGED <<now, old, new, left, bucket>>
  BY DEF Judge, Done
<1>2. CASE abi = 2 /\ ~observe /\ pkt[c].at < leaseNs
  BY <1>1, <1>2, Zenon DEF Judge
<1>3. CASE ~(abi = 2 /\ ~observe /\ pkt[c].at < leaseNs)
  BY <1>1, <1>3, Zenon DEF Judge
<1> QED
  BY <1>2, <1>3

\* The buckets at the present time.
Buckets == [last : 0..now, credit : Nat, rate : 0..Second, burst : 0..MaxBurst]

\* One CPU takes a step: its packet ends, arrives or goes on, and only its
\* bucket may change, when it goes on from a charge.
Advances(c) ==
  /\ UNCHANGED <<now, old, new, left>>
  /\ \A d \in Cpus \ {c} : pkt'[d] = pkt[d] /\ bucket'[d] = bucket[d]
  /\ pkt' \in [Cpus -> Verdict \cup Judging'] /\ bucket' \in [Cpus -> Buckets]
  /\ bucket'[c] = bucket[c] \/ bucket'[c].last = pkt[c].at
  /\ \/ Done(c)'
     \/ Done(c) /\ pkt'[c].at = now /\ bucket'[c] = bucket[c]
     \/ ~Done(c) /\ pkt'[c].at = pkt[c].at

\* Every step of a CPU is one.
LEMMA AdvanceStep ==
  ASSUME TypeOK, Ordered, NEW c \in Cpus,
         \/ \E f \in Frames : Receive(c, f)
         \/ Lists(c) \/ Budgeted(c) \/ Charge(c) \/ Judge(c)
  PROVE  Advances(c)
<1>0. bucket \in [Cpus -> Buckets]
  BY DEF TypeOK, Buckets
<1>1. ASSUME NEW v \in {"pass", "drop"}, Finish(c, v), UNCHANGED <<now, old, new, left, bucket>>
      PROVE  Advances(c)
  BY <1>0, <1>1, FinishType DEF Advances, Done
<1>2. ASSUME NEW s \in {"lists", "budget", "charge", "judge"}, ~Done(c), Goto(c, s),
             UNCHANGED <<now, old, new, left, bucket>>
      PROVE  Advances(c)
  BY <1>0, <1>2, GotoType DEF Advances
<1>3. ASSUME NEW f \in Frames, Receive(c, f)
      PROVE  Advances(c)
  <2>1. Done(c) /\ UNCHANGED <<now, old, new, left, bucket>>
    BY <1>3, ReceiveParts
  <2>2. CASE Finish(c, "pass")
    BY <1>1, <2>1, <2>2
  <2>3. CASE \E s \in {"lists", "judge"} : Arrives(c, f, s)
    BY <1>0, <2>1, <2>3, ArrivesType, SMTT(20) DEF Advances
  <2> QED
    BY <1>3, <2>2, <2>3, ReceiveParts
<1>4. CASE Lists(c)
  BY <1>1, <1>2, <1>4, ListsParts
<1>5. CASE Budgeted(c)
  BY <1>1, <1>2, <1>5, BudgetedParts
<1>6. CASE Judge(c)
  BY <1>1, <1>2, <1>6, JudgeParts
<1>7. CASE Charge(c)
  <2>1. ~Done(c) /\ UNCHANGED <<now, old, new, left>>
    BY <1>7, ChargeParts
  <2>2. PICK r \in 0..Second, m \in 0..MaxBurst, n \in Nat : Pays(c, r, m, n)
    BY <1>7, ChargeParts
  <2>3. /\ bucket'[c].last = pkt[c].at /\ bucket'[c] \in Buckets
        /\ \A d \in Cpus \ {c} : bucket'[d] = bucket[d]
    BY <2>1, <2>2, ChargedBucket DEF Buckets
  <2>4. bucket' \in [Cpus -> Buckets]
    BY <1>0, <2>2, <2>3 DEF Pays
  <2>5. CASE Goto(c, "judge")
    BY <2>1, <2>3, <2>4, <2>5, GotoType DEF Advances
  <2>6. CASE Finish(c, "pass")
    BY <2>1, <2>3, <2>4, <2>6, FinishType DEF Advances, Done
  <2> QED
    BY <2>2, <2>5, <2>6 DEF Pays
<1> QED
  BY <1>3, <1>4, <1>5, <1>6, <1>7

\* Every step keeps the types and the order of charges.
LEMMA FilterTypeStep ==
  ASSUME TypeOK, Ordered, Next
  PROVE  TypeOK' /\ Ordered'
<1>1. ASSUME NEW k \in Writes, Update(k)
      PROVE  TypeOK' /\ Ordered'
  <2>1. UNCHANGED <<now, pkt, bucket>> /\ new' \in Config /\ old' \in Config /\ left' \subseteq Word
    BY <1>1, WritesType DEF Update, TypeOK
  <2> QED
    BY <2>1 DEF TypeOK, Ordered, Done, Judging
<1>2. ASSUME NEW w \in Word, CopyWord(w)
      PROVE  TypeOK' /\ Ordered'
  <2>1. UNCHANGED <<now, pkt, bucket>> /\ new' \in Config /\ old' \in Config /\ left' \subseteq Word
    BY <1>2 DEF CopyWord, TypeOK
  <2> QED
    BY <2>1 DEF TypeOK, Ordered, Done, Judging
<1>3. CASE Tick
  <2>1. now' \in 1..MaxTime /\ now \in Nat /\ now' = now + 1
    BY <1>3, FilterConstants DEF Tick, TypeOK
  <2>2. UNCHANGED <<old, new, left, pkt, bucket>>
    BY <1>3 DEF Tick
  <2>3. 1..now \subseteq 1..now' /\ 0..now \subseteq 0..now'
    BY <2>1
  <2>4. Judging \subseteq Judging'
    BY <2>3, Zenon DEF Judging
  <2>5. Buckets \subseteq Buckets'
    BY <2>3, Zenon DEF Buckets
  <2>6. pkt' \in [Cpus -> Verdict \cup Judging']
    BY <2>2, <2>4 DEF TypeOK
  <2>7. bucket' \in [Cpus -> Buckets']
    BY <2>2, <2>5 DEF TypeOK, Buckets
  <2> QED
    BY <2>1, <2>2, <2>6, <2>7 DEF TypeOK, Ordered, Done, Buckets
<1>4. ASSUME NEW c \in Cpus, Advances(c)
      PROVE  TypeOK' /\ Ordered'
  <2>1. TypeOK'
    BY <1>4 DEF Advances, TypeOK, Buckets
  <2>2. \A d \in Cpus : bucket[d].last \in 0..now
    BY BucketParts
  <2>3. ASSUME NEW d \in Cpus, ~Done(d)'
        PROVE  bucket'[d].last <= pkt'[d].at
    <3>1. CASE d # c
      BY <1>4, <2>3, <3>1 DEF Advances, Ordered, Done
    <3>2. CASE d = c
      <4>1. now \in Nat
        BY FilterConstants DEF TypeOK
      <4>2. CASE Done(c)
        BY <1>4, <2>2, <2>3, <3>2, <4>1, <4>2 DEF Advances
      <4>3. CASE ~Done(c)
        <5>1. pkt[c].at \in 1..now
          BY <4>3, PacketParts, Zenon
        <5> QED
          BY <1>4, <2>2, <2>3, <3>2, <4>1, <4>3, <5>1 DEF Advances, Ordered
      <4> QED
        BY <4>2, <4>3
    <3> QED
      BY <3>1, <3>2
  <2> QED
    BY <2>1, <2>3 DEF Ordered
<1> QED
  BY <1>1, <1>2, <1>3, <1>4, AdvanceStep, FilterSteps

-----------------------------------------------------------------------------
(* What a packet has shown by the stage it has reached *)

\* The first conjunct is what the destination lookup established, the others
\* what led to the stage.
Shown(f, stage) ==
  /\ KnowsDst(f) /\ f.dst \in Owned
  /\ stage = "judge" /\ Protected(f) /\ f.flags # {"syn"} => f.src \in Block
  /\ stage \in {"lists", "budget", "charge"} => Protected(f)
  /\ stage \in {"budget", "charge"} => IsSyn(f)

\* Every packet under judgement has shown what its stage requires.
PacketInv == \A c \in Cpus : ~Done(c) => Shown(pkt[c].frame, pkt[c].pc)

\* A protected packet that opens a connection carries SYN alone: the parser
\* rejects SYN with FIN or RST.
LEMMA ProtectedSyn ==
  ASSUME NEW f \in Frame, Protected(f), IsSyn(f)
  PROVE  f.flags = {"syn"}
<1>1. f.flags \subseteq {"fin", "syn", "rst", "ack"}
  BY FrameParts
<1>2. ParseTransport(f) = "parsed" /\ f.proto = "tcp" /\ ~Fragment(f)
  BY DEF Protected
<1>3. TcpFits(f)
  BY <1>2 DEF ParseTransport
<1>4. ~TcpFlagsBad(f)
  BY <1>3 DEF TcpFits
<1> QED
  BY <1>1, <1>4 DEF TcpFlagsBad, IsSyn

\* A packet that is judged here has a readable, owned destination.
LEMMA JudgedKnown ==
  ASSUME NEW f \in Frame, JudgedHere(f)
  PROVE  KnowsDst(f) /\ f.dst \in Owned
<1>1. f.dst \in Owned
  BY DEF JudgedHere
<1>2. CASE ParseIp(f) = "parsed"
  <2>1. f.size \in Nat /\ Off(f) \in Nat
    BY FrameParts, SameLayout, Zenon
  <2> QED
    BY <1>1, <1>2, <2>1 DEF ParseIp, KnowsDst
<1>3. CASE ParseIp(f) # "parsed"
  <2>1. ParseIp(f) \in Malformed
    BY <1>3 DEF ParseIp, Malformed, JudgedHere
  <2> QED
    BY <1>1, <2>1 DEF JudgedHere
<1> QED
  BY <1>2, <1>3

\* No protected packet has a structural reason: a port is not both.
LEMMA ReasonUnprotected ==
  ASSUME NEW f \in Frames, StructuralReason(f) \notin {"none", "delegated"}
  PROVE  ~Protected(f)
<1> SUFFICES ASSUME Protected(f) PROVE FALSE
  OBVIOUS
<1>1. /\ ParseIp(f) = "parsed" /\ ~Fragment(f) /\ ParseTransport(f) = "parsed"
      /\ f.proto = "tcp" /\ "protect_tcp" \in Ports[f.port]
  BY DEF Protected
<1>2. f.port \in DOMAIN Ports
  BY FilterAssumption
<1>3. ~({"protect_tcp", "drop_tcp"} \subseteq Ports[f.port])
  BY <1>2, FilterAssumption
<1>4. ~PortBlocked(f)
  BY <1>1, <1>3 DEF PortBlocked
<1> QED
  BY <1>1, <1>4 DEF StructuralReason

\* Every step keeps it: a packet shows more with every stage.
LEMMA PacketStep ==
  ASSUME TypeOK, Ordered, PacketInv, Next
  PROVE  PacketInv'
<1> DEFINE Keeps(c) == ~Done(c)' => Shown(pkt'[c].frame, pkt'[c].pc)
<1>0. ASSUME NEW c \in Cpus, \A d \in Cpus \ {c} : pkt'[d] = pkt[d], Keeps(c)
      PROVE  PacketInv'
  BY <1>0 DEF PacketInv, Done
<1>1. ASSUME UNCHANGED pkt
      PROVE  PacketInv'
  BY <1>1 DEF PacketInv, Done
<1>2. ASSUME NEW c \in Cpus, NEW v \in {"pass", "drop"}, Finish(c, v), UNCHANGED now
      PROVE  PacketInv'
  <2>1. Keeps(c) /\ \A d \in Cpus \ {c} : pkt'[d] = pkt[d]
    BY <1>2, FinishType DEF Done
  <2> QED
    BY <1>0, <2>1
<1>3. ASSUME NEW c \in Cpus, ~Done(c), NEW s \in {"lists", "budget", "charge", "judge"},
             Goto(c, s), UNCHANGED now, Shown(pkt[c].frame, s)
      PROVE  PacketInv'
  <2>1. Keeps(c) /\ \A d \in Cpus \ {c} : pkt'[d] = pkt[d]
    BY <1>3, GotoType
  <2> QED
    BY <1>0, <2>1
<1>4. ASSUME NEW c \in Cpus, NEW f \in Frames, Receive(c, f)
      PROVE  PacketInv'
  <2>1. UNCHANGED now
    BY <1>4, ReceiveParts
  <2>2. ASSUME NEW s \in {"lists", "judge"}, Arrives(c, f, s)
        PROVE  PacketInv'
    <3>1. KnowsDst(f) /\ f.dst \in Owned
      BY <2>2, JudgedKnown, FilterConstants DEF Arrives
    <3>2. s = "judge" => ~Protected(f)
      BY <2>2, ReasonUnprotected DEF Arrives
    <3>3. s = "lists" => Protected(f)
      BY <2>2 DEF Arrives
    <3>4. Shown(f, s)
      BY <3>1, <3>2, <3>3 DEF Shown
    <3>5. Keeps(c) /\ \A d \in Cpus \ {c} : pkt'[d] = pkt[d]
      BY <2>1, <2>2, <3>4, ArrivesType, SMTT(20)
    <3> QED
      BY <1>0, <3>5
  <2> QED
    BY <1>2, <1>4, <2>1, <2>2, ReceiveParts
<1>5. ASSUME NEW c \in Cpus, Lists(c)
      PROVE  PacketInv'
  <2> DEFINE f == pkt[c].frame
  <2>1. ~Done(c) /\ pkt[c].pc = "lists" /\ UNCHANGED now
    BY <1>5, ListsParts
  <2>2. f \in Frame /\ Shown(f, "lists")
    BY <2>1, PacketParts, Zenon DEF PacketInv
  <2>3. Freezes(f, pkt[c].at) => Shown(f, "judge")
    BY <2>2, ProtectedSyn DEF Shown, Freezes
  <2>4. f.src \in Block => Shown(f, "judge")
    BY <2>2 DEF Shown
  <2>5. IsSyn(f) => Shown(f, "budget")
    BY <2>2, SMTT(20) DEF Shown
  <2> QED
    BY <1>2, <1>3, <1>5, <2>1, <2>3, <2>4, <2>5, ListsParts, SMTT(20)
<1>6. ASSUME NEW c \in Cpus, Budgeted(c)
      PROVE  PacketInv'
  <2>1. ~Done(c) /\ pkt[c].pc = "budget" /\ UNCHANGED now
    BY <1>6, BudgetedParts
  <2>2. Shown(pkt[c].frame, "charge")
    BY <2>1 DEF PacketInv, Shown
  <2> QED
    BY <1>2, <1>3, <1>6, <2>1, <2>2, BudgetedParts
<1>7. ASSUME NEW c \in Cpus, Charge(c)
      PROVE  PacketInv'
  <2>1. ~Done(c) /\ pkt[c].pc = "charge" /\ UNCHANGED now
    BY <1>7, ChargeParts
  <2>2. pkt[c].frame \in Frame /\ Shown(pkt[c].frame, "charge")
    BY <2>1, PacketParts, Zenon DEF PacketInv
  <2>3. Shown(pkt[c].frame, "judge")
    BY <2>2, ProtectedSyn DEF Shown
  <2>4. Goto(c, "judge") \/ Finish(c, "pass")
    BY <1>7, ChargeParts DEF Pays
  <2> QED
    BY <1>2, <1>3, <2>1, <2>3, <2>4
<1>8. ASSUME NEW c \in Cpus, Judge(c)
      PROVE  PacketInv'
  BY <1>2, <1>8, JudgeParts
<1>9. ASSUME (\E k \in Writes : Update(k)) \/ (\E w \in Word : CopyWord(w)) \/ Tick
      PROVE  PacketInv'
  BY <1>1, <1>9, SMTT(20) DEF Update, CopyWord, Tick
<1> QED
  BY <1>4, <1>5, <1>6, <1>7, <1>8, <1>9, FilterSteps

-----------------------------------------------------------------------------
(* EMERGENCY *)

\* A step as one CPU sees it.
LEMMA StepOnCpu ==
  ASSUME TypeOK, Ordered, Next, NEW c \in Cpus
  PROVE  \/ pkt'[c] = pkt[c] /\ bucket'[c] = bucket[c]
         \/ /\ Done(c) /\ bucket'[c] = bucket[c]
            /\ Done(c)' \/ pkt'[c].pc \in {"lists", "judge"}
         \/ Lists(c) \/ Budgeted(c) \/ Charge(c) \/ Judge(c)
<1>1. CASE (\E k \in Writes : Update(k)) \/ (\E w \in Word : CopyWord(w)) \/ Tick
  BY <1>1, SMTT(20) DEF Update, CopyWord, Tick
<1>2. ASSUME NEW d \in Cpus, d # c,
             \/ \E f \in Frames : Receive(d, f)
             \/ Lists(d) \/ Budgeted(d) \/ Charge(d) \/ Judge(d)
      PROVE  pkt'[c] = pkt[c] /\ bucket'[c] = bucket[c]
  BY <1>2, AdvanceStep DEF Advances
<1>3. ASSUME NEW f \in Frames, Receive(c, f)
      PROVE  /\ Done(c) /\ bucket'[c] = bucket[c]
             /\ Done(c)' \/ pkt'[c].pc \in {"lists", "judge"}
  <2>1. Done(c) /\ bucket'[c] = bucket[c] /\ now' = now
    BY <1>3, ReceiveParts
  <2>2. CASE Finish(c, "pass")
    BY <2>1, <2>2, FinishType DEF Done
  <2>3. CASE \E s \in {"lists", "judge"} : Arrives(c, f, s)
    BY <2>1, <2>3, ArrivesType
  <2> QED
    BY <1>3, <2>1, <2>2, <2>3, ReceiveParts
<1> QED
  BY <1>1, <1>2, <1>3, FilterSteps, SMTT(20)

\* While every configuration in place freezes new connections, a SYN is never
\* on its way to the budget.
FrozenInv ==
  \A c \in frozen :
    /\ c \in Cpus /\ ~Done(c)
    /\ \A k \in InPlace : FreezesAll(k, pkt[c].at)
    /\ IsSyn(pkt[c].frame) => pkt[c].pc \in {"lists", "judge"}

\* Then the words a packet reads freeze it, whichever value each comes from.
LEMMA FrozenWords ==
  ASSUME TypeOK, FrozenInv, NEW c \in frozen
  PROVE  abi = 2 /\ ~observe /\ mode = 3 /\ pkt[c].at < leaseNs
<1>1. \A w \in Word : FreezesAll(From(w), pkt[c].at)
  BY WordsType DEF FrozenInv
<1> QED
  BY <1>1 DEF FreezesAll, abi, observe, mode, leaseNs, Word

\* So the lists send a SYN to its verdict, and the verdict is to drop.
LEMMA FrozenVerdict ==
  ASSUME TypeOK, Ordered, FrozenInv, Next, NEW c \in frozen, IsSyn(pkt[c].frame)
  PROVE  \/ pkt'[c] = pkt[c]
         \/ pkt'[c].pc = "judge"
         \/ pkt'[c].pc = "drop"
<1>1. c \in Cpus /\ ~Done(c) /\ pkt[c].pc \in {"lists", "judge"}
  BY DEF FrozenInv
<1>2. abi = 2 /\ ~observe /\ mode = 3 /\ pkt[c].at < leaseNs
  BY FrozenWords
<1>3. CASE Lists(c)
  <2>1. Freezes(pkt[c].frame, pkt[c].at)
    BY <1>2, SMTT(20) DEF Freezes
  <2>2. Goto(c, "judge") /\ now' = now
    BY <1>1, <1>3, <2>1, ListsParts
  <2> QED
    BY <1>1, <2>2, GotoType
<1>4. CASE Judge(c)
  <2>1. Finish(c, "drop") /\ now' = now
    BY <1>1, <1>2, <1>4, JudgeParts
  <2> QED
    BY <1>1, <2>1, FinishType
<1>5. ~Budgeted(c) /\ ~Charge(c)
  BY <1>1 DEF Budgeted, Charge
<1> QED
  BY <1>1, <1>3, <1>4, <1>5, StepOnCpu

\* Every step keeps it, the copying of one word too.
LEMMA FrozenStep ==
  ASSUME TypeOK, Ordered, FrozenInv, Next, Record
  PROVE  FrozenInv'
<1> SUFFICES ASSUME NEW c \in frozen'
             PROVE  /\ c \in Cpus /\ ~Done(c)'
                    /\ \A k \in InPlace' : FreezesAll(k, pkt'[c].at)
                    /\ IsSyn(pkt'[c].frame) => pkt'[c].pc \in {"lists", "judge"}
  BY DEF FrozenInv, FreezesAll, IsSyn
<1>1. /\ c \in Cpus /\ ~Done(c)' /\ (Done(c) \/ c \in frozen)
      /\ \A k \in InPlace' : FreezesAll(k, pkt'[c].at)
  BY DEF Record, Kept
<1>2. CASE Done(c)
  <2>1. ~Lists(c) /\ ~Budgeted(c) /\ ~Charge(c) /\ ~Judge(c)
    BY <1>2 DEF Done, Lists, Budgeted, Charge, Judge
  <2>2. pkt'[c] # pkt[c]
    BY <1>1, <1>2 DEF Done
  <2> QED
    BY <1>1, <2>1, <2>2, StepOnCpu
<1>3. CASE ~Done(c) /\ c \in frozen
  <2>1. pkt'[c].frame = pkt[c].frame
    <3>1. ASSUME NEW s \in {"lists", "budget", "charge", "judge"}, Goto(c, s), now' = now
          PROVE  pkt'[c].frame = pkt[c].frame
      BY <1>1, <1>3, <3>1, GotoType
    <3>2. ASSUME NEW v \in {"pass", "drop"}, Finish(c, v), now' = now
          PROVE  FALSE
      BY <1>1, <3>2, FinishType, SMTT(20) DEF Done
    <3>3. CASE Charge(c)
      BY <1>1, <3>1, <3>2, <3>3, ChargeParts, SMTT(20) DEF Pays
    <3> QED
      BY <1>1, <1>3, <3>1, <3>2, <3>3, StepOnCpu, ListsParts, BudgetedParts, JudgeParts, SMTT(20)
  <2>2. CASE IsSyn(pkt'[c].frame)
    <3>1. pkt'[c] = pkt[c] \/ pkt'[c].pc = "judge" \/ pkt'[c].pc = "drop"
      BY <1>3, <2>1, <2>2, FrozenVerdict
    <3>2. pkt'[c].pc # "drop"
      BY <1>1 DEF Done
    <3> QED
      BY <1>1, <1>3, <2>1, <2>2, <3>1, <3>2 DEF FrozenInv
  <2> QED
    BY <1>1, <2>2, SMTT(20)
<1> QED
  BY <1>1, <1>2, <1>3

-----------------------------------------------------------------------------
(* The SYN budget *)

\* What was let through, in time, and what is left never exceed a full bucket
\* and the time since it was full.
Covered(rate, burst, last, credit, number, from) ==
  rate > 0 => number * Cost(rate) + credit <= Cost(rate) * burst + (last - from)

\* What a CPU let through and the credit it has left are covered.
BudgetInv ==
  /\ granted \in [Cpus -> Nat] /\ since \in [Cpus -> Nat]
  /\ \A c \in Cpus :
       /\ since[c] <= bucket[c].last
       /\ Covered(bucket[c].rate, bucket[c].burst, bucket[c].last, bucket[c].credit,
                  granted[c], since[c])

\* Credit that covers the grants bounds their number by the rate.
LEMMA CreditBoundsGrants ==
  ASSUME NEW rate \in Nat, rate > 0, NEW burst \in Nat, NEW last \in Nat, NEW credit \in Nat,
         NEW number \in Nat, NEW from \in Nat, from <= last,
         Covered(rate, burst, last, credit, number, from)
  PROVE  (number - burst) * Second <= (last - from) * rate
<1> DEFINE k == Cost(rate)
           d == last - from
<1>1. k \in Nat /\ k * rate >= Second /\ Second \in Nat /\ d \in Nat
  BY CostFacts, FilterConstants
<1>2. number * k + credit <= k * burst + d
  BY DEF Covered
<1> HIDE DEF k, d
<1>3. CASE number <= burst
  <2>2. \A a \in Int, b \in Nat : a <= 0 => a * b <= 0
    OBVIOUS
  <2>3. d * rate \in Nat
    BY <1>1, ProductNat
  <2> QED
    BY <1>1, <1>3, <2>2, <2>3 DEF d
<1>4. CASE number > burst
  <2>1. PICK e \in Nat : number = burst + e
    BY <1>4
  <2>2. \A a, b, c \in Nat : (a + b) * c = c * a + b * c
    OBVIOUS
  <2>3. k * burst \in Nat /\ e * k \in Nat
    BY <1>1, ProductNat
  <2>4. e * k <= d
    BY <1>1, <1>2, <2>1, <2>2, <2>3
  <2>5. \A a, b, c \in Nat : a <= b => a * c <= b * c /\ c * a <= c * b
    OBVIOUS
  <2>6. (e * k) * rate <= d * rate
    BY <1>1, <2>3, <2>4, <2>5
  <2>7. e * Second <= e * (k * rate)
    BY <1>1, <2>5, ProductNat
  <2>8. \A a, b, c \in Nat : a * (b * c) = (a * b) * c
    OBVIOUS
  <2>9. e * Second <= d * rate
    <3>1. e * (k * rate) = (e * k) * rate
      BY <1>1, <2>8
    <3>2. e * Second \in Nat /\ (e * k) * rate \in Nat /\ d * rate \in Nat
      BY <1>1, <2>3, ProductNat
    <3> QED
      BY <2>6, <2>7, <3>1, <3>2
  <2> QED
    BY <2>1, <2>9 DEF d
<1> QED
  BY <1>3, <1>4

\* A charge keeps the grants covered: the arithmetic of one step.
LEMMA ChargeCovered ==
  ASSUME NEW r \in Nat, NEW m \in Nat, NEW n \in Nat, NEW t \in Nat, NEW last \in Nat,
         NEW credit \in Nat, NEW number \in Nat, NEW from \in Nat,
         from <= last, last <= t, n <= Cost(r) * m
  PROVE  /\ Covered(r, m, t, n, 0, t)
         /\ n >= Cost(r) => Covered(r, m, t, n - Cost(r), 1, t)
         /\ Covered(r, m, last, credit, number, from) /\ n <= credit + (t - last) =>
              /\ Covered(r, m, t, n, number, from)
              /\ n >= Cost(r) => Covered(r, m, t, n - Cost(r), number + 1, from)
<1> DEFINE k == Cost(r)
           cap == k * m
           used == number * k
<1>1. k \in Nat /\ cap \in Nat /\ used \in Nat
  BY CostFacts, ProductNat
<1>2. (number + 1) * k = used + k /\ 0 * k = 0 /\ 1 * k = k
  BY <1>1
<1>3. n <= cap
  OBVIOUS
<1>4. (Covered(r, m, last, credit, number, from) /\ r > 0) => used + credit <= cap + (last - from)
  BY DEF Covered
<1>5. \A c \in Nat, x \in Nat, f \in Nat : Covered(r, m, t, c, x, f) <=> (r > 0 => x * k + c <= cap + (t - f))
  BY DEF Covered
<1> HIDE DEF k, cap
<1>6. Covered(r, m, t, n, 0, t)
  BY <1>1, <1>2, <1>3, <1>5
<1>7. n >= k => Covered(r, m, t, n - k, 1, t)
  BY <1>1, <1>2, <1>3, <1>5
<1>8. CASE Covered(r, m, last, credit, number, from) /\ n <= credit + (t - last)
  <2>1. Covered(r, m, t, n, number, from)
    BY <1>1, <1>4, <1>5, <1>8
  <2>2. n >= k => Covered(r, m, t, n - k, number + 1, from)
    <3> HIDE DEF used
    <3> QED
      BY <1>1, <1>2, <1>4, <1>5, <1>8, SMTT(20)
  <2> QED
    BY <1>6, <1>7, <2>1, <2>2 DEF k
<1> QED
  BY <1>6, <1>7, <1>8 DEF k

\* What the history says of CPU c.
Fine(c) ==
  /\ granted[c] \in Nat /\ since[c] \in Nat /\ since[c] <= bucket[c].last
  /\ Covered(bucket[c].rate, bucket[c].burst, bucket[c].last, bucket[c].credit,
             granted[c], since[c])

\* A charge, in numbers.
LEMMA ChargeNumbers ==
  ASSUME TypeOK, Ordered, NEW c \in Cpus, Charge(c), Record, granted[c] \in Nat
  PROVE  \E r \in Nat, m \in Nat, n \in Nat, passed \in {0, 1} :
           LET b == bucket[c]
               t == pkt[c].at
           IN /\ bucket'[c].last = t /\ bucket'[c].rate = r /\ bucket'[c].burst = m
              /\ t \in Nat /\ b.last <= t /\ n <= Cost(r) * m /\ bucket'[c].credit \in Nat
              /\ b.last # 0 /\ b.rate = r /\ b.burst = m => n <= b.credit + (t - b.last)
              /\ passed = 0 => bucket'[c].credit = n
              /\ passed = 1 => n >= Cost(r) /\ bucket'[c].credit = n - Cost(r)
              /\ \/ r = 0 /\ granted'[c] = 0 /\ since'[c] \in {since[c], t}
                 \/ granted'[c] = passed /\ since'[c] = t
                 \/ /\ b.last # 0 /\ b.rate = r /\ b.burst = m
                    /\ granted'[c] = granted[c] + passed /\ since'[c] = since[c]
<1>1. ~Done(c) /\ pkt[c].pc = "charge" /\ now' = now
  BY ChargeParts, Zenon
<1>2. PICK r \in 0..Second, m \in 0..MaxBurst, n \in Nat : Pays(c, r, m, n)
  BY ChargeParts, Zenon
<1>3. /\ bucket'[c].last = pkt[c].at /\ bucket'[c].rate = r /\ bucket'[c].burst = m
      /\ bucket'[c].credit \in Nat
  BY <1>1, <1>2, ChargedBucket, Zenon
<1>4. pkt[c].at \in Nat /\ r \in Nat /\ m \in Nat
  <2>1. now \in Nat /\ Second \in Nat /\ MaxBurst \in Nat
    BY FilterConstants DEF TypeOK
  <2>2. pkt[c].at \in 1..now
    BY <1>1, PacketParts, Zenon
  <2> QED
    BY <2>1, <2>2
<1>5. bucket[c].last <= pkt[c].at
  BY <1>1, Zenon DEF Ordered
<1>6. /\ n <= Cost(r) * m
      /\ bucket[c].last # 0 /\ bucket[c].rate = r /\ bucket[c].burst = m =>
           n <= bucket[c].credit + (pkt[c].at - bucket[c].last)
  BY <1>2, Zenon DEF Pays
<1>7. PICK passed \in {0, 1} :
        /\ passed = 0 => pkt'[c].pc = "judge" /\ bucket'[c].credit = n
        /\ passed = 1 => pkt'[c].pc = "pass" /\ n >= Cost(r) /\ bucket'[c].credit = n - Cost(r)
  <2>1. c \in DOMAIN bucket
    BY DEF TypeOK
  <2>2. CASE /\ Goto(c, "judge")
             /\ bucket' = [bucket EXCEPT ![c] =
                  [last |-> pkt[c].at, rate |-> r, burst |-> m, credit |-> n]]
    <3>1. pkt'[c].pc = "judge"
      BY <1>1, <2>2, GotoType, Zenon
    <3>2. bucket'[c].credit = n
      BY <2>1, <2>2, Zenon
    <3> QED
      BY <3>1, <3>2
  <2>3. CASE /\ Finish(c, "pass") /\ n >= Cost(r)
             /\ bucket' = [bucket EXCEPT ![c] =
                  [last |-> pkt[c].at, rate |-> r, burst |-> m, credit |-> n - Cost(r)]]
    <3>1. pkt'[c].pc = "pass"
      BY <1>1, <2>3, FinishType, Zenon
    <3>2. bucket'[c].credit = n - Cost(r)
      BY <2>1, <2>3, Zenon
    <3> QED
      BY <2>3, <3>1, <3>2
  <2> QED
    BY <1>2, <2>2, <2>3, Zenon DEF Pays
<1>8. Charged(c)
  BY <1>1, <1>7 DEF Charged
<1>9. ~Rebudgeted(c) => bucket[c].last # 0 /\ bucket[c].rate = r /\ bucket[c].burst = m
  BY <1>3 DEF Rebudgeted
<1>10. passed = IF pkt'[c].pc = "pass" THEN 1 ELSE 0
  BY <1>7
<1>11. /\ since'[c] = (IF Rebudgeted(c) THEN pkt[c].at ELSE since[c])
       /\ granted'[c] = (IF r = 0 THEN 0 ELSE (IF Rebudgeted(c) THEN 0 ELSE granted[c]) + passed)
  BY <1>3, <1>8, <1>10, Zenon DEF Record
<1>12. \/ r = 0 /\ granted'[c] = 0 /\ since'[c] \in {since[c], pkt[c].at}
       \/ granted'[c] = passed /\ since'[c] = pkt[c].at
       \/ ~Rebudgeted(c) /\ granted'[c] = granted[c] + passed /\ since'[c] = since[c]
  BY <1>11
<1>13. passed \in {0, 1}
  OBVIOUS
<1> QED
  BY <1>3, <1>4, <1>5, <1>6, <1>7, <1>9, <1>12, <1>13, Zenon

\* A charge keeps its bucket covered, whatever rate and burst it reads.
LEMMA ChargeFine ==
  ASSUME TypeOK, Ordered, NEW c \in Cpus, Fine(c), Charge(c), Record
  PROVE  Fine(c)'
<1>1. granted[c] \in Nat
  BY DEF Fine
<1> DEFINE b == bucket[c]
           t == pkt[c].at
<1>2. PICK r \in Nat, m \in Nat, n \in Nat, passed \in {0, 1} :
        /\ bucket'[c].last = t /\ bucket'[c].rate = r /\ bucket'[c].burst = m
        /\ t \in Nat /\ b.last <= t /\ n <= Cost(r) * m /\ bucket'[c].credit \in Nat
        /\ b.last # 0 /\ b.rate = r /\ b.burst = m => n <= b.credit + (t - b.last)
        /\ passed = 0 => bucket'[c].credit = n
        /\ passed = 1 => n >= Cost(r) /\ bucket'[c].credit = n - Cost(r)
        /\ \/ r = 0 /\ granted'[c] = 0 /\ since'[c] \in {since[c], t}
           \/ granted'[c] = passed /\ since'[c] = t
           \/ /\ b.last # 0 /\ b.rate = r /\ b.burst = m
              /\ granted'[c] = granted[c] + passed /\ since'[c] = since[c]
  BY <1>1, ChargeNumbers, Zenon
<1>3. b.last \in Nat /\ b.credit \in Nat /\ b.rate \in Nat /\ b.burst \in Nat
  <2>1. now \in Nat /\ Second \in Nat /\ MaxBurst \in Nat
    BY FilterConstants DEF TypeOK
  <2>2. /\ b.last \in 0..now /\ b.credit \in Nat
        /\ b.rate \in 0..Second /\ b.burst \in 0..MaxBurst
    BY BucketParts
  <2> HIDE DEF b
  <2> QED
    BY <2>1, <2>2
<1>4. /\ since[c] \in Nat /\ since[c] <= b.last
      /\ Covered(b.rate, b.burst, b.last, b.credit, granted[c], since[c])
  BY Zenon DEF Fine
<1> HIDE DEF b, t
<1>5. /\ granted'[c] \in Nat /\ since'[c] \in Nat /\ since'[c] <= t
      /\ Covered(r, m, t, bucket'[c].credit, granted'[c], since'[c])
  <2> DEFINE last == b.last
             credit == b.credit
             rate == b.rate
             burst == b.burst
             number == granted[c]
             from == since[c]
             rest == bucket'[c].credit
             counted == granted'[c]
             start == since'[c]
  <2>1. /\ rest \in Nat /\ t \in Nat /\ last <= t /\ n <= Cost(r) * m
        /\ last # 0 /\ rate = r /\ burst = m => n <= credit + (t - last)
        /\ passed = 0 => rest = n
        /\ passed = 1 => n >= Cost(r) /\ rest = n - Cost(r)
    BY <1>2, Zenon
  <2>2. \/ r = 0 /\ counted = 0 /\ start \in {from, t}
        \/ counted = passed /\ start = t
        \/ last # 0 /\ rate = r /\ burst = m /\ counted = number + passed /\ start = from
    BY <1>2, Zenon
  <2>3. /\ last \in Nat /\ credit \in Nat /\ rate \in Nat /\ burst \in Nat
        /\ number \in Nat /\ from \in Nat /\ from <= last
        /\ Covered(rate, burst, last, credit, number, from)
    BY <1>1, <1>3, <1>4, Zenon
  <2> HIDE DEF last, credit, rate, burst, number, from, rest, counted, start
  <2>4. /\ counted \in Nat /\ start \in Nat /\ start <= t
        /\ Covered(r, m, t, rest, counted, start)
    <3>1. /\ Covered(r, m, t, n, 0, t)
          /\ n >= Cost(r) => Covered(r, m, t, n - Cost(r), 1, t)
          /\ Covered(r, m, last, credit, number, from) /\ n <= credit + (t - last) =>
               /\ Covered(r, m, t, n, number, from)
               /\ n >= Cost(r) => Covered(r, m, t, n - Cost(r), number + 1, from)
      BY <2>1, <2>3, ChargeCovered, Zenon
    <3>2. CASE r = 0 /\ counted = 0 /\ start \in {from, t}
      BY <2>1, <2>3, <3>2 DEF Covered
    <3>3. CASE counted = passed /\ start = t
      <4>1. Covered(r, m, t, rest, counted, start)
        BY <2>1, <3>1, <3>3, Zenon
      <4> QED
        BY <2>1, <3>3, <4>1
    <3>4. CASE last # 0 /\ rate = r /\ burst = m /\ counted = number + passed /\ start = from
      <4>1. /\ Covered(r, m, t, n, number, from)
            /\ n >= Cost(r) => Covered(r, m, t, n - Cost(r), number + 1, from)
        BY <2>1, <2>3, <3>1, <3>4, Zenon
      <4>2. CASE passed = 0
        <5>1. counted = number
          BY <2>3, <3>4, <4>2
        <5>2. Covered(r, m, t, rest, counted, start)
          BY <2>1, <3>4, <4>1, <4>2, <5>1, Zenon
        <5> QED
          BY <2>1, <2>3, <3>4, <5>1, <5>2
      <4>3. CASE passed = 1
        <5>1. Covered(r, m, t, rest, counted, start)
          BY <2>1, <3>4, <4>1, <4>3, Zenon
        <5> QED
          BY <2>1, <2>3, <3>4, <4>3, <5>1
      <4> QED
        BY <4>2, <4>3
    <3> QED
      BY <2>2, <3>2, <3>3, <3>4, Zenon
  <2> QED
    BY <2>4, Zenon DEF rest, counted, start
<1> QED
  BY <1>2, <1>5, Zenon DEF Fine, Covered, Cost

\* Every step keeps all the buckets covered.
LEMMA BudgetStep ==
  ASSUME TypeOK, Ordered, BudgetInv, Next, Record
  PROVE  BudgetInv'
<1>1. ASSUME NEW c \in Cpus
      PROVE  Fine(c)'
  <2>1. Fine(c)
    BY Zenon DEF BudgetInv, Fine
  <2>2. CASE Charge(c)
    BY <2>1, <2>2, ChargeFine, Zenon
  <2>3. CASE ~Charge(c)
    <3>1. bucket'[c] = bucket[c]
      BY <2>3, StepOnCpu, ListsParts, BudgetedParts, JudgeParts
    <3>2. ~Charged(c)
      <4>1. Done(c) \/ Lists(c) \/ Budgeted(c) \/ Judge(c) => pkt[c].pc # "charge"
        BY ListsParts, BudgetedParts, JudgeParts DEF Done
      <4>2. pkt'[c] = pkt[c] => ~Charged(c)
        BY Zenon DEF Charged
      <4>3. pkt[c].pc # "charge" => ~Charged(c)
        BY Zenon DEF Charged
      <4> QED
        BY <2>3, <4>1, <4>2, <4>3, StepOnCpu, Zenon
    <3>3. granted'[c] = granted[c] /\ since'[c] = since[c]
      BY <3>2 DEF Record
    <3> QED
      BY <2>1, <3>1, <3>3, Zenon DEF Fine, Covered, Cost
  <2> QED
    BY <2>2, <2>3
<1>2. granted' = [c \in Cpus |-> granted'[c]] /\ since' = [c \in Cpus |-> since'[c]]
  BY DEF Record
<1>3. \A c \in Cpus : granted'[c] \in Nat /\ since'[c] \in Nat
  BY <1>1 DEF Fine
<1>4. granted' \in [Cpus -> Nat] /\ since' \in [Cpus -> Nat]
  BY <1>2, <1>3
<1> QED
  BY <1>1, <1>4, Zenon DEF BudgetInv, Fine

-----------------------------------------------------------------------------
(* The theorems *)

\* The invariant of the filter and its history.
FilterInv == TypeOK /\ Ordered /\ PacketInv /\ FrozenInv /\ BudgetInv

\* It holds before the first packet.
LEMMA FilterStarts ==
  ASSUME HistoryInit
  PROVE  FilterInv
<1>1. \A c \in Cpus : Done(c)
  BY DEF HistoryInit, Init, Done
<1>2. NoConfig \in Config
  <2>1. 0 \in Nat /\ 0 \in {0, 2} /\ 0 \in 0..3 /\ FALSE \in BOOLEAN
    OBVIOUS
  <2> QED
    BY <2>1, Zenon DEF NoConfig, Config
<1>3. pkt \in [Cpus -> Verdict \cup Judging]
  BY DEF HistoryInit, Init, Verdict
<1>4. bucket \in [Cpus -> [last : 0..now, credit : Nat, rate : 0..Second, burst : 0..MaxBurst]]
  <2>1. now = 1 /\ Second \in Nat /\ MaxBurst \in Nat
    BY FilterConstants DEF HistoryInit, Init
  <2>2. 0 \in 0..now /\ 0 \in 0..Second /\ 0 \in 0..MaxBurst /\ 0 \in Nat
    BY <2>1
  <2> QED
    BY <2>2 DEF HistoryInit, Init
<1>5. TypeOK
  BY <1>2, <1>3, <1>4, FilterConstants DEF HistoryInit, Init, TypeOK
<1>6. Ordered /\ PacketInv
  BY <1>1 DEF Ordered, PacketInv
<1>7. FrozenInv
  BY DEF HistoryInit, FrozenInv
<1>8. BudgetInv
  <2>1. \A c \in Cpus : /\ bucket[c].rate = 0 /\ bucket[c].last = 0
                        /\ granted[c] = 0 /\ since[c] = 0
    BY DEF HistoryInit, Init
  <2>2. granted \in [Cpus -> Nat] /\ since \in [Cpus -> Nat]
    BY DEF HistoryInit
  <2> QED
    BY <2>1, <2>2 DEF BudgetInv, Covered
<1> QED
  BY <1>5, <1>6, <1>7, <1>8 DEF FilterInv

\* Every step keeps it.
LEMMA FilterStep ==
  ASSUME FilterInv, [HistoryNext]_hvars
  PROVE  FilterInv'
<1>1. CASE HistoryNext
  <2>1. Next /\ Record /\ TypeOK /\ Ordered /\ PacketInv /\ FrozenInv /\ BudgetInv
    BY <1>1 DEF HistoryNext, FilterInv
  <2>2. TypeOK' /\ Ordered'
    BY <2>1, FilterTypeStep
  <2>3. PacketInv'
    BY <2>1, PacketStep
  <2>4. FrozenInv'
    BY <2>1, FrozenStep
  <2>5. BudgetInv'
    BY <2>1, BudgetStep, SMTT(20)
  <2> QED
    BY <2>2, <2>3, <2>4, <2>5 DEF FilterInv
<1>2. CASE UNCHANGED hvars
  BY <1>2, Zenon DEF hvars, vars, history, FilterInv, TypeOK, Judging, Ordered, PacketInv, Shown, FrozenInv,
    BudgetInv, Covered, Done, InPlace, FreezesAll
<1> QED
  BY <1>1, <1>2

\* It holds in every behaviour.
LEMMA FilterInductive ==
  HistorySpec => []FilterInv
BY FilterStarts, FilterStep, PTL DEF HistorySpec

\* The types of the filter's state: a packet is judged with the time it
\* arrived, a bucket never holds negative credit and never runs ahead of the
\* clock.
THEOREM FilterTypes ==
  HistorySpec => []TypeOK
<1>1. FilterInv => TypeOK
  BY DEF FilterInv
<1> QED
  BY <1>1, FilterInductive, PTL

\* No packet under judgement would be parsed differently with more or less
\* padding behind it.
THEOREM PaddingNeverMatters ==
  HistorySpec => []PaddingIgnored
<1>1. ASSUME FilterInv
      PROVE  PaddingIgnored
  <2> SUFFICES ASSUME NEW c \in Cpus, ~Done(c), ParseIp(pkt[c].frame) = "parsed",
                      NEW n \in IpEnd(pkt[c].frame)..(pkt[c].frame.size + 4)
               PROVE  LET g == [pkt[c].frame EXCEPT !.size = n] IN
                      ParseIp(g) = "parsed" /\ ParseTransport(g) = ParseTransport(pkt[c].frame)
    BY DEF PaddingIgnored
  <2> DEFINE f == pkt[c].frame
  <2>1. f \in Frame
    BY <1>1, PacketParts, Zenon DEF FilterInv
  <2> HIDE DEF f
  <2>2. IpEnd(f) \in Nat /\ f.size \in Nat
    BY <2>1, SameLayout, FrameParts, Zenon
  <2>3. n \in Nat /\ n >= IpEnd(f)
    BY <2>2 DEF f
  <2>4. ParseIp(f) = "parsed"
    BY DEF f
  <2> QED
    BY <2>1, <2>3, <2>4, ParsersIgnorePadding DEF f
<1> QED
  BY <1>1, FilterInductive, PTL

\* A packet is dropped only for an owned destination read from a captured
\* header; a protected one that is no plain SYN only for a blocked source.
THEOREM EveryDropIsJustified ==
  HistorySpec => DropsJustified
<1>1. ASSUME FilterInv, [HistoryNext]_hvars
      PROVE  [\A c \in Cpus :
               LET f == pkt[c].frame IN
               Dropped(c) => /\ KnowsDst(f) /\ f.dst \in Owned
                             /\ Protected(f) /\ f.flags # {"syn"} => f.src \in Block]_vars
  <2>1. ASSUME NEW c \in Cpus, Dropped(c)
        PROVE  Shown(pkt[c].frame, "judge")
    BY <1>1, <2>1 DEF FilterInv, PacketInv, Dropped, Done
  <2> QED
    BY <2>1, SMTT(20) DEF Shown
<1> QED
  BY <1>1, FilterInductive, PTL DEF HistorySpec, DropsJustified

\* While every configuration in place is in EMERGENCY and enforces, no SYN to a
\* protected service passes, also while the map is being overwritten.
THEOREM EmergencyStopsSyns ==
  HistorySpec => FrozenSynDropped
<1>1. ASSUME FilterInv, [HistoryNext]_hvars
      PROVE  [\A c \in frozen : IsSyn(pkt[c].frame) => pkt'[c].pc # "pass"]_hvars
  <2>1. ASSUME HistoryNext, NEW c \in frozen, IsSyn(pkt[c].frame)
        PROVE  pkt'[c].pc # "pass"
    <3>1. pkt'[c] = pkt[c] \/ pkt'[c].pc = "judge" \/ pkt'[c].pc = "drop"
      BY <1>1, <2>1, FrozenVerdict DEF FilterInv, HistoryNext
    <3>2. pkt[c].pc # "pass"
      BY <1>1, <2>1 DEF FilterInv, FrozenInv, Done
    <3> QED
      BY <3>1, <3>2
  <2> QED
    BY <1>1, <2>1, SMTT(20)
<1> QED
  BY <1>1, FilterInductive, PTL DEF HistorySpec, FrozenSynDropped

\* Each CPU lets through at most the burst and the rate times the time since
\* its budget last changed, for every rate, burst and clock.
THEOREM SynsWithinBudget ==
  HistorySpec => []SynBudget
<1>1. ASSUME FilterInv
      PROVE  SynBudget
  <2> SUFFICES ASSUME NEW c \in Cpus, bucket[c].rate > 0
               PROVE  (granted[c] - bucket[c].burst) * Second
                        <= (bucket[c].last - since[c]) * bucket[c].rate
    BY DEF SynBudget
  <2> DEFINE rate == bucket[c].rate
             burst == bucket[c].burst
             last == bucket[c].last
             credit == bucket[c].credit
  <2>1. now \in Nat /\ Second \in Nat /\ MaxBurst \in Nat
    BY <1>1, FilterConstants DEF FilterInv, TypeOK
  <2>2. rate \in Nat /\ burst \in Nat /\ last \in Nat /\ credit \in Nat
    BY <1>1, <2>1, BucketParts DEF FilterInv
  <2>3. /\ granted[c] \in Nat /\ since[c] \in Nat /\ since[c] <= last
        /\ Covered(rate, burst, last, credit, granted[c], since[c])
    BY <1>1 DEF FilterInv, BudgetInv
  <2>4. rate > 0
    OBVIOUS
  <2> HIDE DEF rate, burst, last, credit
  <2>5. (granted[c] - burst) * Second <= (last - since[c]) * rate
    BY <2>2, <2>3, <2>4, CreditBoundsGrants, SMTT(20)
  <2> QED
    BY <2>5 DEF rate, burst, last
<1> QED
  BY <1>1, FilterInductive, PTL
=============================================================================
