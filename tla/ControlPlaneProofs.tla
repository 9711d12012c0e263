------------------------- MODULE ControlPlaneProofs -------------------------
(***************************************************************************)
(* What the controller keeps in step for every set of prefixes, every      *)
(* lease and every point at which it is killed: the maps under a running   *)
(* lease, the two enforcement points, the generations, and how long what   *)
(* it told them lasts.                                                     *)
(***************************************************************************)
EXTENDS ControlPlane, TLAPS

MapName == {"allow", "block"}

\* From entry i on, every pending update of prefix p in map m writes v.
WritesOnly(ops, i, m, p, v) ==
  \A j \in i..Len(ops) : \A op \in ops[j] : op.map = m /\ op.prefix = p => op.value = v

Touches(S, m, p) == \E op \in S : op.map = m /\ op.prefix = p

\* Entry p of map m ends up as configuration c wants it, once the updates
\* still to do are done: it is right and stays so, or the last set of updates
\* that touches it writes the right value.
Settles(ops, held, c, m, p) ==
  \/ held[m][p] = LoaderPolicy(c)[m][p] /\ WritesOnly(ops, 1, m, p, LoaderPolicy(c)[m][p])
  \/ \E i \in 1..Len(ops) : /\ WritesOnly(ops, i, m, p, LoaderPolicy(c)[m][p])
                            /\ Touches(ops[i], m, p)

Settling(ops, held, c) == \A m \in MapName, p \in Prefix : Settles(ops, held, c, m, p)

\* The constants, as the proofs use them.
LEMMA PlaneConstants ==
  /\ Bogon \subseteq Prefix
  /\ Mode \subseteq 0..3 /\ 0 \in Mode
  /\ Lease \in Nat /\ 0 < Lease /\ Receipt \in Nat /\ Ahead \in Nat /\ MaxGeneration \in Nat
  /\ MaxJumps \in Nat /\ Floor \in Int /\ Floor <= 0 /\ Ceiling \in Int /\ 0 <= Ceiling
  /\ Lease <= Ceiling /\ Jumps \subseteq Int
<1>1. /\ Bogon \subseteq Prefix
      /\ Mode \subseteq 0..3 /\ 0 \in Mode
      /\ Lease \in Nat /\ 0 < Lease /\ Receipt \in Nat /\ Ahead \in Nat /\ MaxGeneration \in Nat
      /\ MaxJumps \in Nat /\ MaxJump \in Nat /\ Jumps \subseteq -MaxJump..MaxJump
  BY PlaneAssumption
<1>2. \A a, b \in Nat : a * b \in Nat
  OBVIOUS
<1>3. MaxJumps * MaxJump \in Nat
  BY <1>1, <1>2
<1>4. Floor \in Int /\ Floor <= 0
  BY <1>3 DEF Floor
<1>5. Jumps \subseteq Int
  BY <1>1
<1> QED
  BY <1>1, <1>4, <1>5 DEF Ceiling

\* loader_policy() gives every entry of the two maps one reason of shared.h.
LEMMA LoaderPolicyType == \A c : LoaderPolicy(c) \in Maps
BY DEF LoaderPolicy, Maps, Reason

\* Two maps are equal when they hold the same reason for every prefix.
LEMMA SameMaps ==
  ASSUME NEW f \in Maps, NEW g \in Maps,
         \A m \in MapName, p \in Prefix : f[m][p] = g[m][p]
  PROVE  f = g
<1>1. ASSUME NEW m \in MapName PROVE f[m] = g[m]
  BY <1>1 DEF Maps, MapName
<1> QED
  BY <1>1 DEF Maps, MapName

Ops == [map : MapName, prefix : Prefix, value : Reason]

\* The loader's policy command is a plan that ends with the maps of c.
LEMMA ReconcilePlan ==
  ASSUME NEW c, maps \in Maps
  PROVE  /\ ReconcileOps(c) \in Seq(SUBSET Ops)
         /\ Settling(ReconcileOps(c), maps, c)
<1> DEFINE clear(m) == {Op(m, p, 0) : p \in {q \in Prefix : maps[m][q] # 0}}
           fill(m) == {Op(m, p, LoaderPolicy(c)[m][p]) :
                        p \in {q \in Prefix : LoaderPolicy(c)[m][q] # 0}}
<1>1. ReconcileOps(c) = <<clear("allow"), fill("allow"), clear("block"), fill("block")>>
  BY DEF ReconcileOps
<1>2. ASSUME NEW m \in MapName
      PROVE  clear(m) \in SUBSET Ops /\ fill(m) \in SUBSET Ops
  BY LoaderPolicyType DEF Op, Ops, Maps, MapName, Reason
<1>3. ASSUME NEW m \in MapName, NEW p \in Prefix
      PROVE  /\ \A op \in clear(m) : op.map = m /\ op.value = 0
             /\ \A op \in fill(m) : op.map = m /\ op.value = LoaderPolicy(c)[m][op.prefix]
             /\ \A op \in fill(m) : LoaderPolicy(c)[m][op.prefix] # 0
             /\ maps[m][p] # 0 => Touches(clear(m), m, p)
             /\ LoaderPolicy(c)[m][p] # 0 => Touches(fill(m), m, p)
             /\ maps[m][p] = 0 => ~Touches(clear(m), m, p)
  <2>1. \A q, v : Op(m, q, v).map = m /\ Op(m, q, v).prefix = q /\ Op(m, q, v).value = v
    BY DEF Op
  <2>2. /\ \A op \in clear(m) : op.map = m /\ op.value = 0 /\ maps[m][op.prefix] # 0
        /\ maps[m][p] # 0 => Op(m, p, 0) \in clear(m)
    BY <2>1
  <2>3. /\ \A op \in fill(m) : /\ op.map = m /\ op.value = LoaderPolicy(c)[m][op.prefix]
                               /\ LoaderPolicy(c)[m][op.prefix] # 0
        /\ LoaderPolicy(c)[m][p] # 0 => Op(m, p, LoaderPolicy(c)[m][p]) \in fill(m)
    BY <2>1
  <2> HIDE DEF clear, fill
  <2> QED
    BY <2>1, <2>2, <2>3 DEF Touches
<1> HIDE DEF clear, fill
<1>4. ReconcileOps(c) \in Seq(SUBSET Ops) /\ Len(ReconcileOps(c)) = 4
  BY <1>1, <1>2 DEF MapName
<1>5. ASSUME NEW p \in Prefix PROVE Settles(ReconcileOps(c), maps, c, "allow", p)
  <2> DEFINE v == LoaderPolicy(c)["allow"][p]
  <2>0. "allow" \in MapName /\ "block" \in MapName /\ "allow" # "block"
    BY DEF MapName
  <2>1. CASE v # 0
    <3>1. WritesOnly(ReconcileOps(c), 2, "allow", p, v)
      BY <1>1, <1>3, <1>4, <2>0 DEF WritesOnly
    <3> QED
      BY <3>1, <2>0, <2>1, <1>1, <1>3, <1>4 DEF Settles
  <2>2. CASE v = 0
    <3>1. WritesOnly(ReconcileOps(c), 1, "allow", p, v)
      BY <1>1, <1>3, <1>4, <2>0, <2>2 DEF WritesOnly
    <3> QED
      BY <3>1, <2>0, <2>2, <1>1, <1>3, <1>4 DEF Settles
  <2> QED
    BY <2>1, <2>2
<1>6. ASSUME NEW p \in Prefix PROVE Settles(ReconcileOps(c), maps, c, "block", p)
  <2> DEFINE v == LoaderPolicy(c)["block"][p]
  <2>0. "allow" \in MapName /\ "block" \in MapName /\ "allow" # "block"
    BY DEF MapName
  <2>1. CASE v # 0
    <3>1. WritesOnly(ReconcileOps(c), 4, "block", p, v)
      BY <1>1, <1>3, <1>4, <2>0 DEF WritesOnly
    <3> QED
      BY <3>1, <2>0, <2>1, <1>1, <1>3, <1>4 DEF Settles
  <2>2. CASE v = 0
    <3>1. WritesOnly(ReconcileOps(c), 1, "block", p, v)
      BY <1>1, <1>3, <1>4, <2>0, <2>2 DEF WritesOnly
    <3>2. CASE maps["block"][p] = 0
      BY <3>1, <3>2, <2>2 DEF Settles
    <3>3. CASE maps["block"][p] # 0
      <4>1. Touches(ReconcileOps(c)[3], "block", p)
        BY <3>3, <2>0, <1>1, <1>3
      <4>2. WritesOnly(ReconcileOps(c), 3, "block", p, v)
        BY <3>1, <1>4 DEF WritesOnly
      <4> QED
        BY <4>1, <4>2, <1>4 DEF Settles
    <3> QED
      BY <3>2, <3>3
  <2> QED
    BY <2>1, <2>2
<1> QED
  BY <1>4, <1>5, <1>6 DEF Settling, MapName

\* The updates of one command are a plan that turns the maps of the old
\* configuration into those of the new one.
LEMMA CommandPlan ==
  ASSUME NEW old, NEW new, old.allow \subseteq Prefix, old.block \subseteq Prefix,
         new.allow \subseteq Prefix, new.block \subseteq Prefix,
         maps = LoaderPolicy(old)
  PROVE  /\ CommandOps(old, new) \in Seq(SUBSET Ops)
         /\ Settling(CommandOps(old, new), maps, new)
<1> DEFINE S(m, D, v) == {Op(m, p, v) : p \in D}
           ops == CommandOps(old, new)
<1>1. ops = <<S("allow", old.allow \ new.allow, 0),
              S("allow", new.allow \ old.allow, PREFIX_MARKER),
              S("block", old.block \ new.block, 0),
              S("block", (old.block \ new.block) \cap Bogon, BOGON_REASON),
              S("block", new.block \ old.block, MANUAL_BLOCK_REASON)>>
  BY DEF CommandOps
<1>2. ASSUME NEW m \in MapName, NEW D \in SUBSET Prefix, NEW v \in Reason
      PROVE  S(m, D, v) \in SUBSET Ops
  BY DEF Op, Ops
<1>3. ASSUME NEW m, NEW D, NEW v
      PROVE  /\ \A op \in S(m, D, v) : op.map = m /\ op.prefix \in D /\ op.value = v
             /\ \A p \in D : Touches(S(m, D, v), m, p)
  <2>1. \A q : Op(m, q, v).map = m /\ Op(m, q, v).prefix = q /\ Op(m, q, v).value = v
    BY DEF Op
  <2>2. /\ \A op \in S(m, D, v) : op.map = m /\ op.prefix \in D /\ op.value = v
        /\ \A p \in D : Op(m, p, v) \in S(m, D, v)
    BY <2>1
  <2> QED
    BY <2>1, <2>2 DEF Touches
<1> HIDE DEF S
<1>4. ops \in Seq(SUBSET Ops) /\ Len(ops) = 5
  <2>1. /\ S("allow", old.allow \ new.allow, 0) \in SUBSET Ops
        /\ S("allow", new.allow \ old.allow, PREFIX_MARKER) \in SUBSET Ops
        /\ S("block", old.block \ new.block, 0) \in SUBSET Ops
        /\ S("block", (old.block \ new.block) \cap Bogon, BOGON_REASON) \in SUBSET Ops
        /\ S("block", new.block \ old.block, MANUAL_BLOCK_REASON) \in SUBSET Ops
    BY <1>2 DEF MapName, Reason
  <2>2. \A a, b, c, d, e \in SUBSET Ops :
          <<a, b, c, d, e>> \in Seq(SUBSET Ops) /\ Len(<<a, b, c, d, e>>) = 5
    OBVIOUS
  <2> HIDE DEF ops
  <2> QED
    BY <1>1, <2>1, <2>2, Zenon
<1> HIDE DEF ops
<1>5. ASSUME NEW p \in Prefix PROVE Settles(ops, maps, new, "allow", p)
  <2> DEFINE v == LoaderPolicy(new)["allow"][p]
  <2>1. /\ v = IF p \in new.allow THEN PREFIX_MARKER ELSE 0
        /\ maps["allow"][p] = IF p \in old.allow THEN PREFIX_MARKER ELSE 0
    BY DEF LoaderPolicy
  <2> HIDE DEF v
  <2>2. WritesOnly(ops, 1, "allow", p, v)
    BY <1>1, <1>3, <1>4, <2>1 DEF WritesOnly
  <2>3. CASE p \in old.allow /\ p \notin new.allow
    <3>1. Touches(ops[1], "allow", p)
      BY <1>1, <1>3, <2>3
    <3> QED
      BY <3>1, <2>2, <1>4 DEF Settles, v
  <2>4. CASE p \in new.allow /\ p \notin old.allow
    <3>1. Touches(ops[2], "allow", p) /\ WritesOnly(ops, 2, "allow", p, v)
      BY <1>1, <1>3, <2>2, <2>4, <1>4 DEF WritesOnly
    <3> QED
      BY <3>1, <1>4 DEF Settles, v
  <2>5. CASE p \in new.allow <=> p \in old.allow
    BY <2>1, <2>2, <2>5 DEF Settles, v
  <2> QED
    BY <2>3, <2>4, <2>5
<1>6. ASSUME NEW p \in Prefix PROVE Settles(ops, maps, new, "block", p)
  <2> DEFINE v == LoaderPolicy(new)["block"][p]
  <2>1. /\ v = IF p \in new.block THEN MANUAL_BLOCK_REASON
              ELSE IF p \in Bogon THEN BOGON_REASON ELSE 0
        /\ maps["block"][p] = IF p \in old.block THEN MANUAL_BLOCK_REASON
                             ELSE IF p \in Bogon THEN BOGON_REASON ELSE 0
    BY DEF LoaderPolicy
  <2> HIDE DEF v
  <2>2. WritesOnly(ops, 4, "block", p, v)
    BY <1>1, <1>3, <1>4, <2>1 DEF WritesOnly
  <2>3. CASE p \in old.block /\ p \notin new.block /\ p \in Bogon
    <3>1. Touches(ops[4], "block", p)
      BY <1>1, <1>3, <2>3
    <3> QED
      BY <3>1, <2>2, <1>4 DEF Settles, v
  <2>4. CASE p \in old.block /\ p \notin new.block /\ p \notin Bogon
    <3>1. Touches(ops[3], "block", p)
      BY <1>1, <1>3, <2>4
    <3>2. WritesOnly(ops, 3, "block", p, v)
      BY <1>1, <1>3, <1>4, <2>1, <2>4 DEF WritesOnly
    <3> QED
      BY <3>1, <3>2, <1>4 DEF Settles, v
  <2>5. CASE p \in new.block /\ p \notin old.block
    <3>1. Touches(ops[5], "block", p) /\ WritesOnly(ops, 5, "block", p, v)
      BY <1>1, <1>3, <2>2, <2>5, <1>4 DEF WritesOnly
    <3> QED
      BY <3>1, <1>4 DEF Settles, v
  <2>6. CASE p \in new.block <=> p \in old.block
    <3>1. WritesOnly(ops, 1, "block", p, v)
      BY <1>1, <1>3, <1>4, <2>1, <2>6 DEF WritesOnly
    <3> QED
      BY <3>1, <2>1, <2>6 DEF Settles, v
  <2> QED
    BY <2>3, <2>4, <2>5, <2>6
<1> QED
  BY <1>4, <1>5, <1>6 DEF Settling, MapName, ops

\* One update of the head of a plan leaves a plan with the same end.
LEMMA UpdateSettles ==
  ASSUME NEW c, NEW ops \in Seq(SUBSET Ops), ops # << >>, NEW held \in Maps,
         Settling(ops, held, c), NEW op \in Head(ops)
  PROVE  /\ [ops EXCEPT ![1] = @ \ {op}] \in Seq(SUBSET Ops)
         /\ [held EXCEPT ![op.map][op.prefix] = op.value] \in Maps
         /\ Settling([ops EXCEPT ![1] = @ \ {op}],
                     [held EXCEPT ![op.map][op.prefix] = op.value], c)
<1> DEFINE after == [ops EXCEPT ![1] = @ \ {op}]
           set == [held EXCEPT ![op.map][op.prefix] = op.value]
<1>1. /\ Len(ops) \in Nat /\ Len(ops) >= 1 /\ Head(ops) = ops[1]
      /\ op \in Ops /\ op.map \in MapName /\ op.prefix \in Prefix /\ op.value \in Reason
  BY DEF Ops
<1>2. /\ after \in Seq(SUBSET Ops) /\ Len(after) = Len(ops) /\ after[1] = ops[1] \ {op}
      /\ \A i \in 2..Len(ops) : after[i] = ops[i]
  BY <1>1
<1>3. /\ set \in Maps
      /\ set[op.map][op.prefix] = op.value
      /\ \A m \in MapName, p \in Prefix : m # op.map \/ p # op.prefix => set[m][p] = held[m][p]
  BY <1>1 DEF Maps, MapName
<1> HIDE DEF after, set
<1>4. ASSUME NEW m \in MapName, NEW p \in Prefix PROVE Settles(after, set, c, m, p)
  <2> DEFINE v == LoaderPolicy(c)[m][p]
  <2>1. Settles(ops, held, c, m, p)
    BY DEF Settling
  <2>2. ASSUME NEW i \in 1..Len(ops), WritesOnly(ops, i, m, p, v) PROVE WritesOnly(after, i, m, p, v)
    BY <2>2, <1>1, <1>2 DEF WritesOnly
  <2>3. CASE held[m][p] = v /\ WritesOnly(ops, 1, m, p, v)
    <3>1. set[m][p] = v
      BY <2>3, <1>1, <1>3 DEF WritesOnly
    <3> QED
      BY <3>1, <2>2, <2>3, <1>1 DEF Settles
  <2>4. ASSUME NEW i \in 1..Len(ops), WritesOnly(ops, i, m, p, v), Touches(ops[i], m, p)
        PROVE  Settles(after, set, c, m, p)
    <3>1. CASE i # 1
      <4>1. Touches(after[i], m, p)
        BY <3>1, <2>4, <1>1, <1>2
      <4> QED
        BY <4>1, <2>2, <2>4, <1>2 DEF Settles
    <3>2. CASE i = 1 /\ op.map = m /\ op.prefix = p
      <4>1. set[m][p] = v
        BY <3>2, <2>4, <1>1, <1>3 DEF WritesOnly
      <4> QED
        BY <4>1, <3>2, <2>2, <2>4 DEF Settles
    <3>3. CASE i = 1 /\ ~(op.map = m /\ op.prefix = p)
      <4>1. Touches(after[1], m, p)
        BY <3>3, <2>4, <1>2 DEF Touches
      <4> QED
        BY <4>1, <3>3, <2>2, <2>4, <1>2, Zenon DEF Settles
    <3> QED
      BY <3>1, <3>2, <3>3
  <2> QED
    BY <2>1, <2>3, <2>4 DEF Settles
<1> QED
  BY <1>2, <1>3, <1>4, Zenon DEF Settling, after, set

\* A plan whose head is done goes on with its tail, and ends with the maps of
\* its configuration.
LEMMA TailSettles ==
  ASSUME NEW c, NEW ops \in Seq(SUBSET Ops), ops # << >>, NEW held \in Maps,
         Settling(ops, held, c), Head(ops) = {}
  PROVE  /\ Tail(ops) \in Seq(SUBSET Ops)
         /\ Settling(Tail(ops), held, c)
         /\ ~(Len(ops) > 1) => held = LoaderPolicy(c)
<1>1. /\ Len(ops) \in Nat /\ Len(ops) >= 1 /\ ops[1] = {}
      /\ Tail(ops) \in Seq(SUBSET Ops) /\ Len(Tail(ops)) = Len(ops) - 1
      /\ \A i \in 1..(Len(ops) - 1) : Tail(ops)[i] = ops[i + 1]
  OBVIOUS
<1>2. ASSUME NEW m \in MapName, NEW p \in Prefix
      PROVE  /\ Settles(Tail(ops), held, c, m, p)
             /\ ~(Len(ops) > 1) => held[m][p] = LoaderPolicy(c)[m][p]
  <2> DEFINE v == LoaderPolicy(c)[m][p]
  <2>1. Settles(ops, held, c, m, p)
    BY DEF Settling
  <2>2. CASE held[m][p] = v /\ WritesOnly(ops, 1, m, p, v)
    <3>1. WritesOnly(Tail(ops), 1, m, p, v)
      BY <2>2, <1>1 DEF WritesOnly
    <3> QED
      BY <3>1, <2>2 DEF Settles
  <2>3. ASSUME NEW i \in 1..Len(ops), WritesOnly(ops, i, m, p, v), Touches(ops[i], m, p)
        PROVE  Settles(Tail(ops), held, c, m, p) /\ Len(ops) > 1
    <3>1. i # 1 /\ i - 1 \in 1..Len(Tail(ops)) /\ Len(ops) > 1
      BY <2>3, <1>1 DEF Touches
    <3>2. WritesOnly(Tail(ops), i - 1, m, p, v) /\ Touches(Tail(ops)[i - 1], m, p)
      BY <3>1, <2>3, <1>1 DEF WritesOnly
    <3> QED
      BY <3>1, <3>2 DEF Settles
  <2> QED
    BY <2>1, <2>2, <2>3 DEF Settles
<1> QED
  BY <1>1, <1>2, SameMaps, LoaderPolicyType DEF Settling

-----------------------------------------------------------------------------
(* Types *)

\* The alternatives of a step, one by one.
LEMMA PlaneSteps ==
  ASSUME Next
  PROVE  \/ Start \/ LoadMaps \/ LoadProgram \/ PrepareExpire \/ PolicyBegin
         \/ UpdateMap \/ NextUpdates
         \/ (\E m \in Mode : Tick(m)) \/ (\E c \in Commanded(cfg) : Command(c))
         \/ CommandExpire \/ Persist \/ Publish \/ (\E d \in 0..Lease : Renew(d))
         \/ Failed \/ PrepareFailed \/ Terminate \/ CleanupPublish \/ CleanupExpire \/ Crash
         \/ GateRead \/ GateRestart \/ Second \/ (\E j \in Jumps : SetClock(j))
BY DEF Next, Prepare, Serve, End

\* Largest() of two numbers.
LEMMA LargerOfTwo ==
  ASSUME NEW a \in Int, NEW b \in Int
  PROVE  /\ Largest({a, b}) \in {a, b}
         /\ Largest({a, b}) >= a /\ Largest({a, b}) >= b
<1>1. \E n \in {a, b} : \A m \in {a, b} : m <= n
  <2>1. CASE a <= b
    BY <2>1
  <2>2. CASE ~(a <= b)
    BY <2>2
  <2> QED
    BY <2>1, <2>2
<1> QED
  BY <1>1 DEF Largest

\* A command asks for a configuration.
LEMMA CommandedType ==
  ASSUME NEW c \in Config
  PROVE  Commanded(c) \subseteq Config
<1>1. \A m \in Mode \cup {AutoMode} : [c EXCEPT !.manual = m] \in Config
  BY Zenon DEF Config
<1>2. \A b \in BOOLEAN : [c EXCEPT !.observe = b] \in Config
  BY Zenon DEF Config
<1>3. \A S \in SUBSET Prefix : [c EXCEPT !.allow = S] \in Config /\ [c EXCEPT !.block = S] \in Config
  BY Zenon DEF Config
<1>4. \A p \in Prefix : /\ c.allow \cup {p} \in SUBSET Prefix /\ c.allow \ {p} \in SUBSET Prefix
                        /\ c.block \cup {p} \in SUBSET Prefix /\ c.block \ {p} \in SUBSET Prefix
  BY DEF Config
<1>5. ASSUME NEW d \in Commanded(c) PROVE d \in Config
  <2>1. \/ \E m \in Mode \cup {AutoMode} : d = [c EXCEPT !.manual = m]
        \/ \E b \in BOOLEAN : d = [c EXCEPT !.observe = b]
        \/ \E p \in Prefix : d = [c EXCEPT !.allow = c.allow \cup {p}]
        \/ \E p \in Prefix : d = [c EXCEPT !.allow = c.allow \ {p}]
        \/ \E p \in Prefix : d = [c EXCEPT !.block = c.block \cup {p}]
        \/ \E p \in Prefix : d = [c EXCEPT !.block = c.block \ {p}]
    BY DEF Commanded
  <2> QED
    BY <2>1, <1>1, <1>2, <1>3, <1>4, Zenon
<1> QED
  BY <1>5

\* A document that time or the clock has moved is a document that says the same.
LEMMA MovedDocument ==
  ASSUME NEW f \in Document, NEW l \in Left
  PROVE  /\ [f EXCEPT !.left = l] \in Document
         /\ [f EXCEPT !.left = l].generation = f.generation
         /\ [f EXCEPT !.left = l].mode = f.mode
         /\ [f EXCEPT !.left = l].observe = f.observe
         /\ [f EXCEPT !.left = l].allow = f.allow
         /\ [f EXCEPT !.left = l].block = f.block
<1>1. [f EXCEPT !.left = l] \in Document
  BY Zenon DEF Document
<1>2. DOMAIN f = {"generation", "left", "mode", "observe", "allow", "block"}
  BY DEF Document
<1> QED
  BY <1>1, <1>2

\* The life left to a document stays within what the model distinguishes.
LEMMA BoundedType == \A n \in Int : Bounded(n) \in Left
BY PlaneConstants DEF Bounded, Left

\* No document is the absent one.
LEMMA DocumentIsSome == \A f \in Document : f # None /\ f.generation \in Nat /\ f.left \in Int
<1>1. None.generation = -1
  BY DEF None
<1>2. \A f \in Document : f.generation \in 1..MaxGeneration /\ f.left \in Left
  BY Zenon DEF Document
<1> QED
  BY <1>1, <1>2, PlaneConstants DEF Left

\* runtime_document() is a document of the generation it was given.
LEMMA RuntimeDocumentType ==
  ASSUME NEW c \in Config, NEW g \in 1..MaxGeneration, NEW l \in Left, NEW m \in Mode
  PROVE  RuntimeDocument(c, g, l, m) \in Document
<1>1. c.observe \in BOOLEAN /\ c.allow \in SUBSET Prefix /\ c.block \cup Bogon \in SUBSET Prefix
  BY PlaneConstants DEF Config
<1> QED
  BY <1>1, Zenon DEF RuntimeDocument, Document

\* What lease() hands to the loader is a configuration of the kernel.
LEMMA ConfiguredType ==
  ASSUME NEW l \in 0..Lease, NEW c \in Config, NEW m \in Mode
  PROVE  Configured(l, c, m) \in [lease : 0..Lease, observe : BOOLEAN, mode : Mode]
<1>1. c.observe \in BOOLEAN
  BY DEF Config
<1> QED
  BY <1>1, Zenon DEF Configured

\* The mode published for a configuration is a mode.
LEMMA ModeOfType ==
  ASSUME NEW c \in Config, NEW m \in Mode
  PROVE  ModeOf(c, m) \in Mode
BY DEF ModeOf, Config

\* The generations that the bounds leave to each phase of the controller.
Room ==
  /\ pc \in {"load", "pin", "expire", "policy", "reconcile", "first", "lapse", "update",
             "persist", "publish"} => generation < MaxGeneration - 1
  /\ pc \in {"loop", "renew", "cleanup"} => generation < MaxGeneration

\* Taking a generation keeps the counters within their bounds.
LEMMA TakeGenerationType ==
  ASSUME TypeOK, generation < MaxGeneration, TakeGeneration
  PROVE  /\ generation' \in 1..MaxGeneration /\ generation' = generation + 1
         /\ clock' \in [latest : 0..MaxGeneration, jumps : 0..MaxJumps, back : BOOLEAN]
         /\ clock'.latest = Largest({clock.latest, generation + 1})
         /\ clock'.back = clock.back
<1>1. /\ generation \in 0..MaxGeneration /\ clock.latest \in 0..MaxGeneration
      /\ MaxGeneration \in Nat
  BY PlaneConstants DEF TypeOK
<1>2. Largest({clock.latest, generation + 1}) \in 0..MaxGeneration
  <2>1. clock.latest \in Int /\ generation + 1 \in Int
    BY <1>1
  <2>2. Largest({clock.latest, generation + 1}) \in {clock.latest, generation + 1}
    BY <2>1, LargerOfTwo, Zenon
  <2> QED
    BY <1>1, <2>2
<1>3. clock \in [latest : 0..MaxGeneration, jumps : 0..MaxJumps, back : BOOLEAN]
  BY DEF TypeOK
<1>4. \A n \in 0..MaxGeneration :
        /\ [clock EXCEPT !.latest = n] \in [latest : 0..MaxGeneration, jumps : 0..MaxJumps, back : BOOLEAN]
        /\ [clock EXCEPT !.latest = n].latest = n
  BY <1>3, Zenon
<1>5. \A n : [clock EXCEPT !.latest = n].back = clock.back
  BY <1>3
<1> QED
  BY <1>1, <1>2, <1>4, <1>5 DEF TakeGeneration

\* The end of the process leaves its variables in their types.
LEMMA GoneType ==
  ASSUME TypeOK, Gone
  PROVE  /\ pc' = "down" /\ {cfg', next'} \subseteq Config
         /\ todo' \in Seq(SUBSET [map : {"allow", "block"}, prefix : Prefix, value : Reason])
         /\ {mode', adaptive'} \subseteq Mode /\ generation' \in 0..MaxGeneration
BY PlaneConstants DEF TypeOK, Gone

\* Every lease the controller asks for is a configuration of the kernel.
LEMMA LeaseType ==
  ASSUME TypeOK
  PROVE  \A l \in 0..Lease : Configured(l, cfg, mode) \in [lease : 0..Lease, observe : BOOLEAN, mode : Mode]
<1>1. cfg \in Config /\ mode \in Mode
  BY DEF TypeOK
<1> QED
  BY <1>1, ConfiguredType

\* A snapshot holds a document and its age.
LEMMA SnapshotParts ==
  ASSUME NEW g \in Snapshot
  PROVE  g.wire \in Document /\ g.wire.left \in Int /\ g.age \in 0..(Receipt + 1)
<1>1. g.wire \in Document /\ g.age \in 0..(Receipt + 1)
  BY Zenon DEF Snapshot
<1> QED
  BY <1>1, DocumentIsSome

\* A snapshot that time or the clock has moved is a snapshot of the same document.
LEMMA MovedSnapshot ==
  ASSUME NEW g \in Snapshot, NEW n \in Int, NEW a \in 0..(Receipt + 1)
  PROVE  /\ [wire |-> [g.wire EXCEPT !.left = Bounded(n)], age |-> a] \in Snapshot
         /\ [g EXCEPT !.wire.left = Bounded(n)] \in Snapshot
         /\ [g EXCEPT !.wire.left = Bounded(n)].wire.generation = g.wire.generation
<1>1. g.wire \in Document /\ g.wire.left \in Int
  BY SnapshotParts
<1>2. /\ [g.wire EXCEPT !.left = Bounded(n)] \in Document
      /\ [g.wire EXCEPT !.left = Bounded(n)].generation = g.wire.generation
  BY <1>1, MovedDocument, BoundedType
<1>3. DOMAIN g = {"wire", "age"}
  BY DEF Snapshot
<1>4. [g EXCEPT !.wire.left = Bounded(n)] = [g EXCEPT !.wire = [g.wire EXCEPT !.left = Bounded(n)]]
  BY <1>3
<1>5. \A w \in Document : [g EXCEPT !.wire = w] \in Snapshot /\ [g EXCEPT !.wire = w].wire = w
  BY Zenon DEF Snapshot
<1>6. \A w \in Document : [wire |-> w, age |-> a] \in Snapshot
  BY Zenon DEF Snapshot
<1> QED
  BY <1>1, <1>2, <1>4, <1>5, <1>6, Zenon

\* The initial state has the types.
LEMMA TypeInit == Init => TypeOK /\ Room
<1> SUFFICES ASSUME Init PROVE TypeOK /\ Room
  OBVIOUS
<1>1. kernel \in [lease : 0..Lease, observe : BOOLEAN, mode : Mode]
  BY ConfiguredType, PlaneConstants DEF Init
<1>2. maps \in Maps
  BY DEF Init, NoMaps, Maps, Reason
<1>3. clock \in [latest : 0..MaxGeneration, jumps : 0..MaxJumps, back : BOOLEAN]
  BY PlaneConstants DEF Init
<1> QED
  BY <1>1, <1>2, <1>3, PlaneConstants DEF Init, TypeOK, Room

\* Time and the clock leave what a document says.
LEMMA MovedFile ==
  ASSUME TypeOK, Second \/ \E j \in Jumps : SetClock(j), file \in Document
  PROVE  /\ file' \in Document
         /\ file'.generation = file.generation
         /\ file'.mode = file.mode /\ file'.observe = file.observe
         /\ file'.allow = file.allow /\ file'.block = file.block
<1>1. file # None /\ file.left \in Int
  BY DocumentIsSome
<1>2. PICK n \in Int : file' = [file EXCEPT !.left = Bounded(n)]
  <2>1. CASE Second
    BY <2>1, <1>1 DEF Second
  <2>2. ASSUME NEW j \in Jumps, SetClock(j) PROVE \E n \in Int : file' = [file EXCEPT !.left = Bounded(n)]
    <3>1. file.left + (-j) \in Int
      BY <1>1, PlaneConstants, SMTT(20)
    <3>2. file' = [file EXCEPT !.left = Bounded(file.left + (-j))]
      BY <2>2, <1>1, Zenon DEF SetClock, Shifted
    <3> QED
      BY <3>1, <3>2
  <2> QED
    BY <2>1, <2>2
<1> QED
  BY <1>2, BoundedType, MovedDocument

\* Every step keeps the types.
LEMMA TypeStep ==
  ASSUME TypeOK, Room, [Next]_vars
  PROVE  TypeOK' /\ Room'
<1> USE PlaneConstants
<1> DEFINE K == [lease : 0..Lease, observe : BOOLEAN, mode : Mode]
<1>0. kernel \in K /\ Configured(0, cfg, mode) \in K /\ Configured(Lease, cfg, mode) \in K
  <2>1. 0 \in 0..Lease /\ Lease \in 0..Lease
    OBVIOUS
  <2> QED
    BY <2>1, LeaseType DEF TypeOK
<1> HIDE DEF K
<1>1. ASSUME Start PROVE TypeOK' /\ Room'
  <2>1. generation' \in 0..clock.latest /\ clock.latest \in Nat /\ clock.latest < MaxGeneration - 1
    BY <1>1 DEF Start, FirstGenerations, TypeOK
  <2> QED
    BY <1>1, <2>1 DEF Start, TypeOK, Room
<1>2. ASSUME LoadMaps PROVE TypeOK' /\ Room'
  BY <1>2 DEF LoadMaps, TypeOK, Room
<1>3. ASSUME LoadProgram PROVE TypeOK' /\ Room'
  BY <1>3 DEF LoadProgram, TypeOK, Room
<1>4. ASSUME PrepareExpire PROVE TypeOK' /\ Room'
  <2>1. kernel' \in [lease : 0..Lease, observe : BOOLEAN, mode : Mode]
    BY <1>4, LeaseType DEF PrepareExpire, TypeOK
  <2> QED
    BY <1>4, <2>1 DEF PrepareExpire, TypeOK, Room
<1>5. ASSUME PolicyBegin PROVE TypeOK' /\ Room'
  <2>1. todo' \in Seq(SUBSET Ops)
    BY <1>5, ReconcilePlan DEF PolicyBegin, TypeOK
  <2> QED
    BY <1>5, <2>1 DEF PolicyBegin, TypeOK, Room, Ops, MapName
<1>6. ASSUME UpdateMap PROVE TypeOK' /\ Room'
  <2>1. PICK op \in Head(todo) : /\ maps' = [maps EXCEPT ![op.map][op.prefix] = op.value]
                                /\ todo' = [todo EXCEPT ![1] = @ \ {op}]
    BY <1>6, Zenon DEF UpdateMap
  <2>2. todo \in Seq(SUBSET Ops) /\ todo # << >> /\ maps \in Maps
    BY <1>6 DEF UpdateMap, TypeOK, Ops, MapName
  <2>3. op \in Ops /\ todo' \in Seq(SUBSET Ops)
    BY <2>1, <2>2
  <2>4. maps' \in Maps
    BY <2>1, <2>2, <2>3 DEF Maps, Ops, MapName
  <2> QED
    BY <1>6, <2>3, <2>4 DEF UpdateMap, TypeOK, Room, Ops, MapName
<1>7. ASSUME NextUpdates PROVE TypeOK' /\ Room'
  <2>1. todo' \in Seq(SUBSET Ops)
    BY <1>7 DEF NextUpdates, TypeOK, Ops, MapName
  <2>2. pc \in {"reconcile", "update"} /\ pc' \in {pc, "first", "persist"}
    BY <1>7 DEF NextUpdates
  <2> QED
    BY <1>7, <2>1, <2>2 DEF NextUpdates, TypeOK, Room, Ops, MapName
<1>8. ASSUME NEW m \in Mode, Tick(m) PROVE TypeOK' /\ Room'
  BY <1>8, ModeOfType DEF Tick, TypeOK, Room
<1>9. ASSUME NEW c \in Commanded(cfg), Command(c) PROVE TypeOK' /\ Room'
  <2>1. c \in Config
    BY CommandedType DEF TypeOK
  <2> QED
    BY <1>9, <2>1 DEF Command, TypeOK, Room
<1>10. ASSUME CommandExpire PROVE TypeOK' /\ Room'
  <2>1. todo' \in Seq(SUBSET Ops)
    BY <1>10 DEF CommandExpire, CommandOps, Op, Ops, MapName, Reason, TypeOK, Config
  <2>2. kernel' \in [lease : 0..Lease, observe : BOOLEAN, mode : Mode]
    BY <1>10, LeaseType DEF CommandExpire, TypeOK
  <2> QED
    BY <1>10, <2>1, <2>2 DEF CommandExpire, TypeOK, Room, Ops, MapName
<1>11. ASSUME Persist PROVE TypeOK' /\ Room'
  <2>1. mode' \in Mode
    BY <1>11, ModeOfType, Zenon DEF Persist, TypeOK
  <2> QED
    BY <1>11, <2>1 DEF Persist, TypeOK, Room
<1>12. ASSUME Publish PROVE TypeOK' /\ Room'
  <2>1. generation < MaxGeneration - 1 /\ generation \in Nat
    BY <1>12 DEF Publish, Room, TypeOK
  <2>2. /\ generation' \in 1..MaxGeneration /\ generation' = generation + 1
        /\ clock' \in [latest : 0..MaxGeneration, jumps : 0..MaxJumps, back : BOOLEAN]
    BY <1>12, <2>1, TakeGenerationType DEF Publish
  <2>3. file' \in Document
    <3>1. Lease \in Left
      BY DEF Left
    <3> QED
      BY <1>12, <2>2, <3>1, RuntimeDocumentType, Zenon DEF Publish, TypeOK
  <2> QED
    BY <1>12, <2>1, <2>2, <2>3 DEF Publish, TypeOK, Room
<1>13. ASSUME NEW d \in 0..Lease, Renew(d) PROVE TypeOK' /\ Room'
  <2>1. kernel' \in [lease : 0..Lease, observe : BOOLEAN, mode : Mode]
    BY <1>13, LeaseType DEF Renew, TypeOK
  <2> QED
    BY <1>13, <2>1 DEF Renew, TypeOK, Room
<1>14. ASSUME Failed PROVE TypeOK' /\ Room'
  <2>0. kernel' \in K
    BY <1>0, <1>14 DEF Failed
  <2>1. kernel' \in [lease : 0..Lease, observe : BOOLEAN, mode : Mode]
    BY <2>0 DEF K
  <2>2. CASE pc = "publish"
    <3>1. generation < MaxGeneration - 1 /\ generation \in Nat /\ TakeGeneration
      BY <1>14, <2>2 DEF Failed, Room, TypeOK
    <3>2. /\ generation' \in 1..MaxGeneration /\ generation' = generation + 1
          /\ clock' \in [latest : 0..MaxGeneration, jumps : 0..MaxJumps, back : BOOLEAN]
      BY <3>1, TakeGenerationType
    <3> QED
      BY <1>14, <2>1, <3>1, <3>2 DEF Failed, TypeOK, Room
  <2>3. CASE pc # "publish"
    BY <1>14, <2>1, <2>3 DEF Failed, TypeOK, Room
  <2> QED
    BY <2>2, <2>3
<1>15. ASSUME PrepareFailed PROVE TypeOK' /\ Room'
  <2>0. kernel' \in K
    BY <1>0, <1>15 DEF PrepareFailed
  <2>1. kernel' \in [lease : 0..Lease, observe : BOOLEAN, mode : Mode]
    BY <2>0 DEF K
  <2> QED
    BY <1>15, <2>1, GoneType DEF PrepareFailed, TypeOK, Room
<1>16. ASSUME Terminate PROVE TypeOK' /\ Room'
  BY <1>16 DEF Terminate, TypeOK, Room
<1>17. ASSUME CleanupPublish PROVE TypeOK' /\ Room'
  <2>1. generation < MaxGeneration
    BY <1>17 DEF CleanupPublish, Room
  <2>2. /\ generation' \in 1..MaxGeneration /\ generation' = generation + 1
        /\ clock' \in [latest : 0..MaxGeneration, jumps : 0..MaxJumps, back : BOOLEAN]
    BY <1>17, <2>1, TakeGenerationType DEF CleanupPublish
  <2>3. file' \in Document \cup {None}
    <3>1. 0 \in Left /\ cfg \in Config /\ mode \in Mode /\ generation + 1 \in 1..MaxGeneration
      BY <2>2 DEF Left, TypeOK
    <3>2. RuntimeDocument(cfg, generation + 1, 0, mode) \in Document
      BY <3>1, RuntimeDocumentType
    <3> QED
      BY <1>17, <3>2 DEF CleanupPublish, TypeOK
  <2> QED
    BY <1>17, <2>2, <2>3 DEF CleanupPublish, TypeOK, Room
<1>18. ASSUME CleanupExpire PROVE TypeOK' /\ Room'
  <2>0. kernel' \in K
    BY <1>0, <1>18 DEF CleanupExpire
  <2>1. kernel' \in [lease : 0..Lease, observe : BOOLEAN, mode : Mode]
    BY <2>0 DEF K
  <2> QED
    BY <1>18, <2>1, GoneType, SMTT(20) DEF CleanupExpire, TypeOK, Room
<1>19. ASSUME Crash PROVE TypeOK' /\ Room'
  BY <1>19, GoneType, SMTT(20) DEF Crash, TypeOK, Room
<1>20. ASSUME GateRead PROVE TypeOK' /\ Room'
  <2>1. gate' \in Snapshot
    BY <1>20 DEF GateRead, Applies, TypeOK, Snapshot
  <2> QED
    BY <1>20, <2>1, SMTT(20) DEF GateRead, TypeOK, Room, controller
<1>21. ASSUME GateRestart PROVE TypeOK' /\ Room'
  BY <1>21 DEF GateRestart, TypeOK, Room, controller
<1>22. ASSUME Second PROVE TypeOK' /\ Room'
  <2>1. kernel' \in [lease : 0..Lease, observe : BOOLEAN, mode : Mode]
    <3>1. Countdown(kernel.lease) \in 0..Lease
      BY DEF Countdown, TypeOK
    <3> QED
      BY <1>22, <3>1, Zenon DEF Second, TypeOK
  <2>2. file' \in Document \cup {None}
    <3>1. CASE file \in Document
      BY <1>22, <3>1, MovedFile
    <3>2. CASE file = None
      BY <1>22, <3>2 DEF Second
    <3> QED
      BY <3>1, <3>2 DEF TypeOK
  <2>3. gate' \in Snapshot \cup {None}
    <3>1. CASE gate \in Snapshot
      <4>1. /\ gate.wire.left - 1 \in Int
            /\ (IF gate.age <= Receipt THEN gate.age + 1 ELSE gate.age) \in 0..(Receipt + 1)
        BY <3>1, SnapshotParts
      <4> QED
        BY <1>22, <3>1, <4>1, MovedSnapshot, Zenon DEF Second
    <3>2. CASE gate = None
      BY <1>22, <3>2 DEF Second
    <3> QED
      BY <3>1, <3>2 DEF TypeOK
  <2> QED
    BY <1>22, <2>1, <2>2, <2>3, SMTT(20) DEF Second, TypeOK, Room, controller
<1>23. ASSUME NEW j \in Jumps, SetClock(j) PROVE TypeOK' /\ Room'
  <2>1. file' \in Document \cup {None}
    <3>1. CASE file \in Document
      BY <1>23, <3>1, MovedFile
    <3>2. CASE file = None
      BY <1>23, <3>2 DEF SetClock, Shifted
    <3> QED
      BY <3>1, <3>2 DEF TypeOK
  <2>2. gate' \in Snapshot \cup {None}
    <3>1. CASE gate \in Snapshot
      <4>1. gate.wire.left + (-j) \in Int /\ 0 \in 0..(Receipt + 1)
        BY <3>1, SnapshotParts
      <4> QED
        BY <1>23, <3>1, <4>1, MovedSnapshot, Zenon DEF SetClock, Shifted
    <3>2. CASE gate = None
      BY <1>23, <3>2 DEF SetClock, Shifted
    <3> QED
      BY <3>1, <3>2 DEF TypeOK
  <2>3. clock' \in [latest : 0..MaxGeneration, jumps : 0..MaxJumps, back : BOOLEAN]
    <3>1. clock.jumps + 1 \in 0..MaxJumps /\ (clock.back \/ j < 0) \in BOOLEAN
      BY <1>23, SMTT(20) DEF SetClock, TypeOK
    <3> QED
      BY <1>23, <3>1, Zenon DEF SetClock, TypeOK
  <2> QED
    BY <1>23, <2>1, <2>2, <2>3 DEF SetClock, TypeOK, Room, controller
<1>24. ASSUME UNCHANGED vars PROVE TypeOK' /\ Room'
  BY <1>24 DEF vars, controller, TypeOK, Room
<1> QED
  BY <1>1, <1>2, <1>3, <1>4, <1>5, <1>6, <1>7, <1>8, <1>9, <1>10, <1>11, <1>12, <1>13, <1>14,
     <1>15, <1>16, <1>17, <1>18, <1>19, <1>20, <1>21, <1>22, <1>23, <1>24, PlaneSteps, Zenon

-----------------------------------------------------------------------------
(* The maps under a running lease *)

\* Where the maps are known, where they are on their way, and where no lease
\* may run: what LeasedMatchesCommitted needs to be inductive.
PolicyInv ==
  /\ cfg = disk
  /\ pc \in {"policy", "reconcile", "update", "persist"} => kernel.lease = 0
  /\ pc \in {"first", "loop", "lapse", "publish", "renew"} => maps = LoaderPolicy(cfg)
  /\ pc = "reconcile" => Settling(todo, maps, cfg)
  /\ pc = "update" => Settling(todo, maps, next)
  /\ pc = "persist" => maps = LoaderPolicy(next)
  /\ pc \in {"publish", "renew"} => mode = ModeOf(cfg, adaptive)
  /\ LeasedMatchesCommitted

\* What the loader wrote is what it was given.
LEMMA ConfiguredParts ==
  ASSUME NEW l, NEW c, NEW m
  PROVE  /\ Configured(l, c, m).lease = l
         /\ Configured(l, c, m).observe = c.observe
         /\ Configured(l, c, m).mode = m
BY DEF Configured

\* Time only shortens a lease.
LEMMA SecondKeepsKernel ==
  ASSUME TypeOK, Second
  PROVE  /\ kernel'.lease = Countdown(kernel.lease)
         /\ kernel'.observe = kernel.observe /\ kernel'.mode = kernel.mode
         /\ kernel'.lease > 0 => kernel.lease > 0
<1>1. DOMAIN kernel = {"lease", "observe", "mode"} /\ kernel.lease \in Int
  BY PlaneConstants DEF TypeOK
<1>2. kernel' = [kernel EXCEPT !.lease = Countdown(kernel.lease)]
  BY DEF Second
<1>3. \A n : /\ [kernel EXCEPT !.lease = n].lease = n
            /\ [kernel EXCEPT !.lease = n].observe = kernel.observe
            /\ [kernel EXCEPT !.lease = n].mode = kernel.mode
  BY <1>1, SMTT(20)
<1> QED
  BY <1>1, <1>2, <1>3 DEF Countdown

\* A lease is about the kernel's configuration, the maps and the file only.
LEMMA LeaseKept ==
  ASSUME LeasedMatchesCommitted, UNCHANGED <<kernel, maps, disk>>
  PROVE  LeasedMatchesCommitted'
BY DEF LeasedMatchesCommitted

\* Without a lease nothing is claimed.
LEMMA LeaseOut ==
  ASSUME kernel'.lease = 0
  PROVE  LeasedMatchesCommitted'
BY DEF LeasedMatchesCommitted

\* A lease given out under the committed configuration covers its maps.
LEMMA LeaseGiven ==
  ASSUME NEW l, kernel' = Configured(l, cfg, mode), cfg = disk, UNCHANGED <<maps, disk>>,
         maps = LoaderPolicy(cfg), mode = ModeOf(cfg, adaptive)
  PROVE  LeasedMatchesCommitted'
<1>1. kernel'.observe = disk'.observe /\ kernel'.mode = mode /\ maps' = LoaderPolicy(disk')
  BY ConfiguredParts
<1>2. disk'.manual # AutoMode => mode = disk'.manual
  BY DEF ModeOf
<1> QED
  BY <1>1, <1>2, Zenon DEF LeasedMatchesCommitted

\* A step to a place where the maps are not known, or not needed.
LEMMA IdlePolicy ==
  ASSUME PolicyInv, pc' \in {"down", "load", "pin", "expire", "cleanup", "retire"}, cfg' = disk,
         UNCHANGED <<kernel, maps, disk>>
  PROVE  PolicyInv'
BY LeaseKept DEF PolicyInv

\* Every step keeps the maps in step with the lease.
LEMMA PolicyStep ==
  ASSUME TypeOK, PolicyInv, [Next]_vars
  PROVE  PolicyInv'
<1>0. cfg = disk
  BY DEF PolicyInv
<1>1. ASSUME Start PROVE PolicyInv'
  BY <1>1, <1>0, IdlePolicy DEF Start
<1>2. ASSUME LoadMaps PROVE PolicyInv'
  BY <1>2, <1>0, IdlePolicy DEF LoadMaps
<1>3. ASSUME LoadProgram PROVE PolicyInv'
  BY <1>3, <1>0, IdlePolicy, SMTT(20) DEF LoadProgram
<1>4. ASSUME PrepareExpire PROVE PolicyInv'
  BY <1>4, ConfiguredParts, LeaseOut DEF PrepareExpire, PolicyInv
<1>5. ASSUME PolicyBegin PROVE PolicyInv'
  <2>1. Settling(todo', maps', cfg')
    BY <1>5, ReconcilePlan DEF PolicyBegin, TypeOK
  <2> QED
    BY <1>5, <2>1, LeaseKept DEF PolicyBegin, PolicyInv
<1>6. ASSUME UpdateMap PROVE PolicyInv'
  <2>1. PICK op \in Head(todo) : /\ maps' = [maps EXCEPT ![op.map][op.prefix] = op.value]
                                /\ todo' = [todo EXCEPT ![1] = @ \ {op}]
    BY <1>6, Zenon DEF UpdateMap, PolicyInv
  <2>2. todo \in Seq(SUBSET Ops) /\ todo # << >> /\ maps \in Maps
    BY <1>6 DEF UpdateMap, TypeOK, Ops, MapName
  <2>3. \A c : Settling(todo, maps, c) => Settling(todo', maps', c)
    BY <2>1, <2>2, UpdateSettles, Zenon
  <2>4. /\ pc \in {"reconcile", "update"} /\ pc' = pc /\ kernel.lease = 0
        /\ UNCHANGED <<cfg, next, mode, adaptive, disk, kernel>>
    BY <1>6 DEF UpdateMap, PolicyInv
  <2> QED
    BY <2>3, <2>4, LeaseOut DEF PolicyInv
<1>7. ASSUME NextUpdates PROVE PolicyInv'
  <2>1. todo \in Seq(SUBSET Ops) /\ todo # << >> /\ maps \in Maps /\ Head(todo) = {}
    BY <1>7 DEF NextUpdates, TypeOK, Ops, MapName
  <2>2. \A c : Settling(todo, maps, c) =>
               Settling(Tail(todo), maps, c) /\ (~(Len(todo) > 1) => maps = LoaderPolicy(c))
    BY <2>1, TailSettles, Zenon
  <2>3. CASE pc = "reconcile"
    BY <1>7, <2>2, <2>3, LeaseKept DEF NextUpdates, PolicyInv
  <2>4. CASE pc = "update"
    BY <1>7, <2>2, <2>4, LeaseKept DEF NextUpdates, PolicyInv
  <2> QED
    BY <1>7, <2>3, <2>4 DEF NextUpdates, PolicyInv
<1>8. ASSUME NEW m \in Mode, Tick(m) PROVE PolicyInv'
  BY <1>8, LeaseKept DEF Tick, PolicyInv
<1>9. ASSUME NEW c \in Commanded(cfg), Command(c) PROVE PolicyInv'
  BY <1>9, LeaseKept, SMTT(20) DEF Command, PolicyInv
<1>10. ASSUME CommandExpire PROVE PolicyInv'
  <2>1. /\ cfg.allow \subseteq Prefix /\ cfg.block \subseteq Prefix
        /\ next.allow \subseteq Prefix /\ next.block \subseteq Prefix
    BY DEF TypeOK, Config
  <2>2. Settling(todo', maps', next')
    BY <1>10, <2>1, CommandPlan DEF CommandExpire, PolicyInv
  <2> QED
    BY <1>10, <2>2, ConfiguredParts, LeaseOut DEF CommandExpire, PolicyInv
<1>11. ASSUME Persist PROVE PolicyInv'
  BY <1>11, LeaseOut DEF Persist, PolicyInv
<1>12. ASSUME Publish PROVE PolicyInv'
  BY <1>12, LeaseKept DEF Publish, PolicyInv
<1>13. ASSUME NEW d \in 0..Lease, Renew(d) PROVE PolicyInv'
  BY <1>13, LeaseGiven, SMTT(20) DEF Renew, PolicyInv
<1>14. ASSUME Failed PROVE PolicyInv'
  <2>1. CASE UNCHANGED kernel
    BY <1>14, <2>1, <1>0, IdlePolicy, SMTT(20) DEF Failed
  <2>2. CASE pc = "lapse" /\ kernel' = Configured(0, cfg, mode)
    BY <1>14, <2>2, ConfiguredParts, LeaseOut DEF Failed, PolicyInv
  <2>3. CASE pc = "renew" /\ kernel' = Configured(Lease, cfg, mode)
    BY <1>14, <2>3, LeaseGiven DEF Failed, PolicyInv
  <2> QED
    BY <1>14, <2>1, <2>2, <2>3 DEF Failed, PolicyInv
<1>15. ASSUME PrepareFailed PROVE PolicyInv'
  <2>1. CASE kernel' = kernel
    BY <1>15, <2>1, <1>0, IdlePolicy, SMTT(20) DEF PrepareFailed, Gone
  <2>2. CASE kernel' = Configured(0, cfg, mode)
    BY <1>15, <2>2, ConfiguredParts, LeaseOut DEF PrepareFailed, Gone, PolicyInv
  <2> QED
    BY <1>15, <2>1, <2>2 DEF PrepareFailed, PolicyInv
<1>16. ASSUME Terminate PROVE PolicyInv'
  BY <1>16, <1>0, IdlePolicy DEF Terminate
<1>17. ASSUME CleanupPublish PROVE PolicyInv'
  BY <1>17, <1>0, IdlePolicy DEF CleanupPublish
<1>18. ASSUME CleanupExpire PROVE PolicyInv'
  <2>1. CASE kernel' = kernel
    BY <1>18, <2>1, <1>0, IdlePolicy, SMTT(20) DEF CleanupExpire, Gone
  <2>2. CASE kernel' = Configured(0, cfg, mode)
    BY <1>18, <2>2, ConfiguredParts, LeaseOut DEF CleanupExpire, Gone, PolicyInv
  <2> QED
    BY <1>18, <2>1, <2>2 DEF CleanupExpire, PolicyInv
<1>19. ASSUME Crash PROVE PolicyInv'
  BY <1>19, <1>0, IdlePolicy DEF Crash, Gone
<1>20. ASSUME GateRead PROVE PolicyInv'
  BY <1>20, LeaseKept DEF GateRead, controller, PolicyInv
<1>21. ASSUME GateRestart PROVE PolicyInv'
  BY <1>21, LeaseKept DEF GateRestart, controller, PolicyInv
<1>22. ASSUME Second PROVE PolicyInv'
  <2>1. kernel.lease = 0 => kernel'.lease = 0
    BY <1>22, SecondKeepsKernel DEF Countdown
  <2>2. LeasedMatchesCommitted'
    BY <1>22, SecondKeepsKernel DEF Second, LeasedMatchesCommitted, PolicyInv
  <2> QED
    BY <1>22, <2>1, <2>2 DEF Second, controller, PolicyInv
<1>23. ASSUME NEW j \in Jumps, SetClock(j) PROVE PolicyInv'
  BY <1>23, LeaseKept DEF SetClock, controller, PolicyInv
<1>24. ASSUME UNCHANGED vars PROVE PolicyInv'
  BY <1>24, LeaseKept, SMTT(20) DEF vars, controller, PolicyInv
<1> QED
  BY <1>1, <1>2, <1>3, <1>4, <1>5, <1>6, <1>7, <1>8, <1>9, <1>10, <1>11, <1>12, <1>13, <1>14,
     <1>15, <1>16, <1>17, <1>18, <1>19, <1>20, <1>21, <1>22, <1>23, <1>24, PlaneSteps, Zenon

-----------------------------------------------------------------------------
(* The two enforcement points *)

\* The runtime document says what the configuration and the mode say.
Announced ==
  /\ file \in Document
  /\ file.mode = mode /\ file.observe = cfg.observe
  /\ file.allow = cfg.allow /\ file.block = cfg.block \cup Bogon

AgreeInv ==
  /\ pc \in {"renew", "loop"} => Announced
  /\ pc = "loop" => kernel.mode = mode /\ kernel.observe = cfg.observe

\* runtime_document() says what the configuration and the mode say.
LEMMA DocumentParts ==
  ASSUME NEW c, NEW g, NEW l, NEW m
  PROVE  /\ RuntimeDocument(c, g, l, m).generation = g
         /\ RuntimeDocument(c, g, l, m).mode = m
         /\ RuntimeDocument(c, g, l, m).observe = c.observe
         /\ RuntimeDocument(c, g, l, m).allow = c.allow
         /\ RuntimeDocument(c, g, l, m).block = c.block \cup Bogon
BY SMTT(20) DEF RuntimeDocument

\* Every step keeps the document and the kernel's configuration together.
LEMMA AgreeStep ==
  ASSUME TypeOK, Room, AgreeInv, [Next]_vars
  PROVE  AgreeInv'
<1> USE DEF AgreeInv
<1>1. ASSUME Start \/ LoadMaps \/ LoadProgram \/ PrepareExpire \/ PolicyBegin PROVE AgreeInv'
  BY <1>1, Zenon DEF Start, LoadMaps, LoadProgram, PrepareExpire, PolicyBegin
<1>2. ASSUME UpdateMap \/ NextUpdates PROVE AgreeInv'
  BY <1>2 DEF UpdateMap, NextUpdates
<1>3. ASSUME NEW m \in Mode, Tick(m) PROVE AgreeInv'
  BY <1>3 DEF Tick
<1>4. ASSUME NEW c \in Commanded(cfg), Command(c) PROVE AgreeInv'
  BY <1>4 DEF Command
<1>5. ASSUME CommandExpire \/ Persist PROVE AgreeInv'
  BY <1>5, SMTT(20) DEF CommandExpire, Persist
<1>6. ASSUME Publish PROVE AgreeInv'
  <2>1. /\ cfg \in Config /\ mode \in Mode /\ Lease \in Left
        /\ generation + 1 \in 1..MaxGeneration
    BY <1>6, PlaneConstants DEF Publish, Room, TypeOK, Left
  <2>2. file' \in Document
    BY <1>6, <2>1, RuntimeDocumentType, SMTT(20) DEF Publish
  <2> QED
    BY <1>6, <2>2, DocumentParts DEF Publish, Announced
<1>7. ASSUME NEW d \in 0..Lease, Renew(d) PROVE AgreeInv'
  BY <1>7, ConfiguredParts, SMTT(20) DEF Renew, Announced
<1>8. ASSUME Failed \/ Terminate \/ CleanupPublish PROVE AgreeInv'
  BY <1>8, SMTT(20) DEF Failed, Terminate, CleanupPublish
<1>9. ASSUME PrepareFailed \/ CleanupExpire \/ Crash PROVE AgreeInv'
  BY <1>9, SMTT(20) DEF PrepareFailed, CleanupExpire, Crash, Gone
<1>10. ASSUME GateRead \/ GateRestart PROVE AgreeInv'
  BY <1>10 DEF GateRead, GateRestart, controller, Announced
<1>11. ASSUME Second PROVE AgreeInv'
  <2>1. Announced => Announced'
    BY <1>11, MovedFile DEF Announced, Second, controller
  <2> QED
    BY <1>11, <2>1, SecondKeepsKernel DEF Second, controller
<1>12. ASSUME NEW j \in Jumps, SetClock(j) PROVE AgreeInv'
  <2>1. Announced => Announced'
    BY <1>12, MovedFile, Zenon DEF Announced, SetClock, controller
  <2> QED
    BY <1>12, <2>1, SMTT(20) DEF SetClock, controller
<1>13. ASSUME UNCHANGED vars PROVE AgreeInv'
  BY <1>13 DEF vars, controller, Announced
<1> QED
  BY <1>1, <1>2, <1>3, <1>4, <1>5, <1>6, <1>7, <1>8, <1>9, <1>10, <1>11, <1>12, <1>13, PlaneSteps, SMTT(20)

\* The loader's maps and the runtime document give every source the same verdict.
LEMMA SameVerdicts ==
  ASSUME TypeOK, PolicyInv, AgreeInv
  PROVE  HalvesAgree
<1> SUFFICES ASSUME pc = "loop"
             PROVE  /\ file # None /\ file.mode = kernel.mode
                    /\ \A p \in Prefix : KernelBlocks(p) <=> DocumentBlocks(p)
  BY SMTT(20) DEF HalvesAgree
<1>1. Announced /\ kernel.mode = mode /\ kernel.observe = cfg.observe /\ maps = LoaderPolicy(cfg)
  BY DEF AgreeInv, PolicyInv
<1>2. file # None /\ file.mode = kernel.mode
  BY <1>1, DocumentIsSome DEF Announced
<1>3. ASSUME NEW p \in Prefix PROVE KernelBlocks(p) <=> DocumentBlocks(p)
  <2>1. /\ maps["allow"][p] = 0 <=> p \notin cfg.allow
        /\ maps["block"][p] # 0 <=> p \in cfg.block \cup Bogon
    BY <1>1 DEF LoaderPolicy, PREFIX_MARKER, MANUAL_BLOCK_REASON, BOGON_REASON
  <2>2. /\ file.observe = cfg.observe /\ file.allow = cfg.allow
        /\ file.block = cfg.block \cup Bogon /\ kernel.observe = cfg.observe
    BY <1>1 DEF Announced
  <2> QED
    BY <2>1, <2>2, Zenon DEF KernelBlocks, DocumentBlocks
<1> QED
  BY <1>2, <1>3

-----------------------------------------------------------------------------
(* Generations *)

\* As long as the clock is not set back the controller counts on from the
\* newest generation, and neither the document nor the gate is past it.
GenerationInv ==
  ~clock.back =>
    /\ pc # "down" => generation = clock.latest
    /\ file # None => file.generation <= clock.latest
    /\ gate # None => file # None /\ gate.wire.generation <= file.generation

\* The next generation is newer than every one before it.
LEMMA NewerGeneration ==
  ASSUME TypeOK, generation < MaxGeneration, TakeGeneration, ~clock.back, GenerationInv, pc # "down"
  PROVE  /\ generation' = generation + 1 /\ clock'.latest = generation + 1
         /\ generation = clock.latest /\ generation \in Nat
<1>1. generation = clock.latest /\ generation \in Nat
  BY PlaneConstants DEF GenerationInv, TypeOK
<1>2. clock'.latest = Largest({clock.latest, generation + 1}) /\ generation' = generation + 1
  BY TakeGenerationType
<1>3. generation + 1 \in Int /\ clock.latest \in Int
  BY <1>1
<1>4. /\ Largest({clock.latest, generation + 1}) \in {clock.latest, generation + 1}
      /\ Largest({clock.latest, generation + 1}) >= generation + 1
  BY <1>3, LargerOfTwo, Zenon
<1> QED
  BY <1>1, <1>2, <1>3, <1>4, SMTT(20)

\* Time and the clock leave the generation of the gate's snapshot.
LEMMA MovedGate ==
  ASSUME TypeOK, Second \/ \E j \in Jumps : SetClock(j)
  PROVE  /\ gate = None => gate' = None
         /\ gate # None => gate'.wire.generation = gate.wire.generation
         /\ file = None => file' = None
<1>1. file = None => file' = None
  BY Zenon DEF Second, SetClock, Shifted
<1>2. gate = None => gate' = None
  BY Zenon DEF Second, SetClock, Shifted
<1>3. ASSUME gate # None PROVE gate'.wire.generation = gate.wire.generation
  <2>1. gate \in Snapshot /\ gate.wire \in Document /\ gate.wire.left \in Int
    BY <1>3, SnapshotParts DEF TypeOK
  <2>2. CASE Second
    <3>1. gate.wire.left - 1 \in Int
      BY <2>1
    <3>2. gate'.wire = [gate.wire EXCEPT !.left = Bounded(gate.wire.left - 1)]
      BY <2>2, <1>3 DEF Second
    <3> QED
      BY <2>1, <3>1, <3>2, MovedDocument, BoundedType
  <2>3. ASSUME NEW j \in Jumps, SetClock(j) PROVE gate'.wire.generation = gate.wire.generation
    <3>1. gate.wire.left + (-j) \in Int /\ 0 \in 0..(Receipt + 1)
      BY <2>1, PlaneConstants
    <3>2. gate' = [gate EXCEPT !.wire.left = Bounded(gate.wire.left + (-j))]
      BY <2>3, <1>3, Zenon DEF SetClock, Shifted
    <3> QED
      BY <2>1, <3>1, <3>2, MovedSnapshot, Zenon
  <2> QED
    BY <2>2, <2>3
<1> QED
  BY <1>1, <1>2, <1>3

\* Every step keeps the generations in order.
LEMMA GenerationStep ==
  ASSUME TypeOK, Room, GenerationInv, [Next]_vars
  PROVE  GenerationInv'
<1>1. ASSUME Start PROVE GenerationInv'
  BY <1>1, SMTT(20) DEF Start, FirstGenerations, GenerationInv
<1>2. ASSUME LoadMaps \/ LoadProgram \/ PrepareExpire \/ PolicyBegin \/ UpdateMap PROVE GenerationInv'
  BY <1>2, SMTT(20) DEF LoadMaps, LoadProgram, PrepareExpire, PolicyBegin, UpdateMap, GenerationInv
<1>3. ASSUME NextUpdates PROVE GenerationInv'
  BY <1>3, SMTT(20) DEF NextUpdates, GenerationInv
<1>4. ASSUME NEW m \in Mode, Tick(m) PROVE GenerationInv'
  BY <1>4 DEF Tick, GenerationInv
<1>5. ASSUME NEW c \in Commanded(cfg), Command(c) PROVE GenerationInv'
  BY <1>5, SMTT(20) DEF Command, GenerationInv
<1>6. ASSUME CommandExpire \/ Persist \/ Terminate PROVE GenerationInv'
  BY <1>6, SMTT(20) DEF CommandExpire, Persist, Terminate, GenerationInv
<1>7. ASSUME NEW d \in 0..Lease, Renew(d) PROVE GenerationInv'
  BY <1>7, SMTT(20) DEF Renew, GenerationInv
<1>8. ASSUME PrepareFailed \/ CleanupExpire \/ Crash PROVE GenerationInv'
  BY <1>8 DEF PrepareFailed, CleanupExpire, Crash, Gone, GenerationInv
<1>9. ASSUME generation < MaxGeneration, TakeGeneration, pc # "down", UNCHANGED gate,
             file' = file \/ \E l : file' = RuntimeDocument(cfg, generation + 1, l, mode)
      PROVE  GenerationInv'
  <2> SUFFICES ASSUME ~clock.back PROVE GenerationInv'
    BY <1>9, TakeGenerationType DEF GenerationInv
  <2>1. /\ generation' = generation + 1 /\ clock'.latest = generation + 1
        /\ generation = clock.latest /\ generation \in Nat
    BY <1>9, NewerGeneration
  <2>2. /\ file # None => file.generation \in Nat /\ file.generation <= generation
        /\ gate # None => gate.wire.generation \in Nat /\ gate.wire.generation <= file.generation
                          /\ file # None
    BY <2>1, SnapshotParts, DocumentIsSome, SMTT(20) DEF GenerationInv, TypeOK
  <2>3. CASE file' = file
    BY <1>9, <2>1, <2>2, <2>3, SMTT(20) DEF GenerationInv
  <2>4. ASSUME NEW l, file' = RuntimeDocument(cfg, generation + 1, l, mode) PROVE GenerationInv'
    <3>1. file'.generation = generation + 1
      BY <2>4, DocumentParts
    <3>2. file' # None
      BY <3>1, <2>1 DEF None
    <3> QED
      BY <1>9, <2>1, <2>2, <3>1, <3>2, SMTT(20) DEF GenerationInv
  <2> QED
    BY <1>9, <2>3, <2>4, SMTT(20)
<1>10. ASSUME Publish PROVE GenerationInv'
  <2>1. generation < MaxGeneration
    BY <1>10, PlaneConstants DEF Publish, Room, TypeOK
  <2> QED
    BY <1>9, <1>10, <2>1 DEF Publish
<1>11. ASSUME CleanupPublish PROVE GenerationInv'
  BY <1>9, <1>11 DEF CleanupPublish, Room
<1>12. ASSUME Failed PROVE GenerationInv'
  <2>1. CASE pc = "publish"
    <3>1. generation < MaxGeneration
      BY <2>1, PlaneConstants DEF Room, TypeOK
    <3> QED
      BY <1>9, <1>12, <2>1, <3>1, SMTT(20) DEF Failed
  <2>2. CASE pc # "publish"
    BY <1>12, <2>2 DEF Failed, GenerationInv
  <2> QED
    BY <2>1, <2>2
<1>13. ASSUME GateRead PROVE GenerationInv'
  <2>1. gate'.wire = file /\ file # None /\ file.generation \in Nat /\ UNCHANGED <<pc, generation, file, clock>>
    BY <1>13, DocumentIsSome DEF GateRead, Applies, controller, TypeOK
  <2> QED
    BY <2>1, SMTT(20) DEF GenerationInv
<1>14. ASSUME GateRestart PROVE GenerationInv'
  BY <1>14 DEF GateRestart, controller, GenerationInv
<1>15. ASSUME Second \/ \E j \in Jumps : SetClock(j) PROVE GenerationInv'
  <2>1. /\ UNCHANGED <<pc, generation>> /\ clock'.latest = clock.latest
        /\ clock.back => clock'.back
    <3>1. CASE Second
      BY <3>1 DEF Second, controller
    <3>2. ASSUME NEW j \in Jumps, SetClock(j)
          PROVE  /\ UNCHANGED <<pc, generation>> /\ clock'.latest = clock.latest
                 /\ clock.back => clock'.back
      <4>1. DOMAIN clock = {"latest", "jumps", "back"}
        BY DEF TypeOK
      <4> QED
        BY <4>1, <3>2, Zenon DEF SetClock, controller
    <3> QED
      BY <1>15, <3>1, <3>2
  <2>2. file # None => file' # None /\ file'.generation = file.generation
    BY <1>15, MovedFile, DocumentIsSome DEF TypeOK
  <2> QED
    BY <1>15, <2>1, <2>2, MovedGate DEF GenerationInv
<1>16. ASSUME UNCHANGED vars PROVE GenerationInv'
  BY <1>16 DEF vars, controller, GenerationInv
<1> QED
  BY <1>1, <1>2, <1>3, <1>4, <1>5, <1>6, <1>7, <1>8, <1>10, <1>11, <1>12, <1>13, <1>14, <1>15,
     <1>16, PlaneSteps, Zenon

-----------------------------------------------------------------------------
(* Theorems *)

PlaneInv == TypeOK /\ Room /\ PolicyInv /\ AgreeInv /\ GenerationInv

\* The invariant holds initially and is kept by every step.
LEMMA PlaneInductive == Spec => []PlaneInv
<1>1. Init => PlaneInv
  <2> SUFFICES ASSUME Init PROVE PlaneInv
    OBVIOUS
  <2>1. kernel.lease = 0
    BY ConfiguredParts, SMTT(20) DEF Init
  <2> QED
    BY <2>1, TypeInit DEF Init, PlaneInv, PolicyInv, LeasedMatchesCommitted, AgreeInv, GenerationInv
<1>2. PlaneInv /\ [Next]_vars => PlaneInv'
  BY TypeStep, PolicyStep, AgreeStep, GenerationStep DEF PlaneInv
<1> QED
  BY <1>1, <1>2, PTL DEF Spec

\* Every variable of the controller, the kernel, the document and the gate
\* keeps its type, and the generations stay within what the model allows.
THEOREM PlaneTypes == Spec => []TypeOK
<1>1. PlaneInv => TypeOK
  BY DEF PlaneInv
<1> QED
  BY <1>1, PlaneInductive, PTL

\* For every set of prefixes, every configuration and every lease: wherever
\* command(), prepare() or the loader fails or is killed, a running lease
\* finds the maps holding exactly what the configuration file says.
THEOREM LeaseCoversCommittedMaps == Spec => []LeasedMatchesCommitted
<1>1. PlaneInv => LeasedMatchesCommitted
  BY DEF PlaneInv, PolicyInv
<1> QED
  BY <1>1, PlaneInductive, PTL

\* Between two ticks the maps and the runtime document give one mode and one
\* verdict on every source, bogons and allowed sources included.
THEOREM FilterAndGateAgree == Spec => []HalvesAgree
<1>1. PlaneInv => HalvesAgree
  BY SameVerdicts DEF PlaneInv
<1> QED
  BY <1>1, PlaneInductive, PTL

\* Without a clock set back, no restart of the controller or of the gate
\* leaves the gate with a generation that a later document does not reach.
THEOREM DocumentsCatchUp == Spec => []GateNotAhead
<1>1. PlaneInv => GateNotAhead
  <2> SUFFICES ASSUME PlaneInv, ~clock.back, gate # None
               PROVE  file # None /\ file.generation >= gate.wire.generation
    BY DEF GateNotAhead
  <2>1. file # None /\ gate.wire.generation <= file.generation
    BY DEF PlaneInv, GenerationInv
  <2>2. file.generation \in Nat /\ gate.wire.generation \in Nat
    BY <2>1, DocumentIsSome, SnapshotParts DEF PlaneInv, TypeOK
  <2> QED
    BY <2>1, <2>2
<1> QED
  BY <1>1, PlaneInductive, PTL

-----------------------------------------------------------------------------
(* How long a policy outlives its controller *)

\* Neither the kernel, nor the document, nor the gate's copy of it has more
\* than n seconds to live.
Expires(n) ==
  /\ kernel.lease <= n
  /\ file # None => file.left <= n
  /\ gate # None => gate.wire.left <= n

\* Unless the wall clock is set, only publish() and the lease() after it
\* prolong anything: not a crash, a restart, a prepare() that fails, a
\* cleanup() or a gate that restarts and reads the old document again.  And
\* every second takes one off all three.
OnlyTicksProlong ==
  [][/\ pc \notin {"publish", "renew"} /\ clock'.jumps = clock.jumps =>
          \A n \in Nat : Expires(n) => Expires(n)'
     /\ Second => \A n \in Nat : Expires(n + 1) => Expires(n)']_vars

\* One second less, as Bounded() keeps it.
LEMMA OneSecond ==
  ASSUME NEW l \in Int, NEW n \in Nat
  PROVE  l <= n + 1 => Bounded(l - 1) <= n
BY PlaneConstants DEF Bounded

\* The life of the three, in numbers.
LEMMA LifeTypes ==
  ASSUME TypeOK
  PROVE  /\ kernel.lease \in Nat
         /\ file # None => file \in Document /\ file.left \in Int
         /\ gate # None => gate \in Snapshot /\ gate.wire \in Document /\ gate.wire.left \in Int
<1>1. kernel.lease \in Nat
  BY PlaneConstants DEF TypeOK
<1> QED
  BY <1>1, DocumentIsSome, SnapshotParts DEF TypeOK

\* A second takes one off the lease, the document and the gate's copy.
LEMMA SecondShortens ==
  ASSUME TypeOK, Second, NEW n \in Nat, Expires(n + 1)
  PROVE  Expires(n)'
<1>1. kernel'.lease <= n
  BY SecondKeepsKernel, LifeTypes DEF Countdown, Expires
<1>2. ASSUME file' # None PROVE file'.left <= n
  <2>1. file # None
    BY <1>2, MovedGate
  <2>2. DOMAIN file = {"generation", "left", "mode", "observe", "allow", "block"}
    BY <2>1, LifeTypes DEF Document
  <2>3. file'.left = Bounded(file.left - 1)
    BY <2>1, <2>2 DEF Second
  <2> QED
    BY <2>1, <2>3, LifeTypes, OneSecond DEF Expires
<1>3. ASSUME gate' # None PROVE gate'.wire.left <= n
  <2>1. gate # None
    BY <1>3, MovedGate
  <2>2. DOMAIN gate.wire = {"generation", "left", "mode", "observe", "allow", "block"}
    BY <2>1, LifeTypes DEF Document
  <2>3. gate'.wire.left = Bounded(gate.wire.left - 1)
    BY <2>1, <2>2 DEF Second
  <2> QED
    BY <2>1, <2>3, LifeTypes, OneSecond DEF Expires
<1> QED
  BY <1>1, <1>2, <1>3, Zenon DEF Expires

\* A bound is kept by what leaves all three alone, or ends one of them.
LEMMA Ended ==
  ASSUME NEW n \in Nat, Expires(n), gate' = gate,
         kernel' = kernel \/ \E c, m : kernel' = Configured(0, c, m),
         file' = file \/ \E c, g, m : file' = RuntimeDocument(c, g, 0, m)
  PROVE  Expires(n)'
<1>1. kernel'.lease <= n
  BY ConfiguredParts DEF Expires
<1>2. file' # None => file'.left <= n
  BY DEF Expires, RuntimeDocument
<1> QED
  BY <1>1, <1>2, Zenon DEF Expires

\* Every step but those of publish() and lease() keeps a bound.
LEMMA ExpiresKept ==
  ASSUME TypeOK, [Next]_vars, ~Publish, \A d \in 0..Lease : ~Renew(d),
         pc = "renew" => ~Failed, clock'.jumps = clock.jumps, NEW n \in Nat, Expires(n)
  PROVE  Expires(n)'
<1>1. ASSUME Start \/ LoadMaps \/ LoadProgram \/ PolicyBegin \/ UpdateMap \/ NextUpdates
      PROVE  Expires(n)'
  BY <1>1, Ended DEF Start, LoadMaps, LoadProgram, PolicyBegin, UpdateMap, NextUpdates
<1>2. ASSUME NEW m \in Mode, Tick(m) PROVE Expires(n)'
  BY <1>2, Ended DEF Tick
<1>3. ASSUME NEW c \in Commanded(cfg), Command(c) PROVE Expires(n)'
  BY <1>3, Ended DEF Command
<1>4. ASSUME Persist \/ Terminate \/ Crash PROVE Expires(n)'
  BY <1>4, Ended DEF Persist, Terminate, Crash
<1>5. ASSUME PrepareExpire \/ CommandExpire \/ CleanupExpire \/ PrepareFailed PROVE Expires(n)'
  BY <1>5, Ended DEF PrepareExpire, CommandExpire, CleanupExpire, PrepareFailed
<1>6. ASSUME Failed PROVE Expires(n)'
  BY <1>6, Ended DEF Failed
<1>7. ASSUME CleanupPublish PROVE Expires(n)'
  BY <1>7, Ended DEF CleanupPublish
<1>8. ASSUME GateRead PROVE Expires(n)'
  BY <1>8 DEF GateRead, Applies, Expires
<1>9. ASSUME GateRestart PROVE Expires(n)'
  BY <1>9 DEF GateRestart, Expires
<1>10. ASSUME Second PROVE Expires(n)'
  <2>1. Expires(n + 1)
    BY LifeTypes DEF Expires
  <2> QED
    BY <1>10, <2>1, SecondShortens
<1>11. ASSUME NEW j \in Jumps, SetClock(j) PROVE FALSE
  <2>1. clock.jumps \in Int /\ DOMAIN clock = {"latest", "jumps", "back"}
    BY PlaneConstants DEF TypeOK
  <2>2. clock'.jumps = clock.jumps + 1
    BY <1>11, <2>1 DEF SetClock
  <2> QED
    BY <2>1, <2>2
<1>12. ASSUME UNCHANGED vars PROVE Expires(n)'
  BY <1>12, Ended DEF vars
<1> QED
  BY <1>1, <1>2, <1>3, <1>4, <1>5, <1>6, <1>7, <1>8, <1>9, <1>10, <1>11, <1>12, PlaneSteps, Zenon

\* In every behaviour only a tick or a command that gets as far as publish()
\* prolongs what the packet filter and the gate enforce.
THEOREM NothingElseProlongs == Spec => OnlyTicksProlong
<1>1. TypeOK /\ [Next]_vars =>
        [/\ pc \notin {"publish", "renew"} /\ clock'.jumps = clock.jumps =>
              \A n \in Nat : Expires(n) => Expires(n)'
         /\ Second => \A n \in Nat : Expires(n + 1) => Expires(n)']_vars
  <2>1. pc \notin {"publish", "renew"} =>
          ~Publish /\ (\A d \in 0..Lease : ~Renew(d)) /\ (pc = "renew" => ~Failed)
    BY DEF Publish, Renew
  <2> QED
    BY <2>1, ExpiresKept, SecondShortens
<1> QED
  BY <1>1, PlaneTypes, PTL DEF Spec, OnlyTicksProlong

\* Unless the wall clock was set, nothing outlives lease_seconds; and what has
\* no second left enforces nothing.
PolicyRunsOut ==
  /\ clock.jumps = 0 => Expires(Lease)
  /\ Expires(0) => kernel.lease = 0 /\ ~GateEnforces

\* In every behaviour a controller that stops, wherever it stops, leaves a
\* policy that ends within lease_seconds: with NothingElseProlongs, after that
\* many seconds the filter passes and the gate no longer enforces.
THEOREM PoliciesRunOut == Spec => []PolicyRunsOut
<1>1. Init => (clock.jumps = 0 => Expires(Lease))
  BY ConfiguredParts, PlaneConstants DEF Init, Expires
<1>2. ASSUME TypeOK, clock.jumps = 0 => Expires(Lease), [Next]_vars, clock'.jumps = 0
      PROVE  Expires(Lease)'
  <2>1. clock.jumps \in Nat /\ DOMAIN clock = {"latest", "jumps", "back"}
    BY <1>2, PlaneConstants DEF TypeOK
  <2>2. clock'.jumps = clock.jumps
    <3>1. ASSUME NEW j \in Jumps, SetClock(j) PROVE FALSE
      <4>1. clock'.jumps = clock.jumps + 1
        BY <2>1, <3>1 DEF SetClock
      <4> QED
        BY <1>2, <2>1, <4>1
    <3>2. ASSUME TakeGeneration PROVE clock'.jumps = clock.jumps
      BY <2>1, <3>2 DEF TakeGeneration
    <3>3. clock' = clock \/ TakeGeneration \/ \E j \in Jumps : SetClock(j)
      BY <1>2 DEF Next, Prepare, Serve, End, vars, Start, LoadMaps, LoadProgram, PrepareExpire,
           PolicyBegin, UpdateMap, NextUpdates, Tick, Command, CommandExpire, Persist, Publish,
           Renew, Failed, PrepareFailed, Terminate, CleanupPublish, CleanupExpire, Crash,
           GateRead, GateRestart, Second
    <3> QED
      BY <3>1, <3>2, <3>3
  <2>3. Expires(Lease) /\ Lease \in Nat
    BY <1>2, <2>2, PlaneConstants
  <2>4. CASE Publish
    BY <2>3, <2>4 DEF Publish, RuntimeDocument, Expires
  <2>5. ASSUME NEW d \in 0..Lease, kernel' = Configured(Lease - d, cfg, mode), UNCHANGED <<file, gate>>
        PROVE  Expires(Lease)'
    BY <2>3, <2>5, ConfiguredParts DEF Expires
  <2>6. ASSUME NEW d \in 0..Lease, Renew(d) PROVE Expires(Lease)'
    BY <2>5, <2>6 DEF Renew
  <2>7. CASE Failed /\ pc = "renew"
    <3>1. CASE UNCHANGED kernel
      BY <2>3, <2>7, <3>1 DEF Failed, Expires
    <3>2. CASE kernel' = Configured(Lease, cfg, mode)
      BY <2>3, <2>7, <3>2, ConfiguredParts DEF Failed, Expires
    <3> QED
      BY <2>7, <3>1, <3>2 DEF Failed
  <2> QED
    BY <1>2, <2>2, <2>3, <2>4, <2>6, <2>7, ExpiresKept
<1>3. Expires(0) /\ TypeOK => kernel.lease = 0 /\ ~GateEnforces
  BY LifeTypes DEF Expires, GateEnforces
<1>4. TypeOK /\ (clock.jumps = 0 => Expires(Lease)) /\ [Next]_vars => (clock.jumps = 0 => Expires(Lease))'
  BY <1>2, Zenon
<1>5. TypeOK /\ (clock.jumps = 0 => Expires(Lease)) => PolicyRunsOut
  BY <1>3 DEF PolicyRunsOut
<1> QED
  BY <1>1, <1>4, <1>5, PlaneTypes, PTL DEF Spec
=============================================================================
