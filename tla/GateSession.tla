---------------------------- MODULE GateSession ----------------------------
(***************************************************************************)
(* The sessions of the gate (gate/src/main.rs): the accept loop, the task  *)
(* of each connection, the five semaphores they share with the refresh of  *)
(* the status cache (gate/src/cache.rs), and the shutdown.                 *)
(*                                                                         *)
(* Permits are taken and dropped one at a time while other threads run: a  *)
(* tuple of try_acquire_owned() calls evaluates all of them before it is   *)
(* matched, and the end of a scope drops its permits one by one.  What the *)
(* limiter and the backend protection answer is left open here; Limiter    *)
(* and BackendProtection model them.                                       *)
(***************************************************************************)
EXTENDS Integers, FiniteSets, GateConfig

CONSTANTS
  Conn,                              \* connections
  TotalSockets, Prelogin, Admitted,  \* limits.total_sockets, prelogin, admitted
  Backend, StatusConnections         \* limits.backend, status_connections

\* Config::validate()
ASSUME SessionAssumption ==
  /\ IsFiniteSet(Conn)
  /\ ValidSockets(TotalSockets, Prelogin, StatusConnections, Admitted, Backend)

VARIABLES
  free,        \* permits left in each semaphore
  pc, hold,    \* where the task of a connection is, the permits it holds
  acceptor,    \* the accept loop: where it is, the permits it holds
  refresh,     \* the cache task
  gate,        \* serving, or the phase of the shutdown
  policy,      \* what runtime.policy() answers for the peers
  met          \* tasks for which the policy was open while they read the login

vars == <<free, pc, hold, acceptor, refresh, gate, policy, met>>

\* A session holds up to two socket permits, one for each of its sockets.
Grant == {"client", "prelogin", "status", "admitted", "backend", "upstream"}
Semaphore == {"sockets", "prelogin", "status", "admitted", "backend"}
Of(g) == IF g \in {"client", "upstream"} THEN "sockets" ELSE g

\* Mutant: no backend slot is kept for the cache task.
PermitsUnreserved(s) ==
  CASE s = "sockets" -> TotalSockets
    [] s = "prelogin" -> Prelogin
    [] s = "admitted" -> Admitted
    [] s = "backend" -> Backend
    [] s = "status" -> IF StatusConnections = 0 THEN Prelogin ELSE StatusConnections

Permits(s) ==
  CASE s = "sockets" -> TotalSockets
    [] s = "prelogin" -> Prelogin
    [] s = "admitted" -> Admitted
    [] s = "backend" -> Backend - 1
    [] s = "status" -> IF StatusConnections = 0 THEN Prelogin ELSE StatusConnections

Policy == {"open", "blocked", "emergency"}

Selecting == [at |-> "select", hold |-> {}]

Init ==
  /\ free = [s \in Semaphore |-> Permits(s)]
  /\ pc = [c \in Conn |-> "idle"] /\ hold = [c \in Conn |-> {}]
  /\ acceptor = Selecting
  /\ refresh = "asleep"
  /\ gate = "serving"
  /\ policy = "open"
  /\ met = {}

Available(g) == free[Of(g)] > 0
Take(g) == free' = [free EXCEPT ![Of(g)] = @ - 1]
Return(g) == free' = [free EXCEPT ![Of(g)] = @ + 1]

-----------------------------------------------------------------------------
(* The accept loop *)

\* A connection of a trusted peer arrives: sockets.try_acquire_owned().  Conn
\* bounds the connections at a time.
AcceptSocket ==
  /\ gate = "serving" /\ acceptor.at = "select"
  /\ \E c \in Conn : pc[c] = "idle"
  /\ \/ /\ Available("client")
        /\ Take("client")
        /\ acceptor' = [at |-> "prelogin", hold |-> {"client"}]
     \/ /\ ~Available("client")
        /\ acceptor' = [at |-> "prelogin", hold |-> {}]
        /\ UNCHANGED free
  /\ UNCHANGED <<pc, hold, refresh, gate, policy, met>>

\* Both permits: the task is spawned.
AcceptSpawn(c) ==
  /\ acceptor = [at |-> "prelogin", hold |-> {"client"}]
  /\ Available("prelogin")
  /\ pc[c] = "idle"
  /\ Take("prelogin")
  /\ pc' = [pc EXCEPT ![c] = "spawned"]
  /\ hold' = [hold EXCEPT ![c] = {"client", "prelogin"}]
  /\ acceptor' = Selecting
  /\ UNCHANGED <<refresh, gate, policy, met>>

\* A permit is missing: prelogin is tried also when sockets had none left.
AcceptShort ==
  /\ acceptor.at = "prelogin"
  /\ \/ /\ Available("prelogin") /\ acceptor.hold = {}
        /\ Take("prelogin")
        /\ acceptor' = [at |-> "refuse", hold |-> {"prelogin"}]
     \/ /\ ~Available("prelogin")
        /\ acceptor' = [acceptor EXCEPT !.at = "refuse"]
        /\ UNCHANGED free
  /\ UNCHANGED <<pc, hold, refresh, gate, policy, met>>

\* Mutant: the refused tuple is kept.
AcceptRefuseLeaks ==
  /\ acceptor.at = "refuse"
  /\ acceptor' = Selecting
  /\ UNCHANGED <<free, pc, hold, refresh, gate, policy, met>>

\* The refused tuple is dropped; it holds at most one permit.
AcceptRefuse ==
  /\ acceptor.at = "refuse"
  /\ acceptor' = Selecting
  /\ \/ \E g \in acceptor.hold : Return(g)
     \/ acceptor.hold = {} /\ UNCHANGED free
  /\ UNCHANGED <<pc, hold, refresh, gate, policy, met>>

-----------------------------------------------------------------------------
(* handle() *)

Move(c, from, to) == pc[c] = from /\ pc' = [pc EXCEPT ![c] = to]

\* The task goes on and touches nothing else.
Proceed(c, from, to) ==
  /\ Move(c, from, to)
  /\ UNCHANGED <<free, hold, acceptor, refresh, gate, policy, met>>

\* The runtime polls the task for the first time.
Start(c) == Proceed(c, "spawned", "hello")

\* Mutant: EMERGENCY is not looked at before the ticket is taken.
IdentifyInEmergency(c) == Proceed(c, "hello", "handshake") /\ policy # "blocked"

\* The peer is known, the policy lets it in and limiter.accept() grants it.
Identify(c) == Proceed(c, "hello", "handshake") /\ policy = "open"

\* A status handshake arrived and enter_status() granted it.  Only a block is
\* looked at here.
AskStatus(c) == Proceed(c, "handshake", "status") /\ policy # "blocked"

\* The status permit is there and the event is granted.
TakeStatus(c) ==
  /\ Move(c, "status", "request")
  /\ Available("status") /\ Take("status")
  /\ hold' = [hold EXCEPT ![c] = @ \cup {"status"}]
  /\ UNCHANGED <<acceptor, refresh, gate, policy, met>>

\* The status request arrived; cache.get() gives the response to be written.
Request(c) == Proceed(c, "request", "respond") /\ policy # "blocked"

\* The response was written in time.
Respond(c) == Proceed(c, "respond", "ping")

\* A login handshake arrived and its event is granted.
AskLogin(c) ==
  /\ Move(c, "handshake", "login")
  /\ policy # "blocked"
  /\ met' = IF policy = "open" THEN met \cup {c} ELSE met
  /\ UNCHANGED <<free, hold, acceptor, refresh, gate, policy>>

\* Mutant: like the handshake, the login looks at a block only.
LoginInEmergency(c) == Proceed(c, "login", "admit") /\ policy # "blocked"

\* The login arrived, the policy read anew lets it in, its event is granted.
Login(c) == Proceed(c, "login", "admit") /\ policy = "open"

\* One try_acquire_owned() of the tuple, which goes on whatever it yields.
Try(c, g, from, to) ==
  /\ Move(c, from, to)
  /\ \/ /\ Available(g)
        /\ Take(g)
        /\ hold' = [hold EXCEPT ![c] = @ \cup {g}]
     \/ ~Available(g) /\ UNCHANGED <<free, hold>>
  /\ UNCHANGED <<acceptor, refresh, gate, policy, met>>

TryAdmitted(c) == Try(c, "admitted", "admit", "slot")
TryBackend(c) == Try(c, "backend", "slot", "socket")
TrySocket(c) == Try(c, "upstream", "socket", "match")

Reservation == {"admitted", "backend", "upstream"}

\* All three permits, and backend_protection.enter() lets the task dial.
EnterBackend(c) == Proceed(c, "match", "dial") /\ Reservation \subseteq hold[c]

\* One of the three is missing.
Short(c) == Proceed(c, "match", "short") /\ ~(Reservation \subseteq hold[c])

\* The backend has the login: drop(admission) frees the prelogin permit.
Connected(c) ==
  /\ Move(c, "dial", "relay")
  /\ hold' = [hold EXCEPT ![c] = @ \ {"prelogin"}]
  /\ Return("prelogin")
  /\ met' = met \ {c}
  /\ UNCHANGED <<acceptor, refresh, gate, policy>>

\* Mutant: the wait for the ping has no deadline.
EarlyPatient == {"hello", "handshake", "status", "request", "respond", "login", "dial"}

\* The places where handle() can return early: an error or a deadline of the
\* client or the backend, the policy, or a refusal by the limiter, the status
\* semaphore or the backend protection.
Early == {"hello", "handshake", "status", "request", "respond", "ping",
          "login", "dial"}

Leave(c) ==
  /\ pc' = [pc EXCEPT ![c] = "leave"]
  /\ met' = met \ {c}
  /\ UNCHANGED <<free, hold, acceptor, refresh, gate, policy>>

Close(c) ==
  /\ pc[c] \in Early \/ (pc[c] = "match" /\ Reservation \subseteq hold[c])
  /\ Leave(c)

\* protected_copy() returns.
RelayEnds(c) == pc[c] = "relay" /\ Leave(c)

-----------------------------------------------------------------------------
(* Dropping permits *)

Drop(c, g) ==
  /\ Return(g)
  /\ hold' = [hold EXCEPT ![c] = @ \ {g}]
  /\ UNCHANGED <<acceptor, refresh, gate, policy>>

\* A tuple that does not match drops its fields in order.
FieldOrder == [admitted |-> 1, backend |-> 2, upstream |-> 3]

DropField(c, g) ==
  /\ pc[c] = "short"
  /\ g \in hold[c] \cap Reservation
  /\ \A h \in hold[c] \cap Reservation : FieldOrder[g] <= FieldOrder[h]
  /\ Drop(c, g)
  /\ UNCHANGED <<pc, met>>

\* The empty tuple is gone: handle() returns.
GiveUp(c) ==
  /\ pc[c] = "short" /\ hold[c] \cap Reservation = {}
  /\ Leave(c)

\* Locals go in reverse order of declaration, then the argument admission, and
\* with the end of the spawned block the socket permit.
ScopeOrder ==
  [upstream |-> 1, backend |-> 2, admitted |-> 3, status |-> 4, prelogin |-> 5, client |-> 6]

DropLocal(c, g) ==
  /\ pc[c] = "leave"
  /\ g \in hold[c]
  /\ \A h \in hold[c] : ScopeOrder[g] <= ScopeOrder[h]
  /\ Drop(c, g)
  /\ pc' = IF hold[c] = {g} THEN [pc EXCEPT ![c] = "idle"] ELSE pc
  /\ UNCHANGED met

\* A task that was never polled drops what it captured, in whatever order.
DropCaptured(c, g) ==
  /\ pc[c] = "scrap"
  /\ g \in hold[c]
  /\ Drop(c, g)
  /\ pc' = IF hold[c] = {g} THEN [pc EXCEPT ![c] = "idle"] ELSE pc
  /\ UNCHANGED met

-----------------------------------------------------------------------------
(* The cache task, the controller and the shutdown *)

\* refresh() wakes up and finds a socket permit; without one it sleeps again.
Poll ==
  /\ refresh = "asleep" /\ Available("upstream")
  /\ Take("upstream")
  /\ refresh' = "polling"
  /\ UNCHANGED <<pc, hold, acceptor, gate, policy, met>>

\* poll() answered, failed or ran into backend_ms.
PollEnds ==
  /\ refresh = "polling"
  /\ Return("upstream")
  /\ refresh' = "asleep"
  /\ UNCHANGED <<pc, hold, acceptor, gate, policy, met>>

\* refresh.abort() takes effect.
RefreshAborted ==
  /\ gate # "serving" /\ refresh # "aborted"
  /\ refresh' = "aborted"
  /\ \/ refresh = "polling" /\ Return("upstream")
     \/ refresh = "asleep" /\ UNCHANGED free
  /\ UNCHANGED <<pc, hold, acceptor, gate, policy, met>>

\* Another policy comes into force for the peers.
Publish(p) ==
  /\ p # policy
  /\ policy' = p
  /\ met' = IF p = "open" THEN met \cup {c \in Conn : pc[c] = "login"} ELSE met
  /\ UNCHANGED <<free, pc, hold, acceptor, refresh, gate>>

Alive == {c \in Conn : pc[c] # "idle"}

\* The signal is seen when the loop selects again.
Shutdown ==
  /\ gate = "serving" /\ acceptor.at = "select"
  /\ gate' = "draining"
  /\ UNCHANGED <<free, pc, hold, acceptor, refresh, policy, met>>

\* shutdown_seconds have passed: abort_all().
DrainExpires ==
  /\ gate = "draining" /\ Alive # {}
  /\ gate' = "aborting"
  /\ UNCHANGED <<free, pc, hold, acceptor, refresh, policy, met>>

\* The last task was joined.
Drained ==
  /\ gate \in {"draining", "aborting"} /\ Alive = {}
  /\ gate' = "stopped"
  /\ UNCHANGED <<free, pc, hold, acceptor, refresh, policy, met>>

\* Mutant: only tasks that are still logging in are aborted.
CancelPrelogin(c) ==
  /\ gate = "aborting" /\ "prelogin" \in hold[c]
  /\ \/ pc[c] \in Early \ {"status"} /\ Leave(c)
     \/ Proceed(c, "spawned", "scrap")

\* An aborted task is dropped where it waits, or before it ever ran.
Cancel(c) ==
  /\ gate = "aborting"
  /\ \/ pc[c] \in (Early \ {"status"}) \cup {"relay"} /\ Leave(c)
     \/ Proceed(c, "spawned", "scrap")

-----------------------------------------------------------------------------
Advance(c) ==
  \/ Start(c) \/ Identify(c)
  \/ AskStatus(c) \/ TakeStatus(c) \/ Request(c) \/ Respond(c)
  \/ AskLogin(c) \/ Login(c)
  \/ TryAdmitted(c) \/ TryBackend(c) \/ TrySocket(c)
  \/ EnterBackend(c) \/ Short(c) \/ Connected(c) \/ Close(c)

Release(c) ==
  \/ GiveUp(c)
  \/ \E g \in Grant : DropField(c, g) \/ DropLocal(c, g) \/ DropCaptured(c, g)

Accept == AcceptSocket \/ AcceptShort \/ AcceptRefuse
Stop == Shutdown \/ DrainExpires \/ Drained
Refresh == Poll \/ PollEnds \/ RefreshAborted

Next ==
  \/ Accept \/ Refresh \/ Stop
  \/ \E p \in Policy : Publish(p)
  \/ \E c \in Conn :
       AcceptSpawn(c) \/ Advance(c) \/ Release(c) \/ RelayEnds(c) \/ Cancel(c)

Spec == Init /\ [][Next]_vars

\* Every wait of handle() before the relay has a deadline and dropping waits
\* for nothing, so a scheduled task goes on.  A relay may last for ever: its
\* timers can be disabled.  The drain has a deadline, and an aborted task is
\* dropped by the runtime.
Fairness ==
  /\ \A c \in Conn : WF_vars(Advance(c) \/ Release(c) \/ Cancel(c))
  /\ WF_vars(AcceptRefuse)
  /\ WF_vars(DrainExpires \/ Drained)

FairSpec == Spec /\ Fairness

-----------------------------------------------------------------------------
(* Properties *)

PC == Early \cup {"idle", "spawned", "admit", "slot", "socket", "match", "short",
                  "relay", "leave", "scrap"}

\* Every variable keeps its type; no semaphore counts below zero.
TypeOK ==
  /\ free \in [Semaphore -> Nat]
  /\ pc \in [Conn -> PC] /\ hold \in [Conn -> SUBSET Grant]
  /\ acceptor \in [at : {"select", "prelogin", "refuse"}, hold : SUBSET {"client", "prelogin"}]
  /\ refresh \in {"asleep", "polling", "aborted"}
  /\ gate \in {"serving", "draining", "aborting", "stopped"}
  /\ policy \in Policy
  /\ met \subseteq Conn

Holders(g) == {c \in Conn : g \in hold[c]}
Truth(b) == IF b THEN 1 ELSE 0

\* Permits out of each semaphore: those of tasks, of the accept loop and of the
\* cache task.
Used(s) ==
  CASE s = "sockets" -> Cardinality(Holders("client")) + Cardinality(Holders("upstream"))
                        + Truth("client" \in acceptor.hold) + Truth(refresh = "polling")
    [] s = "prelogin" -> Cardinality(Holders("prelogin")) + Truth("prelogin" \in acceptor.hold)
    [] OTHER -> Cardinality(Holders(s))

\* No way out of handle(), the accept loop or the cache task loses a permit or
\* returns one twice, also when the task is aborted.
PermitsConserved == \A s \in Semaphore : free[s] + Used(s) = Permits(s)

In(where) == {c \in Conn : pc[c] \in where}

\* The configured limits bound what they are named for: sessions before the
\* relay, status sessions, relays, and connections to the backend with the one
\* of the cache task.
LimitsHold ==
  /\ Cardinality(In(Early \cup {"admit", "slot", "socket", "match"})) <= Prelogin
  /\ Cardinality(In({"request", "respond", "ping"})) <= Permits("status")
  /\ Cardinality(In({"relay"})) <= Admitted
  /\ Cardinality(In({"dial", "relay"})) + Truth(refresh = "polling") <= Backend

\* Tasks that are between two drops, or between two tries that will not match,
\* and hold a socket permit without the permit it goes with.
Stray ==
  {c \in Conn :
     \/ "client" \in hold[c] /\ hold[c] \cap {"prelogin", "admitted"} = {}
     \/ "upstream" \in hold[c] /\ "backend" \notin hold[c]}

\* A login that has its backend permit and needs a socket permit for it.
Awaiting == {c \in Conn : "backend" \in hold[c] /\ "upstream" \notin hold[c]}

\* docs/CONFIGURATION.md:97 "The sum of prelogin, admitted and backend must fit
\* inside" total_sockets, and "One backend slot is reserved for the single cache
\* task": that sizing leaves a socket permit for every login with a backend
\* permit and one for the cache task, except while a task that is leaving or
\* was refused, or the accept loop, holds a socket permit for an instant longer
\* than the permit it goes with.
SocketReserved ==
  Stray = {} /\ acceptor.hold \subseteq {"prelogin"}
    => free["sockets"] + Truth(refresh = "polling") > Cardinality(Awaiting)

Entered == {"client", "prelogin"}

\* What a task holds follows from where it is; only a reservation and a drop
\* under way leave it open.
HoldsMatch ==
  \A c \in Conn :
    /\ pc[c] = "idle" => hold[c] = {}
    /\ pc[c] \in {"spawned", "hello", "handshake", "status", "login", "admit"}
         => hold[c] = Entered
    /\ pc[c] \in {"request", "respond", "ping"} => hold[c] = Entered \cup {"status"}
    /\ pc[c] = "slot" => hold[c] \ {"admitted"} = Entered
    /\ pc[c] = "socket" => hold[c] \ {"admitted", "backend"} = Entered
    /\ pc[c] = "match" => hold[c] \ Reservation = Entered
    /\ pc[c] = "dial" => hold[c] = Entered \cup Reservation
    /\ pc[c] = "relay" => hold[c] = {"client"} \cup Reservation

\* The accept loop holds at most the permit that its refused tuple has.
AcceptorMatches ==
  /\ acceptor.at = "select" => acceptor.hold = {}
  /\ acceptor.at = "prelogin" => acceptor.hold \in {{}, {"client"}}
  /\ acceptor.at = "refuse" => acceptor.hold \in {{}, {"client"}, {"prelogin"}}

\* The policy is read once per stage and can be replaced at any time.  No login
\* goes on to the backend unless the policy was open at some time after its
\* handshake was accepted: what was read for the handshake is never used again.
LoginsMeetOpenPolicy ==
  \A c \in Conn : pc[c] \in {"admit", "slot", "socket", "match", "dial"} => c \in met

\* The history has every task that could read an open policy now.
OpenNoted == policy = "open" => \A c \in Conn : pc[c] = "login" => c \in met

\* What every step preserves.
Inductive ==
  /\ TypeOK /\ PermitsConserved /\ HoldsMatch /\ AcceptorMatches
  /\ LoginsMeetOpenPolicy /\ OpenNoted

\* A lasting EMERGENCY leaves, after the sessions under way, nothing but
\* relays: no session gets as far as its handshake.
EmergencyClears ==
  <>[](policy = "emergency") =>
    <>[](\A c \in Conn : pc[c] \in {"idle", "spawned", "hello", "leave", "scrap", "relay"})

\* Sessions that never get anywhere do not keep the gate shut: whenever all
\* prelogin permits are taken, one comes back, as every session before its
\* relay ends or becomes one.
PreloginReopens == free["prelogin"] = 0 ~> free["prelogin"] > 0

\* A shutdown ends, whatever relays are open.
ShutdownEnds == gate = "draining" ~> gate = "stopped"
=============================================================================
