--------------------------- MODULE Provisioning ---------------------------
(***************************************************************************)
(* Machine provisioning by the edge's control plane                        *)
(* (crates/controlplane/src/controlplane/mod.rs).                          *)
(*                                                                         *)
(* A machine is a record in Redis plus live wiring: a WireGuard peer in    *)
(* the kernel, two public listeners in the forwarder and an AAAA record.   *)
(* Handlers run concurrently, and each of them is a sequence of awaited    *)
(* Redis commands, `wg` invocations, binds and DNS calls.  One action here *)
(* is one of those calls.  The process may crash between any two of them,  *)
(* the host may reboot, a wiring call may fail, and a handler may be cut   *)
(* off at an await (a Redis error, or a dropped connection whose future is *)
(* cancelled).                                                             *)
(*                                                                         *)
(* A machine's /128 and its tunnel IP are both functions of its host       *)
(* index, so the index stands for the pair.  The machine index list is     *)
(* kept as the number of times a name occurs in it.                        *)
(***************************************************************************)
EXTENDS Integers, FiniteSets

CONSTANTS
    Names,        \* valid machine names
    Keys,         \* WireGuard public keys
    KeysOf,       \* environment: the keys presented for each name (any valid
                  \* key may be, and one key may be presented for two names)
    NoKey,        \* "no key"
    NoName,       \* "no name"
    Reqs,         \* concurrent handler invocations
    Capacity,     \* largest host index the smaller of the two subnets holds
    Overlap,      \* sets of operations that may overlap on one name
    MaxCounter,   \* bound on the allocation counter
    MaxCrashes,   \* bound on crashes and reboots
    MaxFaults,    \* bound on failed wg / bind / DNS calls
    MaxAborts     \* bound on handlers cut off at an await

Operations == {"alloc", "delete"}

ASSUME KeysAssumption ==
    /\ NoKey \notin Keys
    /\ NoName \notin Names
    /\ KeysOf \in [Names -> SUBSET Keys]

ASSUME BoundsAssumption ==
    /\ Capacity \in Nat
    /\ MaxCounter \in Nat
    /\ MaxCrashes \in Nat
    /\ MaxFaults \in Nat
    /\ MaxAborts \in Nat
    /\ Overlap \subseteq SUBSET Operations

VARIABLES
    rec,       \* Redis: fortress:machine:{name}; idx 0 when there is none
    counter,   \* Redis: fortress:alloc:next; 0 when the key is absent
    listed,    \* Redis: occurrences of each name in fortress:machines
    route,     \* kernel: the index whose tunnel IP a key's peer owns, or 0
    listener,  \* forwarder: the public ports bound on each index's /128
    dns,       \* provider: the index the name's AAAA records point at, or 0
    edge,      \* the edge process: "down", "booting" or "up"
    todo,      \* names rehydrate has still to wire
    pc,        \* where each handler is
    loc,       \* each handler's local variables
    used,      \* crashes, faults and aborts that have happened
    heldBy,    \* history: the name each index was last handed to
    gaveBack   \* history: whether an index has been given back to the counter

redis == <<rec, counter, listed>>
wiring == <<route, listener, dns>>
process == <<edge, todo>>
vars == <<rec, counter, listed, route, listener, dns, edge, todo,
          pc, loc, used, heldBy, gaveBack>>
history == <<heldBy, gaveBack>>

-----------------------------------------------------------------------------
EdgePorts == {80, 443}
Indices == 1..MaxCounter
NoRecord == [key |-> NoKey, idx |-> 0]
Idle == [op |-> "none", name |-> NoName, key |-> NoKey, old |-> NoKey,
         idx |-> 0, port |-> 80]

\* The counter as INCR finds it: SETNX has put a 1 where the key was absent.
CounterValue == IF counter = 0 THEN 1 ELSE counter

Exists(n) == rec[n].idx # 0
InFlight(n) == {r \in Reqs : loc[r].name = n}
Wired(n) ==
    /\ route[rec[n].key] = rec[n].idx
    /\ listener[rec[n].idx] = EdgePorts

\* Points at which a handler awaits Redis, the forwarder or the DNS provider.
AwaitPoints == {"count", "claim", "giveback", "push", "forward", "dns",
                "persist", "undns", "del", "lrem", "rbDel", "rbLrem"}
\* Points reached without an await since the previous call.
SyncPoints == {"ensure", "unpeer", "repeer", "wire", "unwire", "rbUnwire"}

Points == {"idle"} \cup AwaitPoints \cup SyncPoints

Machine == [key : Keys \cup {NoKey}, idx : 0..MaxCounter]
Locals == [op : Operations \cup {"none"}, name : Names \cup {NoName},
           key : Keys \cup {NoKey}, old : Keys \cup {NoKey},
           idx : 0..MaxCounter, port : EdgePorts]
Troubles == {"crash", "fault", "abort"}

\* Every variable has its type.
TypeOK ==
    /\ rec \in [Names -> Machine]
    /\ counter \in Int /\ counter <= MaxCounter
    /\ listed \in [Names -> Nat]
    /\ route \in [Keys -> 0..MaxCounter]
    /\ listener \in [Indices -> SUBSET EdgePorts]
    /\ dns \in [Names -> 0..MaxCounter]
    /\ edge \in {"down", "booting", "up"}
    /\ todo \in SUBSET Names
    /\ pc \in [Reqs -> Points]
    /\ loc \in [Reqs -> Locals]
    /\ used \in [Troubles -> Nat]
    /\ heldBy \in [Indices -> Names \cup {NoName}]
    /\ gaveBack \in BOOLEAN

Init ==
    /\ rec = [n \in Names |-> NoRecord]
    /\ counter = 0
    /\ listed = [n \in Names |-> 0]
    /\ route = [k \in Keys |-> 0]
    /\ listener = [i \in Indices |-> {}]
    /\ dns = [n \in Names |-> 0]
    /\ edge = "down"
    /\ todo = {}
    /\ pc = [r \in Reqs |-> "idle"]
    /\ loc = [r \in Reqs |-> Idle]
    /\ used = [u \in Troubles |-> 0]
    /\ heldBy = [i \in Indices |-> NoName]
    /\ gaveBack = FALSE

-----------------------------------------------------------------------------
(***************************************************************************)
(* The kernel's peer table.  `wg set wg0 peer K allowed-ips X/32` replaces *)
(* K's allowed-ips by X and takes X away from any other peer;              *)
(* `wg set wg0 peer K remove` drops the peer.                              *)
(***************************************************************************)
AddPeer(i, k) ==
    [j \in Keys |-> IF j = k THEN i ELSE IF route[j] = i THEN 0 ELSE route[j]]
RemovePeer(k) == [route EXCEPT ![k] = 0]

Goto(r, p) == pc' = [pc EXCEPT ![r] = p] /\ UNCHANGED loc
Return(r) ==
    /\ pc' = [pc EXCEPT ![r] = "idle"]
    /\ loc' = [loc EXCEPT ![r] = Idle]

\* The record a handler writes.
MachineOf(r) == [key |-> loc[r].key, idx |-> loc[r].idx]

NoFault == UNCHANGED used
Fault ==
    /\ used["fault"] < MaxFaults
    /\ used' = [used EXCEPT !["fault"] = @ + 1]

\* An operation may start on a name while the handlers already running on
\* that name are ones it may overlap with.
MayStart(op, n) ==
    \A q \in Reqs : loc[q].name = n => {op, loc[q].op} \in Overlap

-----------------------------------------------------------------------------
(***************************************************************************)
(* allocate_machine                                                        *)
(***************************************************************************)

\* GET the record: absent - allocate; same key - re-ensure the peer;
\* another key - rotate.  Nothing ties a key to a name: KeysOf is what callers
\* send.  The bound keeps the counter within MaxCounter.
BeginAlloc(r, n, k) ==
    /\ edge = "up" /\ pc[r] = "idle"
    /\ k \in KeysOf[n]
    /\ MayStart("alloc", n)
    /\ ~Exists(n) =>
         CounterValue + Cardinality({q \in Reqs : pc[q] = "count"}) < MaxCounter
    /\ pc' = [pc EXCEPT ![r] = IF ~Exists(n) THEN "count"
                               ELSE IF rec[n].key = k THEN "ensure"
                               ELSE "unpeer"]
    /\ loc' = [loc EXCEPT ![r] =
                 [op |-> "alloc", name |-> n, key |-> k, old |-> rec[n].key,
                  idx |-> rec[n].idx, port |-> 80]]
    /\ UNCHANGED <<redis, wiring, process, used, history>>

\* Same key: add_peer again; a failure is only logged.
EnsurePeer(r) ==
    /\ pc[r] = "ensure"
    /\ \/ route' = AddPeer(loc[r].idx, loc[r].key) /\ NoFault
       \/ Fault /\ UNCHANGED route
    /\ Return(r)
    /\ UNCHANGED <<redis, listener, dns, process, history>>

\* Rotation, first call: remove the old peer; a failure is only logged.
RemoveOldPeer(r) ==
    /\ pc[r] = "unpeer"
    /\ \/ route' = RemovePeer(loc[r].old) /\ NoFault
       \/ Fault /\ UNCHANGED route
    /\ Goto(r, "repeer")
    /\ UNCHANGED <<redis, listener, dns, process, history>>

\* Rotation, second call: add the new key; a failure ends the request.
AddNewPeer(r) ==
    /\ pc[r] = "repeer"
    /\ \/ /\ route' = AddPeer(loc[r].idx, loc[r].key)
          /\ NoFault
          /\ Goto(r, "persist")
       \/ /\ Fault
          /\ Return(r)
          /\ UNCHANGED route
    /\ UNCHANGED <<redis, listener, dns, process, history>>

\* Mutant: the rotated record takes the counter's index, not the one it had.
PersistKeyNewIndex(r) ==
    /\ pc[r] = "persist"
    /\ rec' = [rec EXCEPT ![loc[r].name] =
                 [key |-> loc[r].key, idx |-> CounterValue]]
    /\ Return(r)
    /\ UNCHANGED <<counter, listed, wiring, process, used, history>>

\* Rotation, third call: SET the record with the new key.
PersistKey(r) ==
    /\ pc[r] = "persist"
    /\ rec' = [rec EXCEPT ![loc[r].name] = MachineOf(r)]
    /\ Return(r)
    /\ UNCHANGED <<counter, listed, wiring, process, used, history>>

\* SETNX the counter to 1, then INCR it.  An index below 2 is refused, and
\* host_string panics on an index beyond the subnet.
Count(r) ==
    LET index == CounterValue + 1
    IN  /\ pc[r] = "count"
        /\ index \in Indices
        /\ counter' = index
        /\ IF index >= 2 /\ index <= Capacity
             THEN /\ pc' = [pc EXCEPT ![r] = "claim"]
                  /\ loc' = [loc EXCEPT ![r].idx = index]
                  /\ heldBy' = [heldBy EXCEPT ![index] = loc[r].name]
             ELSE Return(r) /\ UNCHANGED heldBy
        /\ UNCHANGED <<rec, listed, wiring, process, used, gaveBack>>

\* SETNX the record: the name is the key, so a second claimant loses here.
Claim(r) ==
    /\ pc[r] = "claim"
    /\ IF Exists(loc[r].name)
         THEN Goto(r, "giveback") /\ UNCHANGED rec
         ELSE /\ rec' = [rec EXCEPT ![loc[r].name] = MachineOf(r)]
              /\ Goto(r, "push")
    /\ UNCHANGED <<counter, listed, wiring, process, used, history>>

\* The loser of the race DECRs the counter and reports Duplicate.
GiveBack(r) ==
    /\ pc[r] = "giveback"
    /\ counter' = counter - 1
    /\ gaveBack' = TRUE
    /\ Return(r)
    /\ UNCHANGED <<rec, listed, wiring, process, used, heldBy>>

\* RPUSH the name onto the machine index.
PushIndex(r) ==
    /\ pc[r] = "push"
    /\ listed' = [listed EXCEPT ![loc[r].name] = @ + 1]
    /\ Goto(r, "wire")
    /\ UNCHANGED <<rec, counter, wiring, process, used, history>>

\* add_peer; a failure rolls the allocation back.
WirePeer(r) ==
    /\ pc[r] = "wire"
    /\ \/ /\ route' = AddPeer(loc[r].idx, loc[r].key)
          /\ NoFault
          /\ Goto(r, "forward")
       \/ /\ Fault
          /\ Goto(r, "rbDel")
          /\ UNCHANGED route
    /\ UNCHANGED <<redis, listener, dns, process, history>>

\* add_forward for :80, then for :443; a failure rolls back.
WireForward(r) ==
    LET i == loc[r].idx
        p == loc[r].port
    IN  /\ pc[r] = "forward"
        /\ \/ /\ listener' = [listener EXCEPT ![i] = @ \cup {p}]
              /\ NoFault
              /\ IF p = 80
                   THEN loc' = [loc EXCEPT ![r].port = 443] /\ UNCHANGED pc
                   ELSE Goto(r, "dns")
           \/ /\ Fault
              /\ Goto(r, "rbDel")
              /\ UNCHANGED listener
        /\ UNCHANGED <<redis, route, dns, process, history>>

\* upsert_machine, last and non-fatal; the request answers Created.
UpsertDns(r) ==
    /\ pc[r] = "dns"
    /\ \/ dns' = [dns EXCEPT ![loc[r].name] = loc[r].idx] /\ NoFault
       \/ Fault /\ UNCHANGED dns
    /\ Return(r)
    /\ UNCHANGED <<redis, route, listener, process, history>>

-----------------------------------------------------------------------------
(***************************************************************************)
(* rollback_allocation: DEL, LREM, then unwire.                            *)
(***************************************************************************)
\* Mutant: rollback also gives the index back.
RollbackRecordGiveBack(r) ==
    /\ pc[r] = "rbDel"
    /\ rec' = [rec EXCEPT ![loc[r].name] = NoRecord]
    /\ counter' = counter - 1
    /\ Goto(r, "rbLrem")
    /\ UNCHANGED <<listed, wiring, process, used, history>>

RollbackRecord(r) ==
    /\ pc[r] = "rbDel"
    /\ rec' = [rec EXCEPT ![loc[r].name] = NoRecord]
    /\ Goto(r, "rbLrem")
    /\ UNCHANGED <<counter, listed, wiring, process, used, history>>

Lrem(n) == [listed EXCEPT ![n] = IF @ = 0 THEN 0 ELSE @ - 1]

\* Mutant: rollback stops after the store entry and leaves the wiring.
RollbackIndexOnly(r) ==
    /\ pc[r] = "rbLrem"
    /\ listed' = Lrem(loc[r].name)
    /\ Return(r)
    /\ UNCHANGED <<rec, counter, wiring, process, used, history>>

RollbackIndex(r) ==
    /\ pc[r] = "rbLrem"
    /\ listed' = Lrem(loc[r].name)
    /\ Goto(r, "rbUnwire")
    /\ UNCHANGED <<rec, counter, wiring, process, used, history>>

\* remove_peer (a failure is only logged) and remove_forward for both ports.
Unwire(r) ==
    /\ \/ route' = RemovePeer(loc[r].key) /\ NoFault
       \/ Fault /\ UNCHANGED route
    /\ listener' = [listener EXCEPT ![loc[r].idx] = {}]
    /\ UNCHANGED <<redis, dns, process, history>>

RollbackWiring(r) == pc[r] = "rbUnwire" /\ Unwire(r) /\ Return(r)

-----------------------------------------------------------------------------
(***************************************************************************)
(* delete: GET, unwire, DNS, and the store entry last.                     *)
(***************************************************************************)
BeginDelete(r, n) ==
    /\ edge = "up" /\ pc[r] = "idle"
    /\ Exists(n)
    /\ MayStart("delete", n)
    /\ pc' = [pc EXCEPT ![r] = "unwire"]
    /\ loc' = [loc EXCEPT ![r] =
                 [op |-> "delete", name |-> n, key |-> rec[n].key,
                  old |-> NoKey, idx |-> rec[n].idx, port |-> 80]]
    /\ UNCHANGED <<redis, wiring, process, used, history>>

\* delete of a name with no record answers NotFound and changes nothing.
DeleteUnknown(n) ==
    /\ edge = "up"
    /\ ~Exists(n)
    /\ UNCHANGED vars

DeleteWiring(r) == pc[r] = "unwire" /\ Unwire(r) /\ Goto(r, "undns")

\* remove_machine at the DNS provider; a failure is only logged.
DeleteDns(r) ==
    /\ pc[r] = "undns"
    /\ \/ dns' = [dns EXCEPT ![loc[r].name] = 0] /\ NoFault
       \/ Fault /\ UNCHANGED dns
    /\ Goto(r, "del")
    /\ UNCHANGED <<redis, route, listener, process, history>>

\* Mutant: delete returns the index to the pool with the name.
DeleteRecordGiveBack(r) ==
    /\ pc[r] = "del"
    /\ rec' = [rec EXCEPT ![loc[r].name] = NoRecord]
    /\ counter' = counter - 1
    /\ Goto(r, "lrem")
    /\ UNCHANGED <<listed, wiring, process, used, history>>

DeleteRecord(r) ==
    /\ pc[r] = "del"
    /\ rec' = [rec EXCEPT ![loc[r].name] = NoRecord]
    /\ Goto(r, "lrem")
    /\ UNCHANGED <<counter, listed, wiring, process, used, history>>

DeleteIndex(r) ==
    /\ pc[r] = "lrem"
    /\ listed' = Lrem(loc[r].name)
    /\ Return(r)
    /\ UNCHANGED <<rec, counter, wiring, process, used, history>>

-----------------------------------------------------------------------------
(***************************************************************************)
(* Failures and boot.                                                      *)
(***************************************************************************)

\* A Redis error, or a dropped connection, ends the handler at an await.
Abort(r) ==
    /\ pc[r] \in AwaitPoints
    /\ used["abort"] < MaxAborts
    /\ used' = [used EXCEPT !["abort"] = @ + 1]
    /\ Return(r)
    /\ UNCHANGED <<redis, wiring, process, history>>

\* The process dies: handlers and listeners go with it, Redis and DNS stay.
\* The kernel's peers stay too, unless the host goes down with the process.
Crash ==
    /\ edge # "down"
    /\ used["crash"] < MaxCrashes
    /\ used' = [used EXCEPT !["crash"] = @ + 1]
    /\ edge' = "down"
    /\ todo' = {}
    /\ listener' = [i \in Indices |-> {}]
    /\ route' \in {route, [k \in Keys |-> 0]}
    /\ pc' = [r \in Reqs |-> "idle"]
    /\ loc' = [r \in Reqs |-> Idle]
    /\ UNCHANGED <<redis, dns, history>>

\* Mutant: the edge boots without rehydrating.
BootUnhydrated ==
    /\ edge = "down"
    /\ edge' = "booting"
    /\ todo' = {}
    /\ UNCHANGED <<redis, wiring, pc, loc, used, history>>

\* init_globals up to rehydrate's list(): the indexed names with a record.
Boot ==
    /\ edge = "down"
    /\ edge' = "booting"
    /\ todo' = {n \in Names : listed[n] > 0 /\ Exists(n)}
    /\ UNCHANGED <<redis, wiring, pc, loc, used, history>>

\* Mutant: rehydrate binds the listeners but does not add the peer.
RehydrateListeners(n) ==
    /\ edge = "booting"
    /\ n \in todo
    /\ todo' = todo \ {n}
    /\ listener' = [listener EXCEPT ![rec[n].idx] = EdgePorts]
    /\ UNCHANGED <<redis, route, dns, edge, pc, loc, used, history>>

\* rehydrate one machine; a failed add_peer or bind is only logged.
Rehydrate(n) ==
    LET i == rec[n].idx
    IN  /\ edge = "booting"
        /\ n \in todo
        /\ todo' = todo \ {n}
        /\ \/ /\ route' = AddPeer(i, rec[n].key)
              /\ listener' = [listener EXCEPT ![i] = EdgePorts]
              /\ NoFault
           \/ /\ Fault
              /\ route' \in {route, AddPeer(i, rec[n].key)}
              /\ \E ports \in SUBSET EdgePorts :
                   listener' = [listener EXCEPT ![i] = @ \cup ports]
        /\ UNCHANGED <<redis, dns, edge, pc, loc, history>>

\* rehydrate has returned: the edge starts to serve the API.
Serve ==
    /\ edge = "booting"
    /\ todo = {}
    /\ edge' = "up"
    /\ UNCHANGED <<redis, wiring, todo, pc, loc, used, history>>

-----------------------------------------------------------------------------
Start(r) ==
    \/ \E n \in Names, k \in Keys : BeginAlloc(r, n, k)
    \/ \E n \in Names : BeginDelete(r, n)

Step(r) ==
    \/ EnsurePeer(r)
    \/ RemoveOldPeer(r)
    \/ AddNewPeer(r)
    \/ PersistKey(r)
    \/ Count(r)
    \/ Claim(r)
    \/ GiveBack(r)
    \/ PushIndex(r)
    \/ WirePeer(r)
    \/ WireForward(r)
    \/ UpsertDns(r)
    \/ RollbackRecord(r)
    \/ RollbackIndex(r)
    \/ RollbackWiring(r)
    \/ DeleteWiring(r)
    \/ DeleteDns(r)
    \/ DeleteRecord(r)
    \/ DeleteIndex(r)

Next ==
    \/ \E r \in Reqs : Start(r) \/ Step(r) \/ Abort(r)
    \/ \E n \in Names : DeleteUnknown(n) \/ Rehydrate(n)
    \/ Crash
    \/ Boot
    \/ Serve

Spec == Init /\ [][Next]_vars

\* Handlers and the boot sequence make progress: the async runtime polls
\* every ready task, and systemd restarts a process that died.
Fairness ==
    /\ \A r \in Reqs : WF_vars(Step(r))
    /\ WF_vars(Boot)
    /\ WF_vars(Serve)
    /\ \A n \in Names : WF_vars(Rehydrate(n))

FairSpec == Spec /\ Fairness

-----------------------------------------------------------------------------
(***************************************************************************)
(* Properties.                                                             *)
(***************************************************************************)

\* What allocate_machine's INCR promises: "no two enrollments can get the
\* same host index", so no two machines share a /128 and a tunnel IP.
IncrIsUnique ==
    \A m, n \in Names : m # n /\ Exists(m) => rec[m].idx # rec[n].idx

\* The promise holds under every interleaving of allocations, rotations and
\* deletions, with handlers cut off anywhere and restarts, for as long as no
\* loser of a race on a name has given its index back.
NoSharedIndex == ~gaveBack => IncrIsUnique

\* As long, a machine's tunnel IP is routed to nothing but a key that was
\* presented for that machine, whatever deletions, rollbacks, cut-off handlers
\* and restarts left behind in the kernel, and also when one key is presented
\* for several machines.  Who may present a key for a name is not
\* allocate_machine's business: it takes any.
TunnelIsolation ==
    ~gaveBack =>
        \A n \in Names : Exists(n) =>
            \A k \in Keys : route[k] = rec[n].idx => k \in KeysOf[n]

Table == INSTANCE Registry WITH entry <- rec, owner <- heldBy, void <- gaveBack,
                                Serial <- (Overlap = {})

\* Provisioning implements the registry, for every overlap of operations and
\* through crashes, restarts, rollbacks, failed calls and cut-off handlers: an
\* index is reserved for one name once, a name only ever gets an index reserved
\* for it, and a machine appears, changes its key and disappears in one step
\* each; where operations on a name do not overlap it keeps its index for life.
\* Rollback and delete reserve nothing anew and return nothing: the code never
\* gives a rolled-back /128 back, whatever its comments say.
ImplementsRegistry == Table!Spec

\* No key of the name is presented for another name.
Private(n) == \A m \in Names \ {n} : KeysOf[m] \cap KeysOf[n] = {}

\* Every public listener belongs to a machine that still has a record or
\* that a running handler is about to unwire: delete removes the store entry
\* last and rollback unwires after it, so none is left unfixable.
NoOrphanListener ==
    used["abort"] = 0 =>
        \A i \in Indices : listener[i] # {} =>
            \/ \E n \in Names : rec[n].idx = i
            \/ \E r \in Reqs : loc[r].idx = i

\* Once the edge serves, every indexed machine that no handler is working on
\* has its peer and both listeners: rehydrate wires up what a crash left
\* half done, wherever in allocation, rotation or deletion it struck.  (The
\* kernel has one route per key: a key presented for two machines serves the
\* one that was wired last, hence Private.)
IndexedIsWired ==
    edge = "up" /\ used["fault"] = 0 /\ used["abort"] = 0 =>
        \A n \in Names : Private(n) /\ Exists(n) /\ listed[n] > 0 /\ InFlight(n) = {}
            => Wired(n)

\* A machine that has entered the index is eventually wired, or deleted, or
\* a wiring call failed: crashes only delay it.
EventuallyWired ==
    \A n \in Names :
        Private(n) /\ Exists(n) /\ listed[n] > 0
            ~> (Exists(n) => Wired(n)) \/ used["fault"] > 0 \/ used["abort"] > 0
=============================================================================
