-------------------------------- MODULE Edge --------------------------------
(***************************************************************************)
(* The edge as a process (crates/controlplane/src/bin/fortress-edge.rs and *)
(* crates/site/src/main.rs): how it boots, which tasks it runs and what    *)
(* happens when one ends; and the DNS records of its machines (dns.rs),    *)
(* which allocation, deletion and the reconcile loop change through the    *)
(* provider's API one call at a time.                                      *)
(*                                                                         *)
(* The provider has no update: a wrong record is deleted and created.  Two *)
(* writers of one record therefore meet in between, and nothing keeps the  *)
(* handlers of one name apart.  What else allocation and deletion do is    *)
(* the business of the module Provisioning.                                *)
(***************************************************************************)
EXTENDS Integers, Sequences, FiniteSets

CONSTANTS
    Names,        \* machine names
    Launches,     \* what is run: a binary and the environment it is started in
    ByteBits,     \* bits of one byte of an address
    V6, V4,       \* the address families of the routed subnet and the tunnel net
    Reqs,         \* concurrent signup and delete handlers
    NoName,
    MaxIndex,     \* bound on the allocation counter
    MaxEvents     \* bound on what is asked of the edge (signups, deletions, stops) and
                  \* what fails (calls, answers, tasks, the process), together

\* AddrBytes: bytes of an address and the prefix lengths accepted, in bits.
FamilyShape == [len : Nat, min : Nat, max : Nat]
Octets == Seq(0..(2^ByteBits - 1))

\* The flags parse, --dummy is given, the subnets as given ("addr/len"), debug
\* build, secrets resolve, and the SMTP relay: "none", "good" or "broken".
EnvShape == [flags : BOOLEAN, dummy : BOOLEAN, debug : BOOLEAN, secrets : BOOLEAN,
             smtp : {"none", "good", "broken"},
             subnet : [octets : Octets, len : Nat], wg_subnet : [octets : Octets, len : Nat]]
Binaries == {"edge", "site"}

ASSUME Shapes ==
    /\ {V6, V4} \subseteq FamilyShape
    /\ ByteBits \in Nat \ {0}
    /\ V6.max <= V6.len * ByteBits /\ V4.max <= V4.len * ByteBits
    /\ \A launch \in Launches :
         /\ launch \in Binaries \X EnvShape
         /\ Len(launch[2].subnet.octets) = V6.len
         /\ Len(launch[2].wg_subnet.octets) = V4.len
ASSUME Absent == NoName \notin Names /\ "reconcile" \notin Reqs
ASSUME Finite == IsFiniteSet(Names) /\ IsFiniteSet(Reqs)
ASSUME Bounds == MaxIndex \in Nat \ {0} /\ MaxEvents \in Nat

VARIABLES
    binary, env,  \* what is run
    pc,           \* the process: halted, failed, boot, up
    api,          \* its HTTP task
    rec,          \* its reconcile task: where it is and what it has left to do
    stop,         \* the shutdown channel
    machine,      \* store: the index of each machine, 0 for none
    counter,      \* store: the allocation counter
    zone,         \* provider: the index each record points at, 0 for none
    job,          \* the operations under way, by handler or reconcile pass
    asked, faults,
    raced,        \* history: names deleted beside an allocation of the name or a
                  \* pass that had them on its list
    gaveBack      \* history: an index was given back

store == <<machine, counter>>
vars == <<binary, env, pc, api, rec, stop, store, zone, job, asked, faults, raced, gaveBack>>

-----------------------------------------------------------------------------
(***************************************************************************)
(* Addresses.                                                              *)
(***************************************************************************)

Base == 2^ByteBits
PrefixBytes(t) == t.len \div ByteBits
HostBytes(f, t) == f.len - PrefixBytes(t)

\* Subnet::from_str: byte-aligned, in range, and no host bits set.
FromStr(f, t) ==
    /\ t.len \in f.min..f.max /\ t.len % ByteBits = 0
    /\ \A b \in (PrefixBytes(t) + 1)..f.len : t.octets[b] = 0

\* host: an index beyond the subnet panics.
Fits(f, t, i) == i <= 2^(f.len * ByteBits - t.len) - 1

\* Mutant: the bytes are taken from one place too far left in the buffer.
HostShifted(f, t, i) ==
    LET n == HostBytes(f, t)
    IN  SubSeq(t.octets, 1, PrefixBytes(t))
        \o [b \in 1..n |-> (i \div 2^(ByteBits * (n - b + 1))) % Base]

\* The prefix followed by the index in big-endian bytes.
Host(f, t, i) ==
    LET n == HostBytes(f, t)
    IN  SubSeq(t.octets, 1, PrefixBytes(t))
        \o [b \in 1..n |-> (i \div 2^(ByteBits * (n - b))) % Base]

-----------------------------------------------------------------------------
Kinds == {"host", "wild"}
Workers == Reqs \cup {"reconcile"}
Indices == Nat
Quiet == [k \in Kinds |-> "done"]
NoJob == [op |-> "none", name |-> NoName, index |-> 0, at |-> Quiet]
NoRec == [at |-> "off", todo |-> <<>>]

TypeOK ==
    /\ <<binary, env>> \in Launches
    /\ pc \in {"halted", "failed", "boot", "up"}
    /\ api \in {"off", "binding", "serving", "failed", "closed"}
    /\ rec.at \in {"off", "wait", "item", "apply", "panicked", "ended"}
    /\ stop \in BOOLEAN
    /\ machine \in [Names -> Indices] /\ counter \in Int
    /\ zone \in [Names -> [Kinds -> Indices]]
    /\ job \in [Workers -> [op : {"none", "alloc", "upsert", "remove"}, name : Names \cup {NoName},
                            index : Indices,
                            at : [Kinds -> {"get", "delete", "create", "done"}]]]
    /\ asked \in Nat /\ faults \in Nat
    /\ raced \subseteq Names /\ gaveBack \in BOOLEAN

\* Index 1 is the edge's own.
Init ==
    /\ \E launch \in Launches : binary = launch[1] /\ env = launch[2]
    /\ pc = "halted" /\ api = "off" /\ rec = NoRec /\ stop = FALSE
    /\ machine = [n \in Names |-> 0] /\ counter = 1
    /\ zone = [n \in Names |-> [k \in Kinds |-> 0]]
    /\ job = [w \in Workers |-> NoJob]
    /\ asked = 0 /\ faults = 0 /\ raced = {} /\ gaveBack = FALSE

\* A failure counts for two.
Ask == asked + 2 * faults < MaxEvents /\ asked' = asked + 1
Fault == asked + 2 * (faults + 1) <= MaxEvents /\ faults' = faults + 1

\* A process begins or ends: what it held in memory is gone.
Fresh(point) ==
    /\ pc' = point
    /\ api' = "off" /\ rec' = NoRec /\ stop' = FALSE
    /\ job' = [w \in Workers |-> NoJob]

-----------------------------------------------------------------------------
(***************************************************************************)
(* The process.                                                            *)
(***************************************************************************)

\* systemd restarts what has failed; an operator starts what was stopped.
Start ==
    /\ pc \in {"halted", "failed"}
    /\ Fresh("boot")
    /\ UNCHANGED <<binary, env, store, zone, asked, faults, raced, gaveBack>>

\* --dummy exists in debug builds only.
DummyFlag(e) == e.dummy => e.debug

\* parse_args; main then parses the two subnets.
ParseArgs(e) == e.flags /\ DummyFlag(e) /\ FromStr(V6, e.subnet) /\ FromStr(V4, e.wg_subnet)

\* SmtpConfig::from_secrets: no relay is the console.
SmtpConfig(e) == e.smtp # "none"

\* mailer_for: a relay that cannot be built is an error, never the console.
MailerFor(e) == SmtpConfig(e) => e.smtp = "good"

\* The boot secrets: all of them or a panic.
Secrets(e) == e.secrets

\* A production boot forces the secrets, the DNS client and the mailer.
InitGlobalsReal(e) == Secrets(e) /\ MailerFor(e)

\* A development boot touches none of them.
InitGlobals(e) == e.dummy \/ InitGlobalsReal(e)

\* main up to its tasks: bad arguments, missing secrets, a broken relay, an
\* interface or a forwarder that fails or an unreachable store end it; otherwise
\* the live state is rehydrated and the tasks are spawned.
Boot ==
    /\ pc = "boot"
    /\ \/ /\ ParseArgs(env) /\ InitGlobals(env)
          /\ pc' = "up" /\ api' = "binding" /\ rec' = [NoRec EXCEPT !.at = "wait"]
          /\ UNCHANGED <<stop, job, faults>>
       \/ /\ ~(ParseArgs(env) /\ InitGlobals(env))
          /\ Fresh("failed") /\ UNCHANGED faults
       \/ Fault /\ Fresh("failed")
    /\ UNCHANGED <<binary, env, store, zone, asked, raced, gaveBack>>

\* The API binds; one that cannot logs and returns.
BindApi ==
    /\ api = "binding"
    /\ \/ api' = "serving" /\ UNCHANGED faults
       \/ Fault /\ api' = "failed"
    /\ UNCHANGED <<binary, env, pc, rec, stop, store, zone, job, asked, raced, gaveBack>>

\* site's main: a failed bind is returned from main.
SiteBindError ==
    /\ binary = "site" /\ api = "failed"
    /\ Fresh("failed")
    /\ UNCHANGED <<binary, env, store, zone, asked, faults, raced, gaveBack>>

\* wait_for_signal.  (A site that has lost its loop has nothing else to wait for.)
Signal ==
    /\ pc = "up" /\ ~stop
    /\ Ask \/ (rec.at = "panicked" /\ UNCHANGED asked)
    /\ stop' = TRUE
    /\ UNCHANGED <<binary, env, pc, api, rec, store, zone, job, faults, raced, gaveBack>>

\* Graceful shutdown: no new requests, the running ones finish.
CloseApi ==
    /\ stop /\ api = "serving"
    /\ \A r \in Reqs : job[r] = NoJob
    /\ api' = "closed"
    /\ UNCHANGED <<binary, env, pc, rec, stop, store, zone, job, asked, faults, raced, gaveBack>>

\* Mutant: every task is awaited, a panic included, before main returns.
TaskPanickedJoin == FALSE /\ UNCHANGED vars

\* edge's try_join: the first panic ends the process.  site joins its tasks
\* and looks at neither result.
TaskPanicked ==
    /\ binary = "edge" /\ rec.at = "panicked"
    /\ Fresh("failed")
    /\ UNCHANGED <<binary, env, store, zone, asked, faults, raced, gaveBack>>

Leave ==
    /\ pc = "up" /\ stop
    /\ api \in {"closed", "failed"}
    /\ rec.at \in {"ended", "panicked"}
    /\ Fresh("halted")
    /\ UNCHANGED <<binary, env, store, zone, asked, faults, raced, gaveBack>>

Crash ==
    /\ pc \in {"boot", "up"}
    /\ Fault /\ Fresh("failed")
    /\ UNCHANGED <<binary, env, store, zone, asked, raced, gaveBack>>

-----------------------------------------------------------------------------
(***************************************************************************)
(* One record at the provider.                                             *)
(***************************************************************************)

At(w, k, point) == job' = [job EXCEPT ![w].at[k] = point]

\* get_rrset: done if the record is as wanted, which for a removal is absent.
\* A dummy edge's client only takes note of the call.
Get(w, k) ==
    LET j == job[w]
        found == zone[j.name][k]
        next == IF env.dummy \/ found = j.index THEN "done"
                ELSE IF found = 0 THEN "create" ELSE "delete"
    IN  /\ j.at[k] = "get"
        /\ \/ At(w, k, next) /\ UNCHANGED faults
           \/ Fault /\ At(w, k, "done")
        /\ UNCHANGED <<binary, env, pc, api, rec, stop, store, zone, asked, raced, gaveBack>>

\* delete_rrset; a record that is gone is an error, and ends an upsert too.
DeleteRrset(w, k) ==
    LET j == job[w]
        there == zone[j.name][k] # 0
    IN  /\ j.at[k] = "delete"
        /\ \/ /\ zone' = [zone EXCEPT ![j.name][k] = 0]
              /\ At(w, k, IF there /\ j.op = "upsert" THEN "create" ELSE "done")
              /\ UNCHANGED faults
           \/ Fault /\ At(w, k, "done") /\ UNCHANGED zone
        /\ UNCHANGED <<binary, env, pc, api, rec, stop, store, asked, raced, gaveBack>>

\* create_rrset; a record that is there is an error.
CreateRrset(w, k) ==
    LET j == job[w]
    IN  /\ j.at[k] = "create"
        /\ \/ /\ zone' = [zone EXCEPT ![j.name][k] = IF @ = 0 THEN j.index ELSE @]
              /\ UNCHANGED faults
           \/ Fault /\ UNCHANGED zone
        /\ At(w, k, "done")
        /\ UNCHANGED <<binary, env, pc, api, rec, stop, store, asked, raced, gaveBack>>

Finished(w) == job[w].op \in {"upsert", "remove"} /\ job[w].at = Quiet

-----------------------------------------------------------------------------
(***************************************************************************)
(* Handlers.                                                               *)
(***************************************************************************)

\* A request gets an idle handler, one as good as another.
Enter(r) ==
    /\ api = "serving" /\ ~stop
    /\ job[r] = NoJob /\ r = CHOOSE q \in Reqs : job[q] = NoJob
    /\ Ask

\* The handlers at work on a name, to allocate it or to delete it.
Deleting(n) == {r \in Reqs : job[r].name = n /\ job[r].op = "remove"}
Allocating(n) == {r \in Reqs : job[r].name = n /\ job[r].op \in {"alloc", "upsert"}}

\* upsert_machine: both records at once.
UpsertMachine(n, i) == [op |-> "upsert", name |-> n, index |-> i, at |-> [k \in Kinds |-> "get"]]

\* Mutant: only the host's own record is removed.
RemoveHostOnly(n) ==
    [op |-> "remove", name |-> n, index |-> 0, at |-> [Quiet EXCEPT !["host"] = "get"]]

\* remove_machine.
RemoveMachine(n) == [op |-> "remove", name |-> n, index |-> 0, at |-> [k \in Kinds |-> "get"]]

\* Allocation: GET finds no machine of the name.  (One that it finds keeps its
\* index and its records.)  Bound: the counter has room for all who are under way.
Allocate(r, n) ==
    /\ Enter(r) /\ machine[n] = 0
    /\ counter + Cardinality({q \in Reqs : job[q].op = "alloc" /\ job[q].index = 0}) < MaxIndex
    /\ job' = [job EXCEPT ![r] = [NoJob EXCEPT !.op = "alloc", !.name = n]]
    /\ raced' = IF Deleting(n) = {} THEN raced ELSE raced \cup {n}
    /\ UNCHANGED <<binary, env, pc, api, rec, stop, store, zone, faults, gaveBack>>

\* INCR, and the addresses: an index below 2 is an error and one that does not fit
\* a panic, both with the counter taken.
Incr(r) ==
    LET i == counter + 1
    IN  /\ job[r].op = "alloc" /\ job[r].index = 0
        /\ counter' = i
        /\ job' = [job EXCEPT ![r] = IF i >= 2 /\ Fits(V6, env.subnet, i) /\ Fits(V4, env.wg_subnet, i)
                                     THEN [@ EXCEPT !.index = i] ELSE NoJob]
        /\ UNCHANGED <<binary, env, pc, api, rec, stop, machine, zone, asked, faults, raced, gaveBack>>

\* SETNX of the record: the DNS records are next, or the index is given back with
\* DECR, whoever took one in the meantime.
SetNx(r) ==
    LET n == job[r].name
    IN  /\ job[r].op = "alloc" /\ job[r].index # 0
        /\ IF machine[n] = 0
             THEN /\ machine' = [machine EXCEPT ![n] = job[r].index]
                  /\ job' = [job EXCEPT ![r] = UpsertMachine(n, job[r].index)]
                  /\ UNCHANGED <<counter, gaveBack>>
             ELSE /\ counter' = counter - 1 /\ gaveBack' = TRUE
                  /\ job' = [job EXCEPT ![r] = NoJob]
                  /\ UNCHANGED machine
        /\ UNCHANGED <<binary, env, pc, api, rec, stop, zone, asked, faults, raced>>

\* The peer or a forward cannot be made: the record is taken back.
Rollback(r) ==
    /\ job[r].op = "upsert" /\ \A k \in Kinds : job[r].at[k] = "get"
    /\ Fault
    /\ machine' = [machine EXCEPT ![job[r].name] = 0]
    /\ job' = [job EXCEPT ![r] = NoJob]
    /\ UNCHANGED <<binary, env, pc, api, rec, stop, counter, zone, asked, raced, gaveBack>>

Listed == {rec.todo[i].name : i \in DOMAIN rec.todo}

\* Deletion: the DNS records, failures logged, and the store last.
Delete(r, n) ==
    /\ Enter(r) /\ machine[n] # 0
    /\ job' = [job EXCEPT ![r] = RemoveMachine(n)]
    /\ raced' = IF n \notin Listed /\ Allocating(n) = {} THEN raced ELSE raced \cup {n}
    /\ UNCHANGED <<binary, env, pc, api, rec, stop, store, zone, faults, gaveBack>>

Finish(r) ==
    /\ Finished(r)
    /\ machine' = IF job[r].op = "remove" THEN [machine EXCEPT ![job[r].name] = 0] ELSE machine
    /\ job' = [job EXCEPT ![r] = NoJob]
    /\ UNCHANGED <<binary, env, pc, api, rec, stop, counter, zone, asked, faults, raced, gaveBack>>

-----------------------------------------------------------------------------
(***************************************************************************)
(* The reconcile loop.                                                     *)
(***************************************************************************)

Live == {n \in Names : machine[n] # 0}

\* list: the machines in the order their records were made, which need not be
\* that of their indices.
List ==
    {order \in [1..Cardinality(Live) -> Live] : \A n \in Live : \E i \in DOMAIN order : order[i] = n}

\* reconcile_pass takes the two records of each machine.
Items(order) ==
    [i \in 1..(2 * Cardinality(Live)) |->
        LET n == order[(i + 1) \div 2]
        IN  [name |-> n, index |-> machine[n], kind |-> IF i % 2 = 1 THEN "host" ELSE "wild"]]

\* After a delay or a tick: list the machines.  A store that does not answer
\* ends the pass.
ReconcileStart ==
    /\ rec.at = "wait"
    /\ \/ /\ \E order \in List : rec' = [at |-> "item", todo |-> Items(order)]
          /\ raced' = raced \cup {n \in Live : Deleting(n) # {}}
          /\ UNCHANGED faults
       \/ Fault /\ UNCHANGED <<rec, raced>>
    /\ UNCHANGED <<binary, env, pc, api, stop, store, zone, job, asked, gaveBack>>

\* The loop looks at the shutdown channel between passes only.
ReconcileStop ==
    /\ rec.at = "wait" /\ stop
    /\ rec' = [NoRec EXCEPT !.at = "ended"]
    /\ UNCHANGED <<binary, env, pc, api, stop, store, zone, job, asked, faults, raced, gaveBack>>

ReconcileDone ==
    /\ rec.at = "item" /\ rec.todo = <<>>
    /\ rec' = [NoRec EXCEPT !.at = "wait"]
    /\ UNCHANGED <<binary, env, pc, api, stop, store, zone, job, asked, faults, raced, gaveBack>>

\* Mutant: a record that does not resolve is left for the next pass.
ResolveSkips ==
    LET r == Head(rec.todo)
        apply == zone[r.name][r.kind] \notin {0, r.index}
    IN  /\ rec.at = "item" /\ rec.todo # <<>>
        /\ IF apply
             THEN /\ rec' = [rec EXCEPT !.at = "apply"]
                  /\ job' = [job EXCEPT !["reconcile"] =
                               [op |-> "upsert", name |-> r.name, index |-> r.index,
                                at |-> [Quiet EXCEPT ![r.kind] = "get"]]]
             ELSE rec' = [rec EXCEPT !.todo = Tail(@)] /\ UNCHANGED job
        /\ UNCHANGED <<binary, env, pc, api, stop, store, zone, asked, faults, raced, gaveBack>>

\* One record of reconcile_pass: it is re-applied unless it resolves to the
\* machine's address.  The resolver may fail or answer from its cache.
Resolve ==
    LET r == Head(rec.todo)
        right == zone[r.name][r.kind] = r.index
    IN  /\ rec.at = "item" /\ rec.todo # <<>>
        /\ \E apply \in BOOLEAN :
             /\ IF apply = ~right THEN UNCHANGED faults ELSE Fault
             /\ IF apply
                  THEN /\ rec' = [rec EXCEPT !.at = "apply"]
                       /\ job' = [job EXCEPT !["reconcile"] =
                                    [op |-> "upsert", name |-> r.name, index |-> r.index,
                                     at |-> [Quiet EXCEPT ![r.kind] = "get"]]]
                  ELSE rec' = [rec EXCEPT !.todo = Tail(@)] /\ UNCHANGED job
        /\ UNCHANGED <<binary, env, pc, api, stop, store, zone, asked, raced, gaveBack>>

\* The upsert has ended, whether it worked or was logged.
Applied ==
    /\ rec.at = "apply" /\ Finished("reconcile")
    /\ rec' = [at |-> "item", todo |-> Tail(rec.todo)]
    /\ job' = [job EXCEPT !["reconcile"] = NoJob]
    /\ UNCHANGED <<binary, env, pc, api, stop, store, zone, asked, faults, raced, gaveBack>>

\* A panic in the task (a resolver or client that cannot be built).
ReconcilePanic ==
    /\ rec.at \in {"item", "apply"} /\ Fault
    /\ rec' = [NoRec EXCEPT !.at = "panicked"]
    /\ job' = [job EXCEPT !["reconcile"] = NoJob]
    /\ UNCHANGED <<binary, env, pc, api, stop, store, zone, asked, raced, gaveBack>>

-----------------------------------------------------------------------------
Dns == \E w \in Workers, k \in Kinds : Get(w, k) \/ DeleteRrset(w, k) \/ CreateRrset(w, k)
Reconcile ==
    ReconcileStart \/ ReconcileDone \/ Resolve \/ Applied
Shutdown == CloseApi \/ ReconcileStop \/ Leave

Next ==
    \/ Start \/ Boot \/ BindApi \/ SiteBindError \/ TaskPanicked
    \/ Signal \/ Crash \/ Shutdown
    \/ Dns \/ Reconcile \/ ReconcilePanic
    \/ \E r \in Reqs : Incr(r) \/ SetNx(r) \/ Rollback(r) \/ Finish(r)
    \/ \E r \in Reqs, n \in Names : Allocate(r, n) \/ Delete(r, n)

\* A select between two ready branches takes either of them some time.
Fairness ==
    /\ WF_vars(Boot) /\ WF_vars(BindApi) /\ WF_vars(SiteBindError) /\ WF_vars(TaskPanicked)
    /\ WF_vars(CloseApi) /\ SF_vars(ReconcileStop) /\ WF_vars(Leave)
    /\ WF_vars(Reconcile) /\ \A r \in Reqs : WF_vars(Incr(r) \/ SetNx(r) \/ Finish(r))
    /\ \A w \in Workers, k \in Kinds :
         WF_vars(Get(w, k) \/ DeleteRrset(w, k) \/ CreateRrset(w, k))

Spec == Init /\ [][Next]_vars /\ Fairness

-----------------------------------------------------------------------------
(***************************************************************************)
(* Properties.                                                             *)
(***************************************************************************)

\* The index fills the host bits of both subnets: a machine has neither the edge's
\* own addresses nor those of any other index, up to the last index of the smaller
\* subnet and beyond it, however often an index was given back.  (Two machines have
\* one index only after that: see NoSharedIndex in Provisioning.)
AddressesDistinct ==
    \A n \in Names : machine[n] # 0 =>
        /\ machine[n] # 1
        /\ \A i \in 1..MaxIndex \ {machine[n]} :
             Fits(V6, env.subnet, i) /\ Fits(V4, env.wg_subnet, i) =>
                 /\ Host(V6, env.subnet, machine[n]) # Host(V6, env.subnet, i)
                 /\ Host(V4, env.wg_subnet, machine[n]) # Host(V4, env.wg_subnet, i)

\* "a retry (allocation or the reconcile loop) self-heals it because each
\* upsert is idempotent": while the edge is up and a machine stays, both its
\* records end up right and stay so, whatever calls failed, whichever pass
\* worked from an old list, and wherever a crash cut an upsert in two.
RecordsHeal ==
    \A n \in Names, i \in 1..MaxIndex :
        <>[](pc = "up" /\ ~env.dummy /\ machine[n] = i /\ rec.at # "panicked")
            => <>[](zone[n] = [k \in Kinds |-> i])

\* A deleted machine leaves no record, however many handlers deleted it at once
\* and whatever was allocated, deleted and reconciled before, unless a call failed,
\* the process died, or the deletion ran beside an allocation of the same name or
\* a reconcile pass that had the machine on its list.
DeletedHasNoRecord ==
    faults = 0 =>
        \A n \in Names \ raced :
            machine[n] = 0 => zone[n] = [k \in Kinds |-> 0]

\* "never a silently half-alive edge": a panic in a task of fortress-edge, a
\* failed bind of the site and a stop end the process.
Supervised ==
    /\ stop ~> pc # "up"
    /\ (binary = "edge" /\ rec.at = "panicked") ~> pc # "up"
    /\ (binary = "site" /\ api = "failed") ~> pc # "up"

=============================================================================
