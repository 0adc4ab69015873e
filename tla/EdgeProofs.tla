----------------------------- MODULE EdgeProofs -----------------------------
(***************************************************************************)
(* Proofs about Edge for any machine names, launches, handlers, address    *)
(* families and bounds.                                                    *)
(***************************************************************************)
EXTENDS Edge, FiniteSetTheorems, WellFoundedInduction, TLAPS

\* The lists of a reconcile pass are lists of records.
Item == [name : Names, index : Indices, kind : Kinds]
RecType == rec \in [at : {"off", "wait", "item", "apply", "panicked", "ended"}, todo : Seq(Item)]

\* A process that is not up holds nothing; handlers run while the API serves,
\* and the loop's own upsert while it applies a record of its list.
ProcessInv ==
    /\ pc # "up" => api = "off" /\ rec = NoRec
    /\ api # "serving" => \A r \in Reqs : job[r] = NoJob
    /\ rec.at # "apply" => job["reconcile"] = NoJob
    /\ rec.at \notin {"item", "apply"} => rec.todo = <<>>
    /\ rec.at = "apply" =>
        /\ rec.todo # <<>> /\ job["reconcile"].op = "upsert"
        /\ job["reconcile"].name = rec.todo[1].name

\* Handlers at work have a name, and one that allocates no call to the provider.
JobInv ==
    /\ \A w \in Workers : job[w].op # "none" => job[w].name \in Names
    /\ \A r \in Reqs : job[r].op = "none" => job[r] = NoJob
    /\ \A w \in Workers : job[w].op = "remove" => job[w].index = 0
    /\ \A w \in Workers, k \in Kinds : job[w].op = "alloc" => job[w].at[k] = "done"

\* Nobody allocates a name that is being deleted, unless the two raced.
RaceInv ==
    \A r, q \in Reqs :
        /\ job[r].op = "remove" /\ job[q].op \in {"alloc", "upsert"}
        /\ job[q].name = job[r].name
        => job[r].name \in raced

\* Until a call fails, an upsert has its machine,
UpsertInv ==
    faults = 0 => \A r \in Reqs :
        job[r].op = "upsert" /\ job[r].name \notin raced => machine[job[r].name] # 0

\* and a machine on the list of a pass is there and not being deleted, unless the
\* two raced.
ListInv ==
    faults = 0 => \A n \in Listed \ raced :
        /\ machine[n] # 0
        /\ \A r \in Reqs : job[r].name = n => job[r].op # "remove"

\* A removal never creates, and what it is done with is gone.
RemoveInv ==
    faults = 0 => \A r \in Reqs, k \in Kinds :
        job[r].op = "remove" /\ job[r].name \notin raced =>
            /\ job[r].at[k] # "create"
            /\ job[r].at[k] = "done" => zone[job[r].name][k] = 0

\* Without a machine there is no record.
CleanInv ==
    faults = 0 => \A n \in Names \ raced, k \in Kinds : machine[n] = 0 => zone[n][k] = 0

\* A dummy edge leaves the provider alone.
DummyInv ==
    env.dummy =>
        /\ \A n \in Names, k \in Kinds : zone[n][k] = 0
        /\ \A w \in Workers, k \in Kinds : job[w].at[k] \in {"get", "done"}

IInv ==
    /\ TypeOK /\ RecType /\ ProcessInv /\ JobInv /\ RaceInv /\ UpsertInv /\ ListInv
    /\ RemoveInv /\ CleanInv /\ DummyInv

\* Handlers that have taken an index and not yet stored it.
Taken == {r \in Reqs : job[r].op = "alloc" /\ job[r].index # 0}

\* An index in use is not the edge's own and fits both subnets, so that both
\* addresses can be made from it; and it is in use once, as long as none was given
\* back.
IndexUsed(e, i) == i \in Nat /\ i >= 2 /\ Fits(V6, e.subnet, i) /\ Fits(V4, e.wg_subnet, i)
IndicesFit ==
    /\ ~gaveBack => counter >= 1
    /\ \A n \in Names : machine[n] # 0 => IndexUsed(env, machine[n])
    /\ \A r \in Taken : IndexUsed(env, job[r].index)
    /\ ~gaveBack =>
        /\ \A n \in Names : machine[n] <= counter
        /\ \A r \in Taken : job[r].index <= counter
        /\ \A n \in Names : \A m \in Names \ {n} : machine[n] # 0 => machine[m] # machine[n]
        /\ \A n \in Names, r \in Taken : machine[n] # job[r].index
        /\ \A r \in Taken : \A q \in Taken \ {r} : job[q].index # job[r].index

\* A machine is allocated by a process that is up, and no process comes up with
\* subnets that Subnet::from_str refuses.
SubnetsParsed ==
    pc = "up" \/ (\E n \in Names : machine[n] # 0) => ParseArgs(env)

-----------------------------------------------------------------------------
(***************************************************************************)
(* Facts that every step needs.                                            *)
(***************************************************************************)

\* A job, and the types of the variables in the form the proofs use them.
Job == [op : {"none", "alloc", "upsert", "remove"}, name : Names \cup {NoName}, index : Indices,
        at : [Kinds -> {"get", "delete", "create", "done"}]]

\* The bounds are numbers.
LEMMA BoundsNat == MaxIndex \in Nat /\ MaxEvents \in Nat
  BY Bounds

\* The empty values are well typed, and the loop is not a handler.
LEMMA Empties ==
  /\ NoJob \in Job /\ NoJob.op = "none" /\ NoJob.name = NoName
  /\ \A k \in Kinds : NoJob.at[k] = "done"
  /\ "reconcile" \in Workers /\ "reconcile" \notin Reqs /\ Reqs \subseteq Workers
  /\ \A w \in Workers : w \in Reqs \/ w = "reconcile"
  /\ NoRec.at = "off" /\ NoRec.todo = <<>>
  /\ NoRec \in [at : {"off", "wait", "item", "apply", "panicked", "ended"}, todo : Seq(Item)]
  <1>1. Quiet \in [Kinds -> {"get", "delete", "create", "done"}] /\ 0 \in Indices
    BY BoundsNat DEF Quiet, Indices
  <1>2. NoJob \in Job /\ NoJob.op = "none" /\ NoJob.name = NoName /\ NoJob.at = Quiet
    BY <1>1 DEF NoJob, Job
  <1>3. \A k \in Kinds : NoJob.at[k] = "done"
    BY <1>2 DEF Quiet
  <1>4. <<>> \in Seq(Item)
    OBVIOUS
  <1>. QED
    BY <1>2, <1>3, <1>4, Absent DEF Workers, NoRec

\* A worker whose call is outstanding has a job and a name.
LEMMA Busy ==
  ASSUME IInv, NEW w \in Workers, NEW k \in Kinds, job[w].at[k] # "done"
  PROVE  /\ job[w].op # "none" /\ job[w].name \in Names /\ job[w] # NoJob
         /\ w = "reconcile" => rec.at = "apply" /\ job[w].name \in Listed
         /\ w \in Reqs => api = "serving"
         /\ pc = "up"
  <1>1. job[w] # NoJob
    BY Empties
  <1>2. CASE w \in Reqs
    BY <1>1, <1>2, Empties DEF IInv, JobInv, ProcessInv
  <1>3. CASE w = "reconcile"
    <2>1. rec.at = "apply" /\ rec.todo # <<>> /\ rec.todo \in Seq(Item)
      BY <1>1, <1>3 DEF IInv, ProcessInv, RecType
    <2>2. 1 \in DOMAIN rec.todo
      BY <2>1
    <2>3. job[w].op = "upsert" /\ job[w].name = rec.todo[1].name
      BY <1>3, <2>1 DEF IInv, ProcessInv
    <2>. QED
      BY <1>1, <1>3, <2>1, <2>2, <2>3, Empties DEF IInv, JobInv, ProcessInv, Listed
  <1>. QED
    BY <1>2, <1>3, Empties

\* An upsert under way has its machine, unless a call failed or it raced.
LEMMA BusyMachine ==
  ASSUME IInv, NEW w \in Workers, NEW k \in Kinds, job[w].at[k] # "done"
  PROVE  /\ job[w].op # "alloc"
         /\ faults = 0 /\ job[w].op = "upsert" /\ job[w].name \notin raced =>
              machine[job[w].name] # 0
  <1>1. job[w].op # "alloc"
    BY DEF IInv, JobInv
  <1>2. w = "reconcile" => job[w].name \in Listed
    BY Busy
  <1>. QED
    BY <1>1, <1>2, Empties DEF IInv, UpsertInv, ListInv

\* What the run keeps of itself, typed.
Notes == asked \in Nat /\ gaveBack \in BOOLEAN

\* What moving one call of a job changes.
LEMMA AtEffect ==
  ASSUME TypeOK, NEW w \in Workers, NEW k \in Kinds,
         NEW p \in {"get", "delete", "create", "done"}, At(w, k, p)
  PROVE  /\ job' \in [Workers -> Job]
         /\ job'[w].op = job[w].op /\ job'[w].name = job[w].name /\ job'[w].at[k] = p
         /\ \A j \in Kinds \ {k} : job'[w].at[j] = job[w].at[j]
         /\ \A v \in Workers \ {w} : job'[v] = job[v]
         /\ \A v \in Workers : /\ job'[v].op = job[v].op /\ job'[v].name = job[v].name
                                /\ job'[v].index = job[v].index
  <1>1. job \in [Workers -> Job]
    BY DEF TypeOK, Job
  <1>2. job[w] \in Job /\ job[w].at \in [Kinds -> {"get", "delete", "create", "done"}]
    BY <1>1 DEF Job
  <1>. DEFINE a == [job[w].at EXCEPT ![k] = p]
              j == [job[w] EXCEPT !.at = a]
  <1>3. a \in [Kinds -> {"get", "delete", "create", "done"}] /\ a[k] = p
        /\ \A i \in Kinds \ {k} : a[i] = job[w].at[i]
    BY <1>2
  <1>. HIDE DEF a
  <1>4. j \in Job /\ j.at = a /\ j.op = job[w].op /\ j.name = job[w].name
        /\ j.index = job[w].index
    BY <1>2, <1>3 DEF Job
  <1>5. job' = [job EXCEPT ![w] = j]
    BY DEF At, a
  <1>. HIDE DEF j
  <1>. QED
    BY <1>1, <1>3, <1>4, <1>5

-----------------------------------------------------------------------------
(***************************************************************************)
(* The calls to the provider.                                              *)
(***************************************************************************)

DnsCall(w, k) == Get(w, k) \/ DeleteRrset(w, k) \/ CreateRrset(w, k)

\* A call moves its own job and touches at most its own record; without a
\* fault it does what it is for.
LEMMA CallEffect ==
  ASSUME IInv, NEW w \in Workers, NEW k \in Kinds, DnsCall(w, k)
  PROVE  /\ UNCHANGED <<binary, env, pc, api, rec, stop, store, raced>>
         /\ job[w].at[k] # "done"
         /\ \E p \in {"get", "delete", "create", "done"} :
             /\ At(w, k, p)
             /\ env.dummy => p = "done"
             /\ faults' = 0 /\ job[w].op = "remove" /\ job[w].at[k] # "create" =>
                 /\ p # "create"
                 /\ p = "done" /\ ~env.dummy => zone'[job[w].name][k] = 0
         /\ zone' \in [Names -> [Kinds -> Indices]]
         /\ \A n \in Names, j \in Kinds :
             n # job[w].name \/ j # k => zone'[n][j] = zone[n][j]
         /\ env.dummy => zone' = zone
         /\ faults' \in Nat /\ (faults' = 0 => faults = 0)
  <1>. DEFINE n == job[w].name
  <1>1. job[w].at[k] # "done"
    BY DEF DnsCall, Get, DeleteRrset, CreateRrset
  <1>2. n \in Names /\ TypeOK
    BY <1>1, Busy DEF IInv
  <1>3. env.dummy => job[w].at[k] = "get"
    BY <1>1 DEF IInv, DummyInv
  <1>4. Fault => faults' \in Nat /\ faults' # 0
    BY <1>2, BoundsNat DEF Fault, TypeOK
  <1>5. zone[n] \in [Kinds -> Indices] /\ job[w].index \in Indices /\ 0 \in Indices
    BY <1>2, BoundsNat DEF TypeOK, Indices
  <1>6. ASSUME Get(w, k) PROVE zone' = zone
    BY <1>6 DEF Get
  <1>7. ASSUME NEW v \in Indices, zone' = [zone EXCEPT ![n][k] = v]
        PROVE  /\ zone' \in [Names -> [Kinds -> Indices]] /\ zone'[n][k] = v
               /\ \A m \in Names, j \in Kinds : m # n \/ j # k => zone'[m][j] = zone[m][j]
    BY <1>2, <1>5, <1>7 DEF TypeOK
  <1>8. ASSUME zone' = zone
        PROVE  /\ zone' \in [Names -> [Kinds -> Indices]]
               /\ \A m \in Names, j \in Kinds : m # n \/ j # k => zone'[m][j] = zone[m][j]
    BY <1>2, <1>8 DEF TypeOK
  <1>9. CASE Get(w, k)
    <2>. DEFINE found == zone[n][k]
                next == IF env.dummy \/ found = job[w].index THEN "done"
                        ELSE IF found = 0 THEN "create" ELSE "delete"
    <2>1. \/ At(w, k, next) /\ faults' = faults
          \/ Fault /\ At(w, k, "done")
      BY <1>9 DEF Get
    <2>2. next \in {"done", "create", "delete"} /\ (env.dummy => next = "done")
      OBVIOUS
    <2>3. job[w].op = "remove" => next # "create" /\ (next = "done" /\ ~env.dummy => found = 0)
      BY DEF IInv, JobInv
    <2>. HIDE DEF next
    <2>4. UNCHANGED <<binary, env, pc, api, rec, stop, store, raced, zone>>
      BY <1>9 DEF Get
    <2>5. faults' \in Nat /\ (faults' = 0 => faults = 0)
      BY <1>2, <1>4, <2>1 DEF TypeOK
    <2>6. CASE At(w, k, next) /\ faults' = faults
      BY <1>1, <1>8, <2>2, <2>3, <2>4, <2>5, <2>6
    <2>7. CASE Fault /\ At(w, k, "done")
      BY <1>1, <1>4, <1>8, <2>4, <2>5, <2>7
    <2>. QED
      BY <2>1, <2>6, <2>7
  <1>10. CASE DeleteRrset(w, k)
    <2>. DEFINE next == IF zone[n][k] # 0 /\ job[w].op = "upsert" THEN "create" ELSE "done"
    <2>1. \/ zone' = [zone EXCEPT ![n][k] = 0] /\ At(w, k, next) /\ faults' = faults
          \/ Fault /\ At(w, k, "done") /\ zone' = zone
      BY <1>10 DEF DeleteRrset
    <2>2. next \in {"done", "create"} /\ (job[w].op = "remove" => next = "done")
      OBVIOUS
    <2>. HIDE DEF next
    <2>3. UNCHANGED <<binary, env, pc, api, rec, stop, store, raced>> /\ job[w].at[k] = "delete"
      BY <1>10 DEF DeleteRrset
    <2>4. faults' \in Nat /\ (faults' = 0 => faults = 0) /\ ~env.dummy
      BY <1>2, <1>3, <1>4, <2>1, <2>3 DEF TypeOK
    <2>5. CASE zone' = [zone EXCEPT ![n][k] = 0] /\ At(w, k, next) /\ faults' = faults
      BY <1>1, <1>5, <1>7, <2>2, <2>3, <2>4, <2>5
    <2>6. CASE Fault /\ At(w, k, "done") /\ zone' = zone
      BY <1>1, <1>4, <1>8, <2>3, <2>4, <2>6
    <2>. QED
      BY <2>1, <2>5, <2>6
  <1>11. CASE CreateRrset(w, k)
    <2>. DEFINE v == IF zone[n][k] = 0 THEN job[w].index ELSE zone[n][k]
    <2>1. \/ zone' = [zone EXCEPT ![n][k] = v] /\ faults' = faults
          \/ Fault /\ zone' = zone
      BY <1>2, <1>11 DEF CreateRrset, TypeOK
    <2>2. v \in Indices
      BY <1>5
    <2>. HIDE DEF v
    <2>3. /\ UNCHANGED <<binary, env, pc, api, rec, stop, store, raced>>
          /\ job[w].at[k] = "create" /\ At(w, k, "done")
      BY <1>11 DEF CreateRrset
    <2>4. faults' \in Nat /\ (faults' = 0 => faults = 0) /\ ~env.dummy
      BY <1>2, <1>3, <1>4, <2>1, <2>3 DEF TypeOK
    <2>5. CASE zone' = [zone EXCEPT ![n][k] = v] /\ faults' = faults
      BY <1>1, <1>7, <2>2, <2>3, <2>4, <2>5
    <2>6. CASE Fault /\ zone' = zone
      BY <1>1, <1>8, <2>3, <2>4, <2>6
    <2>. QED
      BY <2>1, <2>5, <2>6
  <1>. QED
    BY <1>9, <1>10, <1>11 DEF DnsCall

\* A call keeps the invariant: nobody else works on a name that is being
\* removed, the loop included unless the two raced.
LEMMA CallIInv ==
  ASSUME IInv, Notes', NEW w \in Workers, NEW k \in Kinds, DnsCall(w, k)
  PROVE  IInv'
  <1>. DEFINE n == job[w].name
  <1>1. /\ UNCHANGED <<binary, env, pc, api, rec, stop, machine, counter, raced>>
        /\ job[w].at[k] # "done"
        /\ zone' \in [Names -> [Kinds -> Indices]]
        /\ \A m \in Names, j \in Kinds : m # n \/ j # k => zone'[m][j] = zone[m][j]
        /\ env.dummy => zone' = zone
        /\ faults' \in Nat /\ (faults' = 0 => faults = 0)
    BY CallEffect DEF store
  <1>2. PICK p \in {"get", "delete", "create", "done"} :
          /\ At(w, k, p)
          /\ env.dummy => p = "done"
          /\ faults' = 0 /\ job[w].op = "remove" /\ job[w].at[k] # "create" =>
              /\ p # "create"
              /\ p = "done" /\ ~env.dummy => zone'[job[w].name][k] = 0
    BY CallEffect
  <1>3. /\ job[w].op # "none" /\ n \in Names /\ job[w] # NoJob
        /\ w = "reconcile" => rec.at = "apply" /\ n \in Listed
        /\ w \in Reqs => api = "serving"
        /\ pc = "up"
    BY <1>1, Busy
  <1>4. /\ job' \in [Workers -> Job]
        /\ job'[w].at[k] = p
        /\ \A j \in Kinds \ {k} : job'[w].at[j] = job[w].at[j]
        /\ \A v \in Workers \ {w} : job'[v] = job[v]
        /\ \A v \in Workers : /\ job'[v].op = job[v].op /\ job'[v].name = job[v].name
                               /\ job'[v].index = job[v].index
    BY <1>2, AtEffect DEF IInv
  <1>. HIDE DEF n
  <1>5. TypeOK' /\ RecType'
    <2>1. TypeOK'
      BY <1>1, <1>4 DEF IInv, TypeOK, Job, Notes
    <2>. QED
      BY <1>1, <2>1 DEF IInv, RecType
  <1>6. ProcessInv'
    <2>1. api # "serving" => \A r \in Reqs : job'[r] = job[r]
      BY <1>3, <1>4, Empties
    <2>2. rec.at # "apply" => job'["reconcile"] = job["reconcile"]
      BY <1>3, <1>4, Empties
    <2>3. job'["reconcile"].op = job["reconcile"].op /\ job'["reconcile"].name = job["reconcile"].name
      BY <1>4, Empties
    <2>. QED
      BY <1>1, <1>3, <2>1, <2>2, <2>3, BoundsNat DEF IInv, ProcessInv
  <1>7. JobInv'
    <2>1. \A r \in Reqs : job[r].op = "none" => job'[r] = job[r]
      BY <1>3, <1>4, Empties
    <2>2. \A v \in Workers : /\ job'[v].op # "none" => job'[v].name \in Names
                             /\ job'[v].op = "remove" => job'[v].index = 0
      BY <1>4 DEF IInv, JobInv
    <2>3. \A r \in Reqs : /\ job'[r].op = job[r].op /\ job'[r].name = job[r].name
                          /\ job'[r].op = "none" => job'[r] = NoJob
      BY <1>4, <2>1, Empties DEF IInv, JobInv
    <2>4. \A v \in Workers, j \in Kinds : job'[v].op = "alloc" => job'[v].at[j] = "done"
      <3>1. job[w].op # "alloc"
        BY <1>1, BusyMachine
      <3>. QED
        BY <1>4, <3>1 DEF IInv, JobInv
    <2>. QED
      BY <1>1, <2>2, <2>3, <2>4 DEF IInv, JobInv
  <1>8. ListInv' /\ RaceInv' /\ UpsertInv'
    BY <1>1, <1>4, Empties DEF IInv, ListInv, Listed, RaceInv, UpsertInv
  <1>9. ASSUME n \notin raced, faults = 0, job[w].op = "upsert" PROVE machine[n] # 0
    BY <1>1, <1>9, BusyMachine DEF n
  <1>12. ASSUME job[w].op = "remove", n \notin raced, faults' = 0, zone[n][k] = 0
         PROVE  zone'[n][k] = 0
    <2>1. job[w].at[k] \in {"get", "delete"}
      <3>1. w \in Reqs
        BY <1>3, <1>12, Empties DEF IInv, ProcessInv
      <3>2. job[w].at[k] # "create"
        BY <1>1, <1>12, <3>1 DEF n, IInv, RemoveInv
      <3>3. job[w].at \in [Kinds -> {"get", "delete", "create", "done"}]
        BY DEF IInv, TypeOK
      <3>. QED
        BY <1>1, <3>2, <3>3
    <2>2. CASE Get(w, k)
      BY <1>12, <2>2 DEF Get
    <2>3. CASE DeleteRrset(w, k)
      BY <1>3, <1>12, <2>3 DEF DeleteRrset, n, IInv, TypeOK
    <2>. QED
      BY <2>1, <2>2, <2>3 DEF DnsCall, CreateRrset
  <1>10. RemoveInv'
    <2>. SUFFICES ASSUME faults' = 0, NEW r \in Reqs, NEW j \in Kinds, NEW m \in Names,
                         job[r].op = "remove", job[r].name = m, m \notin raced
                  PROVE  /\ job'[r].at[j] # "create"
                         /\ job'[r].at[j] = "done" => zone'[m][j] = 0
      BY <1>1, <1>4, Empties DEF IInv, RemoveInv, JobInv
    <2>1. /\ job[r].at[j] # "create" /\ (job[r].at[j] = "done" => zone[m][j] = 0)
      BY <1>1 DEF IInv, RemoveInv
    <2>2. CASE r = w /\ j = k
      BY <1>1, <1>2, <1>3, <1>4, <2>1, <2>2 DEF n, IInv, DummyInv
    <2>3. CASE r = w /\ j # k
      BY <1>1, <1>4, <2>1, <2>3
    <2>4. CASE r # w
      <3>1. job'[r] = job[r]
        BY <1>4, <2>4, Empties
      <3>2. m = n => job[w].op = "remove"
        <4>1. CASE w \in Reqs
          <5>1. m = n => job[w].op \notin {"alloc", "upsert"}
            BY <4>1 DEF n, IInv, RaceInv
          <5>2. job[w].op \in {"none", "alloc", "upsert", "remove"}
            BY DEF IInv, TypeOK
          <5>. QED
            BY <1>3, <5>1, <5>2
        <4>2. CASE w = "reconcile"
          BY <1>1, <1>3, <4>2 DEF n, IInv, ListInv
        <4>. QED
          BY <4>1, <4>2, Empties
      <3>3. m = n /\ j = k /\ zone[m][j] = 0 => zone'[m][j] = 0
        BY <1>1, <1>12, <3>2
      <3>. QED
        BY <1>1, <2>1, <3>1, <3>3
    <2>. QED
      BY <2>2, <2>3, <2>4
  <1>11. CleanInv'
    <2>. SUFFICES ASSUME faults' = 0, NEW m \in Names \ raced, NEW j \in Kinds, machine[m] = 0
                  PROVE  zone'[m][j] = 0
      BY <1>1 DEF CleanInv
    <2>1. zone[m][j] = 0
      BY <1>1 DEF IInv, CleanInv
    <2>2. m = n => job[w].op = "remove"
      <3>1. job[w].op \in {"none", "alloc", "upsert", "remove"}
        BY DEF IInv, TypeOK
      <3>. QED
        BY <1>1, <1>3, <1>9, <3>1, BusyMachine
    <2>. QED
      BY <1>1, <1>12, <2>1, <2>2
  <1>13. DummyInv'
    BY <1>1, <1>2, <1>4 DEF IInv, DummyInv
  <1>. QED
    BY <1>5, <1>6, <1>7, <1>8, <1>10, <1>11, <1>13 DEF IInv

-----------------------------------------------------------------------------
(***************************************************************************)
(* The process.                                                            *)
(***************************************************************************)

\* A process that begins or ends keeps the invariant: a removal that was cut
\* off has left its machine in the store.
LEMMA FreshIInv ==
  ASSUME IInv, Notes', NEW point \in {"halted", "failed", "boot"}, Fresh(point),
         UNCHANGED <<binary, env, store, zone, raced>>,
         faults' \in Nat, faults' = 0 => faults = 0
  PROVE  IInv'
  <1>1. /\ UNCHANGED <<binary, env, machine, counter, zone, raced>>
        /\ pc' = point /\ api' = "off" /\ rec' = NoRec /\ stop' = FALSE
        /\ job' = [w \in Workers |-> NoJob]
    BY DEF Fresh, store
  <1>2. \A w \in Workers : job'[w] = NoJob
    BY <1>1
  <1>3. TypeOK' /\ RecType'
    <2>1. stop' \in BOOLEAN /\ job' \in [Workers -> Job]
      BY <1>1, Empties
    <2>2. rec'.at = "off"
      BY <1>1, Empties
    <2>3. TypeOK'
      BY <1>1, <2>1, <2>2 DEF IInv, TypeOK, Job, Notes
    <2>. QED
      BY <1>1, <2>3, Empties DEF RecType
  <1>4. ProcessInv' /\ JobInv' /\ RaceInv' /\ UpsertInv'
    BY <1>1, <1>2, Empties DEF ProcessInv, JobInv, RaceInv, UpsertInv
  <1>5. ListInv'
    <2>1. Listed' = {}
      BY <1>1, Empties DEF Listed
    <2>. QED
      BY <2>1 DEF ListInv
  <1>6. RemoveInv' /\ CleanInv' /\ DummyInv'
    BY <1>1, <1>2, Empties DEF IInv, RemoveInv, CleanInv, DummyInv
  <1>. QED
    BY <1>3, <1>4, <1>5, <1>6 DEF IInv

\* Steps that leave the jobs, the list and the stores alone.
LEMMA QuietIInv ==
  ASSUME IInv, Notes', UNCHANGED <<binary, env, machine, counter, zone, job, raced>>,
         pc' \in {"halted", "failed", "boot", "up"},
         api' \in {"off", "binding", "serving", "failed", "closed"}, stop' \in BOOLEAN,
         RecType', rec'.todo = rec.todo, rec'.at = "apply" <=> rec.at = "apply",
         faults' \in Nat, faults' = 0 => faults = 0,
         ProcessInv'
  PROVE  IInv'
  <1>1. TypeOK'
    BY DEF IInv, TypeOK, RecType, Notes
  <1>2. JobInv' /\ RaceInv' /\ UpsertInv' /\ ListInv'
    BY DEF IInv, JobInv, RaceInv, UpsertInv, ListInv, Listed
  <1>3. RemoveInv' /\ CleanInv' /\ DummyInv'
    BY DEF IInv, RemoveInv, CleanInv, DummyInv
  <1>. QED
    BY <1>1, <1>2, <1>3 DEF IInv

\* Starting, booting, binding, stopping and dying.
LEMMA ProcessIInv ==
  ASSUME IInv, Notes',
         \/ Start \/ Boot \/ BindApi \/ SiteBindError \/ TaskPanicked
         \/ Signal \/ Crash \/ CloseApi \/ ReconcileStop \/ Leave \/ ReconcileDone
  PROVE  IInv'
  <1>1. /\ faults \in Nat /\ pc \in {"halted", "failed", "boot", "up"}
        /\ api \in {"off", "binding", "serving", "failed", "closed"} /\ stop \in BOOLEAN
        /\ RecType /\ ProcessInv
    BY DEF IInv, TypeOK
  <1>2. Fault => faults' \in Nat /\ faults' # 0
    BY <1>1, BoundsNat DEF Fault
  <1>3. CASE Start \/ SiteBindError \/ TaskPanicked \/ Leave \/ Crash
    <2>1. \E point \in {"halted", "failed", "boot"} : Fresh(point)
      BY <1>3 DEF Start, SiteBindError, TaskPanicked, Leave, Crash
    <2>2. UNCHANGED <<binary, env, store, zone, raced>> /\ (faults' = faults \/ Fault)
      BY <1>3 DEF Start, SiteBindError, TaskPanicked, Leave, Crash
    <2>. QED
      BY <1>1, <1>2, <2>1, <2>2, FreshIInv
  <1>4. CASE Boot
    <2>1. CASE \E point \in {"halted", "failed", "boot"} : Fresh(point)
      <3>1. UNCHANGED <<binary, env, store, zone, raced>>
        BY <1>4 DEF Boot
      <3>2. faults' = faults \/ Fault
        BY <1>4 DEF Boot
      <3>. QED
        BY <1>1, <1>2, <2>1, <3>1, <3>2, FreshIInv
    <2>2. CASE /\ pc' = "up" /\ api' = "binding" /\ rec' = [NoRec EXCEPT !.at = "wait"]
               /\ UNCHANGED <<stop, job, faults>>
      <3>1. pc = "boot" /\ UNCHANGED <<binary, env, machine, counter, zone, raced>>
        BY <1>4 DEF Boot, store
      <3>2. rec'.at = "wait" /\ rec'.todo = <<>> /\ RecType'
        BY <2>2, Empties DEF RecType, NoRec
      <3>3. rec = NoRec /\ rec.todo = <<>> /\ rec.at = "off" /\ api = "off"
        BY <1>1, <3>1, Empties DEF ProcessInv
      <3>4. ProcessInv'
        BY <1>1, <2>2, <3>2, <3>3 DEF ProcessInv
      <3>. QED
        BY <1>1, <2>2, <3>1, <3>2, <3>3, <3>4, QuietIInv
    <2>. QED
      BY <1>4, <2>1, <2>2 DEF Boot
  <1>5. CASE BindApi
    <2>1. /\ api = "binding" /\ api' \in {"serving", "failed"}
          /\ faults' = faults \/ Fault
          /\ UNCHANGED <<binary, env, pc, rec, stop, machine, counter, zone, job, raced>>
      BY <1>5 DEF BindApi, store
    <2>2. ProcessInv' /\ RecType'
      BY <1>1, <1>2, <2>1 DEF ProcessInv, RecType
    <2>. QED
      BY <1>1, <1>2, <2>1, <2>2, QuietIInv
  <1>6. CASE Signal
    <2>1. /\ stop' \in BOOLEAN
          /\ UNCHANGED <<binary, env, pc, api, rec, machine, counter, zone, job, faults, raced>>
      BY <1>6 DEF Signal, store
    <2>2. ProcessInv' /\ RecType'
      BY <1>1, <2>1 DEF ProcessInv, RecType
    <2>. QED
      BY <1>1, <2>1, <2>2, QuietIInv
  <1>7. CASE CloseApi
    <2>1. /\ api' = "closed" /\ api = "serving" /\ \A r \in Reqs : job[r] = NoJob
          /\ UNCHANGED <<binary, env, pc, rec, stop, machine, counter, zone, job, faults, raced>>
      BY <1>7 DEF CloseApi, store
    <2>2. ProcessInv' /\ RecType'
      BY <1>1, <2>1 DEF ProcessInv, RecType
    <2>. QED
      BY <1>1, <2>1, <2>2, QuietIInv
  <1>8. CASE ReconcileStop \/ ReconcileDone
    <2>. PICK p \in {"ended", "wait"} : rec' = [NoRec EXCEPT !.at = p]
      BY <1>8 DEF ReconcileStop, ReconcileDone
    <2>1. /\ rec.at \in {"wait", "item"} /\ rec.todo = <<>>
          /\ UNCHANGED <<binary, env, pc, api, stop, machine, counter, zone, job, faults, raced>>
      BY <1>1, <1>8 DEF ReconcileStop, ReconcileDone, store, ProcessInv
    <2>2. rec'.at = p /\ rec'.todo = <<>> /\ RecType'
      BY Empties DEF RecType, NoRec
    <2>3. pc = "up"
      BY <1>1, <2>1, Empties DEF ProcessInv
    <2>4. ProcessInv'
      BY <1>1, <2>1, <2>2, <2>3 DEF ProcessInv
    <2>. QED
      BY <1>1, <2>1, <2>2, <2>4, QuietIInv
  <1>. QED
    BY <1>3, <1>4, <1>5, <1>6, <1>7, <1>8

-----------------------------------------------------------------------------
(***************************************************************************)
(* The handlers.                                                           *)
(***************************************************************************)

\* A handler that begins has its calls ahead of it.
LEMMA JobsTyped ==
  \A n \in Names, i \in Indices :
      /\ UpsertMachine(n, i) \in Job /\ UpsertMachine(n, i).op = "upsert"
      /\ UpsertMachine(n, i).name = n /\ \A k \in Kinds : UpsertMachine(n, i).at[k] = "get"
      /\ RemoveMachine(n) \in Job /\ RemoveMachine(n).op = "remove" /\ RemoveMachine(n).index = 0
      /\ RemoveMachine(n).name = n /\ \A k \in Kinds : RemoveMachine(n).at[k] = "get"
  <1>1. 0 \in Indices
    BY BoundsNat DEF Indices
  <1>. QED
    BY <1>1 DEF UpsertMachine, RemoveMachine, Job

\* The names on the list of a pass are machine names.
LEMMA ListedNames == IInv => Listed \subseteq Names
  <1>. SUFFICES ASSUME IInv, NEW i \in DOMAIN rec.todo PROVE rec.todo[i].name \in Names
    BY DEF Listed
  <1>1. rec.todo \in Seq(Item)
    BY DEF IInv, RecType
  <1>2. rec.todo[i] \in Item
    BY <1>1
  <1>. QED
    BY <1>2 DEF Item

\* A handler's next job keeps the invariant when names that it deletes and others
\* allocate, or the other way round, are marked, and when a machine goes only once
\* its records are gone and nobody is about to make them again.
LEMMA SwapJob ==
  ASSUME IInv, Notes', NEW r \in Reqs, NEW j \in Job,
         job' = [job EXCEPT ![r] = j], api = "serving" \/ j = NoJob,
         j.op # "none" => j.name \in Names, j.op = "none" => j = NoJob,
         j.op = "remove" => j.index = 0,
         \A k \in Kinds : j.op = "alloc" => j.at[k] = "done",
         \A k \in Kinds : j.at[k] \in {"get", "done"},
         UNCHANGED <<binary, env, pc, api, rec, stop, zone>>,
         faults' \in Nat, faults' = 0 => faults = 0,
         machine' \in [Names -> Indices], counter' \in Int,
         raced \subseteq raced', raced' \subseteq Names,
         j.op = "remove" => /\ \A k \in Kinds : j.at[k] = "get"
                            /\ j.name \in Listed => j.name \in raced'
                            /\ \A q \in Reqs \ {r} :
                                 job[q].op \in {"alloc", "upsert"} /\ job[q].name = j.name =>
                                     j.name \in raced',
         j.op \in {"alloc", "upsert"} =>
             \A q \in Reqs \ {r} : job[q].op = "remove" /\ job[q].name = j.name => j.name \in raced',
         faults' = 0 /\ j.op = "upsert" /\ j.name \notin raced' => machine'[j.name] # 0,
         faults' = 0 => \A m \in Names \ raced' : machine[m] # 0 /\ machine'[m] = 0 =>
             /\ m \notin Listed /\ \A k \in Kinds : zone[m][k] = 0
             /\ \A q \in Reqs \ {r} : job[q].op = "upsert" => job[q].name # m
  PROVE  IInv'
  <1>1. job \in [Workers -> Job] /\ r \in Workers /\ r # "reconcile" /\ TypeOK
    BY Empties DEF IInv, TypeOK, Job
  <1>2. job'[r] = j /\ \A v \in Workers \ {r} : job'[v] = job[v]
    BY <1>1
  <1>3. \A q \in Reqs \ {r} : job'[q] = job[q]
    BY <1>2, Empties
  <1>4. TypeOK' /\ RecType'
    <2>1. job' \in [Workers -> Job]
      BY <1>1
    <2>2. TypeOK'
      BY <1>1, <2>1 DEF TypeOK, Job, Notes
    <2>. QED
      BY <2>2 DEF IInv, RecType
  <1>5. ProcessInv'
    <2>1. job'["reconcile"] = job["reconcile"]
      BY <1>1, <1>2, Empties
    <2>. QED
      BY <1>2, <1>3, <2>1 DEF IInv, ProcessInv
  <1>6. JobInv'
    BY <1>2, <1>3 DEF IInv, JobInv
  <1>7. RaceInv'
    <2>. SUFFICES ASSUME NEW p \in Reqs, NEW q \in Reqs, job'[p].op = "remove",
                         job'[q].op \in {"alloc", "upsert"}, job'[q].name = job'[p].name
                  PROVE  job'[p].name \in raced'
      BY DEF RaceInv
    <2>1. CASE p = r
      BY <1>2, <1>3, <2>1
    <2>2. CASE p # r /\ q = r
      BY <1>2, <1>3, <2>2
    <2>3. CASE p # r /\ q # r
      BY <1>3, <2>3 DEF IInv, RaceInv
    <2>. QED
      BY <2>1, <2>2, <2>3
  <1>8. UpsertInv'
    <2>. SUFFICES ASSUME faults' = 0, NEW q \in Reqs, job'[q].op = "upsert", job'[q].name \notin raced'
                  PROVE  machine'[job'[q].name] # 0
      BY DEF UpsertInv
    <2>1. CASE q = r
      BY <1>2, <2>1
    <2>2. CASE q # r
      <3>1. job'[q] = job[q] /\ job[q].name \in Names
        BY <1>3, <2>2, Empties DEF IInv, JobInv
      <3>2. machine[job[q].name] # 0
        BY <3>1 DEF IInv, UpsertInv
      <3>. QED
        BY <2>2, <3>1, <3>2
    <2>. QED
      BY <2>1, <2>2
  <1>9. ListInv'
    <2>1. Listed' = Listed
      BY DEF Listed
    <2>. SUFFICES ASSUME faults' = 0, NEW m \in Listed, m \notin raced'
                  PROVE  /\ machine'[m] # 0
                         /\ \A q \in Reqs : job'[q].name = m => job'[q].op # "remove"
      BY <2>1 DEF ListInv
    <2>2. /\ machine[m] # 0 /\ \A q \in Reqs : job[q].name = m => job[q].op # "remove"
      BY DEF IInv, ListInv
    <2>3. m \in Names
      BY ListedNames
    <2>. QED
      BY <1>2, <1>3, <2>2, <2>3
  <1>10. RemoveInv'
    BY <1>2, <1>3 DEF IInv, RemoveInv
  <1>11. CleanInv'
    BY DEF IInv, CleanInv
  <1>12. DummyInv'
    BY <1>2 DEF IInv, DummyInv
  <1>. QED
    BY <1>4, <1>5, <1>6, <1>7, <1>8, <1>9, <1>10, <1>11, <1>12 DEF IInv

\* What a handler does to its own job.
Handler(r) ==
    \/ Incr(r) \/ SetNx(r) \/ Rollback(r) \/ Finish(r)
    \/ \E n \in Names : Allocate(r, n) \/ Delete(r, n)

\* Allocation, deletion, and the end of either.
LEMMA HandlerIInv ==
  ASSUME IInv, Notes', NEW r \in Reqs, Handler(r)
  PROVE  IInv'
  <1>1. /\ TypeOK /\ job \in [Workers -> Job] /\ r \in Workers /\ raced \subseteq Names
        /\ job[r] \in Job /\ machine \in [Names -> Indices] /\ counter \in Int /\ faults \in Nat
        /\ 0 \in Indices /\ Indices = Nat
    BY Empties DEF IInv, TypeOK, Job, Indices
  <1>2. job[r].op # "none" => api = "serving" /\ job[r].name \in Names
    BY Empties, <1>1 DEF IInv, ProcessInv, JobInv
  <1>3. ASSUME NEW n \in Names, Allocate(r, n) PROVE IInv'
    <2>. DEFINE j == [NoJob EXCEPT !.op = "alloc", !.name = n]
    <2>1. /\ api = "serving" /\ job' = [job EXCEPT ![r] = j]
          /\ raced' = IF Deleting(n) = {} THEN raced ELSE raced \cup {n}
          /\ UNCHANGED <<binary, env, pc, api, rec, stop, machine, counter, zone, faults>>
      BY <1>3 DEF Allocate, Enter, store
    <2>2. j \in Job /\ j.op = "alloc" /\ j.name = n /\ \A k \in Kinds : j.at[k] = "done"
      BY Empties DEF Job
    <2>3. \A q \in Reqs : job[q].op = "remove" /\ job[q].name = n => n \in raced'
      BY <2>1 DEF Deleting
    <2>4. raced \subseteq raced' /\ raced' \subseteq Names /\ faults' \in Nat
          /\ machine' \in [Names -> Indices] /\ counter' \in Int
      BY <1>1, <2>1
    <2>. HIDE DEF j
    <2>. QED
      BY <2>1, <2>2, <2>3, <2>4, SwapJob
  <1>4. ASSUME NEW n \in Names, Delete(r, n) PROVE IInv'
    <2>. DEFINE j == RemoveMachine(n)
    <2>1. /\ api = "serving" /\ job' = [job EXCEPT ![r] = j]
          /\ raced' = IF n \notin Listed /\ Allocating(n) = {} THEN raced ELSE raced \cup {n}
          /\ UNCHANGED <<binary, env, pc, api, rec, stop, machine, counter, zone, faults>>
      BY <1>4 DEF Delete, Enter, store
    <2>2. /\ j \in Job /\ j.op = "remove" /\ j.name = n /\ j.index = 0
          /\ \A k \in Kinds : j.at[k] = "get"
      BY <1>1, JobsTyped
    <2>3. /\ n \in Listed => n \in raced'
          /\ \A q \in Reqs : job[q].op \in {"alloc", "upsert"} /\ job[q].name = n => n \in raced'
      BY <2>1 DEF Allocating
    <2>4. raced \subseteq raced' /\ raced' \subseteq Names /\ faults' \in Nat
          /\ machine' \in [Names -> Indices] /\ counter' \in Int
      BY <1>1, <2>1
    <2>. HIDE DEF j
    <2>. QED
      BY <2>1, <2>2, <2>3, <2>4, SwapJob
  <1>5. ASSUME job[r].op \in {"alloc", "upsert"}
        PROVE  \A q \in Reqs : job[q].op = "remove" /\ job[q].name = job[r].name => job[r].name \in raced
    BY <1>5 DEF IInv, RaceInv
  <1>6. ASSUME job' = [job EXCEPT ![r] = NoJob],
               UNCHANGED <<binary, env, pc, api, rec, stop, machine, zone, faults, raced>>,
               counter' \in Int
        PROVE  IInv'
    <2>1. NoJob \in Job /\ NoJob.op = "none" /\ \A k \in Kinds : NoJob.at[k] = "done"
      BY Empties
    <2>2. raced \subseteq raced' /\ raced' \subseteq Names /\ faults' \in Nat
          /\ machine' \in [Names -> Indices]
      BY <1>1, <1>6
    <2>. QED
      BY <1>6, <2>1, <2>2, SwapJob
  <1>7. CASE Incr(r)
    <2>. DEFINE j == [job[r] EXCEPT !.index = counter + 1]
    <2>1. /\ job[r].op = "alloc" /\ counter' = counter + 1 /\ counter' \in Int
          /\ UNCHANGED <<binary, env, pc, api, rec, stop, machine, zone, faults, raced>>
      BY <1>1, <1>7 DEF Incr
    <2>2. (counter + 1 >= 2 /\ job' = [job EXCEPT ![r] = j]) \/ job' = [job EXCEPT ![r] = NoJob]
      BY <1>7 DEF Incr
    <2>3. counter + 1 >= 2 => j \in Job /\ j.op = "alloc" /\ j.name = job[r].name /\ j.at = job[r].at
      BY <1>1, <2>1 DEF Job
    <2>4. counter + 1 >= 2 => \A k \in Kinds : j.at[k] = "done"
      BY <1>1, <2>1, <2>3 DEF IInv, JobInv
    <2>5. raced \subseteq raced' /\ raced' \subseteq Names /\ faults' \in Nat
          /\ machine' \in [Names -> Indices]
      BY <1>1, <2>1
    <2>. HIDE DEF j
    <2>6. CASE counter + 1 >= 2 /\ job' = [job EXCEPT ![r] = j]
      BY <1>2, <1>5, <2>1, <2>3, <2>4, <2>5, <2>6, SwapJob
    <2>7. CASE job' = [job EXCEPT ![r] = NoJob]
      BY <1>6, <2>1, <2>7
    <2>. QED
      BY <2>2, <2>6, <2>7
  <1>8. CASE SetNx(r)
    <2>. DEFINE n == job[r].name
                j == UpsertMachine(n, job[r].index)
    <2>1. /\ job[r].op = "alloc" /\ job[r].index # 0 /\ job[r].index \in Indices /\ n \in Names
          /\ UNCHANGED <<binary, env, pc, api, rec, stop, zone, faults, raced>>
      BY <1>1, <1>2, <1>8 DEF SetNx, Job
    <2>2. CASE machine[n] = 0
      <3>1. /\ machine' = [machine EXCEPT ![n] = job[r].index]
            /\ job' = [job EXCEPT ![r] = j] /\ counter' = counter
        BY <1>8, <2>2 DEF SetNx
      <3>2. machine' \in [Names -> Indices] /\ machine'[n] # 0
            /\ \A m \in Names \ {n} : machine'[m] = machine[m]
        BY <1>1, <2>1, <3>1
      <3>3. j \in Job /\ j.op = "upsert" /\ j.name = n /\ \A k \in Kinds : j.at[k] = "get"
        BY <2>1, JobsTyped
      <3>4. raced \subseteq raced' /\ raced' \subseteq Names /\ faults' \in Nat /\ counter' \in Int
        BY <1>1, <2>1, <3>1
      <3>5. \A q \in Reqs : job[q].op = "remove" /\ job[q].name = n => n \in raced
        BY <1>5, <2>1
      <3>6. \A m \in Names : machine'[m] = 0 => machine[m] = 0
        BY <1>1, <2>1, <2>2, <3>2
      <3>7. api = "serving"
        BY <1>2, <2>1
      <3>. HIDE DEF j, n
      <3>8. /\ j.op \in {"alloc", "upsert"} =>
                 \A q \in Reqs \ {r} : job[q].op = "remove" /\ job[q].name = j.name => j.name \in raced'
            /\ faults' = 0 /\ j.op = "upsert" /\ j.name \notin raced' => machine'[j.name] # 0
            /\ j.op # "remove" /\ j.op # "none" /\ j.op # "alloc" /\ j.name \in Names
            /\ \A k \in Kinds : j.at[k] \in {"get", "done"}
        BY <2>1, <3>2, <3>3, <3>5
      <3>. QED
        BY <2>1, <3>1, <3>2, <3>3, <3>4, <3>6, <3>7, <3>8, SwapJob
    <2>3. CASE machine[n] # 0
      <3>1. job' = [job EXCEPT ![r] = NoJob] /\ machine' = machine /\ counter' = counter - 1
        BY <1>8, <2>3 DEF SetNx
      <3>. QED
        BY <1>1, <1>6, <2>1, <3>1
    <2>. QED
      BY <2>2, <2>3
  <1>9. CASE Rollback(r)
    <2>1. /\ job[r].op = "upsert" /\ faults' = faults + 1 /\ job' = [job EXCEPT ![r] = NoJob]
          /\ machine' = [machine EXCEPT ![job[r].name] = 0]
          /\ UNCHANGED <<binary, env, pc, api, rec, stop, counter, zone, raced>>
      BY <1>9 DEF Rollback, Fault
    <2>2. /\ machine' \in [Names -> Indices] /\ faults' \in Nat /\ faults' # 0
          /\ counter' \in Int /\ raced \subseteq raced' /\ raced' \subseteq Names
      <3>1. faults + 1 \in Nat /\ faults + 1 # 0
        BY <1>1
      <3>2. machine' \in [Names -> Indices]
        BY <1>1, <2>1
      <3>. QED
        BY <1>1, <2>1, <3>1, <3>2
    <2>3. NoJob \in Job /\ NoJob.op = "none" /\ \A k \in Kinds : NoJob.at[k] = "done"
      BY Empties
    <2>. QED
      BY <2>1, <2>2, <2>3, SwapJob
  <1>10. CASE Finish(r)
    <2>. DEFINE n == job[r].name
    <2>1. /\ job[r].op \in {"upsert", "remove"} /\ job[r].at = Quiet /\ job' = [job EXCEPT ![r] = NoJob]
          /\ machine' = IF job[r].op = "remove" THEN [machine EXCEPT ![n] = 0] ELSE machine
          /\ UNCHANGED <<binary, env, pc, api, rec, stop, counter, zone, faults, raced>>
      BY <1>10 DEF Finish, Finished
    <2>2. n \in Names
      BY <1>2, <2>1
    <2>3. /\ machine' \in [Names -> Indices] /\ faults' \in Nat /\ counter' \in Int
          /\ raced \subseteq raced' /\ raced' \subseteq Names
          /\ \A m \in Names : machine[m] # 0 /\ machine'[m] = 0 => m = n /\ job[r].op = "remove"
      BY <1>1, <2>1, <2>2
    <2>4. NoJob \in Job /\ NoJob.op = "none" /\ \A k \in Kinds : NoJob.at[k] = "done"
      BY Empties
    <2>5. ASSUME faults = 0, n \notin raced, job[r].op = "remove"
          PROVE  /\ n \notin Listed /\ \A k \in Kinds : zone[n][k] = 0
                 /\ \A q \in Reqs \ {r} : job[q].op = "upsert" => job[q].name # n
      <3>1. n \notin Listed
        BY <2>5 DEF IInv, ListInv
      <3>2. \A k \in Kinds : zone[n][k] = 0
        BY <2>1, <2>5 DEF IInv, RemoveInv, Quiet
      <3>3. \A q \in Reqs \ {r} : job[q].op = "upsert" => job[q].name # n
        BY <2>5 DEF IInv, RaceInv
      <3>. QED
        BY <3>1, <3>2, <3>3
    <2>. HIDE DEF n
    <2>6. faults' = 0 => \A m \in Names \ raced' : machine[m] # 0 /\ machine'[m] = 0 =>
             /\ m \notin Listed /\ \A k \in Kinds : zone[m][k] = 0
             /\ \A q \in Reqs \ {r} : job[q].op = "upsert" => job[q].name # m
      <3>. SUFFICES ASSUME faults' = 0, NEW m \in Names \ raced', machine[m] # 0, machine'[m] = 0
                    PROVE  /\ m \notin Listed /\ \A k \in Kinds : zone[m][k] = 0
                           /\ \A q \in Reqs \ {r} : job[q].op = "upsert" => job[q].name # m
        OBVIOUS
      <3>1. m = n /\ job[r].op = "remove"
        BY <2>3
      <3>2. faults = 0 /\ n \notin raced
        BY <2>1, <3>1
      <3>. QED
        BY <2>5, <3>1, <3>2
    <2>7. job[r].op # "alloc" /\ NoJob.op \notin {"alloc", "upsert", "remove"}
      BY <2>1, <2>4
    <2>. QED
      BY <2>1, <2>3, <2>4, <2>6, <2>7, SwapJob
  <1>. QED
    BY <1>3, <1>4, <1>7, <1>8, <1>9, <1>10 DEF Handler

-----------------------------------------------------------------------------
(***************************************************************************)
(* The reconcile loop.                                                     *)
(***************************************************************************)

\* The list of a pass holds records of live machines.
LEMMA ItemsTyped ==
  ASSUME TypeOK, NEW order \in List
  PROVE  /\ Items(order) \in Seq(Item)
         /\ \A i \in DOMAIN Items(order) : Items(order)[i].name \in Live
  <1>. DEFINE C == Cardinality(Live)
              s == Items(order)
  <1>1. C \in Nat
    <2>1. Live \subseteq Names
      BY DEF Live
    <2>. QED
      BY <2>1, Finite, FS_Subset, FS_CardinalityType
  <1>2. order \in [1..C -> Live]
    BY DEF List
  <1>. HIDE DEF C
  <1>3. \A i \in 1..(2 * C) : (i + 1) \div 2 \in 1..C
    BY <1>1
  <1>4. s = [i \in 1..(2 * C) |->
               [name |-> order[(i + 1) \div 2], index |-> machine[order[(i + 1) \div 2]],
                kind |-> IF i % 2 = 1 THEN "host" ELSE "wild"]]
    BY DEF Items, C
  <1>. HIDE DEF s
  <1>5. ASSUME NEW i \in 1..(2 * C) PROVE s[i] \in Item /\ s[i].name \in Live
    <2>1. order[(i + 1) \div 2] \in Live
      BY <1>2, <1>3
    <2>2. \A n \in Live : n \in Names /\ machine[n] \in Indices
      BY DEF Live, TypeOK
    <2>. QED
      BY <1>4, <2>1, <2>2 DEF Item, Kinds
  <1>6. 2 * C \in Nat /\ DOMAIN s = 1..(2 * C)
    BY <1>1, <1>4
  <1>7. s \in [1..(2 * C) -> Item]
    BY <1>4, <1>5
  <1>8. s \in Seq(Item)
    BY <1>6, <1>7
  <1>. QED
    BY <1>5, <1>6, <1>8 DEF s

\* A pass begins with the machines that nobody works on, or marks them.
LEMMA StartIInv == IInv /\ Notes' /\ ReconcileStart => IInv'
  <1>. SUFFICES ASSUME IInv, Notes', ReconcileStart PROVE IInv'
    OBVIOUS
  <1>1. /\ rec.at = "wait" /\ rec.todo = <<>> /\ TypeOK /\ pc = "up"
        /\ UNCHANGED <<binary, env, pc, api, stop, machine, counter, zone, job>>
    BY Empties DEF IInv, ReconcileStart, store, ProcessInv
  <1>2. CASE Fault /\ UNCHANGED <<rec, raced, gaveBack>>
    <2>1. faults' \in Nat /\ faults' # 0
      BY <1>1, <1>2, BoundsNat DEF Fault, TypeOK
    <2>2. RecType' /\ ProcessInv' /\ pc' \in {"halted", "failed", "boot", "up"}
          /\ api' \in {"off", "binding", "serving", "failed", "closed"} /\ stop' \in BOOLEAN
      BY <1>1, <1>2 DEF IInv, RecType, ProcessInv, TypeOK
    <2>. QED
      BY <1>1, <1>2, <2>1, <2>2, QuietIInv
  <1>3. ASSUME NEW order \in List, rec' = [at |-> "item", todo |-> Items(order)],
               raced' = raced \cup {n \in Live : Deleting(n) # {}}, faults' = faults
        PROVE  IInv'
    <2>1. rec'.at = "item" /\ rec'.todo = Items(order) /\ RecType'
      BY <1>1, <1>3, ItemsTyped DEF RecType
    <2>2. TypeOK'
      BY <1>1, <1>3, <2>1 DEF TypeOK, Live, Notes
    <2>3. ProcessInv' /\ JobInv' /\ RaceInv' /\ UpsertInv'
      BY <1>1, <1>3, <2>1 DEF IInv, ProcessInv, JobInv, RaceInv, UpsertInv
    <2>4. ListInv'
      <3>. SUFFICES ASSUME NEW n \in Live, n \notin raced'
                    PROVE  /\ machine'[n] # 0
                           /\ \A r \in Reqs : job'[r].name = n => job'[r].op # "remove"
        BY <1>1, <2>1, ItemsTyped DEF ListInv, Listed
      <3>. QED
        BY <1>1, <1>3 DEF Live, Deleting
    <2>5. RemoveInv' /\ CleanInv' /\ DummyInv'
      BY <1>1, <1>3 DEF IInv, RemoveInv, CleanInv, DummyInv
    <2>. QED
      BY <2>1, <2>2, <2>3, <2>4, <2>5 DEF IInv
  <1>. QED
    BY <1>2, <1>3 DEF ReconcileStart

\* Steps of a pass that change its own place, list and job only.
LEMMA PassIInv ==
  ASSUME IInv, Notes', UNCHANGED <<binary, env, pc, api, stop, machine, counter, zone, raced>>,
         pc = "up",
         faults' \in Nat, faults' = 0 => faults = 0, RecType', Listed' \subseteq Listed,
         NEW j \in Job, job' = [job EXCEPT !["reconcile"] = j],
         j.op # "none" => j.name \in Names, j.op \in {"none", "upsert"},
         env.dummy => \A k \in Kinds : j.at[k] \in {"get", "done"},
         rec'.at # "apply" => j = NoJob,
         rec'.at \notin {"item", "apply"} => rec'.todo = <<>>,
         rec'.at = "apply" => rec'.todo # <<>> /\ j.op = "upsert" /\ j.name = rec'.todo[1].name
  PROVE  IInv'
  <1>1. TypeOK /\ job \in [Workers -> Job]
    BY DEF IInv, TypeOK, Job
  <1>2. /\ job' \in [Workers -> Job] /\ job'["reconcile"] = j
        /\ \A r \in Reqs : job'[r] = job[r]
        /\ \A w \in Workers : w \in Reqs \/ w = "reconcile"
    BY <1>1, Empties
  <1>3. TypeOK'
    BY <1>1, <1>2 DEF TypeOK, RecType, Job, Notes
  <1>4. ProcessInv'
    BY <1>2 DEF IInv, ProcessInv
  <1>5. JobInv'
    BY <1>2 DEF IInv, JobInv
  <1>6. ListInv' /\ RaceInv' /\ UpsertInv'
    BY <1>2 DEF IInv, ListInv, RaceInv, UpsertInv
  <1>7. RemoveInv' /\ CleanInv'
    BY <1>2 DEF IInv, RemoveInv, CleanInv
  <1>8. DummyInv'
    BY <1>2 DEF IInv, DummyInv
  <1>. QED
    BY <1>3, <1>4, <1>5, <1>6, <1>7, <1>8 DEF IInv

\* What is left of a list was on it.
LEMMA TailListed ==
  ASSUME IInv, rec.todo # <<>>, rec'.todo = Tail(rec.todo), 
         rec' \in [at : {"off", "wait", "item", "apply", "panicked", "ended"}, todo : Seq(Item)]
  PROVE  RecType' /\ Listed' \subseteq Listed
  <1>1. rec.todo \in Seq(Item)
    BY DEF IInv, RecType
  <1>2. \A i \in DOMAIN Tail(rec.todo) : i + 1 \in DOMAIN rec.todo /\ Tail(rec.todo)[i] = rec.todo[i + 1]
    BY <1>1
  <1>. QED
    BY <1>2 DEF RecType, Listed

\* Looking a record up, re-applying it, and a panic.
LEMMA PassSteps == IInv /\ Notes' /\ (Resolve \/ Applied \/ ReconcilePanic) => IInv'
  <1>. SUFFICES ASSUME IInv, Notes', Resolve \/ Applied \/ ReconcilePanic PROVE IInv'
    OBVIOUS
  <1>1. /\ TypeOK /\ job \in [Workers -> Job] /\ RecType /\ rec.todo \in Seq(Item)
        /\ faults \in Nat
    BY DEF IInv, TypeOK, Job, RecType
  <1>2. Fault => faults' \in Nat /\ faults' # 0
    BY <1>1, BoundsNat DEF Fault
  <1>3. rec.at \in {"item", "apply"} => pc = "up"
    BY Empties DEF IInv, ProcessInv
  <1>4. rec.at = "item" => job["reconcile"] = NoJob
    BY DEF IInv, ProcessInv
  <1>5. CASE Resolve
    <2>. DEFINE r == Head(rec.todo)
                j == [op |-> "upsert", name |-> r.name, index |-> r.index,
                      at |-> [Quiet EXCEPT ![r.kind] = "get"]]
    <2>1. /\ rec.at = "item" /\ rec.todo # <<>> /\ (faults' = faults \/ Fault)
          /\ UNCHANGED <<binary, env, pc, api, stop, machine, counter, zone, raced>>
      BY <1>5 DEF Resolve, store
    <2>2. \/ rec' = [rec EXCEPT !.at = "apply"] /\ job' = [job EXCEPT !["reconcile"] = j]
          \/ rec' = [rec EXCEPT !.todo = Tail(@)] /\ job' = job
      BY <1>5 DEF Resolve
    <2>3. r = rec.todo[1] /\ r \in Item /\ Tail(rec.todo) \in Seq(Item)
      BY <1>1, <2>1
    <2>4. faults' \in Nat /\ (faults' = 0 => faults = 0) /\ pc = "up"
      BY <1>1, <1>2, <1>3, <2>1
    <2>5. CASE rec' = [rec EXCEPT !.at = "apply"] /\ job' = [job EXCEPT !["reconcile"] = j]
      <3>1. rec'.at = "apply" /\ rec'.todo = rec.todo /\ RecType'
        BY <1>1, <2>5 DEF RecType
      <3>2. Listed' \subseteq Listed
        BY <3>1 DEF Listed
      <3>3. /\ [Quiet EXCEPT ![r.kind] = "get"] \in [Kinds -> {"get", "delete", "create", "done"}]
            /\ \A k \in Kinds : [Quiet EXCEPT ![r.kind] = "get"][k] \in {"get", "done"}
        BY <2>3 DEF Quiet, Item
      <3>4. j \in Job /\ j.op = "upsert" /\ j.name = r.name /\ r.name \in Names
            /\ \A k \in Kinds : j.at[k] \in {"get", "done"}
        BY <2>3, <3>3 DEF Job, Item
      <3>. HIDE DEF j, r
      <3>. QED
        BY <2>1, <2>3, <2>4, <2>5, <3>1, <3>2, <3>4, PassIInv
    <2>6. CASE rec' = [rec EXCEPT !.todo = Tail(@)] /\ job' = job
      <3>1. rec'.at = "item" /\ rec'.todo = Tail(rec.todo)
            /\ rec' \in [at : {"off", "wait", "item", "apply", "panicked", "ended"}, todo : Seq(Item)]
        BY <1>1, <2>1, <2>3, <2>6 DEF RecType
      <3>2. RecType' /\ Listed' \subseteq Listed
        BY <2>1, <3>1, TailListed
      <3>3. job' = [job EXCEPT !["reconcile"] = NoJob]
        BY <1>1, <1>4, <2>1, <2>6, Empties
      <3>. QED
        BY <2>1, <2>4, <3>1, <3>2, <3>3, PassIInv, Empties
    <2>. QED
      BY <2>2, <2>5, <2>6
  <1>6. CASE Applied
    <2>1. /\ rec.at = "apply" /\ rec' = [at |-> "item", todo |-> Tail(rec.todo)]
          /\ job' = [job EXCEPT !["reconcile"] = NoJob]
          /\ UNCHANGED <<binary, env, pc, api, stop, machine, counter, zone, faults, raced>>
      BY <1>6 DEF Applied, store
    <2>2. rec.todo # <<>>
      BY <2>1 DEF IInv, ProcessInv
    <2>3. rec'.at = "item" /\ rec'.todo = Tail(rec.todo)
          /\ rec' \in [at : {"off", "wait", "item", "apply", "panicked", "ended"}, todo : Seq(Item)]
      BY <1>1, <2>1, <2>2
    <2>4. RecType' /\ Listed' \subseteq Listed
      BY <2>2, <2>3, TailListed
    <2>. QED
      BY <1>1, <1>3, <2>1, <2>3, <2>4, PassIInv, Empties
  <1>7. CASE ReconcilePanic
    <2>1. /\ rec.at \in {"item", "apply"} /\ Fault /\ rec' = [NoRec EXCEPT !.at = "panicked"]
          /\ job' = [job EXCEPT !["reconcile"] = NoJob]
          /\ UNCHANGED <<binary, env, pc, api, stop, machine, counter, zone, raced>>
      BY <1>7 DEF ReconcilePanic, store
    <2>2. rec'.at = "panicked" /\ rec'.todo = <<>> /\ RecType'
      BY <2>1, Empties DEF RecType, NoRec
    <2>3. Listed' \subseteq Listed
      BY <2>2 DEF Listed
    <2>. QED
      BY <1>2, <1>3, <2>1, <2>2, <2>3, PassIInv, Empties
  <1>. QED
    BY <1>5, <1>6, <1>7

-----------------------------------------------------------------------------
(***************************************************************************)
(* The theorems.                                                           *)
(***************************************************************************)

\* An edge that was never started knows no machine and has no record.
LEMMA InitIInv == Init => IInv
  <1>. SUFFICES ASSUME Init PROVE IInv
    OBVIOUS
  <1>1. <<binary, env>> \in Launches
    BY Shapes DEF Init, Binaries
  <1>2. \A w \in Workers : job[w] = NoJob
    BY DEF Init
  <1>3. 0 \in Indices
    BY BoundsNat DEF Indices
  <1>4. TypeOK /\ RecType
    <2>1. counter \in Int /\ asked \in Nat /\ gaveBack \in BOOLEAN
      <3>1. counter \in Int /\ asked \in Nat
        BY DEF Init
      <3>2. gaveBack \in BOOLEAN
        BY Zenon DEF Init
      <3>. QED
        BY <3>1, <3>2
    <2>2. /\ job \in [Workers -> Job] /\ rec.at = "off" /\ stop \in BOOLEAN
          /\ machine \in [Names -> Indices] /\ faults \in Nat
      <3>1. job \in [Workers -> Job] /\ rec.at = "off"
        BY Empties DEF Init
      <3>2. stop \in BOOLEAN
        BY Zenon DEF Init
      <3>3. machine \in [Names -> Indices] /\ faults \in Nat
        BY <1>3, BoundsNat DEF Init
      <3>. QED
        BY <3>1, <3>2, <3>3
    <2>3. zone \in [Names -> [Kinds -> Indices]]
      BY <1>3 DEF Init
    <2>. QED
      BY <1>1, <2>1, <2>2, <2>3, Empties DEF Init, TypeOK, RecType, Job
  <1>5. ProcessInv /\ JobInv /\ RaceInv /\ UpsertInv
    BY <1>2, Empties DEF Init, ProcessInv, JobInv, RaceInv, UpsertInv
  <1>6. ListInv
    <2>1. Listed = {}
      BY Empties DEF Init, Listed
    <2>. QED
      BY <2>1 DEF ListInv
  <1>7. RemoveInv /\ CleanInv /\ DummyInv
    BY <1>2, Empties DEF Init, RemoveInv, CleanInv, DummyInv
  <1>. QED
    BY <1>4, <1>5, <1>6, <1>7 DEF IInv

\* The record of what was asked and given back stays typed.
LEMMA NotesStep == TypeOK /\ [Next]_vars => Notes'
  <1>. SUFFICES ASSUME TypeOK, [Next]_vars PROVE Notes'
    OBVIOUS
  <1>1. asked \in Nat /\ gaveBack \in BOOLEAN
    BY DEF TypeOK
  <1>2. SUFFICES /\ asked' = asked \/ Ask
                 /\ gaveBack' = gaveBack \/ gaveBack' = TRUE
    <2>1. asked' = asked \/ Ask => asked' \in Nat
      BY <1>1 DEF Ask
    <2>2. gaveBack' = gaveBack \/ gaveBack' = TRUE => gaveBack' \in BOOLEAN
      BY <1>1, Zenon
    <2>. QED
      BY <2>1, <2>2 DEF Notes
  <1>3. CASE Dns
    <2>1. UNCHANGED <<asked, gaveBack>>
      BY <1>3 DEF Dns, Get, DeleteRrset, CreateRrset
    <2>. QED
      BY <2>1
  <1>4. CASE Start \/ Boot \/ BindApi \/ SiteBindError \/ TaskPanicked \/ Signal \/ Crash \/ Shutdown
    BY <1>4 DEF Start, Boot, BindApi, SiteBindError, TaskPanicked, Signal, Crash, Shutdown,
         CloseApi, ReconcileStop, Leave
  <1>5. CASE Reconcile \/ ReconcilePanic
    BY <1>5 DEF Reconcile, ReconcileStart, ReconcileDone, Resolve, Applied, ReconcilePanic
  <1>6. ASSUME NEW r \in Reqs, Incr(r) \/ SetNx(r) \/ Rollback(r) \/ Finish(r)
        PROVE  asked' = asked /\ (gaveBack' = gaveBack \/ gaveBack' = TRUE)
    BY <1>6 DEF Incr, SetNx, Rollback, Finish
  <1>7. ASSUME NEW r \in Reqs, NEW n \in Names, Allocate(r, n) \/ Delete(r, n)
        PROVE  Ask /\ gaveBack' = gaveBack
    BY <1>7 DEF Allocate, Delete, Enter
  <1>8. CASE UNCHANGED vars
    BY <1>8 DEF vars
  <1>. QED
    BY <1>3, <1>4, <1>5, <1>6, <1>7, <1>8 DEF Next

\* Every step keeps the invariant.
LEMMA StepIInv == IInv /\ [Next]_vars => IInv'
  <1>. SUFFICES ASSUME IInv, [Next]_vars PROVE IInv'
    OBVIOUS
  <1>. Notes'
    BY NotesStep DEF IInv
  <1>1. CASE Dns
    BY <1>1, CallIInv DEF Dns, DnsCall
  <1>2. CASE UNCHANGED vars
    BY <1>2 DEF vars, store, IInv, TypeOK, RecType, ProcessInv, JobInv, RaceInv, UpsertInv,
       ListInv, Listed, RemoveInv, CleanInv, DummyInv
  <1>3. CASE \E r \in Reqs : Handler(r)
    BY <1>3, HandlerIInv
  <1>. QED
    BY <1>1, <1>2, <1>3, ProcessIInv, StartIInv, PassSteps DEF Next, Shutdown, Reconcile, Handler

\* The invariant holds in every reachable state.
THEOREM Invariance == Spec => []IInv
  BY InitIInv, StepIInv, PTL DEF Spec

\* Both edge binaries and the records at the provider are well typed, for any
\* launches, machines and handlers.
THEOREM TypeCorrect == Spec => []TypeOK
  <1>1. IInv => TypeOK
    BY DEF IInv
  <1>. QED
    BY Invariance, <1>1, PTL

\* ControlPlane::delete leaves no record of the machine at the provider,
\* although other deletions and the upserts of the reconcile loop run beside it, as
\* long as no call fails, nobody allocates the name meanwhile and no pass had the
\* machine on its list.
THEOREM DeletesRecords == Spec => []DeletedHasNoRecord
  <1>1. IInv => DeletedHasNoRecord
    <2>. SUFFICES ASSUME IInv, faults = 0, NEW n \in Names \ raced, machine[n] = 0
                  PROVE  zone[n] = [k \in Kinds |-> 0]
      BY DEF DeletedHasNoRecord
    <2>1. zone[n] \in [Kinds -> Indices] /\ \A k \in Kinds : zone[n][k] = 0
      BY DEF IInv, TypeOK, CleanInv
    <2>. QED
      BY <2>1
  <1>. QED
    BY Invariance, <1>1, PTL

\* Handlers whose jobs keep what they have taken.
LEMMA SameTaken ==
  ASSUME \A r \in Reqs : \/ job'[r].op = job[r].op /\ job'[r].index = job[r].index
                         \/ job'[r].op # "alloc" \/ job'[r].index = 0
  PROVE  Taken' \subseteq Taken /\ \A r \in Taken' : job'[r].index = job[r].index
  BY DEF Taken

\* Steps that take no index and store none.
LEMMA FewerIndices ==
  ASSUME IndicesFit, env' = env, counter' = counter, ~gaveBack' => ~gaveBack,
         \A m \in Names : machine'[m] = machine[m] \/ machine'[m] = 0,
         Taken' \subseteq Taken, \A r \in Taken' : job'[r].index = job[r].index,
         TypeOK
  PROVE  IndicesFit'
  <1>2. \A n \in Names : machine'[n] # 0 => IndexUsed(env', machine'[n])
    BY DEF IndicesFit
  <1>3. \A r \in Taken' : IndexUsed(env', job'[r].index)
    BY DEF IndicesFit
  <1>4. ~gaveBack => 0 <= counter /\ \A r \in Taken : job[r].index # 0
    BY DEF IndicesFit, Taken, TypeOK
  <1>5. ~gaveBack' =>
          /\ counter' >= 1
          /\ \A n \in Names : machine'[n] <= counter'
          /\ \A r \in Taken' : job'[r].index <= counter'
          /\ \A n \in Names : \A m \in Names \ {n} : machine'[n] # 0 => machine'[m] # machine'[n]
          /\ \A n \in Names, r \in Taken' : machine'[n] # job'[r].index
          /\ \A r \in Taken' : \A q \in Taken' \ {r} : job'[q].index # job'[r].index
    BY <1>4 DEF IndicesFit
  <1>. QED
    BY <1>2, <1>3, <1>5 DEF IndicesFit

\* Allocation gives no machine the edge's own index, nor one that Subnet::host
\* cannot turn into both addresses, and no two machines one index until the loser
\* of a race for a name has given an index back.
THEOREM UniqueIndices == Spec => []IndicesFit
  <1>1. Init => IndicesFit
    <2>. SUFFICES ASSUME Init PROVE IndicesFit
      OBVIOUS
    <2>1. Taken = {}
      BY Empties DEF Init, Taken
    <2>. QED
      BY <2>1 DEF Init, IndicesFit
  <1>2. IInv /\ IndicesFit /\ [Next]_vars => IndicesFit'
    <2>. SUFFICES ASSUME IInv, IndicesFit, [Next]_vars PROVE IndicesFit'
      OBVIOUS
    <2>1. /\ TypeOK /\ counter \in Int /\ machine \in [Names -> Nat]
          /\ \A n \in Names : machine[n] \in Nat
          /\ job \in [Workers -> Job] /\ \A r \in Reqs : job[r] \in Job /\ r \in Workers
      BY Empties DEF IInv, TypeOK, Indices, Job
    <2>2. ASSUME env' = env, counter' = counter, gaveBack' = gaveBack,
                 \A m \in Names : machine'[m] = machine[m] \/ machine'[m] = 0,
                 \A r \in Reqs : \/ job'[r].op = job[r].op /\ job'[r].index = job[r].index
                                 \/ job'[r].op # "alloc" \/ job'[r].index = 0
          PROVE  IndicesFit'
      BY <2>1, <2>2, SameTaken, FewerIndices
    <2>3. CASE UNCHANGED <<env, machine, counter, gaveBack, job>>
      BY <2>2, <2>3
    <2>4. CASE Dns
      <3>. PICK w \in Workers, k \in Kinds : DnsCall(w, k)
        BY <2>4 DEF Dns, DnsCall
      <3>1. UNCHANGED <<env, machine, counter, gaveBack>>
        BY DEF DnsCall, Get, DeleteRrset, CreateRrset, store
      <3>2. \E p \in {"get", "delete", "create", "done"} : At(w, k, p)
        BY CallEffect
      <3>3. \A v \in Workers : job'[v].op = job[v].op /\ job'[v].index = job[v].index
        BY <2>1, <3>2, AtEffect
      <3>. QED
        BY <2>1, <2>2, <3>1, <3>3
    <2>5. CASE Start \/ Boot \/ BindApi \/ SiteBindError \/ TaskPanicked \/ Signal \/ Crash \/ Shutdown
      <3>1. UNCHANGED <<env, machine, counter, gaveBack>>
        BY <2>5 DEF Start, Boot, BindApi, SiteBindError, TaskPanicked, Signal, Crash,
             Shutdown, CloseApi, ReconcileStop, Leave, store
      <3>2. job' = job \/ job' = [w \in Workers |-> NoJob]
        BY <2>5 DEF Start, Boot, BindApi, SiteBindError, TaskPanicked, Signal, Crash,
             Shutdown, CloseApi, ReconcileStop, Leave, Fresh
      <3>3. \A r \in Reqs : job'[r] = job[r] \/ job'[r].op # "alloc"
        BY <2>1, <3>2, Empties
      <3>. QED
        BY <2>2, <3>1, <3>3
    <2>6. CASE Reconcile \/ ReconcilePanic
      <3>1. UNCHANGED <<env, machine, counter, gaveBack>>
        BY <2>6 DEF Reconcile, ReconcileStart, ReconcileDone, Resolve, Applied,
             ReconcilePanic, store
      <3>2. job' = job \/ \E j : job' = [job EXCEPT !["reconcile"] = j]
        BY <2>6 DEF Reconcile, ReconcileStart, ReconcileDone, Resolve, Applied, ReconcilePanic
      <3>3. \A r \in Reqs : job'[r] = job[r]
        BY <2>1, <3>2, Empties
      <3>. QED
        BY <2>2, <3>1, <3>3
    <2>7. ASSUME NEW r \in Reqs, NEW j, job' = [job EXCEPT ![r] = j], j.op # "alloc" \/ j.index = 0,
                 env' = env, counter' = counter, gaveBack' = gaveBack,
                 \A m \in Names : machine'[m] = machine[m] \/ machine'[m] = 0
          PROVE  IndicesFit'
      <3>1. \A q \in Reqs : job'[q] = job[q] \/ job'[q] = j
        BY <2>1, <2>7
      <3>. QED
        BY <2>2, <2>7, <3>1
    <2>8. ASSUME NEW r \in Reqs, NEW n \in Names, Allocate(r, n) PROVE IndicesFit'
      <3>. DEFINE j == [NoJob EXCEPT !.op = "alloc", !.name = n]
      <3>1. /\ job' = [job EXCEPT ![r] = j]
            /\ UNCHANGED <<env, machine, counter, gaveBack>>
        BY <2>8 DEF Allocate, store
      <3>2. j.index = 0
        BY DEF NoJob
      <3>. HIDE DEF j
      <3>. QED
        BY <2>7, <3>1, <3>2
    <2>9. ASSUME NEW r \in Reqs, NEW n \in Names, Delete(r, n) PROVE IndicesFit'
      <3>1. /\ job' = [job EXCEPT ![r] = RemoveMachine(n)]
            /\ UNCHANGED <<env, machine, counter, gaveBack>>
        BY <2>9 DEF Delete, store
      <3>2. RemoveMachine(n).op = "remove"
        BY DEF RemoveMachine
      <3>. QED
        BY <2>7, <3>1, <3>2
    <2>10. ASSUME NEW r \in Reqs, Finish(r) \/ Rollback(r) PROVE IndicesFit'
      <3>1. /\ job' = [job EXCEPT ![r] = NoJob]
            /\ UNCHANGED <<env, counter, gaveBack>>
        BY <2>10 DEF Finish, Rollback
      <3>2. \A m \in Names : machine'[m] = machine[m] \/ machine'[m] = 0
        BY <2>1, <2>10 DEF Finish, Rollback
      <3>. QED
        BY <2>7, <3>1, <3>2, Empties
    <2>11. ASSUME NEW r \in Reqs, Incr(r) PROVE IndicesFit'
      <3>. DEFINE i == counter + 1
      <3>1. UNCHANGED <<env, machine, gaveBack>> /\ counter' = i /\ i \in Int /\ i > counter
        BY <2>1, <2>11 DEF Incr
      <3>2. \A x : IndexUsed(env, x) => IndexUsed(env', x)
        BY <3>1
      <3>3. \/ job' = [job EXCEPT ![r] = NoJob]
            \/ job' = [job EXCEPT ![r] = [job[r] EXCEPT !.index = i]] /\ IndexUsed(env, i)
        <4>. DEFINE ok == i >= 2 /\ Fits(V6, env.subnet, i) /\ Fits(V4, env.wg_subnet, i)
        <4>1. job' = [job EXCEPT ![r] = IF ok THEN [job[r] EXCEPT !.index = i] ELSE NoJob]
          BY <2>1, <2>11 DEF Incr
        <4>2. i >= 2 => i \in Nat /\ i # 0 /\ i # 1
          BY <3>1
        <4>3. ok => IndexUsed(env, i)
          BY <4>2 DEF IndexUsed
        <4>. HIDE DEF ok
        <4>. QED
          BY <4>1, <4>3
      <3>. HIDE DEF i
      <3>4. \A q \in Taken' : \/ q \in Taken /\ job'[q] = job[q]
                              \/ q = r /\ job'[q].index = i /\ IndexUsed(env, i)
        <4>1. CASE job' = [job EXCEPT ![r] = NoJob]
          <5>1. \A q \in Reqs : q # r => job'[q] = job[q]
            BY <2>1, <4>1
          <5>2. job'[r].op = "none"
            BY <2>1, <4>1, Empties
          <5>. QED
            BY <5>1, <5>2 DEF Taken
        <4>2. CASE job' = [job EXCEPT ![r] = [job[r] EXCEPT !.index = i]] /\ IndexUsed(env, i)
          <5>1. \A q \in Reqs : q # r => job'[q] = job[q]
            BY <2>1, <4>2
          <5>2. job'[r].index = i
            BY <2>1, <4>2 DEF Job
          <5>. QED
            BY <4>2, <5>1, <5>2 DEF Taken
        <4>. QED
          BY <3>3, <4>1, <4>2
      <3>5. \A q \in Taken : job[q].index \in Nat
        BY <2>1 DEF Taken, Job, Indices
      <3>6. /\ \A n \in Names : machine'[n] # 0 => IndexUsed(env', machine'[n])
            /\ \A q \in Taken' : IndexUsed(env', job'[q].index)
        BY <3>1, <3>2, <3>4 DEF IndicesFit
      <3>7. ~gaveBack' =>
              /\ counter' >= 1
              /\ \A n \in Names : machine'[n] <= counter'
              /\ \A q \in Taken' : job'[q].index <= counter'
              /\ \A n \in Names : \A m \in Names \ {n} : machine'[n] # 0 => machine'[m] # machine'[n]
              /\ \A n \in Names, q \in Taken' : machine'[n] # job'[q].index
              /\ \A q \in Taken' : \A s \in Taken' \ {q} : job'[s].index # job'[q].index
        BY <2>1, <3>1, <3>4, <3>5 DEF IndicesFit
      <3>. QED
        BY <3>6, <3>7 DEF IndicesFit
    <2>12. ASSUME NEW r \in Reqs, SetNx(r) PROVE IndicesFit'
      <3>. DEFINE n == job[r].name
      <3>1. env' = env /\ r \in Taken /\ n \in Names
        BY <2>12 DEF SetNx, Taken, IInv, JobInv, Workers
      <3>2. \A x : IndexUsed(env, x) => IndexUsed(env', x)
        BY <3>1
      <3>3. CASE machine[n] = 0
        <4>1. /\ machine' = [machine EXCEPT ![n] = job[r].index]
              /\ job' = [job EXCEPT ![r] = UpsertMachine(n, job[r].index)]
              /\ counter' = counter /\ gaveBack' = gaveBack
          BY <2>12, <3>3 DEF SetNx
        <4>2. UpsertMachine(n, job[r].index).op = "upsert"
          BY DEF UpsertMachine
        <4>3. \A q \in Taken' : q \in Taken \ {r} /\ job'[q] = job[q]
          <5>1. \A q \in Reqs : q # r => job'[q] = job[q]
            BY <2>1, <4>1
          <5>2. job'[r].op = "upsert"
            BY <2>1, <4>1, <4>2
          <5>. QED
            BY <5>1, <5>2 DEF Taken
        <4>4. machine'[n] = job[r].index /\ \A m \in Names \ {n} : machine'[m] = machine[m]
          BY <2>1, <3>1, <4>1
        <4>5. /\ \A m \in Names : machine'[m] # 0 => IndexUsed(env', machine'[m])
              /\ \A q \in Taken' : IndexUsed(env', job'[q].index)
          BY <3>1, <3>2, <4>3, <4>4 DEF IndicesFit
        <4>6. ~gaveBack' =>
                /\ counter' >= 1
                /\ \A m \in Names : machine'[m] <= counter'
                /\ \A q \in Taken' : job'[q].index <= counter'
                /\ \A m \in Names : \A l \in Names \ {m} : machine'[m] # 0 => machine'[l] # machine'[m]
                /\ \A m \in Names, q \in Taken' : machine'[m] # job'[q].index
                /\ \A q \in Taken' : \A s \in Taken' \ {q} : job'[s].index # job'[q].index
          <5>. HIDE DEF n
          <5>. QED
            BY <3>1, <4>1, <4>3, <4>4 DEF IndicesFit
        <4>. QED
          BY <4>5, <4>6 DEF IndicesFit
      <3>4. CASE machine[n] # 0
        <4>1. gaveBack' = TRUE /\ job' = [job EXCEPT ![r] = NoJob] /\ machine' = machine
          BY <2>12, <3>4 DEF SetNx
        <4>2. \A q \in Taken' : q \in Taken /\ job'[q] = job[q]
          <5>1. \A q \in Reqs : q # r => job'[q] = job[q]
            BY <2>1, <4>1
          <5>2. job'[r].op = "none"
            BY <2>1, <4>1, Empties
          <5>. QED
            BY <5>1, <5>2 DEF Taken
        <4>3. /\ \A m \in Names : machine'[m] # 0 => IndexUsed(env', machine'[m])
              /\ \A q \in Taken' : IndexUsed(env', job'[q].index)
          BY <3>2, <4>1, <4>2 DEF IndicesFit
        <4>. QED
          BY <4>1, <4>3 DEF IndicesFit
      <3>. QED
        BY <3>3, <3>4
    <2>13. CASE UNCHANGED vars
      BY <2>3, <2>13 DEF vars, store
    <2>. QED
      BY <2>4, <2>5, <2>6, <2>8, <2>9, <2>10, <2>11, <2>12, <2>13 DEF Next
  <1>. QED
    BY Invariance, <1>1, <1>2, PTL DEF Spec

-----------------------------------------------------------------------------
(***************************************************************************)
(* Addresses.  Numbers are shown to be determined by their digits, by      *)
(* induction on how many there are.                                        *)
(***************************************************************************)

\* A set of numbers that is not empty has a least one.
LEMMA Least ==
  ASSUME NEW T \in SUBSET Nat, T # {}
  PROVE  \E x \in T : \A y \in T : x <= y
  <1>. DEFINE R == OpToRel(<, Nat)
  <1>1. IsWellFoundedOn(R, Nat)
    BY NatLessThanWellFounded
  <1>2. \A x, y \in Nat : x < y => <<x, y>> \in R
    BY DEF OpToRel
  <1>. HIDE DEF R
  <1>3. PICK x \in T : \A y \in T : ~(<<y, x>> \in R)
    BY <1>1, WFMin
  <1>4. \A y \in T : ~(y < x)
    BY <1>2, <1>3
  <1>5. \A y \in T : x <= y
    BY <1>4
  <1>. QED
    BY <1>5

\* Induction over the numbers, for a set instead of a predicate.
LEMMA SetInd ==
  ASSUME NEW S, 0 \in S, \A n \in Nat : n \in S => n + 1 \in S
  PROVE  Nat \subseteq S
  <1>. SUFFICES ASSUME ~(Nat \subseteq S) PROVE FALSE
    OBVIOUS
  <1>. DEFINE T == Nat \ S
  <1>1. PICK x \in T : \A y \in T : x <= y
    BY Least
  <1>2. x # 0 /\ x \in Nat /\ x - 1 \in Nat
    BY <1>1
  <1>3. x - 1 \in S
    BY <1>1, <1>2
  <1>4. (x - 1) + 1 \in S
    BY <1>2, <1>3
  <1>. QED
    BY <1>1, <1>2, <1>4

\* Division with a remainder.
LEMMA Euclid ==
  ASSUME NEW i \in Nat, NEW a \in Nat \ {0}
  PROVE  /\ i \div a \in Nat /\ i % a \in 0..(a - 1)
         /\ i = a * (i \div a) + (i % a)
  <1>1. i \div a \in Nat
    OBVIOUS
  <1>2. i % a \in 0..(a - 1)
    OBVIOUS
  <1>3. i = a * (i \div a) + (i % a)
    OBVIOUS
  <1>. QED
    BY <1>1, <1>2, <1>3

\* A factor that is greater makes a product that is greater by the other.
LEMMA Mono ==
  ASSUME NEW a \in Nat, NEW q \in Nat, NEW p \in Nat, q < p
  PROVE  a * q + a <= a * p
  <1>1. PICK d \in Nat : p = q + 1 + d
    <2>1. p - q - 1 \in Nat /\ p = q + 1 + (p - q - 1)
      OBVIOUS
    <2>. QED
      BY <2>1
  <1>2. a * p = a * q + a + a * d
    BY <1>1
  <1>3. a * d \in Nat /\ a * q \in Nat
    BY <1>1
  <1>. QED
    BY <1>2, <1>3

\* Quotient and remainder are unique.
LEMMA Quotient ==
  ASSUME NEW a \in Nat \ {0}, NEW q \in Nat, NEW r \in 0..(a - 1), NEW p \in Nat, NEW s \in 0..(a - 1),
         a * q + r = a * p + s
  PROVE  q = p /\ r = s
  <1>1. a * q \in Nat /\ a * p \in Nat
    OBVIOUS
  <1>2. ~(q < p)
    <2>1. q < p => a * q + a <= a * p
      BY Mono
    <2>. QED
      BY <1>1, <2>1
  <1>3. ~(p < q)
    <2>1. p < q => a * p + a <= a * q
      BY Mono
    <2>. QED
      BY <1>1, <2>1
  <1>. QED
    BY <1>2, <1>3

\* Dividing twice divides by the product.
LEMMA DivDiv ==
  ASSUME NEW i \in Nat, NEW a \in Nat \ {0}, NEW b \in Nat \ {0}
  PROVE  (i \div a) \div b = i \div (a * b)
  <1>. DEFINE q == i \div a  r == i % a  p == q \div b  s == q % b
  <1>1. q \in Nat /\ r \in 0..(a - 1) /\ i = a * q + r
    BY Euclid
  <1>2. p \in Nat /\ s \in 0..(b - 1) /\ q = b * p + s
    BY <1>1, Euclid
  <1>3. a * b \in Nat \ {0}
    OBVIOUS
  <1>. HIDE DEF q, r, p, s
  <1>4. i = (a * b) * p + (a * s + r)
    <2>1. a * q = a * (b * p) + a * s
      BY <1>2
    <2>2. a * (b * p) = (a * b) * p
      BY <1>2
    <2>. QED
      BY <1>1, <1>2, <2>1, <2>2
  <1>5. a * s + r \in 0..(a * b - 1)
    <2>1. a * s + a <= a * b
      BY <1>2, Mono
    <2>2. a * s \in Nat
      BY <1>2
    <2>. QED
      BY <1>1, <1>3, <2>1, <2>2
  <1>6. /\ i \div (a * b) \in Nat /\ i % (a * b) \in 0..(a * b - 1)
        /\ i = (a * b) * (i \div (a * b)) + (i % (a * b))
    BY <1>3, Euclid
  <1>. DEFINE c == a * b  u == i \div c  v == i % c  w == a * s + r
  <1>7. c \in Nat \ {0} /\ u \in Nat /\ v \in 0..(c - 1) /\ w \in 0..(c - 1) /\ c * p + w = c * u + v
    BY <1>3, <1>4, <1>5, <1>6
  <1>. HIDE DEF c, u, v, w
  <1>8. p = u
    BY <1>2, <1>7, Quotient
  <1>. QED
    BY <1>8 DEF u, c, p, q

\* A power of two counts the subsets of a set, and one element more doubles them.
LEMMA PowSucc ==
  ASSUME NEW n \in Nat
  PROVE  2^n \in Nat \ {0} /\ 2^0 = 1 /\ 2^(n + 1) = 2 * 2^n
  <1>. DEFINE S == 1..n  T == 1..(n + 1)  x == n + 1
  <1>1. /\ IsFiniteSet(S) /\ Cardinality(S) = n /\ IsFiniteSet(T) /\ Cardinality(T) = n + 1
    BY FS_Interval
  <1>2. /\ IsFiniteSet(SUBSET S) /\ Cardinality(SUBSET S) = 2^n
        /\ IsFiniteSet(SUBSET T) /\ Cardinality(SUBSET T) = 2^(n + 1)
    BY <1>1, FS_SUBSET
  <1>3. 2^0 = 1
    <2>1. IsFiniteSet({}) /\ Cardinality({}) = 0
      BY FS_EmptySet
    <2>2. Cardinality(SUBSET {}) = 2^0
      BY <2>1, FS_SUBSET
    <2>3. SUBSET {} = {{}}
      OBVIOUS
    <2>. QED
      BY <2>2, <2>3, FS_Singleton
  <1>4. x \notin S /\ T = S \cup {x}
    OBVIOUS
  <1>. HIDE DEF S, T, x
  <1>. DEFINE A == SUBSET S
              B == {y \cup {x} : y \in A}
              f == [y \in A |-> y \cup {x}]
  <1>5. SUBSET T = A \cup B
    <2>1. ASSUME NEW z \in SUBSET T PROVE z \in A \cup B
      <3>1. CASE x \in z
        <4>1. z \ {x} \in A /\ z = (z \ {x}) \cup {x}
          BY <1>4, <2>1, <3>1
        <4>. QED
          BY <4>1
      <3>2. CASE x \notin z
        BY <1>4, <2>1, <3>2
      <3>. QED
        BY <3>1, <3>2
    <2>. QED
      BY <2>1, <1>4
  <1>6. A \cap B = {}
    BY <1>4
  <1>7. f \in Bijection(A, B)
    <2>1. f \in [A -> B]
      OBVIOUS
    <2>2. \A y, z \in A : f[y] = f[z] => y = z
      <3>. SUFFICES ASSUME NEW y \in A, NEW z \in A, y \cup {x} = z \cup {x} PROVE y = z
        OBVIOUS
      <3>. QED
        BY <1>4
    <2>3. \A z \in B : \E y \in A : f[y] = z
      <3>. SUFFICES ASSUME NEW y \in A PROVE \E v \in A : f[v] = y \cup {x}
        OBVIOUS
      <3>1. f[y] = y \cup {x}
        OBVIOUS
      <3>. QED
        BY <3>1
    <2>. HIDE DEF f, A, B
    <2>4. f \in Injection(A, B)
      BY <2>1, <2>2 DEF Injection, IsInjective
    <2>5. f \in Surjection(A, B)
      BY <2>1, <2>3 DEF Surjection
    <2>. QED
      BY <2>4, <2>5 DEF Bijection
  <1>8. IsFiniteSet(B) /\ Cardinality(B) = Cardinality(A)
    BY <1>2, <1>7, FS_Bijection DEF ExistsBijection
  <1>9. IsFiniteSet(A \cap B) /\ Cardinality(A \cap B) = 0
    BY <1>6, FS_EmptySet
  <1>10. Cardinality(A \cup B) = Cardinality(A) + Cardinality(B) - Cardinality(A \cap B)
    BY <1>2, <1>8, FS_Union
  <1>11. Cardinality(A) \in Nat
    BY <1>2, FS_CardinalityType
  <1>12. Cardinality(A) # 0
    <2>1. {} \in A
      OBVIOUS
    <2>. QED
      BY <1>2, <2>1, FS_EmptySet
  <1>. DEFINE k == Cardinality(A)
  <1>13. k \in Nat /\ k # 0 /\ 2^n = k /\ 2^(n + 1) = k + k - 0
    BY <1>2, <1>5, <1>8, <1>9, <1>10, <1>11, <1>12
  <1>. HIDE DEF k
  <1>. QED
    BY <1>3, <1>13

\* Exponents add.
LEMMA PowAdd ==
  ASSUME NEW a \in Nat, NEW b \in Nat
  PROVE  2^(a + b) = 2^a * 2^b
  <1>. DEFINE S == {n \in Nat : 2^(a + n) = 2^a * 2^n}
  <1>1. 0 \in S
    <2>1. a + 0 = a /\ 2^0 = 1 /\ 2^a \in Nat
      BY PowSucc
    <2>. QED
      BY <2>1
  <1>2. ASSUME NEW n \in Nat, n \in S PROVE n + 1 \in S
    <2>1. a + (n + 1) = (a + n) + 1 /\ a + n \in Nat
      OBVIOUS
    <2>2. /\ 2^(a + (n + 1)) = 2 * 2^(a + n) /\ 2^(n + 1) = 2 * 2^n
          /\ 2^a \in Nat /\ 2^n \in Nat
      BY <2>1, PowSucc
    <2>3. 2^(a + n) = 2^a * 2^n
      BY <1>2
    <2>. DEFINE x == 2^a  y == 2^n
    <2>4. 2 * (x * y) = x * (2 * y)
      BY <2>2
    <2>. QED
      BY <2>2, <2>3, <2>4
  <1>3. Nat \subseteq S
    BY <1>1, <1>2, SetInd
  <1>. QED
    BY <1>3

\* A number is determined by its digits, lowest first.
LEMMA DigitsDetermine ==
  ASSUME NEW B \in Nat \ {0}, NEW n \in Nat, NEW i \in 0..(2^(B * n) - 1), NEW j \in 0..(2^(B * n) - 1),
         \A d \in 0..(n - 1) : (i \div 2^(B * d)) % 2^B = (j \div 2^(B * d)) % 2^B
  PROVE  i = j
  <1>. DEFINE Same(x, y, k) == \A d \in 0..(k - 1) : (x \div 2^(B * d)) % 2^B = (y \div 2^(B * d)) % 2^B
              S == {k \in Nat : \A x, y \in 0..(2^(B * k) - 1) : Same(x, y, k) => x = y}
  <1>1. 2^B \in Nat \ {0} /\ \A k \in Nat : B * k \in Nat /\ 2^(B * k) \in Nat \ {0}
    BY PowSucc
  <1>2. 0 \in S
    <2>1. B * 0 = 0 /\ 2^0 = 1
      BY PowSucc
    <2>2. 2^(B * 0) = 1
      BY <2>1
    <2>3. ASSUME NEW x \in 0..(2^(B * 0) - 1), NEW y \in 0..(2^(B * 0) - 1) PROVE x = y
      BY <2>2
    <2>. QED
      BY <2>3
  <1>3. ASSUME NEW k \in Nat, k \in S PROVE k + 1 \in S
    <2>. SUFFICES ASSUME NEW x \in 0..(2^(B * (k + 1)) - 1), NEW y \in 0..(2^(B * (k + 1)) - 1),
                         Same(x, y, k + 1)
                  PROVE  x = y
      OBVIOUS
    <2>. DEFINE b == 2^B  m == 2^(B * k)  u == x \div b  v == y \div b
    <2>1. B * (k + 1) = B + B * k /\ 2^(B * (k + 1)) = b * m
      <3>1. B * (k + 1) = B + B * k
        OBVIOUS
      <3>. QED
        BY <1>1, <3>1, PowAdd
    <2>2. b \in Nat \ {0} /\ m \in Nat \ {0} /\ x \in Nat /\ y \in Nat /\ x < b * m /\ y < b * m
      <3>1. b \in Nat \ {0} /\ m \in Nat \ {0}
        BY <1>1
      <3>2. b * m \in Nat
        BY <3>1
      <3>. QED
        BY <2>1, <3>1, <3>2
    <2>3. /\ u \in Nat /\ x % b \in 0..(b - 1) /\ x = b * u + (x % b)
          /\ v \in Nat /\ y % b \in 0..(b - 1) /\ y = b * v + (y % b)
      BY <2>2, Euclid
    <2>4. u \in 0..(m - 1) /\ v \in 0..(m - 1)
      <3>. HIDE DEF b, m, u, v
      <3>1. ASSUME NEW w \in Nat, NEW r \in Nat, b * w + r < b * m PROVE w < m
        <4>1. CASE m < w
          <5>1. b * m + b <= b * w
            BY <2>2, <4>1, Mono
          <5>2. b * m \in Nat /\ b * w \in Nat
            BY <2>2
          <5>. QED
            BY <2>2, <3>1, <5>1, <5>2
        <4>2. CASE m = w
          <5>1. b * m \in Nat /\ b * w = b * m
            BY <2>2, <4>2
          <5>. QED
            BY <3>1, <5>1
        <4>. QED
          BY <2>2, <4>1, <4>2
      <3>2. u < m
        BY <2>2, <2>3, <3>1
      <3>3. v < m
        BY <2>2, <2>3, <3>1
      <3>. QED
        BY <2>2, <2>3, <3>2, <3>3
    <2>5. x % b = y % b
      <3>1. 0 \in 0..((k + 1) - 1) /\ 2^(B * 0) = 1
        <4>1. 0 \in 0..((k + 1) - 1) /\ B * 0 = 0
          OBVIOUS
        <4>2. 2^0 = 1
          BY PowSucc
        <4>. QED
          BY <4>1, <4>2
      <3>2. (x \div 2^(B * 0)) % 2^B = (y \div 2^(B * 0)) % 2^B
        BY <3>1
      <3>3. x \div 1 = x /\ y \div 1 = y
        BY <2>2
      <3>. QED
        BY <3>1, <3>2, <3>3
    <2>6. Same(u, v, k)
      <3>. SUFFICES ASSUME NEW d \in 0..(k - 1)
                    PROVE  (u \div 2^(B * d)) % b = (v \div 2^(B * d)) % b
        OBVIOUS
      <3>1. d \in Nat /\ d + 1 \in 0..((k + 1) - 1) /\ B * (d + 1) = B + B * d
        OBVIOUS
      <3>2. 2^(B * d) \in Nat \ {0} /\ 2^(B * (d + 1)) = b * 2^(B * d)
        BY <1>1, <3>1, PowAdd
      <3>3. (x \div 2^(B * (d + 1))) % 2^B = (y \div 2^(B * (d + 1))) % 2^B
        BY <3>1
      <3>4. u \div 2^(B * d) = x \div (b * 2^(B * d)) /\ v \div 2^(B * d) = y \div (b * 2^(B * d))
        <4>. DEFINE c == 2^(B * d)
        <4>1. c \in Nat \ {0}
          BY <3>2
        <4>. HIDE DEF c, b
        <4>2. u \div c = x \div (b * c)
          BY <2>2, <4>1, DivDiv
        <4>3. v \div c = y \div (b * c)
          BY <2>2, <4>1, DivDiv
        <4>. QED
          BY <4>2, <4>3 DEF c
      <3>. QED
        BY <3>2, <3>3, <3>4
    <2>7. u = v
      BY <1>3, <2>4, <2>6
    <2>. QED
      BY <2>3, <2>5, <2>7
  <1>. HIDE DEF S
  <1>4. Nat \subseteq S
    BY <1>2, <1>3, SetInd
  <1>. QED
    BY <1>4 DEF S

\* The host bytes are the digits of the index, so two indices that fit a subnet
\* have different addresses in it.
LEMMA HostDistinct ==
  ASSUME NEW f \in FamilyShape, f.max <= f.len * ByteBits,
         NEW t \in [octets : Octets, len : Nat], Len(t.octets) = f.len, FromStr(f, t),
         NEW i \in Nat, NEW j \in Nat, Fits(f, t, i), Fits(f, t, j), i # j
  PROVE  Host(f, t, i) # Host(f, t, j)
  <1>. DEFINE B == ByteBits
              p == PrefixBytes(t)
              n == HostBytes(f, t)
              Digits(x) == [b \in 1..n |-> (x \div 2^(B * (n - b))) % 2^B]
  <1>1. B \in Nat \ {0} /\ 2^B \in Nat \ {0}
    BY Shapes, PowSucc
  <1>2. f.len \in Nat /\ t.len \in Nat /\ t.octets \in Seq(0..(2^B - 1))
    BY DEF FamilyShape, Octets
  <1>3. p \in Nat /\ t.len = B * p
    <2>. DEFINE l == t.len
    <2>1. l % B = 0 /\ p = l \div B /\ l \in Nat
      BY <1>2 DEF FromStr, PrefixBytes
    <2>. HIDE DEF l, p, B
    <2>2. l \div B \in Nat /\ l = B * (l \div B) + (l % B)
      BY <1>1, <2>1, Euclid
    <2>3. B * p \in Nat
      BY <1>1, <2>1, <2>2
    <2>. QED
      BY <2>1, <2>2, <2>3 DEF l
  <1>4. p <= f.len
    <2>1. B * p <= f.len * B
      <3>1. f.min \in Nat /\ f.max \in Nat /\ t.len <= f.max
        BY <1>2 DEF FromStr, FamilyShape
      <3>2. f.len * B \in Nat
        BY <1>1, <1>2
      <3>. QED
        BY <1>2, <1>3, <3>1, <3>2
    <2>. DEFINE q == p
    <2>2. f.len < q => B * f.len + B <= B * q
      BY <1>1, <1>2, <1>3, Mono
    <2>3. B * f.len = f.len * B /\ B * f.len \in Nat /\ B * q \in Nat
      BY <1>1, <1>2, <1>3
    <2>. QED
      BY <1>1, <1>2, <1>3, <2>1, <2>2, <2>3
  <1>5. n \in Nat /\ f.len * B - t.len = B * n
    <2>1. n = f.len - p
      BY DEF HostBytes
    <2>2. n \in Nat
      BY <1>2, <1>3, <1>4, <2>1
    <2>. HIDE DEF n, p
    <2>3. f.len * B - B * p = B * (f.len - p)
      BY <1>1, <1>2, <1>3
    <2>. QED
      BY <1>3, <2>1, <2>2, <2>3
  <1>6. i \in 0..(2^(B * n) - 1) /\ j \in 0..(2^(B * n) - 1)
    <2>1. B * n \in Nat
      BY <1>1, <1>5
    <2>2. 2^(B * n) \in Nat
      BY <2>1, PowSucc
    <2>3. i <= 2^(B * n) - 1 /\ j <= 2^(B * n) - 1
      BY <1>5 DEF Fits
    <2>. QED
      BY <2>2, <2>3
  <1>7. \A x \in Nat : Digits(x) \in Seq(0..(2^B - 1)) /\ Len(Digits(x)) = n
    <2>. SUFFICES ASSUME NEW x \in Nat
                  PROVE  Digits(x) \in Seq(0..(2^B - 1)) /\ Len(Digits(x)) = n
      OBVIOUS
    <2>1. ASSUME NEW b \in 1..n PROVE (x \div 2^(B * (n - b))) % 2^B \in 0..(2^B - 1)
      <3>1. n - b \in Nat
        BY <1>5
      <3>2. B * (n - b) \in Nat
        BY <1>1, <3>1
      <3>3. 2^(B * (n - b)) \in Nat \ {0}
        BY <3>2, PowSucc
      <3>4. x \div 2^(B * (n - b)) \in Nat
        BY <3>3, Euclid
      <3>. QED
        BY <1>1, <3>4, Euclid
    <2>. DEFINE d == Digits(x)  O == 0..(2^B - 1)
    <2>2. d \in [1..n -> O] /\ n \in Nat
      BY <1>5, <2>1
    <2>. HIDE DEF d, O, n
    <2>3. d \in Seq(O) /\ Len(d) = n
      BY <2>2
    <2>. QED
      BY <2>3 DEF d, O
  <1>8. SubSeq(t.octets, 1, p) \in Seq(0..(2^B - 1)) /\ Len(SubSeq(t.octets, 1, p)) = p
    <2>. DEFINE o == t.octets  O == 0..(2^B - 1)
    <2>1. o \in Seq(O) /\ p \in Nat /\ p <= Len(o)
      BY <1>2, <1>3, <1>4
    <2>. HIDE DEF o, O, p
    <2>2. SubSeq(o, 1, p) \in Seq(O) /\ Len(SubSeq(o, 1, p)) = p
      BY <2>1
    <2>. QED
      BY <2>2 DEF o, O
  <1>. SUFFICES ASSUME Host(f, t, i) = Host(f, t, j) PROVE FALSE
    OBVIOUS
  <1>9. SubSeq(t.octets, 1, p) \o Digits(i) = SubSeq(t.octets, 1, p) \o Digits(j)
    BY DEF Host, Base
  <1>10. \A b \in 1..n : Digits(i)[b] = Digits(j)[b]
    <2>. DEFINE s == SubSeq(t.octets, 1, p)  d == Digits(i)  e == Digits(j)  O == 0..(2^B - 1)
    <2>1. /\ s \in Seq(O) /\ Len(s) = p /\ d \in Seq(O) /\ Len(d) = n /\ e \in Seq(O) /\ Len(e) = n
          /\ s \o d = s \o e
      BY <1>7, <1>8, <1>9
    <2>. HIDE DEF s, d, e, O, n, p
    <2>2. ASSUME NEW b \in 1..n PROVE d[b] = e[b]
      <3>1. (s \o d)[p + b] = d[b]
        BY <1>3, <1>5, <2>1
      <3>2. (s \o e)[p + b] = e[b]
        BY <1>3, <1>5, <2>1
      <3>. QED
        BY <2>1, <3>1, <3>2
    <2>. QED
      BY <2>2 DEF d, e
  <1>11. \A k \in 0..(n - 1) : (i \div 2^(B * k)) % 2^B = (j \div 2^(B * k)) % 2^B
    <2>. SUFFICES ASSUME NEW k \in 0..(n - 1)
                  PROVE  (i \div 2^(B * k)) % 2^B = (j \div 2^(B * k)) % 2^B
      OBVIOUS
    <2>1. n - k \in 1..n /\ n - (n - k) = k
      BY <1>5
    <2>2. Digits(i)[n - k] = Digits(j)[n - k]
      BY <1>10, <2>1
    <2>. QED
      BY <2>1, <2>2
  <1>. HIDE DEF n, B
  <1>12. i = j
    BY <1>1, <1>5, <1>6, <1>11, DigitsDetermine
  <1>. QED
    BY <1>12

\* The subnets of an edge that has a machine are the ones its arguments gave it.
THEOREM SubnetsGood == Spec => []SubnetsParsed
  <1>1. Init => SubnetsParsed
    BY DEF Init, SubnetsParsed
  <1>2. IInv /\ SubnetsParsed /\ [Next]_vars => SubnetsParsed'
    <2>. SUFFICES ASSUME IInv, SubnetsParsed, [Next]_vars PROVE SubnetsParsed'
      OBVIOUS
    <2>1. /\ machine \in [Names -> Indices]
          /\ api = "serving" => pc = "up"
      BY DEF IInv, TypeOK, ProcessInv
    <2>2. SUFFICES env' = env /\ (\/ pc' = "up" /\ ParseArgs(env)
                                  \/ /\ pc' = "up" => pc = "up"
                                     /\ \A n \in Names : machine'[n] # 0 => machine[n] # 0 \/ pc = "up")
      BY DEF SubnetsParsed, ParseArgs, DummyFlag, FromStr, PrefixBytes
    <2>3. CASE UNCHANGED <<env, machine, pc>>
      BY <2>3
    <2>4. CASE Dns
      <3>1. UNCHANGED <<env, machine, pc>>
        BY <2>4 DEF Dns, Get, DeleteRrset, CreateRrset, store
      <3>. QED
        BY <2>3, <3>1
    <2>5. CASE Boot
      BY <2>5 DEF Boot, Fresh, store
    <2>6. CASE Start \/ SiteBindError \/ TaskPanicked \/ Crash \/ Leave
      BY <2>6 DEF Start, SiteBindError, TaskPanicked, Crash, Leave, Fresh, store
    <2>7. CASE BindApi \/ Signal \/ CloseApi \/ ReconcileStop
      BY <2>3, <2>7 DEF BindApi, Signal, CloseApi, ReconcileStop, store
    <2>8. CASE Reconcile \/ ReconcilePanic
      BY <2>3, <2>8 DEF Reconcile, ReconcileStart, ReconcileDone, Resolve, Applied,
         ReconcilePanic, store
    <2>9. ASSUME NEW r \in Reqs, NEW n \in Names, Delete(r, n) PROVE UNCHANGED <<env, machine, pc>>
      BY <2>9 DEF Delete, store
    <2>10. ASSUME NEW r \in Reqs, Finish(r) \/ Rollback(r)
           PROVE  /\ env' = env /\ pc' = pc
                  /\ \A n \in Names : machine'[n] # 0 => machine[n] # 0
      BY <2>1, <2>10 DEF Finish, Rollback
    <2>11. ASSUME NEW r \in Reqs, (\E n \in Names : Allocate(r, n)) \/ Incr(r) \/ SetNx(r)
           PROVE  env' = env /\ pc' = pc /\ pc = "up"
      <3>1. env' = env /\ pc' = pc
        BY <2>11 DEF Allocate, Incr, SetNx
      <3>2. api = "serving" \/ job[r].op = "alloc"
        BY <2>11 DEF Allocate, Enter, Incr, SetNx
      <3>3. job[r].op = "alloc" => api = "serving"
        BY Empties DEF IInv, ProcessInv
      <3>. QED
        BY <2>1, <3>1, <3>2, <3>3
    <2>. QED
      BY <2>3, <2>4, <2>5, <2>6, <2>7, <2>8, <2>9, <2>10, <2>11 DEF Next, Shutdown, vars, store
  <1>. QED
    BY Invariance, <1>1, <1>2, PTL DEF Spec

\* Subnet::host gives every machine addresses in the routed subnet and in the
\* tunnel net that no other index has, the edge's own included, whatever subnets of
\* whole bytes the edge is started with, however far the counter has come and
\* however often it went back.
THEOREM DistinctAddresses == Spec => []AddressesDistinct
  <1>1. IInv /\ IndicesFit /\ SubnetsParsed => AddressesDistinct
    <2>. SUFFICES ASSUME IInv, IndicesFit, SubnetsParsed, NEW n \in Names, machine[n] # 0
                  PROVE  /\ machine[n] # 1
                         /\ \A i \in 1..MaxIndex \ {machine[n]} :
                              Fits(V6, env.subnet, i) /\ Fits(V4, env.wg_subnet, i) =>
                                /\ Host(V6, env.subnet, machine[n]) # Host(V6, env.subnet, i)
                                /\ Host(V4, env.wg_subnet, machine[n]) # Host(V4, env.wg_subnet, i)
      BY DEF AddressesDistinct
    <2>. DEFINE j == machine[n]
    <2>1. j \in Nat /\ j # 1 /\ Fits(V6, env.subnet, j) /\ Fits(V4, env.wg_subnet, j)
      BY DEF IndicesFit, IndexUsed
    <2>. SUFFICES ASSUME NEW i \in 1..MaxIndex, i # j,
                         Fits(V6, env.subnet, i), Fits(V4, env.wg_subnet, i)
                  PROVE  /\ Host(V6, env.subnet, j) # Host(V6, env.subnet, i)
                         /\ Host(V4, env.wg_subnet, j) # Host(V4, env.wg_subnet, i)
      BY <2>1
    <2>2. i \in Nat
      BY BoundsNat
    <2>3. FromStr(V6, env.subnet) /\ FromStr(V4, env.wg_subnet)
      BY DEF SubnetsParsed, ParseArgs
    <2>4. /\ env.subnet \in [octets : Octets, len : Nat] /\ Len(env.subnet.octets) = V6.len
          /\ env.wg_subnet \in [octets : Octets, len : Nat] /\ Len(env.wg_subnet.octets) = V4.len
      <3>1. <<binary, env>> \in Launches
        BY DEF IInv, TypeOK
      <3>2. <<binary, env>>[2] = env
        OBVIOUS
      <3>3. env \in EnvShape
        BY <3>1, Shapes
      <3>. QED
        BY <3>1, <3>2, <3>3, Shapes DEF EnvShape
    <2>5. /\ V6 \in FamilyShape /\ V6.max <= V6.len * ByteBits
          /\ V4 \in FamilyShape /\ V4.max <= V4.len * ByteBits
      BY Shapes
    <2>. HIDE DEF j
    <2>6. Host(V6, env.subnet, j) # Host(V6, env.subnet, i)
      BY <2>1, <2>2, <2>3, <2>4, <2>5, HostDistinct
    <2>7. Host(V4, env.wg_subnet, j) # Host(V4, env.wg_subnet, i)
      BY <2>1, <2>2, <2>3, <2>4, <2>5, HostDistinct
    <2>. QED
      BY <2>6, <2>7
  <1>. QED
    BY Invariance, UniqueIndices, SubnetsGood, <1>1, PTL

=============================================================================
