------------------------- MODULE ProvisioningProofs -------------------------
(***************************************************************************)
(* Proofs about Provisioning, for every set of names, keys and handlers,   *)
(* every overlap of operations and every bound.                            *)
(*                                                                         *)
(* Index uniqueness and tunnel isolation are not inductive by themselves:  *)
(* an index travels from the counter through a handler's local variables   *)
(* into the record and the kernel.  The invariant follows it with the      *)
(* history variable heldBy - wherever an index shows up, it shows up for   *)
(* the name it was handed to - and that stays true because an index above  *)
(* the counter has never been handed to anyone.                            *)
(*                                                                         *)
(* The same invariant makes every step a step of Registry.  The last part  *)
(* is about names whose operations do not overlap (Overlap = {}): no index *)
(* is given back then, listeners follow the records, peers do for a name   *)
(* whose keys are its own, and a machine keeps its index for life.         *)
(***************************************************************************)
EXTENDS Provisioning, TLAPS

AllocPoints == {"count", "claim", "giveback", "push", "wire", "forward", "dns",
                "ensure", "unpeer", "repeer", "persist",
                "rbDel", "rbLrem", "rbUnwire"}

\* An idle handler has no locals; a running one works on a real name, and an
\* allocation presents a key that belongs to its name.
LocalsInv ==
    \A r \in Reqs :
        /\ pc[r] = "idle" => loc[r] = Idle
        /\ pc[r] # "idle" => loc[r].name \in Names
        /\ pc[r] \in AllocPoints => loc[r].key \in KeysOf[loc[r].name]

\* A record carries a key that belongs to its name.
RecordKeyInv ==
    \A n \in Names : Exists(n) => rec[n].key \in KeysOf[n]

\* An index above the counter has never been handed out.
HeldCounter == \A i \in Indices : i > counter => heldBy[i] = NoName

\* Wherever an index shows up - in a record, in a handler's locals, in the
\* kernel - it shows up for the name it was handed to.
HeldRecords == \A n \in Names : Exists(n) => heldBy[rec[n].idx] = n
HeldLocals == \A r \in Reqs : loc[r].idx # 0 => heldBy[loc[r].idx] = loc[r].name
HeldRoutes ==
    \A k \in Keys : route[k] # 0 =>
        /\ heldBy[route[k]] \in Names
        /\ k \in KeysOf[heldBy[route[k]]]
HeldParts == HeldCounter /\ HeldRecords /\ HeldLocals /\ HeldRoutes

HeldInv == ~gaveBack => HeldParts

IInv == TypeOK /\ LocalsInv /\ RecordKeyInv /\ HeldInv

-----------------------------------------------------------------------------
(***************************************************************************)
(* What the helpers return.                                                *)
(***************************************************************************)

\* The kernel keeps one index per key, whatever is added or removed.
LEMMA PeerTableType ==
    TypeOK => \A i \in 0..MaxCounter, k \in Keys \cup {NoKey} :
        /\ AddPeer(i, k) \in [Keys -> 0..MaxCounter]
        /\ RemovePeer(k) \in [Keys -> 0..MaxCounter]
  <1> SUFFICES ASSUME TypeOK,
                      NEW i \in 0..MaxCounter, NEW k \in Keys \cup {NoKey}
               PROVE  /\ AddPeer(i, k) \in [Keys -> 0..MaxCounter]
                      /\ RemovePeer(k) \in [Keys -> 0..MaxCounter]
    OBVIOUS
  <1>1. route \in [Keys -> 0..MaxCounter] /\ 0 \in 0..MaxCounter
    BY BoundsAssumption DEF TypeOK
  <1>2. AddPeer(i, k) \in [Keys -> 0..MaxCounter]
    BY <1>1 DEF AddPeer
  <1>3. RemovePeer(k) \in [Keys -> 0..MaxCounter]
    BY <1>1 DEF RemovePeer
  <1> QED
    BY <1>2, <1>3

\* LREM leaves a list: a name never occurs a negative number of times.
LEMMA LremType ==
    TypeOK => \A n \in Names : Lrem(n) \in [Names -> Nat]
  <1> SUFFICES ASSUME TypeOK, NEW n \in Names
               PROVE  Lrem(n) \in [Names -> Nat]
    OBVIOUS
  <1>1. listed \in [Names -> Nat]
    BY DEF TypeOK
  <1> QED
    BY <1>1 DEF Lrem

\* Where a handler goes next is a program point, and what it keeps there,
\* or drops when it returns, is typed.
LEMMA ControlType ==
    ASSUME TypeOK, NEW r \in Reqs
    PROVE  /\ \A p \in Points : Goto(r, p) =>
                pc' \in [Reqs -> Points] /\ loc' \in [Reqs -> Locals]
           /\ Return(r) => pc' \in [Reqs -> Points] /\ loc' \in [Reqs -> Locals]
  <1>1. pc \in [Reqs -> Points] /\ loc \in [Reqs -> Locals]
    BY DEF TypeOK
  <1>2. Idle \in Locals /\ "idle" \in Points
    BY BoundsAssumption DEF Idle, Locals, Points, EdgePorts
  <1> QED
    BY <1>1, <1>2 DEF Goto, Return

\* A handler's locals have the types of the fields they came from.
LEMMA LocalsType ==
    ASSUME TypeOK, NEW r \in Reqs
    PROVE  /\ loc[r] \in Locals
           /\ loc[r].name \in Names \cup {NoName}
           /\ loc[r].key \in Keys \cup {NoKey}
           /\ loc[r].old \in Keys \cup {NoKey}
           /\ loc[r].idx \in 0..MaxCounter
           /\ loc[r].port \in EdgePorts
           /\ MachineOf(r) \in Machine
  <1>1. loc[r] \in Locals
    BY DEF TypeOK
  <1> QED
    BY <1>1 DEF Locals, MachineOf, Machine

\* Troubles are counted by numbers.
LEMMA FaultType ==
    TypeOK /\ (Fault \/ NoFault) => used' \in [Troubles -> Nat]
  BY DEF TypeOK, Fault, NoFault, Troubles

\* The absent record is typed.
LEMMA NoRecordType == NoRecord \in Machine
  BY BoundsAssumption DEF NoRecord, Machine

-----------------------------------------------------------------------------
(***************************************************************************)
(* Type correctness.                                                       *)
(***************************************************************************)
LEMMA InitTypeOK == Init => TypeOK
  <1> SUFFICES ASSUME Init PROVE TypeOK
    OBVIOUS
  <1>1. Idle \in Locals /\ "idle" \in Points
    BY BoundsAssumption DEF Idle, Locals, Points, EdgePorts
  <1> QED
    <2>1. gaveBack \in BOOLEAN
      BY Zenon DEF Init
    <2>2. /\ rec \in [Names -> Machine]
          /\ pc \in [Reqs -> Points]
          /\ loc \in [Reqs -> Locals]
      BY <1>1, NoRecordType DEF Init
    <2> QED
      BY <2>1, <2>2, BoundsAssumption DEF Init, TypeOK

\* Each call of a handler keeps every variable in its type.
LEMMA StepTypeOK ==
    ASSUME TypeOK, LocalsInv, NEW r \in Reqs, Step(r)
    PROVE  TypeOK'
  <1> USE DEF redis, wiring, process, history
  <1>0. pc[r] # "idle" => loc[r].name \in Names
    BY DEF LocalsInv
  <1> USE <1>0, LocalsType, ControlType, FaultType
  <1>1. CASE EnsurePeer(r)
    <2>1. route' \in [Keys -> 0..MaxCounter]
      BY <1>1, PeerTableType DEF EnsurePeer, TypeOK
    <2> QED
      BY <1>1, <2>1 DEF EnsurePeer, TypeOK
  <1>2. CASE RemoveOldPeer(r)
    BY <1>2, PeerTableType DEF RemoveOldPeer, TypeOK, Points, AwaitPoints, SyncPoints
  <1>3. CASE AddNewPeer(r)
    BY <1>3, PeerTableType DEF AddNewPeer, TypeOK, Points, AwaitPoints, SyncPoints
  <1>4. CASE PersistKey(r)
    BY <1>4 DEF PersistKey, TypeOK
  <1>5. CASE Count(r)
    <2>1. CounterValue + 1 \in Indices /\ counter' = CounterValue + 1
      BY <1>5 DEF Count
    <2>2. /\ pc' \in [Reqs -> Points]
          /\ loc' \in [Reqs -> Locals]
          /\ heldBy' \in [Indices -> Names \cup {NoName}]
      <3>1. CASE CounterValue + 1 >= 2 /\ CounterValue + 1 <= Capacity
        <4>1. [loc[r] EXCEPT !.idx = CounterValue + 1] \in Locals
          BY <2>1 DEF Locals, Indices
        <4> QED
          BY <1>5, <2>1, <3>1, <4>1 DEF Count, TypeOK, Points, AwaitPoints
      <3>2. CASE ~(CounterValue + 1 >= 2 /\ CounterValue + 1 <= Capacity)
        BY <1>5, <3>2 DEF Count, TypeOK
      <3> QED
        BY <3>1, <3>2
    <2> QED
      BY <1>5, <2>1, <2>2 DEF Count, TypeOK, Indices
  <1>6. CASE Claim(r)
    BY <1>6 DEF Claim, TypeOK, Points, AwaitPoints, SyncPoints
  <1>7. CASE GiveBack(r)
    <2>1. gaveBack' \in BOOLEAN
      BY <1>7, Zenon DEF GiveBack
    <2>2. counter' \in Int /\ counter' <= MaxCounter
      BY <1>7, BoundsAssumption DEF GiveBack, TypeOK
    <2>3. UNCHANGED <<rec, listed, route, listener, dns, edge, todo, used, heldBy>>
      BY <1>7 DEF GiveBack
    <2>4. pc' \in [Reqs -> Points] /\ loc' \in [Reqs -> Locals]
      BY <1>7 DEF GiveBack
    <2> QED
      BY <2>1, <2>2, <2>3, <2>4 DEF TypeOK
  <1>8. CASE PushIndex(r)
    BY <1>8 DEF PushIndex, TypeOK, Points, AwaitPoints, SyncPoints
  <1>9. CASE WirePeer(r)
    BY <1>9, PeerTableType DEF WirePeer, TypeOK, Points, AwaitPoints, SyncPoints
  <1>10. CASE WireForward(r)
    <2>1. listener' \in [Indices -> SUBSET EdgePorts]
      BY <1>10 DEF WireForward, TypeOK
    <2>2. pc' \in [Reqs -> Points] /\ loc' \in [Reqs -> Locals]
      <3>1. [loc[r] EXCEPT !.port = 443] \in Locals
        BY DEF Locals, EdgePorts
      <3> QED
        BY <1>10, <3>1 DEF WireForward, TypeOK, Points, AwaitPoints
    <2> QED
      BY <1>10, <2>1, <2>2 DEF WireForward, TypeOK
  <1>11. CASE UpsertDns(r)
    BY <1>11 DEF UpsertDns, TypeOK
  <1>12. CASE RollbackRecord(r)
    BY <1>12, NoRecordType DEF RollbackRecord, TypeOK, Points, AwaitPoints, SyncPoints
  <1>13. CASE RollbackIndex(r)
    BY <1>13, LremType DEF RollbackIndex, TypeOK, Points, AwaitPoints, SyncPoints
  <1>14. CASE RollbackWiring(r)
    BY <1>14, PeerTableType DEF RollbackWiring, TypeOK, Unwire
  <1>15. CASE DeleteWiring(r)
    BY <1>15, PeerTableType DEF DeleteWiring, TypeOK, Points, AwaitPoints, SyncPoints, Unwire
  <1>16. CASE DeleteDns(r)
    BY <1>16, BoundsAssumption DEF DeleteDns, TypeOK, Points, AwaitPoints, SyncPoints
  <1>17. CASE DeleteRecord(r)
    BY <1>17, NoRecordType DEF DeleteRecord, TypeOK, Points, AwaitPoints, SyncPoints
  <1>18. CASE DeleteIndex(r)
    BY <1>18, LremType DEF DeleteIndex, TypeOK
  <1> QED
    BY <1>1, <1>2, <1>3, <1>4, <1>5, <1>6, <1>7, <1>8, <1>9, <1>10, <1>11, <1>12, <1>13, <1>14, <1>15, <1>16, <1>17, <1>18 DEF Step

\* Starting a handler, cutting one off, crashing and booting keep the types.
LEMMA OtherTypeOK ==
    ASSUME TypeOK,
           \/ \E r \in Reqs : Start(r) \/ Abort(r)
           \/ \E n \in Names : DeleteUnknown(n) \/ Rehydrate(n)
           \/ Crash \/ Boot \/ Serve
    PROVE  TypeOK'
  <1> USE DEF redis, wiring, process, history
  <1>m. \A n \in Names : /\ rec[n].key \in Keys \cup {NoKey}
                         /\ rec[n].idx \in 0..MaxCounter
    BY DEF TypeOK, Machine
  <1>1. ASSUME NEW r \in Reqs, NEW n \in Names, NEW k \in Keys, BeginAlloc(r, n, k)
        PROVE  TypeOK'
    <2>1. [op |-> "alloc", name |-> n, key |-> k, old |-> rec[n].key,
           idx |-> rec[n].idx, port |-> 80] \in Locals
      BY <1>m DEF Locals, Operations, EdgePorts
    <2>2. loc' \in [Reqs -> Locals]
      BY <1>1, <2>1 DEF BeginAlloc, TypeOK
    <2>3. pc' \in [Reqs -> Points]
      BY <1>1 DEF BeginAlloc, TypeOK, Points, AwaitPoints, SyncPoints
    <2> QED
      BY <1>1, <2>2, <2>3 DEF BeginAlloc, TypeOK
  <1>2. ASSUME NEW r \in Reqs, NEW n \in Names, BeginDelete(r, n)
        PROVE  TypeOK'
    <2>1. [op |-> "delete", name |-> n, key |-> rec[n].key, old |-> NoKey,
           idx |-> rec[n].idx, port |-> 80] \in Locals
      BY <1>m DEF Locals, Operations, EdgePorts
    <2>2. loc' \in [Reqs -> Locals]
      BY <1>2, <2>1 DEF BeginDelete, TypeOK
    <2>3. pc' \in [Reqs -> Points]
      BY <1>2 DEF BeginDelete, TypeOK, Points, SyncPoints
    <2> QED
      BY <1>2, <2>2, <2>3 DEF BeginDelete, TypeOK
  <1>3. ASSUME NEW r \in Reqs, Abort(r)
        PROVE  TypeOK'
    <2>1. used' \in [Troubles -> Nat]
      BY <1>3 DEF Abort, TypeOK, Troubles
    <2> QED
      BY <1>3, <2>1, ControlType DEF Abort, TypeOK
  <1>4. ASSUME NEW n \in Names, Rehydrate(n)
        PROVE  TypeOK'
    <2>1. route' \in [Keys -> 0..MaxCounter]
      <3>1. AddPeer(rec[n].idx, rec[n].key) \in [Keys -> 0..MaxCounter]
        BY <1>m, PeerTableType
      <3>2. route' \in {route, AddPeer(rec[n].idx, rec[n].key)}
        BY <1>4, Zenon DEF Rehydrate
      <3> QED
        BY <3>1, <3>2 DEF TypeOK
    <2>2. listener' \in [Indices -> SUBSET EdgePorts]
      <3>1. listener \in [Indices -> SUBSET EdgePorts]
        BY DEF TypeOK
      <3>2. CASE listener' = [listener EXCEPT ![rec[n].idx] = EdgePorts]
        BY <3>1, <3>2
      <3>3. CASE \E ports \in SUBSET EdgePorts :
                   listener' = [listener EXCEPT ![rec[n].idx] = @ \cup ports]
        <4>1. PICK ports \in SUBSET EdgePorts :
                listener' = [listener EXCEPT ![rec[n].idx] = @ \cup ports]
          BY <3>3
        <4> QED
          BY <3>1, <4>1
      <3> QED
        BY <1>4, <3>2, <3>3 DEF Rehydrate
    <2> QED
      BY <1>4, <2>1, <2>2, FaultType DEF Rehydrate, TypeOK
  <1>5. CASE Crash
    <2>1. Idle \in Locals /\ "idle" \in Points
      BY BoundsAssumption DEF Idle, Locals, Points, EdgePorts
    <2>2. used' \in [Troubles -> Nat]
      BY <1>5 DEF Crash, TypeOK, Troubles
    <2>3. route' \in [Keys -> 0..MaxCounter]
      BY <1>5, BoundsAssumption DEF Crash, TypeOK
    <2> QED
      BY <1>5, <2>1, <2>2, <2>3 DEF Crash, TypeOK
  <1>6. CASE Boot
    BY <1>6 DEF Boot, TypeOK
  <1>7. CASE Serve
    BY <1>7 DEF Serve, TypeOK
  <1>8. ASSUME NEW n \in Names, DeleteUnknown(n)
        PROVE  TypeOK'
    BY <1>8 DEF DeleteUnknown, TypeOK, vars
  <1> QED
    BY <1>1, <1>2, <1>3, <1>4, <1>5, <1>6, <1>7, <1>8 DEF Start

-----------------------------------------------------------------------------
(***************************************************************************)
(* Handlers keep to their names and keys.                                  *)
(***************************************************************************)

\* A handler that moves on within its operation keeps its locals, and one
\* that returns drops them.
LEMMA ControlLocals ==
    ASSUME TypeOK, LocalsInv, NEW r \in Reqs
    PROVE  /\ \A p \in Points :
                /\ Goto(r, p) /\ pc[r] # "idle" /\ p # "idle"
                /\ p \in AllocPoints => pc[r] \in AllocPoints
                => LocalsInv'
           /\ Return(r) => LocalsInv'
  <1>1. pc \in [Reqs -> Points] /\ loc \in [Reqs -> Locals]
    BY DEF TypeOK
  <1>2. "idle" \notin AllocPoints
    BY DEF AllocPoints
  <1>3. ASSUME Return(r) PROVE LocalsInv'
    BY <1>1, <1>2, <1>3 DEF Return, LocalsInv
  <1>4. ASSUME NEW p \in Points, Goto(r, p), pc[r] # "idle", p # "idle",
               p \in AllocPoints => pc[r] \in AllocPoints
        PROVE  LocalsInv'
    BY <1>1, <1>4 DEF Goto, LocalsInv
  <1> QED
    BY <1>3, <1>4

\* A handler that goes on still has the name and the key it works on.
LEMMA StepLocals ==
    ASSUME TypeOK, LocalsInv, NEW r \in Reqs, Step(r)
    PROVE  LocalsInv'
  <1> USE ControlLocals
  <1> USE DEF Points, AwaitPoints, SyncPoints, AllocPoints
  <1>1. CASE EnsurePeer(r) \/ PersistKey(r) \/ GiveBack(r) \/ UpsertDns(r)
             \/ RollbackWiring(r) \/ DeleteIndex(r)
    BY <1>1 DEF EnsurePeer, PersistKey, GiveBack, UpsertDns, RollbackWiring,
                DeleteIndex
  <1>2. CASE RemoveOldPeer(r) \/ AddNewPeer(r) \/ Claim(r)
    BY <1>2 DEF RemoveOldPeer, AddNewPeer, Claim
  <1>3. CASE PushIndex(r) \/ WirePeer(r)
    BY <1>3 DEF PushIndex, WirePeer
  <1>4. CASE RollbackRecord(r) \/ RollbackIndex(r)
    BY <1>4 DEF RollbackRecord, RollbackIndex
  <1>5. CASE DeleteWiring(r) \/ DeleteDns(r) \/ DeleteRecord(r)
    BY <1>5 DEF DeleteWiring, DeleteDns, DeleteRecord
  <1>6. CASE Count(r)
    <2>1. CASE CounterValue + 1 >= 2 /\ CounterValue + 1 <= Capacity
      <3>1. /\ pc' = [pc EXCEPT ![r] = "claim"]
            /\ loc' = [loc EXCEPT ![r].idx = CounterValue + 1]
            /\ pc[r] = "count"
        BY <1>6, <2>1 DEF Count
      <3> QED
        BY <3>1 DEF LocalsInv, TypeOK, Locals
    <2>2. CASE ~(CounterValue + 1 >= 2 /\ CounterValue + 1 <= Capacity)
      BY <1>6, <2>2 DEF Count
    <2> QED
      BY <2>1, <2>2
  <1>7. CASE WireForward(r)
    <2>1. CASE loc' = [loc EXCEPT ![r].port = 443] /\ UNCHANGED pc
      BY <1>7, <2>1 DEF WireForward, LocalsInv, TypeOK, Locals
    <2>2. CASE Goto(r, "dns") \/ Goto(r, "rbDel")
      BY <1>7, <2>2 DEF WireForward
    <2> QED
      BY <1>7, <2>1, <2>2 DEF WireForward
  <1> QED
    BY <1>1, <1>2, <1>3, <1>4, <1>5, <1>6, <1>7 DEF Step

\* So it is when one starts or is cut off, and across a crash.
LEMMA OtherLocals ==
    ASSUME TypeOK, LocalsInv,
           \/ \E r \in Reqs : Start(r) \/ Abort(r)
           \/ \E n \in Names : DeleteUnknown(n) \/ Rehydrate(n)
           \/ Crash \/ Boot \/ Serve
    PROVE  LocalsInv'
  <1> USE DEF process
  <1>1. ASSUME NEW r \in Reqs, NEW n \in Names, NEW k \in Keys, BeginAlloc(r, n, k)
        PROVE  LocalsInv'
    BY <1>1 DEF BeginAlloc, LocalsInv, TypeOK, AllocPoints
  <1>2. ASSUME NEW r \in Reqs, NEW n \in Names, BeginDelete(r, n)
        PROVE  LocalsInv'
    BY <1>2 DEF BeginDelete, LocalsInv, TypeOK, AllocPoints
  <1>3. ASSUME NEW r \in Reqs, Abort(r)
        PROVE  LocalsInv'
    BY <1>3, ControlLocals DEF Abort
  <1>4. CASE Crash
    BY <1>4 DEF Crash, LocalsInv, AllocPoints
  <1>5. CASE UNCHANGED <<pc, loc>>
    BY <1>5 DEF LocalsInv
  <1>6. CASE (\E n \in Names : DeleteUnknown(n) \/ Rehydrate(n)) \/ Boot \/ Serve
    BY <1>5, <1>6 DEF DeleteUnknown, Rehydrate, Boot, Serve, vars
  <1> QED
    BY <1>1, <1>2, <1>3, <1>4, <1>6 DEF Start

-----------------------------------------------------------------------------
(***************************************************************************)
(* A record carries one of its own box's keys.                             *)
(***************************************************************************)
LEMMA StepRecordKey ==
    ASSUME TypeOK, LocalsInv, RecordKeyInv, NEW r \in Reqs, Step(r)
    PROVE  RecordKeyInv'
  <1> USE DEF redis, RecordKeyInv, Exists
  <1>1. CASE UNCHANGED rec
    BY <1>1
  <1>2. CASE rec' = [rec EXCEPT ![loc[r].name] = MachineOf(r)]
             /\ pc[r] \in AllocPoints
    BY <1>2 DEF LocalsInv, MachineOf, TypeOK
  <1>3. CASE rec' = [rec EXCEPT ![loc[r].name] = NoRecord]
    BY <1>3 DEF NoRecord, TypeOK
  <1>4. CASE PersistKey(r) \/ Claim(r)
    BY <1>1, <1>2, <1>4 DEF PersistKey, Claim, AllocPoints
  <1>5. CASE RollbackRecord(r) \/ DeleteRecord(r)
    BY <1>3, <1>5 DEF RollbackRecord, DeleteRecord
  <1>6. CASE EnsurePeer(r) \/ RemoveOldPeer(r) \/ AddNewPeer(r) \/ Count(r)
             \/ GiveBack(r) \/ PushIndex(r) \/ WirePeer(r) \/ WireForward(r)
             \/ UpsertDns(r) \/ RollbackIndex(r) \/ RollbackWiring(r)
             \/ DeleteWiring(r) \/ DeleteDns(r) \/ DeleteIndex(r)
    <2>1. UNCHANGED rec
      BY <1>6 DEF EnsurePeer, RemoveOldPeer, AddNewPeer, Count, GiveBack,
                  PushIndex, WirePeer, WireForward, UpsertDns, RollbackIndex,
                  RollbackWiring, DeleteWiring, DeleteDns, DeleteIndex, Unwire
    <2> QED
      BY <1>1, <2>1
  <1> QED
    BY <1>4, <1>5, <1>6 DEF Step

\* No other step writes a record.
LEMMA OtherRecordKey ==
    ASSUME RecordKeyInv,
           \/ \E r \in Reqs : Start(r) \/ Abort(r)
           \/ \E n \in Names : DeleteUnknown(n) \/ Rehydrate(n)
           \/ Crash \/ Boot \/ Serve
    PROVE  RecordKeyInv'
  <1>1. UNCHANGED rec
    BY DEF Start, BeginAlloc, BeginDelete, Abort, DeleteUnknown, Rehydrate,
           Crash, Boot, Serve, redis, vars
  <1> QED
    BY <1>1 DEF RecordKeyInv, Exists

-----------------------------------------------------------------------------
(***************************************************************************)
(* An index stays with the name it was handed to.                          *)
(***************************************************************************)

\* Adding a peer on an index held by the key's own name keeps HeldRoutes,
\* and so does dropping one.
LEMMA PeerTableHeld ==
    ASSUME TypeOK, HeldRoutes, UNCHANGED heldBy
    PROVE  /\ \A i \in 0..MaxCounter, m \in Names : \A k \in KeysOf[m] :
                /\ i # 0 => heldBy[i] = m
                /\ route' = AddPeer(i, k)
                => HeldRoutes'
           /\ \A k \in Keys \cup {NoKey} : route' = RemovePeer(k) => HeldRoutes'
           /\ UNCHANGED route => HeldRoutes'
  <1>1. route \in [Keys -> 0..MaxCounter]
    BY DEF TypeOK
  <1>2. ASSUME NEW i \in 0..MaxCounter, NEW m \in Names, NEW k \in KeysOf[m],
               i # 0 => heldBy[i] = m, route' = AddPeer(i, k)
        PROVE  HeldRoutes'
    BY <1>1, <1>2, KeysAssumption DEF AddPeer, HeldRoutes
  <1>3. ASSUME NEW k \in Keys \cup {NoKey}, route' = RemovePeer(k)
        PROVE  HeldRoutes'
    BY <1>1, <1>3 DEF RemovePeer, HeldRoutes
  <1>4. ASSUME UNCHANGED route PROVE HeldRoutes'
    BY <1>4 DEF HeldRoutes
  <1> QED
    BY <1>2, <1>3, <1>4

\* A handler that goes on or returns keeps, or forgets, the index it holds.
LEMMA ControlHeld ==
    ASSUME TypeOK, HeldLocals, UNCHANGED heldBy, NEW r \in Reqs
    PROVE  /\ \A p \in Points : Goto(r, p) => HeldLocals'
           /\ Return(r) => HeldLocals'
  <1>1. loc \in [Reqs -> Locals]
    BY DEF TypeOK
  <1> QED
    BY <1>1 DEF Goto, Return, HeldLocals, Idle

\* Every call but the loser's DECR keeps each index with its name.
LEMMA StepHeld ==
    ASSUME TypeOK, LocalsInv, HeldParts, NEW r \in Reqs, Step(r), ~GiveBack(r)
    PROVE  HeldParts'
  <1> USE DEF HeldParts, redis, wiring, process, history
  <1> USE LocalsType
  <1>0. /\ \A p \in Points : UNCHANGED heldBy /\ Goto(r, p) => HeldLocals'
        /\ UNCHANGED heldBy /\ Return(r) => HeldLocals'
    BY ControlHeld
  <1>c. ASSUME UNCHANGED <<counter, heldBy>> PROVE HeldCounter'
    BY <1>c DEF HeldCounter
  <1>m. ASSUME UNCHANGED <<rec, heldBy>> PROVE HeldRecords'
    BY <1>m DEF HeldRecords, Exists
  <1>i. ASSUME pc[r] # "idle" PROVE loc[r].name \in Names
    BY <1>i DEF LocalsInv
  <1>a. ASSUME pc[r] \in AllocPoints, pc[r] # "idle", UNCHANGED heldBy,
               route' \in {route, AddPeer(loc[r].idx, loc[r].key)}
        PROVE  HeldRoutes'
    <2>1. loc[r].name \in Names /\ loc[r].key \in KeysOf[loc[r].name]
      BY <1>a DEF LocalsInv
    <2>2. loc[r].idx # 0 => heldBy[loc[r].idx] = loc[r].name
      BY DEF HeldLocals
    <2> QED
      BY <1>a, <2>1, <2>2, PeerTableHeld
  <1>d. ASSUME UNCHANGED heldBy,
               \/ route' = RemovePeer(loc[r].key)
               \/ route' = RemovePeer(loc[r].old)
               \/ UNCHANGED route
        PROVE  HeldRoutes'
    BY <1>d, PeerTableHeld
  <1>w. ASSUME UNCHANGED heldBy, rec' = [rec EXCEPT ![loc[r].name] = MachineOf(r)]
        PROVE  HeldRecords'
    BY <1>w DEF HeldRecords, HeldLocals, Exists, MachineOf, TypeOK
  <1>x. ASSUME UNCHANGED heldBy, rec' = [rec EXCEPT ![loc[r].name] = NoRecord]
        PROVE  HeldRecords'
    BY <1>x DEF HeldRecords, Exists, NoRecord, TypeOK
  <1> USE DEF Points, AwaitPoints, SyncPoints
  <1>1. CASE EnsurePeer(r) \/ AddNewPeer(r) \/ WirePeer(r)
    <2>1. HeldRoutes'
      BY <1>1, <1>a DEF EnsurePeer, AddNewPeer, WirePeer, AllocPoints
    <2>2. HeldLocals'
      BY <1>1, <1>0 DEF EnsurePeer, AddNewPeer, WirePeer
    <2> QED
      BY <1>1, <2>1, <2>2, <1>c, <1>m DEF EnsurePeer, AddNewPeer, WirePeer
  <1>2. CASE RemoveOldPeer(r) \/ RollbackWiring(r) \/ DeleteWiring(r)
    <2>1. HeldRoutes'
      BY <1>2, <1>d DEF RemoveOldPeer, RollbackWiring, DeleteWiring, Unwire
    <2>2. HeldLocals'
      BY <1>2, <1>0 DEF RemoveOldPeer, RollbackWiring, DeleteWiring, Unwire
    <2> QED
      BY <1>2, <2>1, <2>2, <1>c, <1>m
      DEF RemoveOldPeer, RollbackWiring, DeleteWiring, Unwire
  <1>3. CASE PersistKey(r) \/ Claim(r)
    BY <1>3, <1>0, <1>c, <1>d, <1>m, <1>w DEF PersistKey, Claim
  <1>4. CASE RollbackRecord(r) \/ DeleteRecord(r)
    BY <1>4, <1>0, <1>c, <1>d, <1>x DEF RollbackRecord, DeleteRecord
  <1>5. CASE PushIndex(r) \/ RollbackIndex(r) \/ DeleteIndex(r)
             \/ UpsertDns(r) \/ DeleteDns(r)
    BY <1>5, <1>0, <1>c, <1>d, <1>m
    DEF PushIndex, RollbackIndex, DeleteIndex, UpsertDns, DeleteDns
  <1>6. CASE WireForward(r)
    <2>1. HeldLocals'
      <3>1. CASE loc' = [loc EXCEPT ![r].port = 443] /\ UNCHANGED heldBy
        BY <3>1 DEF HeldLocals, TypeOK, Locals
      <3> QED
        BY <1>6, <3>1, <1>0 DEF WireForward
    <2> QED
      BY <1>6, <2>1, <1>c, <1>d, <1>m DEF WireForward
  <1>7. CASE Count(r)
    <2> DEFINE index == CounterValue + 1
    <2>1. index \in Indices /\ counter' = index /\ counter < index
          /\ UNCHANGED <<rec, route>> /\ pc[r] = "count"
      BY <1>7 DEF Count, CounterValue, TypeOK
    <2>2. CASE index >= 2 /\ index <= Capacity
      <3>1. /\ loc' = [loc EXCEPT ![r].idx = index]
            /\ heldBy' = [heldBy EXCEPT ![index] = loc[r].name]
        BY <1>7, <2>2 DEF Count
      <3>2. heldBy \in [Indices -> Names \cup {NoName}]
        BY DEF TypeOK
      <3>3. \A i \in Indices : heldBy[i] \in Names =>
              i # index /\ heldBy'[i] = heldBy[i]
        <4>1. heldBy[index] = NoName
          BY <2>1, BoundsAssumption DEF HeldCounter, Indices, TypeOK
        <4> QED
          BY <3>1, <3>2, <4>1, KeysAssumption
      <3>4. HeldCounter'
        BY <2>1, <3>1, <3>2 DEF HeldCounter, Indices, TypeOK
      <3>5. HeldRecords'
        <4>1. \A n \in Names : Exists(n) => rec[n].idx \in Indices
          BY DEF Exists, TypeOK, Machine, Indices
        <4> QED
          BY <2>1, <3>3, <4>1 DEF HeldRecords, Exists
      <3>6. HeldLocals'
        <4>1. \A q \in Reqs : loc[q].idx # 0 =>
                loc[q].idx \in Indices /\ loc[q].name \in Names
          <5>1. \A q \in Reqs : loc[q].idx # 0 => pc[q] # "idle"
            BY DEF LocalsInv, Idle
          <5> QED
            BY <5>1 DEF LocalsInv, TypeOK, Locals, Indices
        <4>2. heldBy'[index] = loc[r].name
          BY <2>1, <3>1, <3>2
        <4>3. /\ loc'[r].idx = index /\ loc'[r].name = loc[r].name
              /\ \A q \in Reqs \ {r} : loc'[q] = loc[q]
          BY <3>1 DEF TypeOK, Locals
        <4> QED
          BY <3>3, <4>1, <4>2, <4>3 DEF HeldLocals
      <3>7. HeldRoutes'
        <4>1. \A k \in Keys : route[k] # 0 => route[k] \in Indices
          BY DEF TypeOK, Indices
        <4> QED
          BY <2>1, <3>3, <4>1 DEF HeldRoutes
      <3> QED
        BY <3>4, <3>5, <3>6, <3>7
    <2>3. CASE ~(index >= 2 /\ index <= Capacity)
      <3>1. UNCHANGED heldBy /\ Return(r)
        BY <1>7, <2>3 DEF Count
      <3>2. HeldCounter'
        BY <2>1, <3>1 DEF HeldCounter, TypeOK, Indices
      <3> QED
        BY <2>1, <3>1, <3>2, <1>0, <1>d, <1>m
    <2> QED
      BY <2>2, <2>3
  <1> QED
    BY <1>1, <1>2, <1>3, <1>4, <1>5, <1>6, <1>7 DEF Step

\* No other step hands out an index, and rehydration only copies one.
LEMMA OtherHeld ==
    ASSUME TypeOK, RecordKeyInv, HeldParts,
           \/ \E r \in Reqs : Start(r) \/ Abort(r)
           \/ \E n \in Names : DeleteUnknown(n) \/ Rehydrate(n)
           \/ Crash \/ Boot \/ Serve
    PROVE  HeldParts'
  <1> USE DEF HeldParts, redis, wiring, process, history
  <1>0. UNCHANGED <<rec, counter, heldBy>>
    BY DEF Start, BeginAlloc, BeginDelete, Abort, DeleteUnknown, Rehydrate,
           Crash, Boot, Serve, vars
  <1>1. HeldCounter' /\ HeldRecords'
    BY <1>0 DEF HeldCounter, HeldRecords, Exists
  <1>2. HeldLocals'
    <2>1. ASSUME NEW r \in Reqs, NEW n \in Names, NEW k \in Keys,
                 BeginAlloc(r, n, k)
          PROVE  HeldLocals'
      BY <1>0, <2>1 DEF BeginAlloc, HeldLocals, HeldRecords, Exists, TypeOK
    <2>2. ASSUME NEW r \in Reqs, NEW n \in Names, BeginDelete(r, n)
          PROVE  HeldLocals'
      BY <1>0, <2>2 DEF BeginDelete, HeldLocals, HeldRecords, Exists, TypeOK
    <2>3. ASSUME NEW r \in Reqs, Abort(r)
          PROVE  HeldLocals'
      BY <1>0, <2>3, ControlHeld DEF Abort
    <2>4. CASE Crash
      BY <1>0, <2>4 DEF Crash, HeldLocals, Idle
    <2>5. CASE UNCHANGED loc
      BY <1>0, <2>5 DEF HeldLocals
    <2> QED
      BY <2>1, <2>2, <2>3, <2>4, <2>5
      DEF Start, DeleteUnknown, Rehydrate, Boot, Serve, vars
  <1>3. HeldRoutes'
    <2>1. CASE UNCHANGED route
      BY <1>0, <2>1, PeerTableHeld
    <2>2. CASE Crash
      BY <1>0, <2>1, <2>2 DEF Crash, HeldRoutes
    <2>3. ASSUME NEW n \in Names, Rehydrate(n)
          PROVE  HeldRoutes'
      <3>1. route' \in {route, AddPeer(rec[n].idx, rec[n].key)}
        BY <2>3, Zenon DEF Rehydrate
      <3>2. CASE Exists(n)
        <4>1. /\ rec[n].idx \in 0..MaxCounter
              /\ rec[n].key \in KeysOf[n]
              /\ heldBy[rec[n].idx] = n
          BY <3>2 DEF TypeOK, Machine, RecordKeyInv, HeldRecords
        <4> QED
          BY <1>0, <2>1, <3>1, <4>1, PeerTableHeld
      <3>3. CASE ~Exists(n)
        BY <1>0, <2>1, <3>1, <3>3 DEF Exists, AddPeer, HeldRoutes
      <3> QED
        BY <3>2, <3>3
    <2> QED
      BY <2>1, <2>2, <2>3
      DEF Start, BeginAlloc, BeginDelete, Abort, DeleteUnknown, Boot, Serve, vars
  <1> QED
    BY <1>1, <1>2, <1>3

-----------------------------------------------------------------------------
(***************************************************************************)
(* The inductive invariant, and what follows from it.                      *)
(***************************************************************************)
LEMMA InitIInv == Init => IInv
  <1> SUFFICES ASSUME Init PROVE IInv
    OBVIOUS
  <1>1. TypeOK
    BY InitTypeOK
  <1>2. LocalsInv
    BY DEF Init, LocalsInv, AllocPoints
  <1>3. RecordKeyInv
    BY DEF Init, RecordKeyInv, Exists, NoRecord
  <1>4. HeldParts
    BY DEF Init, HeldParts, HeldCounter, HeldRecords, HeldLocals, HeldRoutes,
           Exists, NoRecord, Idle
  <1> QED
    BY <1>1, <1>2, <1>3, <1>4 DEF IInv, HeldInv

\* Every step keeps the invariant.
LEMMA NextIInv == IInv /\ [Next]_vars => IInv'
  <1> SUFFICES ASSUME TypeOK, LocalsInv, RecordKeyInv, HeldInv, [Next]_vars
               PROVE  TypeOK' /\ LocalsInv' /\ RecordKeyInv' /\ HeldInv'
    BY DEF IInv
  <1> DEFINE Other == \/ \E r \in Reqs : Start(r) \/ Abort(r)
                      \/ \E n \in Names : DeleteUnknown(n) \/ Rehydrate(n)
                      \/ Crash \/ Boot \/ Serve
  <1>1. ASSUME NEW r \in Reqs, Step(r)
        PROVE  TypeOK' /\ LocalsInv' /\ RecordKeyInv' /\ HeldInv'
    <2>1. TypeOK' /\ LocalsInv' /\ RecordKeyInv'
      BY <1>1, StepTypeOK, StepLocals, StepRecordKey
    <2>2. CASE GiveBack(r)
      <3>1. HeldInv'
        BY <2>2, Zenon DEF GiveBack, HeldInv
      <3> QED
        BY <2>1, <3>1
    <2>3. CASE ~GiveBack(r)
      <3>1. UNCHANGED gaveBack
        BY <1>1, <2>3
        DEF Step, EnsurePeer, RemoveOldPeer, AddNewPeer, PersistKey, Count,
            Claim, PushIndex, WirePeer, WireForward, UpsertDns, RollbackRecord,
            RollbackIndex, RollbackWiring, DeleteWiring, DeleteDns,
            DeleteRecord, DeleteIndex, Unwire, history
      <3>2. HeldParts => HeldParts'
        BY <1>1, <2>3, StepHeld
      <3>3. HeldInv'
        BY <3>1, <3>2, Zenon DEF HeldInv
      <3> QED
        BY <2>1, <3>3
    <2> QED
      BY <2>2, <2>3
  <1>2. CASE Other
    <2>1. TypeOK' /\ LocalsInv' /\ RecordKeyInv'
      BY <1>2, OtherTypeOK, OtherLocals, OtherRecordKey
    <2>2. UNCHANGED gaveBack
      BY <1>2 DEF Start, BeginAlloc, BeginDelete, Abort, DeleteUnknown,
                  Rehydrate, Crash, Boot, Serve, history, vars
    <2>3. HeldParts => HeldParts'
      BY <1>2, OtherHeld
    <2>4. HeldInv'
      BY <2>2, <2>3, Zenon DEF HeldInv
    <2> QED
      BY <2>1, <2>4
  <1>3. CASE UNCHANGED vars
    <2>1. TypeOK'
      BY <1>3 DEF TypeOK, vars
    <2>2. LocalsInv' /\ RecordKeyInv'
      BY <1>3 DEF LocalsInv, RecordKeyInv, Exists, vars
    <2>3. HeldParts => HeldParts'
      BY <1>3 DEF HeldParts, HeldCounter, HeldRecords, HeldLocals, HeldRoutes,
                  Exists, vars
    <2>4. gaveBack' = gaveBack
      BY <1>3 DEF vars
    <2>5. HeldInv'
      BY <2>3, <2>4, Zenon DEF HeldInv
    <2> QED
      BY <2>1, <2>2, <2>5
  <1> QED
    BY <1>1, <1>2, <1>3 DEF Next

\* The invariant holds in every reachable state.
LEMMA InvariantHolds == Spec => []IInv
  BY InitIInv, NextIInv, PTL DEF Spec

\* Every reachable state of the control plane and of the edge is typed, for
\* any number of names, keys and handlers and any failures.
THEOREM TypeCorrect == Spec => []TypeOK
  <1>1. IInv => TypeOK
    BY DEF IInv
  <1> QED
    BY <1>1, InvariantHolds, PTL

\* The INCR and SETNX of allocate_machine give no two machines one index
\* until a DECR has given one back: neither rollback, deletion, rotation,
\* cancellation nor a crash can do it.
THEOREM UniqueIndices == Spec => []NoSharedIndex
  <1>1. IInv => NoSharedIndex
    <2>1. ASSUME HeldParts PROVE IncrIsUnique
      BY <2>1 DEF HeldParts, HeldRecords, IncrIsUnique, Exists
    <2> QED
      BY <2>1, Zenon DEF IInv, HeldInv, NoSharedIndex
  <1> QED
    BY <1>1, InvariantHolds, PTL

\* Until then a machine's tunnel IP is routed to nothing but a key presented
\* for that machine, whatever peers failed removals, cut-off handlers and
\* restarts left in the kernel, and whichever keys are presented for which
\* names.
THEOREM Isolation == Spec => []TunnelIsolation
  <1>1. IInv => TunnelIsolation
    <2>1. ASSUME HeldParts, NEW n \in Names, Exists(n), NEW k \in Keys, route[k] = rec[n].idx
          PROVE  k \in KeysOf[n]
      <3>1. heldBy[rec[n].idx] = n /\ rec[n].idx # 0
        BY <2>1 DEF HeldParts, HeldRecords, Exists
      <3> QED
        BY <2>1, <3>1 DEF HeldParts, HeldRoutes
    <2> QED
      BY <2>1, Zenon DEF IInv, HeldInv, TunnelIsolation
  <1> QED
    BY <1>1, InvariantHolds, PTL

-----------------------------------------------------------------------------
(***************************************************************************)
(* Handlers on one name take turns.                                        *)
(*                                                                         *)
(* Without overlap on a name nobody loses a race and no index is given     *)
(* back.  A handler then always knows whether its machine has a record,    *)
(* and two handlers, having two names, have two indices, and two keys      *)
(* where keys are private: what one wires the other does not touch.        *)
(***************************************************************************)
Absent == {"count", "claim", "rbLrem", "rbUnwire", "lrem"}
Present == {"push", "wire", "forward", "dns", "ensure", "unpeer", "repeer", "persist",
            "rbDel", "unwire", "undns", "del"}

TurnsInv ==
    /\ \A q, r \in Reqs : loc[q].name = loc[r].name /\ loc[r].name # NoName => q = r
    /\ edge # "up" => \A r \in Reqs : loc[r] = Idle /\ pc[r] = "idle"
    /\ edge # "booting" => todo = {}
    /\ \A n \in todo : Exists(n)

\* What a handler knows of its machine.
Knows(r) ==
    /\ pc[r] # "giveback"
    /\ pc[r] \in Absent => ~Exists(loc[r].name)
    /\ pc[r] \in Present => rec[loc[r].name].idx = loc[r].idx
    /\ pc[r] = "count" => loc[r].idx = 0
    /\ pc[r] \notin {"idle", "count"} => loc[r].idx # 0
    /\ pc[r] \in {"count", "claim", "push", "wire"} => loc[r].port = 80
    /\ pc[r] \in {"push", "wire", "forward", "dns", "ensure", "unwire"} =>
         rec[loc[r].name].key = loc[r].key
    /\ pc[r] = "unpeer" => rec[loc[r].name].key = loc[r].old
KnowsInv ==
    /\ \A n \in Names : ~Exists(n) => rec[n] = NoRecord
    /\ \A r \in Reqs : Knows(r)

\* What delete has unbound stays unbound, and a listener is never left behind.
Unbound(r) == pc[r] \in {"undns", "del", "lrem"} => listener[loc[r].idx] = {}
ListenerInv == (\A r \in Reqs : Unbound(r)) /\ NoOrphanListener

\* How far a machine has been wired.
Untroubled == used["fault"] = 0 /\ used["abort"] = 0 /\ edge # "down"
HandlerWired(r) == Private(loc[r].name) =>
    /\ pc[r] \in {"ensure", "unpeer", "repeer", "persist"} /\ listed[loc[r].name] > 0 =>
         listener[loc[r].idx] = EdgePorts
    /\ pc[r] \in {"persist", "forward", "dns"} => route[loc[r].key] = loc[r].idx
    /\ pc[r] = "forward" /\ loc[r].port = 443 => 80 \in listener[loc[r].idx]
    /\ pc[r] = "dns" => listener[loc[r].idx] = EdgePorts
MachineWired(n) ==
    Private(n) /\ n \notin todo /\ Exists(n) /\ listed[n] > 0 /\ InFlight(n) = {} => Wired(n)
WiredInv ==
    Untroubled => (\A n \in Names : MachineWired(n)) /\ (\A r \in Reqs : HandlerWired(r))

SerialInv == IInv /\ ~gaveBack /\ TurnsInv /\ KnowsInv /\ ListenerInv /\ WiredInv

\* A step of handler r touches its own locals, its machine's record and list
\* entries, its index's listeners and its machine's keys; nothing else.  Keys
\* that are another name's alone keep their routes.
Local(r, n, i) ==
    /\ \A q \in Reqs \ {r} : pc'[q] = pc[q] /\ loc'[q] = loc[q]
    /\ \A m \in Names \ {n} : rec'[m] = rec[m] /\ listed'[m] = listed[m]
    /\ \A j \in Indices \ {i} : listener'[j] = listener[j]
    /\ \A m \in Names \ {n} : Private(m) => \A k \in KeysOf[m] : route'[k] = route[k]
    /\ UNCHANGED <<edge, todo, gaveBack>>
    /\ used'["abort"] = used["abort"] /\ (used'["fault"] = 0 => used["fault"] = 0)

\* While no index has been given back, names, indices and keys go together.
LEMMA Apart ==
    ASSUME SerialInv
    PROVE  /\ \A n \in Names : Exists(n) =>
                /\ rec[n].idx \in Indices /\ rec[n].key \in KeysOf[n] /\ heldBy[rec[n].idx] = n
           /\ \A r \in Reqs : pc[r] # "idle" => loc[r].name \in Names
           /\ \A r \in Reqs : pc[r] \notin {"idle", "count"} =>
                loc[r].idx \in Indices /\ heldBy[loc[r].idx] = loc[r].name
           /\ \A m \in Names, n \in Names : m # n /\ Private(m) => KeysOf[m] \cap KeysOf[n] = {}
           /\ \A n \in Names : KeysOf[n] \subseteq Keys
           /\ \A n \in Names, k \in Keys :
                Private(n) /\ k \in KeysOf[n] /\ route[k] # 0 => heldBy[route[k]] = n
  <1>1. TypeOK /\ LocalsInv /\ RecordKeyInv /\ HeldParts
    BY Zenon DEF SerialInv, IInv, HeldInv
  <1>2. \A n \in Names : Exists(n) =>
          /\ rec[n].idx \in Indices /\ rec[n].key \in KeysOf[n] /\ heldBy[rec[n].idx] = n
    BY <1>1 DEF TypeOK, Machine, Indices, Exists, RecordKeyInv, HeldParts, HeldRecords
  <1>3. \A r \in Reqs : pc[r] # "idle" => loc[r].name \in Names
    BY <1>1 DEF LocalsInv
  <1>4. \A r \in Reqs : pc[r] \notin {"idle", "count"} =>
          loc[r].idx \in Indices /\ heldBy[loc[r].idx] = loc[r].name
    <2>1. \A r \in Reqs : pc[r] \notin {"idle", "count"} => loc[r].idx # 0
      BY DEF SerialInv, KnowsInv, Knows
    <2> QED
      BY <1>1, <2>1, LocalsType DEF Indices, HeldParts, HeldLocals
  <1>5. /\ \A m \in Names, n \in Names : m # n /\ Private(m) => KeysOf[m] \cap KeysOf[n] = {}
        /\ \A n \in Names : KeysOf[n] \subseteq Keys
    BY KeysAssumption DEF Private
  <1>6. \A n \in Names, k \in Keys :
          Private(n) /\ k \in KeysOf[n] /\ route[k] # 0 => heldBy[route[k]] = n
    BY <1>1, <1>5 DEF HeldParts, HeldRoutes
  <1> QED
    BY <1>2, <1>3, <1>4, <1>5, <1>6

\* A handler touches the records, peers and listeners of its own name only.
LEMMA StepIsLocal ==
    ASSUME SerialInv, NEW r \in Reqs, Step(r), NEW n, NEW i, loc[r].name = n, loc[r].idx = i
    PROVE  Local(r, n, i) /\ n \in Names /\ pc[r] \in Absent \cup Present
  <1> USE DEF redis, wiring, process, history
  <1>0. /\ TypeOK /\ LocalsInv /\ Knows(r) /\ pc[r] # "giveback"
        /\ loc \in [Reqs -> Locals] /\ pc \in [Reqs -> Points]
        /\ rec \in [Names -> Machine] /\ listed \in [Names -> Nat]
        /\ listener \in [Indices -> SUBSET EdgePorts] /\ route \in [Keys -> 0..MaxCounter]
        /\ used \in [Troubles -> Nat]
    BY DEF SerialInv, IInv, KnowsInv, Knows, TypeOK
  <1>1. pc[r] \in Absent \cup Present
    BY <1>0
    DEF Step, EnsurePeer, RemoveOldPeer, AddNewPeer, PersistKey, Count, Claim, GiveBack,
        PushIndex, WirePeer, WireForward, UpsertDns, RollbackRecord, RollbackIndex,
        RollbackWiring, DeleteWiring, DeleteDns, DeleteRecord, DeleteIndex, Absent, Present
  <1>2. n \in Names
    BY <1>0, <1>1, Apart DEF Absent, Present
  <1>3. \A q \in Reqs \ {r} : pc'[q] = pc[q] /\ loc'[q] = loc[q]
    <2>1. \/ \E p : Goto(r, p)
          \/ Return(r)
          \/ \E l : loc' = [loc EXCEPT ![r] = l] /\ (UNCHANGED pc \/ \E p : pc' = [pc EXCEPT ![r] = p])
      BY DEF Step, EnsurePeer, RemoveOldPeer, AddNewPeer, PersistKey, Count, Claim, GiveBack,
             PushIndex, WirePeer, WireForward, UpsertDns, RollbackRecord, RollbackIndex,
             RollbackWiring, DeleteWiring, DeleteDns, DeleteRecord, DeleteIndex
    <2> QED
      BY <1>0, <2>1 DEF Goto, Return
  <1>4. \A m \in Names \ {n} : rec'[m] = rec[m] /\ listed'[m] = listed[m]
    <2>1. (UNCHANGED rec \/ \E x : rec' = [rec EXCEPT ![loc[r].name] = x])
      BY DEF Step, EnsurePeer, RemoveOldPeer, AddNewPeer, PersistKey, Count, Claim, GiveBack,
             PushIndex, WirePeer, WireForward, UpsertDns, RollbackRecord, RollbackIndex,
             RollbackWiring, DeleteWiring, DeleteDns, DeleteRecord, DeleteIndex, Unwire
    <2>2. (UNCHANGED listed \/ \E x : listed' = [listed EXCEPT ![loc[r].name] = x])
      BY DEF Step, EnsurePeer, RemoveOldPeer, AddNewPeer, PersistKey, Count, Claim, GiveBack,
             PushIndex, WirePeer, WireForward, UpsertDns, RollbackRecord, RollbackIndex,
             RollbackWiring, DeleteWiring, DeleteDns, DeleteRecord, DeleteIndex, Unwire, Lrem
    <2> QED
      BY <1>0, <2>1, <2>2
  <1>5. \A j \in Indices \ {i} : listener'[j] = listener[j]
    <2>1. UNCHANGED listener \/ \E x : listener' = [listener EXCEPT ![loc[r].idx] = x]
      BY DEF Step, EnsurePeer, RemoveOldPeer, AddNewPeer, PersistKey, Count, Claim, GiveBack,
             PushIndex, WirePeer, WireForward, UpsertDns, RollbackRecord, RollbackIndex,
             RollbackWiring, DeleteWiring, DeleteDns, DeleteRecord, DeleteIndex, Unwire
    <2> QED
      BY <1>0, <2>1
  <1>6. \A m \in Names \ {n} : Private(m) => \A k \in KeysOf[m] : route'[k] = route[k]
    <2>1. ASSUME NEW k \in KeysOf[n], pc[r] \notin {"idle", "count"}, route' = AddPeer(i, k)
          PROVE  \A m \in Names \ {n} : Private(m) => \A j \in KeysOf[m] : route'[j] = route[j]
      <3>1. SUFFICES ASSUME NEW m \in Names \ {n}, Private(m), NEW j \in KeysOf[m]
                     PROVE  route'[j] = route[j]
        OBVIOUS
      <3>2. j \in Keys /\ j # k /\ i \in Indices /\ heldBy[i] = n
        BY <1>0, <1>2, <2>1, <3>1, Apart
      <3>3. route[j] # i
        BY <3>1, <3>2, Apart DEF Indices
      <3> QED
        BY <2>1, <3>2, <3>3 DEF AddPeer
    <2>2. ASSUME NEW k \in KeysOf[n], route' = RemovePeer(k)
          PROVE  \A m \in Names \ {n} : Private(m) => \A j \in KeysOf[m] : route'[j] = route[j]
      BY <1>0, <1>2, <2>2, Apart DEF RemovePeer
    <2>3. pc[r] \in AllocPoints => loc[r].key \in KeysOf[n]
      BY <1>0 DEF LocalsInv
    <2>4. pc[r] = "unwire" => loc[r].key \in KeysOf[n]
      BY <1>0, <1>2, Apart DEF Knows, Present, Exists
    <2>5. pc[r] = "unpeer" => loc[r].old \in KeysOf[n]
      BY <1>0, <1>2, Apart DEF Knows, Present, Exists
    <2>6. CASE EnsurePeer(r) \/ AddNewPeer(r) \/ WirePeer(r)
      <3>1. pc[r] \in {"ensure", "repeer", "wire"} /\ (UNCHANGED route \/ route' = AddPeer(i, loc[r].key))
        BY <2>6 DEF EnsurePeer, AddNewPeer, WirePeer
      <3> QED
        BY <2>1, <2>3, <3>1 DEF AllocPoints
    <2>7. CASE RemoveOldPeer(r)
      BY <2>2, <2>5, <2>7 DEF RemoveOldPeer
    <2>8. CASE RollbackWiring(r) \/ DeleteWiring(r)
      <3>1. pc[r] \in {"rbUnwire", "unwire"} /\ (UNCHANGED route \/ route' = RemovePeer(loc[r].key))
        BY <2>8 DEF RollbackWiring, DeleteWiring, Unwire
      <3> QED
        BY <2>2, <2>3, <2>4, <3>1 DEF AllocPoints
    <2>9. CASE UNCHANGED route
      BY <2>9
    <2> QED
      BY <2>6, <2>7, <2>8, <2>9
      DEF Step, PersistKey, Count, Claim, GiveBack, PushIndex, WireForward, UpsertDns,
          RollbackRecord, RollbackIndex, DeleteDns, DeleteRecord, DeleteIndex
  <1>7. UNCHANGED <<edge, todo>>
    BY DEF Step, EnsurePeer, RemoveOldPeer, AddNewPeer, PersistKey, Count, Claim, GiveBack,
           PushIndex, WirePeer, WireForward, UpsertDns, RollbackRecord, RollbackIndex,
           RollbackWiring, DeleteWiring, DeleteDns, DeleteRecord, DeleteIndex, Unwire
  <1>8. UNCHANGED gaveBack
    BY <1>0 DEF Step, EnsurePeer, RemoveOldPeer, AddNewPeer, PersistKey, Count, Claim, GiveBack,
           PushIndex, WirePeer, WireForward, UpsertDns, RollbackRecord, RollbackIndex,
           RollbackWiring, DeleteWiring, DeleteDns, DeleteRecord, DeleteIndex, Unwire
  <1>9. used'["abort"] = used["abort"] /\ (used'["fault"] = 0 => used["fault"] = 0)
    <2>1. NoFault \/ Fault
      BY DEF Step, EnsurePeer, RemoveOldPeer, AddNewPeer, PersistKey, Count, Claim, GiveBack,
             PushIndex, WirePeer, WireForward, UpsertDns, RollbackRecord, RollbackIndex,
             RollbackWiring, DeleteWiring, DeleteDns, DeleteRecord, DeleteIndex, Unwire, NoFault
    <2>2. CASE NoFault
      BY <2>2 DEF NoFault
    <2>3. CASE Fault
      BY <1>0, <2>3 DEF Fault, Troubles
    <2> QED
      BY <2>1, <2>2, <2>3
  <1> QED
    BY <1>1, <1>2, <1>3, <1>4, <1>5, <1>6, <1>7, <1>8, <1>9 DEF Local

\* What is known, wired and unbound for everybody else stays so.
LEMMA StepOthers ==
    ASSUME SerialInv, NEW r \in Reqs, Step(r)
    PROVE  /\ \A q \in Reqs \ {r} : Knows(q)' /\ Unbound(q)'
           /\ \A m \in Names : m # loc[r].name => (~Exists(m) => rec[m] = NoRecord)'
           /\ Untroubled' =>
                /\ Untroubled
                /\ \A q \in Reqs \ {r} : HandlerWired(q)'
                /\ \A m \in Names : m # loc[r].name => MachineWired(m)'
  <1>0. PICK n, i : loc[r].name = n /\ loc[r].idx = i
    OBVIOUS
  <1>1. Local(r, n, i) /\ n \in Names /\ pc[r] \in Absent \cup Present
    BY <1>0, StepIsLocal
  <1>2. \A q \in Reqs \ {r} : /\ pc'[q] = pc[q] /\ loc'[q] = loc[q]
                              /\ loc[q].name # n
    <2>1. n # NoName
      BY <1>1, KeysAssumption
    <2> QED
      BY <1>0, <1>1, <2>1 DEF Local, SerialInv, TurnsInv
  <1>3. \A m \in Names \ {n} : rec'[m] = rec[m] /\ listed'[m] = listed[m]
    BY <1>1 DEF Local
  <1>4. i \in Indices => heldBy[i] = n
    BY <1>0, <1>1, Apart DEF SerialInv, KnowsInv, Knows, Absent, Present, Indices
  <1>5. \A j \in Indices : heldBy[j] # n => listener'[j] = listener[j]
    BY <1>1, <1>4 DEF Local
  <1>6. ASSUME NEW q \in Reqs \ {r}, pc[q] # "idle"
        PROVE  /\ loc[q].name \in Names \ {n}
               /\ rec'[loc[q].name] = rec[loc[q].name] /\ listed'[loc[q].name] = listed[loc[q].name]
               /\ pc[q] # "count" => listener'[loc[q].idx] = listener[loc[q].idx]
               /\ Private(loc[q].name) /\ pc[q] \in AllocPoints => route'[loc[q].key] = route[loc[q].key]
    <2>1. loc[q].name \in Names \ {n}
      BY <1>2, <1>6, Apart
    <2>2. pc[q] # "count" => listener'[loc[q].idx] = listener[loc[q].idx]
      BY <1>5, <1>6, <2>1, Apart
    <2>3. pc[q] \in AllocPoints => loc[q].key \in KeysOf[loc[q].name]
      BY DEF SerialInv, IInv, LocalsInv
    <2>4. Private(loc[q].name) /\ pc[q] \in AllocPoints => route'[loc[q].key] = route[loc[q].key]
      BY <1>1, <2>1, <2>3 DEF Local
    <2> QED
      BY <1>3, <2>1, <2>2, <2>4
  <1>7. ASSUME NEW q \in Reqs \ {r} PROVE Knows(q)' /\ Unbound(q)'
    <2>1. Knows(q) /\ Unbound(q)
      BY DEF SerialInv, KnowsInv, ListenerInv
    <2>2. pc'[q] = pc[q] /\ loc'[q] = loc[q]
      BY <1>2
    <2>3. CASE pc[q] = "idle"
      BY <2>2, <2>3 DEF Knows, Unbound, Absent, Present
    <2>4. CASE pc[q] # "idle"
      <3>1. Knows(q)'
        BY <1>6, <2>1, <2>2, <2>4 DEF Knows, Exists
      <3>2. Unbound(q)'
        BY <1>6, <2>1, <2>2, <2>4 DEF Unbound
      <3> QED
        BY <3>1, <3>2
    <2> QED
      BY <2>3, <2>4
  <1>8. \A m \in Names : m # n => (~Exists(m) => rec[m] = NoRecord)'
    BY <1>3 DEF Exists, SerialInv, KnowsInv
  <1>9. Untroubled' => Untroubled
    BY <1>1 DEF Local, Untroubled
  <1>10. ASSUME Untroubled, NEW q \in Reqs \ {r} PROVE HandlerWired(q)'
    <2>1. HandlerWired(q)
      BY <1>10 DEF SerialInv, WiredInv
    <2>2. pc'[q] = pc[q] /\ loc'[q] = loc[q]
      BY <1>2
    <2> QED
      BY <1>6, <2>1, <2>2 DEF HandlerWired, AllocPoints
  <1>11. ASSUME Untroubled, NEW m \in Names, m # n PROVE MachineWired(m)'
    <2>1. MachineWired(m)
      BY <1>11 DEF SerialInv, WiredInv
    <2>2. SUFFICES ASSUME Private(m), m \notin todo', Exists(m)', listed'[m] > 0, InFlight(m)' = {}
                   PROVE  Wired(m)'
      BY DEF MachineWired
    <2>3. rec'[m] = rec[m] /\ m \notin todo /\ Exists(m) /\ listed[m] > 0
      BY <1>1, <1>3, <1>11, <2>2 DEF Exists, Local
    <2>4. InFlight(m) = {}
      BY <1>0, <1>2, <1>11, <2>2 DEF InFlight
    <2>5. Wired(m)
      BY <2>1, <2>2, <2>3, <2>4 DEF MachineWired
    <2>6. listener'[rec[m].idx] = listener[rec[m].idx] /\ route'[rec[m].key] = route[rec[m].key]
      BY <1>1, <1>5, <1>11, <2>2, <2>3, Apart DEF Local
    <2> QED
      BY <2>3, <2>5, <2>6 DEF Wired
  <1> QED
    BY <1>0, <1>7, <1>8, <1>9, <1>10, <1>11

\* A handler that returns leaves nothing to know.
LEMMA ReturnOwn ==
    ASSUME TypeOK, NEW r \in Reqs, Return(r)
    PROVE  /\ Knows(r)' /\ Unbound(r)' /\ HandlerWired(r)'
           /\ pc'[r] = "idle" /\ loc'[r] = Idle
  <1>1. pc'[r] = "idle" /\ loc'[r] = Idle
    BY DEF Return, TypeOK
  <1> QED
    BY <1>1 DEF Knows, Unbound, HandlerWired, Absent, Present

\* A handler that goes on still works on its machine.
LEMMA GotoOwn ==
    ASSUME TypeOK, NEW r \in Reqs, NEW p, Goto(r, p)
    PROVE  pc'[r] = p /\ loc' = loc
  BY DEF Goto, TypeOK

\* What a step leaves for its own handler and machine.
Own(r, n, i) ==
    /\ Knows(r)' /\ Unbound(r)' /\ (~Exists(n) => rec[n] = NoRecord)'
    /\ Untroubled' => HandlerWired(r)' /\ MachineWired(n)'
    /\ i # 0 => listener'[i] = {} \/ rec'[n].idx = i \/ loc'[r].idx = i

\* What a handler does to its own name leaves it wired or known to be at work.
LEMMA StepOwn ==
    ASSUME SerialInv, NEW r \in Reqs, Step(r), NEW n, NEW i, loc[r].name = n, loc[r].idx = i
    PROVE  Own(r, n, i)
  <1> USE DEF redis, wiring, process, history
  <1>0. /\ TypeOK /\ Knows(r) /\ Unbound(r) /\ n \in Names /\ pc[r] \in Absent \cup Present
        /\ loc \in [Reqs -> Locals] /\ pc \in [Reqs -> Points]
        /\ rec \in [Names -> Machine] /\ listed \in [Names -> Nat]
        /\ listener \in [Indices -> SUBSET EdgePorts] /\ route \in [Keys -> 0..MaxCounter]
        /\ (~Exists(n) => rec[n] = NoRecord) /\ pc[r] # "idle"
    BY StepIsLocal DEF SerialInv, IInv, KnowsInv, ListenerInv, TypeOK, Absent, Present
  <1>1. Untroubled' => Untroubled
    BY StepOthers
  <1>2. Untroubled => HandlerWired(r)
    BY DEF SerialInv, WiredInv
  <1>3. loc'[r].name = n => MachineWired(n)'
    BY DEF MachineWired, InFlight
  <1>4. pc[r] \notin {"idle", "count"} => i \in Indices /\ i # 0
    BY Apart DEF Indices
  <1>5. pc[r] \in AllocPoints => loc[r].key \in KeysOf[n] /\ loc[r].key \in Keys
    BY <1>0, Apart DEF SerialInv, IInv, LocalsInv
  <1>6. ASSUME NEW k \in Keys, route' = AddPeer(i, k) PROVE route'[k] = i
    BY <1>6 DEF AddPeer
  <1>7. ASSUME Fault PROVE ~Untroubled'
    BY <1>0, <1>7 DEF Fault, Untroubled, TypeOK, Troubles
  <1>8. ASSUME Return(r) PROVE /\ Knows(r)' /\ Unbound(r)' /\ HandlerWired(r)'
                               /\ pc'[r] = "idle" /\ loc'[r] = Idle
    BY <1>0, <1>8, ReturnOwn
  <1>9. ASSUME NEW p, Goto(r, p) PROVE pc'[r] = p /\ loc'[r] = loc[r] /\ MachineWired(n)'
    BY <1>0, <1>3, <1>9, GotoOwn
  <1>10. CASE EnsurePeer(r)
    <2>1. /\ pc[r] = "ensure" /\ Return(r) /\ UNCHANGED <<rec, listed, listener, todo>>
          /\ route' = AddPeer(i, loc[r].key) \/ Fault
      BY <1>10 DEF EnsurePeer
    <2>2. ASSUME Untroubled' PROVE MachineWired(n)'
      <3>1. route'[loc[r].key] = i
        BY <1>5, <1>6, <1>7, <2>1, <2>2 DEF AllocPoints
      <3>2. Private(n) /\ listed[n] > 0 => listener[i] = EdgePorts
        BY <1>1, <1>2, <2>1, <2>2 DEF HandlerWired
      <3> QED
        BY <1>0, <2>1, <3>1, <3>2 DEF MachineWired, Wired, Exists, Knows, Present
    <2>3. rec'[n].idx = i
      BY <1>0, <2>1 DEF Knows, Present
    <2> QED
      BY <1>0, <1>8, <2>1, <2>2, <2>3 DEF Own, Exists
  <1>11. CASE RemoveOldPeer(r)
    <2>1. pc[r] = "unpeer" /\ Goto(r, "repeer") /\ UNCHANGED <<rec, listed, listener>>
      BY <1>11 DEF RemoveOldPeer
    <2>2. pc'[r] = "repeer" /\ loc'[r] = loc[r] /\ MachineWired(n)'
      BY <1>9, <2>1
    <2> QED
      BY <1>0, <1>1, <1>2, <2>1, <2>2 DEF Own, Knows, Unbound, HandlerWired, Exists, Absent, Present
  <1>12. CASE AddNewPeer(r)
    <2>1. pc[r] = "repeer" /\ UNCHANGED <<rec, listed, listener>>
      BY <1>12 DEF AddNewPeer
    <2>2. CASE route' = AddPeer(i, loc[r].key) /\ Goto(r, "persist")
      <3>1. pc'[r] = "persist" /\ loc'[r] = loc[r] /\ MachineWired(n)'
        BY <1>9, <2>2
      <3>2. route'[loc[r].key] = i
        BY <1>5, <1>6, <2>1, <2>2 DEF AllocPoints
      <3> QED
        BY <1>0, <1>1, <1>2, <2>1, <3>1, <3>2
        DEF Own, Knows, Unbound, HandlerWired, Exists, Absent, Present
    <2>3. CASE Fault /\ Return(r)
      <3>1. rec'[n].idx = i
        BY <1>0, <2>1 DEF Knows, Present
      <3> QED
        BY <1>0, <1>7, <1>8, <2>1, <2>3, <3>1 DEF Own, Exists
    <2> QED
      BY <1>12, <2>2, <2>3 DEF AddNewPeer
  <1>13. CASE PersistKey(r)
    <2>1. /\ pc[r] = "persist" /\ Return(r) /\ UNCHANGED <<listed, route, listener, todo>>
          /\ rec' = [rec EXCEPT ![n] = MachineOf(r)]
      BY <1>13 DEF PersistKey
    <2>2. rec'[n].idx = i /\ rec'[n].key = loc[r].key
      BY <1>0, <2>1 DEF MachineOf
    <2>3. ASSUME Untroubled' PROVE MachineWired(n)'
      BY <1>1, <1>2, <2>1, <2>2, <2>3 DEF HandlerWired, MachineWired, Wired
    <2>4. Exists(n)'
      BY <1>4, <2>1, <2>2 DEF Exists
    <2> QED
      BY <1>8, <2>1, <2>2, <2>3, <2>4 DEF Own
  <1>14. CASE Count(r)
    <2>1. pc[r] = "count" /\ UNCHANGED <<rec, listed>> /\ ~Exists(n) /\ i = 0 /\ loc[r].port = 80
      BY <1>0, <1>14 DEF Count, Knows, Absent
    <2>2. CASE Return(r)
      BY <1>0, <1>8, <2>1, <2>2 DEF Own, Exists, MachineWired
    <2>3. CASE /\ pc' = [pc EXCEPT ![r] = "claim"]
               /\ loc' = [loc EXCEPT ![r].idx = CounterValue + 1] /\ CounterValue + 1 \in Indices
      <3>1. /\ pc'[r] = "claim" /\ loc'[r].idx = CounterValue + 1 /\ loc'[r].name = n
            /\ loc'[r].port = 80
        BY <1>0, <2>1, <2>3 DEF Locals
      <3>2. loc'[r].idx # 0
        BY <2>3, <3>1 DEF Indices
      <3> QED
        BY <1>0, <1>3, <2>1, <3>1, <3>2 DEF Own, Knows, Unbound, HandlerWired, Exists, Absent, Present
    <2> QED
      BY <1>14, <2>2, <2>3 DEF Count
  <1>15. CASE Claim(r)
    <2>1. /\ pc[r] = "claim" /\ UNCHANGED <<listed, listener>> /\ ~Exists(n)
          /\ rec' = [rec EXCEPT ![n] = MachineOf(r)] /\ Goto(r, "push")
      BY <1>0, <1>15 DEF Claim, Knows, Absent
    <2>2. rec'[n].idx = i /\ rec'[n].key = loc[r].key
      BY <1>0, <2>1 DEF MachineOf
    <2>3. pc'[r] = "push" /\ loc'[r] = loc[r] /\ MachineWired(n)'
      BY <1>9, <2>1
    <2> QED
      BY <1>0, <1>4, <2>1, <2>2, <2>3 DEF Own, Knows, Unbound, HandlerWired, Exists, Absent, Present
  <1>16. CASE PushIndex(r)
    <2>1. pc[r] = "push" /\ UNCHANGED <<rec, listener>> /\ Goto(r, "wire")
      BY <1>16 DEF PushIndex
    <2>2. pc'[r] = "wire" /\ loc'[r] = loc[r] /\ MachineWired(n)'
      BY <1>9, <2>1
    <2> QED
      BY <1>0, <2>1, <2>2 DEF Own, Knows, Unbound, HandlerWired, Exists, Absent, Present
  <1>17. CASE WirePeer(r)
    <2>1. pc[r] = "wire" /\ UNCHANGED <<rec, listed, listener>>
      BY <1>17 DEF WirePeer
    <2>2. CASE route' = AddPeer(i, loc[r].key) /\ Goto(r, "forward")
      <3>1. pc'[r] = "forward" /\ loc'[r] = loc[r] /\ MachineWired(n)'
        BY <1>9, <2>2
      <3>2. route'[loc[r].key] = i /\ loc[r].port = 80
        BY <1>0, <1>5, <1>6, <2>1, <2>2 DEF AllocPoints, Knows
      <3> QED
        BY <1>0, <2>1, <3>1, <3>2 DEF Own, Knows, Unbound, HandlerWired, Exists, Absent, Present
    <2>3. CASE Goto(r, "rbDel")
      <3>1. pc'[r] = "rbDel" /\ loc'[r] = loc[r] /\ MachineWired(n)'
        BY <1>9, <2>3
      <3> QED
        BY <1>0, <2>1, <3>1 DEF Own, Knows, Unbound, HandlerWired, Exists, Absent, Present
    <2> QED
      BY <1>17, <2>2, <2>3 DEF WirePeer
  <1>18. CASE WireForward(r)
    <2>1. pc[r] = "forward" /\ UNCHANGED <<rec, listed, route>> /\ i \in Indices /\ i # 0
      BY <1>4, <1>18 DEF WireForward
    <2>2. CASE /\ listener' = [listener EXCEPT ![i] = @ \cup {loc[r].port}] /\ loc[r].port = 80
               /\ loc' = [loc EXCEPT ![r].port = 443] /\ UNCHANGED pc
      <3>1. /\ pc'[r] = "forward" /\ loc'[r].idx = i /\ loc'[r].name = n /\ loc'[r].key = loc[r].key
            /\ 80 \in listener'[i]
        BY <1>0, <2>1, <2>2 DEF Locals
      <3> QED
        BY <1>0, <1>1, <1>2, <1>3, <2>1, <3>1
        DEF Own, Knows, Unbound, HandlerWired, Exists, Absent, Present
    <2>3. CASE /\ listener' = [listener EXCEPT ![i] = @ \cup {loc[r].port}] /\ loc[r].port # 80
               /\ Goto(r, "dns")
      <3>1. pc'[r] = "dns" /\ loc'[r] = loc[r] /\ MachineWired(n)' /\ loc[r].port = 443
        BY <1>0, <1>9, <2>3, LocalsType DEF EdgePorts
      <3>2. ASSUME Untroubled', Private(n) PROVE listener'[i] = EdgePorts /\ route'[loc[r].key] = i
        <4>1. 80 \in listener[i] /\ route[loc[r].key] = i
          BY <1>1, <1>2, <2>1, <3>1, <3>2 DEF HandlerWired
        <4> QED
          BY <1>0, <2>1, <2>3, <3>1, <4>1 DEF EdgePorts
      <3> QED
        BY <1>0, <2>1, <3>1, <3>2 DEF Own, Knows, Unbound, HandlerWired, Exists, Absent, Present
    <2>4. CASE Goto(r, "rbDel")
      <3>1. pc'[r] = "rbDel" /\ loc'[r] = loc[r] /\ MachineWired(n)'
        BY <1>9, <2>4
      <3> QED
        BY <1>0, <2>1, <3>1 DEF Own, Knows, Unbound, HandlerWired, Exists, Absent, Present
    <2> QED
      BY <1>18, <2>2, <2>3, <2>4 DEF WireForward
  <1>19. CASE UpsertDns(r)
    <2>1. pc[r] = "dns" /\ Return(r) /\ UNCHANGED <<rec, listed, route, listener>>
      BY <1>19 DEF UpsertDns
    <2>2. rec[n].idx = i /\ rec[n].key = loc[r].key
      BY <1>0, <2>1 DEF Knows, Present
    <2>3. ASSUME Untroubled' PROVE MachineWired(n)'
      BY <1>1, <1>2, <2>1, <2>2, <2>3 DEF HandlerWired, MachineWired, Wired
    <2> QED
      BY <1>0, <1>8, <2>1, <2>2, <2>3 DEF Own, Exists
  <1>20. CASE RollbackRecord(r) \/ DeleteRecord(r)
    <2>1. PICK p \in {"rbLrem", "lrem"} : Goto(r, p) /\ (p = "lrem" => pc[r] = "del")
      BY <1>20 DEF RollbackRecord, DeleteRecord
    <2>2. pc[r] \in {"rbDel", "del"} /\ rec' = [rec EXCEPT ![n] = NoRecord] /\ UNCHANGED listener
      BY <1>20 DEF RollbackRecord, DeleteRecord
    <2>3. rec'[n] = NoRecord /\ ~Exists(n)'
      BY <1>0, <2>2 DEF Exists, NoRecord
    <2>4. pc'[r] = p /\ loc'[r] = loc[r] /\ MachineWired(n)'
      BY <1>9, <2>1
    <2> QED
      BY <1>0, <1>4, <2>1, <2>2, <2>3, <2>4 DEF Own, Knows, Unbound, HandlerWired, Absent, Present
  <1>21. CASE RollbackIndex(r)
    <2>1. pc[r] = "rbLrem" /\ UNCHANGED <<rec, listener>> /\ Goto(r, "rbUnwire")
      BY <1>21 DEF RollbackIndex
    <2>2. pc'[r] = "rbUnwire" /\ loc'[r] = loc[r] /\ MachineWired(n)'
      BY <1>9, <2>1
    <2> QED
      BY <1>0, <2>1, <2>2 DEF Own, Knows, Unbound, HandlerWired, Exists, Absent, Present
  <1>22. CASE RollbackWiring(r)
    <2>1. /\ pc[r] = "rbUnwire" /\ UNCHANGED rec /\ Return(r)
          /\ listener' = [listener EXCEPT ![i] = {}]
      BY <1>22 DEF RollbackWiring, Unwire
    <2>2. ~Exists(n) /\ listener'[i] = {}
      BY <1>0, <1>4, <2>1 DEF Knows, Absent
    <2> QED
      BY <1>0, <1>8, <2>1, <2>2 DEF Own, Exists, MachineWired
  <1>23. CASE DeleteWiring(r)
    <2>1. /\ pc[r] = "unwire" /\ UNCHANGED rec /\ Goto(r, "undns")
          /\ listener' = [listener EXCEPT ![i] = {}]
      BY <1>23 DEF DeleteWiring, Unwire
    <2>2. pc'[r] = "undns" /\ loc'[r] = loc[r] /\ MachineWired(n)' /\ listener'[i] = {}
      BY <1>0, <1>4, <1>9, <2>1
    <2> QED
      BY <1>0, <2>1, <2>2 DEF Own, Knows, Unbound, HandlerWired, Exists, Absent, Present
  <1>24. CASE DeleteDns(r)
    <2>1. pc[r] = "undns" /\ UNCHANGED <<rec, listener>> /\ Goto(r, "del")
      BY <1>24 DEF DeleteDns
    <2>2. pc'[r] = "del" /\ loc'[r] = loc[r] /\ MachineWired(n)'
      BY <1>9, <2>1
    <2> QED
      BY <1>0, <2>1, <2>2 DEF Own, Knows, Unbound, HandlerWired, Exists, Absent, Present
  <1>25. CASE DeleteIndex(r)
    <2>1. pc[r] = "lrem" /\ UNCHANGED <<rec, listener>> /\ Return(r)
      BY <1>25 DEF DeleteIndex
    <2>2. ~Exists(n) /\ listener[i] = {}
      BY <1>0, <2>1 DEF Knows, Absent, Unbound
    <2> QED
      BY <1>0, <1>8, <2>1, <2>2 DEF Own, Exists, MachineWired
  <1>26. ~GiveBack(r)
    BY <1>0 DEF GiveBack, Knows
  <1> QED
    BY <1>10, <1>11, <1>12, <1>13, <1>14, <1>15, <1>16, <1>17, <1>18, <1>19, <1>20, <1>21, <1>22,
       <1>23, <1>24, <1>25, <1>26 DEF Step

\* A handler's call keeps the invariant.
LEMMA StepSerial ==
    ASSUME SerialInv, NEW r \in Reqs, Step(r), IInv'
    PROVE  SerialInv'
  <1>0. PICK n, i : loc[r].name = n /\ loc[r].idx = i
    OBVIOUS
  <1>1. Local(r, n, i) /\ n \in Names /\ pc[r] \in Absent \cup Present /\ Own(r, n, i)
    BY <1>0, StepIsLocal, StepOwn
  <1>2. ~gaveBack'
    BY <1>1, Zenon DEF Local, SerialInv
  <1>3. TurnsInv'
    <2>1. loc'[r].name \in {n, NoName}
      <3>1. loc \in [Reqs -> Locals] /\ Idle.name = NoName
        BY DEF SerialInv, IInv, TypeOK, Idle
      <3>2. \/ \E p : Goto(r, p)
            \/ Return(r)
            \/ \E x : loc' = [loc EXCEPT ![r].idx = x] \/ loc' = [loc EXCEPT ![r].port = x]
        BY DEF Step, EnsurePeer, RemoveOldPeer, AddNewPeer, PersistKey, Count, Claim, GiveBack,
               PushIndex, WirePeer, WireForward, UpsertDns, RollbackRecord, RollbackIndex,
               RollbackWiring, DeleteWiring, DeleteDns, DeleteRecord, DeleteIndex
      <3> QED
        BY <1>0, <3>1, <3>2 DEF Goto, Return, Locals
    <2>2. edge = "up" /\ todo = {} /\ UNCHANGED <<edge, todo>>
      BY <1>1 DEF SerialInv, TurnsInv, Absent, Present, Local
    <2>3. \A q \in Reqs \ {r} : loc'[q] = loc[q] /\ loc[q].name # n
      <3>1. n # NoName
        BY <1>1, KeysAssumption
      <3> QED
        BY <1>0, <1>1, <3>1 DEF Local, SerialInv, TurnsInv
    <2>4. \A p, q \in Reqs : loc'[p].name = loc'[q].name /\ loc'[q].name # NoName => p = q
      BY <2>1, <2>3 DEF SerialInv, TurnsInv
    <2> QED
      BY <2>2, <2>4 DEF TurnsInv
  <1>4. KnowsInv'
    BY <1>0, <1>1, StepOthers DEF KnowsInv, Own
  <1>5. ListenerInv'
    <2>1. \A q \in Reqs : Unbound(q)'
      BY <1>1, StepOthers DEF Own
    <2>2. ASSUME used'["abort"] = 0, NEW j \in Indices, listener'[j] # {}
          PROVE  (\E m \in Names : rec'[m].idx = j) \/ (\E q \in Reqs : loc'[q].idx = j)
      <3>1. used["abort"] = 0 /\ j # 0
        BY <1>1, <2>2 DEF Local, Indices
      <3>2. CASE j = i
        BY <1>1, <2>2, <3>1, <3>2 DEF Own
      <3>3. CASE j # i
        <4>1. listener[j] # {}
          BY <1>1, <2>2, <3>3 DEF Local
        <4>2. CASE \E m \in Names : rec[m].idx = j
          <5>1. PICK m \in Names : rec[m].idx = j
            BY <4>2
          <5>2. m # n
            BY <1>0, <1>1, <3>1, <3>3, <5>1 DEF SerialInv, KnowsInv, Knows, Exists
          <5> QED
            BY <1>1, <5>1, <5>2 DEF Local
        <4>3. CASE \E q \in Reqs : loc[q].idx = j
          BY <1>0, <1>1, <3>3, <4>3 DEF Local
        <4> QED
          BY <3>1, <4>1, <4>2, <4>3 DEF SerialInv, ListenerInv, NoOrphanListener
      <3> QED
        BY <3>2, <3>3
    <2> QED
      BY <2>1, <2>2 DEF ListenerInv, NoOrphanListener
  <1>6. WiredInv'
    BY <1>0, <1>1, StepOthers DEF WiredInv, Own
  <1> QED
    BY <1>2, <1>3, <1>4, <1>5, <1>6 DEF SerialInv

\* A handler starts on a name nobody else works on.
LEMMA StartSerial ==
    ASSUME Overlap = {}, SerialInv, NEW r \in Reqs, Start(r), IInv'
    PROVE  SerialInv'
  <1> USE DEF redis, wiring, process, history
  <1>0. /\ loc \in [Reqs -> Locals] /\ pc \in [Reqs -> Points] /\ rec \in [Names -> Machine]
        /\ NoName \notin Names
    BY KeysAssumption DEF SerialInv, IInv, TypeOK
  <1>1. PICK n, l : /\ n \in Names /\ loc' = [loc EXCEPT ![r] = l]
                    /\ l.name = n /\ l.idx = rec[n].idx /\ l.port = 80
                    /\ \/ \E k \in Keys : BeginAlloc(r, n, k) /\ l.key = k /\ l.old = rec[n].key
                       \/ BeginDelete(r, n) /\ l.key = rec[n].key
    <2>1. ASSUME NEW n \in Names, NEW k \in Keys, BeginAlloc(r, n, k)
          PROVE  \E l : /\ loc' = [loc EXCEPT ![r] = l] /\ l.name = n /\ l.idx = rec[n].idx
                        /\ l.port = 80 /\ l.key = k /\ l.old = rec[n].key
      <3> DEFINE l == [op |-> "alloc", name |-> n, key |-> k, old |-> rec[n].key,
                       idx |-> rec[n].idx, port |-> 80]
      <3>1. loc' = [loc EXCEPT ![r] = l]
        BY <2>1 DEF BeginAlloc
      <3>2. /\ l.name = n /\ l.idx = rec[n].idx /\ l.port = 80 /\ l.key = k /\ l.old = rec[n].key
        OBVIOUS
      <3> HIDE DEF l
      <3> QED
        BY <3>1, <3>2
    <2>2. ASSUME NEW n \in Names, BeginDelete(r, n)
          PROVE  \E l : /\ loc' = [loc EXCEPT ![r] = l] /\ l.name = n /\ l.idx = rec[n].idx
                        /\ l.port = 80 /\ l.key = rec[n].key
      <3> DEFINE l == [op |-> "delete", name |-> n, key |-> rec[n].key, old |-> NoKey,
                       idx |-> rec[n].idx, port |-> 80]
      <3>1. loc' = [loc EXCEPT ![r] = l]
        BY <2>2 DEF BeginDelete
      <3>2. l.name = n /\ l.idx = rec[n].idx /\ l.port = 80 /\ l.key = rec[n].key
        OBVIOUS
      <3> HIDE DEF l
      <3> QED
        BY <3>1, <3>2
    <2> QED
      BY <2>1, <2>2 DEF Start
  <1>2. /\ edge = "up" /\ pc[r] = "idle" /\ \A q \in Reqs : loc[q].name # n
        /\ UNCHANGED <<rec, listed, route, listener, edge, todo, used, gaveBack>>
        /\ \A q \in Reqs \ {r} : pc'[q] = pc[q] /\ loc'[q] = loc[q]
        /\ loc'[r] = l
    BY <1>0, <1>1 DEF BeginAlloc, BeginDelete, MayStart
  <1>3. todo = {} /\ InFlight(n) = {}
    BY <1>2 DEF SerialInv, TurnsInv, InFlight
  <1>4. \/ pc'[r] = "count" /\ ~Exists(n)
        \/ pc'[r] = "ensure" /\ Exists(n) /\ l.key = rec[n].key
        \/ pc'[r] = "unpeer" /\ Exists(n) /\ l.old = rec[n].key
        \/ pc'[r] = "unwire" /\ Exists(n) /\ l.key = rec[n].key
    BY <1>0, <1>1 DEF BeginAlloc, BeginDelete
  <1>5. Knows(r)' /\ Unbound(r)'
    BY <1>1, <1>2, <1>4 DEF Knows, Unbound, Exists, Absent, Present
  <1>6. ASSUME NEW q \in Reqs \ {r}
        PROVE  /\ Knows(q)' /\ Unbound(q)'
               /\ HandlerWired(q) => HandlerWired(q)'
    <2>1. Knows(q) /\ Unbound(q)
      BY DEF SerialInv, KnowsInv, ListenerInv
    <2> QED
      BY <1>2, <2>1 DEF Knows, Unbound, HandlerWired, Exists
  <1>7. TurnsInv'
    <2>1. \A p, q \in Reqs : loc'[p].name = loc'[q].name /\ loc'[q].name # NoName => p = q
      BY <1>1, <1>2 DEF SerialInv, TurnsInv
    <2> QED
      BY <1>2, <1>3, <2>1 DEF TurnsInv
  <1>8. KnowsInv'
    BY <1>2, <1>5, <1>6 DEF KnowsInv, SerialInv, Exists
  <1>9. NoOrphanListener'
    <2>1. SUFFICES ASSUME used["abort"] = 0, NEW j \in Indices, listener[j] # {}
                   PROVE  (\E m \in Names : rec[m].idx = j) \/ (\E q \in Reqs : loc'[q].idx = j)
      BY <1>2 DEF NoOrphanListener
    <2>2. loc[r].idx = 0 /\ j # 0
      BY <1>2 DEF SerialInv, IInv, LocalsInv, Idle, Indices
    <2> QED
      BY <1>2, <2>1, <2>2 DEF SerialInv, ListenerInv, NoOrphanListener
  <1>10. WiredInv'
    <2>1. SUFFICES ASSUME Untroubled'
                   PROVE (\A m \in Names : MachineWired(m)') /\ (\A q \in Reqs : HandlerWired(q)')
      BY DEF WiredInv
    <2>2. Untroubled /\ (\A m \in Names : MachineWired(m)) /\ (\A q \in Reqs : HandlerWired(q))
      BY <1>2, <2>1 DEF Untroubled, SerialInv, WiredInv
    <2>3. ASSUME NEW m \in Names PROVE MachineWired(m)'
      <3>1. MachineWired(m)
        BY <2>2
      <3>2. InFlight(m)' = {} => InFlight(m) = {}
        <4>1. loc[r].name = NoName
          BY <1>2 DEF SerialInv, IInv, LocalsInv, Idle
        <4>2. SUFFICES ASSUME NEW q \in Reqs, loc[q].name = m PROVE InFlight(m)' # {}
          BY DEF InFlight
        <4>3. loc'[q].name = m
          BY <1>0, <1>2, <4>1, <4>2
        <4> QED
          BY <4>3 DEF InFlight
      <3> QED
        BY <1>2, <3>1, <3>2 DEF MachineWired, Exists, Wired
    <2>4. HandlerWired(r)'
      <3>1. Private(n) /\ Exists(n) /\ listed[n] > 0 => listener[rec[n].idx] = EdgePorts
        BY <1>1, <1>3, <2>2 DEF MachineWired, Wired
      <3> QED
        BY <1>1, <1>2, <1>4, <3>1 DEF HandlerWired
    <2> QED
      BY <1>6, <2>2, <2>3, <2>4
  <1> QED
    BY <1>2, <1>5, <1>6, <1>7, <1>8, <1>9, <1>10 DEF SerialInv, ListenerInv

\* A handler that is cut off leaves the others as they are.
LEMMA AbortSerial ==
    ASSUME SerialInv, NEW r \in Reqs, Abort(r), IInv'
    PROVE  SerialInv'
  <1> USE DEF redis, wiring, process, history
  <1>0. TypeOK /\ loc \in [Reqs -> Locals] /\ pc \in [Reqs -> Points] /\ used \in [Troubles -> Nat]
        /\ Idle.name = NoName
    BY DEF SerialInv, IInv, TypeOK, Idle
  <1>1. /\ Return(r) /\ UNCHANGED <<rec, listed, listener, edge, todo, gaveBack>>
        /\ used'["abort"] # 0 /\ pc[r] # "idle"
    BY <1>0 DEF Abort, Troubles, AwaitPoints
  <1>2. /\ \A q \in Reqs \ {r} : pc'[q] = pc[q] /\ loc'[q] = loc[q]
        /\ loc'[r] = Idle
    BY <1>0, <1>1 DEF Return
  <1>3. Knows(r)' /\ Unbound(r)'
    BY <1>0, <1>1, ReturnOwn
  <1>4. ASSUME NEW q \in Reqs \ {r} PROVE Knows(q)' /\ Unbound(q)'
    <2>1. Knows(q) /\ Unbound(q)
      BY DEF SerialInv, KnowsInv, ListenerInv
    <2> QED
      BY <1>1, <1>2, <2>1 DEF Knows, Unbound, Exists
  <1>5. edge = "up"
    BY <1>1 DEF SerialInv, TurnsInv
  <1>6. TurnsInv'
    BY <1>0, <1>1, <1>2, <1>5 DEF SerialInv, TurnsInv, Exists
  <1>7. KnowsInv'
    BY <1>1, <1>3, <1>4 DEF SerialInv, KnowsInv, Exists
  <1>8. ListenerInv' /\ WiredInv'
    BY <1>1, <1>3, <1>4 DEF ListenerInv, NoOrphanListener, WiredInv, Untroubled
  <1> QED
    BY <1>1, <1>6, <1>7, <1>8 DEF SerialInv

\* Nothing runs while the edge is down; rehydrate wires what is indexed, one
\* machine at a time, and no two machines have an index or a key in common.
LEMMA BootSerial ==
    ASSUME SerialInv, Crash \/ Boot \/ Serve \/ (\E n \in Names : Rehydrate(n)), IInv'
    PROVE  SerialInv'
  <1> USE DEF redis, wiring, process, history
  <1>0. TypeOK /\ Idle.name = NoName /\ Idle.idx = 0 /\ used \in [Troubles -> Nat]
    BY DEF SerialInv, IInv, TypeOK, Idle
  <1>1. ASSUME \A r \in Reqs : pc'[r] = "idle" /\ loc'[r] = Idle
        PROVE  \A r \in Reqs : Knows(r)' /\ Unbound(r)' /\ HandlerWired(r)'
    BY <1>1 DEF Knows, Unbound, HandlerWired, Absent, Present
  <1>2. edge # "up" => \A r \in Reqs : pc[r] = "idle" /\ loc[r] = Idle
    BY DEF SerialInv, TurnsInv
  <1>3. UNCHANGED <<rec, listed, gaveBack>>
    BY DEF Crash, Boot, Serve, Rehydrate
  <1>4. ASSUME \A r \in Reqs : Knows(r)' PROVE KnowsInv'
    BY <1>3, <1>4 DEF SerialInv, KnowsInv, Exists
  <1>5. CASE Crash
    <2>1. /\ \A r \in Reqs : pc'[r] = "idle" /\ loc'[r] = Idle
          /\ todo' = {} /\ edge' = "down" /\ \A i \in Indices : listener'[i] = {}
      BY <1>5 DEF Crash
    <2>2. TurnsInv'
      BY <1>0, <2>1 DEF TurnsInv
    <2>3. ListenerInv' /\ WiredInv'
      BY <1>1, <2>1 DEF ListenerInv, NoOrphanListener, WiredInv, Untroubled
    <2> QED
      BY <1>1, <1>3, <1>4, <2>1, <2>2, <2>3 DEF SerialInv
  <1>6. CASE Boot
    <2>1. /\ \A r \in Reqs : pc'[r] = "idle" /\ loc'[r] = Idle
          /\ todo' = {n \in Names : listed[n] > 0 /\ Exists(n)} /\ edge' = "booting"
          /\ UNCHANGED <<listener, loc, used>>
      BY <1>2, <1>6 DEF Boot
    <2>2. TurnsInv'
      BY <1>0, <1>3, <2>1 DEF TurnsInv, Exists
    <2>3. ListenerInv'
      BY <1>1, <1>3, <2>1 DEF SerialInv, ListenerInv, NoOrphanListener
    <2>4. WiredInv'
      BY <1>1, <1>3, <2>1 DEF WiredInv, MachineWired, Exists
    <2> QED
      BY <1>1, <1>3, <1>4, <2>1, <2>2, <2>3, <2>4 DEF SerialInv
  <1>7. CASE Serve
    <2>1. /\ \A r \in Reqs : pc'[r] = "idle" /\ loc'[r] = Idle
          /\ todo' = {} /\ todo = {} /\ edge' = "up" /\ edge = "booting"
          /\ UNCHANGED <<listener, route, loc, used>>
      BY <1>2, <1>7 DEF Serve
    <2>2. TurnsInv'
      BY <1>0, <2>1 DEF TurnsInv
    <2>3. ListenerInv'
      BY <1>1, <1>3, <2>1 DEF SerialInv, ListenerInv, NoOrphanListener
    <2>4. WiredInv'
      <3>1. Untroubled' => \A m \in Names : MachineWired(m)
        BY <2>1 DEF SerialInv, WiredInv, Untroubled
      <3> QED
        BY <1>1, <1>3, <2>1, <3>1 DEF WiredInv, MachineWired, InFlight, Wired, Exists
    <2> QED
      BY <1>1, <1>3, <1>4, <2>1, <2>2, <2>3, <2>4 DEF SerialInv
  <1>8. ASSUME NEW n \in Names, Rehydrate(n) PROVE SerialInv'
    <2>1. /\ \A r \in Reqs : pc'[r] = "idle" /\ loc'[r] = Idle
          /\ edge = "booting" /\ n \in todo /\ todo' = todo \ {n} /\ UNCHANGED <<edge, loc>>
      BY <1>2, <1>8 DEF Rehydrate
    <2>2. PICK i : rec[n].idx = i
      OBVIOUS
    <2>3. Exists(n) /\ i \in Indices /\ i # 0 /\ heldBy[i] = n /\ rec[n].key \in KeysOf[n]
      BY <2>1, <2>2, Apart DEF SerialInv, TurnsInv, Indices
    <2>4. /\ \A j \in Indices \ {i} : listener'[j] = listener[j]
          /\ used'["abort"] = used["abort"]
          /\ used'["fault"] = 0 => /\ used["fault"] = 0 /\ route' = AddPeer(i, rec[n].key)
                                   /\ listener'[i] = EdgePorts
      <3>1. listener \in [Indices -> SUBSET EdgePorts]
        BY <1>0 DEF TypeOK
      <3>2. CASE /\ route' = AddPeer(i, rec[n].key) /\ NoFault
                 /\ listener' = [listener EXCEPT ![i] = EdgePorts]
        BY <2>3, <3>1, <3>2 DEF NoFault
      <3>3. CASE Fault /\ \E ports \in SUBSET EdgePorts : listener' = [listener EXCEPT ![i] = @ \cup ports]
        <4>1. used'["abort"] = used["abort"] /\ used'["fault"] # 0
          BY <1>0, <3>3 DEF Fault, Troubles
        <4> QED
          BY <3>1, <3>3, <4>1
      <3> QED
        BY <1>8, <2>2, <3>2, <3>3 DEF Rehydrate
    <2>5. TurnsInv'
      BY <1>0, <1>3, <2>1 DEF SerialInv, TurnsInv, Exists
    <2>6. ListenerInv'
      <3>1. NoOrphanListener'
        BY <1>3, <2>1, <2>2, <2>4 DEF SerialInv, ListenerInv, NoOrphanListener
      <3> QED
        BY <1>1, <2>1, <3>1 DEF ListenerInv
    <2>7. WiredInv'
      <3>1. SUFFICES ASSUME Untroubled', NEW m \in Names PROVE MachineWired(m)'
        BY <1>1, <2>1 DEF WiredInv
      <3>2. /\ route' = AddPeer(i, rec[n].key) /\ listener'[i] = EdgePorts
            /\ MachineWired(m)
        BY <2>1, <2>4, <3>1 DEF Untroubled, SerialInv, WiredInv
      <3>3. CASE m = n
        <4>1. route'[rec[n].key] = i
          BY <2>3, <3>2, Apart DEF AddPeer
        <4> QED
          BY <1>3, <2>2, <3>2, <3>3, <4>1 DEF MachineWired, Wired
      <3>4. CASE m # n
        <4>1. SUFFICES ASSUME Private(m), m \notin todo', Exists(m)', listed'[m] > 0, InFlight(m)' = {}
                       PROVE  Wired(m)'
          BY DEF MachineWired
        <4>2. Exists(m) /\ Wired(m)
          BY <1>3, <2>1, <3>2, <3>4, <4>1 DEF MachineWired, Exists, InFlight
        <4>3. /\ rec[m].idx \in Indices /\ rec[m].idx # 0 /\ rec[m].key \in KeysOf[m]
              /\ heldBy[rec[m].idx] = m
          BY <4>2, Apart DEF Exists
        <4>4. rec[m].key \in Keys /\ rec[m].key # rec[n].key /\ rec[m].idx # i
          BY <2>3, <3>4, <4>1, <4>3, Apart
        <4>5. route[rec[m].key] # i
          BY <4>2, <4>4 DEF Wired
        <4>6. route'[rec[m].key] = route[rec[m].key]
          BY <3>2, <4>4, <4>5 DEF AddPeer
        <4> QED
          BY <1>3, <2>4, <4>2, <4>3, <4>4, <4>6 DEF Wired
      <3> QED
        BY <3>3, <3>4
    <2> QED
      BY <1>1, <1>3, <1>4, <2>1, <2>5, <2>6, <2>7 DEF SerialInv
  <1> QED
    BY <1>5, <1>6, <1>7, <1>8

\* Whoever starts, fails, crashes or boots: without overlap on a name the
\* invariant holds.
LEMMA SerialHolds == ASSUME Overlap = {} PROVE Spec => []SerialInv
  <1>1. ASSUME Init PROVE SerialInv
    <2>1. IInv /\ ~gaveBack
      <3>1. ~gaveBack
        BY <1>1, Zenon DEF Init
      <3> QED
        BY <1>1, <3>1, InitIInv
    <2>2. TurnsInv
      BY <1>1 DEF Init, TurnsInv, Idle
    <2>3. KnowsInv
      BY <1>1 DEF Init, KnowsInv, Knows, Absent, Present, Exists, NoRecord
    <2>4. ListenerInv
      BY <1>1 DEF Init, ListenerInv, Unbound, NoOrphanListener
    <2>5. WiredInv
      BY <1>1 DEF Init, WiredInv, Untroubled
    <2> QED
      BY <2>1, <2>2, <2>3, <2>4, <2>5 DEF SerialInv
  <1>2. ASSUME SerialInv, [Next]_vars PROVE SerialInv'
    <2>1. IInv'
      BY <1>2, NextIInv DEF SerialInv
    <2>2. CASE UNCHANGED vars
      BY <1>2, <2>1, <2>2
      DEF SerialInv, TurnsInv, KnowsInv, Knows, ListenerInv, Unbound, NoOrphanListener, WiredInv,
          Untroubled, MachineWired, HandlerWired, InFlight, Wired, Exists, vars
    <2> QED
      BY <1>2, <2>1, <2>2, StepSerial, StartSerial, AbortSerial, BootSerial DEF Next, DeleteUnknown
  <1> QED
    BY <1>1, <1>2, PTL DEF Spec

\* delete takes the store entry last and rollback_allocation unwires after it:
\* no public listener is left without a record or a handler about to unwire
\* it, whatever fails or crashes, unless a handler was cut off.
THEOREM ListenersOwned == ASSUME Overlap = {} PROVE Spec => []NoOrphanListener
  <1>1. SerialInv => NoOrphanListener
    BY DEF SerialInv, ListenerInv
  <1> QED
    BY <1>1, SerialHolds, PTL

\* rehydrate, allocate_machine and its key rotation: an indexed machine that
\* no handler works on, and whose keys are presented for it alone, is routed
\* and listening whenever the edge serves, wherever earlier crashes struck.
THEOREM MachinesWired == ASSUME Overlap = {} PROVE Spec => []IndexedIsWired
  <1>1. SerialInv => IndexedIsWired
    <2> SUFFICES ASSUME SerialInv, edge = "up", used["fault"] = 0, used["abort"] = 0,
                        NEW n \in Names, Private(n), Exists(n), listed[n] > 0, InFlight(n) = {}
                 PROVE  Wired(n)
      BY DEF IndexedIsWired
    <2>1. n \notin todo /\ MachineWired(n)
      BY DEF SerialInv, TurnsInv, WiredInv, Untroubled
    <2> QED
      BY <2>1 DEF MachineWired
  <1> QED
    BY <1>1, SerialHolds, PTL

-----------------------------------------------------------------------------
(***************************************************************************)
(* Provisioning implements the registry: one step of a handler is one step *)
(* of the table or none.                                                   *)
(***************************************************************************)

\* A handler that is about to write a record has an index.
CarriesInv ==
    \A r \in Reqs : pc[r] \in {"claim", "unpeer", "repeer", "persist"} => loc[r].idx # 0

\* Count puts an index above 0 into the locals, and a rotation starts from a
\* record that has one.
LEMMA CarriesHolds == Spec => []CarriesInv
  <1>1. Init => CarriesInv
    BY DEF Init, CarriesInv
  <1>2. ASSUME IInv, CarriesInv, [Next]_vars PROVE CarriesInv'
    <2>0. loc \in [Reqs -> Locals] /\ pc \in [Reqs -> Points]
      BY <1>2 DEF IInv, TypeOK
    <2>1. ASSUME NEW r \in Reqs, Step(r) PROVE CarriesInv'
      <3>1. CASE Count(r)
        <4>1. CASE Return(r)
          BY <1>2, <2>0, <4>1 DEF CarriesInv, Return
        <4>2. CASE /\ CounterValue + 1 \in Indices
                   /\ pc' = [pc EXCEPT ![r] = "claim"]
                   /\ loc' = [loc EXCEPT ![r].idx = CounterValue + 1]
          BY <1>2, <2>0, <4>2 DEF CarriesInv, Indices, Locals
        <4> QED
          BY <3>1, <4>1, <4>2 DEF Count
      <3>2. CASE WireForward(r) /\ UNCHANGED pc
        <4>1. loc' = [loc EXCEPT ![r].port = 443] \/ UNCHANGED loc
          BY <3>2 DEF WireForward, Goto
        <4> QED
          BY <1>2, <2>0, <3>2, <4>1 DEF CarriesInv, Locals
      <3>3. CASE Return(r)
        BY <1>2, <2>0, <3>3 DEF CarriesInv, Return
      <3>4. CASE \E p \in {"giveback", "push", "wire", "forward", "dns", "rbDel", "rbLrem",
                           "rbUnwire", "undns", "del", "lrem"} : Goto(r, p)
        BY <1>2, <2>0, <3>4 DEF CarriesInv, Goto
      <3>5. CASE (Goto(r, "repeer") /\ pc[r] = "unpeer") \/ (Goto(r, "persist") /\ pc[r] = "repeer")
        BY <1>2, <2>0, <3>5 DEF CarriesInv, Goto
      <3> QED
        BY <2>1, <3>1, <3>2, <3>3, <3>4, <3>5
        DEF Step, EnsurePeer, RemoveOldPeer, AddNewPeer, PersistKey, Claim, GiveBack, PushIndex,
            WirePeer, WireForward, UpsertDns, RollbackRecord, RollbackIndex, RollbackWiring,
            DeleteWiring, DeleteDns, DeleteRecord, DeleteIndex
    <2>2. ASSUME NEW r \in Reqs, Start(r) PROVE CarriesInv'
      <3>1. \A q \in Reqs \ {r} : pc'[q] = pc[q] /\ loc'[q] = loc[q]
        BY <2>0, <2>2 DEF Start, BeginAlloc, BeginDelete
      <3>2. ASSUME NEW n \in Names, NEW k \in Keys, BeginAlloc(r, n, k)
            PROVE  pc'[r] \in {"claim", "unpeer", "repeer", "persist"} => loc'[r].idx # 0
        <4>1. pc'[r] \in {"count", "ensure"} \/ (pc'[r] = "unpeer" /\ Exists(n))
          BY <2>0, <3>2 DEF BeginAlloc
        <4>2. loc'[r].idx = rec[n].idx
          BY <2>0, <3>2 DEF BeginAlloc
        <4> QED
          BY <4>1, <4>2 DEF Exists
      <3>3. ASSUME NEW n \in Names, BeginDelete(r, n) PROVE pc'[r] = "unwire"
        BY <2>0, <3>3 DEF BeginDelete
      <3> QED
        BY <1>2, <2>2, <3>1, <3>2, <3>3 DEF Start, CarriesInv
    <2>3. ASSUME NEW r \in Reqs, Abort(r) PROVE CarriesInv'
      BY <1>2, <2>0, <2>3 DEF Abort, Return, CarriesInv
    <2>4. CASE Crash
      BY <2>4 DEF Crash, CarriesInv
    <2>5. CASE UNCHANGED <<pc, loc>>
      BY <1>2, <2>5 DEF CarriesInv
    <2> QED
      BY <1>2, <2>1, <2>2, <2>3, <2>4, <2>5 DEF Next, DeleteUnknown, Rehydrate, Boot, Serve, vars
  <1> QED
    BY <1>1, <1>2, InvariantHolds, PTL DEF Spec

\* What makes the steps of a handler steps of the registry: indices stay with
\* their names, a record is written with one, and without overlap a handler
\* knows its machine.
RefineInv == IInv /\ CarriesInv /\ (Overlap = {} => ~gaveBack /\ KnowsInv)

\* A step of a handler is a step of the registry, or none.
LEMMA StepRefines ==
    ASSUME RefineInv, NEW r \in Reqs, Step(r), ~gaveBack
    PROVE  Table!Next \/ UNCHANGED <<rec, heldBy, gaveBack>>
  <1> USE DEF redis, wiring, process, history
  <1>0. PICK n, i, k : loc[r].name = n /\ loc[r].idx = i /\ loc[r].key = k
    OBVIOUS
  <1>1. /\ TypeOK /\ LocalsInv /\ HeldParts /\ CarriesInv
        /\ rec \in [Names -> Machine] /\ heldBy \in [Indices -> Names \cup {NoName}]
        /\ i \in 0..MaxCounter /\ Table!Empty = NoRecord
    <2>1. HeldParts
      BY Zenon DEF RefineInv, IInv, HeldInv
    <2> QED
      BY <1>0, <2>1, LocalsType DEF RefineInv, IInv, TypeOK, Table!Empty, NoRecord
  <1>2. pc[r] # "idle" => n \in Names
    BY <1>0, <1>1 DEF LocalsInv
  <1>3. pc[r] \in AllocPoints => k \in Keys
    BY <1>0, <1>1, <1>2, KeysAssumption DEF LocalsInv, AllocPoints
  <1>4. i # 0 => i \in Indices /\ heldBy[i] = n
    BY <1>0, <1>1 DEF HeldParts, HeldLocals, Indices
  <1>5. MachineOf(r) = [key |-> k, idx |-> i]
    BY <1>0 DEF MachineOf
  <1>6. CASE Claim(r)
    <2>1. CASE UNCHANGED <<rec, heldBy, gaveBack>>
      BY <2>1
    <2>2. CASE ~Exists(n) /\ rec' = [rec EXCEPT ![n] = MachineOf(r)]
      <3>1. /\ pc[r] = "claim" /\ UNCHANGED <<heldBy, gaveBack>> /\ n \in Names /\ k \in Keys
            /\ i # 0 /\ rec[n].idx = 0
        BY <1>0, <1>1, <1>2, <1>3, <1>6, <2>2 DEF Claim, AllocPoints, CarriesInv, Exists
      <3>2. Table!Register(n, k, i)
        BY <1>4, <1>5, <2>2, <3>1 DEF Table!Register
      <3> QED
        BY <1>4, <3>1, <3>2 DEF Table!Next
    <2> QED
      BY <1>0, <1>6, <2>1, <2>2 DEF Claim
  <1>7. CASE PersistKey(r)
    <2>1. /\ pc[r] = "persist" /\ rec' = [rec EXCEPT ![n] = MachineOf(r)]
          /\ UNCHANGED <<heldBy, gaveBack>> /\ n \in Names /\ k \in Keys /\ i # 0
      BY <1>0, <1>1, <1>2, <1>3, <1>7 DEF PersistKey, AllocPoints, CarriesInv
    <2>2. Overlap = {} => rec[n].idx = i
      BY <1>0, <2>1 DEF RefineInv, KnowsInv, Knows, Present
    <2>3. Table!Rotate(n, k, i)
      BY <1>4, <1>5, <2>1, <2>2 DEF Table!Rotate
    <2> QED
      BY <1>4, <2>1, <2>3 DEF Table!Next
  <1>8. CASE RollbackRecord(r) \/ DeleteRecord(r)
    <2>1. n \in Names /\ rec' = [rec EXCEPT ![n] = NoRecord] /\ UNCHANGED <<heldBy, gaveBack>>
      BY <1>0, <1>2, <1>8 DEF RollbackRecord, DeleteRecord
    <2>2. Table!Release(n)
      BY <1>1, <2>1 DEF Table!Release
    <2> QED
      BY <2>1, <2>2 DEF Table!Next
  <1>9. CASE Count(r)
    <2>1. pc[r] = "count" /\ UNCHANGED <<rec, gaveBack>> /\ n \in Names
      BY <1>2, <1>9 DEF Count
    <2>2. CASE UNCHANGED heldBy
      BY <2>1, <2>2
    <2>3. CASE heldBy' = [heldBy EXCEPT ![CounterValue + 1] = n]
      <3> DEFINE x == CounterValue + 1
      <3>1. x \in Indices /\ counter < x
        BY <1>1, <1>9 DEF Count, CounterValue, TypeOK
      <3>2. heldBy[x] = NoName
        BY <1>1, <3>1 DEF HeldParts, HeldCounter, TypeOK, Indices
      <3>3. Table!Reserve(n, x)
        BY <2>1, <2>3, <3>2 DEF Table!Reserve
      <3> QED
        BY <2>1, <3>1, <3>3 DEF Table!Next
    <2> QED
      BY <1>0, <1>9, <2>2, <2>3 DEF Count
  <1>10. CASE GiveBack(r)
    <2>1. /\ pc[r] = "giveback" /\ UNCHANGED <<rec, heldBy>> /\ gaveBack' = TRUE
      BY <1>10 DEF GiveBack
    <2>2. Overlap # {}
      BY <2>1 DEF RefineInv, KnowsInv, Knows
    <2>3. Table!GiveBack
      BY <2>1, <2>2, Zenon DEF Table!GiveBack
    <2> QED
      BY <2>3 DEF Table!Next
  <1>11. CASE EnsurePeer(r) \/ RemoveOldPeer(r) \/ AddNewPeer(r) \/ PushIndex(r) \/ WirePeer(r)
              \/ WireForward(r) \/ UpsertDns(r)
    BY <1>11 DEF EnsurePeer, RemoveOldPeer, AddNewPeer, PushIndex, WirePeer, WireForward, UpsertDns
  <1>12. CASE RollbackIndex(r) \/ RollbackWiring(r) \/ DeleteWiring(r) \/ DeleteDns(r) \/ DeleteIndex(r)
    BY <1>12 DEF RollbackIndex, RollbackWiring, DeleteWiring, DeleteDns, DeleteIndex, Unwire
  <1> QED
    BY <1>6, <1>7, <1>8, <1>9, <1>10, <1>11, <1>12 DEF Step

\* The INCR, SETNX, SET and DEL of the handlers are the registry's steps, for
\* every overlap of operations and through every crash, failure and
\* cancellation: an index is reserved once and for one name, a record is only
\* written with an index reserved for its name, and nothing but the DECR of a
\* lost race gives one back.  Without overlap there is no such DECR and a
\* machine keeps its index for life.
THEOREM RefinesRegistry == Spec => ImplementsRegistry
  <1>1. Init => Table!Init
    <2>1. Init => gaveBack = FALSE
      BY Zenon DEF Init
    <2>2. Init => rec = [n \in Names |-> Table!Empty] /\ heldBy = [i \in Indices |-> NoName]
      BY DEF Init, Table!Empty, NoRecord
    <2> QED
      BY <2>1, <2>2, Zenon DEF Table!Init
  <1>2. Spec => []RefineInv
    <2>1. CASE Overlap = {}
      <3>1. IInv /\ CarriesInv /\ SerialInv => RefineInv
        BY Zenon DEF RefineInv, SerialInv
      <3> QED
        BY <2>1, <3>1, InvariantHolds, CarriesHolds, SerialHolds, PTL
    <2>2. CASE Overlap # {}
      <3>1. IInv /\ CarriesInv => RefineInv
        BY <2>2 DEF RefineInv
      <3> QED
        BY <3>1, InvariantHolds, CarriesHolds, PTL
    <2> QED
      BY <2>1, <2>2
  <1>3. RefineInv /\ [Next]_vars => [gaveBack \/ Table!Next]_<<rec, heldBy, gaveBack>>
    <2> SUFFICES ASSUME RefineInv, [Next]_vars, ~gaveBack
                 PROVE  Table!Next \/ UNCHANGED <<rec, heldBy, gaveBack>>
      BY Zenon
    <2>1. ASSUME NEW r \in Reqs, Step(r) PROVE Table!Next \/ UNCHANGED <<rec, heldBy, gaveBack>>
      BY <2>1, StepRefines
    <2>2. CASE \/ \E r \in Reqs : Start(r) \/ Abort(r)
               \/ \E n \in Names : DeleteUnknown(n) \/ Rehydrate(n)
               \/ Crash \/ Boot \/ Serve \/ UNCHANGED vars
      BY <2>2 DEF Start, BeginAlloc, BeginDelete, Abort, DeleteUnknown, Rehydrate, Crash, Boot,
                  Serve, vars, redis, history
    <2> QED
      BY <2>1, <2>2 DEF Next
  <1> QED
    BY <1>1, <1>2, <1>3, PTL DEF Spec, ImplementsRegistry, Table!Spec

=============================================================================
