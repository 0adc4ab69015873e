-------------------------- MODULE ForwarderProofs --------------------------
(***************************************************************************)
(* Proofs about Forwarder, for any static and live forwards, callers and   *)
(* connections, and any number of failed binds and accepts; and about      *)
(* UdpFlows, for any sources, flows and idle time.                         *)
(*                                                                         *)
(* What /status shows and what remove_forward can reach are about rows,    *)
(* handles and sockets that change under different locks.  The invariant   *)
(* adds what the callers in between know (which forward they work on, and  *)
(* that it is a live one) and that the live forwards' signal, once sent,   *)
(* is never taken back.                                                    *)
(***************************************************************************)
EXTENDS Forwarder, UdpFlows, FiniteSetTheorems, TLAPS

\* The relays the counter counts.
Relays == {c \in Conns : conn[c].st # "free"}

\* A caller in the middle of an add or a remove works on a live forward.
CallerInv == \A a \in Callers : caller[a].st # "free" => caller[a].fwd \in Live

\* Only run() signals the live forwards, when it starts to drain.
SignalInv == liveStop => runner \in {"draining"} \cup Returned

\* A relay was spawned by some forward.
ConnInv == \A c \in Conns : conn[c].st # "free" => conn[c].fwd \in Forwards

IInv ==
  TypeOK /\ CallerInv /\ ConnInv /\ SignalInv /\ CountsRelays /\ DrainedIsQuiet /\ TableIsTrue

-----------------------------------------------------------------------------
(***************************************************************************)
(* The counter.                                                            *)
(***************************************************************************)

\* There are finitely many relays.
LEMMA RelaysFinite == IsFiniteSet(Relays)
  BY Finite, FS_Subset DEF Relays

\* inc_tcp_connections before the spawn of a relay keeps the counter right.
LEMMA CountUp ==
  ASSUME CountsRelays, NEW c \in Conns, conn[c].st = "free", conn'[c].st # "free",
         \A d \in Conns \ {c} : conn'[d] = conn[d], count' = count + 1
  PROVE  CountsRelays'
  <1>1. Relays' = Relays \cup {c} /\ c \notin Relays
    BY DEF Relays
  <1>2. Cardinality(Relays') = Cardinality(Relays) + 1
    BY <1>1, RelaysFinite, FS_AddElement
  <1> QED
    BY <1>2 DEF CountsRelays, Relays

\* A relay that is still counted keeps the counter above zero: no decrement
\* finds it at zero, however loads and subtractions interleave.
LEMMA CountPositive ==
  ASSUME CountsRelays, NEW c \in Conns, conn[c].st # "free"
  PROVE  count \in Nat /\ count > 0
  <1>1. c \in Relays
    BY DEF Relays
  <1>2. Cardinality(Relays) \in Nat /\ Cardinality(Relays) # 0
    BY <1>1, RelaysFinite, FS_CardinalityType, FS_EmptySet
  <1> QED
    BY <1>2 DEF CountsRelays, Relays

\* dec_tcp_connections after a relay keeps the counter right.
LEMMA CountDown ==
  ASSUME CountsRelays, NEW c \in Conns, conn[c].st # "free", conn'[c].st = "free",
         \A d \in Conns \ {c} : conn'[d] = conn[d], count' = count - 1
  PROVE  CountsRelays'
  <1>1. Relays' = Relays \ {c} /\ c \in Relays
    BY DEF Relays
  <1>2. Cardinality(Relays') = Cardinality(Relays) - 1
    BY <1>1, RelaysFinite, FS_RemoveElement
  <1> QED
    BY <1>2 DEF CountsRelays, Relays

\* A step that starts and ends no relay leaves the counter right.
LEMMA CountSame ==
  ASSUME CountsRelays, count' = count,
         \A c \in Conns : conn'[c].st = "free" <=> conn[c].st = "free"
  PROVE  CountsRelays'
  <1>1. Relays' = Relays
    BY DEF Relays
  <1> QED
    BY <1>1 DEF CountsRelays, Relays

\* The steps of run(), and the signal.
Running == RunStart \/ RunServe \/ RunStop \/ Drained \/ DrainTimeout \/ Signal
RunningBind(f) == RunBind(f) \/ RunBindError(f)
\* The steps of add_forward and remove_forward.
Calling(a) == AddBind(a) \/ InsertHandle(a) \/ AddBindError(a) \/ RemoveRow(a)
Entering(a, f) == AddForward(a, f) \/ RemoveForward(a, f)
\* The steps of a serve task that touch no connection.
Closing(f) == AcceptError(f) \/ ServeStop(f)
\* The steps of a relay.
Ending(c) == ConnEnd(c) \/ DecLoad(c) \/ DecSub(c)

\* The steps of Next, in the groups above.
LEMMA Steps ==
  ASSUME [Next]_vars
  PROVE  \/ Running
         \/ \E f \in Static : RunningBind(f)
         \/ \E a \in Callers, f \in Live : Entering(a, f)
         \/ \E a \in Callers : Calling(a)
         \/ \E f \in Forwards : Closing(f)
         \/ \E f \in Forwards, c \in Conns : Accept(f, c)
         \/ \E c \in Conns : Ending(c)
         \/ UNCHANGED vars
  BY DEF Next, Running, RunningBind, Entering, Calling, Closing, Ending

\* No step gets the counter wrong.
LEMMA StepCount == ASSUME IInv, [Next]_vars PROVE CountsRelays'
  <1> USE DEF IInv
  <1>1. ASSUME NEW f \in Forwards, NEW c \in Conns, Accept(f, c) PROVE CountsRelays'
    <2>1. \A d \in Conns \ {c} : conn'[d] = conn[d]
      BY <1>1 DEF Accept, TypeOK
    <2>2. conn[c].st = "free" /\ conn'[c].st = "open" /\ count' = count + 1
      BY <1>1 DEF Accept, TypeOK
    <2> QED
      BY <2>1, <2>2, CountUp
  <1>2. ASSUME NEW c \in Conns, ConnEnd(c) PROVE CountsRelays'
    <2>1. \A d \in Conns : conn'[d].st = "free" <=> conn[d].st = "free"
      BY <1>2 DEF ConnEnd, TypeOK
    <2> QED
      BY <1>2, <2>1, CountSame DEF ConnEnd
  <1>3. ASSUME NEW c \in Conns, DecLoad(c) PROVE CountsRelays'
    <2>1. count > 0
      BY <1>3, CountPositive DEF DecLoad
    <2>2. \A d \in Conns : conn'[d].st = "free" <=> conn[d].st = "free"
      BY <1>3, <2>1 DEF DecLoad, TypeOK
    <2> QED
      BY <1>3, <2>2, CountSame DEF DecLoad
  <1>4. ASSUME NEW c \in Conns, DecSub(c) PROVE CountsRelays'
    <2>1. \A d \in Conns \ {c} : conn'[d] = conn[d]
      BY <1>4 DEF DecSub, TypeOK
    <2>2. conn[c].st = "sub" /\ conn'[c].st = "free" /\ count' = count - 1
      BY <1>4 DEF DecSub, TypeOK, Free
    <2> QED
      BY <2>1, <2>2, CountDown
  <1>5. CASE UNCHANGED <<conn, count>>
    BY <1>5, CountSame
  <1>6. CASE Running \/ UNCHANGED vars
    BY <1>5, <1>6 DEF Running, RunStart, RunServe, RunStop, Drained, DrainTimeout, Signal, vars
  <1>7. ASSUME NEW f \in Forwards, Closing(f) \/ RunningBind(f) PROVE CountsRelays'
    BY <1>5, <1>7 DEF Closing, RunningBind, AcceptError, ServeStop, RunBind, RunBindError
  <1>8. ASSUME NEW a \in Callers, Calling(a) PROVE CountsRelays'
    BY <1>5, <1>8 DEF Calling, AddBind, InsertHandle, AddBindError, RemoveRow
  <1>9. ASSUME NEW a \in Callers, NEW f \in Live, Entering(a, f) PROVE CountsRelays'
    BY <1>5, <1>9 DEF Entering, AddForward, RemoveForward
  <1> QED
    BY Steps, <1>1, <1>2, <1>3, <1>4, <1>6, <1>7, <1>8, <1>9 DEF Ending, Forwards

-----------------------------------------------------------------------------
(***************************************************************************)
(* Types, and what the callers and the signal know.                        *)
(***************************************************************************)

\* A failed bind or accept is counted within its bound.
LEMMA FaultType ==
  ASSUME TypeOK, NEW x \in {"bind", "accept"}, Fault(x)
  PROVE  faults' \in [{"bind", "accept"} -> 0..MaxFaults]
  BY Bounds DEF Fault, TypeOK

Knows == TypeOK /\ CallerInv /\ ConnInv /\ SignalInv

\* A handle, and the caller that has one, know when their task has ended.
LEMMA EndedKnows ==
  ASSUME TypeOK, CallerInv, NEW f \in Forwards, Ended(f)
  PROVE  /\ task' \in [Forwards -> {"none", "serving", "aborted"}]
         /\ handles' \in [Live -> {"none", "current", "ended"}]
         /\ caller' \in [Callers -> [st : {"free", "bind", "register", "late", "unrow"},
                                    fwd : Live \cup {NoForward}]]
         /\ CallerInv'
  <1> USE DEF TypeOK, CallerInv, Ended
  <1>1. \A g \in Live : handles'[g] \in {handles[g], "ended"}
    OBVIOUS
  <1>2. ASSUME NEW a \in Callers
        PROVE  /\ caller'[a] \in [st : {"free", "bind", "register", "late", "unrow"},
                                  fwd : Live \cup {NoForward}]
               /\ caller'[a].st # "free" => caller'[a].fwd \in Live
    <2>1. CASE caller[a] = [st |-> "register", fwd |-> f]
      <3>1. caller'[a] = [st |-> "late", fwd |-> f] /\ caller[a].fwd = f /\ caller[a].st = "register"
        BY <2>1
      <3>2. f \in Live
        BY <3>1
      <3> QED
        BY <3>1, <3>2
    <2>2. CASE caller[a] # [st |-> "register", fwd |-> f]
      BY <2>2
    <2> QED
      BY <2>1, <2>2
  <1>3. task' \in [Forwards -> {"none", "serving", "aborted"}]
    OBVIOUS
  <1>4. /\ handles' = [g \in Live |-> handles'[g]] /\ caller' = [a \in Callers |-> caller'[a]]
    OBVIOUS
  <1> QED
    BY <1>1, <1>2, <1>3, <1>4

\* A caller, a connection and the channels know what their next steps rely on.
LEMMA StepKnows == ASSUME IInv, [Next]_vars PROVE Knows'
  <1> USE Bounds DEF IInv, TypeOK, Knows, CallerInv, ConnInv, SignalInv, Forwards, Returned
  <1>1. CASE Running
    <2>1. CASE RunStop
      <3>1. HasReceiver \in BOOLEAN
        BY DEF HasReceiver
      <3> QED
        BY <2>1, <3>1 DEF RunStop
    <2>2. CASE RunStart \/ RunServe
      BY <2>2 DEF RunStart, RunServe
    <2>3. CASE Drained \/ DrainTimeout
      BY <2>3 DEF Drained, DrainTimeout
    <2>4. CASE Signal
      BY <2>4 DEF Signal
    <2> QED
      BY <1>1, <2>1, <2>2, <2>3, <2>4 DEF Running
  <1>2. ASSUME NEW f \in Static, RunBind(f) PROVE Knows'
    BY <1>2 DEF RunBind, Bound
  <1>3. ASSUME NEW f \in Static, RunBindError(f) PROVE Knows'
    <2>1. faults' \in [{"bind", "accept"} -> 0..MaxFaults]
      BY <1>3, FaultType DEF RunBindError, BindError
    <2> QED
      BY <1>3, <2>1 DEF RunBindError, BindError
  <1>4. ASSUME NEW a \in Callers, NEW f \in Live, AddForward(a, f) PROVE Knows'
    BY <1>4 DEF AddForward
  <1>5. ASSUME NEW a \in Callers, NEW f \in Live, RemoveForward(a, f) PROVE Knows'
    BY <1>5 DEF RemoveForward
  <1>6. ASSUME NEW a \in Callers, AddBind(a) PROVE Knows'
    BY <1>6 DEF AddBind, Bound
  <1>7. ASSUME NEW a \in Callers, InsertHandle(a) PROVE Knows'
    BY <1>7 DEF InsertHandle, Free
  <1>8. ASSUME NEW a \in Callers, AddBindError(a) PROVE Knows'
    <2>1. faults' \in [{"bind", "accept"} -> 0..MaxFaults]
      BY <1>8, FaultType DEF AddBindError, BindError
    <2> QED
      BY <1>8, <2>1 DEF AddBindError, BindError, Free
  <1>9. ASSUME NEW a \in Callers, RemoveRow(a) PROVE Knows'
    BY <1>9 DEF RemoveRow, Free
  <1>10. ASSUME NEW f \in Forwards, AcceptError(f) PROVE Knows'
    <2>1. faults' \in [{"bind", "accept"} -> 0..MaxFaults]
      BY <1>10, FaultType DEF AcceptError
    <2> QED
      BY <1>10, <2>1, EndedKnows DEF AcceptError
  <1>11. ASSUME NEW f \in Forwards, ServeStop(f) PROVE Knows'
    BY <1>11, EndedKnows DEF ServeStop
  <1>12. ASSUME NEW f \in Forwards, NEW c \in Conns, Accept(f, c) PROVE Knows'
    BY <1>12 DEF Accept
  <1>13. ASSUME NEW c \in Conns, ConnEnd(c) \/ DecLoad(c) PROVE Knows'
    BY <1>13 DEF ConnEnd, DecLoad, Free
  <1>14. ASSUME NEW c \in Conns, DecSub(c) PROVE Knows'
    <2>1. count > 0
      BY <1>14, CountPositive DEF DecSub
    <2> QED
      BY <1>14, <2>1 DEF DecSub, Free
  <1>15. CASE UNCHANGED vars
    BY <1>15 DEF vars
  <1> QED
    BY Steps, <1>1, <1>2, <1>3, <1>4, <1>5, <1>6, <1>7, <1>8, <1>9, <1>10, <1>11,
       <1>12, <1>13, <1>14, <1>15 DEF RunningBind, Entering, Calling, Closing, Ending

-----------------------------------------------------------------------------
(***************************************************************************)
(* A drain that completes.                                                 *)
(***************************************************************************)

\* Once drained, run() binds nothing, and only bound static forwards accept.
LEMMA StepDrained == ASSUME IInv, [Next]_vars PROVE DrainedIsQuiet'
  <1> USE Disjoint DEF IInv, TypeOK, CallerInv, ConnInv, DrainedIsQuiet, Forwards
  <1>1. CASE Drained
    <2>1. \A f \in Static : task[f] = "none"
      BY <1>1 DEF Drained, Tracked
    <2>2. ASSUME NEW c \in Conns, conn[c].st # "free" PROVE conn[c].fwd \in Live
      <3>1. conn[c].fwd \notin Static
        BY <1>1, <2>2 DEF Drained, Tracked
      <3> QED
        BY <2>2, <3>1
    <2> QED
      BY <1>1, <2>1, <2>2 DEF Drained
  <1>2. CASE RunStart \/ RunServe \/ RunStop \/ DrainTimeout \/ Signal \/ UNCHANGED vars
    BY <1>2 DEF RunStart, RunServe, RunStop, DrainTimeout, Signal, vars
  <1>3. ASSUME NEW f \in Static, RunningBind(f) PROVE DrainedIsQuiet'
    BY <1>3 DEF RunningBind, RunBind, RunBindError
  <1>4. ASSUME NEW a \in Callers, NEW f \in Live, Entering(a, f) PROVE DrainedIsQuiet'
    BY <1>4 DEF Entering, AddForward, RemoveForward
  <1>5. ASSUME NEW a \in Callers, Calling(a) PROVE DrainedIsQuiet'
    BY <1>5 DEF Calling, AddBind, Bound, InsertHandle, AddBindError, RemoveRow
  <1>6. ASSUME NEW f \in Forwards, Closing(f) PROVE DrainedIsQuiet'
    BY <1>6 DEF Closing, AcceptError, ServeStop, Ended
  <1>7. ASSUME NEW f \in Forwards, NEW c \in Conns, Accept(f, c) PROVE DrainedIsQuiet'
    BY <1>7 DEF Accept
  <1>8. ASSUME NEW c \in Conns, Ending(c) PROVE DrainedIsQuiet'
    <2>1. task' = task /\ runner' = runner
      BY <1>8 DEF Ending, ConnEnd, DecLoad, DecSub
    <2>2. \A d \in Conns : conn'[d].st # "free" => conn[d].st # "free" /\ conn'[d].fwd = conn[d].fwd
      BY <1>8 DEF Ending, ConnEnd, DecLoad, DecSub, Free
    <2> QED
      BY <2>1, <2>2
  <1> QED
    BY Steps, <1>1, <1>2, <1>3, <1>4, <1>5, <1>6, <1>7, <1>8 DEF Running

-----------------------------------------------------------------------------
(***************************************************************************)
(* Rows, handles and sockets.                                              *)
(***************************************************************************)

\* A caller is at state st of its work on forward f.
At(st, f) == \E a \in Callers : caller[a] = [st |-> st, fwd |-> f]

\* What a caller is doing to f goes on while another caller takes a step.
LEMMA AtKept ==
  ASSUME NEW a \in Callers, NEW st, NEW f, At(st, f),
         caller[a].st # st \/ caller[a].fwd # f,
         \A b \in Callers \ {a} : caller'[b] = caller[b]
  PROVE  At(st, f)'
  <1>1. PICK b \in Callers : caller[b] = [st |-> st, fwd |-> f]
    BY DEF At
  <1>2. caller[b].st = st /\ caller[b].fwd = f
    BY <1>1
  <1>3. b # a
    BY <1>2
  <1>4. caller'[b] = [st |-> st, fwd |-> f]
    BY <1>1, <1>3
  <1> QED
    BY <1>4 DEF At

\* A task that ends is the business of its own add only.
LEMMA AtEnded ==
  ASSUME NEW f, NEW st, NEW g, Ended(f), st # "register" \/ g # f, At(st, g)
  PROVE  At(st, g)'
  <1>1. PICK a \in Callers : caller[a] = [st |-> st, fwd |-> g]
    BY DEF At
  <1>2. [st |-> st, fwd |-> g] # [st |-> "register", fwd |-> f]
    <2>1. [st |-> st, fwd |-> g].st = st /\ [st |-> st, fwd |-> g].fwd = g
      OBVIOUS
    <2> QED
      BY <2>1
  <1>3. caller'[a] = caller[a]
    BY <1>1, <1>2 DEF Ended
  <1> QED
    BY <1>1, <1>3 DEF At

\* Each caller's step leaves the other callers where they are.
LEMMA OthersWait ==
  ASSUME TypeOK, NEW a \in Callers,
         Calling(a) \/ \E f \in Live : Entering(a, f)
  PROVE  \A b \in Callers \ {a} : caller'[b] = caller[b]
  BY DEF TypeOK, Calling, Entering, AddBind, InsertHandle, AddBindError, RemoveRow,
         AddForward, RemoveForward

\* BoundIsListening, for one forward.
RowTrue(f) ==
  row[f] = "bound" => task[f] = "serving" \/ Stopping(f) \/ At("unrow", f)

\* A row that says bound and was set by nobody, over a listener that stays
\* and a signal that is never taken back, is still true.
LEMMA RowKept ==
  ASSUME NEW f \in Forwards, RowTrue(f),
         row'[f] = "bound" => row[f] = "bound",
         task[f] = "serving" => task'[f] = "serving" \/ Stopping(f)',
         Stopping(f) => Stopping(f)',
         At("unrow", f) => At("unrow", f)'
  PROVE  RowTrue(f)'
  BY DEF RowTrue

\* A row says bound only of a forward that listens, until an accept fails.
LEMMA StepBound == ASSUME IInv, [Next]_vars PROVE BoundIsListening'
  <1> SUFFICES ASSUME faults'["accept"] = 0, NEW g \in Forwards PROVE RowTrue(g)'
    BY DEF BoundIsListening, RowTrue, At
  <1>0. TypeOK /\ CallerInv
    BY DEF IInv
  <1>1. faults["accept"] = 0 => RowTrue(g)
    BY DEF IInv, TableIsTrue, BoundIsListening, RowTrue, At
  <1>2. faults["accept"] = 0
    <2>1. faults["accept"] \in Nat
      BY <1>0, Bounds DEF TypeOK
    <2>2. \A x : Fault(x) => faults'["accept"] >= faults["accept"]
      BY <1>0, <2>1 DEF Fault, TypeOK
    <2>3. faults' = faults \/ \E x : Fault(x)
      <3>1. ASSUME NEW a \in Callers, Calling(a) PROVE faults' = faults \/ \E x : Fault(x)
        BY <3>1 DEF Calling, AddBind, InsertHandle, AddBindError, BindError, RemoveRow
      <3>2. ASSUME NEW f \in Forwards, RunningBind(f) \/ Closing(f)
            PROVE  faults' = faults \/ \E x : Fault(x)
        BY <3>2 DEF RunningBind, RunBind, RunBindError, BindError, Closing, AcceptError, ServeStop
      <3>3. ASSUME Running \/ UNCHANGED vars PROVE faults' = faults
        BY <3>3 DEF Running, RunStart, RunServe, RunStop, Drained, DrainTimeout, Signal, vars
      <3>4. ASSUME NEW a \in Callers, NEW f \in Live, Entering(a, f) PROVE faults' = faults
        BY <3>4 DEF Entering, AddForward, RemoveForward
      <3>5. ASSUME NEW c \in Conns, Ending(c) \/ \E f \in Forwards : Accept(f, c)
            PROVE  faults' = faults
        BY <3>5 DEF Ending, ConnEnd, DecLoad, DecSub, Accept
      <3> QED
        BY Steps, <3>1, <3>2, <3>3, <3>4, <3>5 DEF Forwards
    <2>4. faults'["accept"] >= faults["accept"]
      BY <2>1, <2>2, <2>3
    <2> QED
      BY <2>1, <2>4
  <1>3. RowTrue(g)
    BY <1>1, <1>2
  <1>4. ASSUME UNCHANGED caller PROVE At("unrow", g) => At("unrow", g)'
    BY <1>4 DEF At
  <1>5. CASE RunStop
    <2>1. ~liveStop
      BY <1>5 DEF RunStop, IInv, SignalInv, Returned
    <2> QED
      BY <1>3, <1>5, <1>4, <2>1, RowKept DEF RunStop, Stopping
  <1>6. CASE RunStart \/ RunServe \/ Drained \/ DrainTimeout \/ Signal \/ UNCHANGED vars
    BY <1>3, <1>6, <1>4, RowKept
       DEF RunStart, RunServe, Drained, DrainTimeout, Signal, vars, Stopping
  <1>7. ASSUME NEW f \in Static, RunningBind(f) PROVE RowTrue(g)'
    <2>1. CASE f = g
      BY <1>0, <1>7, <2>1 DEF RunningBind, RunBind, Bound, RunBindError, BindError, TypeOK, RowTrue
    <2>2. CASE f # g
      <3>1. row'[g] = row[g] /\ task'[g] = task[g]
        BY <1>0, <1>7, <2>2 DEF RunningBind, RunBind, Bound, RunBindError, BindError, TypeOK
      <3> QED
        BY <1>3, <1>7, <1>4, <3>1, RowKept DEF RunningBind, RunBind, RunBindError, Stopping
    <2> QED
      BY <2>1, <2>2
  <1>8. ASSUME NEW a \in Callers, NEW f \in Live, AddForward(a, f) PROVE RowTrue(g)'
    <2>1. caller[a].st # "unrow"
      BY <1>8 DEF AddForward, Free
    <2>2. At("unrow", g) => At("unrow", g)'
      BY <1>0, <1>8, <2>1, AtKept, OthersWait DEF Entering
    <2> QED
      BY <1>3, <1>8, <2>2, RowKept DEF AddForward, Stopping
  <1>9. ASSUME NEW a \in Callers, NEW f \in Live, RemoveForward(a, f) PROVE RowTrue(g)'
    <2>1. caller[a].st # "unrow" /\ caller'[a] = [st |-> "unrow", fwd |-> f]
      BY <1>0, <1>9 DEF RemoveForward, Free, TypeOK
    <2>2. At("unrow", g) => At("unrow", g)'
      BY <1>0, <1>9, <2>1, AtKept, OthersWait DEF Entering
    <2>3. CASE f = g
      BY <2>1, <2>3 DEF RowTrue, At
    <2>4. CASE f # g
      <3>1. row' = row /\ task'[g] = task[g]
        BY <1>0, <1>9, <2>4 DEF RemoveForward, TypeOK
      <3> QED
        BY <1>3, <1>9, <2>2, <3>1, RowKept DEF RemoveForward, Stopping
    <2> QED
      BY <2>3, <2>4
  <1>10. ASSUME NEW a \in Callers, AddBind(a) PROVE RowTrue(g)'
    <2>1. At("unrow", g) => At("unrow", g)'
      <3>1. caller[a].st # "unrow"
        BY <1>10 DEF AddBind
      <3> QED
        BY <1>0, <1>10, <3>1, AtKept, OthersWait DEF Calling
    <2>2. CASE caller[a].fwd = g
      BY <1>0, <1>10, <2>2 DEF AddBind, Bound, TypeOK, RowTrue
    <2>3. CASE caller[a].fwd # g
      <3>1. row'[g] = row[g] /\ task'[g] = task[g]
        BY <1>0, <1>10, <2>3 DEF AddBind, Bound, TypeOK
      <3> QED
        BY <1>3, <1>10, <2>1, <3>1, RowKept DEF AddBind, Stopping
    <2> QED
      BY <2>2, <2>3
  <1>11. ASSUME NEW a \in Callers, InsertHandle(a) PROVE RowTrue(g)'
    <2>1. caller[a].st # "unrow"
      BY <1>11 DEF InsertHandle
    <2>2. At("unrow", g) => At("unrow", g)'
      BY <1>0, <1>11, <2>1, AtKept, OthersWait DEF Calling
    <2> QED
      BY <1>3, <1>11, <2>2, RowKept DEF InsertHandle, Stopping
  <1>12. ASSUME NEW a \in Callers, AddBindError(a) PROVE RowTrue(g)'
    <2>1. caller[a].st # "unrow"
      BY <1>12 DEF AddBindError
    <2>2. At("unrow", g) => At("unrow", g)'
      BY <1>0, <1>12, <2>1, AtKept, OthersWait DEF Calling
    <2>3. row'[g] = "bound" => row[g] = "bound"
      BY <1>0, <1>12 DEF AddBindError, BindError, TypeOK
    <2> QED
      BY <1>3, <1>12, <2>2, <2>3, RowKept DEF AddBindError, Stopping
  <1>13. ASSUME NEW a \in Callers, RemoveRow(a) PROVE RowTrue(g)'
    <2>1. CASE caller[a].fwd = g
      BY <1>0, <1>13, <2>1 DEF RemoveRow, TypeOK, RowTrue
    <2>2. CASE caller[a].fwd # g
      <3>1. At("unrow", g) => At("unrow", g)'
        BY <1>0, <1>13, <2>2, AtKept, OthersWait DEF Calling
      <3>2. row'[g] = row[g]
        BY <1>0, <1>13, <2>2 DEF RemoveRow, TypeOK
      <3> QED
        BY <1>3, <1>13, <3>1, <3>2, RowKept DEF RemoveRow, Stopping
    <2> QED
      BY <2>1, <2>2
  <1>14. ASSUME NEW f \in Forwards, AcceptError(f) PROVE RowTrue(g)'
    <2>1. faults'["accept"] # 0
      BY <1>0, <1>14, <1>2 DEF AcceptError, Fault, TypeOK
    <2> QED
      BY <2>1
  <1>15. ASSUME NEW f \in Forwards, ServeStop(f) PROVE RowTrue(g)'
    <2>1. task[g] = "serving" => task'[g] = "serving" \/ Stopping(g)'
      BY <1>0, <1>15 DEF ServeStop, Ended, Stopping, TypeOK
    <2>2. At("unrow", g) => At("unrow", g)'
      BY <1>15, AtEnded DEF ServeStop
    <2> QED
      BY <1>3, <1>15, <2>1, <2>2, RowKept DEF ServeStop, Stopping
  <1>16. ASSUME NEW c \in Conns, Ending(c) \/ \E f \in Forwards : Accept(f, c) PROVE RowTrue(g)'
    BY <1>3, <1>16, <1>4, RowKept
       DEF Ending, ConnEnd, DecLoad, DecSub, Accept, Stopping
  <1> QED
    BY Steps, <1>5, <1>6, <1>7, <1>8, <1>9, <1>10, <1>11, <1>12, <1>13, <1>14, <1>15, <1>16
       DEF Running, Entering, Calling, Closing

\* ServingIsRemovable, for one forward.
Removable(f) ==
  task[f] = "serving" => f \in late \/ handles[f] = "current" \/ At("register", f)

\* A live listener has its handle, or is about to get it, until one comes late.
LEMMA StepRemovable == ASSUME IInv, [Next]_vars PROVE ServingIsRemovable'
  <1> SUFFICES ASSUME NEW g \in Live PROVE Removable(g)'
    BY DEF ServingIsRemovable, Removable, At
  <1>0. TypeOK /\ CallerInv /\ g \in Forwards
    BY DEF IInv, Forwards
  <1>1. Removable(g)
    BY DEF IInv, TableIsTrue, ServingIsRemovable, Removable, At
  <1>2. ASSUME UNCHANGED <<handles, caller, late>>, task'[g] = "serving" => task[g] = "serving"
        PROVE  Removable(g)'
    BY <1>1, <1>2 DEF Removable, At
  <1>3. CASE Running \/ UNCHANGED vars
    BY <1>2, <1>3 DEF Running, RunStart, RunServe, RunStop, Drained, DrainTimeout, Signal, vars
  <1>4. ASSUME NEW f \in Static, RunningBind(f) PROVE Removable(g)'
    <2>1. f # g
      BY Disjoint
    <2>2. task'[g] = task[g]
      BY <1>0, <1>4, <2>1 DEF RunningBind, RunBind, Bound, RunBindError, TypeOK
    <2> QED
      BY <1>2, <1>4, <2>2 DEF RunningBind, RunBind, RunBindError
  <1>5. ASSUME NEW f \in Forwards, Closing(f) PROVE Removable(g)'
    <2>1. Ended(f) /\ late' = late
      BY <1>5 DEF Closing, AcceptError, ServeStop
    <2>2. CASE f = g
      BY <1>0, <2>1, <2>2 DEF Ended, TypeOK, Removable
    <2>3. CASE f # g
      <3>1. task'[g] = task[g] /\ handles'[g] = handles[g]
        BY <1>0, <2>1, <2>3 DEF Ended, TypeOK
      <3>2. At("register", g) => At("register", g)'
        BY <2>1, <2>3, AtEnded
      <3> QED
        BY <1>1, <2>1, <3>1, <3>2 DEF Removable
    <2> QED
      BY <2>2, <2>3
  <1>6. ASSUME NEW c \in Conns, Ending(c) \/ \E f \in Forwards : Accept(f, c)
        PROVE  Removable(g)'
    BY <1>2, <1>6 DEF Ending, ConnEnd, DecLoad, DecSub, Accept
  <1>7. ASSUME NEW a \in Callers, NEW f \in Live, Entering(a, f) PROVE Removable(g)'
    <2>1. caller[a].st # "register"
      BY <1>7 DEF Entering, AddForward, RemoveForward, Free
    <2>2. At("register", g) => At("register", g)'
      BY <1>0, <1>7, <2>1, AtKept, OthersWait
    <2>3. /\ late' = late
          /\ task'[g] = "serving" =>
                task[g] = "serving" /\ (handles[g] = "current" => handles'[g] = "current")
      BY <1>0, <1>7 DEF Entering, AddForward, RemoveForward, TypeOK
    <2> QED
      BY <1>1, <2>2, <2>3 DEF Removable
  <1>8. ASSUME NEW a \in Callers, AddBind(a) PROVE Removable(g)'
    <2>1. CASE caller[a].fwd = g
      <3>1. caller'[a] = [st |-> "register", fwd |-> g]
        <4>1. caller'[a] = [caller[a] EXCEPT !.st = "register"]
          BY <1>0, <1>8 DEF AddBind, TypeOK
        <4>2. caller[a] \in [st : {"free", "bind", "register", "late", "unrow"},
                             fwd : Live \cup {NoForward}]
          BY <1>0 DEF TypeOK
        <4> QED
          BY <4>1, <4>2, <2>1
      <3> QED
        BY <3>1 DEF Removable, At
    <2>2. CASE caller[a].fwd # g
      <3>1. At("register", g) => At("register", g)'
        BY <1>0, <1>8, <2>2, AtKept, OthersWait DEF Calling
      <3>2. task'[g] = task[g] /\ handles' = handles /\ late' = late
        BY <1>0, <1>8, <2>2 DEF AddBind, Bound, TypeOK
      <3> QED
        BY <1>1, <3>1, <3>2 DEF Removable
    <2> QED
      BY <2>1, <2>2
  <1>9. ASSUME NEW a \in Callers, InsertHandle(a) PROVE Removable(g)'
    <2>1. CASE caller[a].fwd = g
      BY <1>0, <1>9, <2>1 DEF InsertHandle, Removable, TypeOK
    <2>2. CASE caller[a].fwd # g
      <3>1. At("register", g) => At("register", g)'
        BY <1>0, <1>9, <2>2, AtKept, OthersWait DEF Calling
      <3>2. task' = task /\ handles'[g] = handles[g] /\ (g \in late => g \in late')
        BY <1>0, <1>9, <2>2 DEF InsertHandle, TypeOK
      <3> QED
        BY <1>1, <3>1, <3>2 DEF Removable
    <2> QED
      BY <2>1, <2>2
  <1>10. ASSUME NEW a \in Callers, AddBindError(a) \/ RemoveRow(a) PROVE Removable(g)'
    <2>1. caller[a].st # "register"
      BY <1>10 DEF AddBindError, RemoveRow
    <2>2. At("register", g) => At("register", g)'
      BY <1>0, <1>10, <2>1, AtKept, OthersWait DEF Calling
    <2> QED
      BY <1>1, <1>10, <2>2 DEF AddBindError, RemoveRow, Removable
  <1> QED
    BY Steps, <1>3, <1>4, <1>5, <1>6, <1>7, <1>8, <1>9, <1>10 DEF Calling

-----------------------------------------------------------------------------
\* Nothing runs at first.
LEMMA InitIInv == Init => IInv
  <1> SUFFICES ASSUME Init PROVE IInv
    OBVIOUS
  <1> USE DEF Init, Free, Returned
  <1>1. TypeOK
    <2>1. caller \in [Callers -> [st : {"free", "bind", "register", "late", "unrow"},
                                 fwd : Live \cup {NoForward}]]
      OBVIOUS
    <2>2. conn \in [Conns -> [st : {"free", "open", "ended", "sub"},
                             fwd : Forwards \cup {NoForward}]]
      OBVIOUS
    <2>3. faults \in [{"bind", "accept"} -> 0..MaxFaults]
      BY Bounds
    <2> QED
      BY <2>1, <2>2, <2>3 DEF TypeOK
  <1>2. CallerInv /\ ConnInv /\ SignalInv
    BY DEF CallerInv, ConnInv, SignalInv
  <1>3. CountsRelays
    <2>1. Relays = {}
      BY DEF Relays
    <2> QED
      BY <2>1, FS_EmptySet DEF CountsRelays, Relays
  <1>4. DrainedIsQuiet /\ TableIsTrue
    BY DEF DrainedIsQuiet, TableIsTrue, BoundIsListening, ServingIsRemovable, Forwards
  <1> QED
    BY <1>1, <1>2, <1>3, <1>4 DEF IInv

\* The invariant is inductive.
LEMMA InvariantHolds == Spec => []IInv
  <1>1. IInv /\ [Next]_vars => IInv'
    BY StepCount, StepKnows, StepDrained, StepBound, StepRemovable
       DEF IInv, Knows, TableIsTrue
  <1> QED
    BY <1>1, InitIInv, PTL DEF Spec

\* Every reachable state of the forwarder is well typed; in particular the
\* connection counter is never negative.
THEOREM TypeCorrect == Spec => []TypeOK
  <1>1. IInv => TypeOK
    BY DEF IInv
  <1> QED
    BY <1>1, InvariantHolds, PTL

\* The connection counter is the number of relays, however the two halves of
\* dec_tcp_connections interleave.
THEOREM RelaysCounted == Spec => []CountsRelays
  <1>1. IInv => CountsRelays
    BY DEF IInv
  <1> QED
    BY <1>1, InvariantHolds, PTL

\* A run() that reports "drained" has left no static socket and no relay.
THEOREM DrainIsComplete == Spec => []DrainedIsQuiet
  <1>1. IInv => DrainedIsQuiet
    BY DEF IInv
  <1> QED
    BY <1>1, InvariantHolds, PTL

\* However adds and removes overlap, a row that says bound has a listener, and
\* remove_forward reaches every live listener until a handle comes too late.
THEOREM TableTrue == Spec => []TableIsTrue
  <1>1. IInv => TableIsTrue
    BY DEF IInv
  <1> QED
    BY <1>1, InvariantHolds, PTL

-----------------------------------------------------------------------------
(***************************************************************************)
(* The flows of a UDP forward.                                             *)
(*                                                                         *)
(* The map, the relays and the read loop meet at the insert: a relay runs  *)
(* before its flow is in the map.  The invariant says what holds while the *)
(* read loop is between the two.                                           *)
(***************************************************************************)


Gone == {"none", "load", "sub"}
Alive(f) == relay[f] \notin Gone

\* The read loop knows the source from a lookup until it has sent, and the
\* flow once there is one.
ServeInv ==
    /\ serve.at \in {"touch", "create", "insert", "send"} => serve.src \in Sources
    /\ serve.at \in {"touch", "insert", "send"} => serve.flow \in Flows

\* A relay knows its source.
FromInv == \A f \in Flows : relay[f] # "none" => from[f] \in Sources

\* A source whose datagram needs a new flow has none in the map.
NoEntryInv == serve.at \in {"create", "insert"} => flows[serve.src] = NoFlow

\* A relay that has not left has its entry, or gets it from the read loop next.
OwnInv ==
    \A f \in Flows : Alive(f) =>
        \/ flows[from[f]] = f
        \/ flows[from[f]] = NoFlow /\ serve.at = "insert" /\ serve.flow = f

\* A flow in the map is for the source it is found under.
EntryInv == \A s \in Sources : flows[s] # NoFlow => from[flows[s]] = s

\* Until its flow is in the map a new relay has nothing to leave for: no
\* answer can come, and no tick passes.
FreshInv ==
    serve.at = "insert" =>
        /\ from[serve.flow] = serve.src
        /\ serve.flow \notin sent
        /\ age[serve.flow] = 0
        /\ ~stop => relay[serve.flow] \in {"top", "wait"}
        /\ relay[serve.flow] = "wait" => sleep[serve.flow] = Idle

\* A flow in the map has a relay that has not left, unless the signal fired.
AliveInv ==
    ~stop => \A s \in Sources : flows[s] # NoFlow => Alive(flows[s])

\* A source is mapped to its own flow only.
MapInv == NoEntryInv /\ OwnInv /\ EntryInv

UdpIInv ==
    UdpTypeOK /\ ServeInv /\ FromInv /\ MapInv /\ FreshInv /\ AliveInv /\ CountsFlows

\* The relays the counter counts.
Counted == {f \in Flows : relay[f] # "none"}

-----------------------------------------------------------------------------
(***************************************************************************)
(* The counter.                                                            *)
(***************************************************************************)

\* There are finitely many relays.
LEMMA CountedFinite == IsFiniteSet(Counted)
  BY FlowsAssumption, FS_Subset DEF Counted

\* inc_udp_flows before the spawn of a relay keeps the counter right.
LEMMA FlowsUp ==
  ASSUME UdpTypeOK, CountsFlows, NEW f \in Flows, relay[f] = "none",
         relay'[f] # "none", \A g \in Flows \ {f} : relay'[g] = relay[g],
         udpCount' = udpCount + 1
  PROVE  CountsFlows'
  <1>1. Counted' = Counted \cup {f} /\ f \notin Counted
    BY DEF Counted
  <1>2. Cardinality(Counted') = Cardinality(Counted) + 1
    BY <1>1, CountedFinite, FS_AddElement
  <1> QED
    BY <1>2 DEF CountsFlows, Counted

\* A relay that is counted keeps the counter above zero: dec_udp_flows never
\* finds it at zero.
LEMMA FlowsPositive ==
  ASSUME UdpTypeOK, CountsFlows, NEW f \in Flows, relay[f] # "none"
  PROVE  udpCount > 0
  <1>1. f \in Counted
    BY DEF Counted
  <1>2. Cardinality(Counted) \in Nat /\ Cardinality(Counted) # 0
    BY <1>1, CountedFinite, FS_CardinalityType, FS_EmptySet
  <1> QED
    BY <1>2 DEF CountsFlows, Counted

\* dec_udp_flows after a relay keeps the counter right.
LEMMA FlowsDown ==
  ASSUME UdpTypeOK, CountsFlows, NEW f \in Flows, relay[f] # "none",
         relay'[f] = "none", \A g \in Flows \ {f} : relay'[g] = relay[g],
         udpCount' = udpCount - 1
  PROVE  CountsFlows'
  <1>1. Counted' = Counted \ {f} /\ f \in Counted
    BY DEF Counted
  <1>2. Cardinality(Counted') = Cardinality(Counted) - 1
    BY <1>1, CountedFinite, FS_RemoveElement
  <1> QED
    BY <1>2 DEF CountsFlows, Counted

\* A step that changes no relay to or from "none" changes nothing.
LEMMA FlowsSame ==
  ASSUME CountsFlows, udpCount' = udpCount,
         \A g \in Flows : relay'[g] = "none" <=> relay[g] = "none"
  PROVE  CountsFlows'
  <1>1. Counted' = Counted
    BY DEF Counted
  <1> QED
    BY <1>1 DEF CountsFlows, Counted

\* No step of the read loop or of a relay gets the counter wrong.
LEMMA UdpStepCount == ASSUME UdpIInv, [UdpNext]_udpVars PROVE CountsFlows'
  <1> USE DEF UdpIInv
  <1>1. CASE Resolve \/ RecvError \/ Touch \/ CreateError \/ Insert \/ Send
             \/ UdpServeStop \/ Abort \/ Tick \/ UdpSignal \/ UNCHANGED udpVars
    BY <1>1, FlowsSame DEF Resolve, RecvError, Touch, CreateError, Insert, Send,
       UdpServeStop, Abort, Tick, UdpSignal, udpVars
  <1>2. ASSUME NEW s \in Sources, Recv(s) PROVE CountsFlows'
    BY <1>2, FlowsSame DEF Recv
  <1>3. ASSUME NEW f \in Flows, Create(f) PROVE CountsFlows'
    <2>1. relay[f] = "none" /\ relay'[f] = "top" /\ udpCount' = udpCount + 1
      BY <1>3 DEF Create, Unused, UdpTypeOK
    <2>2. \A g \in Flows \ {f} : relay'[g] = relay[g]
      BY <1>3 DEF Create, UdpTypeOK
    <2> QED
      BY <2>1, <2>2, FlowsUp
  <1>4. ASSUME NEW f \in Flows, Relay(f) PROVE CountsFlows'
    <2>1. CASE DecUdpLoad(f)
      <3>1. udpCount > 0
        BY <2>1, FlowsPositive DEF DecUdpLoad, Goto
      <3>2. \A g \in Flows : relay'[g] = "none" <=> relay[g] = "none"
        BY <2>1, <3>1 DEF DecUdpLoad, Goto, UdpTypeOK
      <3> QED
        BY <2>1, <3>2, FlowsSame DEF DecUdpLoad, Goto
    <2>2. CASE DecUdpSub(f)
      <3>1. \A g \in Flows \ {f} : relay'[g] = relay[g]
        BY <2>2 DEF DecUdpSub, UdpTypeOK
      <3>2. relay[f] = "sub" /\ relay'[f] = "none" /\ udpCount' = udpCount - 1
        BY <2>2 DEF DecUdpSub, UdpTypeOK
      <3> QED
        BY <3>1, <3>2, FlowsDown
    <2>3. CASE ~DecUdpLoad(f) /\ ~DecUdpSub(f)
      <3>1. \A g \in Flows : relay'[g] = "none" <=> relay[g] = "none"
        BY <1>4, <2>3 DEF Relay, Wait, Answer, AnswerError, Write, WriteError,
           TouchBack, Expire, RelayStop, Remove, Goto, UdpTypeOK
      <3>2. udpCount' = udpCount
        BY <1>4, <2>3 DEF Relay, Wait, Answer, AnswerError, Write, WriteError,
           TouchBack, Expire, RelayStop, Remove, Goto
      <3> QED
        BY <3>1, <3>2, FlowsSame
    <2> QED
      BY <2>1, <2>2, <2>3
  <1> QED
    BY <1>1, <1>2, <1>3, <1>4 DEF UdpNext, Serve

-----------------------------------------------------------------------------
(***************************************************************************)
(* Types.                                                                  *)
(***************************************************************************)

\* Every step keeps the types, and what the read loop and the relays know.
LEMMA StepTypes == ASSUME UdpIInv, [UdpNext]_udpVars PROVE UdpTypeOK' /\ ServeInv' /\ FromInv'
  <1> USE IdleAssumption DEF UdpIInv, UdpTypeOK, ServeInv, FromInv, ServePlaces, RelayPlaces
  <1>1. CASE Resolve \/ RecvError \/ CreateError \/ UdpServeStop \/ Abort
    BY <1>1 DEF Resolve, RecvError, CreateError, UdpServeStop, Abort, ServeAt
  <1>2. CASE Touch \/ Insert \/ Send
    BY <1>2 DEF Touch, Insert, Send, ServeAt
  <1>3. ASSUME NEW s \in Sources, Recv(s) PROVE UdpTypeOK' /\ ServeInv' /\ FromInv'
    BY <1>3 DEF Recv
  <1>4. ASSUME NEW f \in Flows, Create(f) PROVE UdpTypeOK' /\ ServeInv' /\ FromInv'
    BY <1>4 DEF Create
  <1>5. ASSUME NEW f \in Flows, Wait(f) \/ TouchBack(f)
        PROVE  UdpTypeOK' /\ ServeInv' /\ FromInv'
    BY <1>5 DEF Wait, TouchBack
  <1>6. ASSUME NEW f \in Flows,
               \/ Answer(f) \/ AnswerError(f) \/ Write(f) \/ WriteError(f)
               \/ Expire(f) \/ RelayStop(f) \/ DecUdpLoad(f)
        PROVE  UdpTypeOK' /\ ServeInv' /\ FromInv'
    BY <1>6 DEF Answer, AnswerError, Write, WriteError, Expire, RelayStop, DecUdpLoad, Goto
  <1>7. ASSUME NEW f \in Flows, Remove(f) PROVE UdpTypeOK' /\ ServeInv' /\ FromInv'
    BY <1>7 DEF Remove
  <1>8. ASSUME NEW f \in Flows, DecUdpSub(f) PROVE UdpTypeOK' /\ ServeInv' /\ FromInv'
    <2>1. udpCount > 0
      BY <1>8, FlowsPositive DEF DecUdpSub
    <2> QED
      BY <1>8, <2>1 DEF DecUdpSub
  <1>9. CASE Tick
    BY <1>9 DEF Tick
  <1>10. CASE UdpSignal \/ UNCHANGED udpVars
    BY <1>10 DEF UdpSignal, udpVars
  <1> QED
    BY <1>1, <1>2, <1>3, <1>4, <1>5, <1>6, <1>7, <1>8, <1>9, <1>10
       DEF UdpNext, Serve, Relay

-----------------------------------------------------------------------------
(***************************************************************************)
(* The map.                                                                *)
(***************************************************************************)

\* Every step keeps the map right.  Only Recv, Create, Insert and Remove have
\* something to do with it; a relay that moves on without leaving, or that
\* leaves after Remove, does not.
LEMMA StepMap == ASSUME UdpIInv, [UdpNext]_udpVars PROVE MapInv'
  <1> USE Names DEF UdpIInv, UdpTypeOK, ServeInv, FromInv, MapInv, NoEntryInv, OwnInv,
                    EntryInv, Alive, Gone
  <1>1. CASE Resolve \/ RecvError \/ CreateError \/ UdpServeStop \/ Abort \/ Touch \/ Send
    BY <1>1 DEF Resolve, RecvError, CreateError, UdpServeStop, Abort, Touch, Send, ServeAt
  <1>2. ASSUME NEW s \in Sources, Recv(s) PROVE MapInv'
    BY <1>2 DEF Recv
  <1>3. ASSUME NEW f \in Flows, Create(f) PROVE MapInv'
    <2>1. NoEntryInv'
      BY <1>3 DEF Create
    <2>2. OwnInv'
      BY <1>3 DEF Create, Unused
    <2>3. EntryInv'
      BY <1>3 DEF Create, Unused
    <2> QED
      BY <2>1, <2>2, <2>3
  <1>4. CASE Insert
    <2>1. NoEntryInv'
      BY <1>4 DEF Insert
    <2>2. OwnInv'
      BY <1>4 DEF Insert, FreshInv
    <2>3. EntryInv'
      BY <1>4 DEF Insert, FreshInv
    <2> QED
      BY <2>1, <2>2, <2>3
  <1>5. ASSUME NEW f \in Flows, Remove(f) PROVE MapInv'
    <2>1. from[f] \in Sources /\ flows' = [flows EXCEPT ![from[f]] = NoFlow]
      BY <1>5 DEF Remove
    <2>2. NoEntryInv'
      BY <1>5, <2>1 DEF Remove
    <2>3. OwnInv'
      BY <1>5, <2>1 DEF Remove
    <2>4. EntryInv'
      BY <1>5, <2>1 DEF Remove
    <2> QED
      BY <2>2, <2>3, <2>4
  <1>6. ASSUME NEW f \in Flows, Wait(f) \/ TouchBack(f) PROVE MapInv'
    BY <1>6 DEF Wait, TouchBack
  <1>7. ASSUME NEW f \in Flows,
               \/ Answer(f) \/ AnswerError(f) \/ Write(f) \/ WriteError(f)
               \/ Expire(f) \/ RelayStop(f)
        PROVE  MapInv'
    BY <1>7 DEF Answer, AnswerError, Write, WriteError, Expire, RelayStop, Goto
  <1>8. ASSUME NEW f \in Flows, DecUdpLoad(f) \/ DecUdpSub(f) PROVE MapInv'
    BY <1>8 DEF DecUdpLoad, DecUdpSub, Goto
  <1>9. CASE Tick \/ UdpSignal \/ UNCHANGED udpVars
    BY <1>9 DEF Tick, UdpSignal, udpVars
  <1> QED
    BY <1>1, <1>2, <1>3, <1>4, <1>5, <1>6, <1>7, <1>8, <1>9 DEF UdpNext, Serve, Relay

-----------------------------------------------------------------------------
(***************************************************************************)
(* A flow in the map has a relay.                                          *)
(***************************************************************************)

\* Before its flow is in the map a new relay stays, unless the signal fires:
\* its sleep is the whole of Idle and no answer can come.
LEMMA StepFresh == ASSUME UdpIInv, [UdpNext]_udpVars PROVE FreshInv'
  <1> USE IdleAssumption DEF UdpIInv, UdpTypeOK, ServeInv, FreshInv
  <1>1. CASE Resolve \/ RecvError \/ CreateError \/ UdpServeStop \/ Abort \/ Touch
             \/ Send \/ Insert
    BY <1>1 DEF Resolve, RecvError, CreateError, UdpServeStop, Abort, Touch, Send,
       Insert, ServeAt
  <1>2. ASSUME NEW s \in Sources, Recv(s) PROVE FreshInv'
    BY <1>2 DEF Recv
  <1>3. ASSUME NEW f \in Flows, Create(f) PROVE FreshInv'
    BY <1>3 DEF Create
  <1>4. ASSUME NEW f \in Flows, Wait(f) \/ TouchBack(f) PROVE FreshInv'
    BY <1>4 DEF Wait, TouchBack
  <1>5. ASSUME NEW f \in Flows,
               \/ Answer(f) \/ AnswerError(f) \/ Write(f) \/ WriteError(f)
               \/ Expire(f) \/ RelayStop(f) \/ DecUdpLoad(f)
        PROVE  FreshInv'
    BY <1>5 DEF Answer, AnswerError, Write, WriteError, Expire, RelayStop, DecUdpLoad, Goto
  <1>6. ASSUME NEW f \in Flows, Remove(f) \/ DecUdpSub(f) PROVE FreshInv'
    BY <1>6 DEF Remove, DecUdpSub
  <1>7. CASE Tick
    BY <1>7 DEF Tick
  <1>8. CASE UdpSignal \/ UNCHANGED udpVars
    BY <1>8 DEF UdpSignal, udpVars
  <1> QED
    BY <1>1, <1>2, <1>3, <1>4, <1>5, <1>6, <1>7, <1>8 DEF UdpNext, Serve, Relay

\* A relay takes its flow out of the map before it is gone.
LEMMA StepAlive == ASSUME UdpIInv, [UdpNext]_udpVars PROVE AliveInv'
  <1> USE Names DEF UdpIInv, UdpTypeOK, ServeInv, AliveInv, Alive, Gone
  <1>1. CASE Resolve \/ RecvError \/ CreateError \/ UdpServeStop \/ Abort \/ Touch \/ Send
    BY <1>1 DEF Resolve, RecvError, CreateError, UdpServeStop, Abort, Touch, Send
  <1>2. ASSUME NEW s \in Sources, Recv(s) PROVE AliveInv'
    BY <1>2 DEF Recv
  <1>3. ASSUME NEW f \in Flows, Create(f) PROVE AliveInv'
    BY <1>3 DEF Create, Unused
  <1>4. CASE Insert
    BY <1>4 DEF Insert, FreshInv
  <1>5. ASSUME NEW f \in Flows, Remove(f) PROVE AliveInv'
    BY <1>5 DEF Remove, MapInv, EntryInv, FromInv
  <1>6. ASSUME NEW f \in Flows, Wait(f) \/ TouchBack(f) PROVE AliveInv'
    BY <1>6 DEF Wait, TouchBack
  <1>7. ASSUME NEW f \in Flows,
               \/ Answer(f) \/ AnswerError(f) \/ Write(f) \/ WriteError(f)
               \/ Expire(f) \/ RelayStop(f)
        PROVE  AliveInv'
    BY <1>7 DEF Answer, AnswerError, Write, WriteError, Expire, RelayStop, Goto
  <1>8. ASSUME NEW f \in Flows, DecUdpLoad(f) \/ DecUdpSub(f) PROVE AliveInv'
    BY <1>8 DEF DecUdpLoad, DecUdpSub, Goto
  <1>9. CASE Tick \/ UdpSignal \/ UNCHANGED udpVars
    BY <1>9 DEF Tick, UdpSignal, udpVars
  <1> QED
    BY <1>1, <1>2, <1>3, <1>4, <1>5, <1>6, <1>7, <1>8, <1>9 DEF UdpNext, Serve, Relay

-----------------------------------------------------------------------------
\* The invariant holds at the start ...
LEMMA UdpInitIInv == UdpInit => UdpIInv
  <1> SUFFICES ASSUME UdpInit PROVE UdpIInv
    OBVIOUS
  <1>1. serve \in [at : ServePlaces, src : Sources \cup {NoSource},
                  flow : Flows \cup {NoFlow}]
    BY DEF UdpInit, ServeAt, ServePlaces
  <1>2. stop \in BOOLEAN
    BY DEF UdpInit
  <1>3. UdpTypeOK /\ ServeInv /\ FromInv
    BY <1>1, <1>2, IdleAssumption DEF UdpInit, UdpTypeOK, ServeInv, FromInv, ServeAt, RelayPlaces
  <1>4. MapInv /\ FreshInv /\ AliveInv
    BY DEF UdpInit, MapInv, NoEntryInv, OwnInv, EntryInv, FreshInv, AliveInv, Alive,
       Gone, ServeAt
  <1>5. Counted = {}
    BY DEF UdpInit, Counted
  <1>6. CountsFlows
    BY <1>5, FS_EmptySet DEF UdpInit, CountsFlows, Counted
  <1> QED
    BY <1>3, <1>4, <1>6 DEF UdpIInv

\* ... and always.
LEMMA UdpInvariantHolds == UdpSpec => []UdpIInv
  <1>1. UdpIInv /\ [UdpNext]_udpVars => UdpIInv'
    BY StepTypes, StepMap, StepFresh, StepAlive, UdpStepCount DEF UdpIInv
  <1> QED
    BY <1>1, UdpInitIInv, PTL DEF UdpSpec

\* serve_udp and relay_udp_responses keep every variable in its type.
THEOREM UdpTypeCorrect == UdpSpec => []UdpTypeOK
  <1>1. UdpIInv => UdpTypeOK
    BY DEF UdpIInv
  <1> QED
    BY <1>1, UdpInvariantHolds, PTL

\* State.udp_flows is the number of relays, however the loads and
\* subtractions of dec_udp_flows interleave: it never goes below zero and the
\* guard against that never loses a decrement.
THEOREM FlowsCounted == UdpSpec => []CountsFlows
  <1>1. UdpIInv => CountsFlows
    BY DEF UdpIInv
  <1> QED
    BY <1>1, UdpInvariantHolds, PTL

\* A source the read loop finds in the map is served by a relay of its own,
\* although the relay is spawned before its flow is in the map.
THEOREM EntriesServed == UdpSpec => []EntryHasRelay
  <1>1. UdpIInv => EntryHasRelay
    BY DEF UdpIInv, UdpTypeOK, MapInv, EntryInv, AliveInv, Alive, Gone, EntryHasRelay
  <1> QED
    BY <1>1, UdpInvariantHolds, PTL

\* relay_udp_responses removes by source address, and still never the entry
\* of a newer flow.
THEOREM OwnEntries == UdpSpec => []RemovesOwnEntry
  <1>1. UdpIInv => RemovesOwnEntry
    BY DEF UdpIInv, MapInv, OwnInv, Alive, Gone, RemovesOwnEntry
  <1> QED
    BY <1>1, UdpInvariantHolds, PTL
=============================================================================
