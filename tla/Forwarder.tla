----------------------------- MODULE Forwarder -----------------------------
(***************************************************************************)
(* The L4 forwarder (crates/core/src/forwarder.rs, tcp.rs, retry.rs).      *)
(*                                                                         *)
(* A forward is one listening socket and the task that accepts on it.  The *)
(* box's static forwards are bound by run(), which also drains them when   *)
(* the process is told to stop; the edge adds and removes live forwards    *)
(* at any time.  For every forward the forwarder keeps a row for /status   *)
(* and, for a live one, a handle that remove_forward aborts it with.       *)
(*                                                                         *)
(* Tasks run on several threads.  One action is what a task does between   *)
(* two awaits, split further where it takes two locks or touches an atomic *)
(* counter twice.                                                          *)
(***************************************************************************)
EXTENDS Integers, FiniteSets

CONSTANTS
    Static,     \* forwards of the configuration file
    Live,       \* forwards added and removed at run time
    NoForward,  \* "no forward"
    Callers,    \* tasks that call add_forward and remove_forward
    Conns,      \* connections
    MaxFaults   \* bound on failed binds, and on failed accepts

ASSUME Disjoint == Static \cap Live = {} /\ NoForward \notin Static \cup Live
ASSUME Finite == IsFiniteSet(Conns)
ASSUME Bounds == MaxFaults \in Nat

Forwards == Static \cup Live

VARIABLES
    row,        \* State.forwards: each forward's row in Stats
    handles,    \* State.handles: the abort handle of each live forward, that of the
                \* task that runs or of one that has ended
    task,       \* each forward's serve task; its socket is open unless "none"
    runner,     \* where run() is
    unbound,    \* static forwards run() has still to bind
    signalled,  \* the process's shutdown signal
    liveStop,   \* the shutdown signal live forwards listen to
    caller,     \* what each caller is doing, and to which forward
    conn,       \* each connection's relay task, and its forward
    count,      \* State.tcp_connections
    faults,     \* bind and accept failures so far
    late        \* history: forwards whose handle was registered when its task
                \* had already ended

vars == <<row, handles, task, runner, unbound, signalled, liveStop, caller,
          conn, count, faults, late>>

Free == [st |-> "free", fwd |-> NoForward]
Returned == {"drained", "timedOut", "failed"}

\* Every variable has its type.
TypeOK ==
    /\ row \in [Forwards -> {"none", "bound", "error"}]
    /\ handles \in [Live -> {"none", "current", "ended"}]
    /\ task \in [Forwards -> {"none", "serving", "aborted"}]
    /\ runner \in {"idle", "binding", "serving", "draining"} \cup Returned
    /\ unbound \in SUBSET Static
    /\ signalled \in BOOLEAN
    /\ liveStop \in BOOLEAN
    /\ caller \in [Callers -> [st : {"free", "bind", "register", "late", "unrow"},
                               fwd : Live \cup {NoForward}]]
    /\ conn \in [Conns -> [st : {"free", "open", "ended", "sub"},
                           fwd : Forwards \cup {NoForward}]]
    /\ count \in Nat
    /\ faults \in [{"bind", "accept"} -> 0..MaxFaults]
    /\ late \subseteq Live

Init ==
    /\ row = [f \in Forwards |-> "none"]
    /\ handles = [f \in Live |-> "none"]
    /\ task = [f \in Forwards |-> "none"]
    /\ runner = "idle"
    /\ unbound = {}
    /\ signalled = FALSE
    /\ liveStop = FALSE
    /\ caller = [a \in Callers |-> Free]
    /\ conn = [c \in Conns |-> Free]
    /\ count = 0
    /\ faults = [x \in {"bind", "accept"} |-> 0]
    /\ late = {}

-----------------------------------------------------------------------------
\* A bind or an accept fails for a reason outside the forwarder.
Fault(x) ==
    /\ faults[x] < MaxFaults
    /\ faults' = [faults EXCEPT ![x] = @ + 1]

\* record_bound, and the serve task spawned with its socket.
Bound(f) ==
    /\ task[f] = "none"
    /\ task' = [task EXCEPT ![f] = "serving"]
    /\ row' = [row EXCEPT ![f] = "bound"]

\* record_bind_error, once retry_with_backoff gives up: the address is in use,
\* the bind failed for good, timed out, or was cancelled by the signal.
BindError(f) ==
    /\ row' = [row EXCEPT ![f] = "error"]
    /\ \/ task[f] # "none" /\ UNCHANGED faults
       \/ Fault("bind")

\* The serve task ends and its socket closes.  Its handle stays where it is: in the
\* table, or with the add_forward that has still to put it there.
Ended(f) ==
    /\ task' = [task EXCEPT ![f] = "none"]
    /\ handles' = [g \in Live |-> IF g = f /\ handles[g] = "current" THEN "ended" ELSE handles[g]]
    /\ caller' = [a \in Callers |-> IF caller[a] = [st |-> "register", fwd |-> f]
                                    THEN [st |-> "late", fwd |-> f] ELSE caller[a]]

\* The signal a forward's serve task listens to.
Stopping(f) == IF f \in Static THEN signalled ELSE liveStop

-----------------------------------------------------------------------------
(***************************************************************************)
(* run(): bind the static forwards in turn, serve, drain.                  *)
(***************************************************************************)
RunStart ==
    /\ runner = "idle"
    /\ runner' = "binding"
    /\ unbound' = Static
    /\ UNCHANGED <<row, handles, task, signalled, liveStop, caller, conn, count, faults, late>>

RunBind(f) ==
    /\ runner = "binding" /\ f \in unbound
    /\ Bound(f)
    /\ unbound' = unbound \ {f}
    /\ UNCHANGED <<handles, runner, signalled, liveStop, caller, conn, count, faults, late>>

\* One static forward that cannot be bound ends run().
RunBindError(f) ==
    /\ runner = "binding" /\ f \in unbound
    /\ BindError(f)
    /\ runner' = "failed"
    /\ UNCHANGED <<handles, task, unbound, signalled, liveStop, caller, conn, count, late>>

RunServe ==
    /\ runner = "binding" /\ unbound = {}
    /\ runner' = "serving"
    /\ UNCHANGED <<row, handles, task, unbound, signalled, liveStop, caller, conn,
                   count, faults, late>>

\* Mutant: the signal is not passed on.
RunStopStaticOnly ==
    /\ runner = "serving" /\ signalled
    /\ runner' = "draining"
    /\ UNCHANGED <<row, handles, task, unbound, signalled, liveStop, caller, conn,
                   count, faults, late>>

\* The channel has a receiver: a live serve task, or an add_forward that is
\* still binding.  Without one, watch::Sender::send leaves the value alone.
HasReceiver ==
    \/ \E f \in Live : task[f] # "none"
    \/ \E a \in Callers : caller[a].st = "bind"

\* The signal has fired: pass it on to the live forwards and start to drain.
RunStop ==
    /\ runner = "serving" /\ signalled
    /\ liveStop' = HasReceiver
    /\ runner' = "draining"
    /\ UNCHANGED <<row, handles, task, unbound, signalled, caller, conn, count, faults, late>>

\* Mutant: the tracker knows the connections but not the serve tasks.
TrackedConns == {c \in Conns : conn[c].st # "free" /\ conn[c].fwd \in Static}

\* The tasks run()'s TaskTracker counts: the serve tasks of the static
\* forwards and the relay tasks they spawned.
Tracked ==
    {f \in Static : task[f] # "none"}
    \cup {c \in Conns : conn[c].st # "free" /\ conn[c].fwd \in Static}

Drained ==
    /\ runner = "draining" /\ Tracked = {}
    /\ runner' = "drained"
    /\ UNCHANGED <<row, handles, task, unbound, signalled, liveStop, caller, conn,
                   count, faults, late>>

\* Mutant: wait for the tracker without a timeout.
DrainForever == FALSE /\ UNCHANGED vars

DrainTimeout ==
    /\ runner = "draining"
    /\ runner' = "timedOut"
    /\ UNCHANGED <<row, handles, task, unbound, signalled, liveStop, caller, conn,
                   count, faults, late>>

-----------------------------------------------------------------------------
(***************************************************************************)
(* add_forward and remove_forward.                                         *)
(***************************************************************************)
\* A forward that has a handle is already running: nothing to do.
AddForward(a, f) ==
    /\ caller[a] = Free
    /\ handles[f] = "none"
    /\ caller' = [caller EXCEPT ![a] = [st |-> "bind", fwd |-> f]]
    /\ UNCHANGED <<row, handles, task, runner, unbound, signalled, liveStop, conn,
                   count, faults, late>>

\* The bind succeeded: record the row and spawn the serve task ...
AddBind(a) ==
    /\ caller[a].st = "bind"
    /\ Bound(caller[a].fwd)
    /\ caller' = [caller EXCEPT ![a].st = "register"]
    /\ UNCHANGED <<handles, runner, unbound, signalled, liveStop, conn, count, faults, late>>

\* Mutant: the handle of the spawned task is not registered.
NoHandle(a) ==
    /\ caller[a].st \in {"register", "late"}
    /\ caller' = [caller EXCEPT ![a] = Free]
    /\ UNCHANGED <<row, handles, task, runner, unbound, signalled, liveStop, conn,
                   count, faults, late>>

\* ... and, under another lock, register its handle over whatever is there.
InsertHandle(a) ==
    LET f == caller[a].fwd
    IN  /\ \/ /\ caller[a].st = "register"
              /\ handles' = [handles EXCEPT ![f] = "current"] /\ UNCHANGED late
           \/ /\ caller[a].st = "late"
              /\ handles' = [handles EXCEPT ![f] = "ended"] /\ late' = late \cup {f}
        /\ caller' = [caller EXCEPT ![a] = Free]
        /\ UNCHANGED <<row, task, runner, unbound, signalled, liveStop, conn, count, faults>>

AddBindError(a) ==
    /\ caller[a].st = "bind"
    /\ BindError(caller[a].fwd)
    /\ caller' = [caller EXCEPT ![a] = Free]
    /\ UNCHANGED <<handles, task, runner, unbound, signalled, liveStop, conn, count, late>>

\* remove_forward, first lock: take the handle and abort its task, which does
\* nothing to another one.  Without a handle there is nothing to do.
RemoveForward(a, f) ==
    /\ caller[a] = Free
    /\ handles[f] # "none"
    /\ handles' = [handles EXCEPT ![f] = "none"]
    /\ task' = [task EXCEPT ![f] = IF @ = "serving" /\ handles[f] = "current" THEN "aborted" ELSE @]
    /\ caller' = [caller EXCEPT ![a] = [st |-> "unrow", fwd |-> f]]
    /\ UNCHANGED <<row, runner, unbound, signalled, liveStop, conn, count, faults, late>>

\* Mutant: the row survives the forward.
RemoveRowKept(a) ==
    /\ caller[a].st = "unrow"
    /\ caller' = [caller EXCEPT ![a] = Free]
    /\ UNCHANGED <<row, handles, task, runner, unbound, signalled, liveStop, conn,
                   count, faults, late>>

\* remove_forward, second lock: drop the row.
RemoveRow(a) ==
    /\ caller[a].st = "unrow"
    /\ row' = [row EXCEPT ![caller[a].fwd] = "none"]
    /\ caller' = [caller EXCEPT ![a] = Free]
    /\ UNCHANGED <<handles, task, runner, unbound, signalled, liveStop, conn, count,
                   faults, late>>

-----------------------------------------------------------------------------
(***************************************************************************)
(* serve_tcp and the relay tasks.                                          *)
(***************************************************************************)

\* Accept a connection, count it and spawn its relay.  A task that is being
\* aborted on another thread may finish one more round.
Accept(f, c) ==
    /\ task[f] # "none"
    /\ conn[c].st = "free"
    /\ count' = count + 1
    /\ conn' = [conn EXCEPT ![c] = [st |-> "open", fwd |-> f]]
    /\ UNCHANGED <<row, handles, task, runner, unbound, signalled, liveStop, caller,
                   faults, late>>

\* accept() failed: the loop returns, the row and the handle stay.
AcceptError(f) ==
    /\ task[f] = "serving"
    /\ Fault("accept")
    /\ Ended(f)
    /\ UNCHANGED <<row, runner, unbound, signalled, liveStop, conn, count, late>>

\* The signal fired, or the abort took effect.
ServeStop(f) ==
    /\ task[f] = "aborted" \/ (task[f] = "serving" /\ Stopping(f))
    /\ Ended(f)
    /\ UNCHANGED <<row, runner, unbound, signalled, liveStop, conn, count, faults, late>>

\* One direction of the relay closed, or the dial failed.
ConnEnd(c) ==
    /\ conn[c].st = "open"
    /\ conn' = [conn EXCEPT ![c].st = "ended"]
    /\ UNCHANGED <<row, handles, task, runner, unbound, signalled, liveStop, caller,
                   count, faults, late>>

\* Mutant: a decrement that finds one connection left leaves it.
DecLoadOffByOne(c) ==
    /\ conn[c].st = "ended"
    /\ conn' = [conn EXCEPT ![c] = IF count > 1 THEN [@ EXCEPT !.st = "sub"] ELSE Free]
    /\ UNCHANGED <<row, handles, task, runner, unbound, signalled, liveStop, caller,
                   count, faults, late>>

\* dec_tcp_connections: load the counter ...
DecLoad(c) ==
    /\ conn[c].st = "ended"
    /\ conn' = [conn EXCEPT ![c] = IF count > 0 THEN [@ EXCEPT !.st = "sub"] ELSE Free]
    /\ UNCHANGED <<row, handles, task, runner, unbound, signalled, liveStop, caller,
                   count, faults, late>>

\* ... and subtract one if it was positive then.
DecSub(c) ==
    /\ conn[c].st = "sub"
    /\ count' = count - 1
    /\ conn' = [conn EXCEPT ![c] = Free]
    /\ UNCHANGED <<row, handles, task, runner, unbound, signalled, liveStop, caller,
                   faults, late>>

\* SIGINT or SIGTERM.
Signal ==
    /\ ~signalled
    /\ signalled' = TRUE
    /\ UNCHANGED <<row, handles, task, runner, unbound, liveStop, caller, conn, count,
                   faults, late>>

-----------------------------------------------------------------------------
Next ==
    \/ RunStart \/ RunServe \/ RunStop \/ Drained \/ DrainTimeout
    \/ \E f \in Static : RunBind(f) \/ RunBindError(f)
    \/ \E a \in Callers, f \in Live : AddForward(a, f) \/ RemoveForward(a, f)
    \/ \E a \in Callers : AddBind(a) \/ InsertHandle(a) \/ AddBindError(a)
                         \/ RemoveRow(a)
    \/ \E f \in Forwards : AcceptError(f) \/ ServeStop(f)
    \/ \E f \in Forwards, c \in Conns : Accept(f, c)
    \/ \E c \in Conns : ConnEnd(c) \/ DecLoad(c) \/ DecSub(c)
    \/ Signal

Spec == Init /\ [][Next]_vars

\* run() goes on when it can, its binds end within bind_timeout and its drain
\* within shutdown_timeout.  Nothing makes a peer close its connection.
Fairness ==
    /\ WF_vars(RunServe) /\ WF_vars(RunStop) /\ WF_vars(DrainTimeout)
    /\ \A f \in Static : WF_vars(RunBind(f) \/ RunBindError(f))
    /\ \A f \in Forwards : WF_vars(ServeStop(f))

FairSpec == Spec /\ Fairness

-----------------------------------------------------------------------------
(***************************************************************************)
(* Properties.                                                             *)
(***************************************************************************)

\* A run() that reports "forwarder drained" leaves nothing of the static
\* forwards behind: no socket, no relay, and none can start any more.
DrainedIsQuiet ==
    runner = "drained" =>
        /\ \A f \in Static : task[f] = "none"
        /\ \A c \in Conns : conn[c].st # "free" => conn[c].fwd \in Live

\* The connection counter of /status is the number of relays that have not
\* been taken off it yet, although it is loaded and decremented in two steps:
\* it neither leaks nor goes below zero.
CountsRelays == count = Cardinality({c \in Conns : conn[c].st # "free"})

\* As long as no accept has failed, a row says "bound" only while its
\* listener is up, is being stopped, or its removal is under way.
BoundIsListening ==
    faults["accept"] = 0 =>
        \A f \in Forwards : row[f] = "bound" =>
            \/ task[f] = "serving"
            \/ Stopping(f)
            \/ \E a \in Callers : caller[a] = [st |-> "unrow", fwd |-> f]

\* remove_forward can reach every live listener: once the add_forward that
\* started it has returned, the table has its own handle, unless some add's
\* listener failed before that add had registered its handle.  (Such a handle may
\* land on that of the listener another add has started since, and remove_forward
\* then aborts the task that has ended and leaves the one that serves.)
ServingIsRemovable ==
    \A f \in Live \ late : task[f] = "serving" =>
        \/ handles[f] = "current"
        \/ \E a \in Callers : caller[a] = [st |-> "register", fwd |-> f]

\* However adds and removes of one forward overlap, and although rows and
\* handles are under different locks: what /status shows as bound is up until an
\* accept fails, and what is up can be removed until a handle comes too late.
TableIsTrue == BoundIsListening /\ ServingIsRemovable

\* Once the process is told to stop, run() returns, whatever connections are
\* still open and whatever static forward it was still binding.
ShutdownReturns == signalled /\ runner # "idle" ~> runner \in Returned

\* A live forward that is up when the process is told to stop closes its
\* listener, although its task listens to another channel than run()'s own,
\* and although that channel drops a signal sent while it has no receiver.
LiveForwardsStop ==
    \A f \in Live :
        signalled /\ runner = "serving" /\ task[f] = "serving" ~> task[f] = "none"

\* The stop reaches everything that is up: run() returns and the live
\* forwards close.
Stops == ShutdownReturns /\ LiveForwardsStop

=============================================================================
