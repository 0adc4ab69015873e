------------------------------ MODULE UdpFlows ------------------------------
(***************************************************************************)
(* One UDP forward (crates/core/src/udp.rs): the read loop serve_udp and   *)
(* the relay tasks it spawns.                                              *)
(*                                                                         *)
(* The read loop keeps a map from a source address to its flow, a socket   *)
(* connected to the destination.  A flow belongs to one relay task, which  *)
(* carries the answers back and takes the flow out of the map when it ends.*)
(* The map, a flow's time of last activity and the flow counter are shared *)
(* by tasks on several threads: one action is what a task does under one   *)
(* lock or between two awaits.                                             *)
(*                                                                         *)
(* Time is counted in ticks.  What is kept of a time of last activity is   *)
(* its age, and of a sleep the ticks it still lasts.                       *)
(***************************************************************************)
EXTENDS Integers, FiniteSets

CONSTANTS
    Sources,    \* source addresses
    Flows,      \* identities of flows, reused when nothing refers to one
    NoSource,   \* "no source"
    NoFlow,     \* "no flow"
    Idle        \* udp_flow_idle, in ticks

ASSUME Names == NoSource \notin Sources /\ NoFlow \notin Flows
ASSUME FlowsAssumption == IsFiniteSet(Flows)
ASSUME IdleAssumption == Idle \in Nat \ {0}

VARIABLES
    serve,      \* the read loop: where it is, the datagram's source, its flow
    flows,      \* the map from source to flow
    relay,      \* where each flow's relay task is; "none" if there is none
    from,       \* the source each flow is for
    age,        \* ticks since a flow's last activity, up to Idle
    sleep,      \* ticks the relay's sleep still lasts
    sent,       \* flows through which a datagram went to the destination
    udpCount,   \* State.udp_flows
    stop        \* the shutdown signal

udpVars == <<serve, flows, relay, from, age, sleep, sent, udpCount, stop>>

ServePlaces == {"resolve", "recv", "touch", "create", "insert", "send", "done"}
RelayPlaces == {"none", "top", "wait", "write", "touch", "expired", "remove",
                "load", "sub"}

Leaving == {"none", "expired", "remove", "load", "sub"}

ServeAt(place) == [at |-> place, src |-> NoSource, flow |-> NoFlow]

\* Every variable has its type.
UdpTypeOK ==
    /\ serve \in [at : ServePlaces, src : Sources \cup {NoSource},
                  flow : Flows \cup {NoFlow}]
    /\ flows \in [Sources -> Flows \cup {NoFlow}]
    /\ relay \in [Flows -> RelayPlaces]
    /\ from \in [Flows -> Sources \cup {NoSource}]
    /\ age \in [Flows -> 0..Idle]
    /\ sleep \in [Flows -> 0..Idle]
    /\ sent \in SUBSET Flows
    /\ udpCount \in Nat
    /\ stop \in BOOLEAN

UdpInit ==
    /\ serve = ServeAt("resolve")
    /\ flows = [s \in Sources |-> NoFlow]
    /\ relay = [f \in Flows |-> "none"]
    /\ from = [f \in Flows |-> NoSource]
    /\ age = [f \in Flows |-> 0]
    /\ sleep = [f \in Flows |-> 0]
    /\ sent = {}
    /\ udpCount = 0
    /\ stop = FALSE

-----------------------------------------------------------------------------
(***************************************************************************)
(* serve_udp.                                                              *)
(***************************************************************************)

\* lookup_host: without an address the task returns.
Resolve ==
    /\ serve.at = "resolve"
    /\ serve' \in {ServeAt("recv"), ServeAt("done")}
    /\ UNCHANGED <<flows, relay, from, age, sleep, sent, udpCount, stop>>

\* Mutant: a flow that has been quiet for Idle is replaced at once.
RecvReplacesIdle(s) ==
    LET f == IF flows[s] \in Flows /\ age[flows[s]] = Idle THEN NoFlow ELSE flows[s]
    IN  /\ serve.at = "recv"
        /\ serve' = [at |-> IF f = NoFlow THEN "create" ELSE "touch",
                     src |-> s, flow |-> f]
        /\ UNCHANGED <<flows, relay, from, age, sleep, sent, udpCount, stop>>

\* A datagram from s: look its flow up.
Recv(s) ==
    /\ serve.at = "recv"
    /\ serve' = [at |-> IF flows[s] = NoFlow THEN "create" ELSE "touch",
                 src |-> s, flow |-> flows[s]]
    /\ UNCHANGED <<flows, relay, from, age, sleep, sent, udpCount, stop>>

\* The read failed: the loop returns.
RecvError ==
    /\ serve.at = "recv"
    /\ serve' = ServeAt("done")
    /\ UNCHANGED <<flows, relay, from, age, sleep, sent, udpCount, stop>>

\* The flow is known: it is active now.
Touch ==
    /\ serve.at = "touch"
    /\ age' = [age EXCEPT ![serve.flow] = 0]
    /\ serve' = [serve EXCEPT !.at = "send"]
    /\ UNCHANGED <<flows, relay, from, sleep, sent, udpCount, stop>>

\* Nothing refers to flow f any more.
Unused(f) == relay[f] = "none" /\ \A s \in Sources : flows[s] # f

\* A new source: bind and connect a socket, count the flow, spawn its relay.
Create(f) ==
    /\ serve.at = "create" /\ Unused(f)
    /\ relay' = [relay EXCEPT ![f] = "top"]
    /\ from' = [from EXCEPT ![f] = serve.src]
    /\ age' = [age EXCEPT ![f] = 0]
    /\ sent' = sent \ {f}
    /\ udpCount' = udpCount + 1
    /\ serve' = [at |-> "insert", src |-> serve.src, flow |-> f]
    /\ UNCHANGED <<flows, sleep, stop>>

\* The socket cannot be bound or connected: the datagram is dropped.
CreateError ==
    /\ serve.at = "create"
    /\ serve' = ServeAt("recv")
    /\ UNCHANGED <<flows, relay, from, age, sleep, sent, udpCount, stop>>

\* The relay is running; only now does the map get the flow.
Insert ==
    /\ serve.at = "insert"
    /\ flows' = [flows EXCEPT ![serve.src] = serve.flow]
    /\ serve' = [serve EXCEPT !.at = "send"]
    /\ UNCHANGED <<relay, from, age, sleep, sent, udpCount, stop>>

\* Send the datagram to the destination; an error is only logged.
Send ==
    /\ serve.at = "send"
    /\ sent' = sent \cup {serve.flow}
    /\ serve' = ServeAt("recv")
    /\ UNCHANGED <<flows, relay, from, age, sleep, udpCount, stop>>

\* The signal ends the loop where it waits for a datagram.
UdpServeStop ==
    /\ serve.at = "recv" /\ stop
    /\ serve' = ServeAt("done")
    /\ UNCHANGED <<flows, relay, from, age, sleep, sent, udpCount, stop>>

\* remove_forward aborts the task at one of its awaits; the relays go on.
Abort ==
    /\ serve.at \in {"resolve", "recv", "create", "send"}
    /\ serve' = ServeAt("done")
    /\ UNCHANGED <<flows, relay, from, age, sleep, sent, udpCount, stop>>

-----------------------------------------------------------------------------
(***************************************************************************)
(* relay_udp_responses.                                                    *)
(***************************************************************************)

\* The place of f's relay changes, and nothing else.
Goto(f, here, there) ==
    /\ relay[f] = here
    /\ relay' = [relay EXCEPT ![f] = there]
    /\ UNCHANGED <<serve, flows, from, age, sleep, sent, udpCount, stop>>

\* Top of the loop: sleep for what the last activity leaves of Idle.
Wait(f) ==
    /\ relay[f] = "top"
    /\ sleep' = [sleep EXCEPT ![f] = Idle - age[f]]
    /\ relay' = [relay EXCEPT ![f] = "wait"]
    /\ UNCHANGED <<serve, flows, from, age, sent, udpCount, stop>>

\* The destination answered.
Answer(f) == f \in sent /\ Goto(f, "wait", "write")

\* The read fails, as when the destination refused an earlier datagram.
AnswerError(f) == f \in sent /\ Goto(f, "wait", "remove")

\* The answer goes back to the source, or the relay ends.
Write(f) == Goto(f, "write", "touch")
WriteError(f) == Goto(f, "write", "remove")

TouchBack(f) ==
    /\ relay[f] = "touch"
    /\ age' = [age EXCEPT ![f] = 0]
    /\ relay' = [relay EXCEPT ![f] = "top"]
    /\ UNCHANGED <<serve, flows, from, sleep, sent, udpCount, stop>>

\* Mutant: the end of the sleep goes round the loop again.
ExpireRetry(f) == sleep[f] = 0 /\ Goto(f, "wait", "top")

\* The sleep is over.
Expire(f) == sleep[f] = 0 /\ Goto(f, "wait", "expired")

\* Mutant: only the read loop listens to the signal.
RelayStopNever(f) == FALSE /\ UNCHANGED udpVars

RelayStop(f) == stop /\ Goto(f, "wait", "remove")

\* Mutant: an idle relay leaves its entry in the map.
RemoveUnlessIdle(f) ==
    /\ relay[f] \in {"expired", "remove"}
    /\ flows' = IF relay[f] = "expired" THEN flows
                ELSE [flows EXCEPT ![from[f]] = NoFlow]
    /\ relay' = [relay EXCEPT ![f] = "load"]
    /\ UNCHANGED <<serve, from, age, sleep, sent, udpCount, stop>>

\* Take the flow out of the map, by its source.
Remove(f) ==
    /\ relay[f] \in {"expired", "remove"}
    /\ flows' = [flows EXCEPT ![from[f]] = NoFlow]
    /\ relay' = [relay EXCEPT ![f] = "load"]
    /\ UNCHANGED <<serve, from, age, sleep, sent, udpCount, stop>>

\* dec_udp_flows: load the counter, and subtract one if it was positive.
DecUdpLoad(f) == Goto(f, "load", IF udpCount > 0 THEN "sub" ELSE "none")

\* Mutant: the counter is left alone while another relay is leaving too.
DecUdpSubLost(f) ==
    /\ relay[f] = "sub"
    /\ udpCount' = IF \E g \in Flows \ {f} : relay[g] = "sub"
                   THEN udpCount ELSE udpCount - 1
    /\ relay' = [relay EXCEPT ![f] = "none"]
    /\ UNCHANGED <<serve, flows, from, age, sleep, sent, stop>>

DecUdpSub(f) ==
    /\ relay[f] = "sub"
    /\ udpCount' = udpCount - 1
    /\ relay' = [relay EXCEPT ![f] = "none"]
    /\ UNCHANGED <<serve, flows, from, age, sleep, sent, stop>>

-----------------------------------------------------------------------------
\* One tick passes.  The read loop does not take as long as that to get from
\* the spawn of a relay to the map: no await is in between.
Tick ==
    /\ serve.at # "insert"
    /\ age' = [f \in Flows |-> IF age[f] < Idle THEN age[f] + 1 ELSE Idle]
    /\ sleep' = [f \in Flows |-> IF sleep[f] > 0 THEN sleep[f] - 1 ELSE 0]
    /\ UNCHANGED <<serve, flows, relay, from, sent, udpCount, stop>>

UdpSignal ==
    /\ ~stop
    /\ stop' = TRUE
    /\ UNCHANGED <<serve, flows, relay, from, age, sleep, sent, udpCount>>

Relay(f) ==
    \/ Wait(f) \/ Answer(f) \/ AnswerError(f) \/ Write(f) \/ WriteError(f)
    \/ TouchBack(f) \/ Expire(f) \/ RelayStop(f) \/ Remove(f)
    \/ DecUdpLoad(f) \/ DecUdpSub(f)

Serve ==
    \/ Resolve \/ RecvError \/ Touch \/ CreateError \/ Insert \/ Send
    \/ UdpServeStop \/ Abort
    \/ \E s \in Sources : Recv(s)
    \/ \E f \in Flows : Create(f)

UdpNext == Serve \/ Tick \/ UdpSignal \/ \E f \in Flows : Relay(f)

UdpSpec == UdpInit /\ [][UdpNext]_udpVars

(***************************************************************************)
(* A task that can go on does.  A select picks among the ready branches at *)
(* random, so a branch that is ready again and again is taken in the end:  *)
(* UdpServeStop, RelayStop and Expire are strongly fair.  Nothing makes a  *)
(* source send or a destination answer.                                    *)
(***************************************************************************)
UdpFairness ==
    /\ WF_udpVars(Tick)
    /\ WF_udpVars(Resolve) /\ WF_udpVars(Touch) /\ WF_udpVars(Insert) /\ WF_udpVars(Send)
    /\ WF_udpVars(CreateError \/ \E f \in Flows : Create(f))
    /\ SF_udpVars(UdpServeStop)
    /\ \A f \in Flows :
        /\ WF_udpVars(Wait(f)) /\ WF_udpVars(Write(f) \/ WriteError(f))
        /\ WF_udpVars(TouchBack(f)) /\ WF_udpVars(Remove(f))
        /\ WF_udpVars(DecUdpLoad(f)) /\ WF_udpVars(DecUdpSub(f))
        /\ SF_udpVars(Expire(f)) /\ SF_udpVars(RelayStop(f))

UdpFairSpec == UdpSpec /\ UdpFairness

-----------------------------------------------------------------------------
(***************************************************************************)
(* Properties.                                                             *)
(***************************************************************************)

\* The flow counter of /status is the number of relays that have not been
\* taken off it yet, however their two-step decrements overlap.
CountsFlows == udpCount = Cardinality({f \in Flows : relay[f] # "none"})

\* A flow the read loop can look up has a relay that carries the answers
\* back: no source is left with an entry whose relay is gone, through which
\* its datagrams would go out and never be answered.  A relay that stops on
\* the signal may be gone before its entry is made; the loop then ends too.
EntryHasRelay ==
    \A s \in Sources : flows[s] # NoFlow /\ ~stop =>
        /\ from[flows[s]] = s
        /\ relay[flows[s]] \notin {"none", "load", "sub"}

\* A relay that leaves takes its own flow out of the map, never the entry of
\* a newer flow of its source.
RemovesOwnEntry ==
    \A f \in Flows : relay[f] \notin {"none", "load", "sub"} =>
        flows[from[f]] \in {f, NoFlow}

\* A flow on which nothing moves any more is given up: its relay ends unless
\* its source or its destination is heard from again.
IdleFlowEnds ==
    \A f \in Flows : relay[f] = "wait" /\ age[f] = Idle
        ~> relay[f] \in Leaving \/ age[f] = 0

\* After the signal the read loop and every relay end, as the header says:
\* "every task selects on the shutdown signal and returns".
StopEndsAll ==
    stop ~> serve.at = "done" /\ \A f \in Flows : relay[f] = "none"

=============================================================================
