------------------------------ MODULE Invites ------------------------------
(***************************************************************************)
(* Invite enrollment on the edge                                           *)
(* (crates/controlplane/src/controlplane/pairing.rs).                      *)
(*                                                                         *)
(* An account creates an invite, a box dials it with its WireGuard key,    *)
(* the account approves the box under a machine name, and the box's poll   *)
(* takes the one-time delivery: the machine and its device token.  The     *)
(* token later authorizes a key rotation.                                  *)
(*                                                                         *)
(* Every handler reads a Redis record, decides, and writes the whole       *)
(* record back with a plain SET: one action here is one such read or       *)
(* write, and other handlers run in between.  Allocation is taken at the   *)
(* level of the machine record; what it does to the counter, the kernel    *)
(* and the listeners is the business of the module Provisioning.           *)
(***************************************************************************)
EXTENDS Integers, Sequences

CONSTANTS
    Codes,       \* invite codes
    OwnerOf,     \* the account that creates each invite
    KeysOf,      \* the public keys the boxes that dial each invite present
    Names,       \* machine names
    Keys,        \* WireGuard public keys
    NoKey, NoName, NoCode, NoOwner,
    Reqs,        \* concurrent handler invocations
    MaxTokens,   \* bound on the device tokens issued
    MaxAborts    \* bound on handlers cut off between two Redis commands

Owners == {OwnerOf[c] : c \in Codes}

ASSUME KeysAssumption == KeysOf \in [Codes -> SUBSET Keys]
ASSUME Absent ==
    NoKey \notin Keys /\ NoName \notin Names /\ NoCode \notin Codes /\ NoOwner \notin Owners
ASSUME Bounds == MaxTokens \in Nat /\ MaxAborts \in Nat

VARIABLES
    invite,     \* Redis: fortress:invite:{code}
    delivery,   \* Redis: fortress:invite-delivery:{code}
    machine,    \* Redis: fortress:machine:{name}
    indexed,    \* Redis: the names in fortress:machines
    issued,     \* number of device tokens generated so far
    pc,         \* where each handler is
    loc,        \* each handler's local variables
    aborts,     \* handlers cut off so far
    delivered,  \* history: the invites whose polls returned each token
    enrolled,   \* history: the names of the machines each invite created
    spoiled,    \* history: the invites an overlap or a cut-off left open
    stale       \* history: the machines a handler wrote on an outdated reading

redis == <<invite, delivery, machine, indexed>>
history == <<delivered, enrolled, spoiled, stale>>
vars == <<invite, delivery, machine, indexed, issued, pc, loc, aborts,
          delivered, enrolled, spoiled, stale>>

-----------------------------------------------------------------------------
Tokens == 1..MaxTokens
Terminal == {"approved", "denied"}
Statuses == {"undrawn", "none", "dormant", "waiting"} \cup Terminal

NoMachine == [key |-> NoKey, owner |-> NoOwner, token |-> 0]
Undrawn == [st |-> "undrawn", key |-> NoKey]
NoInvite == [st |-> "none", key |-> NoKey]
NoDelivery == [name |-> NoName, key |-> NoKey, token |-> 0]
Idle == [op |-> "none", code |-> NoCode, seen |-> "none", name |-> NoName,
         key |-> NoKey, mach |-> NoMachine, token |-> 0]

MachineRecord == [key : Keys \cup {NoKey}, owner : Owners \cup {NoOwner},
                  token : 0..MaxTokens]
Points == {"idle", "set", "rearm", "rearmStore", "deliver", "take",
           "allocate", "claim", "rotate", "store", "burn", "deny", "revoke"}
Ops == {"none", "begin", "poll", "approve", "deny", "revoke", "register"}

\* An invite names a box's key from the moment a box has dialed it.
InviteRecord == [st : {"undrawn", "none", "dormant"}, key : {NoKey}]
                \cup [st : {"waiting"} \cup Terminal, key : Keys]

\* Every variable has its type; in particular "a waiting invite always carries
\* the candidate's pubkey", and so does one that has been decided.
TypeOK ==
    /\ invite \in [Codes -> InviteRecord]
    /\ delivery \in [Codes -> [name : Names \cup {NoName},
                               key : Keys \cup {NoKey}, token : 0..MaxTokens]]
    /\ machine \in [Names -> MachineRecord]
    /\ indexed \in SUBSET Names
    /\ issued \in 0..MaxTokens
    /\ pc \in [Reqs -> Points]
    /\ loc \in [Reqs -> [op : Ops, code : Codes \cup {NoCode}, seen : Statuses,
                         name : Names \cup {NoName}, key : Keys \cup {NoKey},
                         mach : MachineRecord, token : 0..MaxTokens]]
    /\ aborts \in 0..MaxAborts
    /\ delivered \in [Tokens -> Seq(Codes)]
    /\ enrolled \in [Codes -> SUBSET Names]
    /\ spoiled \subseteq Codes
    /\ stale \subseteq Names

Init ==
    /\ invite = [c \in Codes |-> Undrawn]
    /\ delivery = [c \in Codes |-> NoDelivery]
    /\ machine = [n \in Names |-> NoMachine]
    /\ indexed = {}
    /\ issued = 0
    /\ pc = [r \in Reqs |-> "idle"]
    /\ loc = [r \in Reqs |-> Idle]
    /\ aborts = 0
    /\ delivered = [t \in Tokens |-> <<>>]
    /\ enrolled = [c \in Codes |-> {}]
    /\ spoiled = {}
    /\ stale = {}

-----------------------------------------------------------------------------
Exists(n) == machine[n].key # NoKey

\* list(): the indexed names that have a record.
Listed == {n \in indexed : Exists(n)}

\* The approvals of an invite that are under way, and the handlers that have
\* changed a machine's record for an invite and not its delivery yet.
Approving(c) == {q \in Reqs : loc[q].op = "approve" /\ loc[q].code = c}
Delivering(c, n) ==
    {q \in Reqs : loc[q].code = c /\ loc[q].name = n /\ pc[q] \in {"store", "deliver"}}

\* What the history variables record; no handler's course depends on them.
Spoils(c, bad) == spoiled' = IF bad THEN spoiled \cup {c} ELSE spoiled
Outdates(n, bad) == stale' = IF bad THEN stale \cup {n} ELSE stale

Enter(r, p, l) ==
    /\ pc' = [pc EXCEPT ![r] = p]
    /\ loc' = [loc EXCEPT ![r] = l]
Goto(r, p) == Enter(r, p, loc[r])
Return(r) == Enter(r, "idle", Idle)

\* random_token_hex: a token nobody has seen.
FreshToken == issued + 1

-----------------------------------------------------------------------------
(***************************************************************************)
(* The account's side: create, approve, deny, revoke.                      *)
(***************************************************************************)

\* invite_create: SET NX under a random code, retried on a collision.  A code
\* is drawn once: the code space is 2^50.
Create(c) ==
    /\ invite[c].st = "undrawn"
    /\ invite' = [invite EXCEPT ![c] = [st |-> "dormant", key |-> NoKey]]
    /\ UNCHANGED <<delivery, machine, indexed, issued, pc, loc, aborts, history>>

\* invite_approve: GET; anything but a waiting invite of the caller's own is
\* refused.  The key is the one the record holds now.
Approve(r, c, n) ==
    /\ pc[r] = "idle"
    /\ invite[c].st = "waiting"
    /\ Enter(r, "allocate", [op |-> "approve", code |-> c, seen |-> invite[c].st,
                             name |-> n, key |-> invite[c].key,
                             mach |-> [NoMachine EXCEPT !.owner = OwnerOf[c]],
                             token |-> 0])
    /\ Spoils(c, \E q \in Approving(c) : loc[q].name # n)
    /\ UNCHANGED <<redis, issued, aborts, delivered, enrolled, stale>>

\* allocate_machine's GET.  A name that has a record is re-ensured (same key)
\* or rotated (another key); either way invite_approve answers NameTaken.
Allocate(r) ==
    LET m == machine[loc[r].name]
    IN  /\ pc[r] = "allocate"
        /\ IF ~Exists(loc[r].name) THEN Goto(r, "claim")
           ELSE IF m.key = loc[r].key THEN Return(r)
           ELSE Enter(r, "rotate", [loc[r] EXCEPT !.mach = [m EXCEPT !.key = loc[r].key]])
        /\ UNCHANGED <<redis, issued, aborts, history>>

\* A rotation is in order when a box asked for it, the record still holds the
\* token the box presented and nobody wrote the record since it was read.
InOrder(r) ==
    LET m == machine[loc[r].name]
    IN  /\ loc[r].op = "register"
        /\ m.token = loc[r].token
        /\ [m EXCEPT !.key = loc[r].key] = loc[r].mach

\* The rotation writes back the record it read, with the new key.
Rotate(r) ==
    /\ pc[r] = "rotate"
    /\ machine' = [machine EXCEPT ![loc[r].name] = loc[r].mach]
    /\ Return(r)
    /\ Outdates(loc[r].name, ~InOrder(r))
    /\ UNCHANGED <<invite, delivery, indexed, issued, aborts, delivered, enrolled, spoiled>>

\* SETNX the machine's record and index it.  The loser of a race is told
\* NameTaken, and device_register does not expect a new machine: it panics.
Claim(r) ==
    LET m == [key |-> loc[r].key, owner |-> loc[r].mach.owner, token |-> 0]
    IN  /\ pc[r] = "claim"
        /\ IF Exists(loc[r].name)
             THEN Return(r) /\ UNCHANGED <<machine, indexed, enrolled, stale>>
             ELSE /\ machine' = [machine EXCEPT ![loc[r].name] = m]
                  /\ indexed' = indexed \cup {loc[r].name}
                  /\ Outdates(loc[r].name, \/ loc[r].op = "register"
                                           \/ Delivering(loc[r].code, loc[r].name) # {})
                  /\ IF loc[r].op = "register"
                       THEN Return(r) /\ UNCHANGED enrolled
                       ELSE /\ Enter(r, "store", [loc[r] EXCEPT !.mach = m])
                            /\ enrolled' = [enrolled EXCEPT ![loc[r].code] = @ \cup {loc[r].name}]
        /\ UNCHANGED <<invite, delivery, issued, aborts, delivered, spoiled>>

\* The record was written since the handler read it, or another handler has yet
\* to deliver the token it stored there for the same invite.
Overtaken(r) ==
    \/ machine[loc[r].name] # loc[r].mach
    \/ Delivering(loc[r].code, loc[r].name) \ {r} # {}

\* Mutant: the hash of the new token is not stored.
StoreTokenForgotten(r) ==
    /\ pc[r] \in {"store", "rearmStore"}
    /\ issued < MaxTokens
    /\ issued' = FreshToken
    /\ Enter(r, "deliver", [loc[r] EXCEPT !.token = FreshToken])
    /\ Outdates(loc[r].name, Overtaken(r))
    /\ UNCHANGED <<redis, aborts, delivered, enrolled, spoiled>>

\* store_machine: SET the handler's copy of the record with a new token's
\* hash, on approval and on re-arming alike.
StoreToken(r) ==
    /\ pc[r] \in {"store", "rearmStore"}
    /\ issued < MaxTokens
    /\ issued' = FreshToken
    /\ machine' = [machine EXCEPT ![loc[r].name] =
                     [loc[r].mach EXCEPT !.token = FreshToken]]
    /\ Enter(r, "deliver", [loc[r] EXCEPT !.token = FreshToken])
    /\ Outdates(loc[r].name, Overtaken(r))
    /\ UNCHANGED <<invite, delivery, indexed, aborts, delivered, enrolled, spoiled>>

\* SET the one-time delivery.
Deliver(r) ==
    /\ pc[r] = "deliver"
    /\ delivery' = [delivery EXCEPT ![loc[r].code] =
                      [name |-> loc[r].name, key |-> loc[r].mach.key,
                       token |-> loc[r].token]]
    /\ IF loc[r].op = "approve" THEN Goto(r, "burn") ELSE Return(r)
    /\ UNCHANGED <<invite, machine, indexed, issued, aborts, history>>

\* Mutant: approval leaves the invite waiting.
BurnNot(r) ==
    /\ pc[r] = "burn"
    /\ Return(r)
    /\ UNCHANGED <<redis, issued, aborts, history>>

\* SET the invite the handler read, now approved.
Burn(r) ==
    /\ pc[r] = "burn"
    /\ invite' = [invite EXCEPT ![loc[r].code] =
                    [st |-> "approved", key |-> loc[r].key]]
    /\ Return(r)
    /\ UNCHANGED <<delivery, machine, indexed, issued, aborts, history>>

\* invite_deny and invite_revoke: GET and check ...
Refuse(r, c, op) ==
    /\ pc[r] = "idle"
    /\ invite[c].st = "waiting" \/ (op = "revoke" /\ invite[c].st = "dormant")
    /\ Enter(r, op, [Idle EXCEPT !.op = op, !.code = c, !.seen = invite[c].st,
                                 !.key = invite[c].key])
    /\ UNCHANGED <<redis, issued, aborts, history>>

\* ... then SET it denied ...
DenySet(r) ==
    /\ pc[r] = "deny"
    /\ invite' = [invite EXCEPT ![loc[r].code] =
                    [st |-> "denied", key |-> loc[r].key]]
    /\ Return(r)
    /\ UNCHANGED <<delivery, machine, indexed, issued, aborts, history>>

\* ... or DEL it.
RevokeDel(r) ==
    /\ pc[r] = "revoke"
    /\ invite' = [invite EXCEPT ![loc[r].code] = NoInvite]
    /\ Return(r)
    /\ UNCHANGED <<delivery, machine, indexed, issued, aborts, history>>

-----------------------------------------------------------------------------
(***************************************************************************)
(* The box's side: begin, poll, device_register.                           *)
(***************************************************************************)

\* Mutant: a denied invite can be dialed again.
BeginDenied(r, c, k) ==
    /\ pc[r] = "idle"
    /\ \/ /\ invite[c].st \in {"dormant", "waiting", "denied"}
          /\ Enter(r, "set", [Idle EXCEPT !.op = "begin", !.code = c,
                                         !.seen = invite[c].st, !.key = k])
       \/ /\ invite[c].st = "approved" /\ invite[c].key = k
          /\ Enter(r, "rearm", [Idle EXCEPT !.op = "begin", !.code = c,
                                           !.seen = invite[c].st, !.key = k])
    /\ UNCHANGED <<redis, issued, aborts, history>>

\* invite_begin: GET.  A dormant or waiting invite takes the caller's key; an
\* approved one re-arms delivery for the box that enrolled; the rest refuse.
Begin(r, c, k) ==
    /\ pc[r] = "idle"
    /\ \/ /\ invite[c].st \in {"dormant", "waiting"}
          /\ Enter(r, "set", [Idle EXCEPT !.op = "begin", !.code = c,
                                         !.seen = invite[c].st, !.key = k])
       \/ /\ invite[c].st = "approved" /\ invite[c].key = k
          /\ Enter(r, "rearm", [Idle EXCEPT !.op = "begin", !.code = c,
                                           !.seen = invite[c].st, !.key = k])
    /\ UNCHANGED <<redis, issued, aborts, history>>

\* SET the invite waiting for this key.
BeginSet(r) ==
    /\ pc[r] = "set"
    /\ invite' = [invite EXCEPT ![loc[r].code] =
                    [st |-> "waiting", key |-> loc[r].key]]
    /\ Return(r)
    /\ Spoils(loc[r].code, invite[loc[r].code].st \notin {"dormant", "waiting"})
    /\ UNCHANGED <<delivery, machine, indexed, issued, aborts, delivered, enrolled, stale>>

\* rearm_delivery: list the machines and take one with the invite's key.
\* There is none: the handler panics.
RearmFind(r) ==
    LET found == {n \in Listed : machine[n].key = loc[r].key}
    IN  /\ pc[r] = "rearm"
        /\ \/ found = {} /\ Return(r)
           \/ \E n \in found :
                Enter(r, "rearmStore", [loc[r] EXCEPT !.name = n, !.mach = machine[n]])
        /\ UNCHANGED <<redis, issued, aborts, history>>

\* invite_poll: GET; only an approved invite goes on to take the delivery.
Poll(r, c) ==
    /\ pc[r] = "idle"
    /\ invite[c].st = "approved"
    /\ Enter(r, "take", [Idle EXCEPT !.op = "poll", !.code = c, !.seen = invite[c].st])
    /\ UNCHANGED <<redis, issued, aborts, history>>

\* Mutant: GET in the place of GETDEL.
TakeCopy(r) ==
    LET t == delivery[loc[r].code].token
    IN  /\ pc[r] = "take"
        /\ delivered' = IF t = 0 THEN delivered ELSE [delivered EXCEPT ![t] = Append(@, loc[r].code)]
        /\ Return(r)
        /\ UNCHANGED <<redis, issued, aborts, enrolled, spoiled, stale>>

\* GETDEL the delivery: the box learns its machine and its token.
Take(r) ==
    LET t == delivery[loc[r].code].token
    IN  /\ pc[r] = "take"
        /\ delivered' = IF t = 0 THEN delivered ELSE [delivered EXCEPT ![t] = Append(@, loc[r].code)]
        /\ delivery' = [delivery EXCEPT ![loc[r].code] = NoDelivery]
        /\ Return(r)
        /\ UNCHANGED <<invite, machine, indexed, issued, aborts, enrolled, spoiled, stale>>

\* device_register: a box presents a token it was given and a new key; the
\* machine with the token's hash is looked up and re-allocated by name.
Register(r, t, k) ==
    /\ pc[r] = "idle"
    /\ \E i \in DOMAIN delivered[t] : k \in KeysOf[delivered[t][i]]
    /\ \E n \in Listed :
         /\ machine[n].token = t
         /\ Enter(r, "allocate", [Idle EXCEPT !.op = "register", !.name = n, !.key = k,
                                              !.mach = machine[n], !.token = t])
    /\ UNCHANGED <<redis, issued, aborts, history>>

-----------------------------------------------------------------------------
(***************************************************************************)
(* The rest of the world.                                                  *)
(***************************************************************************)

\* ControlPlane::delete, as far as the store goes.
DeleteMachine(n) ==
    /\ Exists(n)
    /\ machine' = [machine EXCEPT ![n] = NoMachine]
    /\ indexed' = indexed \ {n}
    /\ UNCHANGED <<invite, delivery, issued, pc, loc, aborts, history>>

\* Redis drops an invite, or a delivery, whose TTL has passed.
ExpireInvite(c) ==
    /\ invite[c].st \notin {"undrawn", "none"}
    /\ invite' = [invite EXCEPT ![c] = NoInvite]
    /\ UNCHANGED <<delivery, machine, indexed, issued, pc, loc, aborts, history>>

ExpireDelivery(c) ==
    /\ delivery[c] # NoDelivery
    /\ delivery' = [delivery EXCEPT ![c] = NoDelivery]
    /\ UNCHANGED <<invite, machine, indexed, issued, pc, loc, aborts, history>>

\* A Redis error, a dropped connection or a crash ends a handler between two
\* commands; a failed allocation, which rolls itself back, ends it too.
Abort(r) ==
    /\ pc[r] # "idle"
    /\ aborts < MaxAborts
    /\ aborts' = aborts + 1
    /\ Return(r)
    /\ Spoils(loc[r].code, loc[r].op = "approve" /\ pc[r] \in {"store", "deliver", "burn"})
    /\ Outdates(loc[r].name, pc[r] \in {"store", "deliver"})
    /\ UNCHANGED <<redis, issued, delivered, enrolled>>

-----------------------------------------------------------------------------
Start(r) ==
    \/ \E c \in Codes, n \in Names : Approve(r, c, n)
    \/ \E c \in Codes, op \in {"deny", "revoke"} : Refuse(r, c, op)
    \/ \E c \in Codes : \E k \in KeysOf[c] : Begin(r, c, k)
    \/ \E c \in Codes : Poll(r, c)
    \/ \E t \in Tokens, k \in Keys : Register(r, t, k)

Step(r) ==
    \/ Allocate(r)
    \/ Rotate(r)
    \/ Claim(r)
    \/ StoreToken(r)
    \/ Deliver(r)
    \/ Burn(r)
    \/ DenySet(r)
    \/ RevokeDel(r)
    \/ BeginSet(r)
    \/ RearmFind(r)
    \/ Take(r)

Next ==
    \/ \E r \in Reqs : Start(r) \/ Step(r) \/ Abort(r)
    \/ \E c \in Codes : Create(c) \/ ExpireInvite(c) \/ ExpireDelivery(c)
    \/ \E n \in Names : DeleteMachine(n)

Spec == Init /\ [][Next]_vars

-----------------------------------------------------------------------------
(***************************************************************************)
(* Properties.                                                             *)
(***************************************************************************)

\* InviteStatus: "approved/denied (both terminal and burn the code)".  Nothing
\* locks the record, so a begin, an approval or a denial that read the invite
\* before a decision writes over it; but once nobody holds such a reading, no
\* handler changes the decision: the invite keeps its status and key until it
\* expires, whatever is dialed, approved, denied, polled or re-armed.
Burned ==
    [][\A c \in Codes :
         /\ invite[c].st \in Terminal
         /\ \A r \in Reqs : loc[r].code = c => loc[r].seen = invite[c].st
         => invite'[c] \in {invite[c], NoInvite}]_vars

\* invite_poll: "the payload is delivered exactly once".  However polls,
\* re-arms and retries interleave, no token leaves the edge twice.
DeliveredOnce == \A t \in Tokens : Len(delivered[t]) <= 1

\* No box dials two invites with one key.
Private(c) == \A d \in Codes \ {c} : KeysOf[c] \cap KeysOf[d] = {}

\* A delivery that waits for its box carries the token whose hash the
\* machine's record holds, so the box can rotate its key with it.  Re-arms,
\* approvals, rotations and deletions overlap freely: only one that really
\* writes the record on an outdated reading, overtakes the delivery of an
\* earlier token, rotates a machine it was refused, or is cut off between the
\* record and the delivery can part the two.
PendingTokenWorks ==
    \A c \in Codes : LET d == delivery[c] IN
        /\ d # NoDelivery
        /\ Private(c)
        /\ d.name \notin stale
        /\ Delivering(c, d.name) = {}
        /\ machine[d.name].key = d.key
        => machine[d.name].token = d.token

\* "Codes are single-use": one invite never creates machines under two names,
\* however dials, denials, revocations, expiries, deletions and approvals under
\* one name overlap, unless approvals under two names do, a dial that read the
\* invite before its decision reopens it, or an approval is cut off after it
\* created its machine.
SingleUse ==
    \A c \in Codes \ spoiled : \A m, n \in enrolled[c] : m = n

\* An approval that is "rejected with a pick-another error" rejects: a
\* machine's key changes only when its own box registers a new one.
OnlyItsBoxRotates ==
    [][\A n \in Names : Exists(n) /\ Exists(n)' /\ machine'[n].key # machine[n].key
         => \E r \in Reqs : loc[r].op = "register" /\ loc[r].name = n]_vars
=============================================================================
