--------------------------- MODULE InvitesProofs ---------------------------
(***************************************************************************)
(* Proofs about Invites, for any invites, accounts, boxes, machine names   *)
(* and handlers, and any number of tokens and of handlers cut off.         *)
(***************************************************************************)
EXTENDS Invites, SequenceTheorems, TLAPS

\* The local variables of a handler, and the types of pc and loc.
Locals == [op : Ops, code : Codes \cup {NoCode}, seen : Statuses, name : Names \cup {NoName},
           key : Keys \cup {NoKey}, mach : MachineRecord, token : 0..MaxTokens]
HandlerTypes == pc \in [Reqs -> Points] /\ loc \in [Reqs -> Locals]

\* A handler at point p has the local variables its operation has set so far.
Control(p, l) ==
  \/ p = "idle" /\ l = Idle
  \/ /\ l.op = "begin" /\ l.code \in Codes /\ l.key \in KeysOf[l.code]
     /\ \/ p = "set" /\ l.name = NoName /\ l.seen \in {"dormant", "waiting"}
        \/ p = "rearm" /\ l.name = NoName
        \/ p \in {"rearmStore", "deliver"} /\ l.name \in Names /\ l.mach.key = l.key
  \/ l.op = "poll" /\ l.code \in Codes /\ p = "take" /\ l.name = NoName
  \/ /\ l.op = "approve" /\ l.code \in Codes /\ l.key \in KeysOf[l.code]
     /\ l.name \in Names /\ l.seen = "waiting"
     /\ \/ p \in {"allocate", "claim"}
        \/ p \in {"rotate", "store", "deliver", "burn"} /\ l.mach.key = l.key
  \/ /\ l.op = "deny" /\ l.code \in Codes /\ l.key \in KeysOf[l.code]
     /\ p = "deny" /\ l.name = NoName /\ l.seen = "waiting"
  \/ l.op = "revoke" /\ l.code \in Codes /\ p = "revoke" /\ l.name = NoName
  \/ /\ l.op = "register" /\ l.code = NoCode /\ l.name \in Names /\ l.key \in Keys
     /\ \/ p \in {"allocate", "claim"}
        \/ p = "rotate" /\ l.mach.key = l.key

ControlInv == \A r \in Reqs : Control(pc[r], loc[r])

\* An invite is dialed by its own boxes only.
DialedInv ==
  \A c \in Codes : invite[c].st \in {"waiting"} \cup Terminal => invite[c].key \in KeysOf[c]

Well == TypeOK /\ ControlInv /\ DialedInv

-----------------------------------------------------------------------------
(***************************************************************************)
(* Types and control.                                                      *)
(***************************************************************************)

\* The records the model starts from are well typed.
LEMMA Constants ==
  /\ MaxTokens \in Nat /\ MaxAborts \in Nat
  /\ \A c \in Codes : OwnerOf[c] \in Owners /\ KeysOf[c] \subseteq Keys
  /\ NoMachine \in MachineRecord /\ Idle \in Locals /\ Control("idle", Idle)
  /\ Undrawn \in InviteRecord /\ NoInvite \in InviteRecord
  /\ NoDelivery \in [name : Names \cup {NoName}, key : Keys \cup {NoKey}, token : 0..MaxTokens]
  <1>1. MaxTokens \in Nat /\ MaxAborts \in Nat
    BY Bounds
  <1>2. \A c \in Codes : OwnerOf[c] \in Owners /\ KeysOf[c] \subseteq Keys
    BY KeysAssumption DEF Owners
  <1>3. NoMachine \in MachineRecord
    BY <1>1 DEF NoMachine, MachineRecord
  <1>4. Idle \in Locals /\ Control("idle", Idle)
    BY <1>1, <1>3 DEF Idle, Locals, Ops, Control, Statuses
  <1>5. Undrawn \in InviteRecord /\ NoInvite \in InviteRecord
    BY DEF Undrawn, NoInvite, InviteRecord
  <1>6. NoDelivery \in [name : Names \cup {NoName}, key : Keys \cup {NoKey}, token : 0..MaxTokens]
    BY <1>1 DEF NoDelivery
  <1> QED
    BY <1>1, <1>2, <1>3, <1>4, <1>5, <1>6

\* Enter moves one handler and no other.
LEMMA Moved ==
  ASSUME TypeOK, NEW r \in Reqs, NEW p, NEW l, Enter(r, p, l)
  PROVE  /\ pc'[r] = p /\ loc'[r] = l
         /\ \A q \in Reqs \ {r} : pc'[q] = pc[q] /\ loc'[q] = loc[q]
  BY DEF TypeOK, Enter

\* Moving a handler to a point with the local variables it needs there.
LEMMA EnterWell ==
  ASSUME Well, NEW r \in Reqs, NEW p \in Points, NEW l \in Locals, Control(p, l), Enter(r, p, l)
  PROVE  HandlerTypes' /\ ControlInv'
  <1>1. HandlerTypes'
    BY DEF Well, TypeOK, Enter, HandlerTypes, Locals
  <1>2. ASSUME NEW q \in Reqs PROVE Control(pc[q], loc[q])'
    BY Moved DEF Well, ControlInv
  <1> QED
    BY <1>1, <1>2 DEF ControlInv

\* A handler that returns is idle.
LEMMA ReturnWell ==
  ASSUME Well, NEW r \in Reqs, Return(r)
  PROVE  HandlerTypes' /\ ControlInv'
  BY Constants, EnterWell DEF Return, Points

\* The same for a move that keeps the local variables.
LEMMA GotoWell ==
  ASSUME Well, NEW r \in Reqs, NEW p \in Points, Goto(r, p), Control(p, loc[r])
  PROVE  HandlerTypes' /\ ControlInv'
  BY EnterWell DEF Goto, Well, TypeOK, Locals

\* And for a step that moves no handler.
LEMMA SameWell ==
  ASSUME Well, UNCHANGED <<pc, loc>>
  PROVE  HandlerTypes' /\ ControlInv'
  BY DEF Well, TypeOK, HandlerTypes, Locals, ControlInv

\* What TypeOK and the two invariants say of one handler, invite or machine.
LEMMA Typed ==
  ASSUME Well
  PROVE  /\ \A r \in Reqs : loc[r] \in Locals /\ Control(pc[r], loc[r])
         /\ \A c \in Codes : invite[c] \in InviteRecord
         /\ \A c \in Codes : invite[c].st \in {"waiting"} \cup Terminal =>
              invite[c].key \in KeysOf[c] /\ invite[c].key \in Keys
         /\ \A n \in Names : machine[n] \in MachineRecord
         /\ issued \in 0..MaxTokens
  BY Constants DEF Well, TypeOK, ControlInv, DialedInv, Locals

\* The steps of Next, one action each.
LEMMA Steps ==
  ASSUME [Next]_vars
  PROVE  \/ \E r \in Reqs, c \in Codes, n \in Names : Approve(r, c, n)
         \/ \E r \in Reqs, c \in Codes, op \in {"deny", "revoke"} : Refuse(r, c, op)
         \/ \E r \in Reqs, c \in Codes : \E k \in KeysOf[c] : Begin(r, c, k)
         \/ \E r \in Reqs, c \in Codes : Poll(r, c)
         \/ \E r \in Reqs, t \in Tokens, k \in Keys : Register(r, t, k)
         \/ \E r \in Reqs : Step(r) \/ Abort(r)
         \/ \E c \in Codes : Create(c) \/ ExpireInvite(c) \/ ExpireDelivery(c)
         \/ \E n \in Names : DeleteMachine(n)
         \/ UNCHANGED vars
  <1>1. ASSUME NEW r \in Reqs, Start(r)
        PROVE  \/ \E c \in Codes, n \in Names : Approve(r, c, n)
               \/ \E c \in Codes, op \in {"deny", "revoke"} : Refuse(r, c, op)
               \/ \E c \in Codes : \E k \in KeysOf[c] : Begin(r, c, k)
               \/ \E c \in Codes : Poll(r, c)
               \/ \E t \in Tokens, k \in Keys : Register(r, t, k)
    BY <1>1 DEF Start
  <1>2. \/ \E r \in Reqs : Start(r) \/ Step(r) \/ Abort(r)
        \/ \E c \in Codes : Create(c) \/ ExpireInvite(c) \/ ExpireDelivery(c)
        \/ \E n \in Names : DeleteMachine(n)
        \/ UNCHANGED vars
    BY DEF Next
  <1> QED
    BY <1>1, <1>2, Zenon

\* Every step leaves the handlers at points they are equipped for.
LEMMA StepHandlers ==
  ASSUME Well, [Next]_vars
  PROVE  HandlerTypes' /\ ControlInv'
  <1> DEFINE Goal == HandlerTypes' /\ ControlInv'
  <1> HIDE DEF Goal
  <1>1. ASSUME NEW r \in Reqs, NEW c \in Codes, NEW n \in Names, Approve(r, c, n) PROVE Goal
    <2> DEFINE l == [op |-> "approve", code |-> c, seen |-> invite[c].st, name |-> n,
                     key |-> invite[c].key, mach |-> [NoMachine EXCEPT !.owner = OwnerOf[c]], token |-> 0]
    <2>1. invite[c].key \in KeysOf[c] /\ invite[c].key \in Keys
      BY <1>1, Typed DEF Approve
    <2>2. l.mach \in MachineRecord
      BY Constants DEF NoMachine, MachineRecord
    <2>3. l \in Locals
      BY <1>1, <2>1, <2>2, Constants DEF Locals, Ops, Approve, Statuses
    <2>4. Control("allocate", l)
      BY <1>1, <2>1 DEF Control, Approve
    <2>5. Enter(r, "allocate", l)
      BY <1>1 DEF Approve
    <2> HIDE DEF l
    <2> QED
      BY <2>3, <2>4, <2>5, EnterWell DEF Goal, Points
  <1>2. ASSUME NEW r \in Reqs, NEW c \in Codes, NEW op \in {"deny", "revoke"}, Refuse(r, c, op)
        PROVE  Goal
    <2> DEFINE l == [Idle EXCEPT !.op = op, !.code = c, !.seen = invite[c].st, !.key = invite[c].key]
    <2>1. invite[c].key \in Keys \cup {NoKey} /\ invite[c].st \in Statuses
      BY Typed DEF InviteRecord, Statuses
    <2>2. op = "deny" => invite[c].key \in KeysOf[c] /\ invite[c].st = "waiting"
      BY <1>2, Typed DEF Refuse
    <2>3. l \in Locals
      BY <2>1, Constants DEF Locals, Ops, Idle
    <2>4. Control(op, l)
      BY <2>2 DEF Control, Idle
    <2>5. Enter(r, op, l)
      BY <1>2 DEF Refuse
    <2> HIDE DEF l
    <2> QED
      BY <2>3, <2>4, <2>5, EnterWell DEF Goal, Points
  <1>3. ASSUME NEW r \in Reqs, NEW c \in Codes, NEW k \in KeysOf[c], Begin(r, c, k) PROVE Goal
    <2> DEFINE l == [Idle EXCEPT !.op = "begin", !.code = c, !.seen = invite[c].st, !.key = k]
    <2>0. invite[c].st \in Statuses
      BY Typed DEF InviteRecord, Statuses
    <2>1. l \in Locals
      BY <2>0, Constants DEF Locals, Ops, Idle
    <2>2. (invite[c].st \in {"dormant", "waiting"} => Control("set", l)) /\ Control("rearm", l)
      BY DEF Control, Idle
    <2>3. (invite[c].st \in {"dormant", "waiting"} /\ Enter(r, "set", l)) \/ Enter(r, "rearm", l)
      BY <1>3 DEF Begin
    <2> HIDE DEF l
    <2> QED
      BY <2>1, <2>2, <2>3, EnterWell DEF Goal, Points
  <1>4. ASSUME NEW r \in Reqs, NEW c \in Codes, Poll(r, c) PROVE Goal
    <2> DEFINE l == [Idle EXCEPT !.op = "poll", !.code = c, !.seen = invite[c].st]
    <2>0. invite[c].st \in Statuses
      BY Typed DEF InviteRecord, Statuses
    <2>1. l \in Locals
      BY <2>0, Constants DEF Locals, Ops, Idle
    <2>2. Control("take", l)
      BY DEF Control, Idle
    <2>3. Enter(r, "take", l)
      BY <1>4 DEF Poll
    <2> HIDE DEF l
    <2> QED
      BY <2>1, <2>2, <2>3, EnterWell DEF Goal, Points
  <1>5. ASSUME NEW r \in Reqs, NEW t \in Tokens, NEW k \in Keys, Register(r, t, k) PROVE Goal
    <2>1. PICK n \in Listed : Enter(r, "allocate",
                            [Idle EXCEPT !.op = "register", !.name = n, !.key = k,
                                         !.mach = machine[n], !.token = t])
      BY <1>5 DEF Register
    <2> DEFINE l == [Idle EXCEPT !.op = "register", !.name = n, !.key = k, !.mach = machine[n],
                                 !.token = t]
    <2>2. n \in Names
      BY DEF Listed, Well, TypeOK
    <2>3. l \in Locals
      <3>1. machine[n] \in MachineRecord /\ t \in 0..MaxTokens
        BY <2>2, Typed, Constants DEF Tokens
      <3>2. "none" \in Statuses /\ "register" \in Ops
        BY DEF Statuses, Ops
      <3> QED
        BY <2>2, <3>1, <3>2 DEF Locals, Idle
    <2>4. Control("allocate", l)
      BY <2>2 DEF Control, Idle
    <2>5. Enter(r, "allocate", l)
      BY <2>1
    <2> HIDE DEF l
    <2> QED
      BY <2>3, <2>4, <2>5, EnterWell DEF Goal, Points
  <1>6. ASSUME NEW r \in Reqs, Allocate(r) PROVE Goal
    <2> DEFINE l == [loc[r] EXCEPT !.mach = [machine[loc[r].name] EXCEPT !.key = loc[r].key]]
    <2>1. loc[r] \in Locals /\ Control("allocate", loc[r])
      BY <1>6, Typed DEF Allocate
    <2>2. loc[r].name \in Names
      BY <2>1 DEF Control
    <2>3. l \in Locals /\ Control("rotate", l) /\ Control("claim", loc[r])
      <3>1. [machine[loc[r].name] EXCEPT !.key = loc[r].key] \in MachineRecord
        BY <2>1, <2>2, Typed DEF MachineRecord, Locals
      <3>2. l \in Locals
        BY <2>1, <3>1 DEF Locals
      <3>3. l.mach.key = l.key
        BY <2>1, <2>2, Typed DEF MachineRecord, Locals
      <3> QED
        BY <2>1, <3>2, <3>3 DEF Control, Locals
    <2>4. Goto(r, "claim") \/ Return(r) \/ Enter(r, "rotate", l)
      BY <1>6 DEF Allocate
    <2> HIDE DEF l
    <2> QED
      BY <2>3, <2>4, EnterWell, GotoWell, ReturnWell DEF Goal, Points
  <1>7. ASSUME NEW r \in Reqs, Claim(r) PROVE Goal
    <2> DEFINE m == [key |-> loc[r].key, owner |-> loc[r].mach.owner, token |-> 0]
               l == [loc[r] EXCEPT !.mach = m]
    <2>1. loc[r] \in Locals /\ Control("claim", loc[r])
      BY <1>7, Typed DEF Claim
    <2>2. m \in MachineRecord
      BY <2>1, Constants DEF Locals, MachineRecord
    <2>3. l \in Locals
      BY <2>1, <2>2 DEF Locals
    <2>4. loc[r].op # "register" => Control("store", l)
      BY <2>1 DEF Control, Locals
    <2>5. Return(r) \/ (loc[r].op # "register" /\ Enter(r, "store", l))
      BY <1>7 DEF Claim
    <2> HIDE DEF l
    <2> QED
      BY <2>3, <2>4, <2>5, EnterWell, ReturnWell DEF Goal, Points
  <1>8. ASSUME NEW r \in Reqs, StoreToken(r) PROVE Goal
    <2> DEFINE l == [loc[r] EXCEPT !.token = FreshToken]
    <2>1. loc[r] \in Locals /\ Control(pc[r], loc[r]) /\ pc[r] \in {"store", "rearmStore"}
      BY <1>8, Typed DEF StoreToken
    <2>2. l \in Locals
      BY <1>8, <2>1, Typed, Constants DEF Locals, StoreToken, FreshToken
    <2>3. Control("deliver", l)
      BY <2>1 DEF Control, Locals
    <2>4. Enter(r, "deliver", l)
      BY <1>8 DEF StoreToken
    <2> HIDE DEF l
    <2> QED
      BY <2>2, <2>3, <2>4, EnterWell DEF Goal, Points
  <1>9. ASSUME NEW r \in Reqs, Deliver(r) PROVE Goal
    <2>1. Control("deliver", loc[r])
      BY <1>9, Typed DEF Deliver
    <2>2. loc[r].op = "approve" => Control("burn", loc[r])
      BY <2>1 DEF Control
    <2>3. (loc[r].op = "approve" /\ Goto(r, "burn")) \/ Return(r)
      BY <1>9 DEF Deliver
    <2> QED
      BY <2>2, <2>3, GotoWell, ReturnWell DEF Goal, Points
  <1>10. ASSUME NEW r \in Reqs, RearmFind(r) PROVE Goal
    <2>1. loc[r] \in Locals /\ Control("rearm", loc[r])
      BY <1>10, Typed DEF RearmFind
    <2>2. CASE Return(r)
      BY <2>2, ReturnWell DEF Goal
    <2>3. ASSUME NEW n \in Listed, machine[n].key = loc[r].key,
                 Enter(r, "rearmStore", [loc[r] EXCEPT !.name = n, !.mach = machine[n]])
          PROVE  Goal
      <3> DEFINE l == [loc[r] EXCEPT !.name = n, !.mach = machine[n]]
      <3>1. n \in Names
        BY DEF Listed, Well, TypeOK
      <3>2. l \in Locals
        BY <2>1, <3>1, Typed DEF Locals
      <3>3. Control("rearmStore", l)
        BY <2>1, <2>3, <3>1 DEF Control, Locals
      <3>4. Enter(r, "rearmStore", l)
        BY <2>3
      <3> HIDE DEF l
      <3> QED
        BY <3>2, <3>3, <3>4, EnterWell DEF Goal, Points
    <2> QED
      BY <1>10, <2>2, <2>3 DEF RearmFind
  <1>11. ASSUME NEW r \in Reqs,
                Rotate(r) \/ Burn(r) \/ DenySet(r) \/ RevokeDel(r) \/ BeginSet(r) \/ Take(r)
                \/ Abort(r)
         PROVE  Goal
    BY <1>11, ReturnWell DEF Rotate, Burn, DenySet, RevokeDel, BeginSet, Take, Abort, Goal
  <1>12. ASSUME NEW c \in Codes, Create(c) \/ ExpireInvite(c) \/ ExpireDelivery(c) PROVE Goal
    BY <1>12, SameWell DEF Create, ExpireInvite, ExpireDelivery, Goal
  <1>13. ASSUME NEW n \in Names, DeleteMachine(n) PROVE Goal
    BY <1>13, SameWell DEF DeleteMachine, Goal
  <1>14. ASSUME UNCHANGED vars PROVE Goal
    BY <1>14, SameWell DEF vars, Goal
  <1>15. ASSUME NEW r \in Reqs, Step(r) PROVE Goal
    BY <1>6, <1>7, <1>8, <1>9, <1>10, <1>11, <1>15 DEF Step
  <1>16. Goal
    BY <1>1, <1>2, <1>3, <1>4, <1>5, <1>11, <1>12, <1>13, <1>14, <1>15, Steps
  <1> QED
    BY <1>16 DEF Goal

\* A write of an invite that keeps it an invite of its own boxes.
LEMMA InviteSet ==
  ASSUME Well, NEW c \in Codes, NEW v \in InviteRecord, invite' = [invite EXCEPT ![c] = v],
         v.st \in {"waiting"} \cup Terminal => v.key \in KeysOf[c]
  PROVE  invite' \in [Codes -> InviteRecord] /\ DialedInv'
  BY DEF Well, TypeOK, DialedInv

\* Only keys of the invite itself are ever written into it.
LEMMA StepInvite ==
  ASSUME Well, [Next]_vars
  PROVE  invite' \in [Codes -> InviteRecord] /\ DialedInv'
  <1> DEFINE Goal == invite' \in [Codes -> InviteRecord] /\ DialedInv'
  <1>1. ASSUME UNCHANGED invite PROVE Goal
    BY <1>1 DEF Well, TypeOK, DialedInv
  <1>2. ASSUME NEW c \in Codes, Create(c) \/ ExpireInvite(c) PROVE Goal
    <2> DEFINE d == [st |-> "dormant", key |-> NoKey]
    <2>1. d \in InviteRecord /\ NoInvite \in InviteRecord
      BY DEF InviteRecord, NoInvite
    <2>2. invite' = [invite EXCEPT ![c] = d] \/ invite' = [invite EXCEPT ![c] = NoInvite]
      BY <1>2 DEF Create, ExpireInvite
    <2> QED
      BY <2>1, <2>2, InviteSet DEF Terminal, NoInvite
  <1>3. ASSUME NEW r \in Reqs, Burn(r) \/ DenySet(r) \/ RevokeDel(r) \/ BeginSet(r) PROVE Goal
    <2> DEFINE v(st) == [st |-> st, key |-> loc[r].key]
    <2>1. Control(pc[r], loc[r])
      BY Typed
    <2>2. loc[r].code \in Codes
      BY <1>3, <2>1 DEF Burn, DenySet, RevokeDel, BeginSet, Control
    <2>3. CASE RevokeDel(r)
      BY <2>2, <2>3, InviteSet, Constants DEF RevokeDel, NoInvite, Terminal
    <2>4. CASE ~RevokeDel(r)
      <3>1. loc[r].key \in KeysOf[loc[r].code] /\ loc[r].key \in Keys
        BY <1>3, <2>1, <2>2, <2>4, Constants DEF Burn, DenySet, BeginSet, Control
      <3>2. \A st \in {"waiting", "approved", "denied"} : v(st) \in InviteRecord
        BY <3>1 DEF InviteRecord, Terminal
      <3>3. \E st \in {"waiting", "approved", "denied"} :
              invite' = [invite EXCEPT ![loc[r].code] = v(st)]
        BY <1>3, <2>4 DEF Burn, DenySet, BeginSet
      <3>4. PICK st \in {"waiting", "approved", "denied"} :
              invite' = [invite EXCEPT ![loc[r].code] = v(st)]
        BY <3>3
      <3>5. v(st).key \in KeysOf[loc[r].code] /\ v(st) \in InviteRecord
        BY <3>1, <3>2
      <3> HIDE DEF v
      <3> QED
        BY <2>2, <3>4, <3>5, InviteSet
    <2> QED
      BY <2>3, <2>4
  <1>4. ASSUME NEW r \in Reqs,
               Allocate(r) \/ Rotate(r) \/ Claim(r) \/ StoreToken(r) \/ Deliver(r)
               \/ RearmFind(r) \/ Take(r) \/ Abort(r)
        PROVE  Goal
    BY <1>1, <1>4 DEF Allocate, Rotate, Claim, StoreToken, Deliver, RearmFind, Take, Abort, redis
  <1>5. ASSUME NEW r \in Reqs, NEW c \in Codes,
               \/ \E n \in Names : Approve(r, c, n)
               \/ \E op \in {"deny", "revoke"} : Refuse(r, c, op)
               \/ \E k \in KeysOf[c] : Begin(r, c, k)
               \/ Poll(r, c)
        PROVE  Goal
    BY <1>1, <1>5 DEF Approve, Refuse, Begin, Poll, redis
  <1>6. ASSUME NEW r \in Reqs, NEW t \in Tokens, NEW k \in Keys, Register(r, t, k) PROVE Goal
    BY <1>1, <1>6 DEF Register, redis
  <1>7. ASSUME NEW c \in Codes, ExpireDelivery(c) PROVE Goal
    BY <1>1, <1>7 DEF ExpireDelivery
  <1>8. ASSUME NEW n \in Names, DeleteMachine(n) PROVE Goal
    BY <1>1, <1>8 DEF DeleteMachine
  <1>9. ASSUME UNCHANGED vars PROVE Goal
    BY <1>1, <1>9 DEF vars
  <1> HIDE DEF Goal
  <1>10. ASSUME NEW r \in Reqs, Step(r) \/ Abort(r) PROVE Goal
    BY <1>3, <1>4, <1>10 DEF Step
  <1>11. Goal
    BY <1>2, <1>5, <1>6, <1>7, <1>8, <1>9, <1>10, Steps
  <1> QED
    BY <1>11 DEF Goal

\* The machines a step writes are well typed, and so are the other records.
HistoryTypes ==
  enrolled \in [Codes -> SUBSET Names] /\ spoiled \subseteq Codes /\ stale \subseteq Names
LEMMA StepStore ==
  ASSUME Well, [Next]_vars
  PROVE  /\ machine' \in [Names -> MachineRecord] /\ indexed' \in SUBSET Names
         /\ issued' \in 0..MaxTokens /\ aborts' \in 0..MaxAborts /\ HistoryTypes'
  <1> DEFINE Goal == /\ machine' \in [Names -> MachineRecord] /\ indexed' \in SUBSET Names
                     /\ issued' \in 0..MaxTokens /\ aborts' \in 0..MaxAborts
                     /\ HistoryTypes'
  <1>0. /\ machine \in [Names -> MachineRecord] /\ indexed \in SUBSET Names
        /\ issued \in 0..MaxTokens /\ aborts \in 0..MaxAborts /\ HistoryTypes
    BY DEF Well, TypeOK, HistoryTypes
  <1>1. ASSUME UNCHANGED <<machine, indexed, issued, aborts, enrolled, spoiled, stale>> PROVE Goal
    BY <1>0, <1>1 DEF HistoryTypes
  <1>2. ASSUME NEW r \in Reqs, Rotate(r) PROVE Goal
    <2>1. loc[r].name \in Names /\ loc[r].mach \in MachineRecord
      BY <1>2, Typed DEF Rotate, Control, Locals
    <2> QED
      BY <1>0, <1>2, <2>1 DEF Rotate, Outdates, HistoryTypes
  <1>3. ASSUME NEW r \in Reqs, Claim(r) PROVE Goal
    <2> DEFINE m == [key |-> loc[r].key, owner |-> loc[r].mach.owner, token |-> 0]
    <2>1. loc[r] \in Locals /\ Control("claim", loc[r])
      BY <1>3, Typed DEF Claim
    <2>2. m \in MachineRecord
      BY <2>1, Constants DEF Locals, MachineRecord
    <2>3. loc[r].name \in Names /\ (loc[r].op # "register" => loc[r].code \in Codes)
      BY <2>1 DEF Control
    <2>4. CASE Exists(loc[r].name)
      BY <1>1, <1>3, <2>4 DEF Claim
    <2>5. CASE ~Exists(loc[r].name)
      <3>1. /\ machine' = [machine EXCEPT ![loc[r].name] = m]
            /\ indexed' = indexed \cup {loc[r].name}
            /\ UNCHANGED <<issued, aborts, spoiled>>
            /\ stale' \in {stale, stale \cup {loc[r].name}}
            /\ \/ UNCHANGED enrolled
               \/ /\ loc[r].op # "register"
                  /\ enrolled' = [enrolled EXCEPT ![loc[r].code] = @ \cup {loc[r].name}]
        BY <1>3, <2>5 DEF Claim, Outdates
      <3> HIDE DEF m
      <3> QED
        BY <1>0, <2>2, <2>3, <3>1 DEF HistoryTypes
    <2> QED
      BY <2>4, <2>5
  <1>4. ASSUME NEW r \in Reqs, StoreToken(r) PROVE Goal
    <2>1. loc[r] \in Locals /\ loc[r].name \in Names
      BY <1>4, Typed DEF StoreToken, Control
    <2>2. FreshToken \in 0..MaxTokens
      BY <1>0, <1>4, Constants DEF StoreToken, FreshToken
    <2>3. [loc[r].mach EXCEPT !.token = FreshToken] \in MachineRecord
      BY <2>1, <2>2 DEF Locals, MachineRecord
    <2> QED
      BY <1>0, <1>4, <2>1, <2>2, <2>3 DEF StoreToken, Outdates, HistoryTypes
  <1>5. ASSUME NEW n \in Names, DeleteMachine(n) PROVE Goal
    BY <1>0, <1>5, Constants DEF DeleteMachine, history, HistoryTypes
  <1>6. ASSUME NEW r \in Reqs, Abort(r) PROVE Goal
    <2>1. /\ loc[r].op = "approve" => loc[r].code \in Codes
          /\ pc[r] \in {"store", "deliver"} => loc[r].name \in Names
      BY Typed DEF Control, Idle
    <2> QED
      BY <1>0, <1>6, <2>1, Constants DEF Abort, redis, Spoils, Outdates, HistoryTypes
  <1>7. ASSUME NEW r \in Reqs,
               Allocate(r) \/ Deliver(r) \/ Burn(r) \/ DenySet(r) \/ RevokeDel(r)
               \/ RearmFind(r) \/ Take(r)
        PROVE  Goal
    BY <1>1, <1>7 DEF Allocate, Deliver, Burn, DenySet, RevokeDel, RearmFind, Take,
                      redis, history
  <1>14. ASSUME NEW r \in Reqs, BeginSet(r) PROVE Goal
    <2>1. loc[r].code \in Codes
      BY <1>14, Typed DEF BeginSet, Control
    <2> QED
      BY <1>0, <1>14, <2>1 DEF BeginSet, Spoils, HistoryTypes
  <1>15. ASSUME NEW r \in Reqs, NEW c \in Codes, NEW n \in Names, Approve(r, c, n) PROVE Goal
    BY <1>0, <1>15 DEF Approve, redis, Spoils, HistoryTypes
  <1>8. ASSUME NEW r \in Reqs, NEW c \in Codes,
               \/ \E op \in {"deny", "revoke"} : Refuse(r, c, op)
               \/ \E k \in KeysOf[c] : Begin(r, c, k)
               \/ Poll(r, c)
        PROVE  Goal
    BY <1>1, <1>8 DEF Refuse, Begin, Poll, redis, history
  <1>9. ASSUME NEW r \in Reqs, NEW t \in Tokens, NEW k \in Keys, Register(r, t, k) PROVE Goal
    BY <1>1, <1>9 DEF Register, redis, history
  <1>10. ASSUME NEW c \in Codes, Create(c) \/ ExpireInvite(c) \/ ExpireDelivery(c) PROVE Goal
    BY <1>1, <1>10 DEF Create, ExpireInvite, ExpireDelivery, history
  <1>11. ASSUME UNCHANGED vars PROVE Goal
    BY <1>1, <1>11 DEF vars
  <1> HIDE DEF Goal
  <1>12. ASSUME NEW r \in Reqs, Step(r) PROVE Goal
    BY <1>2, <1>3, <1>4, <1>7, <1>12, <1>14 DEF Step
  <1>13. Goal
    BY <1>5, <1>6, <1>8, <1>9, <1>10, <1>11, <1>12, <1>15, Steps
  <1> QED
    BY <1>13 DEF Goal

-----------------------------------------------------------------------------
(***************************************************************************)
(* Tokens.                                                                 *)
(***************************************************************************)
DeliveryRecord == [name : Names \cup {NoName}, key : Keys \cup {NoKey}, token : 0..MaxTokens]

\* A token on its way is in one place: with the handler about to deliver it,
\* in one delivery, or with one box.
FreshUnsent == \A t \in Tokens : t > issued => delivered[t] = <<>>
HeldInv == \A r \in Reqs : pc[r] = "deliver" =>
  /\ loc[r].token \in 1..issued
  /\ delivered[loc[r].token] = <<>>
  /\ \A c \in Codes : delivery[c].token # loc[r].token
  /\ \A q \in Reqs : q # r /\ pc[q] = "deliver" => loc[q].token # loc[r].token
WaitingInv == \A c \in Codes : delivery[c].token # 0 =>
  /\ delivery[c].token \in 1..issued
  /\ delivered[delivery[c].token] = <<>>
  /\ \A d \in Codes : d # c => delivery[d].token # delivery[c].token
TokenInv == FreshUnsent /\ HeldInv /\ WaitingInv /\ DeliveredOnce

DeliveryTypes == delivery \in [Codes -> DeliveryRecord] /\ delivered \in [Tokens -> Seq(Codes)]

\* No handler comes to the point of delivering, or leaves with another token.
NoneArrives == \A r \in Reqs : pc'[r] = "deliver" => pc[r] = "deliver" /\ loc'[r] = loc[r]

\* A handler that moves elsewhere, or returns, does not come to deliver.
LEMMA EnterElsewhere ==
  ASSUME TypeOK, NEW r \in Reqs, NEW p, NEW l, Enter(r, p, l), p # "deliver"
  PROVE  NoneArrives
  BY Moved DEF NoneArrives

\* A handler that returns brings no token anywhere.
LEMMA ReturnElsewhere == ASSUME TypeOK, NEW r \in Reqs, Return(r) PROVE NoneArrives
  BY EnterElsewhere DEF Return

\* A step that issues, delivers and takes nothing.
LEMMA TokensKept ==
  ASSUME Well, TokenInv, NoneArrives, UNCHANGED <<delivery, issued, delivered>>
  PROVE  TokenInv' /\ DeliveryTypes'
  BY DEF Well, TypeOK, TokenInv, NoneArrives, FreshUnsent, HeldInv, WaitingInv, DeliveredOnce,
         DeliveryTypes, DeliveryRecord

\* A new token is held by the handler that drew it, and nowhere else.
LEMMA StoreTokenTokens ==
  ASSUME Well, TokenInv, NEW r \in Reqs, StoreToken(r)
  PROVE  TokenInv' /\ DeliveryTypes'
  <1>1. issued \in Nat /\ issued' = issued + 1 /\ issued + 1 \in Tokens
    BY Constants DEF Well, TypeOK, StoreToken, FreshToken, Tokens
  <1>2. UNCHANGED <<delivery, delivered>>
    BY DEF StoreToken, history
  <1>3. /\ pc'[r] = "deliver" /\ loc'[r] = [loc[r] EXCEPT !.token = FreshToken]
        /\ \A q \in Reqs \ {r} : pc'[q] = pc[q] /\ loc'[q] = loc[q]
    BY Moved DEF Well, StoreToken
  <1>4. loc'[r].token = issued + 1
    BY <1>3, Typed DEF FreshToken, Locals
  <1>5. FreshUnsent' /\ delivered[issued + 1] = <<>>
    BY <1>1, <1>2 DEF TokenInv, FreshUnsent, Tokens
  <1>6. \A c \in Codes : delivery[c].token \in Nat /\ delivery[c].token <= issued
    BY <1>1 DEF TokenInv, WaitingInv, Well, TypeOK
  <1>7. HeldInv'
    <2> SUFFICES ASSUME NEW q \in Reqs, pc'[q] = "deliver"
                 PROVE  /\ loc'[q].token \in 1..(issued')
                        /\ delivered'[loc'[q].token] = <<>>
                        /\ \A c \in Codes : delivery'[c].token # loc'[q].token
                        /\ \A x \in Reqs : x # q /\ pc'[x] = "deliver" =>
                             loc'[x].token # loc'[q].token
      BY DEF HeldInv
    <2>1. \A x \in Reqs \ {r} : pc'[x] = "deliver" => loc'[x].token \in 1..issued
      BY <1>3 DEF TokenInv, HeldInv
    <2>2. CASE q = r
      BY <1>1, <1>2, <1>4, <1>5, <1>6, <2>1, <2>2
    <2>3. CASE q # r
      <3>1. pc[q] = "deliver" /\ loc'[q] = loc[q] /\ loc[q].token \in 1..issued
        BY <1>3, <2>3 DEF TokenInv, HeldInv
      <3>2. /\ delivered'[loc'[q].token] = <<>>
            /\ \A c \in Codes : delivery'[c].token # loc'[q].token
        BY <1>2, <3>1 DEF TokenInv, HeldInv
      <3>3. ASSUME NEW x \in Reqs, x # q, pc'[x] = "deliver" PROVE loc'[x].token # loc'[q].token
        <4>1. CASE x = r
          BY <1>1, <1>4, <3>1, <4>1
        <4>2. CASE x # r
          BY <1>3, <3>1, <3>3, <4>2 DEF TokenInv, HeldInv
        <4> QED
          BY <4>1, <4>2
      <3>4. loc'[q].token \in 1..(issued')
        BY <1>1, <3>1
      <3> QED
        BY <3>2, <3>3, <3>4
    <2> QED
      BY <2>2, <2>3
  <1>8. WaitingInv'
    BY <1>1, <1>2 DEF TokenInv, WaitingInv
  <1> QED
    BY <1>2, <1>5, <1>7, <1>8
       DEF TokenInv, DeliveredOnce, DeliveryTypes, DeliveryRecord, Well, TypeOK

\* Delivering moves the token from the handler into one delivery.
LEMMA DeliverTokens ==
  ASSUME Well, TokenInv, NEW r \in Reqs, Deliver(r)
  PROVE  TokenInv' /\ DeliveryTypes'
  <1> DEFINE c == loc[r].code
             d == [name |-> loc[r].name, key |-> loc[r].mach.key, token |-> loc[r].token]
  <1>1. loc[r] \in Locals /\ c \in Codes /\ pc[r] = "deliver"
    BY Typed DEF Deliver, Control
  <1>2. delivery' = [delivery EXCEPT ![c] = d] /\ UNCHANGED <<issued, delivered>>
    BY DEF Deliver, history
  <1>3. d \in DeliveryRecord /\ d.token = loc[r].token
    BY <1>1 DEF Locals, MachineRecord, DeliveryRecord
  <1>4. NoneArrives /\ pc'[r] # "deliver"
    BY Moved, EnterElsewhere DEF Deliver, Goto, Return, Well
  <1> HIDE DEF c, d
  <1>5. DeliveryTypes'
    BY <1>1, <1>2, <1>3 DEF DeliveryTypes, DeliveryRecord, Well, TypeOK
  <1>6. delivery'[c] = d /\ \A e \in Codes \ {c} : delivery'[e] = delivery[e]
    BY <1>1, <1>2 DEF Well, TypeOK
  <1>7. /\ d.token \in 1..issued /\ delivered[d.token] = <<>>
        /\ \A e \in Codes : delivery[e].token # d.token
        /\ \A q \in Reqs : q # r /\ pc[q] = "deliver" => loc[q].token # d.token
    BY <1>1, <1>3 DEF TokenInv, HeldInv
  <1>8. WaitingInv'
    BY <1>2, <1>6, <1>7 DEF TokenInv, WaitingInv
  <1>9. HeldInv'
    BY <1>2, <1>4, <1>6, <1>7 DEF TokenInv, HeldInv, NoneArrives
  <1> QED
    BY <1>2, <1>5, <1>8, <1>9 DEF TokenInv, FreshUnsent, DeliveredOnce

\* GETDEL moves the token from the delivery to the one box that polls.
LEMMA TakeTokens ==
  ASSUME Well, TokenInv, NEW r \in Reqs, Take(r)
  PROVE  TokenInv' /\ DeliveryTypes'
  <1> DEFINE c == loc[r].code
             t == delivery[c].token
  <1>1. c \in Codes
    BY Typed DEF Take, Control
  <1>2. delivery' = [delivery EXCEPT ![c] = NoDelivery] /\ UNCHANGED issued
    BY DEF Take
  <1>3. delivered' = IF t = 0 THEN delivered ELSE [delivered EXCEPT ![t] = Append(@, c)]
    BY DEF Take
  <1>4. NoneArrives
    BY ReturnElsewhere DEF Take, Well
  <1>5. t \in 0..MaxTokens /\ delivered \in [Tokens -> Seq(Codes)]
    BY <1>1 DEF Well, TypeOK
  <1> HIDE DEF c
  <1>6. /\ delivery'[c].token = 0
        /\ \A e \in Codes \ {c} : delivery'[e] = delivery[e]
    BY <1>1, <1>2 DEF Well, TypeOK, NoDelivery
  <1>7. CASE t = 0
    BY <1>1, <1>2, <1>3, <1>4, <1>6, <1>7, Constants
       DEF Well, TypeOK, TokenInv, FreshUnsent, HeldInv, WaitingInv, DeliveredOnce, NoneArrives,
           DeliveryTypes, DeliveryRecord
  <1>8. CASE t # 0
    <2>1. /\ t \in Tokens /\ t \in 1..issued /\ delivered[t] = <<>>
          /\ \A e \in Codes \ {c} : delivery[e].token # t
          /\ \A q \in Reqs : pc[q] = "deliver" => loc[q].token # t
      BY <1>1, <1>5, <1>8 DEF TokenInv, WaitingInv, HeldInv, Tokens
    <2> HIDE DEF t
    <2>2. /\ delivered'[t] = Append(delivered[t], c)
          /\ \A u \in Tokens \ {t} : delivered'[u] = delivered[u]
      BY <1>3, <1>5, <1>8, <2>1
    <2>3. Len(delivered'[t]) = 1
      BY <1>1, <2>1, <2>2
    <2>4. delivered' \in [Tokens -> Seq(Codes)]
      <3>1. Append(delivered[t], c) \in Seq(Codes)
        BY <1>1, <1>5, <2>1, AppendProperties
      <3> QED
        BY <1>3, <1>5, <1>8, <2>1, <3>1
    <2>5. DeliveryTypes'
      BY <1>1, <1>2, <2>4, Constants DEF DeliveryTypes, DeliveryRecord, Well, TypeOK
    <2>6. issued \in Nat /\ 1..issued \subseteq Tokens
      BY Typed, Constants DEF Tokens
    <2>7. FreshUnsent'
      <3> SUFFICES ASSUME NEW u \in Tokens, u > issued PROVE delivered'[u] = <<>>
        BY <1>2 DEF FreshUnsent
      <3>1. u # t
        BY <2>1, <2>6
      <3> QED
        BY <2>2, <3>1 DEF TokenInv, FreshUnsent
    <2>8. HeldInv'
      <3> SUFFICES ASSUME NEW q \in Reqs, pc'[q] = "deliver"
                   PROVE  /\ loc'[q].token \in 1..(issued')
                          /\ delivered'[loc'[q].token] = <<>>
                          /\ \A e \in Codes : delivery'[e].token # loc'[q].token
                          /\ \A x \in Reqs : x # q /\ pc'[x] = "deliver" =>
                               loc'[x].token # loc'[q].token
        BY DEF HeldInv
      <3>1. pc[q] = "deliver" /\ loc'[q] = loc[q] /\ loc[q].token # t /\ loc[q].token \in 1..issued
        BY <1>4, <2>1 DEF NoneArrives, TokenInv, HeldInv
      <3>2. delivered'[loc'[q].token] = <<>>
        BY <2>2, <2>6, <3>1 DEF TokenInv, HeldInv
      <3>3. \A e \in Codes : delivery'[e].token # loc'[q].token
        BY <1>6, <2>6, <3>1 DEF TokenInv, HeldInv
      <3> QED
        BY <1>2, <1>4, <3>1, <3>2, <3>3 DEF NoneArrives, TokenInv, HeldInv
    <2>9. WaitingInv'
      <3> SUFFICES ASSUME NEW e \in Codes, delivery'[e].token # 0
                   PROVE  /\ delivery'[e].token \in 1..(issued')
                          /\ delivered'[delivery'[e].token] = <<>>
                          /\ \A f \in Codes : f # e => delivery'[f].token # delivery'[e].token
        BY DEF WaitingInv
      <3>1. e # c /\ delivery'[e] = delivery[e] /\ delivery[e].token # t
        BY <1>6, <2>1
      <3>2. delivery[e].token \in 1..issued /\ delivered[delivery[e].token] = <<>>
        BY <3>1 DEF TokenInv, WaitingInv
      <3>3. delivered'[delivery'[e].token] = <<>>
        BY <2>2, <2>6, <3>1, <3>2
      <3>4. \A f \in Codes : f # e => delivery'[f].token # delivery'[e].token
        BY <1>6, <3>1 DEF TokenInv, WaitingInv
      <3> QED
        BY <1>2, <3>1, <3>2, <3>3, <3>4
    <2>10. DeliveredOnce'
      BY <2>2, <2>3 DEF TokenInv, DeliveredOnce
    <2> QED
      BY <2>5, <2>7, <2>8, <2>9, <2>10 DEF TokenInv
  <1> QED
    BY <1>7, <1>8

\* A delivery that expires takes its token with it.
LEMMA ExpireTokens ==
  ASSUME Well, TokenInv, NEW c \in Codes, ExpireDelivery(c)
  PROVE  TokenInv' /\ DeliveryTypes'
  <1>1. delivery' = [delivery EXCEPT ![c] = NoDelivery] /\ UNCHANGED <<issued, pc, loc, delivered>>
    BY DEF ExpireDelivery, history
  <1>2. delivery'[c].token = 0 /\ \A e \in Codes \ {c} : delivery'[e] = delivery[e]
    BY <1>1 DEF Well, TypeOK, NoDelivery
  <1>3. DeliveryTypes'
    BY <1>1, Constants DEF DeliveryTypes, DeliveryRecord, Well, TypeOK
  <1> QED
    BY <1>1, <1>2, <1>3, Typed
       DEF TokenInv, FreshUnsent, HeldInv, WaitingInv, DeliveredOnce

\* Every step leaves each token in one place.
LEMMA StepTokens ==
  ASSUME Well, TokenInv, [Next]_vars
  PROVE  TokenInv' /\ DeliveryTypes'
  <1> DEFINE Goal == TokenInv' /\ DeliveryTypes'
  <1>1. ASSUME NEW r \in Reqs, NEW c \in Codes,
               \/ \E n \in Names : Approve(r, c, n)
               \/ \E op \in {"deny", "revoke"} : Refuse(r, c, op)
               \/ \E k \in KeysOf[c] : Begin(r, c, k)
               \/ Poll(r, c)
        PROVE  Goal
    BY <1>1, TokensKept, EnterElsewhere DEF Approve, Refuse, Begin, Poll, redis, history, Well
  <1>2. ASSUME NEW r \in Reqs, NEW t \in Tokens, NEW k \in Keys, Register(r, t, k) PROVE Goal
    BY <1>2, TokensKept, EnterElsewhere DEF Register, redis, history, Well
  <1>3. ASSUME NEW r \in Reqs, Allocate(r) \/ Claim(r) \/ RearmFind(r) PROVE Goal
    <2>1. NoneArrives
      <3>1. \E p, l : p # "deliver" /\ Enter(r, p, l)
        BY <1>3 DEF Allocate, Claim, RearmFind, Goto, Return
      <3> QED
        BY <3>1, EnterElsewhere DEF Well
    <2>2. UNCHANGED <<delivery, issued, delivered>>
      BY <1>3 DEF Allocate, Claim, RearmFind, redis, history
    <2> QED
      BY <2>1, <2>2, TokensKept
  <1>4. ASSUME NEW r \in Reqs,
               Rotate(r) \/ Burn(r) \/ DenySet(r) \/ RevokeDel(r) \/ BeginSet(r) \/ Abort(r)
        PROVE  Goal
    BY <1>4, TokensKept, ReturnElsewhere
       DEF Rotate, Burn, DenySet, RevokeDel, BeginSet, Abort, redis, history, Well
  <1>5. ASSUME UNCHANGED <<pc, loc, delivery, issued, delivered>> PROVE Goal
    BY <1>5, TokensKept DEF NoneArrives
  <1>6. ASSUME NEW c \in Codes, Create(c) \/ ExpireInvite(c) \/ ExpireDelivery(c) PROVE Goal
    BY <1>5, <1>6, ExpireTokens DEF Create, ExpireInvite, history
  <1>7. ASSUME NEW n \in Names, DeleteMachine(n) PROVE Goal
    BY <1>5, <1>7 DEF DeleteMachine, history
  <1>8. ASSUME UNCHANGED vars PROVE Goal
    BY <1>5, <1>8 DEF vars
  <1> HIDE DEF Goal
  <1>9. ASSUME NEW r \in Reqs, StoreToken(r) \/ Deliver(r) \/ Take(r) PROVE Goal
    BY <1>9, StoreTokenTokens, DeliverTokens, TakeTokens DEF Goal
  <1>10. ASSUME NEW r \in Reqs, Step(r) PROVE Goal
    BY <1>3, <1>4, <1>9, <1>10 DEF Step
  <1>11. Goal
    BY <1>1, <1>2, <1>4, <1>6, <1>7, <1>8, <1>10, Steps
  <1> QED
    BY <1>11 DEF Goal

\* Together: Well and TokenInv are inductive.
LEMMA StepWell ==
  ASSUME Well, TokenInv, [Next]_vars
  PROVE  Well' /\ TokenInv'
  <1>1. HandlerTypes' /\ ControlInv'
    BY StepHandlers
  <1>2. invite' \in [Codes -> InviteRecord] /\ DialedInv'
    BY StepInvite
  <1>3. /\ machine' \in [Names -> MachineRecord] /\ indexed' \in SUBSET Names
        /\ issued' \in 0..MaxTokens /\ aborts' \in 0..MaxAborts /\ HistoryTypes'
    BY StepStore
  <1>4. TokenInv' /\ DeliveryTypes'
    BY StepTokens
  <1> QED
    BY <1>1, <1>2, <1>3, <1>4
       DEF Well, TypeOK, HandlerTypes, Locals, DeliveryTypes, DeliveryRecord, HistoryTypes

\* No handler runs and no token exists at first.
LEMMA InitWell == ASSUME Init PROVE Well /\ TokenInv
  <1>1. TypeOK
    <2>1. delivered \in [Tokens -> Seq(Codes)]
      BY DEF Init
    <2>2. issued \in 0..MaxTokens /\ aborts \in 0..MaxAborts /\ HistoryTypes
      BY Constants DEF Init, HistoryTypes
    <2> QED
      BY <2>1, <2>2, Constants DEF Init, TypeOK, Locals, Points, HistoryTypes
  <1>2. ControlInv /\ DialedInv
    BY Constants DEF Init, ControlInv, DialedInv, Undrawn, Terminal
  <1>3. TokenInv
    BY Constants
       DEF Init, NoDelivery, TokenInv, FreshUnsent, HeldInv, WaitingInv, DeliveredOnce
  <1> QED
    BY <1>1, <1>2, <1>3 DEF Well

\* Types and tokens hold in every reachable state.
LEMMA WellHolds == Spec => [](Well /\ TokenInv)
  <1>1. Well /\ TokenInv /\ [Next]_vars => (Well /\ TokenInv)'
    BY StepWell
  <1> QED
    BY <1>1, InitWell, PTL DEF Spec

\* Every reachable state of the enrollment is well typed: "a waiting invite
\* always carries the candidate's pubkey", and so does one that was decided.
THEOREM TypeCorrect == Spec => []TypeOK
  <1>1. Well => TypeOK
    BY DEF Well
  <1> QED
    BY <1>1, WellHolds, PTL

\* No token leaves the edge twice, however polls, re-arms and aborted
\* handlers interleave.
THEOREM NoTokenTwice == Spec => []DeliveredOnce
  <1>1. TokenInv => DeliveredOnce
    BY DEF TokenInv
  <1> QED
    BY <1>1, WellHolds, PTL

-----------------------------------------------------------------------------
(***************************************************************************)
(* How the handlers move.                                                  *)
(***************************************************************************)
Back(r) == pc'[r] = "idle" /\ loc'[r] = Idle
Forth(r) ==
  /\ loc'[r].op = loc[r].op /\ loc'[r].code = loc[r].code /\ loc'[r].key = loc[r].key
  /\ pc[r] # "rearm" => loc'[r].name = loc[r].name
  /\ pc[r] \notin {"store", "rearmStore"} => loc'[r].token = loc[r].token
  /\ \/ pc[r] = "allocate" /\ pc'[r] \in {"claim", "rotate"}
     \/ pc[r] = "claim" /\ pc'[r] = "store" /\ loc[r].op # "register"
     \/ pc[r] \in {"store", "rearmStore"} /\ pc'[r] = "deliver"
     \/ pc[r] = "deliver" /\ pc'[r] = "burn" /\ loc[r].op = "approve"
     \/ pc[r] = "rearm" /\ pc'[r] = "rearmStore"
Alone(r) == \A q \in Reqs \ {r} : pc'[q] = pc[q] /\ loc'[q] = loc[q]

\* Moving a handler, or returning from it, leaves the others alone.
LEMMA EnterAlone ==
  ASSUME TypeOK, NEW r \in Reqs, NEW p, NEW l, Enter(r, p, l)
  PROVE  Alone(r) /\ pc'[r] = p /\ loc'[r] = l
  BY Moved DEF Alone

\* A handler that returns is the only one that moves.
LEMMA ReturnAlone == ASSUME TypeOK, NEW r \in Reqs, Return(r) PROVE Alone(r) /\ Back(r)
  BY Moved DEF Alone, Back, Return

\* A handler under way returns or goes on to its next point.
LEMMA HandlerGoesOn ==
  ASSUME Well, NEW r \in Reqs, Step(r) \/ Abort(r)
  PROVE  Alone(r) /\ (Back(r) \/ Forth(r)) /\ pc[r] # "idle"
  <1>0. TypeOK /\ loc[r] \in Locals
    BY Typed DEF Well
  <1>1. CASE Rotate(r) \/ Burn(r) \/ DenySet(r) \/ RevokeDel(r) \/ BeginSet(r) \/ Take(r)
             \/ Abort(r)
    BY <1>0, <1>1, ReturnAlone DEF Rotate, Burn, DenySet, RevokeDel, BeginSet, Take, Abort
  <1>2. CASE Allocate(r)
    <2> DEFINE l == [loc[r] EXCEPT !.mach = [machine[loc[r].name] EXCEPT !.key = loc[r].key]]
    <2>1. /\ l.op = loc[r].op /\ l.code = loc[r].code /\ l.key = loc[r].key
          /\ l.name = loc[r].name /\ l.token = loc[r].token
      BY <1>0 DEF Locals
    <2>2. pc[r] = "allocate" /\ (Enter(r, "claim", loc[r]) \/ Return(r) \/ Enter(r, "rotate", l))
      BY <1>2 DEF Allocate, Goto
    <2> HIDE DEF l
    <2> QED
      BY <1>0, <2>1, <2>2, EnterAlone, ReturnAlone DEF Forth
  <1>3. CASE Claim(r)
    <2> DEFINE l == [loc[r] EXCEPT !.mach = [key |-> loc[r].key, owner |-> loc[r].mach.owner,
                                             token |-> 0]]
    <2>1. /\ l.op = loc[r].op /\ l.code = loc[r].code /\ l.key = loc[r].key
          /\ l.name = loc[r].name /\ l.token = loc[r].token
      BY <1>0 DEF Locals
    <2>2. pc[r] = "claim" /\ (Return(r) \/ (loc[r].op # "register" /\ Enter(r, "store", l)))
      BY <1>3 DEF Claim
    <2> HIDE DEF l
    <2> QED
      BY <1>0, <2>1, <2>2, EnterAlone, ReturnAlone DEF Forth
  <1>4. CASE StoreToken(r)
    <2> DEFINE l == [loc[r] EXCEPT !.token = FreshToken]
    <2>1. /\ l.op = loc[r].op /\ l.code = loc[r].code /\ l.key = loc[r].key
          /\ l.name = loc[r].name
      BY <1>0 DEF Locals
    <2>2. pc[r] \in {"store", "rearmStore"} /\ Enter(r, "deliver", l)
      BY <1>4 DEF StoreToken
    <2> HIDE DEF l
    <2> QED
      BY <1>0, <2>1, <2>2, EnterAlone DEF Forth
  <1>5. CASE Deliver(r)
    BY <1>0, <1>5, EnterAlone, ReturnAlone DEF Deliver, Goto, Forth
  <1>6. CASE RearmFind(r)
    <2>1. ASSUME NEW n, Enter(r, "rearmStore", [loc[r] EXCEPT !.name = n, !.mach = machine[n]])
          PROVE  Alone(r) /\ Forth(r)
      <3> DEFINE l == [loc[r] EXCEPT !.name = n, !.mach = machine[n]]
      <3>1. /\ l.op = loc[r].op /\ l.code = loc[r].code /\ l.key = loc[r].key
            /\ l.token = loc[r].token
        BY <1>0 DEF Locals
      <3>2. Enter(r, "rearmStore", l)
        BY <2>1
      <3> HIDE DEF l
      <3> QED
        BY <1>0, <1>6, <3>1, <3>2, EnterAlone DEF RearmFind, Forth
    <2> QED
      BY <1>0, <1>6, <2>1, ReturnAlone DEF RearmFind
  <1> QED
    BY <1>1, <1>2, <1>3, <1>4, <1>5, <1>6 DEF Step

\* How a handler starts: on an invite, or on a machine only.
Starts(r, c, op, p) ==
  /\ pc[r] = "idle" /\ loc[r] = Idle
  /\ Alone(r) /\ pc'[r] = p /\ loc'[r].op = op /\ loc'[r].code = c
  /\ p \in {"allocate", "deny", "revoke", "set", "rearm", "take"}
  /\ UNCHANGED <<invite, delivery, machine, issued, delivered, enrolled, stale>>

\* An idle handler has no local variables.
LEMMA IdleHandler == ASSUME Well, NEW r \in Reqs, pc[r] = "idle" PROVE loc[r] = Idle
  BY Typed DEF Control

\* An approval starts on a waiting invite; it spoils it if another one, under
\* another name, is under way.
LEMMA ApproveStarts ==
  ASSUME Well, NEW r \in Reqs, NEW c \in Codes, NEW n \in Names, Approve(r, c, n)
  PROVE  /\ Starts(r, c, "approve", "allocate") /\ invite[c].st = "waiting"
         /\ loc'[r].name = n /\ spoiled \subseteq spoiled'
         /\ c \notin spoiled' => \A q \in Approving(c) : loc[q].name = n
  BY IdleHandler, EnterAlone DEF Well, Approve, Starts, redis, Spoils

\* A denial or revocation starts with what it read of the invite.
LEMMA RefuseStarts ==
  ASSUME Well, NEW r \in Reqs, NEW c \in Codes, NEW op \in {"deny", "revoke"}, Refuse(r, c, op)
  PROVE  Starts(r, c, op, op) /\ UNCHANGED spoiled
  <1> DEFINE l == [Idle EXCEPT !.op = op, !.code = c, !.seen = invite[c].st, !.key = invite[c].key]
  <1>1. l.op = op /\ l.code = c
    BY DEF Idle
  <1>2. Enter(r, op, l)
    BY DEF Refuse
  <1> HIDE DEF l
  <1>3. Alone(r) /\ pc'[r] = op /\ loc'[r] = l
    BY <1>2, EnterAlone DEF Well
  <1> QED
    BY <1>1, <1>3, IdleHandler DEF Refuse, Starts, redis, history

\* A dial starts on an open invite, or re-arms an approved one.
LEMMA BeginStarts ==
  ASSUME Well, NEW r \in Reqs, NEW c \in Codes, NEW k \in KeysOf[c], Begin(r, c, k)
  PROVE  (Starts(r, c, "begin", "set") \/ Starts(r, c, "begin", "rearm")) /\ UNCHANGED spoiled
  <1> DEFINE l == [Idle EXCEPT !.op = "begin", !.code = c, !.seen = invite[c].st, !.key = k]
  <1>1. l.op = "begin" /\ l.code = c
    BY DEF Idle
  <1>2. Enter(r, "set", l) \/ Enter(r, "rearm", l)
    BY DEF Begin
  <1> HIDE DEF l
  <1>3. Alone(r) /\ loc'[r] = l /\ pc'[r] \in {"set", "rearm"}
    BY <1>2, EnterAlone DEF Well
  <1> QED
    BY <1>1, <1>3, IdleHandler DEF Begin, Starts, redis, history

\* A poll starts at the GETDEL of the delivery.
LEMMA PollStarts ==
  ASSUME Well, NEW r \in Reqs, NEW c \in Codes, Poll(r, c)
  PROVE  Starts(r, c, "poll", "take") /\ UNCHANGED spoiled
  <1> DEFINE l == [Idle EXCEPT !.op = "poll", !.code = c, !.seen = invite[c].st]
  <1>1. l.op = "poll" /\ l.code = c
    BY DEF Idle
  <1>2. Enter(r, "take", l)
    BY DEF Poll
  <1> HIDE DEF l
  <1>3. Alone(r) /\ pc'[r] = "take" /\ loc'[r] = l
    BY <1>2, EnterAlone DEF Well
  <1> QED
    BY <1>1, <1>3, IdleHandler DEF Poll, Starts, redis, history

\* A registration starts for the machine whose token it shows.
LEMMA RegisterStarts ==
  ASSUME Well, NEW r \in Reqs, NEW t \in Tokens, NEW k \in Keys, Register(r, t, k)
  PROVE  /\ Starts(r, NoCode, "register", "allocate") /\ UNCHANGED spoiled
         /\ loc'[r].key = k /\ loc'[r].token = t
         /\ \E i \in DOMAIN delivered[t] : k \in KeysOf[delivered[t][i]]
  <1>1. PICK n \in Listed :
          Enter(r, "allocate", [Idle EXCEPT !.op = "register", !.name = n, !.key = k,
                                            !.mach = machine[n], !.token = t])
    BY DEF Register
  <1> DEFINE l == [Idle EXCEPT !.op = "register", !.name = n, !.key = k, !.mach = machine[n],
                               !.token = t]
  <1>2. l.op = "register" /\ l.code = NoCode /\ l.key = k /\ l.token = t
    BY DEF Idle
  <1>3. Enter(r, "allocate", l)
    BY <1>1
  <1> HIDE DEF l
  <1>4. Alone(r) /\ pc'[r] = "allocate" /\ loc'[r] = l
    BY <1>3, EnterAlone DEF Well
  <1> QED
    BY <1>2, <1>4, IdleHandler DEF Register, Starts, redis, history

\* A step of the world moves no handler.
LEMMA WorldSteps ==
  ASSUME NEW c, Create(c) \/ ExpireInvite(c) \/ ExpireDelivery(c) \/ DeleteMachine(c)
                \/ UNCHANGED vars
  PROVE  UNCHANGED <<pc, loc, issued, delivered, enrolled, spoiled, stale>>
  BY DEF Create, ExpireInvite, ExpireDelivery, DeleteMachine, vars, history

\* The steps of Next, by how they move the handlers.
LEMMA Kinds ==
  ASSUME Well, [Next]_vars
  PROVE  \/ \E r \in Reqs, c \in Codes, n \in Names : Approve(r, c, n)
         \/ \E r \in Reqs : \E c, op, p :
              Starts(r, c, op, p) /\ op # "approve" /\ UNCHANGED spoiled
         \/ \E r \in Reqs : Step(r) \/ Abort(r)
         \/ \E c : Create(c) \/ ExpireInvite(c) \/ ExpireDelivery(c) \/ DeleteMachine(c)
                   \/ UNCHANGED vars
  <1> DEFINE Other == \E r \in Reqs : \E c, op, p :
                        Starts(r, c, op, p) /\ op # "approve" /\ UNCHANGED spoiled
  <1>1. ASSUME NEW r \in Reqs, NEW c \in Codes, NEW op \in {"deny", "revoke"}, Refuse(r, c, op)
        PROVE  Other
    BY <1>1, RefuseStarts
  <1>2. ASSUME NEW r \in Reqs, NEW c \in Codes, NEW k \in KeysOf[c], Begin(r, c, k) PROVE Other
    BY <1>2, BeginStarts
  <1>3. ASSUME NEW r \in Reqs, NEW c \in Codes, Poll(r, c) PROVE Other
    BY <1>3, PollStarts
  <1>4. ASSUME NEW r \in Reqs, NEW t \in Tokens, NEW k \in Keys, Register(r, t, k) PROVE Other
    BY <1>4, RegisterStarts
  <1> HIDE DEF Other
  <1>5. \/ \E r \in Reqs, c \in Codes, n \in Names : Approve(r, c, n)
        \/ Other
        \/ \E r \in Reqs : Step(r) \/ Abort(r)
        \/ \E c : Create(c) \/ ExpireInvite(c) \/ ExpireDelivery(c) \/ DeleteMachine(c)
                  \/ UNCHANGED vars
    BY <1>1, <1>2, <1>3, <1>4, Steps
  <1> QED
    BY <1>5 DEF Other

-----------------------------------------------------------------------------
(***************************************************************************)
(* Decisions.                                                              *)
(***************************************************************************)

\* Who writes an invite, and how.
LEMMA InviteMoves ==
  ASSUME Well, [Next]_vars, NEW c \in Codes
  PROVE  \/ invite'[c] = invite[c]
         \/ invite'[c] = NoInvite
         \/ invite[c].st = "undrawn" /\ Create(c)
         \/ \E r \in Reqs : /\ loc[r].code = c
                            /\ Burn(r) \/ DenySet(r) \/ BeginSet(r)
  <1> DEFINE Goal == \/ invite'[c] = invite[c]
                     \/ invite'[c] = NoInvite
                     \/ invite[c].st = "undrawn" /\ Create(c)
                     \/ \E r \in Reqs : /\ loc[r].code = c
                                        /\ Burn(r) \/ DenySet(r) \/ BeginSet(r)
  <1>1. ASSUME NEW r \in Reqs, NEW d, NEW op, NEW p, Starts(r, d, op, p) PROVE Goal
    BY <1>1 DEF Starts
  <1>2. ASSUME NEW r \in Reqs, NEW d \in Codes, NEW n \in Names, Approve(r, d, n) PROVE Goal
    BY <1>2 DEF Approve, redis
  <1>3. ASSUME NEW r \in Reqs, Step(r) \/ Abort(r) PROVE Goal
    <2>1. CASE Burn(r) \/ DenySet(r) \/ BeginSet(r) \/ RevokeDel(r)
      BY <2>1 DEF Burn, DenySet, BeginSet, RevokeDel, Well, TypeOK
    <2>2. CASE ~(Burn(r) \/ DenySet(r) \/ BeginSet(r) \/ RevokeDel(r))
      BY <1>3, <2>2 DEF Step, Allocate, Rotate, Claim, StoreToken, Deliver, RearmFind, Take,
                        Abort, redis
    <2> QED
      BY <2>1, <2>2
  <1>4. ASSUME NEW d, Create(d) \/ ExpireInvite(d) \/ ExpireDelivery(d) \/ DeleteMachine(d)
                      \/ UNCHANGED vars
        PROVE  Goal
    BY <1>4 DEF Create, ExpireInvite, ExpireDelivery, DeleteMachine, vars, Well, TypeOK
  <1> HIDE DEF Goal
  <1>5. Goal
    BY <1>1, <1>2, <1>3, <1>4, Kinds
  <1> QED
    BY <1>5 DEF Goal

\* "Both terminal and burn the code": once no handler holds a reading of the
\* invite from before its decision, none changes it; it can only expire or be
\* revoked.
THEOREM DecisionsFinal == Spec => Burned
  <1>1. ASSUME Well, [Next]_vars, NEW c \in Codes, invite[c].st \in Terminal,
               \A r \in Reqs : loc[r].code = c => loc[r].seen = invite[c].st
        PROVE  invite'[c] \in {invite[c], NoInvite}
    <2>1. ASSUME NEW r \in Reqs, loc[r].code = c, Burn(r) \/ DenySet(r) \/ BeginSet(r)
          PROVE  FALSE
      <3>1. loc[r].seen \in {"dormant", "waiting"}
        <4>1. pc[r] \in {"burn", "deny", "set"} /\ Control(pc[r], loc[r])
          BY <1>1, <2>1, Typed DEF Burn, DenySet, BeginSet
        <4> QED
          BY <4>1 DEF Control
      <3> QED
        BY <1>1, <2>1, <3>1 DEF Terminal
    <2>2. invite[c].st # "undrawn"
      BY <1>1 DEF Terminal
    <2> QED
      BY <1>1, <2>1, <2>2, InviteMoves
  <1>2. Well /\ TokenInv => Well
    OBVIOUS
  <1>3. Well /\ [Next]_vars =>
          \A c \in Codes :
            /\ invite[c].st \in Terminal
            /\ \A r \in Reqs : loc[r].code = c => loc[r].seen = invite[c].st
            => invite'[c] \in {invite[c], NoInvite}
    BY <1>1
  <1> QED
    BY <1>2, <1>3, WellHolds, PTL DEF Spec, Burned

-----------------------------------------------------------------------------
(***************************************************************************)
(* One machine per code.                                                   *)
(***************************************************************************)

\* The approvals of an invite that is not spoiled have one name; once one of
\* them has created the machine it is the machine's, and the invite is closed
\* or an approval that has yet to close it is under way.
Closed(c) == invite[c].st \in Terminal \cup {"none"}
Closing(c) == \E q \in Approving(c) : pc[q] \in {"store", "deliver", "burn"}
One(c) ==
  /\ \A q, r \in Approving(c) : loc[q].name = loc[r].name
  /\ \A m, n \in enrolled[c] : m = n
  /\ enrolled[c] # {} =>
       /\ \A q \in Approving(c) : loc[q].name \in enrolled[c]
       /\ Closed(c) \/ Closing(c)
SingleInv == \A c \in Codes \ spoiled : One(c)

\* An invite stays spoiled.
LEMMA SpoiledGrows == ASSUME Well, [Next]_vars PROVE spoiled \subseteq spoiled'
  <1>1. ASSUME NEW r \in Reqs, Step(r) \/ Abort(r) PROVE spoiled \subseteq spoiled'
    BY <1>1 DEF Step, Allocate, Rotate, Claim, StoreToken, Deliver, Burn, DenySet, RevokeDel,
                BeginSet, RearmFind, Take, Abort, history, Spoils
  <1> QED
    BY <1>1, Kinds, ApproveStarts, WorldSteps

\* A closed invite is opened again only by a dial that spoils it.
LEMMA ClosedStays ==
  ASSUME Well, [Next]_vars, NEW c \in Codes, c \notin spoiled', Closed(c)
  PROVE  Closed(c)'
  <1>1. ASSUME NEW r \in Reqs, loc[r].code = c, Burn(r) \/ DenySet(r) PROVE Closed(c)'
    BY <1>1 DEF Burn, DenySet, Closed, Terminal, Well, TypeOK
  <1>2. ASSUME NEW r \in Reqs, loc[r].code = c, BeginSet(r) PROVE FALSE
    BY <1>2 DEF BeginSet, Spoils, Closed, Terminal
  <1>3. invite[c].st # "undrawn"
    BY DEF Closed, Terminal
  <1>4. CASE invite'[c] = invite[c] \/ invite'[c] = NoInvite
    BY <1>4 DEF Closed, NoInvite
  <1> QED
    BY <1>1, <1>2, <1>3, <1>4, InviteMoves

\* Nothing but the claim of one of its approvals creates a machine for an
\* invite.
LEMMA EnrolledMoves ==
  ASSUME Well, [Next]_vars, NEW c \in Codes
  PROVE  \/ enrolled'[c] = enrolled[c]
         \/ \E r \in Approving(c) : /\ Claim(r) /\ pc'[r] = "store"
                                    /\ enrolled'[c] = enrolled[c] \cup {loc[r].name}
  <1> DEFINE Goal == \/ enrolled'[c] = enrolled[c]
                     \/ \E r \in Approving(c) :
                          /\ Claim(r) /\ pc'[r] = "store"
                          /\ enrolled'[c] = enrolled[c] \cup {loc[r].name}
  <1>1. ASSUME NEW r \in Reqs, Claim(r) PROVE Goal
    <2>1. CASE UNCHANGED enrolled
      BY <2>1
    <2>2. CASE ~UNCHANGED enrolled
      <3>1. /\ enrolled' = [enrolled EXCEPT ![loc[r].code] = @ \cup {loc[r].name}]
            /\ loc[r].op # "register" /\ \E l : Enter(r, "store", l)
        BY <1>1, <2>2 DEF Claim
      <3>2. Control("claim", loc[r])
        BY <1>1, Typed DEF Claim
      <3>3. loc[r].op = "approve" /\ loc[r].code \in Codes
        BY <3>1, <3>2 DEF Control
      <3>4. pc'[r] = "store"
        BY <3>1, EnterAlone DEF Well
      <3>5. CASE loc[r].code = c
        BY <1>1, <3>1, <3>3, <3>4, <3>5 DEF Approving, Well, TypeOK
      <3>6. CASE loc[r].code # c
        BY <3>1, <3>3, <3>6 DEF Well, TypeOK
      <3> QED
        BY <3>5, <3>6
    <2> QED
      BY <2>1, <2>2
  <1>2. ASSUME NEW r \in Reqs, Step(r) \/ Abort(r), ~Claim(r) PROVE UNCHANGED enrolled
    BY <1>2 DEF Step, Allocate, Rotate, StoreToken, Deliver, Burn, DenySet, RevokeDel,
                BeginSet, RearmFind, Take, Abort, history
  <1>3. ASSUME NEW r \in Reqs, NEW d, NEW op, NEW p, Starts(r, d, op, p)
        PROVE  UNCHANGED enrolled
    BY <1>3 DEF Starts
  <1>4. ASSUME UNCHANGED enrolled PROVE Goal
    BY <1>4
  <1> HIDE DEF Goal
  <1>5. Goal
    BY <1>1, <1>2, <1>3, <1>4, Kinds, ApproveStarts, WorldSteps
  <1> QED
    BY <1>5 DEF Goal

\* A handler that approves neither before nor after leaves the approvals as
\* they are.
LEMMA NoApproval ==
  ASSUME NEW r \in Reqs, Alone(r), NEW c \in Codes,
         ~(loc[r].op = "approve" /\ loc[r].code = c), ~(loc'[r].op = "approve" /\ loc'[r].code = c)
  PROVE  /\ Approving(c)' = Approving(c)
         /\ \A q \in Approving(c) : pc'[q] = pc[q] /\ loc'[q] = loc[q]
  BY DEF Approving, Alone

\* With the same approvals, machines and no invite opened, nothing changes.
LEMMA OneKept ==
  ASSUME NEW c \in Codes, One(c), Approving(c)' = Approving(c),
         \A q \in Approving(c) : pc'[q] = pc[q] /\ loc'[q] = loc[q],
         enrolled'[c] = enrolled[c], Closed(c) => Closed(c)'
  PROVE  One(c)'
  <1>1. \A q, r \in Approving(c)' : loc'[q].name = loc'[r].name
    BY DEF One
  <1>2. \A m, n \in enrolled'[c] : m = n
    BY DEF One
  <1>3. ASSUME enrolled'[c] # {}
        PROVE  (\A q \in Approving(c)' : loc'[q].name \in enrolled'[c]) /\ (Closed(c)' \/ Closing(c)')
    BY <1>3 DEF One, Closing
  <1> QED
    BY <1>1, <1>2, <1>3 DEF One

\* An approval that starts has the name of the others.
LEMMA ApproveOne ==
  ASSUME Well, NEW c \in Codes, One(c), c \notin spoiled',
         NEW r \in Reqs, NEW n \in Names, Approve(r, c, n)
  PROVE  One(c)'
  <1>1. /\ pc[r] = "idle" /\ loc[r] = Idle /\ Alone(r) /\ loc'[r].op = "approve"
        /\ loc'[r].code = c /\ loc'[r].name = n
        /\ enrolled'[c] = enrolled[c] /\ invite'[c] = invite[c] /\ invite[c].st = "waiting"
        /\ \A q \in Approving(c) : loc[q].name = n
    BY ApproveStarts DEF Starts
  <1>2. r \notin Approving(c)
    BY <1>1 DEF Approving, Idle
  <1>3. /\ Approving(c)' = Approving(c) \cup {r}
        /\ \A q \in Approving(c) : pc'[q] = pc[q] /\ loc'[q] = loc[q]
    BY <1>1, <1>2 DEF Approving, Alone
  <1>4. \A q \in Approving(c)' : loc'[q].name = n
    BY <1>1, <1>3
  <1>5. ASSUME enrolled[c] # {} PROVE n \in enrolled[c] /\ Closing(c)'
    <2>1. ~Closed(c)
      BY <1>1 DEF Closed, Terminal
    <2>2. PICK q \in Approving(c) : pc[q] \in {"store", "deliver", "burn"}
      BY <1>5, <2>1 DEF One, Closing
    <2>3. loc[q].name \in enrolled[c]
      BY <1>5 DEF One
    <2> QED
      BY <1>1, <1>3, <2>2, <2>3 DEF Closing
  <1> QED
    BY <1>1, <1>4, <1>5 DEF One

\* An approval under way keeps its name; it leaves its machine and its invite
\* open only if it is cut off.
LEMMA ApprovalGoesOn ==
  ASSUME Well, [Next]_vars, NEW c \in Codes, One(c), c \notin spoiled',
         NEW r \in Approving(c), Step(r) \/ Abort(r)
  PROVE  One(c)'
  <1>1. r \in Reqs /\ loc[r].op = "approve" /\ loc[r].code = c
    BY DEF Approving
  <1>2. Alone(r) /\ (Back(r) \/ Forth(r))
    BY <1>1, HandlerGoesOn
  <1>3. pc[r] \in {"allocate", "claim", "rotate", "store", "deliver", "burn"}
    BY <1>1, Typed DEF Control, Idle
  <1>4. /\ Approving(c)' \subseteq Approving(c)
        /\ \A q \in Approving(c) \ {r} : q \in Approving(c)' /\ pc'[q] = pc[q] /\ loc'[q] = loc[q]
    BY <1>1, <1>2 DEF Approving, Alone, Back, Forth, Idle
  <1>5. r \in Approving(c)' => loc'[r].name = loc[r].name
    BY <1>1, <1>2, <1>3 DEF Approving, Back, Forth, Idle
  <1>6. \A q, x \in Approving(c)' : loc'[q].name = loc'[x].name
    BY <1>4, <1>5 DEF One
  <1>7. Closed(c) => Closed(c)'
    BY ClosedStays
  <1>8. CASE enrolled'[c] # enrolled[c]
    <2>1. PICK q \in Approving(c) :
            /\ Claim(q) /\ pc'[q] = "store"
            /\ enrolled'[c] = enrolled[c] \cup {loc[q].name}
      BY <1>8, EnrolledMoves
    <2>2. q = r
      BY <1>4, <2>1 DEF Claim
    <2>3. r \in Approving(c)'
      BY <1>1, <1>2, <2>1, <2>2 DEF Approving, Back, Forth
    <2>4. \A m \in enrolled[c] : m = loc[r].name
      BY DEF One
    <2>5. \A m, n \in enrolled'[c] : m = n
      BY <2>1, <2>2, <2>4
    <2>6. \A x \in Approving(c)' : loc'[x].name \in enrolled'[c]
      BY <1>5, <1>6, <2>1, <2>2, <2>3
    <2>7. Closing(c)'
      BY <2>1, <2>2, <2>3 DEF Closing
    <2> QED
      BY <1>6, <2>5, <2>6, <2>7 DEF One
  <1>9. CASE enrolled'[c] = enrolled[c]
    <2>1. ASSUME enrolled[c] # {} PROVE Closed(c)' \/ Closing(c)'
      <3>1. CASE Closed(c)
        BY <1>7, <3>1
      <3>2. ASSUME NEW q \in Approving(c), pc[q] \in {"store", "deliver", "burn"}, q # r
            PROVE  Closing(c)'
        BY <1>4, <3>2 DEF Closing
      <3>3. CASE pc[r] \in {"store", "deliver", "burn"}
        <4>1. ~Abort(r)
          BY <1>1, <3>3 DEF Abort, Spoils
        <4>2. CASE pc[r] = "burn"
          <5>1. Burn(r)
            BY <4>1, <4>2 DEF Step, Allocate, Rotate, Claim, StoreToken, Deliver, DenySet,
                              RevokeDel, BeginSet, RearmFind, Take
          <5> QED
            BY <1>1, <5>1 DEF Burn, Closed, Terminal, Well, TypeOK
        <4>3. CASE pc[r] # "burn"
          <5>1. StoreToken(r) \/ Deliver(r)
            BY <3>3, <4>1, <4>3 DEF Step, Allocate, Rotate, Claim, Burn, DenySet, RevokeDel,
                                    BeginSet, RearmFind, Take
          <5>2. pc'[r] \in {"deliver", "burn"}
            BY <1>1, <5>1, EnterAlone DEF StoreToken, Deliver, Goto, Well
          <5>3. r \in Approving(c)'
            BY <1>1, <1>2, <5>2 DEF Approving, Back, Forth
          <5> QED
            BY <5>2, <5>3 DEF Closing
        <4> QED
          BY <4>2, <4>3
      <3> QED
        BY <2>1, <3>1, <3>2, <3>3 DEF One, Closing
    <2>2. ASSUME enrolled[c] # {}, NEW q \in Approving(c)' PROVE loc'[q].name \in enrolled[c]
      BY <1>4, <1>5, <2>2 DEF One
    <2> QED
      BY <1>6, <1>9, <2>1, <2>2 DEF One
  <1> QED
    BY <1>8, <1>9

\* No step lets an invite that is not spoiled create a second machine.
LEMMA StepSingle ==
  ASSUME Well, SingleInv, [Next]_vars
  PROVE  SingleInv'
  <1> SUFFICES ASSUME NEW c \in Codes, c \notin spoiled' PROVE One(c)'
    BY DEF SingleInv
  <1>1. One(c) /\ (Closed(c) => Closed(c)')
    BY SpoiledGrows, ClosedStays DEF SingleInv
  <1>2. ASSUME NEW r \in Reqs, Alone(r), ~(loc[r].op = "approve" /\ loc[r].code = c),
               ~(loc'[r].op = "approve" /\ loc'[r].code = c)
        PROVE  One(c)'
    <2>1. /\ Approving(c)' = Approving(c)
          /\ \A q \in Approving(c) : pc'[q] = pc[q] /\ loc'[q] = loc[q]
      BY <1>2, NoApproval
    <2>2. enrolled'[c] = enrolled[c]
      BY <2>1, EnrolledMoves DEF Claim
    <2> QED
      BY <1>1, <2>1, <2>2, OneKept
  <1>3. ASSUME NEW r \in Reqs, NEW d \in Codes, NEW n \in Names, Approve(r, d, n) PROVE One(c)'
    <2>1. CASE d = c
      BY <1>1, <1>3, <2>1, ApproveOne
    <2>2. CASE d # c
      BY <1>2, <1>3, <2>2, ApproveStarts DEF Starts, Idle
    <2> QED
      BY <2>1, <2>2
  <1>4. ASSUME NEW r \in Reqs, NEW d, NEW op, NEW p, Starts(r, d, op, p), op # "approve"
        PROVE  One(c)'
    BY <1>2, <1>4 DEF Starts, Idle
  <1>5. ASSUME NEW r \in Reqs, Step(r) \/ Abort(r) PROVE One(c)'
    <2>1. CASE loc[r].op = "approve" /\ loc[r].code = c
      BY <1>1, <1>5, <2>1, ApprovalGoesOn DEF Approving
    <2>2. CASE ~(loc[r].op = "approve" /\ loc[r].code = c)
      <3>1. Alone(r) /\ (Back(r) \/ Forth(r))
        BY <1>5, HandlerGoesOn
      <3> QED
        BY <1>2, <2>2, <3>1 DEF Back, Forth, Idle
    <2> QED
      BY <2>1, <2>2
  <1>6. ASSUME NEW d, Create(d) \/ ExpireInvite(d) \/ ExpireDelivery(d) \/ DeleteMachine(d)
                      \/ UNCHANGED vars
        PROVE  One(c)'
    <2>1. UNCHANGED <<pc, loc, enrolled>>
      BY <1>6, WorldSteps
    <2>2. Approving(c)' = Approving(c)
      BY <2>1 DEF Approving
    <2> QED
      BY <1>1, <2>1, <2>2, OneKept
  <1> QED
    BY <1>3, <1>4, <1>5, <1>6, Kinds

\* "Codes are single-use": an invite never creates machines under two names,
\* however its handlers overlap, unless approvals under two names do, a dial
\* that read the invite before its decision reopens it, or an approval is cut
\* off after it created its machine.
THEOREM OneMachinePerCode == Spec => []SingleUse
  <1>1. Init => SingleInv
    <2> SUFFICES ASSUME Init, NEW c \in Codes PROVE One(c)
      BY DEF SingleInv
    <2>1. Approving(c) = {} /\ enrolled[c] = {}
      BY DEF Init, Approving, Idle
    <2> QED
      BY <2>1 DEF One
  <1>2. Well /\ TokenInv /\ SingleInv /\ [Next]_vars => SingleInv'
    BY StepSingle
  <1>3. SingleInv => SingleUse
    BY DEF SingleInv, SingleUse, One
  <1> QED
    BY <1>1, <1>2, <1>3, WellHolds, PTL DEF Spec

-----------------------------------------------------------------------------
(***************************************************************************)
(* Pending tokens.                                                         *)
(***************************************************************************)

\* The boxes of invite c were given token t.
SentTo(c, t) == t \in Tokens /\ \E i \in DOMAIN delivered[t] : delivered[t][i] = c

\* A poll gives one box one token.
LEMMA TakeSent ==
  ASSUME Well, TokenInv, NEW r \in Reqs, Take(r)
  PROVE  /\ loc[r].code \in Codes
         /\ \A c \in Codes, t \in Tokens : SentTo(c, t)' <=>
              SentTo(c, t) \/ (c = loc[r].code /\ t = delivery[c].token)
         /\ delivery'[loc[r].code] = NoDelivery
         /\ \A c \in Codes \ {loc[r].code} : delivery'[c] = delivery[c]
  <1> DEFINE d == loc[r].code
             u == delivery[d].token
  <1>1. d \in Codes
    BY Typed DEF Take, Control
  <1>2. u \in 0..MaxTokens /\ delivered \in [Tokens -> Seq(Codes)]
    BY <1>1 DEF Well, TypeOK
  <1>3. /\ delivery' = [delivery EXCEPT ![d] = NoDelivery]
        /\ delivered' = IF u = 0 THEN delivered ELSE [delivered EXCEPT ![u] = Append(@, d)]
    BY DEF Take
  <1>4. ASSUME NEW c \in Codes, NEW t \in Tokens
        PROVE  SentTo(c, t)' <=> SentTo(c, t) \/ (c = d /\ t = delivery[c].token)
    <2>1. t # 0
      BY DEF Tokens
    <2>2. CASE t # u
      <3>1. delivered'[t] = delivered[t]
        BY <1>2, <1>3, <2>2
      <3> QED
        BY <2>2, <3>1 DEF SentTo
    <2>3. CASE t = u
      <3>1. delivered[t] = <<>>
        BY <1>1, <2>1, <2>3 DEF TokenInv, WaitingInv
      <3>2. delivered'[t] = Append(<<>>, d)
        BY <1>2, <1>3, <2>1, <2>3, <3>1
      <3>3. delivered'[t] = <<d>>
        BY <1>1, <3>2
      <3>4. SentTo(c, t)' <=> c = d
        BY <3>3 DEF SentTo
      <3>5. ~SentTo(c, t)
        BY <3>1 DEF SentTo
      <3> QED
        BY <2>3, <3>4, <3>5
    <2> QED
      BY <2>2, <2>3
  <1> QED
    BY <1>1, <1>3, <1>4 DEF Well, TypeOK

\* Nothing but a poll gives a token to a box.
LEMMA NotSent ==
  ASSUME Well, [Next]_vars, \A r \in Reqs : ~Take(r)
  PROVE  UNCHANGED delivered
  <1>1. ASSUME NEW r \in Reqs, Step(r) \/ Abort(r) PROVE UNCHANGED delivered
    BY <1>1 DEF Step, Allocate, Rotate, Claim, StoreToken, Deliver, Burn, DenySet, RevokeDel,
                BeginSet, RearmFind, Abort, history
  <1>2. ASSUME NEW r \in Reqs, NEW c, NEW op, NEW p, Starts(r, c, op, p) PROVE UNCHANGED delivered
    BY <1>2 DEF Starts
  <1> QED
    BY <1>1, <1>2, Kinds, ApproveStarts, WorldSteps

\* A delivery is written by the handler that delivers it, and otherwise stays
\* or goes.
LEMMA DeliveryMoves ==
  ASSUME Well, TokenInv, [Next]_vars, NEW c \in Codes,
         \A q \in Reqs : Deliver(q) => loc[q].code # c
  PROVE  delivery'[c] \in {delivery[c], NoDelivery}
  <1>1. ASSUME NEW r \in Reqs, Take(r) PROVE delivery'[c] \in {delivery[c], NoDelivery}
    BY <1>1, TakeSent
  <1>2. ASSUME NEW r \in Reqs, NEW d, NEW op, NEW p, Starts(r, d, op, p) PROVE UNCHANGED delivery
    BY <1>2 DEF Starts
  <1>3. ASSUME NEW r \in Reqs, Step(r) \/ Abort(r), ~Take(r) PROVE delivery'[c] = delivery[c]
    <2>1. CASE Deliver(r)
      BY <2>1 DEF Deliver, Well, TypeOK
    <2>2. CASE ~Deliver(r)
      BY <1>3, <2>2 DEF Step, Allocate, Rotate, Claim, StoreToken, Burn, DenySet, RevokeDel,
                        BeginSet, RearmFind, Abort, redis
    <2> QED
      BY <2>1, <2>2
  <1>4. ASSUME NEW d, Create(d) \/ ExpireInvite(d) \/ ExpireDelivery(d) \/ DeleteMachine(d)
                      \/ UNCHANGED vars
        PROVE  delivery'[c] \in {delivery[c], NoDelivery}
    BY <1>4 DEF Create, ExpireInvite, ExpireDelivery, DeleteMachine, vars, Well, TypeOK
  <1> QED
    BY <1>1, <1>2, <1>3, <1>4, Kinds, ApproveStarts

\* A token a box was given stays given.
LEMMA SentStays ==
  ASSUME Well, TokenInv, [Next]_vars, NEW c \in Codes, NEW t \in Tokens, SentTo(c, t)
  PROVE  SentTo(c, t)'
  <1>1. CASE \E r \in Reqs : Take(r)
    BY <1>1, TakeSent
  <1>2. CASE \A r \in Reqs : ~Take(r)
    BY <1>2, NotSent DEF SentTo
  <1> QED
    BY <1>1, <1>2

\* How any step moves one handler.
LEMMA Moves ==
  ASSUME Well, [Next]_vars, NEW r \in Reqs
  PROVE  \/ pc'[r] = pc[r] /\ loc'[r] = loc[r]
         \/ Step(r) \/ Abort(r)
         \/ pc[r] = "idle" /\ pc'[r] \in {"allocate", "deny", "revoke", "set", "rearm", "take"}
  <1> DEFINE Goal == \/ pc'[r] = pc[r] /\ loc'[r] = loc[r]
                     \/ Step(r) \/ Abort(r)
                     \/ /\ pc[r] = "idle"
                        /\ pc'[r] \in {"allocate", "deny", "revoke", "set", "rearm", "take"}
  <1>1. ASSUME NEW q \in Reqs, NEW d, NEW op, NEW p, Starts(q, d, op, p) PROVE Goal
    BY <1>1 DEF Starts, Alone
  <1>2. ASSUME NEW q \in Reqs, Step(q) \/ Abort(q) PROVE Goal
    BY <1>2, HandlerGoesOn DEF Alone
  <1>3. ASSUME NEW c, Create(c) \/ ExpireInvite(c) \/ ExpireDelivery(c) \/ DeleteMachine(c)
                      \/ UNCHANGED vars
        PROVE  Goal
    BY <1>3, WorldSteps
  <1> HIDE DEF Goal
  <1>4. Goal
    BY <1>1, <1>2, <1>3, Kinds, ApproveStarts
  <1> QED
    BY <1>4 DEF Goal

\* A handler comes to deliver by storing a token, and leaves by delivering it.
LEMMA Arrives ==
  ASSUME Well, [Next]_vars, NEW r \in Reqs, pc'[r] = "deliver"
  PROVE  (pc[r] = "deliver" /\ loc'[r] = loc[r]) \/ StoreToken(r)
  <1>1. CASE Abort(r)
    BY <1>1, ReturnAlone DEF Abort, Back, Well
  <1>2. CASE Step(r) /\ ~StoreToken(r)
    <2>1. Back(r) \/ Forth(r)
      BY <1>2, HandlerGoesOn
    <2>2. pc[r] \in {"store", "rearmStore"}
      BY <2>1 DEF Back, Forth
    <2> QED
      BY <1>2, <2>2 DEF Step, Allocate, Rotate, Claim, Deliver, Burn, DenySet, RevokeDel,
                        BeginSet, RearmFind, Take
  <1> QED
    BY <1>1, <1>2, Moves

\* Token t was issued for invite c: a handler is about to deliver it, it waits
\* in the delivery, or a box has it.
Own(c, t) ==
  \/ SentTo(c, t)
  \/ t # 0 /\ delivery[c].token = t
  \/ \E q \in Reqs : loc[q].code = c /\ pc[q] = "deliver" /\ loc[q].token = t

\* No invite comes to own a token that is already issued.
LEMMA OwnKept ==
  ASSUME Well, TokenInv, [Next]_vars, NEW c \in Codes, NEW t \in 0..issued, Own(c, t)'
  PROVE  Own(c, t)
  <1>1. CASE SentTo(c, t)'
    <2>1. t \in Tokens /\ t # 0
      BY <1>1 DEF SentTo, Tokens
    <2>2. CASE \E r \in Reqs : Take(r)
      BY <1>1, <2>1, <2>2, TakeSent DEF Own
    <2>3. CASE \A r \in Reqs : ~Take(r)
      BY <1>1, <2>3, NotSent DEF SentTo, Own
    <2> QED
      BY <2>2, <2>3
  <1>2. CASE t # 0 /\ delivery'[c].token = t
    <2>1. ASSUME NEW r \in Reqs, Deliver(r), loc[r].code = c PROVE Own(c, t)
      <3>1. delivery'[c].token = loc[r].token /\ pc[r] = "deliver"
        BY <2>1 DEF Deliver, Well, TypeOK
      <3> QED
        BY <1>2, <2>1, <3>1 DEF Own
    <2>2. CASE \A q \in Reqs : Deliver(q) => loc[q].code # c
      <3>1. delivery'[c] \in {delivery[c], NoDelivery}
        BY <2>2, DeliveryMoves
      <3> QED
        BY <1>2, <3>1 DEF NoDelivery, Own
    <2> QED
      BY <2>1, <2>2
  <1>3. ASSUME NEW q \in Reqs, loc'[q].code = c, pc'[q] = "deliver", loc'[q].token = t
        PROVE  Own(c, t)
    <2>1. CASE pc[q] = "deliver" /\ loc'[q] = loc[q]
      BY <1>3, <2>1 DEF Own
    <2>2. CASE StoreToken(q)
      <3>1. loc'[q] = [loc[q] EXCEPT !.token = FreshToken] /\ loc[q] \in Locals
        BY <2>2, EnterAlone, Typed DEF StoreToken, Well
      <3>2. t = issued + 1 /\ issued \in Nat
        BY <1>3, <3>1, Typed, Constants DEF Locals, FreshToken
      <3> QED
        BY <3>2
    <2> QED
      BY <1>3, <2>1, <2>2, Arrives
  <1> QED
    BY <1>1, <1>2, <1>3 DEF Own

\* No invite owns token 0, which stands for none, or one not yet issued.
LEMMA NotOwned ==
  ASSUME Well, TokenInv, NEW c \in Codes, NEW t \in 0..MaxTokens, t = 0 \/ t > issued
  PROVE  ~Own(c, t)
  <1>1. issued \in Nat
    BY Typed
  <1>2. ~SentTo(c, t)
    <2>1. ASSUME t \in Tokens PROVE delivered[t] = <<>>
      BY <1>1, <2>1 DEF TokenInv, FreshUnsent, Tokens
    <2> QED
      BY <2>1 DEF SentTo
  <1>3. ~(t # 0 /\ delivery[c].token = t)
    BY <1>1 DEF TokenInv, WaitingInv
  <1>4. ASSUME NEW q \in Reqs, pc[q] = "deliver" PROVE loc[q].token # t
    BY <1>1, <1>4 DEF TokenInv, HeldInv
  <1> QED
    BY <1>2, <1>3, <1>4 DEF Own

\* Machine n is not, or no longer, that of a box of invite c; or it holds the
\* token t of the invite.
Foreign(n, c) ==
  machine[n].key \notin KeysOf[c] /\ machine[n].token \in 0..issued /\ ~Own(c, machine[n].token)
Tied(c, n, t) == machine[n].token = t \/ Foreign(n, c)

\* A box that rotates its key was given the token it shows.
Holder(k, t) == \E d \in Codes : SentTo(d, t) /\ k \in KeysOf[d]
HolderInv == \A r \in Reqs : loc[r].op = "register" => Holder(loc[r].key, loc[r].token)

\* Only a box that was given a token starts to register.
LEMMA StepHolder ==
  ASSUME Well, TokenInv, HolderInv, [Next]_vars
  PROVE  HolderInv'
  <1>0. \A k, t : Holder(k, t) => Holder(k, t)'
    BY SentStays DEF Holder, SentTo
  <1> SUFFICES ASSUME NEW q \in Reqs, NEW k, NEW t, loc'[q].op = "register",
                      loc'[q].key = k, loc'[q].token = t
               PROVE  Holder(k, t)'
    BY DEF HolderInv, Holder, SentTo
  <1> SUFFICES Holder(k, t)
    BY <1>0
  <1>1. CASE loc'[q] = loc[q]
    BY <1>1 DEF HolderInv
  <1>2. ASSUME NEW r \in Reqs, NEW d, NEW op, NEW p, Starts(r, d, op, p), op # "register"
        PROVE  loc'[q] = loc[q]
    BY <1>2 DEF Starts, Alone
  <1>3. ASSUME NEW r \in Reqs, NEW u \in Tokens, NEW j \in Keys, Register(r, u, j)
        PROVE  Holder(k, t)
    <2>1. CASE q # r
      BY <1>1, <1>3, <2>1, RegisterStarts DEF Starts, Alone
    <2>2. CASE q = r
      <3>1. k = j /\ t = u
        BY <1>3, <2>2, RegisterStarts
      <3>2. PICK i \in DOMAIN delivered[t] : k \in KeysOf[delivered[t][i]]
        BY <1>3, <3>1, RegisterStarts
      <3>3. delivered[t] \in Seq(Codes)
        BY <3>1 DEF Well, TypeOK
      <3>4. delivered[t][i] \in Codes
        BY <3>2, <3>3
      <3> QED
        BY <3>1, <3>2, <3>4 DEF Holder, SentTo
    <2> QED
      BY <2>1, <2>2
  <1>4. ASSUME NEW r \in Reqs, Step(r) \/ Abort(r) PROVE Holder(k, t)
    <2>1. Alone(r) /\ (Back(r) \/ Forth(r)) /\ Control(pc[r], loc[r])
      BY <1>4, HandlerGoesOn, Typed
    <2>2. CASE q # r
      BY <1>1, <2>1, <2>2 DEF Alone
    <2>3. CASE q = r
      <3>1. loc[r].op = "register" /\ Forth(r)
        BY <2>1, <2>3 DEF Back, Forth, Idle
      <3>2. pc[r] \notin {"store", "rearmStore"}
        BY <2>1, <3>1 DEF Control
      <3> QED
        BY <2>3, <3>1, <3>2 DEF Forth, HolderInv
    <2> QED
      BY <2>2, <2>3
  <1>5. ASSUME NEW d, Create(d) \/ ExpireInvite(d) \/ ExpireDelivery(d) \/ DeleteMachine(d)
                      \/ UNCHANGED vars
        PROVE  loc'[q] = loc[q]
    BY <1>5, WorldSteps
  <1>6. ASSUME NEW r \in Reqs, NEW c \in Codes,
               \/ \E n \in Names : Approve(r, c, n)
               \/ \E op \in {"deny", "revoke"} : Refuse(r, c, op)
               \/ \E j \in KeysOf[c] : Begin(r, c, j)
               \/ Poll(r, c)
        PROVE  loc'[q] = loc[q]
    BY <1>2, <1>6, ApproveStarts, RefuseStarts, BeginStarts, PollStarts
  <1> QED
    BY <1>1, <1>3, <1>4, <1>5, <1>6, Steps

\* Who writes a machine's record.
LEMMA MachineMoves ==
  ASSUME Well, [Next]_vars, NEW n \in Names
  PROVE  \/ machine'[n] = machine[n]
         \/ \E q \in Reqs : /\ loc[q].name = n
                            /\ Rotate(q) \/ StoreToken(q) \/ (Claim(q) /\ ~Exists(n))
         \/ machine'[n] = NoMachine
  <1> DEFINE Goal == \/ machine'[n] = machine[n]
                     \/ \E q \in Reqs : /\ loc[q].name = n
                                        /\ Rotate(q) \/ StoreToken(q) \/ (Claim(q) /\ ~Exists(n))
                     \/ machine'[n] = NoMachine
  <1>1. ASSUME NEW r \in Reqs, NEW d, NEW op, NEW p, Starts(r, d, op, p) PROVE Goal
    BY <1>1 DEF Starts
  <1>2. ASSUME NEW r \in Reqs, Step(r) \/ Abort(r) PROVE Goal
    <2>1. CASE Rotate(r) \/ StoreToken(r)
      BY <2>1 DEF Rotate, StoreToken, Well, TypeOK
    <2>2. CASE Claim(r)
      BY <2>2 DEF Claim, Well, TypeOK
    <2>3. CASE ~(Rotate(r) \/ StoreToken(r) \/ Claim(r))
      BY <1>2, <2>3 DEF Step, Allocate, Deliver, Burn, DenySet, RevokeDel, BeginSet, RearmFind,
                        Take, Abort, redis
    <2> QED
      BY <2>1, <2>2, <2>3
  <1>3. ASSUME NEW d, Create(d) \/ ExpireInvite(d) \/ ExpireDelivery(d) \/ DeleteMachine(d)
                      \/ UNCHANGED vars
        PROVE  Goal
    BY <1>3 DEF Create, ExpireInvite, ExpireDelivery, DeleteMachine, vars, Well, TypeOK
  <1> HIDE DEF Goal
  <1>4. Goal
    BY <1>1, <1>2, <1>3, Kinds, ApproveStarts
  <1> QED
    BY <1>4 DEF Goal

\* Tokens are only issued.
LEMMA IssuedGrows == ASSUME Well, [Next]_vars PROVE issued' \in Nat /\ issued <= issued'
  <1>1. issued \in Nat
    BY Typed
  <1>2. ASSUME NEW r \in Reqs, Step(r) \/ Abort(r) PROVE issued' = issued \/ issued' = issued + 1
    BY <1>2 DEF Step, Allocate, Rotate, Claim, StoreToken, Deliver, Burn, DenySet, RevokeDel,
                BeginSet, RearmFind, Take, Abort, FreshToken
  <1>3. ASSUME NEW r \in Reqs, NEW d, NEW op, NEW p, Starts(r, d, op, p) PROVE issued' = issued
    BY <1>3 DEF Starts
  <1>4. issued' = issued \/ issued' = issued + 1
    BY <1>2, <1>3, Kinds, ApproveStarts, WorldSteps
  <1> QED
    BY <1>1, <1>4

\* A machine that is not written on an outdated reading stays tied to its
\* token, until a handler of the same invite replaces it.
LEMMA TiedKept ==
  ASSUME Well, TokenInv, HolderInv, [Next]_vars, NEW c \in Codes, Private(c), NEW n \in Names,
         NEW t, Tied(c, n, t), n \notin stale',
         \A q \in Reqs : loc[q].name = n /\ (StoreToken(q) \/ (Claim(q) /\ ~Exists(n)))
           => loc[q].code # c
  PROVE  Tied(c, n, t)'
  <1>0. issued' \in Nat /\ issued <= issued' /\ issued \in Nat
    BY IssuedGrows, Typed
  <1>1. ASSUME NEW u \in 0..issued, ~Own(c, u) PROVE ~Own(c, u)' /\ u \in 0..(issued')
    BY <1>0, <1>1, OwnKept
  <1>2. ~Own(c, 0) /\ 0 \in 0..issued /\ NoKey \notin KeysOf[c]
    BY <1>0, NotOwned, Absent, Constants
  <1>3. ASSUME NEW u \in 0..issued, machine'[n].token = u, machine'[n].key \notin KeysOf[c],
               ~Own(c, u)
        PROVE  Tied(c, n, t)'
    <2>1. ~Own(c, u)' /\ u \in 0..(issued')
      BY <1>1, <1>3
    <2>2. ASSUME Own(c, machine[n].token)' PROVE Own(c, u)'
      BY <1>3, <2>2 DEF Own, SentTo
    <2>3. ~Own(c, machine[n].token)'
      BY <2>1, <2>2
    <2> QED
      BY <1>3, <2>1, <2>3 DEF Tied, Foreign
  <1>4. CASE machine'[n] = machine[n]
    <2>1. CASE machine[n].token = t
      BY <1>4, <2>1 DEF Tied
    <2>2. CASE Foreign(n, c)
      BY <1>3, <1>4, <2>2 DEF Foreign
    <2> QED
      BY <2>1, <2>2 DEF Tied
  <1>5. CASE machine'[n] = NoMachine
    BY <1>2, <1>3, <1>5 DEF NoMachine
  <1>6. ASSUME NEW q \in Reqs, loc[q].name = n, Rotate(q) PROVE Tied(c, n, t)'
    <2>1. InOrder(q)
      BY <1>6 DEF Rotate, Outdates
    <2>2. /\ loc[q].op = "register" /\ machine[n].token = loc[q].token
          /\ [machine[n] EXCEPT !.key = loc[q].key] = loc[q].mach
      BY <1>6, <2>1 DEF InOrder
    <2>3. machine[n] \in MachineRecord
      BY Typed
    <2>4. machine'[n] = loc[q].mach
      BY <1>6 DEF Rotate, Well, TypeOK
    <2>5. machine'[n].token = machine[n].token /\ machine'[n].key = loc[q].key
      BY <2>2, <2>3, <2>4 DEF MachineRecord
    <2>6. CASE machine[n].token = t
      BY <2>5, <2>6 DEF Tied
    <2>7. CASE Foreign(n, c)
      <3>1. PICK d \in Codes : SentTo(d, loc[q].token) /\ loc[q].key \in KeysOf[d]
        BY <2>2 DEF HolderInv, Holder
      <3>2. d # c
        BY <2>2, <2>7, <3>1 DEF Foreign, Own
      <3>3. loc[q].key \notin KeysOf[c]
        BY <3>1, <3>2 DEF Private
      <3> QED
        BY <1>3, <2>5, <2>7, <3>3 DEF Foreign
    <2> QED
      BY <2>6, <2>7 DEF Tied
  <1>7. ASSUME NEW q \in Reqs, loc[q].name = n, StoreToken(q) PROVE Tied(c, n, t)'
    <2>1. loc[q] \in Locals /\ Control(pc[q], loc[q]) /\ pc[q] \in {"store", "rearmStore"}
      BY <1>7, Typed DEF StoreToken
    <2>2. loc[q].code # c /\ loc[q].code \in Codes /\ loc[q].mach.key \in KeysOf[loc[q].code]
      BY <1>7, <2>1 DEF Control
    <2>3. machine'[n] = [loc[q].mach EXCEPT !.token = FreshToken]
      BY <1>7 DEF StoreToken, Well, TypeOK
    <2>4. machine'[n].token = FreshToken /\ machine'[n].key = loc[q].mach.key
      BY <2>1, <2>3 DEF Locals, MachineRecord
    <2>5. machine'[n].key \notin KeysOf[c]
      BY <2>2, <2>4 DEF Private
    <2>6. FreshToken \in 0..MaxTokens /\ FreshToken > issued /\ issued' = FreshToken
      BY <1>0, <1>7, Typed, Constants DEF StoreToken, FreshToken
    <2>7. ~Own(c, FreshToken)
      BY <2>6, NotOwned
    <2>8. /\ UNCHANGED <<delivery, delivered>> /\ Alone(q)
          /\ loc'[q] = [loc[q] EXCEPT !.token = FreshToken]
      BY <1>7, EnterAlone DEF StoreToken, Well
    <2>9. loc'[q].code # c
      BY <2>1, <2>2, <2>8 DEF Locals
    <2>10. ASSUME NEW u, u = FreshToken, Own(c, u)' PROVE FALSE
      BY <2>7, <2>8, <2>9, <2>10 DEF Own, SentTo, Alone
    <2>11. ASSUME Own(c, machine[n].token)' PROVE FALSE
      <3>1. ASSUME NEW u, u = FreshToken PROVE Own(c, u)'
        BY <2>4, <2>11, <3>1 DEF Own, SentTo
      <3> QED
        BY <2>10, <3>1
    <2>12. machine'[n].token \in 0..(issued')
      BY <1>0, <2>4, <2>6
    <2> QED
      BY <2>5, <2>11, <2>12 DEF Tied, Foreign
  <1>8. ASSUME NEW q \in Reqs, loc[q].name = n, Claim(q), ~Exists(n) PROVE Tied(c, n, t)'
    <2>1. loc[q] \in Locals /\ Control("claim", loc[q])
      BY <1>8, Typed DEF Claim
    <2>2. loc[q].op # "register"
      BY <1>8 DEF Claim, Outdates
    <2>3. loc[q].code # c /\ loc[q].code \in Codes /\ loc[q].key \in KeysOf[loc[q].code]
      BY <1>8, <2>1, <2>2 DEF Control
    <2>4. machine'[n] = [key |-> loc[q].key, owner |-> loc[q].mach.owner, token |-> 0]
      BY <1>8 DEF Claim, Well, TypeOK
    <2>5. machine'[n].key \notin KeysOf[c] /\ machine'[n].token = 0
      BY <2>3, <2>4 DEF Private
    <2> QED
      BY <1>2, <1>3, <2>5
  <1> QED
    BY <1>4, <1>5, <1>6, <1>7, <1>8, MachineMoves

\* What a handler is about to deliver is tied to its machine, and so is what
\* waits to be taken while nobody replaces it.
PendingInv ==
  \A c \in Codes : Private(c) =>
    /\ \A r \in Reqs : loc[r].code = c /\ pc[r] = "deliver" /\ loc[r].name \notin stale
         => Tied(c, loc[r].name, loc[r].token)
    /\ delivery[c] # NoDelivery =>
         /\ delivery[c].name \in Names /\ delivery[c].key \in KeysOf[c]
         /\ \/ delivery[c].name \in stale
            \/ Delivering(c, delivery[c].name) # {}
            \/ Tied(c, delivery[c].name, delivery[c].token)

\* A machine stays on the record of those written on an outdated reading.
LEMMA StaleGrows == ASSUME Well, [Next]_vars PROVE stale \subseteq stale'
  <1>1. ASSUME NEW r \in Reqs, Step(r) \/ Abort(r) PROVE stale \subseteq stale'
    BY <1>1 DEF Step, Allocate, Rotate, Claim, StoreToken, Deliver, Burn, DenySet, RevokeDel,
                BeginSet, RearmFind, Take, Abort, history, Outdates
  <1>2. ASSUME NEW r \in Reqs, NEW d, NEW op, NEW p, Starts(r, d, op, p) PROVE stale' = stale
    BY <1>2 DEF Starts
  <1> QED
    BY <1>1, <1>2, Kinds, ApproveStarts, WorldSteps

\* A handler that has changed the record is there until it delivers, or leaves
\* the machine on that record.
LEMMA DeliveringStays ==
  ASSUME Well, [Next]_vars, NEW c \in Codes, NEW n, n \notin stale',
         Delivering(c, n) # {}, \A q \in Reqs : Deliver(q) => loc[q].code # c
  PROVE  Delivering(c, n)' # {}
  <1>1. PICK q \in Reqs : loc[q].code = c /\ loc[q].name = n /\ pc[q] \in {"store", "deliver"}
    BY DEF Delivering
  <1>2. ~Abort(q)
    BY <1>1 DEF Abort, Outdates
  <1>3. CASE pc'[q] = pc[q] /\ loc'[q] = loc[q]
    BY <1>1, <1>3 DEF Delivering
  <1>4. CASE Step(q)
    <2>1. StoreToken(q)
      BY <1>1, <1>4 DEF Step, Allocate, Rotate, Claim, Deliver, Burn, DenySet, RevokeDel,
                        BeginSet, RearmFind, Take
    <2>2. pc'[q] = "deliver"
      BY <2>1, EnterAlone DEF StoreToken, Well
    <2>3. loc'[q].code = c /\ loc'[q].name = n
      BY <1>1, <1>4, <2>2, HandlerGoesOn DEF Back, Forth
    <2> QED
      BY <2>2, <2>3 DEF Delivering
  <1> QED
    BY <1>1, <1>2, <1>3, <1>4, Moves

\* Whoever stores a token for an invite, or creates a machine for it, has yet to
\* deliver.
LEMMA Replaces ==
  ASSUME Well, NEW c \in Codes, NEW n, NEW q \in Reqs, loc[q].code = c, loc[q].name = n,
         StoreToken(q) \/ (Claim(q) /\ ~Exists(n)), n \notin stale'
  PROVE  q \in Delivering(c, n)' /\ Delivering(c, n) \ {q} = {}
  <1>1. loc[q] \in Locals /\ Control(pc[q], loc[q]) /\ pc[q] # "idle"
    BY Typed DEF StoreToken, Claim
  <1>2. CASE StoreToken(q)
    <2>1. pc'[q] = "deliver" /\ loc'[q] = [loc[q] EXCEPT !.token = FreshToken]
      BY <1>2, EnterAlone DEF StoreToken, Well
    <2>2. loc'[q].code = c /\ loc'[q].name = n
      BY <1>1, <2>1 DEF Locals
    <2>3. Delivering(c, n) \ {q} = {}
      BY <1>2 DEF StoreToken, Outdates, Overtaken
    <2> QED
      BY <2>1, <2>2, <2>3 DEF Delivering
  <1>3. CASE Claim(q) /\ ~Exists(n)
    <2> DEFINE l == [loc[q] EXCEPT !.mach = [key |-> loc[q].key, owner |-> loc[q].mach.owner,
                                             token |-> 0]]
    <2>1. loc[q].op # "register" /\ Delivering(c, n) = {}
      BY <1>3 DEF Claim, Outdates
    <2>2. Enter(q, "store", l)
      BY <1>3, <2>1 DEF Claim
    <2>3. l.code = c /\ l.name = n
      BY <1>1 DEF Locals
    <2> HIDE DEF l
    <2>4. pc'[q] = "store" /\ loc'[q] = l
      BY <2>2, EnterAlone DEF Well
    <2> QED
      BY <2>1, <2>3, <2>4 DEF Delivering
  <1> QED
    BY <1>2, <1>3

\* No step parts a pending token from its machine.
LEMMA StepPending ==
  ASSUME Well, TokenInv, HolderInv, PendingInv, [Next]_vars
  PROVE  PendingInv'
  <1> SUFFICES ASSUME NEW c \in Codes, Private(c)
               PROVE  /\ \A r \in Reqs :
                           loc'[r].code = c /\ pc'[r] = "deliver" /\ loc'[r].name \notin stale'
                           => Tied(c, loc[r].name, loc[r].token)'
                      /\ delivery'[c] # NoDelivery =>
                           /\ delivery'[c].name \in Names /\ delivery'[c].key \in KeysOf[c]
                           /\ \/ delivery'[c].name \in stale'
                              \/ Delivering(c, delivery[c].name)' # {}
                              \/ Tied(c, delivery[c].name, delivery[c].token)'
    BY DEF PendingInv, Private
  <1>0. stale \subseteq stale'
    BY StaleGrows
  <1>1. ASSUME NEW r \in Reqs, NEW n, NEW t, loc'[r].code = c, pc'[r] = "deliver",
               loc'[r].name = n, loc'[r].token = t, n \notin stale'
        PROVE  Tied(c, n, t)'
    <2>1. CASE pc[r] = "deliver" /\ loc'[r] = loc[r]
      <3>1. n \in Names /\ Tied(c, n, t)
        BY <1>0, <1>1, <2>1, Typed DEF PendingInv, Control
      <3>2. r \in Delivering(c, n)
        BY <1>1, <2>1 DEF Delivering
      <3>3. ASSUME NEW q \in Reqs, loc[q].name = n, StoreToken(q) \/ (Claim(q) /\ ~Exists(n)),
                   loc[q].code = c
            PROVE  FALSE
        <4>1. Delivering(c, n) \ {q} = {}
          BY <1>1, <3>3, Replaces
        <4>2. q # r
          BY <2>1, <3>3 DEF StoreToken, Claim
        <4> QED
          BY <3>2, <4>1, <4>2
      <3> QED
        BY <1>1, <3>1, <3>3, TiedKept
    <2>2. CASE StoreToken(r)
      <3>1. loc[r] \in Locals /\ loc[r].name \in Names
        BY <2>2, Typed DEF StoreToken, Control
      <3>2. loc'[r] = [loc[r] EXCEPT !.token = FreshToken]
        BY <2>2, EnterAlone DEF StoreToken, Well
      <3>3. n = loc[r].name /\ t = FreshToken
        BY <1>1, <3>1, <3>2 DEF Locals
      <3>4. machine'[n] = [loc[r].mach EXCEPT !.token = FreshToken]
        BY <2>2, <3>1, <3>3 DEF StoreToken, Well, TypeOK
      <3>5. machine'[n].token = t
        BY <3>1, <3>3, <3>4 DEF Locals, MachineRecord
      <3> QED
        BY <3>5 DEF Tied
    <2> QED
      BY <1>1, <2>1, <2>2, Arrives
  <1>2. ASSUME NEW r \in Reqs, loc'[r].code = c, pc'[r] = "deliver", loc'[r].name \notin stale'
        PROVE  Tied(c, loc[r].name, loc[r].token)'
    <2>1. \A n, t : n = loc'[r].name /\ t = loc'[r].token => Tied(c, n, t)'
      BY <1>1, <1>2
    <2> QED
      BY <2>1 DEF Tied, Foreign, Own, SentTo
  <1>3. ASSUME NEW r \in Reqs, Deliver(r), loc[r].code = c, NEW d, delivery'[c] = d
        PROVE  d.name \in Names /\ d.key \in KeysOf[c] /\ (d.name \in stale' \/ Tied(c, d.name, d.token)')
    <2>1. pc[r] = "deliver" /\ UNCHANGED <<machine, stale>>
      BY <1>3 DEF Deliver, history
    <2>2. d.name = loc[r].name /\ d.key = loc[r].mach.key /\ d.token = loc[r].token
      BY <1>3 DEF Deliver, Well, TypeOK
    <2>3. loc[r].name \in Names /\ loc[r].mach.key \in KeysOf[c]
      BY <1>3, <2>1, Typed DEF Control
    <2>4. ASSUME NEW n \in Names, NEW t, n = loc[r].name, t = loc[r].token, n \notin stale'
          PROVE  Tied(c, n, t)'
      <3>1. Tied(c, n, t)
        BY <1>3, <2>1, <2>4 DEF PendingInv
      <3>2. \A q \in Reqs : ~StoreToken(q) /\ ~(Claim(q) /\ ~Exists(n) /\ loc[q].name = n)
        <4>1. ASSUME NEW q \in Reqs, StoreToken(q) PROVE FALSE
          <5>1. q # r
            BY <2>1, <4>1 DEF StoreToken
          <5>2. pc'[q] = "deliver" /\ pc[q] # "deliver"
            BY <4>1, EnterAlone DEF StoreToken, Well
          <5>3. Alone(r)
            BY <1>3, HandlerGoesOn DEF Step
          <5> QED
            BY <5>1, <5>2, <5>3 DEF Alone
        <4>2. ASSUME NEW q \in Reqs, Claim(q) PROVE FALSE
          <5>1. q # r /\ pc[q] = "claim"
            BY <2>1, <4>2 DEF Claim
          <5>2. pc'[q] # "claim"
            BY <4>2, <5>1, HandlerGoesOn DEF Step, Back, Forth
          <5>3. Alone(r)
            BY <1>3, HandlerGoesOn DEF Step
          <5> QED
            BY <5>1, <5>2, <5>3 DEF Alone
        <4> QED
          BY <4>1, <4>2
      <3> QED
        BY <2>4, <3>1, <3>2, TiedKept
    <2> QED
      BY <2>2, <2>3, <2>4
  <1>4. ASSUME \A q \in Reqs : Deliver(q) => loc[q].code # c, NEW d, delivery'[c] = d,
               d # NoDelivery
        PROVE  /\ d.name \in Names /\ d.key \in KeysOf[c]
               /\ d.name \in stale' \/ Delivering(c, d.name)' # {} \/ Tied(c, d.name, d.token)'
    <2>1. delivery[c] = d
      BY <1>4, DeliveryMoves
    <2>2. d.name \in Names /\ d.key \in KeysOf[c]
      BY <1>4, <2>1 DEF PendingInv
    <2>3. ASSUME d.name \notin stale', Delivering(c, d.name)' = {}
          PROVE  Tied(c, d.name, d.token)'
      <3>1. Delivering(c, d.name) = {}
        BY <1>4, <2>3, DeliveringStays
      <3>2. Tied(c, d.name, d.token)
        BY <1>0, <1>4, <2>1, <2>3, <3>1 DEF PendingInv
      <3>3. ASSUME NEW q \in Reqs, loc[q].name = d.name,
                   StoreToken(q) \/ (Claim(q) /\ ~Exists(d.name)), loc[q].code = c
            PROVE  FALSE
        BY <2>3, <3>3, Replaces
      <3> QED
        BY <2>2, <2>3, <3>2, <3>3, TiedKept
    <2> QED
      BY <2>2, <2>3
  <1>5. ASSUME delivery'[c] # NoDelivery
        PROVE  /\ delivery'[c].name \in Names /\ delivery'[c].key \in KeysOf[c]
               /\ \/ delivery'[c].name \in stale'
                  \/ Delivering(c, delivery[c].name)' # {}
                  \/ Tied(c, delivery[c].name, delivery[c].token)'
    <2>1. ASSUME NEW d, delivery'[c] = d
          PROVE  /\ d.name \in Names /\ d.key \in KeysOf[c]
                 /\ d.name \in stale' \/ Delivering(c, d.name)' # {} \/ Tied(c, d.name, d.token)'
      BY <1>3, <1>4, <1>5, <2>1
    <2>2. PICK d : d = delivery'[c]
      OBVIOUS
    <2> QED
      BY <2>1, <2>2 DEF Tied, Foreign, Own, SentTo, Delivering
  <1> QED
    BY <1>2, <1>5

\* A delivery that waits for its box carries the token its machine's record
\* holds, as long as no handler writes the machine on an outdated reading, is
\* overtaken or is cut off there, and no other invite is dialed with its keys:
\* neither approvals of other invites under the same name, nor re-arms,
\* rotations and deletions can part them.
THEOREM PendingTokens == Spec => []PendingTokenWorks
  <1>1. Init => HolderInv /\ PendingInv
    <2> SUFFICES ASSUME Init PROVE HolderInv /\ PendingInv
      OBVIOUS
    <2>1. \A r \in Reqs : loc[r].op = "none" /\ pc[r] = "idle"
      BY DEF Init, Idle
    <2>2. \A c \in Codes : delivery[c] = NoDelivery
      BY DEF Init
    <2> QED
      BY <2>1, <2>2 DEF HolderInv, PendingInv
  <1>2. (Well /\ TokenInv) /\ (HolderInv /\ PendingInv) /\ [Next]_vars => (HolderInv /\ PendingInv)'
    BY StepHolder, StepPending
  <1>3. PendingInv => PendingTokenWorks
    <2> SUFFICES ASSUME PendingInv, NEW c \in Codes, delivery[c] # NoDelivery, Private(c),
                        delivery[c].name \notin stale, Delivering(c, delivery[c].name) = {},
                        machine[delivery[c].name].key = delivery[c].key
                 PROVE  machine[delivery[c].name].token = delivery[c].token
      BY DEF PendingTokenWorks
    <2>1. delivery[c].key \in KeysOf[c] /\ Tied(c, delivery[c].name, delivery[c].token)
      BY DEF PendingInv
    <2> QED
      BY <2>1 DEF Tied, Foreign
  <1> QED
    BY <1>1, <1>2, <1>3, WellHolds, PTL DEF Spec

=============================================================================
