--------------------------- MODULE AccountsProofs ---------------------------
(***************************************************************************)
(* Proofs about Accounts for any addresses, requests, sessions, machines,  *)
(* invites and bounds: what holds however requests overlap, and what holds *)
(* as long as they come one at a time.                                     *)
(***************************************************************************)
EXTENDS Accounts, TLAPS

\* A running handler has an address, one that mails has a link, one that
\* approves has an invite.
HandlerInv ==
    \A h \in Handlers :
        /\ pc[h] # "idle" => loc[h].email \in Emails
        /\ pc[h] \in {"mail", "undo", "undo_link"} => loc[h].id \in 1..MaxLinks
        /\ pc[h] \in {"approve", "approve_uuid", "approve_store", "approve_burn"} =>
            loc[h].code \in Codes

\* A link that can be followed is for an address.
LinkInv ==
    \A i \in 1..MaxLinks : link[i].live =>
        link[i].email \in Emails /\ link[i].kind \in {"verify", "reset"}

\* A record a handler has read as active, a login past the status check and a
\* verification past its GETDEL are about a verified address.
CarriedInv ==
    \A h \in Handlers :
        /\ loc[h].rec.status = "active" => loc[h].email \in verified
        /\ pc[h] = "login" => loc[h].email \in verified
        /\ pc[h] \in {"click", "click_set"} /\ loc[h].op = "verify" =>
            loc[h].email \in verified

\* The three parts of TypeOK.
StoreTypes ==
    /\ account \in [Emails -> AccountRecord]
    /\ link \in [1..MaxLinks -> LinkRecord]
    /\ session \in [Sessions -> Emails \cup {NoEmail}]
    /\ machine \in [Machines -> 0..MaxUuids]
    /\ invite \in [Codes -> InviteRecord]

CountTypes ==
    /\ uuids \in 0..MaxUuids /\ links \in 0..MaxLinks
    /\ aborts \in 0..MaxAborts /\ faults \in 0..MaxFaults
    /\ panicked \in BOOLEAN /\ verified \in SUBSET Emails /\ overlapped \in BOOLEAN

HandlerTypes == pc \in [Handlers -> Points] /\ loc \in [Handlers -> Locals]

IInv == TypeOK /\ HandlerInv /\ LinkInv /\ CarriedInv /\ VerifiedOnly

-----------------------------------------------------------------------------
(***************************************************************************)
(* The initial states.                                                     *)
(***************************************************************************)

\* The bounds are numbers.
LEMMA BoundsNat == MaxUuids \in Nat /\ MaxLinks \in Nat /\ MaxAborts \in Nat /\ MaxFaults \in Nat
  BY Bounds

\* Without any record, link, session or request the invariant holds.
LEMMA InitIInv == Init => IInv
  <1>. SUFFICES ASSUME Init PROVE IInv
    OBVIOUS
  <1>1. TypeOK
    <2>1. NoAccount \in AccountRecord /\ NoLink \in LinkRecord /\ NoInvite \in InviteRecord
      BY BoundsNat DEF LinkRecord, InviteRecord, AccountRecord, NoAccount, NoLink, NoInvite
    <2>2. NoLoc \in Locals
      BY BoundsNat, <2>1 DEF Locals, NoLoc
    <2>3. "idle" \in Points /\ panicked \in BOOLEAN /\ overlapped \in BOOLEAN
      BY DEF Init, Points
    <2>4. /\ uuids \in 0..MaxUuids /\ links \in 0..MaxLinks
          /\ aborts \in 0..MaxAborts /\ faults \in 0..MaxFaults
          /\ machine \in [Machines -> 0..MaxUuids]
      BY BoundsNat DEF Init
    <2>. QED
      BY <2>1, <2>2, <2>3, <2>4 DEF Init, TypeOK
  <1>2. HandlerInv /\ LinkInv /\ CarriedInv /\ VerifiedOnly
    BY Absent DEF Init, NoAccount, NoLink, NoLoc, HandlerInv, LinkInv, CarriedInv, VerifiedOnly
  <1>. QED
    BY <1>1, <1>2 DEF IInv

-----------------------------------------------------------------------------
(***************************************************************************)
(* Every step preserves the invariant, one action at a time.               *)
(***************************************************************************)

\* Setting or clearing one field of a link or an invite keeps its type.
LEMMA FieldTyped ==
  ASSUME TypeOK
  PROVE  /\ \A i \in 1..MaxLinks, b \in BOOLEAN :
             /\ [link EXCEPT ![i].sent = b] \in [1..MaxLinks -> LinkRecord]
             /\ [link EXCEPT ![i].live = b] \in [1..MaxLinks -> LinkRecord]
         /\ \A c \in Codes :
             [invite EXCEPT ![c].status = "waiting"] \in [Codes -> InviteRecord]
  <1>1. ASSUME NEW i \in 1..MaxLinks, NEW b \in BOOLEAN
        PROVE  [link[i] EXCEPT !.sent = b] \in LinkRecord /\ [link[i] EXCEPT !.live = b]
             \in LinkRecord
    BY <1>1 DEF TypeOK, LinkRecord
  <1>2. ASSUME NEW c \in Codes
        PROVE  [invite[c] EXCEPT !.status = "waiting"] \in InviteRecord
    BY <1>2 DEF TypeOK, InviteRecord
  <1>. QED
    BY <1>1, <1>2 DEF TypeOK

\* The locals handlers start from and work with are well typed.
LEMMA LocTyped ==
  ASSUME TypeOK
  PROVE  /\ NoLoc \in Locals
         /\ HandlerTypes
         /\ \A h \in Handlers : loc[h] \in Locals
         /\ \A e \in Emails : account[e] \in AccountRecord
         /\ \A i \in 1..MaxLinks : link[i] \in LinkRecord
         /\ \A s \in Sessions : session[s] \in Emails \cup {NoEmail}
  BY BoundsNat DEF TypeOK, HandlerTypes, NoLoc, Locals, NoAccount, AccountRecord

\* Moving one handler to a point with well-typed locals keeps the types.
LEMMA GoTyped ==
  ASSUME TypeOK
  PROVE  \A h \in Handlers, p \in Points, l \in Locals : Go(h, p, l) => HandlerTypes'
  BY DEF TypeOK, HandlerTypes, Go

\* To keep HandlerInv a handler's step has to leave it well equipped.
LEMMA HandlerGo ==
  ASSUME TypeOK, HandlerInv, NEW h \in Handlers, NEW p, NEW l, Go(h, p, l),
         p # "idle" => l.email \in Emails,
         p \in {"mail", "undo", "undo_link"} => l.id \in 1..MaxLinks,
         p \in {"approve", "approve_uuid", "approve_store", "approve_burn"} => l.code \in Codes
  PROVE  HandlerInv'
  BY DEF TypeOK, HandlerInv, Go

\* To keep CarriedInv what the handler carries has to be verified.
LEMMA CarriedGo ==
  ASSUME TypeOK, CarriedInv, NEW h \in Handlers, NEW p, NEW l, Go(h, p, l),
         verified \subseteq verified',
         l.rec.status = "active" => l.email \in verified',
         p = "login" => l.email \in verified',
         p \in {"click", "click_set"} /\ l.op = "verify" => l.email \in verified'
  PROVE  CarriedInv'
  BY DEF TypeOK, CarriedInv, Go

\* Every step writes well-typed records.
LEMMA StepStore == IInv /\ [Next]_vars => StoreTypes'
  <1>. SUFFICES ASSUME IInv, [Next]_vars PROVE StoreTypes'
    OBVIOUS
  <1>. USE BoundsNat DEF Start, Go, Return, At, Idle, Swallow, redis, counts, history,
       IInv, StoreTypes, TypeOK, HandlerInv, LinkInv, Locals, AccountRecord, InviteRecord,
       NoAccount, NoInvite
  <1>1. ASSUME NEW h \in Handlers, SignupSet(h) PROVE StoreTypes'
    BY <1>1 DEF SignupSet
  <1>2. ASSUME NEW h \in Handlers, SetLink(h) PROVE StoreTypes'
    BY <1>2 DEF SetLink, LinkRecord
  <1>3. ASSUME NEW h \in Handlers, MailSent(h) PROVE StoreTypes'
    BY <1>3, FieldTyped DEF MailSent
  <1>4. ASSUME NEW h \in Handlers, NEW b \in BOOLEAN, MailFails(h, b) PROVE StoreTypes'
    BY <1>4, FieldTyped DEF MailFails
  <1>5. ASSUME NEW h \in Handlers, NEW b \in BOOLEAN, UndoAccount(h, b) PROVE StoreTypes'
    BY <1>5 DEF UndoAccount
  <1>6. ASSUME NEW h \in Handlers, NEW b \in BOOLEAN, UndoLink(h, b) PROVE StoreTypes'
    <2>1. loc[h].id \in 1..MaxLinks
      BY <1>6 DEF UndoLink
    <2>2. CASE b
      BY <1>6, <2>1, <2>2, FieldTyped DEF UndoLink
    <2>3. CASE ~b
      <3>1. link' = link
        BY <1>6, <2>1, <2>3 DEF UndoLink, LinkRecord
      <3>. QED
        BY <1>6, <3>1 DEF UndoLink
    <2>. QED
      BY <2>2, <2>3
  <1>7. ASSUME NEW h \in Handlers, NEW i \in 1..MaxLinks, Click(h, i) PROVE StoreTypes'
    BY <1>7, FieldTyped DEF Click
  <1>8. ASSUME NEW h \in Handlers, ClickSet(h) PROVE StoreTypes'
    BY <1>8 DEF ClickSet
  <1>9. ASSUME NEW h \in Handlers, NEW s \in Sessions, LoginSet(h, s) PROVE StoreTypes'
    BY <1>9 DEF LoginSet
  <1>10. ASSUME NEW h \in Handlers, NEW c \in Codes, InviteSet(h, c) PROVE StoreTypes'
    BY <1>10 DEF InviteSet
  <1>11. ASSUME NEW h \in Handlers, ApproveBurn(h) PROVE StoreTypes'
    BY <1>11 DEF ApproveBurn
  <1>12. ASSUME NEW h \in Handlers, NEW m \in Machines, ApproveStore(h, m) PROVE StoreTypes'
    BY <1>12 DEF ApproveStore
  <1>13. ASSUME NEW h \in Handlers, DeleteRecord(h) PROVE StoreTypes'
    BY <1>13 DEF DeleteRecord
  <1>14. ASSUME NEW h \in Handlers, NEW m \in Machines, NEW b \in BOOLEAN, DeleteMachine(h,
       m, b) PROVE StoreTypes'
    BY <1>14 DEF DeleteMachine
  <1>15. ASSUME NEW h \in Handlers, NEW c \in Codes, DeleteInvite(h, c) PROVE StoreTypes'
    BY <1>15 DEF DeleteInvite
  <1>16. ASSUME NEW h \in Handlers, NEW s \in Sessions, SweepSession(h, s) PROVE StoreTypes'
    BY <1>16 DEF SweepSession
  <1>17. ASSUME NEW s \in Sessions, EndSession(s) PROVE StoreTypes'
    BY <1>17 DEF EndSession
  <1>18. ASSUME NEW c \in Codes, BoxDials(c) PROVE StoreTypes'
    BY <1>18, FieldTyped DEF BoxDials
  <1>19. ASSUME NEW c \in Codes, InviteEnds(c) PROVE StoreTypes'
    BY <1>19 DEF InviteEnds
  <1>20. ASSUME NEW i \in 1..MaxLinks, LinkExpires(i) PROVE StoreTypes'
    BY <1>20, FieldTyped DEF LinkExpires
  <1>21. CASE UNCHANGED <<account, link, session, machine, invite>>
    BY <1>21
  <1>. HIDE DEF Start, Go, Return, At, Idle, Swallow, counts, IInv, StoreTypes, TypeOK,
       HandlerInv, LinkInv, Locals, AccountRecord, InviteRecord, NoAccount, NoInvite
  <1>22. ASSUME NEW h \in Handlers, MailNext(h) PROVE StoreTypes'
    BY <1>22, <1>1, <1>2, <1>3, <1>4, <1>5, <1>6, <1>7, <1>8, <1>21 DEF MailNext, Signup,
         ResendVerification, RequestPasswordReset, ClickGet
  <1>23. ASSUME NEW h \in Handlers, SessionNext(h) PROVE StoreTypes'
    BY <1>23, <1>9, <1>10, <1>11, <1>12, <1>21 DEF SessionNext, Login, InviteCreate,
         AccountDelete, InviteApprove, ApproveGet, ApproveUuid, SessionEmail
  <1>24. ASSUME NEW h \in Handlers, DeleteNext(h) PROVE StoreTypes'
    BY <1>24, <1>13, <1>14, <1>15, <1>16, <1>21 DEF DeleteNext, DeleteGet, DeleteOwner,
         SweepStart, SweepEnd, DeleteList, DeleteListInvites
  <1>. QED
    BY <1>17, <1>18, <1>19, <1>20, <1>21, <1>22, <1>23, <1>24 DEF vars, Next, Abort

\* Every step keeps the counters in their bounds.
LEMMA StepCount == IInv /\ [Next]_vars => CountTypes'
  <1>. SUFFICES ASSUME IInv, [Next]_vars PROVE CountTypes'
    OBVIOUS
  <1>. USE BoundsNat DEF Start, Go, Return, At, Idle, Swallow, redis, counts, history,
       IInv, CountTypes, TypeOK, LinkInv, Exists
  <1>1. ASSUME NEW h \in Handlers, NEW e \in Emails, Signup(h, e) PROVE CountTypes'
    BY <1>1 DEF Signup
  <1>2. ASSUME NEW h \in Handlers, NEW e \in Emails, ResendVerification(h, e) PROVE CountTypes'
    BY <1>2 DEF ResendVerification
  <1>3. ASSUME NEW h \in Handlers, NEW e \in Emails, RequestPasswordReset(h, e) PROVE
       CountTypes'
    BY <1>3 DEF RequestPasswordReset
  <1>4. ASSUME NEW h \in Handlers, SignupSet(h) PROVE CountTypes'
    BY <1>4 DEF SignupSet
  <1>5. ASSUME NEW h \in Handlers, SetLink(h) PROVE CountTypes'
    BY <1>5 DEF SetLink
  <1>6. ASSUME NEW h \in Handlers, MailSent(h) PROVE CountTypes'
    BY <1>6 DEF MailSent
  <1>7. ASSUME NEW h \in Handlers, NEW b \in BOOLEAN, MailFails(h, b) PROVE CountTypes'
    BY <1>7 DEF MailFails
  <1>8. ASSUME NEW h \in Handlers, NEW b \in BOOLEAN, UndoAccount(h, b) PROVE CountTypes'
    BY <1>8 DEF UndoAccount
  <1>9. ASSUME NEW h \in Handlers, NEW b \in BOOLEAN, UndoLink(h, b) PROVE CountTypes'
    BY <1>9 DEF UndoLink
  <1>10. ASSUME NEW h \in Handlers, NEW i \in 1..MaxLinks, Click(h, i) PROVE CountTypes'
    BY <1>10 DEF Click
  <1>11. ASSUME NEW h \in Handlers, ClickGet(h) PROVE CountTypes'
    BY <1>11 DEF ClickGet
  <1>12. ASSUME NEW h \in Handlers, ClickSet(h) PROVE CountTypes'
    BY <1>12 DEF ClickSet
  <1>13. ASSUME NEW h \in Handlers, NEW e \in Emails, Login(h, e) PROVE CountTypes'
    BY <1>13 DEF Login
  <1>14. ASSUME NEW h \in Handlers, NEW s \in Sessions, LoginSet(h, s) PROVE CountTypes'
    BY <1>14 DEF LoginSet
  <1>15. ASSUME NEW h \in Handlers, NEW s \in Sessions, InviteCreate(h, s) PROVE CountTypes'
    BY <1>15 DEF InviteCreate, SessionEmail
  <1>16. ASSUME NEW h \in Handlers, NEW s \in Sessions, AccountDelete(h, s) PROVE CountTypes'
    BY <1>16 DEF AccountDelete, SessionEmail
  <1>17. ASSUME NEW h \in Handlers, NEW s \in Sessions, NEW c \in Codes, InviteApprove(h,
       s, c) PROVE CountTypes'
    BY <1>17 DEF InviteApprove, SessionEmail
  <1>18. ASSUME NEW h \in Handlers, NEW c \in Codes, InviteSet(h, c) PROVE CountTypes'
    BY <1>18 DEF InviteSet
  <1>19. ASSUME NEW h \in Handlers, ApproveGet(h) PROVE CountTypes'
    BY <1>19 DEF ApproveGet
  <1>20. ASSUME NEW h \in Handlers, ApproveUuid(h) PROVE CountTypes'
    BY <1>20 DEF ApproveUuid
  <1>21. ASSUME NEW h \in Handlers, ApproveBurn(h) PROVE CountTypes'
    BY <1>21 DEF ApproveBurn
  <1>22. ASSUME NEW h \in Handlers, NEW m \in Machines, ApproveStore(h, m) PROVE CountTypes'
    BY <1>22 DEF ApproveStore
  <1>23. ASSUME NEW h \in Handlers, DeleteGet(h) PROVE CountTypes'
    BY <1>23 DEF DeleteGet
  <1>24. ASSUME NEW h \in Handlers, DeleteOwner(h) PROVE CountTypes'
    BY <1>24 DEF DeleteOwner
  <1>25. ASSUME NEW h \in Handlers, SweepStart(h) PROVE CountTypes'
    BY <1>25 DEF SweepStart
  <1>26. ASSUME NEW h \in Handlers, SweepEnd(h) PROVE CountTypes'
    BY <1>26 DEF SweepEnd
  <1>27. ASSUME NEW h \in Handlers, DeleteRecord(h) PROVE CountTypes'
    BY <1>27 DEF DeleteRecord
  <1>28. ASSUME NEW h \in Handlers, NEW b \in BOOLEAN, DeleteList(h, b) PROVE CountTypes'
    BY <1>28 DEF DeleteList
  <1>29. ASSUME NEW h \in Handlers, NEW b \in BOOLEAN, DeleteListInvites(h, b) PROVE CountTypes'
    BY <1>29 DEF DeleteListInvites
  <1>30. ASSUME NEW h \in Handlers, NEW m \in Machines, NEW b \in BOOLEAN, DeleteMachine(h,
       m, b) PROVE CountTypes'
    BY <1>30 DEF DeleteMachine
  <1>31. ASSUME NEW h \in Handlers, NEW c \in Codes, DeleteInvite(h, c) PROVE CountTypes'
    BY <1>31 DEF DeleteInvite
  <1>32. ASSUME NEW h \in Handlers, NEW s \in Sessions, SweepSession(h, s) PROVE CountTypes'
    BY <1>32 DEF SweepSession
  <1>33. ASSUME NEW h \in Handlers, Abort(h) PROVE CountTypes'
    BY <1>33 DEF Abort
  <1>34. ASSUME NEW s \in Sessions, EndSession(s) PROVE CountTypes'
    BY <1>34 DEF EndSession
  <1>35. ASSUME NEW c \in Codes, BoxDials(c) PROVE CountTypes'
    BY <1>35 DEF BoxDials
  <1>36. ASSUME NEW c \in Codes, InviteEnds(c) PROVE CountTypes'
    BY <1>36 DEF InviteEnds
  <1>37. ASSUME NEW i \in 1..MaxLinks, LinkExpires(i) PROVE CountTypes'
    BY <1>37 DEF LinkExpires
  <1>38. CASE UNCHANGED vars
    BY <1>38 DEF vars
  <1>. QED
    BY <1>1, <1>2, <1>3, <1>4, <1>5, <1>6, <1>7, <1>8, <1>9, <1>10, <1>11, <1>12, <1>13,
       <1>14, <1>15, <1>16, <1>17, <1>18, <1>19, <1>20, <1>21, <1>22, <1>23, <1>24,
       <1>25, <1>26, <1>27, <1>28, <1>29, <1>30, <1>31, <1>32, <1>33, <1>34, <1>35,
       <1>36, <1>37, <1>38
       DEF Next, MailNext, SessionNext, DeleteNext

\* Every step leaves well-typed locals.
LEMMA StepLocals == IInv /\ [Next]_vars => HandlerTypes'
  <1>. SUFFICES ASSUME IInv, [Next]_vars PROVE HandlerTypes'
    OBVIOUS
  <1>. USE DEF IInv
  <1>0. /\ {"signup", "link", "mail", "undo", "undo_link", "click", "click_set"} \subseteq Points
        /\ {"login", "invite", "approve", "approve_uuid", "approve_store"} \subseteq Points
        /\ {"approve_burn", "delete", "owner", "list", "machines"} \subseteq Points
        /\ {"idle", "invites", "sessions", "record"} \subseteq Points
    BY DEF Points
  <1>1. ASSUME NEW h \in Handlers, NEW e \in Emails, Signup(h, e) PROVE HandlerTypes'
    <2>1. [NoLoc EXCEPT !.op = "signup", !.email = e] \in Locals
      BY <1>1, LocTyped DEF Signup, At, Locals, TypeOK, IInv
    <2>2. Go(h, "signup", [NoLoc EXCEPT !.op = "signup", !.email = e])
      BY <1>1 DEF Signup, Start
    <2>. QED
      BY <2>1, <2>2, GoTyped, <1>0
  <1>2. ASSUME NEW h \in Handlers, NEW e \in Emails, ResendVerification(h, e) PROVE
       HandlerTypes'
    <2>1. [NoLoc EXCEPT !.op = "resend", !.email = e, !.rec = account[e]] \in Locals
      BY <1>2, LocTyped DEF ResendVerification, At, Locals, TypeOK, IInv
    <2>2. Go(h, "link", [NoLoc EXCEPT !.op = "resend", !.email = e, !.rec = account[e]])
      BY <1>2 DEF ResendVerification, Start
    <2>. QED
      BY <2>1, <2>2, GoTyped, <1>0
  <1>3. ASSUME NEW h \in Handlers, NEW e \in Emails, RequestPasswordReset(h, e) PROVE
       HandlerTypes'
    <2>1. [NoLoc EXCEPT !.op = "forgot", !.email = e] \in Locals
      BY <1>3, LocTyped DEF RequestPasswordReset, At, Locals, TypeOK, IInv
    <2>2. Go(h, "link", [NoLoc EXCEPT !.op = "forgot", !.email = e])
      BY <1>3 DEF RequestPasswordReset, Start
    <2>. QED
      BY <2>1, <2>2, GoTyped, <1>0
  <1>4. ASSUME NEW h \in Handlers, SignupSet(h) PROVE HandlerTypes'
    <2>. DEFINE rec == [uuid |-> uuids + 1, status |-> "pending"]
    <2>1. rec \in AccountRecord
      BY <1>4, BoundsNat DEF SignupSet, AccountRecord, TypeOK, IInv
    <2>2. [loc[h] EXCEPT !.rec = rec] \in Locals
      BY <2>1, LocTyped DEF Locals
    <2>3. Go(h, "link", [loc[h] EXCEPT !.rec = rec])
      BY <1>4 DEF SignupSet
    <2>. QED
      BY <2>2, <2>3, GoTyped, <1>0
  <1>5. ASSUME NEW h \in Handlers, SetLink(h) PROVE HandlerTypes'
    <2>0. links + 1 \in 0..MaxLinks
      BY <1>5, BoundsNat DEF SetLink, TypeOK
    <2>1. [loc[h] EXCEPT !.id = links + 1] \in Locals
      BY <2>0, LocTyped DEF Locals
    <2>2. Go(h, "mail", [loc[h] EXCEPT !.id = links + 1])
      BY <1>5 DEF SetLink, Start
    <2>. QED
      BY <2>1, <2>2, GoTyped, <1>0
  <1>6. ASSUME NEW h \in Handlers, MailSent(h) PROVE HandlerTypes'
    BY <1>6, LocTyped, GoTyped, <1>0 DEF MailSent, Return
  <1>7. ASSUME NEW h \in Handlers, NEW b \in BOOLEAN, MailFails(h, b) PROVE HandlerTypes'
    <2>1. loc[h] \in Locals
      BY <1>7, LocTyped DEF MailFails, At, Locals, TypeOK, IInv, HandlerInv
    <2>2. Go(h, "undo", loc[h]) \/ Go(h, "idle", NoLoc)
      BY <1>7 DEF MailFails, Return
    <2>. QED
      BY <2>1, <2>2, GoTyped, <1>0, LocTyped
  <1>8. ASSUME NEW h \in Handlers, NEW b \in BOOLEAN, UndoAccount(h, b) PROVE HandlerTypes'
    BY <1>8, LocTyped, GoTyped, <1>0 DEF UndoAccount
  <1>9. ASSUME NEW h \in Handlers, NEW b \in BOOLEAN, UndoLink(h, b) PROVE HandlerTypes'
    BY <1>9, LocTyped, GoTyped, <1>0 DEF UndoLink, Return
  <1>10. ASSUME NEW h \in Handlers, NEW i \in 1..MaxLinks, Click(h, i) PROVE HandlerTypes'
    <2>1. [NoLoc EXCEPT !.op = link[i].kind, !.email = link[i].email] \in Locals
      BY <1>10, LocTyped DEF Click, At, Locals, TypeOK, IInv, LinkInv
    <2>2. Go(h, "click", [NoLoc EXCEPT !.op = link[i].kind, !.email = link[i].email])
      BY <1>10 DEF Click, Start
    <2>. QED
      BY <2>1, <2>2, GoTyped, <1>0
  <1>11. ASSUME NEW h \in Handlers, ClickGet(h) PROVE HandlerTypes'
    <2>1. [loc[h] EXCEPT !.rec = account[loc[h].email]] \in Locals
      BY <1>11, LocTyped DEF ClickGet, At, Locals, TypeOK, IInv, HandlerInv
    <2>2. Go(h, "click_set", [loc[h] EXCEPT !.rec = account[loc[h].email]]) \/ Go(h, "idle", NoLoc)
      BY <1>11 DEF ClickGet, Return
    <2>. QED
      BY <2>1, <2>2, GoTyped, <1>0, LocTyped
  <1>12. ASSUME NEW h \in Handlers, ClickSet(h) PROVE HandlerTypes'
    BY <1>12, LocTyped, GoTyped, <1>0 DEF ClickSet, Return
  <1>13. ASSUME NEW h \in Handlers, NEW e \in Emails, Login(h, e) PROVE HandlerTypes'
    <2>1. [NoLoc EXCEPT !.email = e] \in Locals
      BY <1>13, LocTyped DEF Login, At, Locals, TypeOK, IInv
    <2>2. Go(h, "login", [NoLoc EXCEPT !.email = e])
      BY <1>13 DEF Login, Start
    <2>. QED
      BY <2>1, <2>2, GoTyped, <1>0
  <1>14. ASSUME NEW h \in Handlers, NEW s \in Sessions, LoginSet(h, s) PROVE HandlerTypes'
    BY <1>14, LocTyped, GoTyped, <1>0 DEF LoginSet, Return
  <1>15. ASSUME NEW h \in Handlers, NEW s \in Sessions, InviteCreate(h, s) PROVE HandlerTypes'
    <2>1. [NoLoc EXCEPT !.email = session[s]] \in Locals
      BY <1>15, LocTyped DEF InviteCreate, SessionEmail, At, Locals, TypeOK, IInv
    <2>2. Go(h, "invite", [NoLoc EXCEPT !.email = session[s]])
      BY <1>15 DEF InviteCreate, SessionEmail, Start
    <2>. QED
      BY <2>1, <2>2, GoTyped, <1>0
  <1>16. ASSUME NEW h \in Handlers, NEW s \in Sessions, AccountDelete(h, s) PROVE HandlerTypes'
    <2>1. [NoLoc EXCEPT !.email = session[s]] \in Locals
      BY <1>16, LocTyped DEF AccountDelete, SessionEmail, At, Locals, TypeOK, IInv
    <2>2. Go(h, "delete", [NoLoc EXCEPT !.email = session[s]])
      BY <1>16 DEF AccountDelete, SessionEmail, Start
    <2>. QED
      BY <2>1, <2>2, GoTyped, <1>0
  <1>17. ASSUME NEW h \in Handlers, NEW s \in Sessions, NEW c \in Codes, InviteApprove(h,
       s, c) PROVE HandlerTypes'
    <2>1. [[NoLoc EXCEPT !.code = c] EXCEPT !.email = session[s]] \in Locals
      BY <1>17, LocTyped DEF InviteApprove, SessionEmail, At, Locals, TypeOK, IInv
    <2>2. Go(h, "approve", [[NoLoc EXCEPT !.code = c] EXCEPT !.email = session[s]])
      BY <1>17 DEF InviteApprove, SessionEmail, Start
    <2>. QED
      BY <2>1, <2>2, GoTyped, <1>0
  <1>18. ASSUME NEW h \in Handlers, NEW c \in Codes, InviteSet(h, c) PROVE HandlerTypes'
    BY <1>18, LocTyped, GoTyped, <1>0 DEF InviteSet, Return
  <1>19. ASSUME NEW h \in Handlers, ApproveGet(h) PROVE HandlerTypes'
    <2>1. loc[h] \in Locals
      BY <1>19, LocTyped DEF ApproveGet, At, Locals, TypeOK, IInv, HandlerInv
    <2>2. Go(h, "approve_uuid", loc[h]) \/ Go(h, "idle", NoLoc)
      BY <1>19 DEF ApproveGet, Return
    <2>. QED
      BY <2>1, <2>2, GoTyped, <1>0, LocTyped
  <1>20. ASSUME NEW h \in Handlers, ApproveUuid(h) PROVE HandlerTypes'
    <2>1. [loc[h] EXCEPT !.rec = account[loc[h].email]] \in Locals
      BY <1>20, LocTyped DEF ApproveUuid, At, Locals, TypeOK, IInv, HandlerInv
    <2>2. \/ Go(h, "approve_store", [loc[h] EXCEPT !.rec = account[loc[h].email]])
          \/ Go(h, "idle", NoLoc)
      BY <1>20 DEF ApproveUuid, Return
    <2>. QED
      BY <2>1, <2>2, GoTyped, <1>0, LocTyped
  <1>21. ASSUME NEW h \in Handlers, ApproveBurn(h) PROVE HandlerTypes'
    BY <1>21, LocTyped, GoTyped, <1>0 DEF ApproveBurn, Return
  <1>22. ASSUME NEW h \in Handlers, NEW m \in Machines, ApproveStore(h, m) PROVE HandlerTypes'
    BY <1>22, LocTyped, GoTyped, <1>0 DEF ApproveStore
  <1>23. ASSUME NEW h \in Handlers, DeleteGet(h) PROVE HandlerTypes'
    <2>1. loc[h] \in Locals
      BY <1>23, LocTyped DEF DeleteGet, At, Locals, TypeOK, IInv, HandlerInv
    <2>2. Go(h, "owner", loc[h]) \/ Go(h, "idle", NoLoc)
      BY <1>23 DEF DeleteGet, Return
    <2>. QED
      BY <2>1, <2>2, GoTyped, <1>0, LocTyped
  <1>24. ASSUME NEW h \in Handlers, DeleteOwner(h) PROVE HandlerTypes'
    <2>1. [loc[h] EXCEPT !.rec = account[loc[h].email]] \in Locals
      BY <1>24, LocTyped DEF DeleteOwner, At, Locals, TypeOK, IInv, HandlerInv
    <2>2. Go(h, "list", [loc[h] EXCEPT !.rec = account[loc[h].email]])
      BY <1>24 DEF DeleteOwner, Start
    <2>. QED
      BY <2>1, <2>2, GoTyped, <1>0
  <1>25. ASSUME NEW h \in Handlers, SweepStart(h) PROVE HandlerTypes'
    <2>1. [loc[h] EXCEPT !.todo = {s \in Sessions : session[s] # NoEmail}] \in Locals
      BY <1>25, LocTyped DEF SweepStart, At, Locals, TypeOK, IInv
    <2>2. Go(h, "sessions", [loc[h] EXCEPT !.todo = {s \in Sessions : session[s] # NoEmail}])
      BY <1>25 DEF SweepStart, Start
    <2>. QED
      BY <2>1, <2>2, GoTyped, <1>0
  <1>26. ASSUME NEW h \in Handlers, SweepEnd(h) PROVE HandlerTypes'
    BY <1>26, LocTyped, GoTyped, <1>0 DEF SweepEnd
  <1>27. ASSUME NEW h \in Handlers, DeleteRecord(h) PROVE HandlerTypes'
    BY <1>27, LocTyped, GoTyped, <1>0 DEF DeleteRecord, Return
  <1>28. ASSUME NEW h \in Handlers, NEW b \in BOOLEAN, DeleteList(h, b) PROVE HandlerTypes'
    <2>1. [loc[h] EXCEPT !.todo = 
            {m \in Machines : b /\ machine[m] # 0 /\ machine[m] = loc[h].rec.uuid}] \in Locals
      BY <1>28, LocTyped DEF DeleteList, At, Locals, TypeOK, IInv
    <2>2. Go(h, "machines", [loc[h] EXCEPT !.todo = 
            {m \in Machines : b /\ machine[m] # 0 /\ machine[m] = loc[h].rec.uuid}])
      BY <1>28 DEF DeleteList, Start
    <2>. QED
      BY <2>1, <2>2, GoTyped, <1>0
  <1>29. ASSUME NEW h \in Handlers, NEW b \in BOOLEAN, DeleteListInvites(h, b) PROVE
       HandlerTypes'
    <2>1. [loc[h] EXCEPT !.todo = {c \in Codes : b /\ invite[c].owner = loc[h].email}] \in Locals
      BY <1>29, LocTyped DEF DeleteListInvites, At, Locals, TypeOK, IInv
    <2>2. Go(h, "invites", [loc[h] EXCEPT !.todo = {c \in Codes : b /\ invite[c].owner = loc[h].email}])
      BY <1>29 DEF DeleteListInvites, Start
    <2>. QED
      BY <2>1, <2>2, GoTyped, <1>0
  <1>30. ASSUME NEW h \in Handlers, NEW m \in Machines, NEW b \in BOOLEAN, DeleteMachine(h,
       m, b) PROVE HandlerTypes'
    <2>1. [loc[h] EXCEPT !.todo = @ \ {m}] \in Locals
      BY <1>30, LocTyped DEF DeleteMachine, At, Locals, TypeOK, IInv
    <2>2. Go(h, "machines", [loc[h] EXCEPT !.todo = @ \ {m}])
      BY <1>30 DEF DeleteMachine, Start
    <2>. QED
      BY <2>1, <2>2, GoTyped, <1>0
  <1>31. ASSUME NEW h \in Handlers, NEW c \in Codes, DeleteInvite(h, c) PROVE HandlerTypes'
    <2>1. [loc[h] EXCEPT !.todo = @ \ {c}] \in Locals
      BY <1>31, LocTyped DEF DeleteInvite, At, Locals, TypeOK, IInv
    <2>2. Go(h, "invites", [loc[h] EXCEPT !.todo = @ \ {c}])
      BY <1>31 DEF DeleteInvite, Start
    <2>. QED
      BY <2>1, <2>2, GoTyped, <1>0
  <1>32. ASSUME NEW h \in Handlers, NEW s \in Sessions, SweepSession(h, s) PROVE HandlerTypes'
    <2>1. [loc[h] EXCEPT !.todo = @ \ {s}] \in Locals
      BY <1>32, LocTyped DEF SweepSession, At, Locals, TypeOK, IInv
    <2>2. Go(h, "sessions", [loc[h] EXCEPT !.todo = @ \ {s}])
      BY <1>32 DEF SweepSession, Start
    <2>. QED
      BY <2>1, <2>2, GoTyped, <1>0
  <1>33. ASSUME NEW h \in Handlers, Abort(h) PROVE HandlerTypes'
    BY <1>33, LocTyped, GoTyped, <1>0 DEF Abort, Return
  <1>34. ASSUME NEW s \in Sessions, EndSession(s) PROVE HandlerTypes'
    BY <1>34, LocTyped DEF EndSession, HandlerTypes
  <1>35. ASSUME NEW c \in Codes, BoxDials(c) PROVE HandlerTypes'
    BY <1>35, LocTyped DEF BoxDials, HandlerTypes
  <1>36. ASSUME NEW c \in Codes, InviteEnds(c) PROVE HandlerTypes'
    BY <1>36, LocTyped DEF InviteEnds, HandlerTypes
  <1>37. ASSUME NEW i \in 1..MaxLinks, LinkExpires(i) PROVE HandlerTypes'
    BY <1>37, LocTyped DEF LinkExpires, HandlerTypes
  <1>38. CASE UNCHANGED vars
    BY <1>38, LocTyped DEF vars, HandlerTypes
  <1>. QED
    BY <1>1, <1>2, <1>3, <1>4, <1>5, <1>6, <1>7, <1>8, <1>9, <1>10, <1>11, <1>12, <1>13,
       <1>14, <1>15, <1>16, <1>17, <1>18, <1>19, <1>20, <1>21, <1>22, <1>23, <1>24,
       <1>25, <1>26, <1>27, <1>28, <1>29, <1>30, <1>31, <1>32, <1>33, <1>34, <1>35,
       <1>36, <1>37, <1>38
       DEF Next, MailNext, SessionNext, DeleteNext

\* A step leaves every handler with what its next step needs.
LEMMA StepHandler == IInv /\ [Next]_vars => HandlerInv'
  <1>. SUFFICES ASSUME IInv, [Next]_vars PROVE HandlerInv'
    OBVIOUS
  <1>. USE BoundsNat DEF Start, Go, Return, At, Idle, Swallow, redis, counts, history,
       IInv, TypeOK, HandlerInv, LinkInv, NoLoc, Locals
  <1>1. ASSUME NEW h \in Handlers, NEW e \in Emails, Signup(h, e) PROVE HandlerInv'
    BY <1>1 DEF Signup
  <1>2. ASSUME NEW h \in Handlers, NEW e \in Emails, ResendVerification(h, e) PROVE HandlerInv'
    BY <1>2 DEF ResendVerification
  <1>3. ASSUME NEW h \in Handlers, NEW e \in Emails, RequestPasswordReset(h, e) PROVE
       HandlerInv'
    BY <1>3 DEF RequestPasswordReset
  <1>4. ASSUME NEW h \in Handlers, SignupSet(h) PROVE HandlerInv'
    BY <1>4 DEF SignupSet
  <1>5. ASSUME NEW h \in Handlers, SetLink(h) PROVE HandlerInv'
    BY <1>5 DEF SetLink
  <1>6. ASSUME NEW h \in Handlers, MailSent(h) PROVE HandlerInv'
    BY <1>6 DEF MailSent
  <1>7. ASSUME NEW h \in Handlers, NEW b \in BOOLEAN, MailFails(h, b) PROVE HandlerInv'
    <2>. HIDE DEF Go
    <2>1. CASE loc[h].op = "signup"
      <3>1. Go(h, "undo", loc[h])
        BY <1>7, <2>1 DEF MailFails
      <3>. QED
        BY <1>7, <3>1, HandlerGo, LocTyped DEF MailFails, HandlerInv, NoLoc
    <2>2. CASE ~(loc[h].op = "signup")
      <3>1. Go(h, "idle", NoLoc)
        BY <1>7, <2>2 DEF MailFails, Return
      <3>. QED
        BY <1>7, <3>1, HandlerGo, LocTyped DEF MailFails, HandlerInv, NoLoc
    <2>. QED
      BY <2>1, <2>2
  <1>8. ASSUME NEW h \in Handlers, NEW b \in BOOLEAN, UndoAccount(h, b) PROVE HandlerInv'
    BY <1>8 DEF UndoAccount
  <1>9. ASSUME NEW h \in Handlers, NEW b \in BOOLEAN, UndoLink(h, b) PROVE HandlerInv'
    BY <1>9 DEF UndoLink
  <1>10. ASSUME NEW h \in Handlers, NEW i \in 1..MaxLinks, Click(h, i) PROVE HandlerInv'
    BY <1>10 DEF Click
  <1>11. ASSUME NEW h \in Handlers, ClickGet(h) PROVE HandlerInv'
    <2>. HIDE DEF Go
    <2>1. CASE Exists(loc[h].email)
      <3>1. Go(h, "click_set", [loc[h] EXCEPT !.rec = account[loc[h].email]])
        BY <1>11, <2>1 DEF ClickGet
      <3>. QED
        BY <1>11, <3>1, HandlerGo, LocTyped DEF ClickGet, HandlerInv, NoLoc
    <2>2. CASE ~(Exists(loc[h].email))
      <3>1. Go(h, "idle", NoLoc)
        BY <1>11, <2>2 DEF ClickGet, Return
      <3>. QED
        BY <1>11, <3>1, HandlerGo, LocTyped DEF ClickGet, HandlerInv, NoLoc
    <2>. QED
      BY <2>1, <2>2
  <1>12. ASSUME NEW h \in Handlers, ClickSet(h) PROVE HandlerInv'
    BY <1>12 DEF ClickSet
  <1>13. ASSUME NEW h \in Handlers, NEW e \in Emails, Login(h, e) PROVE HandlerInv'
    BY <1>13 DEF Login
  <1>14. ASSUME NEW h \in Handlers, NEW s \in Sessions, LoginSet(h, s) PROVE HandlerInv'
    BY <1>14 DEF LoginSet
  <1>15. ASSUME NEW h \in Handlers, NEW s \in Sessions, InviteCreate(h, s) PROVE HandlerInv'
    BY <1>15 DEF InviteCreate, SessionEmail
  <1>16. ASSUME NEW h \in Handlers, NEW s \in Sessions, AccountDelete(h, s) PROVE HandlerInv'
    BY <1>16 DEF AccountDelete, SessionEmail
  <1>17. ASSUME NEW h \in Handlers, NEW s \in Sessions, NEW c \in Codes, InviteApprove(h,
       s, c) PROVE HandlerInv'
    BY <1>17 DEF InviteApprove, SessionEmail
  <1>18. ASSUME NEW h \in Handlers, NEW c \in Codes, InviteSet(h, c) PROVE HandlerInv'
    BY <1>18 DEF InviteSet
  <1>19. ASSUME NEW h \in Handlers, ApproveGet(h) PROVE HandlerInv'
    <2>. HIDE DEF Go
    <2>1. CASE invite[loc[h].code] = [owner |-> loc[h].email, status |-> "waiting"]
      <3>1. Go(h, "approve_uuid", loc[h])
        BY <1>19, <2>1 DEF ApproveGet
      <3>. QED
        BY <1>19, <3>1, HandlerGo, LocTyped DEF ApproveGet, HandlerInv, NoLoc
    <2>2. CASE ~(invite[loc[h].code] = [owner |-> loc[h].email, status |-> "waiting"])
      <3>1. Go(h, "idle", NoLoc)
        BY <1>19, <2>2 DEF ApproveGet, Return
      <3>. QED
        BY <1>19, <3>1, HandlerGo, LocTyped DEF ApproveGet, HandlerInv, NoLoc
    <2>. QED
      BY <2>1, <2>2
  <1>20. ASSUME NEW h \in Handlers, ApproveUuid(h) PROVE HandlerInv'
    <2>. HIDE DEF Go
    <2>1. CASE Exists(loc[h].email)
      <3>1. Go(h, "approve_store", [loc[h] EXCEPT !.rec = account[loc[h].email]])
        BY <1>20, <2>1 DEF ApproveUuid
      <3>. QED
        BY <1>20, <3>1, HandlerGo, LocTyped DEF ApproveUuid, HandlerInv, NoLoc
    <2>2. CASE ~(Exists(loc[h].email))
      <3>1. Go(h, "idle", NoLoc)
        BY <1>20, <2>2 DEF ApproveUuid, Return
      <3>. QED
        BY <1>20, <3>1, HandlerGo, LocTyped DEF ApproveUuid, HandlerInv, NoLoc
    <2>. QED
      BY <2>1, <2>2
  <1>21. ASSUME NEW h \in Handlers, ApproveBurn(h) PROVE HandlerInv'
    BY <1>21 DEF ApproveBurn
  <1>22. ASSUME NEW h \in Handlers, NEW m \in Machines, ApproveStore(h, m) PROVE HandlerInv'
    BY <1>22 DEF ApproveStore
  <1>23. ASSUME NEW h \in Handlers, DeleteGet(h) PROVE HandlerInv'
    <2>. HIDE DEF Go
    <2>1. CASE Exists(loc[h].email)
      <3>1. Go(h, "owner", loc[h])
        BY <1>23, <2>1 DEF DeleteGet
      <3>. QED
        BY <1>23, <3>1, HandlerGo, LocTyped DEF DeleteGet, HandlerInv, NoLoc
    <2>2. CASE ~(Exists(loc[h].email))
      <3>1. Go(h, "idle", NoLoc)
        BY <1>23, <2>2 DEF DeleteGet, Return
      <3>. QED
        BY <1>23, <3>1, HandlerGo, LocTyped DEF DeleteGet, HandlerInv, NoLoc
    <2>. QED
      BY <2>1, <2>2
  <1>24. ASSUME NEW h \in Handlers, DeleteOwner(h) PROVE HandlerInv'
    BY <1>24 DEF DeleteOwner
  <1>25. ASSUME NEW h \in Handlers, SweepStart(h) PROVE HandlerInv'
    BY <1>25 DEF SweepStart
  <1>26. ASSUME NEW h \in Handlers, SweepEnd(h) PROVE HandlerInv'
    BY <1>26 DEF SweepEnd
  <1>27. ASSUME NEW h \in Handlers, DeleteRecord(h) PROVE HandlerInv'
    BY <1>27 DEF DeleteRecord
  <1>28. ASSUME NEW h \in Handlers, NEW b \in BOOLEAN, DeleteList(h, b) PROVE HandlerInv'
    BY <1>28 DEF DeleteList
  <1>29. ASSUME NEW h \in Handlers, NEW b \in BOOLEAN, DeleteListInvites(h, b) PROVE HandlerInv'
    BY <1>29 DEF DeleteListInvites
  <1>30. ASSUME NEW h \in Handlers, NEW m \in Machines, NEW b \in BOOLEAN, DeleteMachine(h,
       m, b) PROVE HandlerInv'
    BY <1>30 DEF DeleteMachine
  <1>31. ASSUME NEW h \in Handlers, NEW c \in Codes, DeleteInvite(h, c) PROVE HandlerInv'
    BY <1>31 DEF DeleteInvite
  <1>32. ASSUME NEW h \in Handlers, NEW s \in Sessions, SweepSession(h, s) PROVE HandlerInv'
    BY <1>32 DEF SweepSession
  <1>33. ASSUME NEW h \in Handlers, Abort(h) PROVE HandlerInv'
    BY <1>33 DEF Abort
  <1>34. ASSUME NEW s \in Sessions, EndSession(s) PROVE HandlerInv'
    BY <1>34 DEF EndSession
  <1>35. ASSUME NEW c \in Codes, BoxDials(c) PROVE HandlerInv'
    BY <1>35 DEF BoxDials
  <1>36. ASSUME NEW c \in Codes, InviteEnds(c) PROVE HandlerInv'
    BY <1>36 DEF InviteEnds
  <1>37. ASSUME NEW i \in 1..MaxLinks, LinkExpires(i) PROVE HandlerInv'
    BY <1>37 DEF LinkExpires
  <1>38. CASE UNCHANGED vars
    BY <1>38 DEF vars
  <1>. QED
    BY <1>1, <1>2, <1>3, <1>4, <1>5, <1>6, <1>7, <1>8, <1>9, <1>10, <1>11, <1>12, <1>13,
       <1>14, <1>15, <1>16, <1>17, <1>18, <1>19, <1>20, <1>21, <1>22, <1>23, <1>24,
       <1>25, <1>26, <1>27, <1>28, <1>29, <1>30, <1>31, <1>32, <1>33, <1>34, <1>35,
       <1>36, <1>37, <1>38
       DEF Next, MailNext, SessionNext, DeleteNext

\* A link that can be followed is one a handler has just made.
LEMMA StepLink == IInv /\ [Next]_vars => LinkInv'
  <1>. SUFFICES ASSUME IInv, [Next]_vars PROVE LinkInv'
    OBVIOUS
  <1>. USE BoundsNat DEF Start, Go, Return, At, Idle, Swallow, redis, counts, history,
       IInv, TypeOK, HandlerInv, LinkInv, LinkRecord
  <1>1. ASSUME NEW h \in Handlers, SetLink(h) PROVE LinkInv'
    BY <1>1 DEF SetLink
  <1>2. ASSUME NEW h \in Handlers, MailSent(h) PROVE LinkInv'
    BY <1>2 DEF MailSent
  <1>3. ASSUME NEW h \in Handlers, NEW b \in BOOLEAN, MailFails(h, b) PROVE LinkInv'
    BY <1>3 DEF MailFails
  <1>4. ASSUME NEW h \in Handlers, NEW b \in BOOLEAN, UndoLink(h, b) PROVE LinkInv'
    BY <1>4 DEF UndoLink
  <1>5. ASSUME NEW h \in Handlers, NEW i \in 1..MaxLinks, Click(h, i) PROVE LinkInv'
    BY <1>5 DEF Click
  <1>6. ASSUME NEW i \in 1..MaxLinks, LinkExpires(i) PROVE LinkInv'
    BY <1>6 DEF LinkExpires
  <1>7. CASE UNCHANGED link
    BY <1>7
  <1>. HIDE DEF Start, Go, Return, At, Idle, Swallow, counts, IInv, TypeOK, HandlerInv,
       LinkInv, LinkRecord
  <1>8. ASSUME NEW h \in Handlers, MailNext(h) PROVE LinkInv'
    BY <1>8, <1>1, <1>2, <1>3, <1>4, <1>5, <1>7 DEF MailNext, Signup, ResendVerification,
         RequestPasswordReset, SignupSet, UndoAccount, ClickGet, ClickSet
  <1>9. ASSUME NEW h \in Handlers, SessionNext(h) PROVE LinkInv'
    BY <1>9, <1>7 DEF SessionNext, Login, LoginSet, InviteCreate, AccountDelete,
         InviteApprove, InviteSet, ApproveGet, ApproveUuid, ApproveBurn, ApproveStore,
         SessionEmail
  <1>10. ASSUME NEW h \in Handlers, DeleteNext(h) PROVE LinkInv'
    BY <1>10, <1>7 DEF DeleteNext, DeleteGet, DeleteOwner, SweepStart, SweepEnd,
         DeleteRecord, DeleteList, DeleteListInvites, DeleteMachine, DeleteInvite, SweepSession
  <1>. QED
    BY <1>6, <1>7, <1>8, <1>9, <1>10 DEF vars, Next, Abort, EndSession, BoxDials, InviteEnds

\* What a handler carries from a read to a write is about a verified address.
LEMMA StepCarried == IInv /\ [Next]_vars => CarriedInv'
  <1>. SUFFICES ASSUME IInv, [Next]_vars PROVE CarriedInv'
    OBVIOUS
  <1>. USE BoundsNat DEF Start, Go, Return, At, Idle, Swallow, redis, counts, history,
       IInv, TypeOK, HandlerInv, LinkInv, CarriedInv, VerifiedOnly, NoLoc, NoAccount, Locals,
       AccountRecord, LinkRecord
  <1>1. ASSUME NEW h \in Handlers, NEW e \in Emails, Signup(h, e) PROVE CarriedInv'
    BY <1>1 DEF Signup
  <1>2. ASSUME NEW h \in Handlers, NEW e \in Emails, ResendVerification(h, e) PROVE CarriedInv'
    BY <1>2 DEF ResendVerification
  <1>3. ASSUME NEW h \in Handlers, NEW e \in Emails, RequestPasswordReset(h, e) PROVE
       CarriedInv'
    BY <1>3 DEF RequestPasswordReset
  <1>4. ASSUME NEW h \in Handlers, SignupSet(h) PROVE CarriedInv'
    BY <1>4 DEF SignupSet
  <1>5. ASSUME NEW h \in Handlers, SetLink(h) PROVE CarriedInv'
    BY <1>5 DEF SetLink
  <1>6. ASSUME NEW h \in Handlers, MailSent(h) PROVE CarriedInv'
    BY <1>6 DEF MailSent
  <1>7. ASSUME NEW h \in Handlers, NEW b \in BOOLEAN, MailFails(h, b) PROVE CarriedInv'
    <2>. HIDE DEF Go
    <2>1. CASE loc[h].op = "signup"
      <3>1. Go(h, "undo", loc[h])
        BY <1>7, <2>1 DEF MailFails
      <3>. QED
        BY <1>7, <3>1, CarriedGo, LocTyped DEF MailFails, CarriedInv, VerifiedOnly, NoLoc,
             NoAccount, HandlerInv
    <2>2. CASE ~(loc[h].op = "signup")
      <3>1. Go(h, "idle", NoLoc)
        BY <1>7, <2>2 DEF MailFails, Return
      <3>. QED
        BY <1>7, <3>1, CarriedGo, LocTyped DEF MailFails, CarriedInv, VerifiedOnly, NoLoc,
             NoAccount, HandlerInv
    <2>. QED
      BY <2>1, <2>2
  <1>8. ASSUME NEW h \in Handlers, NEW b \in BOOLEAN, UndoAccount(h, b) PROVE CarriedInv'
    BY <1>8 DEF UndoAccount
  <1>9. ASSUME NEW h \in Handlers, NEW b \in BOOLEAN, UndoLink(h, b) PROVE CarriedInv'
    BY <1>9 DEF UndoLink
  <1>10. ASSUME NEW h \in Handlers, NEW i \in 1..MaxLinks, Click(h, i) PROVE CarriedInv'
    BY <1>10 DEF Click
  <1>11. ASSUME NEW h \in Handlers, ClickGet(h) PROVE CarriedInv'
    <2>. HIDE DEF Go
    <2>1. CASE Exists(loc[h].email)
      <3>1. Go(h, "click_set", [loc[h] EXCEPT !.rec = account[loc[h].email]])
        BY <1>11, <2>1 DEF ClickGet
      <3>. QED
        BY <1>11, <3>1, CarriedGo, LocTyped DEF ClickGet, CarriedInv, VerifiedOnly, NoLoc,
             NoAccount, HandlerInv
    <2>2. CASE ~(Exists(loc[h].email))
      <3>1. Go(h, "idle", NoLoc)
        BY <1>11, <2>2 DEF ClickGet, Return
      <3>. QED
        BY <1>11, <3>1, CarriedGo, LocTyped DEF ClickGet, CarriedInv, VerifiedOnly, NoLoc,
             NoAccount, HandlerInv
    <2>. QED
      BY <2>1, <2>2
  <1>12. ASSUME NEW h \in Handlers, ClickSet(h) PROVE CarriedInv'
    BY <1>12 DEF ClickSet
  <1>13. ASSUME NEW h \in Handlers, NEW e \in Emails, Login(h, e) PROVE CarriedInv'
    BY <1>13 DEF Login
  <1>14. ASSUME NEW h \in Handlers, NEW s \in Sessions, LoginSet(h, s) PROVE CarriedInv'
    BY <1>14 DEF LoginSet
  <1>15. ASSUME NEW h \in Handlers, NEW s \in Sessions, InviteCreate(h, s) PROVE CarriedInv'
    BY <1>15 DEF InviteCreate, SessionEmail
  <1>16. ASSUME NEW h \in Handlers, NEW s \in Sessions, AccountDelete(h, s) PROVE CarriedInv'
    BY <1>16 DEF AccountDelete, SessionEmail
  <1>17. ASSUME NEW h \in Handlers, NEW s \in Sessions, NEW c \in Codes, InviteApprove(h,
       s, c) PROVE CarriedInv'
    BY <1>17 DEF InviteApprove, SessionEmail
  <1>18. ASSUME NEW h \in Handlers, NEW c \in Codes, InviteSet(h, c) PROVE CarriedInv'
    BY <1>18 DEF InviteSet
  <1>19. ASSUME NEW h \in Handlers, ApproveGet(h) PROVE CarriedInv'
    <2>. HIDE DEF Go
    <2>1. CASE invite[loc[h].code] = [owner |-> loc[h].email, status |-> "waiting"]
      <3>1. Go(h, "approve_uuid", loc[h])
        BY <1>19, <2>1 DEF ApproveGet
      <3>. QED
        BY <1>19, <3>1, CarriedGo, LocTyped DEF ApproveGet, CarriedInv, VerifiedOnly,
             NoLoc, NoAccount, HandlerInv
    <2>2. CASE ~(invite[loc[h].code] = [owner |-> loc[h].email, status |-> "waiting"])
      <3>1. Go(h, "idle", NoLoc)
        BY <1>19, <2>2 DEF ApproveGet, Return
      <3>. QED
        BY <1>19, <3>1, CarriedGo, LocTyped DEF ApproveGet, CarriedInv, VerifiedOnly,
             NoLoc, NoAccount, HandlerInv
    <2>. QED
      BY <2>1, <2>2
  <1>20. ASSUME NEW h \in Handlers, ApproveUuid(h) PROVE CarriedInv'
    <2>. HIDE DEF Go
    <2>1. CASE Exists(loc[h].email)
      <3>1. Go(h, "approve_store", [loc[h] EXCEPT !.rec = account[loc[h].email]])
        BY <1>20, <2>1 DEF ApproveUuid
      <3>. QED
        BY <1>20, <3>1, CarriedGo, LocTyped DEF ApproveUuid, CarriedInv, VerifiedOnly,
             NoLoc, NoAccount, HandlerInv
    <2>2. CASE ~(Exists(loc[h].email))
      <3>1. Go(h, "idle", NoLoc)
        BY <1>20, <2>2 DEF ApproveUuid, Return
      <3>. QED
        BY <1>20, <3>1, CarriedGo, LocTyped DEF ApproveUuid, CarriedInv, VerifiedOnly,
             NoLoc, NoAccount, HandlerInv
    <2>. QED
      BY <2>1, <2>2
  <1>21. ASSUME NEW h \in Handlers, ApproveBurn(h) PROVE CarriedInv'
    BY <1>21 DEF ApproveBurn
  <1>22. ASSUME NEW h \in Handlers, NEW m \in Machines, ApproveStore(h, m) PROVE CarriedInv'
    BY <1>22 DEF ApproveStore
  <1>23. ASSUME NEW h \in Handlers, DeleteGet(h) PROVE CarriedInv'
    <2>. HIDE DEF Go
    <2>1. CASE Exists(loc[h].email)
      <3>1. Go(h, "owner", loc[h])
        BY <1>23, <2>1 DEF DeleteGet
      <3>. QED
        BY <1>23, <3>1, CarriedGo, LocTyped DEF DeleteGet, CarriedInv, VerifiedOnly, NoLoc,
             NoAccount, HandlerInv
    <2>2. CASE ~(Exists(loc[h].email))
      <3>1. Go(h, "idle", NoLoc)
        BY <1>23, <2>2 DEF DeleteGet, Return
      <3>. QED
        BY <1>23, <3>1, CarriedGo, LocTyped DEF DeleteGet, CarriedInv, VerifiedOnly, NoLoc,
             NoAccount, HandlerInv
    <2>. QED
      BY <2>1, <2>2
  <1>24. ASSUME NEW h \in Handlers, DeleteOwner(h) PROVE CarriedInv'
    BY <1>24 DEF DeleteOwner
  <1>25. ASSUME NEW h \in Handlers, SweepStart(h) PROVE CarriedInv'
    BY <1>25 DEF SweepStart
  <1>26. ASSUME NEW h \in Handlers, SweepEnd(h) PROVE CarriedInv'
    BY <1>26 DEF SweepEnd
  <1>27. ASSUME NEW h \in Handlers, DeleteRecord(h) PROVE CarriedInv'
    BY <1>27 DEF DeleteRecord
  <1>28. ASSUME NEW h \in Handlers, NEW b \in BOOLEAN, DeleteList(h, b) PROVE CarriedInv'
    BY <1>28 DEF DeleteList
  <1>29. ASSUME NEW h \in Handlers, NEW b \in BOOLEAN, DeleteListInvites(h, b) PROVE CarriedInv'
    BY <1>29 DEF DeleteListInvites
  <1>30. ASSUME NEW h \in Handlers, NEW m \in Machines, NEW b \in BOOLEAN, DeleteMachine(h,
       m, b) PROVE CarriedInv'
    BY <1>30 DEF DeleteMachine
  <1>31. ASSUME NEW h \in Handlers, NEW c \in Codes, DeleteInvite(h, c) PROVE CarriedInv'
    BY <1>31 DEF DeleteInvite
  <1>32. ASSUME NEW h \in Handlers, NEW s \in Sessions, SweepSession(h, s) PROVE CarriedInv'
    BY <1>32 DEF SweepSession
  <1>33. ASSUME NEW h \in Handlers, Abort(h) PROVE CarriedInv'
    BY <1>33 DEF Abort
  <1>34. ASSUME NEW s \in Sessions, EndSession(s) PROVE CarriedInv'
    BY <1>34 DEF EndSession
  <1>35. ASSUME NEW c \in Codes, BoxDials(c) PROVE CarriedInv'
    BY <1>35 DEF BoxDials
  <1>36. ASSUME NEW c \in Codes, InviteEnds(c) PROVE CarriedInv'
    BY <1>36 DEF InviteEnds
  <1>37. ASSUME NEW i \in 1..MaxLinks, LinkExpires(i) PROVE CarriedInv'
    BY <1>37 DEF LinkExpires
  <1>38. CASE UNCHANGED vars
    BY <1>38 DEF vars
  <1>. QED
    BY <1>1, <1>2, <1>3, <1>4, <1>5, <1>6, <1>7, <1>8, <1>9, <1>10, <1>11, <1>12, <1>13,
       <1>14, <1>15, <1>16, <1>17, <1>18, <1>19, <1>20, <1>21, <1>22, <1>23, <1>24,
       <1>25, <1>26, <1>27, <1>28, <1>29, <1>30, <1>31, <1>32, <1>33, <1>34, <1>35,
       <1>36, <1>37, <1>38
       DEF Next, MailNext, SessionNext, DeleteNext

\* No step activates an account or starts a session for another address.
LEMMA StepVerified == IInv /\ [Next]_vars => VerifiedOnly'
  <1>. SUFFICES ASSUME IInv, [Next]_vars PROVE VerifiedOnly'
    OBVIOUS
  <1>. USE BoundsNat DEF Start, Go, Return, At, Idle, Swallow, redis, counts, history,
       IInv, TypeOK, HandlerInv, LinkInv, CarriedInv, VerifiedOnly, NoLoc, NoAccount, Locals,
       AccountRecord
  <1>1. ASSUME NEW h \in Handlers, SignupSet(h) PROVE VerifiedOnly'
    BY <1>1 DEF SignupSet
  <1>2. ASSUME NEW h \in Handlers, NEW b \in BOOLEAN, UndoAccount(h, b) PROVE VerifiedOnly'
    BY <1>2 DEF UndoAccount
  <1>3. ASSUME NEW h \in Handlers, NEW i \in 1..MaxLinks, Click(h, i) PROVE VerifiedOnly'
    BY <1>3 DEF Click
  <1>4. ASSUME NEW h \in Handlers, ClickSet(h) PROVE VerifiedOnly'
    BY <1>4 DEF ClickSet
  <1>5. ASSUME NEW h \in Handlers, NEW s \in Sessions, LoginSet(h, s) PROVE VerifiedOnly'
    BY <1>5 DEF LoginSet
  <1>6. ASSUME NEW h \in Handlers, DeleteRecord(h) PROVE VerifiedOnly'
    BY <1>6 DEF DeleteRecord
  <1>7. ASSUME NEW h \in Handlers, NEW s \in Sessions, SweepSession(h, s) PROVE VerifiedOnly'
    BY <1>7 DEF SweepSession
  <1>8. ASSUME NEW s \in Sessions, EndSession(s) PROVE VerifiedOnly'
    BY <1>8 DEF EndSession
  <1>9. CASE UNCHANGED <<account, session, verified>>
    BY <1>9
  <1>. HIDE DEF Start, Go, Return, At, Idle, Swallow, counts, IInv, TypeOK, HandlerInv,
       LinkInv, CarriedInv, VerifiedOnly, NoLoc, NoAccount, Locals, AccountRecord
  <1>10. ASSUME NEW h \in Handlers, MailNext(h) PROVE VerifiedOnly'
    BY <1>10, <1>1, <1>2, <1>3, <1>4, <1>9 DEF MailNext, Signup, ResendVerification,
         RequestPasswordReset, SetLink, MailSent, MailFails, UndoLink, ClickGet
  <1>11. ASSUME NEW h \in Handlers, SessionNext(h) PROVE VerifiedOnly'
    BY <1>11, <1>5, <1>9 DEF SessionNext, Login, InviteCreate, AccountDelete,
         InviteApprove, InviteSet, ApproveGet, ApproveUuid, ApproveBurn, ApproveStore,
         SessionEmail
  <1>12. ASSUME NEW h \in Handlers, DeleteNext(h) PROVE VerifiedOnly'
    BY <1>12, <1>6, <1>7, <1>9 DEF DeleteNext, DeleteGet, DeleteOwner, SweepStart,
         SweepEnd, DeleteList, DeleteListInvites, DeleteMachine, DeleteInvite
  <1>. QED
    BY <1>8, <1>9, <1>10, <1>11, <1>12 DEF vars, Next, Abort, BoxDials, InviteEnds, LinkExpires

-----------------------------------------------------------------------------
(***************************************************************************)
(* The theorems.                                                           *)
(***************************************************************************)

\* The invariant holds in every reachable state.
THEOREM Invariance == Spec => []IInv
  <1>1. IInv /\ [Next]_vars => IInv'
    <2>. SUFFICES ASSUME IInv, [Next]_vars PROVE IInv'
      OBVIOUS
    <2>1. StoreTypes' /\ CountTypes' /\ HandlerTypes'
      BY StepStore, StepCount, StepLocals
    <2>2. TypeOK'
      BY <2>1 DEF TypeOK, StoreTypes, CountTypes, HandlerTypes
    <2>3. HandlerInv' /\ LinkInv' /\ CarriedInv' /\ VerifiedOnly'
      BY StepHandler, StepLink, StepCarried, StepVerified
    <2>. QED
      BY <2>2, <2>3 DEF IInv
  <1>. QED
    BY InitIInv, <1>1, PTL DEF Spec

\* The accounts, links, sessions, invites and handlers of account.rs are well
\* typed, for any number of each.
THEOREM TypeCorrect == Spec => []TypeOK
  BY Invariance, PTL DEF IInv

\* Only an address whose owner has followed a verify link has an active
\* account or a session, however signups, resends, resets, verifications,
\* logins and deletions overlap, fail or are cut off (account.rs).
THEOREM OnlyVerified == Spec => []VerifiedOnly
  BY Invariance, PTL DEF IInv

-----------------------------------------------------------------------------
(***************************************************************************)
(* Requests one at a time: what the running request relies on between two  *)
(* of its commands, and what a deletion or a rollback has cleared so far.  *)
(***************************************************************************)

\* Nobody is signed in to e; nothing but the record is left of its account.
SignedOut(e) == \A s \in Sessions : session[s] # e
NoInvites(e) == \A c \in Codes : invite[c].owner # e
NoMachines(u) == \A m \in Machines : machine[m] # u

\* An account was mailed a link made for it.
Mailed(e) ==
    \E i \in 1..MaxLinks :
        link[i].sent /\ link[i].kind = "verify" /\ link[i].acct = account[e].uuid

\* At most one request is running.
Alone == \A g, h \in Handlers : pc[g] # "idle" /\ pc[h] # "idle" => g = h

\* An account that exists has a status and a UUID that was generated.
AccountsWell ==
    \A e \in Emails :
        account[e] = NoAccount \/ (account[e].uuid \in 1..uuids /\ account[e].status # "none")

\* Links are generated in order.
LinksFresh == \A i \in 1..MaxLinks : i > links => ~link[i].sent

\* A signup, until its account is verified or taken back: the account is the
\* one it made, and nothing refers to it.
SignupPoint(h) ==
    /\ pc[h] = "signup" => loc[h].op = "signup" /\ ~Exists(loc[h].email)
    /\ pc[h] = "undo" => loc[h].op = "signup"
    /\ pc[h] \in {"link", "mail", "undo"} /\ loc[h].op = "signup" =>
        /\ loc[h].rec = account[loc[h].email] /\ loc[h].rec.status = "pending"
        /\ SignedOut(loc[h].email)
        /\ faults = 0 => NoInvites(loc[h].email) /\ NoMachines(loc[h].rec.uuid)

\* The link that is being mailed is new and for this account.
MailPoint(h) ==
    pc[h] = "mail" =>
        /\ loc[h].id <= links /\ ~link[loc[h].id].sent
        /\ loc[h].op = "signup" =>
            link[loc[h].id].kind = "verify" /\ link[loc[h].id].acct = loc[h].rec.uuid

\* The record that is written back is the record; a request with a session,
\* or past the password, is for an active account.
RecordPoint(h) ==
    /\ pc[h] \in {"click_set", "approve_store", "approve_burn", "list", "machines", "invites",
                  "sessions", "record"} => loc[h].rec = account[loc[h].email]
    /\ pc[h] = "click_set" => Exists(loc[h].email)
    /\ pc[h] \in {"login", "invite", "approve", "approve_uuid", "approve_store", "approve_burn",
                  "delete", "owner", "list", "machines", "invites", "sessions", "record"} =>
        account[loc[h].email].status = "active"

\* What a deletion has not yet removed is what it has listed.
DeletePoint(h) ==
    /\ pc[h] = "machines" /\ faults = 0 =>
        \A m \in Machines : machine[m] = loc[h].rec.uuid => m \in loc[h].todo
    /\ pc[h] \in {"invites", "sessions", "record"} /\ faults = 0 => NoMachines(loc[h].rec.uuid)
    /\ pc[h] = "invites" /\ faults = 0 =>
        \A c \in Codes : invite[c].owner = loc[h].email => c \in loc[h].todo
    /\ pc[h] \in {"sessions", "record"} /\ faults = 0 => NoInvites(loc[h].email)
    /\ pc[h] = "sessions" => \A s \in Sessions : session[s] = loc[h].email => s \in loc[h].todo
    /\ pc[h] = "record" => SignedOut(loc[h].email)

PointInv(h) == SignupPoint(h) /\ MailPoint(h) /\ RecordPoint(h) /\ DeletePoint(h)

\* A pending account was mailed a link, or its signup is still at it.
Reachable ==
    aborts = 0 /\ faults = 0 => \A e \in Emails : account[e].status = "pending" =>
        \/ Mailed(e)
        \/ \E h \in Handlers : /\ pc[h] \in {"link", "mail", "undo"}
                               /\ loc[h].op = "signup" /\ loc[h].email = e

StoreInv ==
    /\ AccountsWell /\ LinksFresh /\ ~panicked /\ SessionsResolve
    /\ faults = 0 => Owned

Serial == Alone /\ StoreInv /\ Reachable /\ \A h \in Handlers : PointInv(h)
SerialInv == IInv /\ (~overlapped => Serial)

\* No request is running and nothing is stored.
LEMMA InitSerial == Init => SerialInv
  <1>. SUFFICES ASSUME Init PROVE Serial
    BY InitIInv DEF SerialInv
  <1>1. Alone /\ StoreInv
    BY Absent, Zenon DEF Init, Alone, StoreInv, AccountsWell, LinksFresh,
       SessionsResolve, Owned, NoLink
  <1>2. Reachable /\ \A h \in Handlers : PointInv(h)
    BY DEF Init, Reachable, PointInv, SignupPoint, MailPoint, RecordPoint, DeletePoint,
       NoAccount
  <1>. QED
    BY <1>1, <1>2 DEF Serial

\* When requests come one at a time, the request that takes a step is the
\* only one before and after it.
LEMMA Single ==
  ASSUME SerialInv, ~overlapped', NEW h \in Handlers, NEW p, NEW l, Go(h, p, l),
         Start(h, p, l) \/ (overlapped' = overlapped /\ pc[h] # "idle")
  PROVE  /\ ~overlapped /\ Serial /\ PointInv(h)
         /\ pc'[h] = p /\ loc'[h] = l
         /\ \A g \in Handlers \ {h} : pc[g] = "idle" /\ pc'[g] = "idle"
         /\ Alone'
  <1>1. ~overlapped /\ pc \in [Handlers -> Points] /\ loc \in [Handlers -> Locals]
    BY DEF Start, SerialInv, IInv, TypeOK
  <1>2. Serial /\ PointInv(h)
    BY <1>1 DEF SerialInv, Serial
  <1>3. \A g \in Handlers \ {h} : pc[g] = "idle"
    BY <1>1, <1>2 DEF Start, Idle, Serial, Alone
  <1>4. pc'[h] = p /\ loc'[h] = l /\ \A g \in Handlers \ {h} : pc'[g] = pc[g]
    BY <1>1 DEF Go
  <1>. QED
    BY <1>1, <1>2, <1>3, <1>4 DEF Alone

\* A request that is not running relies on nothing.
LEMMA IdleRelies ==
  ASSUME NEW h \in Handlers
  PROVE  /\ pc[h] = "idle" => PointInv(h)
         /\ pc'[h] = "idle" => PointInv(h)'
  BY DEF PointInv, SignupPoint, MailPoint, RecordPoint, DeletePoint

\* What is left to show of a request's step.
LEMMA Assemble ==
  ASSUME NEW h \in Handlers, Alone', \A g \in Handlers \ {h} : pc'[g] = "idle",
         StoreInv', Reachable', PointInv(h)'
  PROVE  Serial'
  BY IdleRelies DEF Serial

\* Commands that only read keep what is stored.
LEMMA StoreKept ==
  ASSUME TypeOK, StoreInv, UNCHANGED <<account, session, machine, invite, panicked>>,
         uuids' = uuids, links' = links, link' = link,
         faults' = faults \/ faults' = faults + 1
  PROVE  StoreInv'
  <1>1. faults' = 0 => faults = 0
    BY BoundsNat DEF TypeOK
  <1>2. AccountsWell' /\ LinksFresh' /\ SessionsResolve' /\ ~panicked'
    BY DEF StoreInv, AccountsWell, LinksFresh, SessionsResolve
  <1>3. Owned => Owned'
    BY DEF Owned, Exists
  <1>. QED
    BY <1>1, <1>2, <1>3 DEF StoreInv

\* A mailed account stays mailed while its record and the mailed links do.
LEMMA MailedKept ==
  ASSUME NEW e \in Emails, Mailed(e), account'[e].uuid = account[e].uuid,
         \A i \in 1..MaxLinks : link[i].sent =>
             link'[i].sent /\ link'[i].kind = link[i].kind /\ link'[i].acct = link[i].acct
  PROVE  Mailed(e)'
  BY DEF Mailed

\* A step leaves every pending account reachable when it makes none and takes
\* no mail back, and a signup at work stays at work.
LEMMA ReachKept ==
  ASSUME TypeOK, Reachable, NEW h \in Handlers,
         \A g \in Handlers \ {h} : pc[g] = "idle",
         aborts' = 0 => aborts = 0, faults' = 0 => faults = 0,
         \A e \in Emails : account'[e].status = "pending" =>
             account[e].status = "pending" /\ account'[e].uuid = account[e].uuid,
         \A i \in 1..MaxLinks : link[i].sent =>
             link'[i].sent /\ link'[i].kind = link[i].kind /\ link'[i].acct = link[i].acct,
         \A e \in Emails :
             pc[h] \in {"link", "mail", "undo"} /\ loc[h].op = "signup" /\ loc[h].email = e
             /\ aborts' = 0 /\ faults' = 0 =>
                 \/ /\ pc'[h] \in {"link", "mail", "undo"}
                    /\ loc'[h].op = "signup" /\ loc'[h].email = e
                 \/ account'[e].status # "pending"
                 \/ Mailed(e)'
  PROVE  Reachable'
  <1>. SUFFICES ASSUME aborts' = 0, faults' = 0, NEW e \in Emails, account'[e].status = "pending"
                PROVE  \/ Mailed(e)'
                       \/ \E g \in Handlers : /\ pc'[g] \in {"link", "mail", "undo"}
                                              /\ loc'[g].op = "signup" /\ loc'[g].email = e
    BY DEF Reachable
  <1>1. account[e].status = "pending" /\ account'[e].uuid = account[e].uuid
    OBVIOUS
  <1>2. CASE Mailed(e)
    BY <1>1, <1>2, MailedKept
  <1>3. ASSUME NEW g \in Handlers, pc[g] \in {"link", "mail", "undo"}, loc[g].op = "signup",
               loc[g].email = e
        PROVE  \/ Mailed(e)'
               \/ \E k \in Handlers : /\ pc'[k] \in {"link", "mail", "undo"}
                                      /\ loc'[k].op = "signup" /\ loc'[k].email = e
    <2>1. g = h
      BY <1>3
    <2>. QED
      BY <1>3, <2>1
  <1>. QED
    BY <1>1, <1>2, <1>3 DEF Reachable

\* A step on links keeps the rest of what is stored.
LEMMA LinkStore ==
  ASSUME TypeOK, StoreInv, UNCHANGED <<account, session, machine, invite, panicked, uuids>>,
         LinksFresh', faults' = faults \/ faults' = faults + 1
  PROVE  StoreInv'
  <1>1. faults' = 0 => faults = 0
    BY BoundsNat DEF TypeOK
  <1>2. AccountsWell' /\ SessionsResolve' /\ ~panicked'
    BY DEF StoreInv, AccountsWell, SessionsResolve
  <1>3. Owned => Owned'
    BY DEF Owned, Exists
  <1>. QED
    BY <1>1, <1>2, <1>3 DEF StoreInv

\* A record that nothing refers to can go.
LEMMA RecordGone ==
  ASSUME TypeOK, StoreInv, NEW e \in Emails, account' = [account EXCEPT ![e] = NoAccount],
         UNCHANGED <<link, session, machine, invite, uuids, links, panicked>>,
         faults' = 0 => faults = 0, SignedOut(e),
         faults' = 0 => NoInvites(e) /\ NoMachines(account[e].uuid)
  PROVE  StoreInv'
  <1>1. AccountsWell' /\ LinksFresh' /\ ~panicked'
    BY DEF StoreInv, AccountsWell, LinksFresh, TypeOK
  <1>2. SessionsResolve'
    BY DEF StoreInv, SessionsResolve, SignedOut, TypeOK
  <1>3. ASSUME faults' = 0 PROVE Owned'
    <2>1. Owned /\ NoInvites(e) /\ NoMachines(account[e].uuid)
      BY <1>3 DEF StoreInv
    <2>2. ASSUME NEW m \in Machines, machine[m] # 0
          PROVE  \E g \in Emails : account'[g].uuid = machine[m]
      <3>1. PICK g \in Emails : account[g].uuid = machine[m]
        BY <2>1, <2>2 DEF Owned
      <3>2. g # e
        BY <2>1, <3>1 DEF NoMachines
      <3>. QED
        BY <3>1, <3>2 DEF TypeOK
    <2>3. ASSUME NEW c \in Codes, invite[c] # NoInvite
          PROVE  account'[invite[c].owner] # NoAccount
      <3>1. invite[c].owner # e /\ Exists(invite[c].owner) 
        BY <2>1, <2>3 DEF Owned, NoInvites
      <3>. QED
        BY <3>1 DEF TypeOK, Exists
    <2>. QED
      BY <2>2, <2>3 DEF Owned, Exists
  <1>. QED
    BY <1>1, <1>2, <1>3 DEF StoreInv


\* Signing up, resending and asking for a reset, one request at a time.
LEMMA SignupsSerial ==
  ASSUME SerialInv, ~overlapped', NEW h \in Handlers
  PROVE  /\ \A e \in Emails : Signup(h, e) => Serial'
         /\ \A e \in Emails : ResendVerification(h, e) => Serial'
         /\ \A e \in Emails : RequestPasswordReset(h, e) => Serial'
         /\ SignupSet(h) => Serial'
         /\ SetLink(h) => Serial'
         /\ MailSent(h) => Serial'
         /\ \A b \in BOOLEAN : MailFails(h, b) => Serial'
         /\ \A b \in BOOLEAN : UndoAccount(h, b) => Serial'
         /\ \A b \in BOOLEAN : UndoLink(h, b) => Serial'
  <1>. USE DEF SerialInv, IInv
  <1>1. ASSUME NEW e \in Emails, Signup(h, e) PROVE Serial'
    <2>. DEFINE l == [NoLoc EXCEPT !.op = "signup", !.email = e]
    <2>1. Go(h, "signup", l) /\ Start(h, "signup", l)
      BY <1>1 DEF Signup, At, Idle, Return, Start, history
    <2>2. /\ Serial /\ PointInv(h) /\ TypeOK /\ HandlerInv
           /\ pc'[h] = "signup" /\ loc'[h] = l /\ Alone'
           /\ \A g \in Handlers \ {h} : pc[g] = "idle" /\ pc'[g] = "idle"
      BY <2>1, Single
    <2>3. StoreInv'
      BY <1>1, <2>2, StoreKept DEF Signup, Serial, redis, counts, history, Start, Swallow
    <2>4. Reachable'
      BY <1>1, <2>2, ReachKept DEF Signup, Serial, redis, counts, history, At, Idle,
         Start, Swallow, TypeOK
    <2>5. PointInv(h)'
      BY <1>1, <2>2 DEF Signup, Serial, StoreInv, AccountsWell, LinksFresh,
         SessionsResolve, Owned, Exists, NoAccount, redis, counts, history, At, Idle,
         Start, Swallow, TypeOK, HandlerInv, PointInv, SignupPoint, MailPoint,
         RecordPoint, DeletePoint, SignedOut, NoInvites, NoMachines, NoLoc
    <2>. QED
      BY <2>2, <2>3, <2>4, <2>5, Assemble
  <1>2. ASSUME NEW e \in Emails, ResendVerification(h, e) PROVE Serial'
    <2>. DEFINE l == [NoLoc EXCEPT !.op = "resend", !.email = e, !.rec = account[e]]
    <2>1. Go(h, "link", l) /\ Start(h, "link", l)
      BY <1>2 DEF ResendVerification, At, Idle, Return, Start, history
    <2>2. /\ Serial /\ PointInv(h) /\ TypeOK /\ HandlerInv
           /\ pc'[h] = "link" /\ loc'[h] = l /\ Alone'
           /\ \A g \in Handlers \ {h} : pc[g] = "idle" /\ pc'[g] = "idle"
      BY <2>1, Single
    <2>3. StoreInv'
      BY <1>2, <2>2, StoreKept DEF ResendVerification, Serial, redis, counts, history,
         Start, Swallow
    <2>4. Reachable'
      BY <1>2, <2>2, ReachKept DEF ResendVerification, Serial, redis, counts, history,
         At, Idle, Start, Swallow, TypeOK
    <2>5. PointInv(h)'
      BY <1>2, <2>2 DEF ResendVerification, Serial, StoreInv, AccountsWell, LinksFresh,
         SessionsResolve, Owned, Exists, NoAccount, redis, counts, history, At, Idle,
         Start, Swallow, TypeOK, HandlerInv, PointInv, SignupPoint, MailPoint,
         RecordPoint, DeletePoint, SignedOut, NoInvites, NoMachines, NoLoc
    <2>. QED
      BY <2>2, <2>3, <2>4, <2>5, Assemble
  <1>3. ASSUME NEW e \in Emails, RequestPasswordReset(h, e) PROVE Serial'
    <2>. DEFINE l == [NoLoc EXCEPT !.op = "forgot", !.email = e]
    <2>1. Go(h, "link", l) /\ Start(h, "link", l)
      BY <1>3 DEF RequestPasswordReset, At, Idle, Return, Start, history
    <2>2. /\ Serial /\ PointInv(h) /\ TypeOK /\ HandlerInv
           /\ pc'[h] = "link" /\ loc'[h] = l /\ Alone'
           /\ \A g \in Handlers \ {h} : pc[g] = "idle" /\ pc'[g] = "idle"
      BY <2>1, Single
    <2>3. StoreInv'
      BY <1>3, <2>2, StoreKept DEF RequestPasswordReset, Serial, redis, counts, history,
         Start, Swallow
    <2>4. Reachable'
      BY <1>3, <2>2, ReachKept DEF RequestPasswordReset, Serial, redis, counts, history,
         At, Idle, Start, Swallow, TypeOK
    <2>5. PointInv(h)'
      BY <1>3, <2>2 DEF RequestPasswordReset, Serial, StoreInv, AccountsWell, LinksFresh,
         SessionsResolve, Owned, Exists, NoAccount, redis, counts, history, At, Idle,
         Start, Swallow, TypeOK, HandlerInv, PointInv, SignupPoint, MailPoint,
         RecordPoint, DeletePoint, SignedOut, NoInvites, NoMachines, NoLoc
    <2>. QED
      BY <2>2, <2>3, <2>4, <2>5, Assemble
  <1>4. ASSUME SignupSet(h) PROVE Serial'
    <2>. DEFINE l == [loc[h] EXCEPT !.rec = [uuid |-> uuids + 1, status |-> "pending"]]
    <2>1. Go(h, "link", l) /\ overlapped' = overlapped /\ pc[h] # "idle"
      BY <1>4 DEF SignupSet, At, Idle, Return, Start, history
    <2>2. /\ Serial /\ PointInv(h) /\ TypeOK /\ HandlerInv
           /\ pc'[h] = "link" /\ loc'[h] = l /\ Alone'
           /\ \A g \in Handlers \ {h} : pc[g] = "idle" /\ pc'[g] = "idle"
      BY <2>1, Single
    <2>3. StoreInv'
      BY <1>4, <2>2 DEF SignupSet, Serial, redis, counts, history, PointInv, SignupPoint,
         RecordPoint, DeletePoint, At, TypeOK, HandlerInv, StoreInv, AccountsWell,
         LinksFresh, SessionsResolve, Owned, Exists, NoAccount
    <2>4. Reachable'
      <3>. SUFFICES ASSUME aborts' = 0, faults' = 0, NEW e \in Emails,
                          account'[e].status = "pending", e # loc[h].email
                   PROVE  Mailed(e)'
        BY <1>4, <2>2 DEF Reachable, SignupSet, PointInv, SignupPoint, At, TypeOK, Locals
      <3>1. account'[e] = account[e] /\ link' = link
        BY <1>4, <2>2 DEF SignupSet, TypeOK
      <3>2. Mailed(e)
        BY <1>4, <2>2, <3>1 DEF SignupSet, At, Serial, Reachable, history, counts
      <3>. QED
        BY <3>1, <3>2, MailedKept
    <2>5. PointInv(h)'
      <3>1. PICK e \in Emails : loc[h].email = e
        BY <1>4, <2>2 DEF HandlerInv, SignupSet, At
      <3>2. /\ l.email = e /\ l.op = "signup" /\ account'[e] = l.rec
            /\ l.rec = [uuid |-> uuids + 1, status |-> "pending"]
        BY <1>4, <2>2, <3>1 DEF SignupSet, At, TypeOK, Locals, PointInv, SignupPoint
      <3>3. UNCHANGED <<session, invite, machine, faults>> /\ ~Exists(e) /\ StoreInv
        BY <1>4, <2>2, <3>1 DEF SignupSet, At, PointInv, SignupPoint, Serial
      <3>4. \A s \in Sessions : session[s] # e
        BY <3>3, Absent DEF StoreInv, SessionsResolve, Exists, NoAccount
      <3>5. faults = 0 => \A c \in Codes : invite[c].owner # e
        BY <3>3, Absent DEF StoreInv, Owned, NoInvite
      <3>6. faults = 0 => \A m \in Machines : machine[m] # uuids + 1
        <4>1. \A f \in Emails : account[f].uuid # uuids + 1
          BY <2>2, <3>3 DEF StoreInv, AccountsWell, NoAccount, TypeOK
        <4>2. 0 # uuids + 1
          BY <2>2 DEF TypeOK
        <4>. QED
          BY <3>3, <4>1, <4>2 DEF StoreInv, Owned
      <3>. HIDE DEF l
      <3>. QED
        BY <2>2, <3>2, <3>3, <3>4, <3>5, <3>6
           DEF PointInv, SignupPoint, MailPoint, RecordPoint, DeletePoint, SignedOut, NoInvites, NoMachines
    <2>. QED
      BY <2>2, <2>3, <2>4, <2>5, Assemble
  <1>5. ASSUME SetLink(h) PROVE Serial'
    <2>. DEFINE l == [loc[h] EXCEPT !.id = links + 1]
    <2>1. Go(h, "mail", l) /\ overlapped' = overlapped /\ pc[h] # "idle"
      BY <1>5 DEF SetLink, At, Idle, Return, Start, history
    <2>2. /\ Serial /\ PointInv(h) /\ TypeOK /\ HandlerInv
           /\ pc'[h] = "mail" /\ loc'[h] = l /\ Alone'
           /\ \A g \in Handlers \ {h} : pc[g] = "idle" /\ pc'[g] = "idle"
      BY <2>1, Single
    <2>3. StoreInv'
      BY <1>5, <2>2 DEF SetLink, Serial, redis, counts, history, PointInv, SignupPoint,
         RecordPoint, DeletePoint, At, TypeOK, HandlerInv, StoreInv, AccountsWell,
         LinksFresh, SessionsResolve, Owned, Exists, NoAccount
    <2>4. Reachable'
      <3>1. \A i \in 1..MaxLinks : link[i].sent => link'[i] = link[i]
        BY <1>5, <2>2 DEF SetLink, Serial, StoreInv, LinksFresh, TypeOK
      <3>2. l.op = loc[h].op /\ l.email = loc[h].email
        BY <2>2 DEF TypeOK, Locals
      <3>. HIDE DEF l
      <3>. QED
        BY <1>5, <2>2, <3>1, <3>2, ReachKept DEF SetLink, Serial
    <2>5. PointInv(h)'
      <3>1. /\ l.op = loc[h].op /\ l.email = loc[h].email /\ l.rec = loc[h].rec /\ l.id = links + 1
            /\ links' = links + 1 /\ links + 1 \in 1..MaxLinks
        BY <1>5, <2>2, BoundsNat DEF SetLink, TypeOK, Locals
      <3>2. /\ link'[links + 1].sent = FALSE /\ link'[links + 1].acct = loc[h].rec.uuid
            /\ loc[h].op = "signup" => link'[links + 1].kind = "verify"
        BY <1>5, <2>2, <3>1 DEF SetLink, TypeOK
      <3>3. UNCHANGED <<account, session, invite, machine, faults>> /\ pc[h] = "link"
        BY <1>5 DEF SetLink, At
      <3>. HIDE DEF l
      <3>4. SignupPoint(h)'
        BY <2>2, <3>1, <3>3 DEF PointInv, SignupPoint, SignedOut, NoInvites, NoMachines, Exists
      <3>5. MailPoint(h)'
        <4>1. loc'[h].id = links + 1 /\ loc'[h].op = loc[h].op /\ loc'[h].rec = loc[h].rec
          BY <2>2, <3>1
        <4>2. links + 1 <= links'
          BY <3>1, <2>2 DEF TypeOK
        <4>3. ~link'[loc'[h].id].sent
          BY <3>2, <4>1
        <4>4. loc'[h].op = "signup" =>
               link'[loc'[h].id].kind = "verify" /\ link'[loc'[h].id].acct = loc'[h].rec.uuid
          BY <3>2, <4>1
        <4>. QED
          BY <4>1, <4>2, <4>3, <4>4 DEF MailPoint
      <3>. QED
        BY <2>2, <3>4, <3>5 DEF PointInv, RecordPoint, DeletePoint
    <2>. QED
      BY <2>2, <2>3, <2>4, <2>5, Assemble
  <1>6. ASSUME MailSent(h) PROVE Serial'
    <2>1. Go(h, "idle", NoLoc) /\ overlapped' = overlapped /\ pc[h] # "idle"
      BY <1>6 DEF MailSent, At, Idle, Return, Start, history
    <2>2. /\ Serial /\ PointInv(h) /\ TypeOK /\ HandlerInv
           /\ pc'[h] = "idle" /\ loc'[h] = NoLoc /\ Alone'
           /\ \A g \in Handlers \ {h} : pc[g] = "idle" /\ pc'[g] = "idle"
      BY <2>1, Single
    <2>3. StoreInv'
      <3>1. loc[h].id \in 1..MaxLinks /\ loc[h].id <= links /\ UNCHANGED <<account, session, machine, invite, panicked, uuids, links, faults>>
        BY <1>6, <2>2 DEF MailSent, At, HandlerInv, PointInv, MailPoint, counts, history
      <3>2. LinksFresh'
        BY <1>6, <2>2, <3>1 DEF MailSent, Serial, StoreInv, LinksFresh, TypeOK
      <3>. QED
        BY <2>2, <3>1, <3>2, LinkStore DEF Serial
    <2>4. Reachable'
      <3>1. /\ loc[h].id \in 1..MaxLinks /\ UNCHANGED <<account, aborts, faults>> /\ pc[h] = "mail"
        BY <1>6, <2>2 DEF MailSent, At, HandlerInv, counts
      <3>2. /\ link'[loc[h].id].sent
            /\ \A i \in 1..MaxLinks : /\ link[i].sent => link'[i].sent
                                      /\ link'[i].kind = link[i].kind /\ link'[i].acct = link[i].acct
        BY <1>6, <2>2, <3>1 DEF MailSent, TypeOK, LinkRecord
      <3>3. ASSUME NEW e \in Emails, loc[h].op = "signup", loc[h].email = e
            PROVE  Mailed(e)'
        BY <2>2, <3>1, <3>2, <3>3 DEF PointInv, SignupPoint, MailPoint, Mailed
      <3>. QED
        BY <2>2, <3>1, <3>2, <3>3, ReachKept DEF Serial
    <2>5. PointInv(h)'
      BY <2>2, IdleRelies
    <2>. QED
      BY <2>2, <2>3, <2>4, <2>5, Assemble
  <1>7. ASSUME NEW b \in BOOLEAN, MailFails(h, b) PROVE Serial'
    <2>1. CASE loc[h].op = "signup"
      <3>1. Go(h, "undo", loc[h]) /\ overlapped' = overlapped /\ pc[h] # "idle"
        BY <1>7, <2>1 DEF MailFails, At, Idle, Return, Start, history
      <3>2. /\ Serial /\ PointInv(h) /\ TypeOK /\ HandlerInv
             /\ pc'[h] = "undo" /\ loc'[h] = loc[h] /\ Alone'
             /\ \A g \in Handlers \ {h} : pc[g] = "idle" /\ pc'[g] = "idle"
        BY <3>1, Single
      <3>3. StoreInv'
        <4>1. loc[h].id \in 1..MaxLinks /\ loc[h].id <= links /\ UNCHANGED <<account, session, machine, invite, panicked, uuids, links, faults>>
          BY <1>7, <2>1, <3>2 DEF MailFails, At, HandlerInv, PointInv, MailPoint, counts,
             history
        <4>2. LinksFresh'
          BY <1>7, <2>1, <3>2, <4>1 DEF MailFails, Serial, StoreInv, LinksFresh, TypeOK
        <4>. QED
          BY <3>2, <4>1, <4>2, LinkStore DEF Serial
      <3>4. Reachable'
        <4>1. /\ loc[h].id \in 1..MaxLinks /\ UNCHANGED <<account, aborts, faults>> /\ pc[h] = "mail"
              /\ ~link[loc[h].id].sent
          BY <1>7, <2>1, <3>2 DEF MailFails, At, HandlerInv, counts, PointInv, MailPoint
        <4>2. \A i \in 1..MaxLinks : link[i].sent => link'[i] = link[i]
          BY <1>7, <2>1, <3>2, <4>1 DEF MailFails, TypeOK
        <4>. QED
          BY <1>7, <2>1, <3>2, <4>1, <4>2, ReachKept DEF Serial
      <3>5. PointInv(h)'
        BY <1>7, <2>1, <3>2 DEF MailFails, Serial, StoreInv, AccountsWell, LinksFresh,
           SessionsResolve, Owned, Exists, NoAccount, redis, counts, history, At, Idle,
           Start, Swallow, TypeOK, HandlerInv, PointInv, SignupPoint, MailPoint,
           RecordPoint, DeletePoint, SignedOut, NoInvites, NoMachines, NoLoc
      <3>. QED
        BY <3>2, <3>3, <3>4, <3>5, Assemble
    <2>2. CASE ~(loc[h].op = "signup")
      <3>1. Go(h, "idle", NoLoc) /\ overlapped' = overlapped /\ pc[h] # "idle"
        BY <1>7, <2>2 DEF MailFails, At, Idle, Return, Start, history
      <3>2. /\ Serial /\ PointInv(h) /\ TypeOK /\ HandlerInv
             /\ pc'[h] = "idle" /\ loc'[h] = NoLoc /\ Alone'
             /\ \A g \in Handlers \ {h} : pc[g] = "idle" /\ pc'[g] = "idle"
        BY <3>1, Single
      <3>3. StoreInv'
        <4>1. loc[h].id \in 1..MaxLinks /\ loc[h].id <= links /\ UNCHANGED <<account, session, machine, invite, panicked, uuids, links, faults>>
          BY <1>7, <2>2, <3>2 DEF MailFails, At, HandlerInv, PointInv, MailPoint, counts,
             history
        <4>2. LinksFresh'
          BY <1>7, <2>2, <3>2, <4>1 DEF MailFails, Serial, StoreInv, LinksFresh, TypeOK
        <4>. QED
          BY <3>2, <4>1, <4>2, LinkStore DEF Serial
      <3>4. Reachable'
        <4>1. /\ loc[h].id \in 1..MaxLinks /\ UNCHANGED <<account, aborts, faults>> /\ pc[h] = "mail"
              /\ ~link[loc[h].id].sent
          BY <1>7, <2>2, <3>2 DEF MailFails, At, HandlerInv, counts, PointInv, MailPoint
        <4>2. \A i \in 1..MaxLinks : link[i].sent => link'[i] = link[i]
          BY <1>7, <2>2, <3>2, <4>1 DEF MailFails, TypeOK
        <4>. QED
          BY <1>7, <2>2, <3>2, <4>1, <4>2, ReachKept DEF Serial
      <3>5. PointInv(h)'
        BY <3>2, IdleRelies
      <3>. QED
        BY <3>2, <3>3, <3>4, <3>5, Assemble
    <2>. QED
      BY <2>1, <2>2
  <1>8. ASSUME NEW b \in BOOLEAN, UndoAccount(h, b) PROVE Serial'
    <2>1. Go(h, "undo_link", loc[h]) /\ overlapped' = overlapped /\ pc[h] # "idle"
      BY <1>8 DEF UndoAccount, At, Idle, Return, Start, history
    <2>2. /\ Serial /\ PointInv(h) /\ TypeOK /\ HandlerInv
           /\ pc'[h] = "undo_link" /\ loc'[h] = loc[h] /\ Alone'
           /\ \A g \in Handlers \ {h} : pc[g] = "idle" /\ pc'[g] = "idle"
      BY <2>1, Single
    <2>3. StoreInv'
      <3>1. CASE ~b
        <4>1. account' = account
          BY <1>8, <2>2, <3>1 DEF UndoAccount, TypeOK
        <4>. QED
          BY <1>8, <2>2, <3>1, <4>1, StoreKept DEF UndoAccount, Swallow, Serial, history
      <3>2. CASE b
        <4>1. PICK e \in Emails : loc[h].email = e
          BY <1>8, <2>2 DEF UndoAccount, At, HandlerInv
        <4>2. /\ account' = [account EXCEPT ![e] = NoAccount] /\ faults' = faults
              /\ UNCHANGED <<link, session, machine, invite, uuids, links, panicked>>
          BY <1>8, <3>2, <4>1 DEF UndoAccount, Swallow, history
        <4>3. SignedOut(e) /\ (faults = 0 => NoInvites(e) /\ NoMachines(account[e].uuid))
          BY <1>8, <2>2, <4>1 DEF UndoAccount, At, PointInv, SignupPoint
        <4>. QED
          BY <2>2, <4>2, <4>3, RecordGone DEF Serial
      <3>. QED
        BY <3>1, <3>2
    <2>4. Reachable'
      <3>1. PICK e \in Emails : loc[h].email = e
        BY <1>8, <2>2 DEF UndoAccount, At, HandlerInv
      <3>2. CASE b
        <4>1. /\ account' = [account EXCEPT ![e] = NoAccount]
              /\ UNCHANGED <<link, aborts, faults>>
          BY <1>8, <3>1, <3>2 DEF UndoAccount, Swallow
        <4>2. /\ account'[e].status = "none"
              /\ \A f \in Emails \ {e} : account'[f] = account[f]
          BY <2>2, <4>1 DEF TypeOK, NoAccount
        <4>. QED
          BY <2>2, <3>1, <4>1, <4>2, ReachKept DEF Serial
      <3>3. CASE ~b
        <4>1. faults' # 0
          BY <1>8, <2>2, <3>3, BoundsNat DEF UndoAccount, Swallow, TypeOK
        <4>. QED
          BY <4>1 DEF Reachable
      <3>. QED
        BY <3>2, <3>3
    <2>5. PointInv(h)'
      BY <1>8, <2>2 DEF UndoAccount, Serial, StoreInv, AccountsWell, LinksFresh,
         SessionsResolve, Owned, Exists, NoAccount, redis, counts, history, At, Idle,
         Start, Swallow, TypeOK, HandlerInv, PointInv, SignupPoint, MailPoint,
         RecordPoint, DeletePoint, SignedOut, NoInvites, NoMachines, NoLoc
    <2>. QED
      BY <2>2, <2>3, <2>4, <2>5, Assemble
  <1>9. ASSUME NEW b \in BOOLEAN, UndoLink(h, b) PROVE Serial'
    <2>1. Go(h, "idle", NoLoc) /\ overlapped' = overlapped /\ pc[h] # "idle"
      BY <1>9 DEF UndoLink, At, Idle, Return, Start, history
    <2>2. /\ Serial /\ PointInv(h) /\ TypeOK /\ HandlerInv
           /\ pc'[h] = "idle" /\ loc'[h] = NoLoc /\ Alone'
           /\ \A g \in Handlers \ {h} : pc[g] = "idle" /\ pc'[g] = "idle"
      BY <2>1, Single
    <2>3. StoreInv'
      <3>1. loc[h].id \in 1..MaxLinks /\ UNCHANGED <<account, session, machine, invite, panicked, uuids, links>>
        BY <1>9, <2>2 DEF UndoLink, At, HandlerInv, history
      <3>2. LinksFresh'
        BY <1>9, <2>2, <3>1 DEF UndoLink, Serial, StoreInv, LinksFresh, TypeOK, LinkRecord
      <3>3. faults' = faults \/ faults' = faults + 1
        BY <1>9 DEF UndoLink, Swallow
      <3>. QED
        BY <2>2, <3>1, <3>2, <3>3, LinkStore DEF Serial
    <2>4. Reachable'
      <3>1. /\ loc[h].id \in 1..MaxLinks /\ UNCHANGED <<account, aborts>> /\ pc[h] = "undo_link"
            /\ faults' = 0 => faults = 0
        BY <1>9, <2>2, BoundsNat DEF UndoLink, At, HandlerInv, Swallow, TypeOK
      <3>2. \A i \in 1..MaxLinks : /\ link'[i].sent = link[i].sent
                                   /\ link'[i].kind = link[i].kind /\ link'[i].acct = link[i].acct
        BY <1>9, <2>2, <3>1 DEF UndoLink, TypeOK, LinkRecord
      <3>. QED
        <4>1. Reachable /\ \A i \in 1..MaxLinks : link[i].sent =>
               link'[i].sent /\ link'[i].kind = link[i].kind /\ link'[i].acct = link[i].acct
          BY <2>2, <3>2 DEF Serial
        <4>2. \A e \in Emails : account'[e].status = "pending" =>
               account[e].status = "pending" /\ account'[e].uuid = account[e].uuid
          BY <3>1
        <4>3. ~(pc[h] \in {"link", "mail", "undo"}) /\ (aborts' = 0 => aborts = 0) /\ (faults' = 0 => faults = 0)
          BY <3>1
        <4>. QED
          BY <2>2, <4>1, <4>2, <4>3, ReachKept, Zenon
    <2>5. PointInv(h)'
      BY <2>2, IdleRelies
    <2>. QED
      BY <2>2, <2>3, <2>4, <2>5, Assemble
  <1>. QED
    BY <1>1, <1>2, <1>3, <1>4, <1>5, <1>6, <1>7, <1>8, <1>9

\* Following a link and logging in.
LEMMA ClicksSerial ==
  ASSUME SerialInv, ~overlapped', NEW h \in Handlers
  PROVE  /\ \A i \in 1..MaxLinks : Click(h, i) => Serial'
         /\ ClickGet(h) => Serial'
         /\ ClickSet(h) => Serial'
         /\ \A e \in Emails : Login(h, e) => Serial'
         /\ \A s \in Sessions : LoginSet(h, s) => Serial'
  <1>. USE DEF SerialInv, IInv
  <1>1. ASSUME NEW i \in 1..MaxLinks, Click(h, i) PROVE Serial'
    <2>. DEFINE l == [NoLoc EXCEPT !.op = link[i].kind, !.email = link[i].email]
    <2>1. Go(h, "click", l) /\ Start(h, "click", l)
      BY <1>1 DEF Click, At, Idle, Return, Start, history
    <2>2. /\ Serial /\ PointInv(h) /\ TypeOK /\ HandlerInv
           /\ pc'[h] = "click" /\ loc'[h] = l /\ Alone'
           /\ \A g \in Handlers \ {h} : pc[g] = "idle" /\ pc'[g] = "idle"
      BY <2>1, Single
    <2>3. StoreInv'
      BY <1>1, <2>2 DEF Click, Serial, redis, counts, history, PointInv, SignupPoint,
         RecordPoint, DeletePoint, At, TypeOK, HandlerInv, StoreInv, AccountsWell,
         LinksFresh, SessionsResolve, Owned, Exists, NoAccount
    <2>4. Reachable'
      BY <1>1, <2>2, ReachKept DEF Click, Serial, redis, counts, history, At, Idle,
         Start, Swallow, TypeOK
    <2>5. PointInv(h)'
      BY <1>1, <2>2 DEF Click, Serial, StoreInv, AccountsWell, LinksFresh,
         SessionsResolve, Owned, Exists, NoAccount, redis, counts, history, At, Idle,
         Start, Swallow, TypeOK, HandlerInv, PointInv, SignupPoint, MailPoint,
         RecordPoint, DeletePoint, SignedOut, NoInvites, NoMachines, NoLoc
    <2>. QED
      BY <2>2, <2>3, <2>4, <2>5, Assemble
  <1>2. ASSUME ClickGet(h) PROVE Serial'
    <2>1. CASE Exists(loc[h].email)
      <3>. DEFINE l == [loc[h] EXCEPT !.rec = account[loc[h].email]]
      <3>1. Go(h, "click_set", l) /\ overlapped' = overlapped /\ pc[h] # "idle"
        BY <1>2, <2>1 DEF ClickGet, At, Idle, Return, Start, history
      <3>2. /\ Serial /\ PointInv(h) /\ TypeOK /\ HandlerInv
             /\ pc'[h] = "click_set" /\ loc'[h] = l /\ Alone'
             /\ \A g \in Handlers \ {h} : pc[g] = "idle" /\ pc'[g] = "idle"
        BY <3>1, Single
      <3>3. StoreInv'
        BY <1>2, <2>1, <3>2, StoreKept DEF ClickGet, Serial, redis, counts, history,
           Start, Swallow
      <3>4. Reachable'
        BY <1>2, <2>1, <3>2, ReachKept DEF ClickGet, Serial, redis, counts, history, At,
           Idle, Start, Swallow, TypeOK
      <3>5. PointInv(h)'
        BY <1>2, <2>1, <3>2 DEF ClickGet, Serial, StoreInv, AccountsWell, LinksFresh,
           SessionsResolve, Owned, Exists, NoAccount, redis, counts, history, At, Idle,
           Start, Swallow, TypeOK, HandlerInv, PointInv, SignupPoint, MailPoint,
           RecordPoint, DeletePoint, SignedOut, NoInvites, NoMachines, NoLoc
      <3>. QED
        BY <3>2, <3>3, <3>4, <3>5, Assemble
    <2>2. CASE ~Exists(loc[h].email)
      <3>1. Go(h, "idle", NoLoc) /\ overlapped' = overlapped /\ pc[h] # "idle"
        BY <1>2, <2>2 DEF ClickGet, At, Idle, Return, Start, history
      <3>2. /\ Serial /\ PointInv(h) /\ TypeOK /\ HandlerInv
             /\ pc'[h] = "idle" /\ loc'[h] = NoLoc /\ Alone'
             /\ \A g \in Handlers \ {h} : pc[g] = "idle" /\ pc'[g] = "idle"
        BY <3>1, Single
      <3>3. StoreInv'
        BY <1>2, <2>2, <3>2, StoreKept DEF ClickGet, Serial, redis, counts, history,
           Start, Swallow
      <3>4. Reachable'
        BY <1>2, <2>2, <3>2, ReachKept DEF ClickGet, Serial, redis, counts, history, At,
           Idle, Start, Swallow, TypeOK
      <3>5. PointInv(h)'
        BY <3>2, IdleRelies
      <3>. QED
        BY <3>2, <3>3, <3>4, <3>5, Assemble
    <2>. QED
      BY <2>1, <2>2
  <1>3. ASSUME ClickSet(h) PROVE Serial'
    <2>1. Go(h, "idle", NoLoc) /\ overlapped' = overlapped /\ pc[h] # "idle"
      BY <1>3 DEF ClickSet, At, Idle, Return, Start, history
    <2>2. /\ Serial /\ PointInv(h) /\ TypeOK /\ HandlerInv
           /\ pc'[h] = "idle" /\ loc'[h] = NoLoc /\ Alone'
           /\ \A g \in Handlers \ {h} : pc[g] = "idle" /\ pc'[g] = "idle"
      BY <2>1, Single
    <2>3. StoreInv'
      BY <1>3, <2>2 DEF ClickSet, Serial, redis, counts, history, PointInv, SignupPoint,
         RecordPoint, DeletePoint, At, TypeOK, HandlerInv, StoreInv, AccountsWell,
         LinksFresh, SessionsResolve, Owned, Exists, NoAccount
    <2>4. Reachable'
      <3>1. PICK e \in Emails : loc[h].email = e
        BY <1>3, <2>2 DEF ClickSet, At, HandlerInv
      <3>2. UNCHANGED <<link, aborts, faults>> /\ pc[h] = "click_set" /\ loc[h].rec = account[e]
        BY <1>3, <2>2, <3>1 DEF ClickSet, At, counts, PointInv, RecordPoint
      <3>3. /\ account'[e].status = "pending" => account'[e] = account[e]
            /\ \A f \in Emails \ {e} : account'[f] = account[f]
        BY <1>3, <2>2, <3>1, <3>2 DEF ClickSet, TypeOK, AccountRecord
      <3>. QED
        BY <2>2, <3>2, <3>3, ReachKept DEF Serial
    <2>5. PointInv(h)'
      BY <2>2, IdleRelies
    <2>. QED
      BY <2>2, <2>3, <2>4, <2>5, Assemble
  <1>4. ASSUME NEW e \in Emails, Login(h, e) PROVE Serial'
    <2>. DEFINE l == [NoLoc EXCEPT !.email = e]
    <2>1. Go(h, "login", l) /\ Start(h, "login", l)
      BY <1>4 DEF Login, At, Idle, Return, Start, history
    <2>2. /\ Serial /\ PointInv(h) /\ TypeOK /\ HandlerInv
           /\ pc'[h] = "login" /\ loc'[h] = l /\ Alone'
           /\ \A g \in Handlers \ {h} : pc[g] = "idle" /\ pc'[g] = "idle"
      BY <2>1, Single
    <2>3. StoreInv'
      BY <1>4, <2>2, StoreKept DEF Login, Serial, redis, counts, history, Start, Swallow
    <2>4. Reachable'
      BY <1>4, <2>2, ReachKept DEF Login, Serial, redis, counts, history, At, Idle,
         Start, Swallow, TypeOK
    <2>5. PointInv(h)'
      BY <1>4, <2>2 DEF Login, Serial, StoreInv, AccountsWell, LinksFresh,
         SessionsResolve, Owned, Exists, NoAccount, redis, counts, history, At, Idle,
         Start, Swallow, TypeOK, HandlerInv, PointInv, SignupPoint, MailPoint,
         RecordPoint, DeletePoint, SignedOut, NoInvites, NoMachines, NoLoc
    <2>. QED
      BY <2>2, <2>3, <2>4, <2>5, Assemble
  <1>5. ASSUME NEW s \in Sessions, LoginSet(h, s) PROVE Serial'
    <2>1. Go(h, "idle", NoLoc) /\ overlapped' = overlapped /\ pc[h] # "idle"
      BY <1>5 DEF LoginSet, At, Idle, Return, Start, history
    <2>2. /\ Serial /\ PointInv(h) /\ TypeOK /\ HandlerInv
           /\ pc'[h] = "idle" /\ loc'[h] = NoLoc /\ Alone'
           /\ \A g \in Handlers \ {h} : pc[g] = "idle" /\ pc'[g] = "idle"
      BY <2>1, Single
    <2>3. StoreInv'
      BY <1>5, <2>2 DEF LoginSet, Serial, redis, counts, history, PointInv, SignupPoint,
         RecordPoint, DeletePoint, At, TypeOK, HandlerInv, StoreInv, AccountsWell,
         LinksFresh, SessionsResolve, Owned, Exists, NoAccount
    <2>4. Reachable'
      BY <1>5, <2>2, ReachKept DEF LoginSet, Serial, redis, counts, history, At, Idle,
         Start, Swallow, TypeOK
    <2>5. PointInv(h)'
      BY <2>2, IdleRelies
    <2>. QED
      BY <2>2, <2>3, <2>4, <2>5, Assemble
  <1>. QED
    BY <1>1, <1>2, <1>3, <1>4, <1>5

\* Creating and approving an invite.
LEMMA InvitesSerial ==
  ASSUME SerialInv, ~overlapped', NEW h \in Handlers
  PROVE  /\ \A s \in Sessions : InviteCreate(h, s) => Serial'
         /\ \A s \in Sessions, c \in Codes : InviteApprove(h, s, c) => Serial'
         /\ \A c \in Codes : InviteSet(h, c) => Serial'
         /\ ApproveGet(h) => Serial'
         /\ ApproveUuid(h) => Serial'
         /\ \A m \in Machines : ApproveStore(h, m) => Serial'
         /\ ApproveBurn(h) => Serial'
  <1>. USE DEF SerialInv, IInv
  <1>1. ASSUME NEW s \in Sessions, InviteCreate(h, s) PROVE Serial'
    <2>. DEFINE l == [NoLoc EXCEPT !.email = session[s]]
    <2>1. Go(h, "invite", l) /\ Start(h, "invite", l)
      BY <1>1 DEF InviteCreate, SessionEmail, At, Idle, Return, Start, history
    <2>2. /\ Serial /\ PointInv(h) /\ TypeOK /\ HandlerInv
           /\ pc'[h] = "invite" /\ loc'[h] = l /\ Alone'
           /\ \A g \in Handlers \ {h} : pc[g] = "idle" /\ pc'[g] = "idle"
      BY <2>1, Single
    <2>3. StoreInv'
      BY <1>1, <2>2, StoreKept DEF InviteCreate, SessionEmail, Serial, redis, counts,
         history, Start, Swallow
    <2>4. Reachable'
      BY <1>1, <2>2, ReachKept DEF InviteCreate, SessionEmail, Serial, redis, counts,
         history, At, Idle, Start, Swallow, TypeOK
    <2>5. PointInv(h)'
      BY <1>1, <2>2 DEF InviteCreate, SessionEmail, Serial, StoreInv, AccountsWell,
         LinksFresh, SessionsResolve, Owned, Exists, NoAccount, redis, counts, history,
         At, Idle, Start, Swallow, TypeOK, HandlerInv, PointInv, SignupPoint, MailPoint,
         RecordPoint, DeletePoint, SignedOut, NoInvites, NoMachines, NoLoc
    <2>. QED
      BY <2>2, <2>3, <2>4, <2>5, Assemble
  <1>2. ASSUME NEW s \in Sessions, NEW c \in Codes, InviteApprove(h, s, c) PROVE Serial'
    <2>. DEFINE l == [[NoLoc EXCEPT !.code = c] EXCEPT !.email = session[s]]
    <2>1. Go(h, "approve", l) /\ Start(h, "approve", l)
      BY <1>2 DEF InviteApprove, SessionEmail, At, Idle, Return, Start, history
    <2>2. /\ Serial /\ PointInv(h) /\ TypeOK /\ HandlerInv
           /\ pc'[h] = "approve" /\ loc'[h] = l /\ Alone'
           /\ \A g \in Handlers \ {h} : pc[g] = "idle" /\ pc'[g] = "idle"
      BY <2>1, Single
    <2>3. StoreInv'
      BY <1>2, <2>2, StoreKept DEF InviteApprove, SessionEmail, Serial, redis, counts,
         history, Start, Swallow
    <2>4. Reachable'
      BY <1>2, <2>2, ReachKept DEF InviteApprove, SessionEmail, Serial, redis, counts,
         history, At, Idle, Start, Swallow, TypeOK
    <2>5. PointInv(h)'
      BY <1>2, <2>2 DEF InviteApprove, SessionEmail, Serial, StoreInv, AccountsWell,
         LinksFresh, SessionsResolve, Owned, Exists, NoAccount, redis, counts, history,
         At, Idle, Start, Swallow, TypeOK, HandlerInv, PointInv, SignupPoint, MailPoint,
         RecordPoint, DeletePoint, SignedOut, NoInvites, NoMachines, NoLoc
    <2>. QED
      BY <2>2, <2>3, <2>4, <2>5, Assemble
  <1>3. ASSUME NEW c \in Codes, InviteSet(h, c) PROVE Serial'
    <2>1. Go(h, "idle", NoLoc) /\ overlapped' = overlapped /\ pc[h] # "idle"
      BY <1>3 DEF InviteSet, At, Idle, Return, Start, history
    <2>2. /\ Serial /\ PointInv(h) /\ TypeOK /\ HandlerInv
           /\ pc'[h] = "idle" /\ loc'[h] = NoLoc /\ Alone'
           /\ \A g \in Handlers \ {h} : pc[g] = "idle" /\ pc'[g] = "idle"
      BY <2>1, Single
    <2>3. StoreInv'
      BY <1>3, <2>2 DEF InviteSet, Serial, redis, counts, history, PointInv, SignupPoint,
         RecordPoint, DeletePoint, At, TypeOK, HandlerInv, StoreInv, AccountsWell,
         LinksFresh, SessionsResolve, Owned, Exists, NoAccount
    <2>4. Reachable'
      BY <1>3, <2>2, ReachKept DEF InviteSet, Serial, redis, counts, history, At, Idle,
         Start, Swallow, TypeOK
    <2>5. PointInv(h)'
      BY <2>2, IdleRelies
    <2>. QED
      BY <2>2, <2>3, <2>4, <2>5, Assemble
  <1>4. ASSUME ApproveGet(h) PROVE Serial'
    <2>1. CASE invite[loc[h].code] = [owner |-> loc[h].email, status |-> "waiting"]
      <3>1. Go(h, "approve_uuid", loc[h]) /\ overlapped' = overlapped /\ pc[h] # "idle"
        BY <1>4, <2>1 DEF ApproveGet, At, Idle, Return, Start, history
      <3>2. /\ Serial /\ PointInv(h) /\ TypeOK /\ HandlerInv
             /\ pc'[h] = "approve_uuid" /\ loc'[h] = loc[h] /\ Alone'
             /\ \A g \in Handlers \ {h} : pc[g] = "idle" /\ pc'[g] = "idle"
        BY <3>1, Single
      <3>3. StoreInv'
        BY <1>4, <2>1, <3>2, StoreKept DEF ApproveGet, Serial, redis, counts, history,
           Start, Swallow
      <3>4. Reachable'
        BY <1>4, <2>1, <3>2, ReachKept DEF ApproveGet, Serial, redis, counts, history,
           At, Idle, Start, Swallow, TypeOK
      <3>5. PointInv(h)'
        BY <1>4, <2>1, <3>2 DEF ApproveGet, Serial, StoreInv, AccountsWell, LinksFresh,
           SessionsResolve, Owned, Exists, NoAccount, redis, counts, history, At, Idle,
           Start, Swallow, TypeOK, HandlerInv, PointInv, SignupPoint, MailPoint,
           RecordPoint, DeletePoint, SignedOut, NoInvites, NoMachines, NoLoc
      <3>. QED
        BY <3>2, <3>3, <3>4, <3>5, Assemble
    <2>2. CASE ~(invite[loc[h].code] = [owner |-> loc[h].email, status |-> "waiting"])
      <3>1. Go(h, "idle", NoLoc) /\ overlapped' = overlapped /\ pc[h] # "idle"
        BY <1>4, <2>2 DEF ApproveGet, At, Idle, Return, Start, history
      <3>2. /\ Serial /\ PointInv(h) /\ TypeOK /\ HandlerInv
             /\ pc'[h] = "idle" /\ loc'[h] = NoLoc /\ Alone'
             /\ \A g \in Handlers \ {h} : pc[g] = "idle" /\ pc'[g] = "idle"
        BY <3>1, Single
      <3>3. StoreInv'
        BY <1>4, <2>2, <3>2, StoreKept DEF ApproveGet, Serial, redis, counts, history,
           Start, Swallow
      <3>4. Reachable'
        BY <1>4, <2>2, <3>2, ReachKept DEF ApproveGet, Serial, redis, counts, history,
           At, Idle, Start, Swallow, TypeOK
      <3>5. PointInv(h)'
        BY <3>2, IdleRelies
      <3>. QED
        BY <3>2, <3>3, <3>4, <3>5, Assemble
    <2>. QED
      BY <2>1, <2>2
  <1>5. ASSUME ApproveUuid(h) PROVE Serial'
    <2>1. CASE Exists(loc[h].email)
      <3>. DEFINE l == [loc[h] EXCEPT !.rec = account[loc[h].email]]
      <3>1. Go(h, "approve_store", l) /\ overlapped' = overlapped /\ pc[h] # "idle"
        BY <1>5, <2>1 DEF ApproveUuid, At, Idle, Return, Start, history
      <3>2. /\ Serial /\ PointInv(h) /\ TypeOK /\ HandlerInv
             /\ pc'[h] = "approve_store" /\ loc'[h] = l /\ Alone'
             /\ \A g \in Handlers \ {h} : pc[g] = "idle" /\ pc'[g] = "idle"
        BY <3>1, Single
      <3>3. StoreInv'
        BY <1>5, <2>1, <3>2 DEF ApproveUuid, Serial, redis, counts, history, PointInv,
           SignupPoint, RecordPoint, DeletePoint, At, TypeOK, HandlerInv, StoreInv,
           AccountsWell, LinksFresh, SessionsResolve, Owned, Exists, NoAccount
      <3>4. Reachable'
        BY <1>5, <2>1, <3>2, ReachKept DEF ApproveUuid, Serial, redis, counts, history,
           At, Idle, Start, Swallow, TypeOK
      <3>5. PointInv(h)'
        BY <1>5, <2>1, <3>2 DEF ApproveUuid, Serial, StoreInv, AccountsWell, LinksFresh,
           SessionsResolve, Owned, Exists, NoAccount, redis, counts, history, At, Idle,
           Start, Swallow, TypeOK, HandlerInv, PointInv, SignupPoint, MailPoint,
           RecordPoint, DeletePoint, SignedOut, NoInvites, NoMachines, NoLoc
      <3>. QED
        BY <3>2, <3>3, <3>4, <3>5, Assemble
    <2>2. CASE ~Exists(loc[h].email)
      <3>1. Go(h, "idle", NoLoc) /\ overlapped' = overlapped /\ pc[h] # "idle"
        BY <1>5, <2>2 DEF ApproveUuid, At, Idle, Return, Start, history
      <3>2. /\ Serial /\ PointInv(h) /\ TypeOK /\ HandlerInv
             /\ pc'[h] = "idle" /\ loc'[h] = NoLoc /\ Alone'
             /\ \A g \in Handlers \ {h} : pc[g] = "idle" /\ pc'[g] = "idle"
        BY <3>1, Single
      <3>3. StoreInv'
        BY <1>5, <2>2, <3>2 DEF ApproveUuid, Serial, redis, counts, history, PointInv,
           SignupPoint, RecordPoint, DeletePoint, At, TypeOK, HandlerInv, StoreInv,
           AccountsWell, LinksFresh, SessionsResolve, Owned, Exists, NoAccount
      <3>4. Reachable'
        BY <1>5, <2>2, <3>2, ReachKept DEF ApproveUuid, Serial, redis, counts, history,
           At, Idle, Start, Swallow, TypeOK
      <3>5. PointInv(h)'
        BY <3>2, IdleRelies
      <3>. QED
        BY <3>2, <3>3, <3>4, <3>5, Assemble
    <2>. QED
      BY <2>1, <2>2
  <1>6. ASSUME NEW m \in Machines, ApproveStore(h, m) PROVE Serial'
    <2>1. Go(h, "approve_burn", loc[h]) /\ overlapped' = overlapped /\ pc[h] # "idle"
      BY <1>6 DEF ApproveStore, At, Idle, Return, Start, history
    <2>2. /\ Serial /\ PointInv(h) /\ TypeOK /\ HandlerInv
           /\ pc'[h] = "approve_burn" /\ loc'[h] = loc[h] /\ Alone'
           /\ \A g \in Handlers \ {h} : pc[g] = "idle" /\ pc'[g] = "idle"
      BY <2>1, Single
    <2>3. StoreInv'
      BY <1>6, <2>2 DEF ApproveStore, Serial, redis, counts, history, PointInv,
         SignupPoint, RecordPoint, DeletePoint, At, TypeOK, HandlerInv, StoreInv,
         AccountsWell, LinksFresh, SessionsResolve, Owned, Exists, NoAccount
    <2>4. Reachable'
      BY <1>6, <2>2, ReachKept DEF ApproveStore, Serial, redis, counts, history, At,
         Idle, Start, Swallow, TypeOK
    <2>5. PointInv(h)'
      BY <1>6, <2>2 DEF ApproveStore, Serial, StoreInv, AccountsWell, LinksFresh,
         SessionsResolve, Owned, Exists, NoAccount, redis, counts, history, At, Idle,
         Start, Swallow, TypeOK, HandlerInv, PointInv, SignupPoint, MailPoint,
         RecordPoint, DeletePoint, SignedOut, NoInvites, NoMachines, NoLoc
    <2>. QED
      BY <2>2, <2>3, <2>4, <2>5, Assemble
  <1>7. ASSUME ApproveBurn(h) PROVE Serial'
    <2>1. Go(h, "idle", NoLoc) /\ overlapped' = overlapped /\ pc[h] # "idle"
      BY <1>7 DEF ApproveBurn, At, Idle, Return, Start, history
    <2>2. /\ Serial /\ PointInv(h) /\ TypeOK /\ HandlerInv
           /\ pc'[h] = "idle" /\ loc'[h] = NoLoc /\ Alone'
           /\ \A g \in Handlers \ {h} : pc[g] = "idle" /\ pc'[g] = "idle"
      BY <2>1, Single
    <2>3. StoreInv'
      BY <1>7, <2>2 DEF ApproveBurn, Serial, redis, counts, history, PointInv,
         SignupPoint, RecordPoint, DeletePoint, At, TypeOK, HandlerInv, StoreInv,
         AccountsWell, LinksFresh, SessionsResolve, Owned, Exists, NoAccount
    <2>4. Reachable'
      BY <1>7, <2>2, ReachKept DEF ApproveBurn, Serial, redis, counts, history, At, Idle,
         Start, Swallow, TypeOK
    <2>5. PointInv(h)'
      BY <2>2, IdleRelies
    <2>. QED
      BY <2>2, <2>3, <2>4, <2>5, Assemble
  <1>. QED
    BY <1>1, <1>2, <1>3, <1>4, <1>5, <1>6, <1>7

\* Deleting an account, and requests that are cut off.
LEMMA DeletesSerial ==
  ASSUME SerialInv, ~overlapped', NEW h \in Handlers
  PROVE  /\ \A s \in Sessions : AccountDelete(h, s) => Serial'
         /\ DeleteGet(h) => Serial'
         /\ DeleteOwner(h) => Serial'
         /\ \A b \in BOOLEAN : DeleteList(h, b) => Serial'
         /\ \A m \in Machines, b \in BOOLEAN : DeleteMachine(h, m, b) => Serial'
         /\ \A b \in BOOLEAN : DeleteListInvites(h, b) => Serial'
         /\ \A c \in Codes : DeleteInvite(h, c) => Serial'
         /\ SweepStart(h) => Serial'
         /\ \A s \in Sessions : SweepSession(h, s) => Serial'
         /\ SweepEnd(h) => Serial'
         /\ DeleteRecord(h) => Serial'
         /\ Abort(h) => Serial'
  <1>. USE DEF SerialInv, IInv
  <1>1. ASSUME NEW s \in Sessions, AccountDelete(h, s) PROVE Serial'
    <2>. DEFINE l == [NoLoc EXCEPT !.email = session[s]]
    <2>1. Go(h, "delete", l) /\ Start(h, "delete", l)
      BY <1>1 DEF AccountDelete, SessionEmail, At, Idle, Return, Start, history
    <2>2. /\ Serial /\ PointInv(h) /\ TypeOK /\ HandlerInv
           /\ pc'[h] = "delete" /\ loc'[h] = l /\ Alone'
           /\ \A g \in Handlers \ {h} : pc[g] = "idle" /\ pc'[g] = "idle"
      BY <2>1, Single
    <2>3. StoreInv'
      BY <1>1, <2>2, StoreKept DEF AccountDelete, SessionEmail, Serial, redis, counts,
         history, Start, Swallow
    <2>4. Reachable'
      BY <1>1, <2>2, ReachKept DEF AccountDelete, SessionEmail, Serial, redis, counts,
         history, At, Idle, Start, Swallow, TypeOK
    <2>5. PointInv(h)'
      BY <1>1, <2>2 DEF AccountDelete, SessionEmail, Serial, StoreInv, AccountsWell,
         LinksFresh, SessionsResolve, Owned, Exists, NoAccount, redis, counts, history,
         At, Idle, Start, Swallow, TypeOK, HandlerInv, PointInv, SignupPoint, MailPoint,
         RecordPoint, DeletePoint, SignedOut, NoInvites, NoMachines, NoLoc
    <2>. QED
      BY <2>2, <2>3, <2>4, <2>5, Assemble
  <1>2. ASSUME DeleteGet(h) PROVE Serial'
    <2>1. CASE Exists(loc[h].email)
      <3>1. Go(h, "owner", loc[h]) /\ overlapped' = overlapped /\ pc[h] # "idle"
        BY <1>2, <2>1 DEF DeleteGet, At, Idle, Return, Start, history
      <3>2. /\ Serial /\ PointInv(h) /\ TypeOK /\ HandlerInv
             /\ pc'[h] = "owner" /\ loc'[h] = loc[h] /\ Alone'
             /\ \A g \in Handlers \ {h} : pc[g] = "idle" /\ pc'[g] = "idle"
        BY <3>1, Single
      <3>3. StoreInv'
        BY <1>2, <2>1, <3>2, StoreKept DEF DeleteGet, Serial, redis, counts, history,
           Start, Swallow
      <3>4. Reachable'
        BY <1>2, <2>1, <3>2, ReachKept DEF DeleteGet, Serial, redis, counts, history, At,
           Idle, Start, Swallow, TypeOK
      <3>5. PointInv(h)'
        BY <1>2, <2>1, <3>2 DEF DeleteGet, Serial, StoreInv, AccountsWell, LinksFresh,
           SessionsResolve, Owned, Exists, NoAccount, redis, counts, history, At, Idle,
           Start, Swallow, TypeOK, HandlerInv, PointInv, SignupPoint, MailPoint,
           RecordPoint, DeletePoint, SignedOut, NoInvites, NoMachines, NoLoc
      <3>. QED
        BY <3>2, <3>3, <3>4, <3>5, Assemble
    <2>2. CASE ~Exists(loc[h].email)
      <3>1. Go(h, "idle", NoLoc) /\ overlapped' = overlapped /\ pc[h] # "idle"
        BY <1>2, <2>2 DEF DeleteGet, At, Idle, Return, Start, history
      <3>2. /\ Serial /\ PointInv(h) /\ TypeOK /\ HandlerInv
             /\ pc'[h] = "idle" /\ loc'[h] = NoLoc /\ Alone'
             /\ \A g \in Handlers \ {h} : pc[g] = "idle" /\ pc'[g] = "idle"
        BY <3>1, Single
      <3>3. StoreInv'
        BY <1>2, <2>2, <3>2, StoreKept DEF DeleteGet, Serial, redis, counts, history,
           Start, Swallow
      <3>4. Reachable'
        BY <1>2, <2>2, <3>2, ReachKept DEF DeleteGet, Serial, redis, counts, history, At,
           Idle, Start, Swallow, TypeOK
      <3>5. PointInv(h)'
        BY <3>2, IdleRelies
      <3>. QED
        BY <3>2, <3>3, <3>4, <3>5, Assemble
    <2>. QED
      BY <2>1, <2>2
  <1>3. ASSUME DeleteOwner(h) PROVE Serial'
    <2>. DEFINE l == [loc[h] EXCEPT !.rec = account[loc[h].email]]
    <2>1. Go(h, "list", l) /\ overlapped' = overlapped /\ pc[h] # "idle"
      BY <1>3 DEF DeleteOwner, At, Idle, Return, Start, history
    <2>2. /\ Serial /\ PointInv(h) /\ TypeOK /\ HandlerInv
           /\ pc'[h] = "list" /\ loc'[h] = l /\ Alone'
           /\ \A g \in Handlers \ {h} : pc[g] = "idle" /\ pc'[g] = "idle"
      BY <2>1, Single
    <2>3. StoreInv'
      BY <1>3, <2>2, StoreKept DEF DeleteOwner, Serial, redis, counts, history, Start, Swallow
    <2>4. Reachable'
      BY <1>3, <2>2, ReachKept DEF DeleteOwner, Serial, redis, counts, history, At, Idle,
         Start, Swallow, TypeOK
    <2>5. PointInv(h)'
      BY <1>3, <2>2 DEF DeleteOwner, Serial, StoreInv, AccountsWell, LinksFresh,
         SessionsResolve, Owned, Exists, NoAccount, redis, counts, history, At, Idle,
         Start, Swallow, TypeOK, HandlerInv, PointInv, SignupPoint, MailPoint,
         RecordPoint, DeletePoint, SignedOut, NoInvites, NoMachines, NoLoc
    <2>. QED
      BY <2>2, <2>3, <2>4, <2>5, Assemble
  <1>4. ASSUME NEW b \in BOOLEAN, DeleteList(h, b) PROVE Serial'
    <2>. DEFINE l == [loc[h] EXCEPT !.todo = {m \in Machines : b /\ machine[m] # 0 /\ machine[m] = loc[h].rec.uuid}]
    <2>1. Go(h, "machines", l) /\ overlapped' = overlapped /\ pc[h] # "idle"
      BY <1>4 DEF DeleteList, At, Idle, Return, Start, history
    <2>2. /\ Serial /\ PointInv(h) /\ TypeOK /\ HandlerInv
           /\ pc'[h] = "machines" /\ loc'[h] = l /\ Alone'
           /\ \A g \in Handlers \ {h} : pc[g] = "idle" /\ pc'[g] = "idle"
      BY <2>1, Single
    <2>3. StoreInv'
      BY <1>4, <2>2, StoreKept DEF DeleteList, Serial, redis, counts, history, Start, Swallow
    <2>4. Reachable'
      BY <1>4, <2>2, ReachKept DEF DeleteList, Serial, redis, counts, history, At, Idle,
         Start, Swallow, TypeOK
    <2>5. PointInv(h)'
      BY <1>4, <2>2 DEF DeleteList, Serial, StoreInv, AccountsWell, LinksFresh,
         SessionsResolve, Owned, Exists, NoAccount, redis, counts, history, At, Idle,
         Start, Swallow, TypeOK, HandlerInv, PointInv, SignupPoint, MailPoint,
         RecordPoint, DeletePoint, SignedOut, NoInvites, NoMachines, NoLoc
    <2>. QED
      BY <2>2, <2>3, <2>4, <2>5, Assemble
  <1>5. ASSUME NEW m \in Machines, NEW b \in BOOLEAN, DeleteMachine(h, m, b) PROVE Serial'
    <2>. DEFINE l == [loc[h] EXCEPT !.todo = @ \ {m}]
    <2>1. Go(h, "machines", l) /\ overlapped' = overlapped /\ pc[h] # "idle"
      BY <1>5 DEF DeleteMachine, At, Idle, Return, Start, history
    <2>2. /\ Serial /\ PointInv(h) /\ TypeOK /\ HandlerInv
           /\ pc'[h] = "machines" /\ loc'[h] = l /\ Alone'
           /\ \A g \in Handlers \ {h} : pc[g] = "idle" /\ pc'[g] = "idle"
      BY <2>1, Single
    <2>3. StoreInv'
      <3>1. /\ UNCHANGED <<account, link, session, invite, uuids, links, panicked>>
            /\ \A n \in Machines : machine'[n] = machine[n] \/ machine'[n] = 0
            /\ faults' = 0 => faults = 0
        BY <1>5, <2>2, BoundsNat DEF DeleteMachine, Swallow, history, TypeOK
      <3>2. AccountsWell' /\ LinksFresh' /\ SessionsResolve' /\ ~panicked'
        BY <2>2, <3>1 DEF Serial, StoreInv, AccountsWell, LinksFresh, SessionsResolve
      <3>3. ASSUME Owned PROVE Owned'
        <4>1. ASSUME NEW n \in Machines, machine'[n] # 0
              PROVE  \E e \in Emails : account'[e].uuid = machine'[n]
          <5>1. machine'[n] = machine[n] /\ machine[n] # 0 /\ account' = account
            BY <3>1, <4>1
          <5>2. PICK e \in Emails : account[e].uuid = machine[n]
            BY <3>3, <5>1 DEF Owned
          <5>. QED
            BY <5>1, <5>2
        <4>2. \A c \in Codes : invite'[c] # NoInvite => Exists(invite[c].owner)'
          BY <3>1, <3>3 DEF Owned, Exists
        <4>. QED
          BY <3>1, <4>1, <4>2 DEF Owned, Exists
      <3>4. StoreInv /\ (faults' = 0 => faults = 0)
        BY <2>2, <3>1 DEF Serial
      <3>. QED
        BY <3>2, <3>3, <3>4 DEF StoreInv
    <2>4. Reachable'
      BY <1>5, <2>2, ReachKept DEF DeleteMachine, Serial, redis, counts, history, At,
         Idle, Start, Swallow, TypeOK
    <2>5. PointInv(h)'
      BY <1>5, <2>2 DEF DeleteMachine, Serial, StoreInv, AccountsWell, LinksFresh,
         SessionsResolve, Owned, Exists, NoAccount, redis, counts, history, At, Idle,
         Start, Swallow, TypeOK, HandlerInv, PointInv, SignupPoint, MailPoint,
         RecordPoint, DeletePoint, SignedOut, NoInvites, NoMachines, NoLoc
    <2>. QED
      BY <2>2, <2>3, <2>4, <2>5, Assemble
  <1>6. ASSUME NEW b \in BOOLEAN, DeleteListInvites(h, b) PROVE Serial'
    <2>. DEFINE l == [loc[h] EXCEPT !.todo = {c \in Codes : b /\ invite[c].owner = loc[h].email}]
    <2>1. Go(h, "invites", l) /\ overlapped' = overlapped /\ pc[h] # "idle"
      BY <1>6 DEF DeleteListInvites, At, Idle, Return, Start, history
    <2>2. /\ Serial /\ PointInv(h) /\ TypeOK /\ HandlerInv
           /\ pc'[h] = "invites" /\ loc'[h] = l /\ Alone'
           /\ \A g \in Handlers \ {h} : pc[g] = "idle" /\ pc'[g] = "idle"
      BY <2>1, Single
    <2>3. StoreInv'
      BY <1>6, <2>2, StoreKept DEF DeleteListInvites, Serial, redis, counts, history,
         Start, Swallow
    <2>4. Reachable'
      BY <1>6, <2>2, ReachKept DEF DeleteListInvites, Serial, redis, counts, history, At,
         Idle, Start, Swallow, TypeOK
    <2>5. PointInv(h)'
      BY <1>6, <2>2 DEF DeleteListInvites, Serial, StoreInv, AccountsWell, LinksFresh,
         SessionsResolve, Owned, Exists, NoAccount, redis, counts, history, At, Idle,
         Start, Swallow, TypeOK, HandlerInv, PointInv, SignupPoint, MailPoint,
         RecordPoint, DeletePoint, SignedOut, NoInvites, NoMachines, NoLoc
    <2>. QED
      BY <2>2, <2>3, <2>4, <2>5, Assemble
  <1>7. ASSUME NEW c \in Codes, DeleteInvite(h, c) PROVE Serial'
    <2>. DEFINE l == [loc[h] EXCEPT !.todo = @ \ {c}]
    <2>1. Go(h, "invites", l) /\ overlapped' = overlapped /\ pc[h] # "idle"
      BY <1>7 DEF DeleteInvite, At, Idle, Return, Start, history
    <2>2. /\ Serial /\ PointInv(h) /\ TypeOK /\ HandlerInv
           /\ pc'[h] = "invites" /\ loc'[h] = l /\ Alone'
           /\ \A g \in Handlers \ {h} : pc[g] = "idle" /\ pc'[g] = "idle"
      BY <2>1, Single
    <2>3. StoreInv'
      BY <1>7, <2>2 DEF DeleteInvite, Serial, redis, counts, history, PointInv,
         SignupPoint, RecordPoint, DeletePoint, At, TypeOK, HandlerInv, StoreInv,
         AccountsWell, LinksFresh, SessionsResolve, Owned, Exists, NoAccount
    <2>4. Reachable'
      BY <1>7, <2>2, ReachKept DEF DeleteInvite, Serial, redis, counts, history, At,
         Idle, Start, Swallow, TypeOK
    <2>5. PointInv(h)'
      <3>1. PICK e \in Emails : loc[h].email = e
        BY <1>7, <2>2 DEF DeleteInvite, At, HandlerInv
      <3>2. /\ UNCHANGED <<account, session, machine, faults>> /\ pc[h] = "invites"
            /\ l.email = e /\ l.rec = loc[h].rec /\ l.todo = loc[h].todo \ {c}
        BY <1>7, <2>2, <3>1 DEF DeleteInvite, At, counts, TypeOK, Locals
      <3>3. invite'[c].owner # e /\ \A d \in Codes \ {c} : invite'[d] = invite[d]
        BY <1>7, <2>2, Absent DEF DeleteInvite, TypeOK, NoInvite
      <3>. HIDE DEF l
      <3>4. RecordPoint(h)'
        BY <2>2, <3>1, <3>2 DEF PointInv, RecordPoint, Exists
      <3>5. DeletePoint(h)'
        BY <2>2, <3>1, <3>2, <3>3 DEF PointInv, DeletePoint, NoMachines
      <3>. QED
        BY <2>2, <3>4, <3>5 DEF PointInv, SignupPoint, MailPoint
    <2>. QED
      BY <2>2, <2>3, <2>4, <2>5, Assemble
  <1>8. ASSUME SweepStart(h) PROVE Serial'
    <2>. DEFINE l == [loc[h] EXCEPT !.todo = {s \in Sessions : session[s] # NoEmail}]
    <2>1. Go(h, "sessions", l) /\ overlapped' = overlapped /\ pc[h] # "idle"
      BY <1>8 DEF SweepStart, At, Idle, Return, Start, history
    <2>2. /\ Serial /\ PointInv(h) /\ TypeOK /\ HandlerInv
           /\ pc'[h] = "sessions" /\ loc'[h] = l /\ Alone'
           /\ \A g \in Handlers \ {h} : pc[g] = "idle" /\ pc'[g] = "idle"
      BY <2>1, Single
    <2>3. StoreInv'
      BY <1>8, <2>2, StoreKept DEF SweepStart, Serial, redis, counts, history, Start, Swallow
    <2>4. Reachable'
      BY <1>8, <2>2, ReachKept DEF SweepStart, Serial, redis, counts, history, At, Idle,
         Start, Swallow, TypeOK
    <2>5. PointInv(h)'
      <3>1. PICK e \in Emails : loc[h].email = e
        BY <1>8, <2>2 DEF SweepStart, At, HandlerInv
      <3>2. /\ UNCHANGED <<account, session, machine, invite, faults>> /\ pc[h] = "invites"
            /\ l.email = e /\ l.rec = loc[h].rec /\ loc[h].todo = {}
            /\ \A s \in Sessions : session[s] = e => s \in l.todo
        BY <1>8, <2>2, <3>1, Absent DEF SweepStart, At, redis, counts, TypeOK, Locals
      <3>. HIDE DEF l
      <3>4. RecordPoint(h)'
        BY <2>2, <3>1, <3>2 DEF PointInv, RecordPoint, Exists
      <3>5. DeletePoint(h)'
        BY <2>2, <3>1, <3>2 DEF PointInv, DeletePoint, NoMachines, NoInvites
      <3>. QED
        BY <2>2, <3>4, <3>5 DEF PointInv, SignupPoint, MailPoint
    <2>. QED
      BY <2>2, <2>3, <2>4, <2>5, Assemble
  <1>9. ASSUME NEW s \in Sessions, SweepSession(h, s) PROVE Serial'
    <2>. DEFINE l == [loc[h] EXCEPT !.todo = @ \ {s}]
    <2>1. Go(h, "sessions", l) /\ overlapped' = overlapped /\ pc[h] # "idle"
      BY <1>9 DEF SweepSession, At, Idle, Return, Start, history
    <2>2. /\ Serial /\ PointInv(h) /\ TypeOK /\ HandlerInv
           /\ pc'[h] = "sessions" /\ loc'[h] = l /\ Alone'
           /\ \A g \in Handlers \ {h} : pc[g] = "idle" /\ pc'[g] = "idle"
      BY <2>1, Single
    <2>3. StoreInv'
      BY <1>9, <2>2 DEF SweepSession, Serial, redis, counts, history, PointInv,
         SignupPoint, RecordPoint, DeletePoint, At, TypeOK, HandlerInv, StoreInv,
         AccountsWell, LinksFresh, SessionsResolve, Owned, Exists, NoAccount
    <2>4. Reachable'
      BY <1>9, <2>2, ReachKept DEF SweepSession, Serial, redis, counts, history, At,
         Idle, Start, Swallow, TypeOK
    <2>5. PointInv(h)'
      <3>1. PICK e \in Emails : loc[h].email = e
        BY <1>9, <2>2 DEF SweepSession, At, HandlerInv
      <3>2. /\ UNCHANGED <<account, machine, invite, faults>> /\ pc[h] = "sessions"
            /\ l.email = e /\ l.rec = loc[h].rec /\ l.todo = loc[h].todo \ {s}
        BY <1>9, <2>2, <3>1 DEF SweepSession, At, counts, TypeOK, Locals
      <3>3. session'[s] # e /\ \A t \in Sessions \ {s} : session'[t] = session[t]
        BY <1>9, <2>2, <3>1, Absent DEF SweepSession, TypeOK
      <3>. HIDE DEF l
      <3>4. RecordPoint(h)'
        BY <2>2, <3>1, <3>2 DEF PointInv, RecordPoint, Exists
      <3>5. DeletePoint(h)'
        BY <2>2, <3>1, <3>2, <3>3 DEF PointInv, DeletePoint, NoMachines, NoInvites
      <3>. QED
        BY <2>2, <3>4, <3>5 DEF PointInv, SignupPoint, MailPoint
    <2>. QED
      BY <2>2, <2>3, <2>4, <2>5, Assemble
  <1>10. ASSUME SweepEnd(h) PROVE Serial'
    <2>1. Go(h, "record", loc[h]) /\ overlapped' = overlapped /\ pc[h] # "idle"
      BY <1>10 DEF SweepEnd, At, Idle, Return, Start, history
    <2>2. /\ Serial /\ PointInv(h) /\ TypeOK /\ HandlerInv
           /\ pc'[h] = "record" /\ loc'[h] = loc[h] /\ Alone'
           /\ \A g \in Handlers \ {h} : pc[g] = "idle" /\ pc'[g] = "idle"
      BY <2>1, Single
    <2>3. StoreInv'
      BY <1>10, <2>2, StoreKept DEF SweepEnd, Serial, redis, counts, history, Start, Swallow
    <2>4. Reachable'
      BY <1>10, <2>2, ReachKept DEF SweepEnd, Serial, redis, counts, history, At, Idle,
         Start, Swallow, TypeOK
    <2>5. PointInv(h)'
      BY <1>10, <2>2 DEF SweepEnd, Serial, StoreInv, AccountsWell, LinksFresh,
         SessionsResolve, Owned, Exists, NoAccount, redis, counts, history, At, Idle,
         Start, Swallow, TypeOK, HandlerInv, PointInv, SignupPoint, MailPoint,
         RecordPoint, DeletePoint, SignedOut, NoInvites, NoMachines, NoLoc
    <2>. QED
      BY <2>2, <2>3, <2>4, <2>5, Assemble
  <1>11. ASSUME DeleteRecord(h) PROVE Serial'
    <2>1. Go(h, "idle", NoLoc) /\ overlapped' = overlapped /\ pc[h] # "idle"
      BY <1>11 DEF DeleteRecord, At, Idle, Return, Start, history
    <2>2. /\ Serial /\ PointInv(h) /\ TypeOK /\ HandlerInv
           /\ pc'[h] = "idle" /\ loc'[h] = NoLoc /\ Alone'
           /\ \A g \in Handlers \ {h} : pc[g] = "idle" /\ pc'[g] = "idle"
      BY <2>1, Single
    <2>3. StoreInv'
      <3>1. PICK e \in Emails : loc[h].email = e
        BY <1>11, <2>2 DEF DeleteRecord, At, HandlerInv
      <3>2. /\ account' = [account EXCEPT ![e] = NoAccount]
            /\ UNCHANGED <<link, session, machine, invite, uuids, links, panicked, faults>>
        BY <1>11, <3>1 DEF DeleteRecord, counts, history
      <3>3. SignedOut(e) /\ (faults = 0 => NoInvites(e) /\ NoMachines(account[e].uuid))
        BY <1>11, <2>2, <3>1 DEF DeleteRecord, At, PointInv, RecordPoint, DeletePoint
      <3>. QED
        BY <2>2, <3>2, <3>3, RecordGone DEF Serial
    <2>4. Reachable'
      <3>1. PICK e \in Emails : loc[h].email = e
        BY <1>11, <2>2 DEF DeleteRecord, At, HandlerInv
      <3>2. /\ account' = [account EXCEPT ![e] = NoAccount] /\ pc[h] = "record"
            /\ UNCHANGED <<link, aborts, faults>>
        BY <1>11, <3>1 DEF DeleteRecord, At, counts
      <3>3. /\ account'[e].status = "none"
            /\ \A f \in Emails \ {e} : account'[f] = account[f]
        BY <2>2, <3>2 DEF TypeOK, NoAccount
      <3>. QED
        BY <2>2, <3>2, <3>3, ReachKept DEF Serial
    <2>5. PointInv(h)'
      BY <2>2, IdleRelies
    <2>. QED
      BY <2>2, <2>3, <2>4, <2>5, Assemble
  <1>12. ASSUME Abort(h) PROVE Serial'
    <2>1. Go(h, "idle", NoLoc) /\ overlapped' = overlapped /\ pc[h] # "idle"
      BY <1>12 DEF Abort, At, Idle, Return, Start, history
    <2>2. /\ Serial /\ PointInv(h) /\ TypeOK /\ HandlerInv
           /\ pc'[h] = "idle" /\ loc'[h] = NoLoc /\ Alone'
           /\ \A g \in Handlers \ {h} : pc[g] = "idle" /\ pc'[g] = "idle"
      BY <2>1, Single
    <2>3. StoreInv'
      BY <1>12, <2>2, StoreKept DEF Abort, Serial, redis, counts, history, Start, Swallow
    <2>4. Reachable'
      BY <1>12, <2>2, ReachKept DEF Abort, Serial, redis, counts, history, At, Idle,
         Start, Swallow, TypeOK
    <2>5. PointInv(h)'
      BY <2>2, IdleRelies
    <2>. QED
      BY <2>2, <2>3, <2>4, <2>5, Assemble
  <1>. QED
    BY <1>1, <1>2, <1>3, <1>4, <1>5, <1>6, <1>7, <1>8, <1>9, <1>10, <1>11, <1>12

\* What happens besides the requests: sessions and invites end, links expire,
\* boxes dial.
LEMMA TimeSerial ==
  ASSUME SerialInv, ~overlapped'
  PROVE  /\ \A s \in Sessions : EndSession(s) => Serial'
         /\ \A c \in Codes : BoxDials(c) \/ InviteEnds(c) => Serial'
         /\ \A i \in 1..MaxLinks : LinkExpires(i) => Serial'
  <1>1. ASSUME overlapped' = overlapped, UNCHANGED <<account, machine, uuids, links, aborts, faults, pc, loc, panicked>>,
               \A s \in Sessions : session'[s] \in {session[s], NoEmail},
               \A c \in Codes : invite'[c] = NoInvite \/ (invite[c] # NoInvite /\ invite'[c].owner = invite[c].owner),
               \A i \in 1..MaxLinks : /\ link'[i].sent = link[i].sent
                                      /\ link'[i].kind = link[i].kind /\ link'[i].acct = link[i].acct
        PROVE  Serial'
    <2>1. Serial /\ TypeOK /\ HandlerInv
      BY <1>1 DEF SerialInv, IInv
    <2>2. Alone'
      BY <1>1, <2>1 DEF Serial, Alone
    <2>3. StoreInv'
      <3>1. AccountsWell' /\ LinksFresh' /\ ~panicked'
        BY <1>1, <2>1 DEF Serial, StoreInv, AccountsWell, LinksFresh
      <3>2. SessionsResolve'
        BY <1>1, <2>1 DEF Serial, StoreInv, SessionsResolve
      <3>3. Owned => Owned'
        BY <1>1 DEF Owned, Exists
      <3>. QED
        BY <1>1, <2>1, <3>1, <3>2, <3>3 DEF Serial, StoreInv
    <2>4. Reachable'
      <3>1. \A e \in Emails : Mailed(e) => Mailed(e)'
        BY <1>1 DEF Mailed
      <3>. QED
        BY <1>1, <2>1, <3>1 DEF Serial, Reachable
    <2>5. ASSUME NEW h \in Handlers PROVE PointInv(h)'
      <3>1. PointInv(h) /\ (pc[h] # "idle" => loc[h].email \in Emails)
        BY <2>1 DEF Serial, HandlerInv
      <3>2. SignupPoint(h)'
        BY <1>1, <3>1, Absent
           DEF PointInv, SignupPoint, SignedOut, NoInvites, NoMachines, Exists, NoInvite
      <3>3. MailPoint(h)'
        BY <1>1, <2>1, <3>1 DEF PointInv, MailPoint, HandlerInv
      <3>4. RecordPoint(h)'
        BY <1>1, <3>1 DEF PointInv, RecordPoint, Exists
      <3>5. DeletePoint(h)'
        BY <1>1, <3>1, Absent
           DEF PointInv, DeletePoint, SignedOut, NoInvites, NoMachines, NoInvite
      <3>. QED
        BY <3>2, <3>3, <3>4, <3>5 DEF PointInv
    <2>. QED
      BY <2>2, <2>3, <2>4, <2>5 DEF Serial
  <1>2. TypeOK
    BY DEF SerialInv, IInv
  <1>3. ASSUME NEW s \in Sessions, EndSession(s) PROVE Serial'
    <2>1. \A t \in Sessions : session'[t] \in {session[t], NoEmail}
      BY <1>2, <1>3 DEF EndSession, TypeOK
    <2>. QED
      BY <1>1, <1>3, <2>1 DEF EndSession, counts, history
  <1>4. ASSUME NEW c \in Codes, BoxDials(c) \/ InviteEnds(c) PROVE Serial'
    <2>1. \A d \in Codes : invite'[d] = NoInvite \/ (invite[d] # NoInvite /\ invite'[d].owner = invite[d].owner)
      BY <1>2, <1>4 DEF BoxDials, InviteEnds, TypeOK, InviteRecord, NoInvite
    <2>. QED
      BY <1>1, <1>4, <2>1 DEF BoxDials, InviteEnds, counts, history
  <1>5. ASSUME NEW i \in 1..MaxLinks, LinkExpires(i) PROVE Serial'
    <2>1. \A j \in 1..MaxLinks : /\ link'[j].sent = link[j].sent
                                 /\ link'[j].kind = link[j].kind /\ link'[j].acct = link[j].acct
      BY <1>2, <1>5 DEF LinkExpires, TypeOK, LinkRecord
    <2>. QED
      BY <1>1, <1>5, <2>1 DEF LinkExpires, counts, history
  <1>. QED
    BY <1>3, <1>4, <1>5

\* Every step keeps what the running request relies on, as long as requests
\* come one at a time.
LEMMA StepSerial == SerialInv /\ [Next]_vars /\ ~overlapped' => Serial'
  <1>. SUFFICES ASSUME SerialInv, [Next]_vars, ~overlapped' PROVE Serial'
    OBVIOUS
  <1>1. ASSUME NEW h \in Handlers, MailNext(h) PROVE Serial'
    BY <1>1, SignupsSerial, ClicksSerial DEF MailNext
  <1>2. ASSUME NEW h \in Handlers, SessionNext(h) PROVE Serial'
    BY <1>2, ClicksSerial, InvitesSerial, DeletesSerial DEF SessionNext
  <1>3. ASSUME NEW h \in Handlers, DeleteNext(h) \/ Abort(h) PROVE Serial'
    BY <1>3, DeletesSerial DEF DeleteNext
  <1>4. CASE UNCHANGED vars
    BY <1>4 DEF vars, SerialInv, Serial, Alone, StoreInv, AccountsWell, LinksFresh,
         SessionsResolve, Owned, Exists, Reachable, Mailed, PointInv, SignupPoint, MailPoint,
         RecordPoint, DeletePoint, SignedOut, NoInvites, NoMachines
  <1>. QED
    BY <1>1, <1>2, <1>3, <1>4, TimeSerial DEF Next

\* The invariant of serial requests holds in every reachable state.
THEOREM SerialHolds == Spec => []SerialInv
  <1>1. SerialInv /\ IInv' /\ [Next]_vars => SerialInv'
    BY StepSerial DEF SerialInv
  <1>. QED
    BY InitSerial, Invariance, <1>1, PTL DEF Spec

\* As long as requests come one at a time, a deletion that is cut off anywhere
\* and repeated leaves no session without its account, nor, if no error was
\* ignored, a machine or an invite, and the expect in invite_approve
\* (pairing.rs) never panics, for any number of accounts.
THEOREM CleanDeletes == Spec => []NothingLeftBehind
  <1>1. SerialInv => NothingLeftBehind
    BY DEF SerialInv, Serial, StoreInv, NothingLeftBehind
  <1>. QED
    BY SerialHolds, <1>1, PTL

\* A signup whose mail fails is rolled back: a pending account was mailed a
\* link of its own (account_signup).
THEOREM NoZombies == Spec => []NoZombie
  <1>1. SerialInv => NoZombie
    BY DEF SerialInv, Serial, Reachable, NoZombie, Mailed, Idle
  <1>. QED
    BY SerialHolds, <1>1, PTL

\* As long as requests come one at a time, an account keeps its UUID and stays
\* active until it is deleted (account_signup, account_verify, reset_password).
THEOREM StableAccounts == Spec => AccountStable
  <1>. DEFINE Stable == ~overlapped' => \A e \in Emails :
                 Exists(e) /\ account'[e] # NoAccount =>
                     /\ account'[e].uuid = account[e].uuid
                     /\ account[e].status = "active" => account'[e].status = "active"
  <1>1. SerialInv /\ [Next]_vars => Stable
    <2>. SUFFICES ASSUME SerialInv, [Next]_vars, ~overlapped' PROVE Stable
      OBVIOUS
    <2>0. TypeOK /\ HandlerInv
      BY DEF SerialInv, IInv
    <2>1. CASE account' = account
      BY <2>1
    <2>2. ASSUME NEW h \in Handlers, SignupSet(h) PROVE Stable
      <3>1. ~overlapped /\ pc[h] = "signup"
        BY <2>2 DEF SignupSet, At, history
      <3>2. ~Exists(loc[h].email)
        BY <3>1 DEF SerialInv, Serial, PointInv, SignupPoint
      <3>. QED
        BY <2>0, <2>2, <3>2 DEF SignupSet, TypeOK
    <2>3. ASSUME NEW h \in Handlers, ClickSet(h) PROVE Stable
      <3>1. ~overlapped /\ pc[h] = "click_set"
        BY <2>3 DEF ClickSet, At, history
      <3>2. loc[h].rec = account[loc[h].email]
        BY <3>1 DEF SerialInv, Serial, PointInv, RecordPoint
      <3>. QED
        BY <2>0, <2>3, <3>2 DEF ClickSet, TypeOK, AccountRecord
    <2>4. ASSUME NEW h \in Handlers, NEW b \in BOOLEAN, UndoAccount(h, b) PROVE Stable
      BY <2>0, <2>4 DEF UndoAccount, TypeOK
    <2>5. ASSUME NEW h \in Handlers, DeleteRecord(h) PROVE Stable
      BY <2>0, <2>5 DEF DeleteRecord, TypeOK
    <2>. HIDE DEF Stable
    <2>6. ASSUME NEW h \in Handlers, MailNext(h) PROVE Stable
      BY <2>6, <2>1, <2>2, <2>3, <2>4 DEF MailNext, Signup, ResendVerification, redis,
           RequestPasswordReset, SetLink, MailSent, MailFails, UndoLink, Click, ClickGet
    <2>7. ASSUME NEW h \in Handlers, SessionNext(h) PROVE Stable
      BY <2>7, <2>1 DEF SessionNext, Login, LoginSet, InviteCreate, AccountDelete, redis,
           InviteApprove, InviteSet, ApproveGet, ApproveUuid, ApproveBurn, ApproveStore, SessionEmail
    <2>8. ASSUME NEW h \in Handlers, DeleteNext(h) PROVE Stable
      BY <2>8, <2>1, <2>5 DEF DeleteNext, DeleteGet, DeleteOwner, SweepStart, SweepEnd, redis,
           DeleteList, DeleteListInvites, DeleteMachine, DeleteInvite, SweepSession
    <2>. QED
      BY <2>1, <2>6, <2>7, <2>8 DEF vars, redis, Next, Abort, EndSession, BoxDials,
         InviteEnds, LinkExpires
  <1>. QED
    BY SerialHolds, <1>1, PTL DEF Spec, AccountStable

=============================================================================
