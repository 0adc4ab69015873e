---------------------------- MODULE PortalProofs ----------------------------
(***************************************************************************)
(* Proofs about Portal for any accounts, sessions, links, invites and      *)
(* machines, and for any of the three surfaces.                            *)
(***************************************************************************)
EXTENDS Portal, TLAPS

AccountRecord == [uuid : Nat, status : {"none", "pending", "active"}]
LinkRecord == [kind : {"none", "verify", "reset"}, email : Emails \cup {None}]
InviteRecord == [owner : Emails \cup {None}, key : Keys \cup {None},
                 status : {"none", "dormant", "waiting", "approved", "denied"}]
MachineRecord == [owner : Int, key : Keys \cup {None}]
ReqRecord == [op : {"none"} \cup ApiForms, email : Emails \cup {None},
             code : Codes \cup {None}, name : Names \cup {None}]

\* Every variable but the page has its type, which no step's effect on the
\* others depends on.
TypeOK ==
    /\ surface \in {"edge", "site", "api"}
    /\ account \in [Emails -> AccountRecord] /\ forgot \subseteq Emails
    /\ link \in [Links -> LinkRecord]
    /\ session \in [Sessions -> Emails \cup {None}] /\ cookie \in Sessions \cup {None}
    /\ invite \in [Codes -> InviteRecord]
    /\ machine \in [Names -> MachineRecord]
    /\ req \in ReqRecord
    /\ uuids \in Nat /\ upsets \in Nat

\* A request that was let in has the email of an account, and a decision is
\* about an invite.
RequestInv ==
    /\ req.op # "none" => req.email \in Emails
    /\ req.op \in {"approve", "deny", "revoke"} => req.code \in Codes

IInv == TypeOK /\ RequestInv


-----------------------------------------------------------------------------
(***************************************************************************)
(* The initial states, and steps that leave what is stored alone.          *)
(***************************************************************************)

\* None is nobody and nothing, and the empty records are records.
LEMMA Constants ==
  /\ None \notin Emails /\ None \notin Codes /\ None \notin Names /\ None \notin Keys
  /\ NoAccount \in AccountRecord /\ NoLink \in LinkRecord /\ NoInvite \in InviteRecord
  /\ NoMachine \in MachineRecord /\ NoReq \in ReqRecord
  /\ NoReq.op = "none" /\ NoInvite.owner = None /\ NoMachine.owner = 0
  <1>1. None \notin Emails /\ None \notin Codes /\ None \notin Names /\ None \notin Keys
    BY Shapes
  <1>. QED
    BY <1>1 DEF NoAccount, NoLink, NoInvite, NoMachine, NoReq, AccountRecord, LinkRecord,
         InviteRecord, MachineRecord, ReqRecord

\* Nothing is stored, nobody is signed in.
LEMMA InitIInv == Init => IInv
  <1>. SUFFICES ASSUME Init PROVE IInv
    OBVIOUS
  <1>1. surface \in {"edge", "site", "api"} /\ req = NoReq
    BY Shapes DEF Init
  <1>2. TypeOK
    BY <1>1, Constants DEF Init, TypeOK
  <1>. QED
    BY <1>1, <1>2, Constants DEF IInv, RequestInv

\* A step that leaves the request alone, or answers it, has only the types of
\* what is stored to keep.
LEMMA KeepsRequest ==
  ASSUME IInv, surface' = surface, req' = req \/ req' = NoReq, forgot' \subseteq Emails,
         cookie' \in Sessions \cup {None}, upsets' = upsets \/ upsets' = upsets + 1,
         account' \in [Emails -> AccountRecord], link' \in [Links -> LinkRecord],
         session' \in [Sessions -> Emails \cup {None}], invite' \in [Codes -> InviteRecord],
         machine' \in [Names -> MachineRecord], uuids' \in Nat
  PROVE  IInv'
  <1>1. upsets' \in Nat
    BY Constants DEF IInv, TypeOK
  <1>2. TypeOK'
    BY <1>1, Constants DEF IInv, TypeOK
  <1>3. RequestInv'
    BY Constants DEF IInv, RequestInv
  <1>. QED
    BY <1>2, <1>3 DEF IInv

\* The same for a step that leaves what is stored alone, too.
LEMMA KeepsStore ==
  ASSUME IInv, surface' = surface, req' = req \/ req' = NoReq,
         UNCHANGED <<forgot, cookie, store>>, upsets' = upsets \/ upsets' = upsets + 1
  PROVE  IInv'
  BY KeepsRequest DEF IInv, TypeOK, store

-----------------------------------------------------------------------------
(***************************************************************************)
(* The person.                                                             *)
(***************************************************************************)

\* The forms and links that change nothing that is stored.
LEMMA PagesKeep ==
  ASSUME IInv
  PROVE  /\ \A at \in Pages, ok \in BOOLEAN : Visit(at, ok) => IInv' /\ req' = req
         /\ VisitMachines => IInv' /\ req' = req
         /\ \A l \in Links : OpenLink(l) => IInv' /\ req' = req
         /\ \A op \in {"signup", "login", "forgot", "resend"} : Fails(op) => IInv' /\ req' = req
         /\ \A err \in {"InvalidEmail", "InvalidPassword"} : SignupInvalid(err) => IInv' /\ req' = req
         /\ ResetInvalid => IInv' /\ req' = req
  <1>1. ASSUME NEW at \in Pages, NEW ok \in BOOLEAN, Visit(at, ok) PROVE IInv' /\ req' = req
    BY <1>1, KeepsStore DEF Visit, Show, Upset
  <1>2. ASSUME VisitMachines PROVE IInv' /\ req' = req
    BY <1>2, KeepsStore DEF VisitMachines, Show
  <1>3. ASSUME NEW l \in Links, OpenLink(l) PROVE IInv' /\ req' = req
    BY <1>3, KeepsStore DEF OpenLink, Show
  <1>4. ASSUME NEW op \in {"signup", "login", "forgot", "resend"}, Fails(op)
        PROVE  IInv' /\ req' = req
    BY <1>4, KeepsStore DEF Fails, Answer, Show, Upset
  <1>5. ASSUME NEW err \in {"InvalidEmail", "InvalidPassword"}, SignupInvalid(err)
        PROVE  IInv' /\ req' = req
    BY <1>5, KeepsStore DEF SignupInvalid, Answer, Show
  <1>6. ASSUME ResetInvalid PROVE IInv' /\ req' = req
    BY <1>6, KeepsStore DEF ResetInvalid, Answer, Show
  <1>. QED
    BY <1>1, <1>2, <1>3, <1>4, <1>5, <1>6

\* A mailed link is for an email.
LEMMA MailTyped ==
  ASSUME TypeOK, NEW kind \in {"verify", "reset"}, NEW e \in Emails, Mail(kind, e)
  PROVE  link' \in [Links -> LinkRecord]
  <1>1. [kind |-> kind, email |-> e] \in LinkRecord
    BY DEF LinkRecord
  <1>. QED
    BY <1>1 DEF Mail, TypeOK

\* The account forms.
LEMMA FormsKeep ==
  ASSUME IInv, NEW e \in Emails, NEW ok \in BOOLEAN
  PROVE  /\ Login(e) => IInv' /\ req' = req
         /\ Signup(e, ok) => IInv' /\ req' = req
         /\ Forgot(e, ok) => IInv' /\ req' = req
         /\ Resend(e, ok) => IInv' /\ req' = req
  <1>1. TypeOK /\ \A op, f, o : Answer(op, f, o) => req' = req
    BY DEF IInv, Answer, Show
  <1>2. ASSUME Login(e) PROVE IInv' /\ req' = req
    <2>1. /\ UNCHANGED <<surface, forgot, account, link, invite, machine, uuids, upsets>>
          /\ req' = req
      BY <1>1, <1>2 DEF Login
    <2>2. session' \in [Sessions -> Emails \cup {None}] /\ cookie' \in Sessions \cup {None}
      <3>1. CASE UNCHANGED <<session, cookie>>
        BY <1>1, <3>1 DEF TypeOK
      <3>2. ASSUME NEW s \in Fresh(Sessions \ {cookie}, {x \in Sessions : session[x] = None}),
                   session' = [session EXCEPT ![s] = e], cookie' = s
            PROVE  session' \in [Sessions -> Emails \cup {None}] /\ cookie' \in Sessions \cup {None}
        BY <1>1, <3>2 DEF TypeOK, Fresh
      <3>. QED
        BY <1>2, <3>1, <3>2 DEF Login
    <2>. QED
      BY <1>1, <2>1, <2>2, KeepsRequest DEF TypeOK
  <1>3. ASSUME Signup(e, ok) PROVE IInv' /\ req' = req
    <2>1. /\ UNCHANGED <<surface, cookie, session, invite, machine>> /\ req' = req
          /\ upsets' = upsets \/ upsets' = upsets + 1
      BY <1>1, <1>3 DEF Signup, Upset
    <2>2. CASE UNCHANGED <<account, forgot, link, uuids>>
      BY <1>1, <2>1, <2>2, KeepsRequest DEF TypeOK
    <2>3. CASE /\ uuids' = uuids + 1 /\ forgot' = forgot \ {e}
               /\ account' = [account EXCEPT ![e] = [uuid |-> uuids + 1, status |-> "pending"]]
               /\ Mail("verify", e)
      <3>1. link' \in [Links -> LinkRecord]
        BY <1>1, <2>3, MailTyped
      <3>2. /\ account' \in [Emails -> AccountRecord] /\ uuids' \in Nat /\ forgot' \subseteq Emails
        BY <1>1, <2>3 DEF TypeOK, AccountRecord
      <3>. QED
        BY <1>1, <2>1, <3>1, <3>2, KeepsRequest DEF TypeOK
    <2>. QED
      BY <1>3, <2>2, <2>3 DEF Signup
  <1>4. ASSUME Forgot(e, ok) PROVE IInv' /\ req' = req
    <2>1. /\ UNCHANGED <<surface, forgot, cookie, account, session, invite, machine, uuids>>
          /\ req' = req /\ (upsets' = upsets \/ upsets' = upsets + 1)
          /\ link' = link \/ Mail("reset", e)
      BY <1>1, <1>4 DEF Forgot, Upset
    <2>2. link' \in [Links -> LinkRecord]
      BY <1>1, <2>1, MailTyped DEF TypeOK
    <2>. QED
      BY <1>1, <2>1, <2>2, KeepsRequest DEF TypeOK
  <1>5. ASSUME Resend(e, ok) PROVE IInv' /\ req' = req
    <2>1. /\ UNCHANGED <<surface, forgot, cookie, account, session, invite, machine, uuids>>
          /\ req' = req /\ (upsets' = upsets \/ upsets' = upsets + 1)
          /\ link' = link \/ Mail("verify", e)
      BY <1>1, <1>5 DEF Resend, Upset
    <2>2. link' \in [Links -> LinkRecord]
      BY <1>1, <2>1, MailTyped DEF TypeOK
    <2>. QED
      BY <1>1, <2>1, <2>2, KeepsRequest DEF TypeOK
  <1>. QED
    BY <1>2, <1>3, <1>4, <1>5

\* Logging out clears the cookie and at most the session it names.
LEMMA LogoutKeeps ==
  ASSUME IInv, NEW ok \in BOOLEAN, Logout(ok)
  PROVE  IInv' /\ req' = req
  <1>1. /\ TypeOK /\ UNCHANGED <<surface, forgot, account, link, invite, machine, uuids>>
        /\ req' = req /\ upsets' = upsets + 1 /\ cookie' = None
    BY DEF IInv, Logout, Show
  <1>2. session' \in [Sessions -> Emails \cup {None}]
    BY <1>1 DEF Logout, TypeOK
  <1>. QED
    BY <1>1, <1>2, KeepsRequest DEF TypeOK

\* Following a link to the end.
LEMMA SpendsKeep ==
  ASSUME IInv
  PROVE  /\ Verify \/ Reset => IInv' /\ req' = req
         /\ \A kind \in {"verify", "reset"} : SpendFails(kind) => IInv' /\ req' = req
  <1>1. TypeOK /\ \A op, f, o : Answer(op, f, o) => req' = req
    BY DEF IInv, Answer, Show
  <1>2. ASSUME NEW l PROVE [link EXCEPT ![l] = NoLink] \in [Links -> LinkRecord]
    BY <1>1, Constants DEF TypeOK
  <1>3. ASSUME NEW f PROVE [account EXCEPT ![f].status = "active"] \in [Emails -> AccountRecord]
    BY <1>1 DEF TypeOK, AccountRecord
  <1>4. ASSUME NEW kind \in {"verify", "reset"}, Spend(kind)
        PROVE  /\ link' \in [Links -> LinkRecord] /\ account' \in [Emails -> AccountRecord]
               /\ forgot' \subseteq Emails /\ req' = req
    BY <1>1, <1>2, <1>3, <1>4 DEF Spend, TypeOK
  <1>5. ASSUME Verify \/ Reset PROVE IInv' /\ req' = req
    <2>1. /\ UNCHANGED <<surface, cookie, session, invite, machine, uuids, upsets>>
          /\ Spend("verify") \/ Spend("reset")
      BY <1>5 DEF Verify, Reset
    <2>. QED
      BY <1>1, <1>4, <2>1, KeepsRequest DEF TypeOK
  <1>6. ASSUME NEW kind \in {"verify", "reset"}, SpendFails(kind) PROVE IInv' /\ req' = req
    <2>1. /\ UNCHANGED <<surface, forgot, cookie, account, session, invite, machine, uuids>>
          /\ req' = req /\ upsets' = upsets + 1
      BY <1>1, <1>6 DEF SpendFails, Upset
    <2>2. link' \in [Links -> LinkRecord]
      BY <1>1, <1>2, <1>6 DEF SpendFails, TypeOK
    <2>. QED
      BY <1>1, <2>1, <2>2, KeepsRequest DEF TypeOK
  <1>. QED
    BY <1>5, <1>6

\* A request that is let in carries the email of the cookie's session.
LEMMA RequestKeeps ==
  ASSUME IInv, NEW op \in ApiForms, NEW c \in Codes \cup {None}, NEW n \in Names \cup {None},
         NEW ok \in BOOLEAN, op \in {"approve", "deny", "revoke"} => c \in Codes,
         Request(op, c, n, ok)
  PROVE  IInv' /\ req = NoReq
  <1>1. TypeOK /\ req = NoReq /\ surface' = surface /\ UNCHANGED <<forgot, cookie, store>>
        /\ (upsets' = upsets \/ upsets' = upsets + 1)
    BY DEF IInv, Request, HasRoom, Upset
  <1>2. CASE req' = req
    BY <1>1, <1>2, KeepsStore
  <1>3. CASE SignedIn /\ req' = [op |-> op, email |-> SessionAccount, code |-> c, name |-> n]
    <2>1. SessionAccount \in Emails
      BY <1>1, <1>3 DEF SignedIn, SessionAccount, TypeOK
    <2>2. req' \in ReqRecord /\ req'.email \in Emails /\ req'.op = op /\ req'.code = c
      BY <1>3, <2>1 DEF ReqRecord
    <2>3. upsets' \in Nat
      BY <1>1, Constants DEF TypeOK
    <2>. QED
      BY <1>1, <2>2, <2>3 DEF IInv, TypeOK, RequestInv, store
  <1>. QED
    BY <1>1, <1>2, <1>3 DEF Request, Show

-----------------------------------------------------------------------------
(***************************************************************************)
(* The rest of the world.                                                  *)
(***************************************************************************)

\* Boxes, operators and the clock leave the request alone.
LEMMA WorldKeeps ==
  ASSUME IInv, World
  PROVE  IInv' /\ req' = req
  <1>1. TypeOK
    BY DEF IInv
  <1>2. ASSUME NEW c \in Codes, NEW k \in Keys, BoxDials(c, k) PROVE IInv' /\ req' = req
    <2>1. /\ UNCHANGED <<surface, forgot, cookie, req, account, link, session, machine, uuids, upsets>>
          /\ invite' = [invite EXCEPT ![c].status = "waiting", ![c].key = k]
      BY <1>2 DEF BoxDials
    <2>2. [invite EXCEPT ![c].status = "waiting"] \in [Codes -> InviteRecord]
      BY <1>1 DEF TypeOK, InviteRecord
    <2>3. \A f \in [Codes -> InviteRecord] : [f EXCEPT ![c].key = k] \in [Codes -> InviteRecord]
      BY DEF InviteRecord
    <2>4. invite' \in [Codes -> InviteRecord]
      BY <2>1, <2>2, <2>3
    <2>. QED
      BY <1>1, <2>1, <2>4, KeepsRequest DEF TypeOK
  <1>3. ASSUME NEW n \in Names, NEW k \in Keys \cup {None}, Operator(n, k) PROVE IInv' /\ req' = req
    <2>1. /\ UNCHANGED <<surface, forgot, cookie, req, account, link, session, invite, uuids>>
          /\ upsets' = upsets + 1
      BY <1>3 DEF Operator
    <2>2. [owner |-> -1, key |-> k] \in MachineRecord /\ NoMachine \in MachineRecord
      BY Constants DEF MachineRecord
    <2>3. [machine[n] EXCEPT !.key = k] \in MachineRecord
      BY <1>1 DEF TypeOK, MachineRecord
    <2>4. machine' \in [Names -> MachineRecord]
      BY <1>1, <1>3, <2>2, <2>3 DEF Operator, TypeOK
    <2>. QED
      BY <1>1, <2>1, <2>4, KeepsRequest DEF TypeOK
  <1>4. ASSUME Expire PROVE IInv' /\ req' = req
    <2>1. UNCHANGED <<surface, cookie, req, account, machine, uuids>> /\ upsets' = upsets + 1
      BY <1>4 DEF Expire
    <2>2. /\ link' \in [Links -> LinkRecord] /\ session' \in [Sessions -> Emails \cup {None}]
          /\ invite' \in [Codes -> InviteRecord] /\ forgot' \subseteq Emails
      BY <1>1, <1>4, Constants DEF Expire, TypeOK
    <2>. QED
      BY <1>1, <2>1, <2>2, KeepsRequest DEF TypeOK
  <1>. QED
    BY <1>2, <1>3, <1>4 DEF World

\* Every step of the person leaves the request alone, or starts one where there
\* was none.
LEMMA PersonKeeps ==
  ASSUME IInv, Person
  PROVE  IInv' /\ (req' = req \/ req = NoReq)
  <1>1. ASSUME NEW op \in {"create", "list", "delete"}, NEW ok \in BOOLEAN, Request(op, None, None, ok)
        PROVE  IInv' /\ req = NoReq
    BY <1>1, RequestKeeps DEF ApiForms
  <1>2. ASSUME NEW op \in {"deny", "revoke"}, NEW c \in Codes, Request(op, c, None, TRUE)
        PROVE  IInv' /\ req = NoReq
    BY <1>2, RequestKeeps DEF ApiForms
  <1>3. ASSUME NEW c \in Codes, NEW n \in Names \cup {None}, Request("approve", c, n, TRUE)
        PROVE  IInv' /\ req = NoReq
    BY <1>3, RequestKeeps DEF ApiForms
  <1>. QED
    BY <1>1, <1>2, <1>3, PagesKeep, FormsKeep, LogoutKeeps, SpendsKeep DEF Person

-----------------------------------------------------------------------------
(***************************************************************************)
(* The server.                                                             *)
(***************************************************************************)

\* What ActsAsSignedIn says of a step that answers a request.
Acts ==
    LET e == req.email
    IN  /\ \A c \in Codes : invite'[c] # invite[c] =>
                {invite[c].owner, invite'[c].owner} \subseteq {None, e}
        /\ \A f \in Emails : account'[f] # account[f] => f = e
        /\ \A s \in Sessions : session'[s] # session[s] => session[s] = e
        /\ \A n \in Names : machine'[n] # machine[n] =>
                {Owner(n), Owner(n)'} \subseteq {0, account[e].uuid} \/ Rekeyed(n)
        /\ page' # page /\ page'.status \in 400..499 =>
                /\ UNCHANGED <<account, session, invite>>
                /\ \A n \in Names : machine'[n] = machine[n] \/ Rekeyed(n)

\* The pages that report success have a status that says so.
LEMMA Statuses ==
  /\ \A at : Page(at).status = 200
  /\ \A n : Status(n).status = n
  /\ Redirected.status = 200
  BY DEF Page, Status, Redirected, Machines

\* A request that is answered with "ok" shows a page that does not report an error.
LEMMA OkIsNoError ==
  ASSUME TypeOK, NEW n \in {200, 201, 204}, Finish(n, "ok")
  PROVE  req' = NoReq /\ (page' = page \/ page'.status \in {200, 201, 204})
  <1>1. CASE surface = "edge"
    BY <1>1, Statuses DEF Finish, Reply, EdgeReply
  <1>2. CASE surface = "site"
    BY <1>2, Statuses DEF Finish, Reply, SiteReply
  <1>3. CASE surface = "api"
    BY <1>3, Statuses DEF Finish, Reply, ApiReply
  <1>. QED
    BY <1>1, <1>2, <1>3 DEF TypeOK

\* A step that leaves the store alone acts for nobody.
LEMMA ActsForNobody ==
  ASSUME UNCHANGED store
  PROVE  Acts
  BY DEF Acts, Owner, store

\* Only the owner of an invite is not refused.
LEMMA RefusesOthers ==
  Refusal = "ok" => invite[req.code] # NoInvite /\ invite[req.code].owner = req.email
  BY DEF Refusal

\* invite_create writes an invite that is free, for the account of the request.
LEMMA CreateActs ==
  ASSUME IInv, NEW c \in Codes, InviteCreate(c)
  PROVE  IInv' /\ Acts
  <1>1. /\ TypeOK /\ req.op = "create" /\ invite[c] = NoInvite /\ req' = NoReq
        /\ UNCHANGED <<surface, forgot, cookie, account, link, session, machine, uuids, upsets>>
        /\ page' = page \/ page'.status \in {200, 201, 204}
    BY OkIsNoError DEF IInv, InviteCreate
  <1>. DEFINE new == [owner |-> req.email, status |-> "dormant", key |-> None]
  <1>2. new \in InviteRecord /\ new.owner = req.email
    BY <1>1 DEF TypeOK, ReqRecord, InviteRecord
  <1>3. invite' = [invite EXCEPT ![c] = new]
    BY DEF InviteCreate
  <1>. HIDE DEF new
  <1>4. invite' \in [Codes -> InviteRecord]
    BY <1>1, <1>2, <1>3 DEF TypeOK
  <1>5. IInv'
    BY <1>1, <1>4, KeepsRequest DEF TypeOK
  <1>6. \A d \in Codes : invite'[d] # invite[d] =>
            {invite[d].owner, invite'[d].owner} \subseteq {None, req.email}
    BY <1>1, <1>2, <1>3, Constants DEF TypeOK
  <1>7. ~(page' # page /\ page'.status \in 400..499)
    BY <1>1
  <1>. QED
    BY <1>1, <1>5, <1>6, <1>7 DEF Acts, Owner

\* invite_deny and invite_revoke change an invite of that account, or nothing.
LEMMA DecideActs ==
  ASSUME IInv, InviteDecide
  PROVE  IInv' /\ Acts
  <1>1. /\ TypeOK /\ req' = NoReq
        /\ UNCHANGED <<surface, forgot, cookie, account, link, session, machine, uuids, upsets>>
    BY DEF IInv, InviteDecide, Finish, Reply
  <1>2. CASE Refusal # "ok"
    <2>1. UNCHANGED store
      BY <1>1, <1>2 DEF InviteDecide, store
    <2>. QED
      BY <1>1, <2>1, KeepsStore, ActsForNobody
  <1>3. CASE Refusal = "ok"
    <2>. DEFINE i == invite[req.code]
                new == IF req.op = "revoke" THEN NoInvite ELSE [i EXCEPT !.status = "denied"]
    <2>1. invite' = [invite EXCEPT ![req.code] = new] /\ Finish(204, "ok")
      BY <1>3 DEF InviteDecide
    <2>2. i.owner = req.email
      BY <1>3, RefusesOthers
    <2>3. ASSUME req.code \in Codes PROVE new \in InviteRecord /\ new.owner \in {None, req.email}
      <3>1. i \in InviteRecord
        BY <1>1, <2>3 DEF TypeOK
      <3>2. [i EXCEPT !.status = "denied"] \in InviteRecord
            /\ [i EXCEPT !.status = "denied"].owner = i.owner
        BY <3>1 DEF InviteRecord
      <3>. QED
        BY <2>2, <3>2, Constants
    <2>. HIDE DEF new
    <2>4. invite' \in [Codes -> InviteRecord]
      BY <1>1, <2>1, <2>3 DEF TypeOK
    <2>5. IInv'
      BY <1>1, <2>4, KeepsRequest DEF TypeOK
    <2>6. \A d \in Codes : invite'[d] # invite[d] =>
              {invite[d].owner, invite'[d].owner} \subseteq {None, req.email}
      BY <1>1, <2>1, <2>2, <2>3 DEF TypeOK
    <2>7. ~(page' # page /\ page'.status \in 400..499)
      <3>1. page' = page \/ page'.status \in {200, 201, 204}
        BY <1>1, <2>1, OkIsNoError
      <3>. QED
        BY <3>1
    <2>. QED
      BY <1>1, <2>5, <2>6, <2>7 DEF Acts, Owner
  <1>. QED
    BY <1>2, <1>3

\* allocate_machine makes a machine of the account under a free name, and rekeys
\* the machine that has the name otherwise.
LEMMA AllocatedIs ==
  ASSUME IInv, req.op = "approve", req.name \in Names, Refusal = "ok", machine' = Allocated
  PROVE  /\ machine' \in [Names -> MachineRecord]
         /\ \A n \in Names : machine'[n] # machine[n] =>
              {Owner(n), Owner(n)'} \subseteq {0, account[req.email].uuid} \/ Rekeyed(n)
         /\ machine[req.name] # NoMachine =>
              \A n \in Names : machine'[n] = machine[n] \/ Rekeyed(n)
  <1>. DEFINE i == invite[req.code]
              new == [owner |-> account[req.email].uuid, key |-> i.key]
              old == [machine[req.name] EXCEPT !.key = i.key]
  <1>1. TypeOK /\ req.code \in Codes /\ req.email \in Emails
    BY DEF IInv, RequestInv
  <1>2. i \in InviteRecord /\ account[req.email] \in AccountRecord /\ machine[req.name] \in MachineRecord
    BY <1>1 DEF TypeOK
  <1>3. i.owner = req.email
    BY RefusesOthers
  <1>4. new \in MachineRecord /\ new.owner = account[req.email].uuid /\ old \in MachineRecord
    BY <1>2 DEF MachineRecord, InviteRecord, AccountRecord
  <1>5. machine' = [machine EXCEPT ![req.name] = IF machine[req.name] = NoMachine THEN new ELSE old]
    BY <1>1 DEF Allocated, TypeOK
  <1>6. machine[req.name] # NoMachine => machine'[req.name] = old
    BY <1>1, <1>5 DEF TypeOK
  <1>7. machine[req.name] # NoMachine => Rekeyed(req.name)
    BY <1>3, <1>6 DEF Rekeyed
  <1>. HIDE DEF new, old
  <1>8. machine' \in [Names -> MachineRecord] /\ \A n \in Names : n # req.name => machine'[n] = machine[n]
    BY <1>1, <1>4, <1>5 DEF TypeOK
  <1>9. machine[req.name] = NoMachine => machine'[req.name] = new
    BY <1>1, <1>5 DEF TypeOK
  <1>. QED
    BY <1>4, <1>7, <1>8, <1>9, Constants DEF Owner

\* invite_approve marks an invite of that account and gives it a machine whose
\* name was free; under a name that is taken only the key changes, not the owner.
LEMMA ApproveActs ==
  ASSUME IInv, InviteApprove
  PROVE  IInv' /\ Acts
  <1>. DEFINE i == invite[req.code]
              outcome == IF Refusal # "ok" THEN Refusal
                         ELSE IF machine[req.name] # NoMachine THEN "NameTaken" ELSE "ok"
  <1>1. /\ TypeOK /\ req' = NoReq /\ req.code \in Codes /\ req.name \in Names /\ req.email \in Emails
        /\ req.op = "approve"
        /\ UNCHANGED <<surface, forgot, cookie, account, link, session, uuids, upsets>>
    BY DEF IInv, TypeOK, ReqRecord, RequestInv, InviteApprove, Finish, Reply
  <1>2. i \in InviteRecord
    BY <1>1 DEF TypeOK
  <1>3. CASE outcome = "ok"
    <2>1. /\ invite' = [invite EXCEPT ![req.code].status = "approved"]
          /\ machine' = Allocated /\ Finish(200, "ok") /\ Refusal = "ok"
      BY <1>3 DEF InviteApprove
    <2>2. i.owner = req.email
      BY <2>1, RefusesOthers
    <2>3. /\ machine' \in [Names -> MachineRecord]
          /\ \A n \in Names : machine'[n] # machine[n] =>
               {Owner(n), Owner(n)'} \subseteq {0, account[req.email].uuid} \/ Rekeyed(n)
      BY <1>1, <2>1, AllocatedIs
    <2>4. /\ [i EXCEPT !.status = "approved"] \in InviteRecord
          /\ [i EXCEPT !.status = "approved"].owner = i.owner
      BY <1>2 DEF InviteRecord
    <2>5. /\ invite' \in [Codes -> InviteRecord]
          /\ \A d \in Codes : invite'[d].owner = invite[d].owner /\ (d # req.code => invite'[d] = invite[d])
      BY <1>1, <2>1, <2>4 DEF TypeOK, InviteRecord
    <2>6. IInv'
      BY <1>1, <2>3, <2>5, KeepsRequest DEF TypeOK
    <2>7. ~(page' # page /\ page'.status \in 400..499)
      <3>1. page' = page \/ page'.status \in {200, 201, 204}
        BY <1>1, <2>1, OkIsNoError
      <3>. QED
        BY <3>1
    <2>8. \A d \in Codes : invite'[d] # invite[d] =>
              {invite[d].owner, invite'[d].owner} \subseteq {None, req.email}
      BY <2>2, <2>5
    <2>. QED
      BY <1>1, <2>3, <2>6, <2>7, <2>8 DEF Acts
  <1>4. CASE outcome # "ok"
    <2>1. /\ invite' = invite
          /\ \/ machine' = machine
             \/ machine' = Allocated /\ Refusal = "ok" /\ machine[req.name] # NoMachine
      BY <1>4 DEF InviteApprove
    <2>2. /\ machine' \in [Names -> MachineRecord]
          /\ \A n \in Names : machine'[n] = machine[n] \/ Rekeyed(n)
      BY <1>1, <2>1, AllocatedIs DEF TypeOK
    <2>3. IInv'
      BY <1>1, <2>1, <2>2, KeepsRequest DEF TypeOK
    <2>. QED
      BY <1>1, <2>1, <2>2, <2>3 DEF Acts
  <1>. QED
    BY <1>3, <1>4

\* Taking some of what an account has changes nothing of another's.
LEMMA TakesOwn ==
  ASSUME IInv, NEW e \in Emails, NEW ms \in SUBSET MachinesOf(e), Unwire(ms),
         NEW cs \in SUBSET InvitesOf(e), Revoke(cs), NEW ss \in SUBSET SessionsOf(e), SignOut(ss)
  PROVE  /\ machine' \in [Names -> MachineRecord] /\ invite' \in [Codes -> InviteRecord]
         /\ session' \in [Sessions -> Emails \cup {None}]
         /\ \A c \in Codes : invite'[c] # invite[c] =>
              {invite[c].owner, invite'[c].owner} \subseteq {None, e}
         /\ \A s \in Sessions : session'[s] # session[s] => session[s] = e
         /\ \A n \in Names : machine'[n] # machine[n] =>
              {Owner(n), Owner(n)'} \subseteq {0, account[e].uuid}
  <1>1. TypeOK
    BY DEF IInv
  <1>2. /\ machine' \in [Names -> MachineRecord]
        /\ \A n \in Names : machine'[n] # machine[n] =>
              {machine[n].owner, machine'[n].owner} \subseteq {0, account[e].uuid}
    BY <1>1, Constants DEF Unwire, MachinesOf, TypeOK
  <1>3. /\ invite' \in [Codes -> InviteRecord]
        /\ \A c \in Codes : invite'[c] # invite[c] =>
              {invite[c].owner, invite'[c].owner} \subseteq {None, e}
    BY <1>1, Constants DEF Revoke, InvitesOf, TypeOK
  <1>4. /\ session' \in [Sessions -> Emails \cup {None}]
        /\ \A s \in Sessions : session'[s] # session[s] => session[s] = e
    BY <1>1 DEF SignOut, SessionsOf, TypeOK
  <1>. QED
    BY <1>2, <1>3, <1>4 DEF Owner

\* account_delete takes what is of that account, and nothing else.
LEMMA DeleteActs ==
  ASSUME IInv, AccountDelete
  PROVE  IInv' /\ Acts
  <1>. DEFINE e == req.email
  <1>1. TypeOK /\ surface' = surface /\ req' = NoReq /\ UNCHANGED <<forgot, link, uuids>>
        /\ req.email \in Emails
    BY DEF IInv, RequestInv, AccountDelete, Reply
  <1>2. CASE Exists(e)
    <2>1. /\ upsets' = upsets + 1
          /\ account' = [account EXCEPT ![e] = NoAccount]
          /\ cookie' = IF surface = "api" THEN cookie ELSE None
          /\ Reply(IF surface = "api" THEN Status(200) ELSE Page("home"))
      BY <1>2 DEF AccountDelete
    <2>2. /\ machine' \in [Names -> MachineRecord] /\ invite' \in [Codes -> InviteRecord]
          /\ session' \in [Sessions -> Emails \cup {None}]
          /\ \A c \in Codes : invite'[c] # invite[c] =>
               {invite[c].owner, invite'[c].owner} \subseteq {None, e}
          /\ \A s \in Sessions : session'[s] # session[s] => session[s] = e
          /\ \A n \in Names : machine'[n] # machine[n] =>
               {Owner(n), Owner(n)'} \subseteq {0, account[e].uuid}
      <3>1. PICK ms \in SUBSET MachinesOf(e) : Unwire(ms)
        BY <1>2 DEF AccountDelete
      <3>2. PICK cs \in SUBSET InvitesOf(e) : Revoke(cs)
        BY <1>2 DEF AccountDelete
      <3>3. SignOut(SessionsOf(e)) /\ SessionsOf(e) \in SUBSET SessionsOf(e) /\ e \in Emails
        BY <1>1, <1>2 DEF AccountDelete
      <3>. HIDE DEF e
      <3>. QED
        BY <3>1, <3>2, <3>3, TakesOwn
    <2>3. account' \in [Emails -> AccountRecord] /\ cookie' \in Sessions \cup {None}
      BY <1>1, <2>1, Constants DEF TypeOK
    <2>4. IInv'
      BY <1>1, <2>1, <2>2, <2>3, KeepsRequest DEF TypeOK
    <2>5. \A f \in Emails : account'[f] # account[f] => f = e
      BY <1>1, <2>1 DEF TypeOK
    <2>7. page' = page \/ page'.status = 200
      BY <2>1, Statuses DEF Reply
    <2>8. ~(page' # page /\ page'.status \in 400..499)
      BY <2>7
    <2>. QED
      BY <2>2, <2>4, <2>5, <2>8 DEF Acts
  <1>3. CASE ~Exists(e)
    <2>1. UNCHANGED <<account, machine, invite, session, cookie, upsets>>
      BY <1>3 DEF AccountDelete
    <2>2. UNCHANGED store
      BY <1>1, <2>1 DEF store
    <2>. QED
      BY <1>1, <2>1, <2>2, KeepsStore, ActsForNobody
  <1>. QED
    BY <1>2, <1>3

\* A request that the store fails has done part of what it would do, and the
\* answer is no refusal.
LEMMA FailsActs ==
  ASSUME IInv, RequestFails
  PROVE  IInv' /\ Acts
  <1>1. /\ TypeOK /\ req' = NoReq /\ upsets' = upsets + 1
        /\ UNCHANGED <<surface, forgot, cookie, account, link, uuids>>
    BY DEF IInv, RequestFails, Reply, Upset
  <1>2. ~(page' # page /\ page'.status \in 400..499)
    <2>1. page' = page \/ page'.status = 200 \/ page'.status = 500
      <3>1. CASE surface = "api"
        BY <3>1, Statuses DEF RequestFails, Reply
      <3>2. CASE surface = "edge"
        BY <3>2, Statuses DEF RequestFails, Reply
      <3>3. CASE surface = "site"
        BY <3>3, Statuses DEF RequestFails, Reply
      <3>. QED
        BY <1>1, <3>1, <3>2, <3>3 DEF TypeOK
    <2>. QED
      BY <2>1
  <1>3. CASE req.op = "delete"
    <2>. DEFINE e == req.email
    <2>1. DeleteFails /\ e \in Emails
      BY <1>3 DEF RequestFails, IInv, RequestInv
    <2>2. PICK ms \in SUBSET MachinesOf(e) : Unwire(ms)
      BY <2>1 DEF DeleteFails
    <2>3. PICK cs \in SUBSET InvitesOf(e), ss \in SUBSET SessionsOf(e) : Revoke(cs) /\ SignOut(ss)
      BY <2>1 DEF DeleteFails
    <2>4. /\ machine' \in [Names -> MachineRecord] /\ invite' \in [Codes -> InviteRecord]
          /\ session' \in [Sessions -> Emails \cup {None}]
          /\ \A c \in Codes : invite'[c] # invite[c] =>
               {invite[c].owner, invite'[c].owner} \subseteq {None, e}
          /\ \A s \in Sessions : session'[s] # session[s] => session[s] = e
          /\ \A n \in Names : machine'[n] # machine[n] =>
               {Owner(n), Owner(n)'} \subseteq {0, account[e].uuid}
      <3>. HIDE DEF e
      <3>. QED
        BY <2>1, <2>2, <2>3, TakesOwn
    <2>5. IInv'
      BY <1>1, <2>4, KeepsRequest DEF TypeOK
    <2>. QED
      BY <1>1, <1>2, <2>4, <2>5 DEF Acts
  <1>4. CASE req.op = "approve"
    <2>1. ApproveFails
      BY <1>4 DEF RequestFails
    <2>2. /\ UNCHANGED <<invite, session>>
          /\ machine' = machine \/ (machine' = Allocated /\ req.name # None /\ Refusal = "ok")
      BY <2>1 DEF ApproveFails
    <2>3. /\ machine' \in [Names -> MachineRecord]
          /\ \A n \in Names : machine'[n] # machine[n] =>
               {Owner(n), Owner(n)'} \subseteq {0, account[req.email].uuid} \/ Rekeyed(n)
      <3>1. CASE machine' = machine
        BY <1>1, <3>1 DEF TypeOK
      <3>2. CASE machine' = Allocated /\ req.name # None /\ Refusal = "ok"
        <4>1. req.name \in Names
          BY <1>1, <3>2 DEF TypeOK, ReqRecord
        <4>. QED
          BY <1>4, <3>2, <4>1, AllocatedIs
      <3>. QED
        BY <2>2, <3>1, <3>2
    <2>4. IInv'
      BY <1>1, <2>2, <2>3, KeepsRequest DEF TypeOK
    <2>. QED
      BY <1>1, <1>2, <2>2, <2>3, <2>4 DEF Acts
  <1>5. CASE req.op \notin {"delete", "approve"}
    <2>1. UNCHANGED <<machine, invite, session>>
      BY <1>5 DEF RequestFails
    <2>2. UNCHANGED store
      BY <1>1, <2>1 DEF store
    <2>. QED
      BY <1>1, <2>2, KeepsStore, ActsForNobody
  <1>. QED
    BY <1>3, <1>4, <1>5

\* Whatever the server does with a request, it does for that account.
LEMMA ServeActs ==
  ASSUME IInv, Serve
  PROVE  IInv' /\ Acts
  <1>1. ASSUME InviteList PROVE IInv' /\ Acts
    BY <1>1, KeepsStore, ActsForNobody DEF InviteList, Finish, Reply
  <1>2. ASSUME ApproveInvalid PROVE IInv' /\ Acts
    <2>1. surface' = surface /\ req' = NoReq /\ UNCHANGED <<forgot, cookie, store, upsets>>
      BY <1>2 DEF ApproveInvalid, Finish, Reply
    <2>. QED
      BY <2>1, KeepsStore, ActsForNobody
  <1>3. ASSUME Unconfirmed PROVE IInv' /\ Acts
    BY <1>3, KeepsStore, ActsForNobody DEF Unconfirmed, Reply
  <1>4. ASSUME RequestFails PROVE IInv' /\ Acts
    BY <1>4, FailsActs
  <1>. QED
    BY <1>1, <1>2, <1>3, <1>4, CreateActs, DecideActs, ApproveActs, DeleteActs DEF Serve

-----------------------------------------------------------------------------
(***************************************************************************)
(* The theorems.                                                           *)
(***************************************************************************)

\* Every step keeps the invariant, and one that answers a request acts for the
\* account of the request.
LEMMA StepActs ==
  ASSUME IInv, [Next]_vars
  PROVE  IInv' /\ (req # NoReq /\ req' = NoReq => Acts)
  <1>1. CASE World
    BY <1>1, WorldKeeps
  <1>2. CASE Person
    BY <1>2, PersonKeeps
  <1>3. CASE Serve
    BY <1>3, ServeActs
  <1>4. CASE UNCHANGED vars
    <2>1. UNCHANGED <<surface, forgot, cookie, req, upsets, store>>
      BY <1>4 DEF vars
    <2>. QED
      BY <2>1, KeepsStore
  <1>. QED
    BY <1>1, <1>2, <1>3, <1>4 DEF Next

\* A request under way names an account and, where it decides, an invite, and
\* everything that is stored has its type.
THEOREM Invariance == Spec => []IInv
  <1>1. Init => IInv
    BY InitIInv
  <1>2. IInv /\ [Next]_vars => IInv'
    BY StepActs
  <1>. QED
    BY <1>1, <1>2, PTL DEF Spec

\* On every surface, whatever other tabs, boxes, operators and the clock do
\* between the moment a request's session is resolved and the moment the request
\* acts, it changes nobody's invites, account, sessions or machines but those of
\* the account the session named, and a request that the API refuses changes none
\* of them, but for the key of the machine whose name an approval found taken.
THEOREM ActsForSession == Spec => ActsAsSignedIn
  <1>1. IInv /\ [Next]_vars => [req # NoReq /\ req' = NoReq => Acts]_vars
    BY StepActs
  <1>2. Spec => [][req # NoReq /\ req' = NoReq => Acts]_vars
    BY <1>1, Invariance, PTL DEF Spec
  <1>. QED
    BY <1>2 DEF ActsAsSignedIn, Acts

=============================================================================
