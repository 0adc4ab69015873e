------------------------------ MODULE Accounts ------------------------------
(***************************************************************************)
(* Accounts, mailed links and sessions on the edge                         *)
(* (crates/controlplane/src/controlplane/account.rs), with the two invite  *)
(* handlers that rely on a session (pairing.rs).                           *)
(*                                                                         *)
(* A request handler is a sequence of awaited Redis commands and one mail  *)
(* transaction; one action is one of them, and other handlers run in       *)
(* between.  Emails are in canonical form; passwords are left out, so a    *)
(* login here is one with the right password and a reset writes back what  *)
(* it read.  Keys with a TTL may expire at any time.                       *)
(***************************************************************************)
EXTENDS Integers

CONSTANTS
    Emails, NoEmail,
    Handlers,     \* concurrent requests
    Sessions,     \* session tokens
    Machines,     \* machine names
    Codes, NoCode,\* invite codes
    MaxUuids,     \* bound on the account UUIDs generated
    MaxLinks,     \* bound on the magic links generated
    MaxAborts,    \* bound on requests cut off by a Redis error or a restart
    MaxFaults     \* bound on failures the code logs or ignores

ASSUME Absent == NoEmail \notin Emails /\ NoCode \notin Codes
ASSUME Bounds == {MaxUuids, MaxLinks, MaxAborts, MaxFaults} \subseteq Nat

VARIABLES
    account,    \* Redis: fortress:account:{email}
    link,       \* Redis: fortress:verify:{token}, fortress:reset:{token}
    session,    \* Redis: fortress:session:{token} -> email
    machine,    \* the owner UUID of each machine's record, 0 without a record
    invite,     \* Redis: fortress:invite:{code}
    uuids,      \* UUIDs generated so far
    links,      \* links generated so far
    pc, loc,    \* where each handler is, and its local variables
    aborts, faults,
    panicked,   \* has the expect in invite_approve failed?
    verified,   \* history: emails whose owner has followed a verify link
    overlapped  \* history: has a request started while another was running?

redis == <<account, link, session, machine, invite>>
vars == <<account, link, session, machine, invite, uuids, links, pc, loc,
          aborts, faults, panicked, verified, overlapped>>

-----------------------------------------------------------------------------
NoAccount == [uuid |-> 0, status |-> "none"]
AccountRecord == [uuid : 0..MaxUuids, status : {"none", "pending", "active"}]
Exists(e) == account[e] # NoAccount

NoLink == [kind |-> "none", email |-> NoEmail, acct |-> 0, live |-> FALSE, sent |-> FALSE]
NoInvite == [owner |-> NoEmail, status |-> "none"]

\* What a handler remembers between two commands.
NoLoc == [op |-> "none", email |-> NoEmail, rec |-> NoAccount, id |-> 0,
          code |-> NoCode, todo |-> {}]

Idle(h) == pc[h] = "idle"
At(h, p) == pc[h] = p
Go(h, p, l) == pc' = [pc EXCEPT ![h] = p] /\ loc' = [loc EXCEPT ![h] = l]
Return(h) == Go(h, "idle", NoLoc)

\* A request arrives and its first command has been executed.
Start(h, p, l) ==
    /\ Idle(h)
    /\ Go(h, p, l)
    /\ overlapped' = (overlapped \/ \E g \in Handlers \ {h} : ~Idle(g))

\* A command that succeeds, or whose failure the code logs or ignores.
Swallow(ok) ==
    /\ ok \/ faults < MaxFaults
    /\ faults' = IF ok THEN faults ELSE faults + 1

Init ==
    /\ account = [e \in Emails |-> NoAccount]
    /\ link = [i \in 1..MaxLinks |-> NoLink]
    /\ session = [s \in Sessions |-> NoEmail]
    /\ machine = [m \in Machines |-> 0]
    /\ invite = [c \in Codes |-> NoInvite]
    /\ uuids = 0 /\ links = 0
    /\ pc = [h \in Handlers |-> "idle"]
    /\ loc = [h \in Handlers |-> NoLoc]
    /\ aborts = 0 /\ faults = 0
    /\ panicked = FALSE /\ verified = {} /\ overlapped = FALSE

history == <<panicked, verified, overlapped>>
counts == <<uuids, links, aborts, faults>>

-----------------------------------------------------------------------------
(* Signup, resend and forgot: mail a link                                  *)

\* Mutant: the duplicate check is forgotten.
SignupUnchecked(h, e) ==
    /\ Start(h, "signup", [NoLoc EXCEPT !.op = "signup", !.email = e])
    /\ UNCHANGED <<redis, counts, panicked, verified>>

\* EXISTS; a duplicate is rejected.
Signup(h, e) ==
    /\ ~Exists(e)
    /\ Start(h, "signup", [NoLoc EXCEPT !.op = "signup", !.email = e])
    /\ UNCHANGED <<redis, counts, panicked, verified>>

\* A plain SET, some hundred milliseconds of bcrypt later.
SignupSet(h) ==
    /\ At(h, "signup") /\ uuids < MaxUuids
    /\ uuids' = uuids + 1
    /\ LET rec == [uuid |-> uuids + 1, status |-> "pending"]
       IN  /\ account' = [account EXCEPT ![loc[h].email] = rec]
           /\ Go(h, "link", [loc[h] EXCEPT !.rec = rec])
    /\ UNCHANGED <<link, session, machine, invite, links, aborts, faults, history>>

ResendVerification(h, e) ==
    /\ account[e].status = "pending"
    /\ Start(h, "link", [NoLoc EXCEPT !.op = "resend", !.email = e, !.rec = account[e]])
    /\ UNCHANGED <<redis, counts, panicked, verified>>

RequestPasswordReset(h, e) ==
    /\ Exists(e)
    /\ Start(h, "link", [NoLoc EXCEPT !.op = "forgot", !.email = e])
    /\ UNCHANGED <<redis, counts, panicked, verified>>

\* acct, the account the link was made for, is only read by properties.
SetLink(h) ==
    /\ At(h, "link") /\ links < MaxLinks
    /\ links' = links + 1
    /\ link' = [link EXCEPT ![links + 1] =
                 [kind |-> IF loc[h].op = "forgot" THEN "reset" ELSE "verify",
                  email |-> loc[h].email, acct |-> loc[h].rec.uuid,
                  live |-> TRUE, sent |-> FALSE]]
    /\ Go(h, "mail", [loc[h] EXCEPT !.id = links + 1])
    /\ UNCHANGED <<account, session, machine, invite, uuids, aborts, faults, history>>

MailSent(h) ==
    /\ At(h, "mail")
    /\ link' = [link EXCEPT ![loc[h].id].sent = TRUE]
    /\ Return(h)
    /\ UNCHANGED <<account, session, machine, invite, counts, history>>

\* Mutant: a signup whose mail fails is not rolled back.
MailFailsKeeps(h, arrives) ==
    /\ At(h, "mail")
    /\ link' = [link EXCEPT ![loc[h].id].sent = arrives]
    /\ Return(h)
    /\ UNCHANGED <<account, session, machine, invite, counts, history>>

\* The mailer reports an error; the message may have gone out all the same.
\* Only a signup is rolled back.
MailFails(h, arrives) ==
    /\ At(h, "mail")
    /\ link' = [link EXCEPT ![loc[h].id].sent = arrives]
    /\ IF loc[h].op = "signup" THEN Go(h, "undo", loc[h]) ELSE Return(h)
    /\ UNCHANGED <<account, session, machine, invite, counts, history>>

UndoAccount(h, ok) ==
    /\ At(h, "undo")
    /\ Swallow(ok)
    /\ account' = [account EXCEPT ![loc[h].email] = IF ok THEN NoAccount ELSE @]
    /\ Go(h, "undo_link", loc[h])
    /\ UNCHANGED <<link, session, machine, invite, uuids, links, aborts, history>>

UndoLink(h, ok) ==
    /\ At(h, "undo_link")
    /\ Swallow(ok)
    /\ link' = [link EXCEPT ![loc[h].id].live = IF ok THEN FALSE ELSE @]
    /\ Return(h)
    /\ UNCHANGED <<account, session, machine, invite, uuids, links, aborts, history>>

-----------------------------------------------------------------------------
(* Following a link: account_verify and reset_password                     *)

\* GETDEL: whoever got the mail presents the token.
Click(h, i) ==
    /\ link[i].live /\ link[i].sent
    /\ link' = [link EXCEPT ![i].live = FALSE]
    /\ verified' = IF link[i].kind = "verify" THEN verified \cup {link[i].email} ELSE verified
    /\ Start(h, "click", [NoLoc EXCEPT !.op = link[i].kind, !.email = link[i].email])
    /\ UNCHANGED <<account, session, machine, invite, counts, panicked>>

ClickGet(h) ==
    /\ At(h, "click")
    /\ IF Exists(loc[h].email)
       THEN Go(h, "click_set", [loc[h] EXCEPT !.rec = account[loc[h].email]])
       ELSE Return(h)
    /\ UNCHANGED <<redis, counts, history>>

\* Mutant: a password reset activates, too.
ClickSetActivates(h) ==
    /\ At(h, "click_set")
    /\ account' = [account EXCEPT ![loc[h].email] = [loc[h].rec EXCEPT !.status = "active"]]
    /\ Return(h)
    /\ UNCHANGED <<link, session, machine, invite, counts, history>>

\* The record as it was read, with a new status (verify) or password (reset).
ClickSet(h) ==
    /\ At(h, "click_set")
    /\ account' = [account EXCEPT ![loc[h].email] =
                    IF loc[h].op = "verify" THEN [loc[h].rec EXCEPT !.status = "active"]
                    ELSE loc[h].rec]
    /\ Return(h)
    /\ UNCHANGED <<link, session, machine, invite, counts, history>>

-----------------------------------------------------------------------------
(* Login and logout                                                        *)

Login(h, e) ==
    /\ account[e].status = "active"
    /\ Start(h, "login", [NoLoc EXCEPT !.email = e])
    /\ UNCHANGED <<redis, counts, panicked, verified>>

LoginSet(h, s) ==
    /\ At(h, "login") /\ session[s] = NoEmail
    /\ session' = [session EXCEPT ![s] = loc[h].email]
    /\ Return(h)
    /\ UNCHANGED <<account, link, machine, invite, counts, history>>

\* account_logout, or the session's TTL.
EndSession(s) ==
    /\ session[s] # NoEmail
    /\ session' = [session EXCEPT ![s] = NoEmail]
    /\ UNCHANGED <<account, link, machine, invite, counts, pc, loc, history>>

-----------------------------------------------------------------------------
(* Invites of a session's account                                          *)

\* The handlers below start by resolving the session cookie.
SessionEmail(h, s, p, l) ==
    /\ session[s] # NoEmail
    /\ Start(h, p, [l EXCEPT !.email = session[s]])
    /\ UNCHANGED <<redis, counts, panicked, verified>>

InviteCreate(h, s) == SessionEmail(h, s, "invite", NoLoc)

InviteSet(h, c) ==
    /\ At(h, "invite") /\ invite[c] = NoInvite
    /\ invite' = [invite EXCEPT ![c] = [owner |-> loc[h].email, status |-> "dormant"]]
    /\ Return(h)
    /\ UNCHANGED <<account, link, session, machine, counts, history>>

\* A box dials the invite (the module Invites has the whole of it).
BoxDials(c) ==
    /\ invite[c].status = "dormant"
    /\ invite' = [invite EXCEPT ![c].status = "waiting"]
    /\ UNCHANGED <<account, link, session, machine, counts, pc, loc, history>>

\* invite_revoke of a dormant or waiting invite, or the invite's TTL.
InviteEnds(c) ==
    /\ invite[c] # NoInvite
    /\ invite' = [invite EXCEPT ![c] = NoInvite]
    /\ UNCHANGED <<account, link, session, machine, counts, pc, loc, history>>

InviteApprove(h, s, c) == SessionEmail(h, s, "approve", [NoLoc EXCEPT !.code = c])

ApproveGet(h) ==
    /\ At(h, "approve")
    /\ IF invite[loc[h].code] = [owner |-> loc[h].email, status |-> "waiting"]
       THEN Go(h, "approve_uuid", loc[h])
       ELSE Return(h)
    /\ UNCHANGED <<redis, counts, history>>

\* account_uuid(email).expect("... resolves to an active account").
ApproveUuid(h) ==
    /\ At(h, "approve_uuid")
    /\ panicked' = (panicked \/ ~Exists(loc[h].email))
    /\ IF Exists(loc[h].email)
       THEN Go(h, "approve_store", [loc[h] EXCEPT !.rec = account[loc[h].email]])
       ELSE Return(h)
    /\ UNCHANGED <<redis, counts, verified, overlapped>>

\* allocate_machine under a name that is free.
ApproveStore(h, m) ==
    /\ At(h, "approve_store") /\ machine[m] = 0
    /\ machine' = [machine EXCEPT ![m] = loc[h].rec.uuid]
    /\ Go(h, "approve_burn", loc[h])
    /\ UNCHANGED <<account, link, session, invite, counts, history>>

ApproveBurn(h) ==
    /\ At(h, "approve_burn")
    /\ invite' = [invite EXCEPT ![loc[h].code] =
                   [owner |-> loc[h].email, status |-> "approved"]]
    /\ Return(h)
    /\ UNCHANGED <<account, link, session, machine, counts, history>>

-----------------------------------------------------------------------------
(* account_delete: machines, invites, sessions, and the record last        *)

AccountDelete(h, s) == SessionEmail(h, s, "delete", NoLoc)

DeleteGet(h) ==
    /\ At(h, "delete")
    /\ IF Exists(loc[h].email) THEN Go(h, "owner", loc[h]) ELSE Return(h)
    /\ UNCHANGED <<redis, counts, history>>

\* machines_of, first half: the UUID behind the email.
DeleteOwner(h) ==
    /\ At(h, "owner")
    /\ Go(h, "list", [loc[h] EXCEPT !.rec = account[loc[h].email]])
    /\ UNCHANGED <<redis, counts, history>>

\* machines_of, second half; an error counts as no machines.
DeleteList(h, ok) ==
    /\ At(h, "list")
    /\ Swallow(ok)
    /\ Go(h, "machines", [loc[h] EXCEPT !.todo =
            {m \in Machines : ok /\ machine[m] # 0 /\ machine[m] = loc[h].rec.uuid}])
    /\ UNCHANGED <<redis, uuids, links, aborts, history>>

\* ControlPlane::delete; an error is logged and the machine stays.
DeleteMachine(h, m, ok) ==
    /\ At(h, "machines") /\ m \in loc[h].todo
    /\ Swallow(ok)
    /\ machine' = [machine EXCEPT ![m] = IF ok THEN 0 ELSE @]
    /\ Go(h, "machines", [loc[h] EXCEPT !.todo = @ \ {m}])
    /\ UNCHANGED <<account, link, session, invite, uuids, links, aborts, history>>

\* Mutant: only invites that wait for an approval are deleted.
DeleteListWaiting(h, ok) ==
    /\ At(h, "machines") /\ loc[h].todo = {}
    /\ Swallow(ok)
    /\ Go(h, "invites", [loc[h] EXCEPT !.todo =
            {c \in Codes : ok /\ invite[c] = [owner |-> loc[h].email, status |-> "waiting"]}])
    /\ UNCHANGED <<redis, uuids, links, aborts, history>>

\* invites_of; an error counts as no invites.
DeleteListInvites(h, ok) ==
    /\ At(h, "machines") /\ loc[h].todo = {}
    /\ Swallow(ok)
    /\ Go(h, "invites", [loc[h] EXCEPT !.todo =
            {c \in Codes : ok /\ invite[c].owner = loc[h].email}])
    /\ UNCHANGED <<redis, uuids, links, aborts, history>>

DeleteInvite(h, c) ==
    /\ At(h, "invites") /\ c \in loc[h].todo
    /\ invite' = [invite EXCEPT ![c] = NoInvite]
    /\ Go(h, "invites", [loc[h] EXCEPT !.todo = @ \ {c}])
    /\ UNCHANGED <<account, link, session, machine, counts, history>>

\* Mutant: the record is deleted before the sessions are swept.
SweepAfterRecord(h) ==
    /\ At(h, "invites") /\ loc[h].todo = {}
    /\ Go(h, "sessions", [loc[h] EXCEPT !.todo = {s \in Sessions : session[s] # NoEmail}])
    /\ account' = [account EXCEPT ![loc[h].email] = NoAccount]
    /\ UNCHANGED <<link, session, machine, invite, counts, history>>

\* SCAN returns at least the sessions that are there when it starts.
SweepStart(h) ==
    /\ At(h, "invites") /\ loc[h].todo = {}
    /\ Go(h, "sessions", [loc[h] EXCEPT !.todo = {s \in Sessions : session[s] # NoEmail}])
    /\ UNCHANGED <<redis, counts, history>>

\* GET and DEL of one key; a session made meanwhile may be found as well.
SweepSession(h, s) ==
    /\ At(h, "sessions") /\ (s \in loc[h].todo \/ session[s] # NoEmail)
    /\ session' = [session EXCEPT ![s] = IF @ = loc[h].email THEN NoEmail ELSE @]
    /\ Go(h, "sessions", [loc[h] EXCEPT !.todo = @ \ {s}])
    /\ UNCHANGED <<account, link, machine, invite, counts, history>>

SweepEnd(h) ==
    /\ At(h, "sessions") /\ loc[h].todo = {}
    /\ Go(h, "record", loc[h])
    /\ UNCHANGED <<redis, counts, history>>

DeleteRecord(h) ==
    /\ At(h, "record")
    /\ account' = [account EXCEPT ![loc[h].email] = NoAccount]
    /\ Return(h)
    /\ UNCHANGED <<link, session, machine, invite, counts, history>>

-----------------------------------------------------------------------------
(* Failure and time                                                        *)

\* A Redis error returned by `?`, a cancelled request, or a restart.
Abort(h) ==
    /\ ~Idle(h) /\ aborts < MaxAborts
    /\ aborts' = aborts + 1
    /\ Return(h)
    /\ UNCHANGED <<redis, uuids, links, faults, history>>

LinkExpires(i) ==
    /\ link[i].live
    /\ link' = [link EXCEPT ![i].live = FALSE]
    /\ UNCHANGED <<account, session, machine, invite, counts, pc, loc, history>>

MailNext(h) ==
    \/ \E e \in Emails : Signup(h, e) \/ ResendVerification(h, e) \/ RequestPasswordReset(h, e)
    \/ SignupSet(h) \/ SetLink(h) \/ MailSent(h)
    \/ \E b \in BOOLEAN : MailFails(h, b) \/ UndoAccount(h, b) \/ UndoLink(h, b)
    \/ \E i \in 1..MaxLinks : Click(h, i)
    \/ ClickGet(h) \/ ClickSet(h)

SessionNext(h) ==
    \/ \E e \in Emails : Login(h, e)
    \/ \E s \in Sessions :
        \/ LoginSet(h, s) \/ InviteCreate(h, s) \/ AccountDelete(h, s)
        \/ \E c \in Codes : InviteApprove(h, s, c)
    \/ \E c \in Codes : InviteSet(h, c)
    \/ ApproveGet(h) \/ ApproveUuid(h) \/ ApproveBurn(h)
    \/ \E m \in Machines : ApproveStore(h, m)

DeleteNext(h) ==
    \/ DeleteGet(h) \/ DeleteOwner(h) \/ SweepStart(h) \/ SweepEnd(h) \/ DeleteRecord(h)
    \/ \E ok \in BOOLEAN :
        \/ DeleteList(h, ok) \/ DeleteListInvites(h, ok)
        \/ \E m \in Machines : DeleteMachine(h, m, ok)
    \/ \E c \in Codes : DeleteInvite(h, c)
    \/ \E s \in Sessions : SweepSession(h, s)

Next ==
    \/ \E h \in Handlers : MailNext(h) \/ SessionNext(h) \/ DeleteNext(h) \/ Abort(h)
    \/ \E s \in Sessions : EndSession(s)
    \/ \E c \in Codes : BoxDials(c) \/ InviteEnds(c)
    \/ \E i \in 1..MaxLinks : LinkExpires(i)

Spec == Init /\ [][Next]_vars

-----------------------------------------------------------------------------
(* Properties                                                              *)

Points == {"idle", "signup", "link", "mail", "undo", "undo_link", "click", "click_set",
           "login", "invite", "approve", "approve_uuid", "approve_store", "approve_burn",
           "delete", "owner", "list", "machines", "invites", "sessions", "record"}

LinkRecord ==
    [kind : {"none", "verify", "reset"}, email : Emails \cup {NoEmail},
     acct : 0..MaxUuids, live : BOOLEAN, sent : BOOLEAN]

InviteRecord ==
    [owner : Emails \cup {NoEmail}, status : {"none", "dormant", "waiting", "approved"}]

Locals ==
    [op : {"none", "signup", "resend", "forgot", "verify", "reset"},
     email : Emails \cup {NoEmail}, rec : AccountRecord, id : 0..MaxLinks,
     code : Codes \cup {NoCode}, todo : SUBSET (Machines \cup Codes \cup Sessions)]

\* Every variable has its type.
TypeOK ==
    /\ account \in [Emails -> AccountRecord]
    /\ link \in [1..MaxLinks -> LinkRecord]
    /\ session \in [Sessions -> Emails \cup {NoEmail}]
    /\ machine \in [Machines -> 0..MaxUuids]
    /\ invite \in [Codes -> InviteRecord]
    /\ uuids \in 0..MaxUuids /\ links \in 0..MaxLinks
    /\ pc \in [Handlers -> Points] /\ loc \in [Handlers -> Locals]
    /\ aborts \in 0..MaxAborts /\ faults \in 0..MaxFaults
    /\ panicked \in BOOLEAN /\ verified \in SUBSET Emails /\ overlapped \in BOOLEAN

\* However requests overlap or are cut off, an account is active, and a
\* session exists, only for an address whose owner has followed a verify
\* link: a reset link, a resend or a stale record written back never
\* activates ("Requires an `active` account so an unverified email cannot
\* pair a box", account_login).
VerifiedOnly ==
    /\ \A e \in Emails : account[e].status = "active" => e \in verified
    /\ \A s \in Sessions : session[s] # NoEmail => session[s] \in verified

\* A session belongs to an active account, although a deletion may be cut
\* off anywhere: account_delete sweeps the sessions first and deletes the
\* record last.
SessionsResolve ==
    \A s \in Sessions : session[s] # NoEmail => account[session[s]].status = "active"

\* Every machine and every invite belongs to an account that exists: a
\* deleted account leaves none to the next account of that address.
Owned ==
    /\ \A m \in Machines : machine[m] # 0 => \E e \in Emails : account[e].uuid = machine[m]
    /\ \A c \in Codes : invite[c] # NoInvite => Exists(invite[c].owner)

\* As long as requests come one at a time, a deletion, cut off anywhere and
\* repeated, leaves no session without its account, and no machine or invite
\* either if it ignored no error; so "callers with an email from an active
\* session can expect" an account (account_uuid): invite_approve never panics.
NothingLeftBehind ==
    ~overlapped => ~panicked /\ SessionsResolve /\ (faults = 0 => Owned)

\* A failed send never leaves "a zombie account the customer can't
\* activate": when no request is running, was cut off or ignored an error, a
\* pending account's owner was mailed a link made for this account
\* (account_signup's rollback).
NoZombie ==
    ~overlapped /\ aborts = 0 /\ faults = 0 /\ (\A h \in Handlers : Idle(h)) =>
        \A e \in Emails : account[e].status = "pending" =>
            \E i \in 1..MaxLinks :
                link[i].sent /\ link[i].kind = "verify" /\ link[i].acct = account[e].uuid

\* As long as requests come one at a time, an account keeps its UUID, which
\* its machines refer to, and an activation is not undone, until the account
\* is deleted (account_signup's duplicate check; account_verify and
\* reset_password, which write the whole record).
AccountStable ==
    [][~overlapped' => \A e \in Emails :
        Exists(e) /\ account'[e] # NoAccount =>
            /\ account'[e].uuid = account[e].uuid
            /\ account[e].status = "active" => account'[e].status = "active"]_vars

=============================================================================
