------------------------------- MODULE Portal -------------------------------
(***************************************************************************)
(* The customer's way through the web: the edge's pages (poem,             *)
(* controlplane/web.rs), the site's pages (topcoat, crates/site), and the  *)
(* JSON API (mod.rs, pairing.rs), which drive the same account and invite  *)
(* operations and answer in three different ways.                          *)
(*                                                                         *)
(* One person works in one browser and may hold several accounts.  A page  *)
(* offers links and forms; the person may take any of them, and may always *)
(* type the address of the front page.  An operation of the control plane  *)
(* is one step here: the modules Accounts, Invites and Provisioning have   *)
(* its single commands.  A request that needs a session resolves it in one *)
(* step and acts in a later one; meanwhile the person may go on in another *)
(* tab, which shares the cookie.                                           *)
(***************************************************************************)
EXTENDS Integers, FiniteSets

CONSTANTS
    Surfaces,     \* which of "edge", "site" and "api" to look at
    Emails, Sessions, Links, Codes, Names, Keys,
    None,
    MaxUpsets     \* bound on what goes wrong or is undone

ASSUME Shapes ==
    /\ Surfaces \subseteq {"edge", "site", "api"}
    /\ None \notin UNION {Emails, Sessions, Links, Codes, Names, Keys}
    /\ Links # {} /\ Cardinality(Sessions) > 1 /\ MaxUpsets \in Nat

VARIABLES
    surface,      \* the one this person uses
    account,      \* [uuid, status] of each email
    forgot,       \* emails whose password the person has forgotten
    link,         \* live links: what they are for, and whose
    session,      \* the email of each live session
    cookie,       \* the browser's session token
    invite,       \* [owner, status, key] of each code
    machine,      \* [owner, key] of each machine name
    page,         \* the page in front
    req,          \* the request under way, in that tab or in another
    uuids, upsets

store == <<account, link, session, invite, machine, uuids>>
vars == <<surface, forgot, cookie, page, req, upsets, store>>

-----------------------------------------------------------------------------
NoAccount == [uuid |-> 0, status |-> "none"]
NoLink == [kind |-> "none", email |-> None]
NoInvite == [owner |-> None, status |-> "none", key |-> None]
NoMachine == [owner |-> 0, key |-> None]
NoReq == [op |-> "none", email |-> None, code |-> None, name |-> None]

Exists(e) == account[e] # NoAccount

\* What a tab shows: a page, the link it was opened with, the email in a hidden
\* field, whether it renders a signed-in person, and the status of the answer.
Page(at) == [at |-> at, link |-> None, email |-> None, signed |-> FALSE, status |-> 200]
Status(n) == [Page("api") EXCEPT !.status = n]
SignedHome == [Page("home") EXCEPT !.signed = TRUE]

Init ==
    /\ surface \in Surfaces
    /\ account = [e \in Emails |-> NoAccount] /\ forgot = {}
    /\ link = [l \in Links |-> NoLink]
    /\ session = [s \in Sessions |-> None] /\ cookie = None
    /\ invite = [c \in Codes |-> NoInvite]
    /\ machine = [n \in Names |-> NoMachine]
    /\ page = (IF surface = "api" THEN Status(200) ELSE Page("home")) /\ req = NoReq
    /\ uuids = 0 /\ upsets = 0

Show(answer) == page' = answer /\ UNCHANGED req

\* The request is answered, in the tab in front or in one behind it.
Reply(answer) == page' \in {answer, page} /\ req' = NoReq
Upset(happens) ==
    /\ happens => upsets < MaxUpsets
    /\ upsets' = IF happens THEN upsets + 1 ELSE upsets

\* session_account: the email behind the browser's cookie.
SessionAccount == IF cookie = None THEN None ELSE session[cookie]
SignedIn == SessionAccount # None

-----------------------------------------------------------------------------
(***************************************************************************)
(* Links and forms.                                                        *)
(***************************************************************************)

\* The front page and the list of machines have the same markup on both surfaces.
HomeLinks == {"register", "login"} \cup (IF page.signed THEN {"machines"} ELSE {})
HomeForms == IF page.signed THEN {"logout"} ELSE {}

\* The forms are those of the invites the page was rendered with: by the time one
\* is sent the invite may be anything.
MachineForms == {"logout", "create", "approve", "deny", "revoke"}

\* Where the links of a page lead.
EdgeLinks ==
    CASE page.at = "home" -> HomeLinks
      [] page.at = "register" -> {"login"}
      [] page.at = "register_error" -> {"login", "resend"}
      [] page.at = "login" -> {"forgot", "resend"}
      [] page.at \in {"forgot_sent", "verify_notice"} -> {"login"}
      [] page.at = "forgot_unknown" -> {"register", "forgot"}
      [] page.at \in {"message", "join"} -> {"home"}
      [] OTHER -> {}

SiteLinks ==
    CASE page.at = "home" -> HomeLinks
      [] page.at = "register" -> {"login"}
      [] page.at = "login" -> {"forgot"}
      [] page.at = "forgot" -> {"login"}
      [] page.at = "join" -> {"register"}
      [] OTHER -> {}

ApiForms == {"signup", "login", "forgot", "resend", "verify", "reset", "create", "list",
             "approve", "deny", "revoke", "delete"}

\* What the forms of a page do.  The edge serves a deletion that none of its
\* pages has a form for.
Forms ==
    CASE page.at = "api" -> ApiForms
      [] page.at = "home" -> HomeForms
      [] page.at \in {"register", "register_error"} -> {"signup"}
      [] page.at \in {"resend", "verify_notice"} -> {"resend"}
      [] page.at \in {"login", "forgot", "verify", "reset", "delete"} -> {page.at}
      [] page.at = "machines" -> MachineForms \cup (IF surface = "edge" THEN {"delete"} ELSE {})
      [] OTHER -> {}

Submits(form) == form \in Forms

\* A page that a GET renders; the front page resolves the session, and a failing
\* lookup renders it for nobody.
Rendered(at, ok) ==
    IF at = "home" THEN [Page(at) EXCEPT !.signed = ok /\ SessionAccount # None] ELSE Page(at)

Linked == IF surface = "edge" THEN EdgeLinks ELSE SiteLinks

\* Addresses that a person types, or a printed code leads to.
Typed == {"home", "join"} \cup (IF surface = "site" THEN {"delete"} ELSE {})

Visit(at, ok) ==
    /\ surface # "api"
    /\ at \in (Typed \cup Linked) \ {"machines"}
    /\ Upset(~ok)
    /\ Show(Rendered(at, ok))
    /\ UNCHANGED <<surface, forgot, cookie, store>>

\* Mutant: opening a link uses it up.
OpenLinkConsumes(l) ==
    /\ link[l] # NoLink
    /\ surface = "api" => page.at = "api"
    /\ Show([Page(IF surface = "api" THEN "api" ELSE link[l].kind) EXCEPT !.link = l])
    /\ link' = [link EXCEPT ![l] = NoLink]
    /\ UNCHANGED <<surface, forgot, cookie, account, session, invite, machine, uuids, upsets>>

\* A mailed link is opened, by the person or by a scanner that prefetches it:
\* GET /verify and GET /reset only render a form.
OpenLink(l) ==
    /\ link[l] # NoLink
    /\ surface = "api" => page.at = "api"
    /\ Show([Page(IF surface = "api" THEN "api" ELSE link[l].kind) EXCEPT !.link = l])
    /\ UNCHANGED <<surface, forgot, cookie, store, upsets>>

-----------------------------------------------------------------------------
(***************************************************************************)
(* How the surfaces answer.  An outcome is "ok", "sent" and the like, or   *)
(* the name of an AccountError or an InviteError.                          *)
(***************************************************************************)

UsersApiError(outcome) ==
    CASE outcome \in {"InvalidEmail", "InvalidPassword", "InvalidToken"} -> 400
      [] outcome = "InvalidCredentials" -> 401
      [] outcome = "NotVerified" -> 403
      [] outcome = "NotFound" -> 404
      [] outcome = "DuplicateEmail" -> 409
      [] outcome \in {"Redis", "Mail"} -> 500

InviteApiError(outcome) ==
    CASE outcome = "InvalidName" -> 400
      [] outcome = "Forbidden" -> 403
      [] outcome = "Unknown" -> 404
      [] outcome \in {"NotWaiting", "NotBegun", "NameTaken"} -> 409
      [] outcome = "Redis" -> 500

EdgeAnswer(op, e, outcome) ==
    CASE op = "signup" -> IF outcome = "ok" THEN Page("message") ELSE Page("register_error")
      [] op = "login" -> IF outcome = "ok" THEN SignedHome
                         ELSE IF outcome = "NotVerified" THEN [Page("verify_notice") EXCEPT !.email = e]
                         ELSE Page("login")
      [] op = "forgot" -> IF outcome = "sent" THEN Page("forgot_sent")
                          ELSE IF outcome = "unknown" THEN Page("forgot_unknown")
                          ELSE Page("message")
      [] op = "reset" -> IF outcome = "ok" THEN Page("message") ELSE page
      [] op \in {"resend", "verify"} -> Page("message")

\* What the site's bridge makes of an outcome: a failed resend is an unknown email.
SiteOutcome(op, outcome) ==
    CASE op \in {"verify", "reset"} -> IF outcome = "ok" THEN "ok" ELSE "invalid"
      [] op = "resend" -> IF outcome \in {"sent", "active"} THEN outcome ELSE "unknown"
      [] OTHER -> outcome

\* The site redirects, with a word for the banner.  After a failed verification or
\* reset it redirects to a page that needs the token it leaves out: not found.
SiteLogin(outcome) ==
    IF outcome = "ok" THEN SignedHome ELSE Page(IF outcome = "NotVerified" THEN "resend" ELSE "login")
SiteSpend(outcome) ==
    IF outcome = "ok" THEN Page("login") ELSE [Page("not_found") EXCEPT !.status = 404]
SiteAnswer(op, outcome) ==
    CASE op = "login" -> SiteLogin(outcome)
      [] op \in {"verify", "reset"} -> SiteSpend(outcome)
      [] op = "signup" -> Page("register")
      [] op \in {"forgot", "resend"} -> Page(op)

ApiAnswer(op, outcome) ==
    Status(CASE outcome = "ok" -> IF op = "signup" THEN 201 ELSE 200
             [] outcome \in {"sent", "active", "unknown"} -> 200
             [] OTHER -> UsersApiError(outcome))

Answer(op, e, outcome) ==
    Show(CASE surface = "edge" -> EdgeAnswer(op, e, outcome)
           [] surface = "site" -> SiteAnswer(op, SiteOutcome(op, outcome))
           [] surface = "api" -> ApiAnswer(op, outcome))

-----------------------------------------------------------------------------
(***************************************************************************)
(* The account forms.                                                      *)
(***************************************************************************)

\* A new token; where all are in use, one that nobody holds has expired.
Fresh(free, dead) == IF free \cap dead = {} THEN free ELSE free \cap dead

Mail(kind, e) ==
    \E l \in Fresh(Links \ {page.link}, {x \in Links : link[x] = NoLink}) :
        link' = [link EXCEPT ![l] = [kind |-> kind, email |-> e]]

\* Any store error; nothing else of the operation has happened.
Fails(op) ==
    /\ Submits(op) /\ op \in {"signup", "login", "forgot", "resend"}
    /\ Upset(TRUE)
    /\ Answer(op, None, "Redis")
    /\ UNCHANGED <<surface, forgot, cookie, store>>

\* account_signup, which rolls back when the mail fails.
Signup(e, mails) ==
    /\ Submits("signup")
    /\ IF Exists(e) THEN /\ mails /\ Answer("signup", e, "DuplicateEmail")
                         /\ UNCHANGED <<account, forgot, link, uuids, upsets>>
       ELSE /\ Upset(~mails)
            /\ IF mails
               THEN /\ uuids' = uuids + 1 /\ forgot' = forgot \ {e}
                    /\ account' = [account EXCEPT ![e] = [uuid |-> uuids + 1, status |-> "pending"]]
                    /\ Mail("verify", e)
                    /\ Answer("signup", e, "ok")
               ELSE Answer("signup", e, "Mail") /\ UNCHANGED <<account, forgot, link, uuids>>
    /\ UNCHANGED <<surface, cookie, session, invite, machine>>

\* validate_email or validate_password refuses.
SignupInvalid(err) ==
    /\ Submits("signup")
    /\ Answer("signup", None, err)
    /\ UNCHANGED <<surface, forgot, cookie, store, upsets>>

\* account_login, with the right password unless it is forgotten.
Login(e) ==
    /\ Submits("login")
    /\ IF ~Exists(e) \/ e \in forgot
         THEN Answer("login", e, "InvalidCredentials") /\ UNCHANGED <<session, cookie>>
       ELSE IF account[e].status # "active"
         THEN Answer("login", e, "NotVerified") /\ UNCHANGED <<session, cookie>>
       ELSE \E s \in Fresh(Sessions \ {cookie}, {x \in Sessions : session[x] = None}) :
                /\ session' = [session EXCEPT ![s] = e] /\ cookie' = s
                /\ Answer("login", e, "ok")
    /\ UNCHANGED <<surface, forgot, account, link, invite, machine, uuids, upsets>>

\* account_logout, whose error is ignored; the cookie is cleared in any case.
Logout(ok) ==
    /\ Submits("logout") /\ upsets < MaxUpsets
    /\ upsets' = upsets + 1
    /\ session' = [s \in Sessions |-> IF s = cookie /\ ok THEN None ELSE session[s]]
    /\ cookie' = None
    /\ Show(Page("home"))
    /\ UNCHANGED <<surface, forgot, account, link, invite, machine, uuids>>

\* request_password_reset; a failed mail leaves its token to expire.
Forgot(e, mails) ==
    /\ Submits("forgot")
    /\ Upset(~mails)
    /\ IF ~Exists(e) THEN mails /\ Answer("forgot", e, "unknown") /\ UNCHANGED link
       ELSE IF mails THEN Answer("forgot", e, "sent") /\ Mail("reset", e)
       ELSE Answer("forgot", e, "Mail") /\ UNCHANGED link
    /\ UNCHANGED <<surface, forgot, cookie, account, session, invite, machine, uuids>>

\* resend_verification.
Resend(e, mails) ==
    /\ Submits("resend") /\ page.email \in {None, e}
    /\ Upset(~mails)
    /\ IF ~Exists(e) THEN mails /\ Answer("resend", e, "unknown") /\ UNCHANGED link
       ELSE IF account[e].status = "active" THEN mails /\ Answer("resend", e, "active") /\ UNCHANGED link
       ELSE IF mails THEN Answer("resend", e, "sent") /\ Mail("verify", e)
       ELSE Answer("resend", e, "Mail") /\ UNCHANGED link
    /\ UNCHANGED <<surface, forgot, cookie, account, session, invite, machine, uuids>>

\* GETDEL of the token of this kind, then the account behind it.
Spend(kind) ==
    LET l == page.link
        e == IF l = None THEN None ELSE link[l].email
        good == l # None /\ link[l].kind = kind
    IN  /\ link' = IF good THEN [link EXCEPT ![l] = NoLink] ELSE link
        /\ Answer(kind, e, IF ~good THEN "InvalidToken" ELSE IF Exists(e) THEN "ok" ELSE "NotFound")
        /\ account' = IF kind = "verify" /\ good /\ Exists(e)
                      THEN [account EXCEPT ![e].status = "active"] ELSE account
        /\ forgot' = IF kind = "reset" /\ good THEN forgot \ {e} ELSE forgot

Verify ==
    /\ Submits("verify") /\ Spend("verify")
    /\ UNCHANGED <<surface, cookie, session, invite, machine, uuids, upsets>>

Reset ==
    /\ Submits("reset") /\ Spend("reset")
    /\ UNCHANGED <<surface, cookie, session, invite, machine, uuids, upsets>>

\* A store error before the token is taken, or after it.
SpendFails(kind) ==
    /\ Submits(kind) /\ page.link # None
    /\ Upset(TRUE)
    /\ link' \in {link} \cup (IF link[page.link].kind = kind THEN {[link EXCEPT ![page.link] = NoLink]} ELSE {})
    /\ Answer(kind, None, "Redis")
    /\ UNCHANGED <<surface, forgot, cookie, account, session, invite, machine, uuids>>

\* A password that validate_password refuses does not cost the token.
ResetInvalid ==
    /\ Submits("reset")
    /\ Answer("reset", None, "InvalidPassword")
    /\ UNCHANGED <<surface, forgot, cookie, store, upsets>>

-----------------------------------------------------------------------------
(***************************************************************************)
(* Requests that need a session.                                           *)
(***************************************************************************)

Anonymous == IF surface = "api" THEN Status(401) ELSE Page("login")

\* GET /machines is a request of its own after most of the others.
Machines == [Page("machines") EXCEPT !.signed = TRUE]
Redirected == IF SessionAccount = None THEN Page("login") ELSE Machines

\* Bounds: one request at a time, as many invites as codes, and a deletion counts
\* as an upset.
HasRoom(op) ==
    /\ req = NoReq
    /\ op = "create" => \E c \in Codes : invite[c] = NoInvite
    /\ op = "delete" => upsets < MaxUpsets

\* require_session, signed_in_email, session_email_from.
Request(op, c, n, ok) ==
    /\ Submits(op) /\ HasRoom(op)
    /\ Upset(~ok)
    /\ IF ok /\ SignedIn
       THEN req' = [op |-> op, email |-> SessionAccount, code |-> c, name |-> n] /\ UNCHANGED page
       ELSE Show(Anonymous)
    /\ UNCHANGED <<surface, forgot, cookie, store>>

VisitMachines ==
    /\ surface # "api" /\ "machines" \in Linked
    /\ Show(Redirected)
    /\ UNCHANGED <<surface, forgot, cookie, store, upsets>>

\* The edge shows what went wrong on a page of its own, the site on the list.
EdgeReply(outcome) == IF outcome = "ok" THEN Redirected ELSE Page("message")
SiteReply(outcome) == Redirected
ApiReply(success, outcome) == Status(IF outcome = "ok" THEN success ELSE InviteApiError(outcome))

Finish(success, outcome) ==
    Reply(CASE surface = "edge" -> EdgeReply(outcome)
            [] surface = "site" -> SiteReply(outcome)
            [] surface = "api" -> ApiReply(success, outcome))

InviteCreate(c) ==
    /\ req.op = "create" /\ invite[c] = NoInvite
    /\ invite' = [invite EXCEPT ![c] = [owner |-> req.email, status |-> "dormant", key |-> None]]
    /\ Finish(201, "ok")
    /\ UNCHANGED <<surface, forgot, cookie, account, link, session, machine, uuids, upsets>>

\* The list, or the store's error.
InviteList ==
    /\ req.op = "list"
    /\ Finish(200, "ok")
    /\ UNCHANGED <<surface, forgot, cookie, store, upsets>>

\* Mutant: whoever is signed in decides.
RefusalAnyone ==
    LET i == invite[req.code]
    IN  IF i = NoInvite THEN "Unknown"
        ELSE IF i.status = "dormant" THEN (IF req.op = "revoke" THEN "ok" ELSE "NotBegun")
        ELSE IF i.status # "waiting" THEN "NotWaiting"
        ELSE "ok"

\* The checks that invite_approve, invite_deny and invite_revoke share.
Refusal ==
    LET i == invite[req.code]
    IN  IF i = NoInvite THEN "Unknown"
        ELSE IF i.owner # req.email THEN "Forbidden"
        ELSE IF i.status = "dormant" THEN (IF req.op = "revoke" THEN "ok" ELSE "NotBegun")
        ELSE IF i.status # "waiting" THEN "NotWaiting"
        ELSE "ok"

InviteDecide ==
    /\ req.op \in {"deny", "revoke"}
    /\ Finish(204, Refusal)
    /\ invite' = IF Refusal # "ok" THEN invite
                 ELSE [invite EXCEPT ![req.code] =
                         IF req.op = "revoke" THEN NoInvite ELSE [@ EXCEPT !.status = "denied"]]
    /\ UNCHANGED <<surface, forgot, cookie, account, link, session, machine, uuids, upsets>>

\* allocate_machine for an approval: a new machine of the account, or the new
\* key for the machine that has the name, whoever owns it.
Allocated ==
    [machine EXCEPT ![req.name] =
        IF @ = NoMachine THEN [owner |-> account[req.email].uuid, key |-> invite[req.code].key]
        ELSE [@ EXCEPT !.key = invite[req.code].key]]

\* A name that is taken is refused once the machine behind it has the new key.
InviteApprove ==
    LET outcome == IF Refusal # "ok" THEN Refusal
                   ELSE IF machine[req.name] # NoMachine THEN "NameTaken" ELSE "ok"
    IN  /\ req.op = "approve" /\ req.name # None
        /\ Finish(200, outcome)
        /\ invite' = IF outcome = "ok" THEN [invite EXCEPT ![req.code].status = "approved"] ELSE invite
        /\ machine' = IF Refusal = "ok" THEN Allocated ELSE machine
        /\ UNCHANGED <<surface, forgot, cookie, account, link, session, uuids, upsets>>

\* No name, or one that validate_machine_name refuses.
ApproveInvalid ==
    /\ req.op = "approve" /\ req.name = None
    /\ IF surface = "edge" THEN \E answer \in {Redirected, Page("message")} : Reply(answer)
       ELSE Finish(200, IF Refusal # "ok" THEN Refusal ELSE "InvalidName")
    /\ UNCHANGED <<surface, forgot, cookie, store, upsets>>

\* What an account has.
MachinesOf(e) == {n \in Names : Exists(e) /\ machine[n].owner = account[e].uuid}
InvitesOf(e) == {c \in Codes : invite[c].owner = e}
SessionsOf(e) == {s \in Sessions : session[s] = e}

Unwire(gone) == machine' = [n \in Names |-> IF n \in gone THEN NoMachine ELSE machine[n]]
Revoke(gone) == invite' = [c \in Codes |-> IF c \in gone THEN NoInvite ELSE invite[c]]
SignOut(gone) == session' = [s \in Sessions |-> IF s \in gone THEN None ELSE session[s]]

\* account_delete: machines, invites, sessions, record.  A machine that cannot be
\* unwired stays, and so do all invites when they cannot be listed.  Where the
\* pages clear the cookie it is the browser's, whatever it names by now; the API
\* leaves it.  (The site also logs the request's own session out, which is one of
\* those.)
AccountDelete ==
    LET e == req.email
    IN  /\ req.op = "delete"
        /\ IF Exists(e)
           THEN /\ upsets' = upsets + 1
                /\ account' = [account EXCEPT ![e] = NoAccount]
                /\ \E gone \in SUBSET MachinesOf(e) : Unwire(gone)
                /\ \E gone \in {{}, InvitesOf(e)} : Revoke(gone)
                /\ SignOut(SessionsOf(e))
                /\ cookie' = IF surface = "api" THEN cookie ELSE None
                /\ Reply(IF surface = "api" THEN Status(200) ELSE Page("home"))
           ELSE /\ Reply(CASE surface = "api" -> Status(401)
                             [] surface = "edge" -> Page("message")
                             [] surface = "site" -> Page("delete"))
                /\ UNCHANGED <<account, machine, invite, session, cookie, upsets>>
        /\ UNCHANGED <<surface, forgot, link, uuids>>

\* The edge wants the word DELETE.
Unconfirmed ==
    /\ req.op = "delete" /\ surface = "edge"
    /\ Reply(Page("message"))
    /\ UNCHANGED <<surface, forgot, cookie, store, upsets>>

\* A deletion that ends with an error has got as far as it got: no session goes
\* before the invites are dealt with, and the record stays.
DeleteFails ==
    LET e == req.email
    IN  /\ \E gone \in SUBSET MachinesOf(e) : Unwire(gone)
        /\ \E codes \in SUBSET InvitesOf(e), tokens \in SUBSET SessionsOf(e) :
             /\ tokens # {} => codes \in {{}, InvitesOf(e)}
             /\ Revoke(codes) /\ SignOut(tokens)

\* An approval that does has allocated its machine, or not.
ApproveFails ==
    /\ machine' \in {machine} \cup (IF req.name # None /\ Refusal = "ok" THEN {Allocated} ELSE {})
    /\ UNCHANGED <<invite, session>>

\* A store error after the session was resolved; the lists are shown empty.
RequestFails ==
    /\ req # NoReq /\ Upset(TRUE)
    /\ Reply(CASE surface = "api" -> Status(500)
                 [] surface = "edge" -> Page("message")
                 [] surface = "site" -> IF req.op = "delete" THEN Page("delete") ELSE Redirected)
    /\ CASE req.op = "delete" -> DeleteFails
         [] req.op = "approve" -> ApproveFails
         [] OTHER -> UNCHANGED <<machine, invite, session>>
    /\ UNCHANGED <<surface, forgot, cookie, account, link, uuids>>

-----------------------------------------------------------------------------
(***************************************************************************)
(* The rest of the world.                                                  *)
(***************************************************************************)

\* invite_begin: a box dials an invite with its key.
BoxDials(c, k) ==
    /\ invite[c].status \in {"dormant", "waiting"}
    /\ invite' = [invite EXCEPT ![c].status = "waiting", ![c].key = k]
    /\ UNCHANGED <<surface, forgot, cookie, page, req, account, link, session, machine, uuids, upsets>>

\* POST and DELETE /api/wireguard with the admin key: an existing machine gets
\* the new key, an unknown one is no machine of any account.
Operator(n, k) ==
    /\ upsets < MaxUpsets /\ upsets' = upsets + 1
    /\ machine' = [machine EXCEPT ![n] = IF k = None THEN NoMachine
                                         ELSE IF @ = NoMachine THEN [owner |-> -1, key |-> k]
                                         ELSE [@ EXCEPT !.key = k]]
    /\ UNCHANGED <<surface, forgot, cookie, page, req, account, link, session, invite, uuids>>

\* A link, a session or an invite reaches the end of its TTL, or the person
\* forgets a password.
Expire ==
    /\ upsets < MaxUpsets /\ upsets' = upsets + 1
    /\ \/ \E l \in Links : link[l] # NoLink /\ link' = [link EXCEPT ![l] = NoLink]
          /\ UNCHANGED <<session, invite, forgot>>
       \/ \E s \in Sessions : session[s] # None /\ session' = [session EXCEPT ![s] = None]
          /\ UNCHANGED <<link, invite, forgot>>
       \/ \E c \in Codes : invite[c] # NoInvite /\ invite' = [invite EXCEPT ![c] = NoInvite]
          /\ UNCHANGED <<link, session, forgot>>
       \/ \E e \in Emails \ forgot : Exists(e) /\ forgot' = forgot \cup {e}
          /\ UNCHANGED <<link, session, invite>>
    /\ UNCHANGED <<surface, cookie, page, req, account, machine, uuids>>

Pages == {"home", "register", "login", "forgot", "resend", "delete", "join"}

Person ==
    \/ \E at \in Pages, ok \in BOOLEAN : Visit(at, ok)
    \/ VisitMachines
    \/ \E l \in Links : OpenLink(l)
    \/ \E op \in {"signup", "login", "forgot", "resend"} : Fails(op)
    \/ \E e \in Emails : Login(e)
    \/ \E e \in Emails, ok \in BOOLEAN : Signup(e, ok) \/ Forgot(e, ok) \/ Resend(e, ok)
    \/ \E err \in {"InvalidEmail", "InvalidPassword"} : SignupInvalid(err)
    \/ \E ok \in BOOLEAN : Logout(ok)
    \/ Verify \/ Reset \/ ResetInvalid \/ \E kind \in {"verify", "reset"} : SpendFails(kind)
    \/ \E op \in {"create", "list", "delete"}, ok \in BOOLEAN : Request(op, None, None, ok)
    \/ \E op \in {"deny", "revoke"}, c \in Codes : Request(op, c, None, TRUE)
    \/ \E c \in Codes, n \in Names \cup {None} : Request("approve", c, n, TRUE)

\* What the server does with a request it has resolved the session of.
Serve ==
    \/ \E c \in Codes : InviteCreate(c)
    \/ InviteList \/ InviteDecide \/ InviteApprove \/ ApproveInvalid
    \/ AccountDelete \/ Unconfirmed \/ RequestFails

World ==
    \/ \E c \in Codes, k \in Keys : BoxDials(c, k)
    \/ \E n \in Names, k \in Keys \cup {None} : Operator(n, k)
    \/ Expire

Next == World \/ Person \/ Serve

-----------------------------------------------------------------------------
(***************************************************************************)
(* The determined person: reads the mail first, then does the obvious      *)
(* thing the page offers, or follows the link towards it, or starts over   *)
(* from the front page.  Knows whether they registered and whether they    *)
(* forgot the password; learns the rest from the answers.                  *)
(***************************************************************************)

Unverified == page.at \in {"resend", "verify_notice"} \/ page.status = 403

Submit(e) ==
    IF ~Exists(e) THEN (\A f \in Emails : ~Exists(f)) /\ Signup(e, TRUE)
    ELSE IF e \in forgot THEN Forgot(e, TRUE)
    ELSE IF Unverified THEN account[e].status = "pending" /\ Resend(e, TRUE)
    ELSE Login(e)

Wanted ==
    IF \A e \in Emails : ~Exists(e) THEN "register"
    ELSE IF \A e \in Emails : Exists(e) => e \in forgot THEN "forgot" ELSE "login"

Toward ==
    IF Wanted \in Linked THEN Wanted
    ELSE IF Wanted = "forgot" /\ "login" \in Linked THEN "login" ELSE "home"

Useful ==
    LET kind == IF page.link = None THEN "none" ELSE link[page.link].kind
        mail == {l \in Links : link[l] # NoLink}
    IN  CASE kind = "verify" -> Verify
          [] kind = "reset" -> Reset
          [] kind = "none" /\ mail # {} -> \E l \in mail : OpenLink(l)
          [] kind = "none" /\ mail = {} ->
                \/ \E e \in Emails : Submit(e)
                \/ (\A e \in Emails : ~ENABLED Submit(e)) /\ Visit(Toward, TRUE)

Proceed == ~SignedIn /\ Useful

\* A request that was let in is answered, and a determined person gets round to
\* the next step.
Spec ==
    /\ Init /\ [][Next]_vars
    /\ WF_vars(Proceed)
    /\ WF_vars(Serve)

-----------------------------------------------------------------------------
\* Whatever failed, expired or was clicked before, in whichever tab and on
\* whichever surface: a person who from some point on does the obvious thing gets
\* signed in.  From a page without a way on, as the site's 404 after a burnt link,
\* they type the front page's address; no state of an account is one that its
\* links and forms cannot get it out of.
GetsIn == <>[][Proceed \/ World \/ Serve]_vars => <>[]SignedIn

Owner(n) == machine[n].owner

\* The machine that an approval finds under its name: only its key changes, to
\* the one dialed for the approved invite.
Rekeyed(n) ==
    /\ req.op = "approve" /\ n = req.name /\ invite[req.code].owner = req.email
    /\ machine'[n] = [machine[n] EXCEPT !.key = invite[req.code].key]

\* A request acts for the account that its cookie named when it was let in, and
\* for no other, whatever another tab did to the cookie meanwhile and wherever
\* the store failed: nobody's invites, sessions, account or machines change but
\* that account's, and a request that the API refuses (4xx) changes none of them,
\* with one exception: an approval under a name that is taken gives whoever's
\* machine has the name the key of the approver's box (allocate_machine, with
\* invite_approve's NameTaken; see the run invites_name_taken).
ActsAsSignedIn ==
    [][req # NoReq /\ req' = NoReq =>
        LET e == req.email
        IN  /\ \A c \in Codes : invite'[c] # invite[c] =>
                    {invite[c].owner, invite'[c].owner} \subseteq {None, e}
            /\ \A f \in Emails : account'[f] # account[f] => f = e
            /\ \A s \in Sessions : session'[s] # session[s] => session[s] = e
            /\ \A n \in Names : machine'[n] # machine[n] =>
                    {Owner(n), Owner(n)'} \subseteq {0, account[e].uuid} \/ Rekeyed(n)
            /\ page' # page /\ page'.status \in 400..499 =>
                    /\ UNCHANGED <<account, session, invite>>
                    /\ \A n \in Names : machine'[n] = machine[n] \/ Rekeyed(n)]_vars

=============================================================================
