------------------------------ MODULE Dashboard ------------------------------
(***************************************************************************)
(* The box's dashboard (crates/client/src/dashboard): the login and its    *)
(* sessions, the editor of the box's Nix configuration, and the landing    *)
(* page with the liveness of the box's services.                           *)
(*                                                                         *)
(* Requests run in parallel on the threads of the runtime, and each takes  *)
(* several steps: the session gate, two reads of the file, the write of a  *)
(* new file beside it and the rename.  The operator edits the same file by *)
(* hand.  The claim of a box is in the module Box; only its gate is here.  *)
(***************************************************************************)
EXTENDS NixTree, FiniteSets

CONSTANTS
    Files,        \* trees the operator may write
    Forms,        \* what an editor page may submit
    Urls,         \* health URLs of the catalog
    Reqs,         \* requests that may run at once
    Tokens, NoToken,
    SessionTtl, CacheTtl, \* in ticks
    MaxProbes,    \* probes one landing page runs at once
    MaxRequests,  \* bound on requests
    MaxHands,     \* bound on edits by hand
    MaxFaults,    \* bound on failing writes and queries, and on crashes
    MaxClock      \* bound on time

Never == -1
NoFile == [p \in {<<>>} |-> Node(<<>>, Value("other", <<>>), 0)]

ASSUME Shapes ==
    /\ \A f \in Files : f.state \in {"ok", "bad"} /\ IsTree(f.root)
    /\ NoToken \notin Tokens
    /\ {SessionTtl, CacheTtl, MaxProbes} \subseteq Nat \ {0}
    /\ {MaxRequests, MaxHands, MaxFaults, MaxClock} \subseteq Nat

\* Two services have two names, and so have two users.
ASSUME Names ==
    /\ Services \in Seq(STRING) /\ IsInjective(Services)
    /\ Users \in Seq(STRING) /\ IsInjective(Users)

ASSUME FormShapes ==
    \A f \in Forms :
        /\ f.hostname \in STRING /\ f.domain \in STRING
        /\ DOMAIN f.groups \subseteq Range(Users)
        /\ \A u \in DOMAIN f.groups : f.groups[u] \in Seq(STRING)

\* The operator spreads no set over several entries and inherits nothing that
\* the editor edits; what set_attrpath does to a file that does either is shown
\* in MCNixConfig.
ASSUME Whole == \A f \in Files : Tidy(f.root)

VARIABLES
    file,         \* the configuration file; bad when missing, unreadable or not Nix
    session,      \* the sessions table: when each token expires
    cache,        \* the prober's cache: when and what each URL answered
    up,           \* does the service behind a URL answer?
    req,          \* the requests under way
    clock,
    requests, hands, faults, \* counters
    hand,         \* history: the state the operator last left the file in
    born, out,    \* history: when each token was issued; tokens logged out
    upAt          \* history: when each service was last up

counters == <<requests, hands, faults>>
history == <<hand, born, out, upAt>>
vars == <<file, session, cache, up, req, clock, counters, history>>

-----------------------------------------------------------------------------
NoForm == [hostname |-> "", domain |-> "", on |-> {}, groups |-> <<>>]
NoReq == [at |-> "idle", kind |-> "none", token |-> NoToken, form |-> NoForm, edits |-> <<>>,
          base |-> NoFile, new |-> NoFile, clean |-> TRUE, start |-> 0,
          dots |-> [u \in Urls |-> "none"]]

Init ==
    /\ file \in {f \in Files : f.state = "ok"} /\ hand = "ok"
    /\ session = [t \in Tokens |-> Never]
    /\ cache = [u \in Urls |-> [at |-> Never, healthy |-> FALSE]]
    /\ up = [u \in Urls |-> TRUE] /\ upAt = [u \in Urls |-> 0]
    /\ req = [r \in Reqs |-> NoReq]
    /\ clock = 0
    /\ requests = 0 /\ hands = 0 /\ faults = 0
    /\ born = [t \in Tokens |-> Never] /\ out = {}

Fault == faults < MaxFaults /\ faults' = faults + 1
Answer(r) == req' = [req EXCEPT ![r] = NoReq]
Step(r, to) == req' = [req EXCEPT ![r] = to]

\* Whoever writes the file makes the work of the other requests stale.
Replace(f, others) ==
    /\ file' = f
    /\ req' = [r \in Reqs |-> IF r \in others /\ req[r].at # "idle"
                             THEN [req[r] EXCEPT !.clean = FALSE] ELSE NoReq]

Arrives(r, new) ==
    /\ req[r].at = "idle"
    /\ requests < MaxRequests /\ requests' = requests + 1
    /\ Step(r, new)
    /\ UNCHANGED <<file, session, cache, up, clock, hands, faults, history>>

-----------------------------------------------------------------------------
(***************************************************************************)
(* Sessions.                                                               *)
(***************************************************************************)

\* POST /auth/login with the right password; any other changes nothing.
LoginPost(r) ==
    Arrives(r, [NoReq EXCEPT !.at = "login", !.kind = "login"])

\* create_session; an error is a 500.
CreateSession(r) ==
    /\ req[r].at = "login"
    /\ \/ \E t \in Tokens :
            /\ born[t] = Never
            /\ session' = [session EXCEPT ![t] = clock + SessionTtl]
            /\ born' = [born EXCEPT ![t] = clock]
            /\ UNCHANGED faults
       \/ Fault /\ UNCHANGED <<session, born>>
    /\ Answer(r)
    /\ UNCHANGED <<file, cache, up, clock, requests, hands, hand, out, upAt>>

\* A request to /admin, /claim or /auth/logout, with whatever cookie.
Guarded(r, kind, t, form) ==
    Arrives(r, [NoReq EXCEPT !.at = "gate", !.kind = kind, !.token = t, !.form = form])

\* Mutant: a session is good until the second after its last.
GetSessionLate(t) == t # NoToken /\ session[t] # Never /\ session[t] >= clock

\* get_session.
GetSession(t) == t # NoToken /\ session[t] # Never /\ session[t] > clock

\* gate_request: the endpoint or the login page; a failing query is no session.
GateRequest(r) ==
    /\ req[r].at = "gate"
    /\ \/ /\ IF GetSession(req[r].token) THEN Step(r, [req[r] EXCEPT !.at = "handler"])
             ELSE Answer(r)
          /\ UNCHANGED faults
       \/ Fault /\ Answer(r)
    /\ UNCHANGED <<file, session, cache, up, clock, requests, hands, history>>

\* Mutant: only the browser's cookie is cleared.
LogoutCookie(r) ==
    /\ req[r].at = "handler" /\ req[r].kind = "logout"
    /\ out' = out \cup {req[r].token}
    /\ Answer(r)
    /\ UNCHANGED <<file, session, cache, up, clock, counters, hand, born, upAt>>

\* delete_session; its error is ignored and the cookie is cleared all the same.
Logout(r) ==
    /\ req[r].at = "handler" /\ req[r].kind = "logout"
    /\ out' = out \cup {req[r].token}
    /\ \/ session' = [session EXCEPT ![req[r].token] = Never] /\ UNCHANGED faults
       \/ Fault /\ UNCHANGED session
    /\ Answer(r)
    /\ UNCHANGED <<file, cache, up, clock, requests, hands, hand, born, upAt>>

\* GET /admin reads the file; POST /claim starts a claim (see Box).
ReadOnly(r) ==
    /\ req[r].at = "handler" /\ req[r].kind = "other"
    /\ Answer(r)
    /\ UNCHANGED <<file, session, cache, up, clock, counters, history>>

-----------------------------------------------------------------------------
(***************************************************************************)
(* The editor: admin_save.                                                 *)
(***************************************************************************)

Edit(path, new) == [path |-> path, new |-> new]
Bool(b) == Value("bool", <<IF b THEN "true" ELSE "false">>)

\* A push onto the list of edits: one edit or none.
Push(cond, e) == IF cond THEN {e} ELSE {}

\* Mutant: services the file does not declare are written as well.
ServiceEditsAll(config, form) ==
    [i \in DOMAIN Services |->
        Push(TRUE, Edit(ServicePath(Services[i]), Bool(Services[i] \in form.on)))]

\* A declared toggle is rewritten, an undeclared one only when it is ticked.
ServiceEdits(config, form) ==
    [i \in DOMAIN Services |->
        LET s == Services[i]
        IN  Push(config.enabled[s] # {} \/ s \in form.on,
                 Edit(ServicePath(s), Bool(s \in form.on)))]

\* The same rule for the groups of every user on the form.
GroupEdits(config, form) ==
    [i \in DOMAIN Users |->
        LET u == Users[i]
        IN  Push(/\ u \in DOMAIN config.groups \cap DOMAIN form.groups
                 /\ config.groups[u] # {} \/ form.groups[u] # <<>>,
                 Edit(GroupsPath(u), QuoteList(form.groups[u])))]

\* build_edits: the host name and the domain are never created.
BuildEdits(config, form) ==
    <<Push(config.hostname # {}, Edit(HostnamePath, Quote(form.hostname))),
      Push(config.domain # {}, Edit(DomainPath, Quote(form.domain)))>>
    \o ServiceEdits(config, form) \o GroupEdits(config, form)

\* editor_state, and the edits from what it read.
SaveRead(r) ==
    /\ req[r].at = "handler" /\ req[r].kind = "save"
    /\ IF file.state = "ok"
         THEN Step(r, [req[r] EXCEPT !.at = "save", !.clean = TRUE,
                         !.edits = BuildEdits(Extract(file.root), req[r].form)])
         ELSE Answer(r)
    /\ UNCHANGED <<file, session, cache, up, clock, counters, history>>

\* Every edit applies to one candidate; one that fails ends it.
Apply(root, edits) ==
    LET candidate[n \in 0..Len(edits)] ==
            IF n = 0 THEN {root}
            ELSE IF edits[n] = {} THEN candidate[n - 1]
            ELSE UNION {SetAttrpath(x, e.path, e.new) : x \in candidate[n - 1], e \in edits[n]}
    IN  candidate[Len(edits)]

\* Mutant: an edit that fails is left out.
SaveConfigPartial(r) ==
    LET Try(root, push) == LET ys == UNION {SetAttrpath(root, e.path, e.new) : e \in push}
                           IN  IF ys = {} THEN root ELSE CHOOSE y \in ys : TRUE
    IN  /\ req[r].at = "save"
        /\ IF file.state = "ok"
             THEN Step(r, [req[r] EXCEPT !.at = "write", !.base = file.root,
                             !.new = FoldLeft(Try, file.root, req[r].edits)])
             ELSE Answer(r)
        /\ UNCHANGED <<file, session, cache, up, clock, counters, history>>

\* save_config up to the write: the file is read again.
SaveConfig(r) ==
    /\ req[r].at = "save"
    /\ IF file.state = "ok" /\ Apply(file.root, req[r].edits) # {}
         THEN Step(r, [req[r] EXCEPT !.at = "write", !.base = file.root,
                         !.new = CHOOSE y \in Apply(file.root, req[r].edits) : TRUE])
         ELSE Answer(r)
    /\ UNCHANGED <<file, session, cache, up, clock, counters, history>>

\* Mutant: the file is truncated and written in place.
WriteInPlace(r) ==
    /\ req[r].at = "write"
    /\ Step(r, [req[r] EXCEPT !.at = "rename"])
    /\ file' = [state |-> "bad", root |-> NoFile]
    /\ UNCHANGED <<session, cache, up, clock, counters, history>>

\* write_atomic: a temporary file beside it ...
WriteTmp(r) ==
    /\ req[r].at = "write"
    /\ \/ Step(r, [req[r] EXCEPT !.at = "rename"]) /\ UNCHANGED faults
       \/ Fault /\ Answer(r)
    /\ UNCHANGED <<file, session, cache, up, clock, requests, hands, history>>

\* ... and the rename.  The editor page is then rendered from a fresh read.
Rename(r) ==
    /\ req[r].at = "rename"
    /\ \/ /\ Replace([state |-> "ok", root |-> req[r].new], Reqs \ {r})
          /\ UNCHANGED faults
       \/ Fault /\ Answer(r) /\ UNCHANGED file
    /\ UNCHANGED <<session, cache, up, clock, requests, hands, history>>

-----------------------------------------------------------------------------
(***************************************************************************)
(* The landing page and its prober.                                        *)
(***************************************************************************)

\* Mutant: a cached answer is good for ever.
FreshAlways(u) == cache[u].at # Never

\* A cached answer that is younger than the TTL.
Fresh(u) == cache[u].at # Never /\ clock - cache[u].at < CacheTtl

\* snapshot: what is fresh is taken from the cache, the rest is probed.
Landing(r) ==
    Arrives(r, [NoReq EXCEPT !.at = "landing", !.kind = "landing", !.start = clock,
                  !.dots = [u \in Urls |-> IF ~Fresh(u) THEN "stale"
                                           ELSE IF cache[u].healthy THEN "up" ELSE "down"]])

\* A probe gets a permit of this page's semaphore.
ProbeStart(r, u) ==
    /\ req[r].at = "landing" /\ req[r].dots[u] = "stale"
    /\ Cardinality({v \in Urls : req[r].dots[v] = "probing"}) < MaxProbes
    /\ Step(r, [req[r] EXCEPT !.dots[u] = "probing"])
    /\ UNCHANGED <<file, session, cache, up, clock, counters, history>>

\* probe_one answers, or times out although the service is up.
ProbeEnd(r, u) ==
    /\ req[r].at = "landing" /\ req[r].dots[u] = "probing"
    /\ \E healthy \in {up[u], FALSE} :
         /\ cache' = [cache EXCEPT ![u] = [at |-> clock, healthy |-> healthy]]
         /\ Step(r, [req[r] EXCEPT !.dots[u] = IF healthy THEN "up" ELSE "down"])
    /\ UNCHANGED <<file, session, up, clock, counters, history>>

LandingDone(r) ==
    /\ req[r].at = "landing"
    /\ \A u \in Urls : req[r].dots[u] \in {"up", "down"}
    /\ Answer(r)
    /\ UNCHANGED <<file, session, cache, up, clock, counters, history>>

-----------------------------------------------------------------------------
(***************************************************************************)
(* The rest of the box.                                                    *)
(***************************************************************************)

HandEdit(f) ==
    /\ hands < MaxHands /\ hands' = hands + 1
    /\ Replace(f, Reqs) /\ hand' = f.state
    /\ UNCHANGED <<session, cache, up, clock, requests, faults, born, out, upAt>>

Flip(u) ==
    /\ up[u] /\ clock > 0
    /\ up' = [up EXCEPT ![u] = FALSE]
    /\ UNCHANGED <<file, session, cache, req, clock, counters, history>>

\* A probe takes less than a tick.
Tick ==
    /\ clock < MaxClock /\ clock' = clock + 1
    /\ \A r \in Reqs, u \in Urls : req[r].dots[u] # "probing"
    /\ upAt' = [u \in Urls |-> IF up[u] THEN clock + 1 ELSE upAt[u]]
    /\ UNCHANGED <<file, session, cache, up, req, counters, hand, born, out>>

\* The process dies; the file and the sessions table stay.
Crash ==
    /\ Fault
    /\ req' = [r \in Reqs |-> NoReq]
    /\ cache' = [u \in Urls |-> [at |-> Never, healthy |-> FALSE]]
    /\ UNCHANGED <<file, session, up, clock, requests, hands, history>>

Next ==
    \/ \E r \in Reqs :
        \/ LoginPost(r) \/ CreateSession(r) \/ GateRequest(r) \/ Logout(r) \/ ReadOnly(r)
        \/ SaveRead(r) \/ SaveConfig(r) \/ WriteTmp(r) \/ Rename(r)
        \/ Landing(r) \/ LandingDone(r)
        \/ \E u \in Urls : ProbeStart(r, u) \/ ProbeEnd(r, u)
        \/ \E t \in Tokens \cup {NoToken} :
            \/ Guarded(r, "logout", t, NoForm) \/ Guarded(r, "other", t, NoForm)
            \/ \E form \in Forms : Guarded(r, "save", t, form)
    \/ \E f \in Files : HandEdit(f)
    \/ \E u \in Urls : Flip(u)
    \/ Tick \/ Crash

Spec == Init /\ [][Next]_vars

-----------------------------------------------------------------------------
(***************************************************************************)
(* Properties.                                                             *)
(***************************************************************************)

\* Saves that run in parallel, fail or die anywhere never leave a file that is
\* torn or that binds an attribute twice, by an inherit or otherwise ("A crash
\* mid-write leaves the original intact", write_atomic; splice_entry), given files
\* as Whole says.  What the text of a value evaluates to is not looked at.
FileStaysNix ==
    /\ file.state = "ok" \/ hand # "ok"
    /\ Evaluates(file.root)

\* "All-or-nothing": a save binds every path it edits to its new value and no
\* path twice, and leaves every other binding of the file it has read as it was,
\* whether the file writes its paths dotted or nested (set_attrpath).
SaveIsExact ==
    \A r \in Reqs : req[r].at \in {"write", "rename"} =>
        LET edits == UNION Range(req[r].edits)
        IN  Bindings(req[r].new) =
                {<<e.path, e.new>> : e \in edits}
                \cup {b \in Bindings(req[r].base) : \A e \in edits : ~IsPrefix(e.path, b[1])}

\* No text of the form has a "${", which quote_nix_string lets through.
Plain(form) ==
    /\ form.hostname # "interpolated" /\ form.domain # "interpolated"
    /\ \A u \in DOMAIN form.groups : "interpolated" \notin Range(form.groups[u])

\* When nobody else wrote the file meanwhile and no text of the form has a "${",
\* a save makes the editor show what was submitted, and a service that is not
\* ticked is never created.
SavedIsShown ==
    [][\A r \in Reqs :
        req[r].at = "rename" /\ req'[r].at = "idle" /\ file' # file /\ req[r].clean =>
        LET old == Extract(file.root)
            new == Extract(file'.root)
            form == req[r].form
        IN  Plain(form) =>
            /\ new.hostname = (IF old.hostname = {} THEN {} ELSE {<<form.hostname>>})
            /\ new.domain = (IF old.domain = {} THEN {} ELSE {<<form.domain>>})
            /\ \A s \in Range(Services) :
                 new.enabled[s] = (IF s \in form.on THEN {<<"true">>}
                                   ELSE IF old.enabled[s] = {} THEN {} ELSE {<<"false">>})
            /\ \A u \in DOMAIN old.groups \cap DOMAIN form.groups :
                 new.groups[u] = (IF old.groups[u] = {} /\ form.groups[u] = <<>> THEN {}
                                  ELSE {form.groups[u]})]_vars

\* No request gets behind the gate with a token that was never issued, that a
\* logout has ended or that is past its 24 hours, whatever else runs in between
\* (gate_request, get_session, logout).  Logout ignores a failing query.
GateHolds ==
    [][\A r \in Reqs : req[r].at = "gate" /\ req'[r].at = "handler" /\ faults = 0 =>
        LET t == req[r].token
        IN  born[t] # Never /\ clock < born[t] + SessionTtl /\ t \notin out]_vars

\* A green dot means that the service answered within the cache's TTL of the
\* page's request or during it, although pages share the cache and refresh it
\* under each other (Prober::snapshot).
DotIsRecent ==
    \A r \in Reqs, u \in Urls :
        req[r].at = "landing" /\ req[r].dots[u] = "up" => req[r].start - upAt[u] < CacheTtl
=============================================================================
