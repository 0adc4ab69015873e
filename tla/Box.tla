-------------------------------- MODULE Box --------------------------------
(***************************************************************************)
(* The customer's box (crates/client/src/{app,pairing,tunnel}.rs): how it  *)
(* boots, enrolls with the edge, brings its tunnel up, is claimed from its *)
(* dashboard, serves, stops, crashes and is restarted.                     *)
(*                                                                         *)
(* The box keeps three files (its WireGuard key, the tunnel it was given,  *)
(* its device token) and one kernel interface.  A file is opened and then  *)
(* written, and the process may die in between; no file is ever synced, so *)
(* a power loss may also take what the kernel had still to write back.     *)
(* Calls to the edge may fail before or after the edge has done its part.  *)
(* The edge's handlers are taken as atomic here; their interleavings are   *)
(* those of the module Invites.  systemd restarts the process when it      *)
(* fails.                                                                  *)
(***************************************************************************)
EXTENDS Integers, Sequences, SequencesExt

CONSTANTS
    Codes,        \* invites the owner may hand out
    Configs,      \* the configurations a box may be shipped with
    None, Static, \* no tunnel; the tunnel of the configuration file
    MaxPolls,     \* the poll budget of one enrollment (10_000 in the code)
    MaxFaults,    \* bound on calls to the edge that fail, failing commands, writes and
                  \* binds, kills of the process and power losses, together
    MaxTokens     \* enough token names for one to be free whenever one is drawn

\* What the flags, ConfigFile and the environment come down to: a static
\* tunnel, the invite ("bad" stands for a malformed URL), whether there are
\* forwards and whether one of them names {tunnel_ip} (forward_needs_tunnel),
\* and admin: everything parses and an admin hash is set.
ConfigShape == [tunnel : BOOLEAN, invite : Codes \cup {None, "bad"},
                forwards : BOOLEAN, needs : BOOLEAN, admin : BOOLEAN]

ASSUME ConfigsAreShapes ==
    /\ Configs \subseteq ConfigShape
    /\ \A c \in Configs : c.needs => c.forwards
ASSUME Distinct == None # Static /\ {None, Static, "bad", "torn"} \cap Codes = {}
ASSUME Bounds == {MaxPolls, MaxFaults, MaxTokens} \subseteq Nat
ASSUME EnoughTokens == IsFiniteSet(Codes) /\ 2 * Cardinality(Codes) + 3 <= MaxTokens

VARIABLES
    cfg,          \* the configuration of this box
    keyFile,      \* wg-private.key: absent, created but empty, or a key
    tunnelFile,   \* tunnel.json: absent, torn, or the machine it describes
    tokenFile,    \* device-token: 0 when absent or empty
    pc,           \* where run() is
    tun,          \* run()'s tunnel_cfg
    en,           \* the enrollment under way, by run() or by a claim
    claim,        \* the dashboard's ClaimState
    fwd, dash,    \* the forwarder and the dashboard's server
    stop,         \* the shutdown channel
    wg0,          \* the kernel's interface
    invite,       \* edge: the status of each invite
    machines,     \* edge: machines, by the invite that made them, oldest first
    hash,         \* edge: the token each machine accepts
    delivery,     \* edge: the delivery waiting for each invite
    pubkey,       \* edge: the key of each invite and of its machine, the box's own
                  \* or one the box has lost
    unsynced,     \* files written since the machine came up
    faults,       \* what has failed so far
    overlap,      \* history: an enrollment was started during another
    cut           \* history: files a power loss has taken

files == <<keyFile, tunnelFile, tokenFile>>
tasks == <<claim, fwd, dash, stop>>
edge == <<invite, machines, hash, delivery, pubkey>>
disk == <<unsynced, cut>>
vars == <<cfg, files, pc, tun, en, tasks, wg0, edge, disk, faults, overlap>>

-----------------------------------------------------------------------------
Ips == Codes \cup {Static}
Nothing == [mach |-> None, token |-> 0]
NoEnroll == [by |-> "none", at |-> "none", code |-> None, polls |-> 0, got |-> Nothing]
NoWg0 == [link |-> FALSE, key |-> FALSE, peer |-> FALSE, addrs |-> {}, up |-> FALSE]
Delivery == [mach : Codes \cup {None}, token : 0..MaxTokens]

Files == {"key", "tunnel", "token"}

EnrollPoints == {"none", "key", "keyWrite", "begin", "poll", "info", "tunnelOpen",
                 "tunnelWrite", "tokenOpen", "tokenWrite", "done"}
WgSteps == <<"link", "key", "peer", "addr", "up">>

\* Every variable has its type; the poll budget never goes below zero.
TypeOK ==
    /\ cfg \in Configs
    /\ keyFile \in {"absent", "empty", "key"}
    /\ tunnelFile \in Codes \cup {None, "torn"}
    /\ tokenFile \in 0..MaxTokens
    /\ pc \in {"halted", "failed", "check", "resolve", "enroll", "tunnelKey",
               "tunnelKeyWrite", "start", "running"} \cup ToSet(WgSteps)
    /\ tun \in Ips \cup {None}
    /\ en \in [by : {"none", "boot", "claim"}, at : EnrollPoints,
               code : Codes \cup {None}, polls : 0..MaxPolls, got : Delivery]
    /\ claim \in {"unclaimed", "awaiting", "failed"}
    /\ fwd \in {"none", "binding", "serving", "failed", "drained"}
    /\ dash \in {"none", "binding", "serving", "failed", "closed"}
    /\ stop \in BOOLEAN /\ overlap \in BOOLEAN
    /\ wg0 \in [link : BOOLEAN, key : BOOLEAN, peer : BOOLEAN,
                addrs : SUBSET Ips, up : BOOLEAN]
    /\ invite \in [Codes -> {"none", "dormant", "waiting", "approved", "denied"}]
    /\ machines \in Seq(Codes)
    /\ hash \in [Codes -> 0..MaxTokens]
    /\ delivery \in [Codes -> Delivery]
    /\ pubkey \in [Codes -> {"none", "box", "lost"}]
    /\ unsynced \subseteq Files /\ cut \subseteq Files
    /\ faults \in 0..MaxFaults

\* A box fresh from the factory, with invites for it already drawn.
Init ==
    /\ cfg \in Configs
    /\ keyFile = "absent" /\ tunnelFile = None /\ tokenFile = 0
    /\ pc = "halted" /\ tun = None /\ en = NoEnroll
    /\ claim = "unclaimed" /\ fwd = "none" /\ dash = "none" /\ stop = FALSE
    /\ wg0 = NoWg0
    /\ invite = [c \in Codes |-> "dormant"]
    /\ machines = <<>> /\ hash = [c \in Codes |-> 0]
    /\ delivery = [c \in Codes |-> Nothing] /\ pubkey = [c \in Codes |-> "none"]
    /\ unsynced = {} /\ cut = {}
    /\ faults = 0
    /\ overlap = FALSE

-----------------------------------------------------------------------------
(***************************************************************************)
(* The process.                                                            *)
(***************************************************************************)

\* What a new process starts with: only the files and the kernel survive.
Fresh(point) ==
    /\ pc' = point
    /\ tun' = None /\ en' = NoEnroll
    /\ claim' = "unclaimed" /\ fwd' = "none" /\ dash' = "none" /\ stop' = FALSE

\* A return 1 from run() before it has spawned anything.
Exit == Fresh("failed")

\* Something fails.
Fault == faults < MaxFaults /\ faults' = faults + 1

\* systemd: Restart = "on-failure".
Restart ==
    /\ pc = "failed"
    /\ Fresh("check")
    /\ UNCHANGED <<cfg, files, wg0, edge, disk, faults, overlap>>

\* An operator starts a box that is off.
Start ==
    /\ pc = "halted"
    /\ Fresh("check")
    /\ UNCHANGED <<cfg, files, wg0, edge, disk, faults, overlap>>

\* The process is killed.
Crash ==
    /\ pc \notin {"halted", "failed"}
    /\ Fault /\ Fresh("failed")
    /\ UNCHANGED <<cfg, files, wg0, edge, disk, overlap>>

\* The machine goes down, and takes the kernel's state and those of the files written
\* since it came up that the kernel, in its own time, had not written back: each is
\* gone, or there without its content.  (A token that falls back to an older one
\* counts as gone.)
PowerLoss ==
    /\ Fault /\ Fresh("failed")
    /\ wg0' = NoWg0
    /\ \E gone \in SUBSET unsynced :
         /\ keyFile' \in IF "key" \in gone THEN {"absent", "empty"} ELSE {keyFile}
         /\ tunnelFile' \in IF "tunnel" \in gone THEN {None, "torn"} ELSE {tunnelFile}
         /\ tokenFile' = IF "token" \in gone THEN 0 ELSE tokenFile
         /\ pubkey' = [c \in Codes |-> IF "key" \in gone /\ pubkey[c] = "box" THEN "lost"
                                      ELSE pubkey[c]]
         /\ cut' = cut \cup gone
    /\ unsynced' = {}
    /\ UNCHANGED <<cfg, invite, machines, hash, delivery, overlap>>

\* A file is created, truncated or written.
Dirty(f) == unsynced' = unsynced \cup {f} /\ UNCHANGED cut

\* run(): flags or a file that do not parse, both a tunnel and an invite, or no
\* admin hash: refused before any side effect.
Check ==
    /\ pc = "check"
    /\ IF (cfg.tunnel /\ cfg.invite # None) \/ ~cfg.admin
         THEN Exit
         ELSE pc' = "resolve" /\ UNCHANGED <<tun, en, tasks>>
    /\ UNCHANGED <<cfg, files, wg0, edge, disk, faults, overlap>>

\* persisted_tunnel_state: a missing or unreadable file is no enrollment.
Persisted == tunnelFile \in Codes

Enroll(by, c) == [NoEnroll EXCEPT !.by = by, !.at = "key", !.code = c, !.polls = MaxPolls]

\* Mutant: a configured invite is dialed before the persisted state is read.
ResolveInviteFirst ==
    /\ pc = "resolve"
    /\ \/ /\ cfg.invite = "bad" /\ Exit
       \/ /\ cfg.invite \in Codes
          /\ pc' = "enroll" /\ en' = Enroll("boot", cfg.invite)
          /\ UNCHANGED <<tun, tasks>>
       \/ /\ cfg.invite = None
          /\ pc' = IF Persisted \/ cfg.tunnel THEN "tunnelKey" ELSE "start"
          /\ tun' = IF Persisted THEN tunnelFile
                    ELSE IF cfg.tunnel THEN Static ELSE None
          /\ UNCHANGED <<en, tasks>>
    /\ UNCHANGED <<cfg, files, wg0, edge, disk, faults, overlap>>

\* The tunnel: a persisted enrollment, or else the invite, or else the one in
\* the configuration, or none.
Resolve ==
    /\ pc = "resolve"
    /\ \/ /\ Persisted
          /\ pc' = "tunnelKey" /\ tun' = tunnelFile
          /\ UNCHANGED <<en, tasks>>
       \/ /\ ~Persisted /\ cfg.invite = "bad" /\ Exit
       \/ /\ ~Persisted /\ cfg.invite \in Codes
          /\ pc' = "enroll" /\ en' = Enroll("boot", cfg.invite)
          /\ UNCHANGED <<tun, tasks>>
       \/ /\ ~Persisted /\ cfg.invite = None
          /\ pc' = IF cfg.tunnel THEN "tunnelKey" ELSE "start"
          /\ tun' = IF cfg.tunnel THEN Static ELSE None
          /\ UNCHANGED <<en, tasks>>
    /\ UNCHANGED <<cfg, files, wg0, edge, disk, faults, overlap>>

\* ensure_keypair for the interface: a key that is there is kept; an empty
\* file makes create_new fail and its content is not a key.
TunnelKey ==
    /\ pc = "tunnelKey"
    /\ \/ keyFile = "key" /\ pc' = "link" /\ UNCHANGED <<keyFile, tun, en, tasks, disk>>
       \/ keyFile = "empty" /\ Exit /\ UNCHANGED <<keyFile, disk>>
       \/ /\ keyFile = "absent"
          /\ keyFile' = "empty" /\ Dirty("key")
          /\ pc' = "tunnelKeyWrite" /\ UNCHANGED <<tun, en, tasks>>
    /\ UNCHANGED <<cfg, tunnelFile, tokenFile, wg0, edge, faults, overlap>>

TunnelKeyWrite ==
    /\ pc = "tunnelKeyWrite"
    /\ keyFile' = "key" /\ Dirty("key") /\ pc' = "link"
    /\ UNCHANGED <<cfg, tunnelFile, tokenFile, tun, en, tasks, wg0, edge, faults, overlap>>

\* What one command of bring_up_wg0 leaves behind; each is skipped or has no
\* effect when its work is already done.
Configured(w, step) ==
    CASE step = "link" -> [w EXCEPT !.link = TRUE]
      [] step = "key"  -> [w EXCEPT !.key = TRUE]
      [] step = "peer" -> [w EXCEPT !.peer = TRUE]
      [] step = "addr" -> [w EXCEPT !.addrs = @ \cup {tun}]
      [] step = "up"   -> [w EXCEPT !.up = TRUE]

\* Mutant: an interface that is already there is taken to be configured.
BringUpOnce(i) ==
    /\ pc = WgSteps[i]
    /\ IF i = 1 /\ wg0.link
         THEN pc' = "start" /\ UNCHANGED wg0
         ELSE /\ wg0' = Configured(wg0, WgSteps[i])
              /\ pc' = IF i = Len(WgSteps) THEN "start" ELSE WgSteps[i + 1]
    /\ UNCHANGED <<cfg, files, tun, en, tasks, edge, disk, faults, overlap>>

\* bring_up_wg0, one command at a time; one that fails ends the process.
BringUp(i) ==
    /\ pc = WgSteps[i]
    /\ \/ /\ wg0' = Configured(wg0, WgSteps[i])
          /\ pc' = IF i = Len(WgSteps) THEN "start" ELSE WgSteps[i + 1]
          /\ UNCHANGED <<tun, en, tasks, faults>>
       \/ Fault /\ Exit /\ UNCHANGED wg0
    /\ UNCHANGED <<cfg, files, edge, disk, overlap>>

\* boot_mode.
Mode == IF tun = None /\ cfg.needs THEN "claimable" ELSE "full"

\* The rest of run() up to its wait: the forwarder (None without forwards,
\* see bindable_forwards), the catalog and the session store, either of which
\* may refuse, and the tasks.
Serve ==
    /\ pc = "start"
    /\ \/ /\ pc' = "running"
          /\ fwd' = IF Mode = "full" /\ cfg.forwards THEN "binding" ELSE "none"
          /\ dash' = "binding"
          /\ UNCHANGED <<tun, en, claim, stop, faults>>
       \/ Fault /\ Exit
    /\ UNCHANGED <<cfg, files, wg0, edge, disk, overlap>>

\* Forwarder::run binds, within bind_timeout or not at all.  run() does not
\* leave when it fails: it goes on to wait for the other tasks.
ForwarderBind ==
    /\ fwd = "binding" /\ ~stop
    /\ \/ fwd' = "serving" /\ UNCHANGED faults
       \/ Fault /\ fwd' = "failed"
    /\ UNCHANGED <<cfg, files, pc, tun, en, claim, dash, stop, wg0, edge, disk, overlap>>

\* The dashboard binds its port; a failure is only logged.
DashboardBind ==
    /\ dash = "binding" /\ ~stop
    /\ \/ dash' = "serving" /\ UNCHANGED faults
       \/ Fault /\ dash' = "failed"
    /\ UNCHANGED <<cfg, files, pc, tun, en, claim, fwd, stop, wg0, edge, disk, overlap>>

\* readyz: the status has a bound forward; without a forwarder, as in
\* claimable mode, there are none to be bound.
Ready == fwd = "serving"

\* wait_for_signal returns and the signal task flips the channel.
Signal ==
    /\ pc = "running" /\ ~stop
    /\ stop' = TRUE
    /\ UNCHANGED <<cfg, files, pc, tun, en, claim, fwd, dash, wg0, edge, disk, faults, overlap>>

\* Told to stop, a bind that is being retried is given up with an error, a
\* forwarder drains and the dashboard closes.
Drain ==
    /\ stop
    /\ \/ fwd = "serving" /\ fwd' = "drained" /\ UNCHANGED dash
       \/ fwd = "binding" /\ fwd' = "failed" /\ UNCHANGED dash
       \/ dash \in {"binding", "serving"} /\ dash' = "closed" /\ UNCHANGED fwd
    /\ UNCHANGED <<cfg, files, pc, tun, en, claim, stop, wg0, edge, disk, faults, overlap>>

\* run() returns once the forwarder, or the wait in its place, and every task
\* have ended; with code 1 when the forwarder failed, and then systemd
\* restarts it.  A claim still under way ends with the runtime.
Leave ==
    /\ pc = "running" /\ stop
    /\ fwd \in {"none", "failed", "drained"} /\ dash \in {"failed", "closed"}
    /\ Fresh(IF fwd = "failed" THEN "failed" ELSE "halted")
    /\ UNCHANGED <<cfg, files, wg0, edge, disk, faults, overlap>>

-----------------------------------------------------------------------------
(***************************************************************************)
(* enroll(): key, begin, poll, edge_info, persist.                         *)
(***************************************************************************)

\* Mutant: a claim that fails does not say so.
EnrollFailsSilently ==
    IF en.by = "boot" THEN Exit
    ELSE en' = NoEnroll /\ UNCHANGED <<pc, tun, tasks>>

\* An error: run() exits, a claim reports it.
EnrollFails ==
    IF en.by = "boot" THEN Exit
    ELSE en' = NoEnroll /\ claim' = "failed" /\ UNCHANGED <<pc, tun, fwd, dash, stop>>

EnrollAt(point) ==
    en' = [en EXCEPT !.at = point] /\ UNCHANGED <<pc, tun, tasks>>

\* Mutant: the key is sent to the edge before it is in its file.
EnrollKeyUnwritten ==
    /\ en.at = "key"
    /\ \/ keyFile \in {"key", "empty"} /\ EnrollAt("begin") /\ UNCHANGED <<keyFile, disk>>
       \/ keyFile = "absent" /\ keyFile' = "empty" /\ Dirty("key") /\ EnrollAt("begin")
    /\ UNCHANGED <<cfg, tunnelFile, tokenFile, wg0, edge, faults, overlap>>

\* ensure_keypair, as in TunnelKey.
EnrollKey ==
    /\ en.at = "key"
    /\ \/ keyFile = "key" /\ EnrollAt("begin") /\ UNCHANGED <<keyFile, disk>>
       \/ keyFile = "empty" /\ EnrollFails /\ UNCHANGED <<keyFile, disk>>
       \/ keyFile = "absent" /\ keyFile' = "empty" /\ Dirty("key") /\ EnrollAt("keyWrite")
    /\ UNCHANGED <<cfg, tunnelFile, tokenFile, wg0, edge, faults, overlap>>

EnrollKeyWrite ==
    /\ en.at = "keyWrite"
    /\ keyFile' = "key" /\ Dirty("key") /\ EnrollAt("begin")
    /\ UNCHANGED <<cfg, tunnelFile, tokenFile, wg0, edge, faults, overlap>>

\* A call to the edge fails, before or after the edge has handled it.
CallFails(handled) ==
    /\ Fault
    /\ EnrollFails
    /\ handled \/ UNCHANGED edge
    /\ UNCHANGED <<cfg, files, wg0, disk, overlap>>

Answered == UNCHANGED <<cfg, files, wg0, disk, faults, overlap>>

\* random_token_hex: a token nobody holds.
FreshToken ==
    CHOOSE t \in 1..MaxTokens :
        t \notin {tokenFile, en.got.token} \cup Range(hash) \cup {d.token : d \in Range(delivery)}

\* The machines with the box's key, by their place, and the oldest of them.
Mine == {i \in DOMAIN machines : pubkey[machines[i]] = "box"}
Oldest(m) == \E i \in Mine : machines[i] = m /\ \A j \in Mine : i <= j

\* Mutant: the new token's hash is not stored.
RearmUnstored(c, m) ==
    /\ delivery' = [delivery EXCEPT ![c] = [mach |-> m, token |-> FreshToken]]
    /\ UNCHANGED <<invite, machines, hash, pubkey>>

\* rearm_delivery: a fresh token for machine m.
Rearm(c, m) ==
    /\ hash' = [hash EXCEPT ![m] = FreshToken]
    /\ delivery' = [delivery EXCEPT ![c] = [mach |-> m, token |-> FreshToken]]
    /\ UNCHANGED <<invite, machines, pubkey>>

\* Mutant: an approved invite does not re-arm its delivery.
EdgeBeginOnce(c) ==
    \/ /\ invite[c] \in {"dormant", "waiting"}
       /\ invite' = [invite EXCEPT ![c] = "waiting"]
       /\ pubkey' = [pubkey EXCEPT ![c] = "box"]
       /\ UNCHANGED <<machines, hash, delivery>>
    \/ invite[c] = "approved" /\ pubkey[c] = "box" /\ UNCHANGED edge

\* invite_begin where it succeeds: a candidate's key is registered, and an approved
\* invite re-arms its delivery for the key it was approved with, and for no other: it
\* finds the machine by that key, the oldest first.
EdgeBegin(c) ==
    \/ /\ invite[c] \in {"dormant", "waiting"}
       /\ invite' = [invite EXCEPT ![c] = "waiting"]
       /\ pubkey' = [pubkey EXCEPT ![c] = "box"]
       /\ UNCHANGED <<machines, hash, delivery>>
    \/ /\ invite[c] = "approved" /\ pubkey[c] = "box"
       /\ \E m \in Codes : Oldest(m) /\ Rearm(c, m)

\* It refuses, or, with no machine left to re-arm, panics, which the box sees as a
\* failed call.
Refused(c) ==
    \/ invite[c] \in {"none", "denied"}
    \/ invite[c] = "approved" /\ (pubkey[c] # "box" \/ Mine = {})

Begin ==
    /\ en.at = "begin"
    /\ \/ EdgeBegin(en.code) /\ EnrollAt("poll") /\ Answered
       \/ Refused(en.code) /\ EnrollFails /\ UNCHANGED edge /\ Answered
       \/ CallFails(FALSE)
       \/ EdgeBegin(en.code) /\ CallFails(TRUE)

\* GETDEL: the delivery leaves the edge with the answer.
TakeDelivery(c) ==
    /\ delivery' = [delivery EXCEPT ![c] = Nothing]
    /\ UNCHANGED <<invite, machines, hash, pubkey>>

\* One round of the poll loop: approved with its payload goes on, waiting
\* takes one from the budget, and everything else ends the enrollment: denied
\* or unknown invites, an approval whose delivery is gone, an empty budget.
Poll ==
    /\ en.at = "poll"
    /\ \/ /\ invite[en.code] = "approved" /\ delivery[en.code] # Nothing
          /\ en' = [en EXCEPT !.at = "info", !.got = delivery[en.code]]
          /\ TakeDelivery(en.code) /\ UNCHANGED <<pc, tun, tasks>> /\ Answered
       \/ /\ invite[en.code] = "waiting" /\ en.polls > 0
          /\ en' = [en EXCEPT !.polls = @ - 1]
          /\ UNCHANGED <<pc, tun, tasks, edge>> /\ Answered
       \/ /\ \/ invite[en.code] = "waiting" /\ en.polls = 0
             \/ invite[en.code] \in {"none", "dormant", "denied"}
             \/ invite[en.code] = "approved" /\ delivery[en.code] = Nothing
          /\ EnrollFails /\ UNCHANGED edge /\ Answered
       \/ CallFails(FALSE)
       \/ invite[en.code] = "approved" /\ TakeDelivery(en.code) /\ CallFails(TRUE)

\* edge_info: the edge's own tunnel facts; nothing changes there.
EdgeInfo ==
    /\ en.at = "info"
    /\ \/ EnrollAt("tunnelOpen") /\ UNCHANGED edge /\ Answered
       \/ CallFails(FALSE)

\* persist_tunnel_state and persist_device_token: open with truncation, then
\* write; either may fail.
Persist ==
    /\ \/ /\ en.at = "tunnelOpen" /\ tunnelFile' = "torn" /\ Dirty("tunnel")
          /\ EnrollAt("tunnelWrite") /\ UNCHANGED <<tokenFile, faults>>
       \/ /\ en.at = "tunnelWrite" /\ tunnelFile' = en.got.mach /\ Dirty("tunnel")
          /\ EnrollAt("tokenOpen") /\ UNCHANGED <<tokenFile, faults>>
       \/ /\ en.at = "tokenOpen" /\ tokenFile' = 0 /\ Dirty("token")
          /\ EnrollAt("tokenWrite") /\ UNCHANGED <<tunnelFile, faults>>
       \/ /\ en.at = "tokenWrite" /\ tokenFile' = en.got.token /\ Dirty("token")
          /\ EnrollAt("done") /\ UNCHANGED <<tunnelFile, faults>>
       \/ /\ en.at \in {"tunnelOpen", "tunnelWrite", "tokenOpen", "tokenWrite"}
          /\ Fault /\ EnrollFails /\ UNCHANGED <<tunnelFile, tokenFile, disk>>
    /\ UNCHANGED <<cfg, keyFile, wg0, edge, overlap>>

\* run() goes on with the tunnel it enrolled for.
Enrolled ==
    /\ en.at = "done" /\ en.by = "boot"
    /\ pc' = "tunnelKey" /\ tun' = en.got.mach /\ en' = NoEnroll
    /\ UNCHANGED <<cfg, files, tasks, wg0, edge, disk, faults, overlap>>

\* claim() re-executes the process, whatever the rest of it is doing; an exec
\* that fails panics in the claim's task alone.
Reexec ==
    /\ en.at = "done" /\ en.by = "claim"
    /\ \/ Fresh("check") /\ UNCHANGED faults
       \/ Fault /\ en' = NoEnroll /\ UNCHANGED <<pc, tun, tasks>>
    /\ UNCHANGED <<cfg, files, wg0, edge, disk, overlap>>

\* Mutant: a claim may be started while another one waits.
ClaimSubmitAgain(c) ==
    /\ dash = "serving"
    /\ \/ (Persisted \/ c = "bad") /\ claim' = "failed" /\ UNCHANGED <<en, overlap>>
       \/ /\ ~Persisted /\ c \in Codes
          /\ claim' = "awaiting" /\ en' = Enroll("claim", c)
          /\ overlap' = (overlap \/ en # NoEnroll)
    /\ UNCHANGED <<cfg, files, pc, tun, fwd, dash, stop, wg0, edge, disk, faults>>

\* claim_submit: refused when an enrollment is persisted, ignored while one is
\* awaited, failed for a malformed link; otherwise it spawns claim().
ClaimSubmit(c) ==
    /\ dash = "serving"
    /\ \/ Persisted /\ claim' = "failed" /\ UNCHANGED <<en, overlap>>
       \/ /\ ~Persisted /\ claim # "awaiting" /\ c = "bad"
          /\ claim' = "failed" /\ UNCHANGED <<en, overlap>>
       \/ /\ ~Persisted /\ claim # "awaiting" /\ c \in Codes
          /\ claim' = "awaiting" /\ en' = Enroll("claim", c)
          /\ overlap' = (overlap \/ en # NoEnroll)
    /\ UNCHANGED <<cfg, files, pc, tun, fwd, dash, stop, wg0, edge, disk, faults>>

-----------------------------------------------------------------------------
(***************************************************************************)
(* The owner and time, at the edge.                                        *)
(***************************************************************************)

\* invite_approve: a machine of its own, with the invite's key, and its first
\* delivery.
Approve(c) ==
    /\ invite[c] = "waiting"
    /\ invite' = [invite EXCEPT ![c] = "approved"]
    /\ machines' = Append(machines, c)
    /\ hash' = [hash EXCEPT ![c] = FreshToken]
    /\ delivery' = [delivery EXCEPT ![c] = [mach |-> c, token |-> FreshToken]]
    /\ UNCHANGED <<cfg, files, pc, tun, en, tasks, wg0, pubkey, disk, faults, overlap>>

\* invite_deny; invite_revoke and the invite's TTL.
Refuse(c) ==
    /\ \/ invite[c] = "waiting" /\ invite' = [invite EXCEPT ![c] = "denied"]
       \/ invite[c] # "none" /\ invite' = [invite EXCEPT ![c] = "none"]
    /\ UNCHANGED <<cfg, files, pc, tun, en, tasks, wg0, machines, hash, delivery,
                   pubkey, disk, faults, overlap>>

\* ControlPlane::delete.
Delete(c) ==
    /\ \E i \in DOMAIN machines : machines[i] = c /\ machines' = RemoveAt(machines, i)
    /\ hash' = [hash EXCEPT ![c] = 0]
    /\ UNCHANGED <<cfg, files, pc, tun, en, tasks, wg0, invite, delivery, pubkey, disk,
                   faults, overlap>>

\* The delivery's TTL, rare next to a poll every five seconds: one of the
\* bounded losses.
ExpireDelivery(c) ==
    /\ delivery[c] # Nothing
    /\ Fault
    /\ TakeDelivery(c)
    /\ UNCHANGED <<cfg, files, pc, tun, en, tasks, wg0, disk, overlap>>

-----------------------------------------------------------------------------
BootStep ==
    \/ Check \/ Resolve \/ TunnelKey \/ TunnelKeyWrite \/ Serve
    \/ \E i \in DOMAIN WgSteps : BringUp(i)
EnrollStep ==
    EnrollKey \/ EnrollKeyWrite \/ Begin \/ Poll \/ EdgeInfo \/ Persist \/ Enrolled \/ Reexec

Next ==
    \/ Restart \/ Start \/ Crash \/ PowerLoss \/ BootStep \/ EnrollStep
    \/ ForwarderBind \/ DashboardBind \/ Signal \/ Drain \/ Leave
    \/ \E c \in Codes : Approve(c) \/ Refuse(c) \/ Delete(c) \/ ExpireDelivery(c)
    \/ \E c \in Codes \cup {"bad"} : ClaimSubmit(c)

\* Steps of the box come to pass, and so do the ends of its calls, answered or
\* failed.  For the calls that is an assumption on the network: the client sets no
\* timeout, so a call that the edge takes and never answers would hold the box.
Fairness ==
    /\ WF_vars(BootStep) /\ WF_vars(EnrollStep) /\ WF_vars(Restart)
    /\ WF_vars(ForwarderBind) /\ WF_vars(DashboardBind)
    /\ WF_vars(Drain) /\ WF_vars(Leave)

Spec == Init /\ [][Next]_vars /\ Fairness

-----------------------------------------------------------------------------
(***************************************************************************)
(* Properties.                                                             *)
(***************************************************************************)

\* enroll: "A previous enrollment is never repeated".  No box that boots, is
\* claimed, or both, dials the edge while it holds a readable tunnel.json; and
\* no two enrollments, which would race for the key file and the one-time
\* delivery, ever run side by side.
EnrollsOnce ==
    /\ en.at \in {"key", "keyWrite", "begin", "poll", "info"} => ~Persisted
    /\ ~overlap

\* The edge learns a key only once it is in the box's file, so that a process killed
\* at any point never leaves an invite or a machine whose private key is lost.  A
\* power loss may: ensure_keypair does not sync the file.
KnownKeyIsStored ==
    "key" \notin cut =>
        \A c \in Codes : invite[c] \in {"waiting", "approved"} =>
            keyFile = "key" /\ pubkey[c] = "box"

\* A box that runs with a tunnel has brought it up completely, whatever a
\* failed or killed earlier attempt left in the kernel; and no forward that
\* names {tunnel_ip} is bound, or reported ready, without one.
TunnelIsUp ==
    /\ pc = "running" /\ tun # None =>
         wg0.link /\ wg0.key /\ wg0.peer /\ wg0.up /\ tun \in wg0.addrs
    /\ cfg.needs /\ (fwd = "binding" \/ Ready) => tun # None

\* The token on disk is the one the edge accepts for the machine in tunnel.json,
\* however often the delivery was lost, re-armed and repeated, unless a power loss
\* took the tunnel.json that was written with it.
TokenIsCurrent ==
    "tunnel" \notin cut /\ Persisted /\ tokenFile # 0 /\ tunnelFile \in ToSet(machines)
        => hash[tunnelFile] = tokenFile

\* "a missed delivery is recovered by re-begin with the same pubkey": a box
\* that boots with an invite ends up running with its tunnel once the owner
\* has approved it, whatever calls are lost, files torn or lost with the power and
\* processes killed on the way, unless the invite or the machine is removed, the box
\* stopped, or a power loss took the key the invite was approved for.
ApprovedBoxEnrolls ==
    \A c \in Codes :
        (cfg.invite = c /\ ~cfg.tunnel /\ cfg.admin /\ invite[c] = "approved")
            ~> \/ pc = "running" /\ tun # None
               \/ invite[c] = "none" \/ Mine = {} \/ pc = "halted" \/ "key" \in cut

\* A claim does not stay "awaiting" for ever: it is carried out or reported.
ClaimEnds == claim = "awaiting" ~> (claim # "awaiting" \/ Persisted)

=============================================================================
