# A TLA+ model of fortress

Fortress gives a machine behind NAT a public address. An *edge* on the internet
owns a routed IPv6 subnet; a *box* at home dials an invite, is approved by its
owner, and gets a `/128`, a WireGuard tunnel and DNS records. The edge relays
ports 80 and 443 of that `/128` through the tunnel, and a forwarder on the box
hands the connections to its services.

This directory specifies the parts of that system in which several things
happen at once or can fail half-way, checks them with TLC on small instances,
and proves the most important invariants with TLAPS for all instances.
`PROJECT.json` has the runs, the map from definitions to source lines, the
hazards, the findings and the theorems in a form tools can read.

## Inventory

| Component (source) | State | Operations | Interacts with |
|---|---|---|---|
| Machine provisioning (`controlplane/mod.rs`) | Redis: record per name, allocation counter, index list | `allocate_machine` (fresh, same key, rotation), `rollback_allocation`, `delete`, `list`, `rehydrate`, `store_machine`, `reconcile_dns_once` | WireGuard, forwarder, DNS; called by invites, accounts and the admin API |
| WireGuard peers (`controlplane/wg.rs`, `core/wg.rs`) | kernel peer table | `add_peer`, `remove_peer` | provisioning |
| DNS (`controlplane/dns.rs`) | provider's AAAA records | upsert, remove, reconcile pass | provisioning, edge process |
| Invite enrollment (`controlplane/pairing.rs`) | Redis: invite per code, one-time delivery, token hash in the machine record | create, begin, poll, approve, deny, revoke, re-arm, `device_register` | provisioning; box |
| Accounts (`controlplane/account.rs`, `mail.rs`) | Redis: account, verify and reset tokens, sessions | signup, verify, login, logout, resend, reset, delete | mail, invites, provisioning |
| Edge process (`bin/fortress-edge.rs`) | tasks, shutdown channel | boot, rehydrate, serve, reconcile loop, stop | all of the above |
| Forwarder (`core/forwarder.rs`, `tcp.rs`, `retry.rs`) | status rows, abort handles, counters, serve tasks | `run`, `add_forward`, `remove_forward`, accept, relay, drain | provisioning on the edge, the box's main |
| UDP flows (`core/udp.rs`) | flow map, last-activity times, relay tasks | receive, create, relay, expire, stop | forwarder |
| Box (`client/app.rs`, `pairing.rs`, `tunnel.rs`) | key, tunnel and token files, kernel interface, tasks | boot, enroll, claim, bring up, serve, stop | invites over HTTP; forwarder; dashboard |
| Dashboard (`client/dashboard/`) | sessions (SQLite), configuration file, liveness cache | login, logout, edit, save, landing page, claim | box; operator's editor |
| Web (`controlplane/web.rs`, `site/`, `web-ui/`, the JSON API) | session cookie, what a page links to | every page, form and route a customer uses | accounts, invites, provisioning |
| Health, logging, secrets, Nix and Terraform | none of their own | — | — |

What makes the code hard:

* **Redis without transactions.** Every handler is a sequence of awaited
  commands. Records are read, changed and written back whole; another handler
  may run between any two commands, and the process may die there.
* **Durable and live state.** A machine is a record *and* a peer *and* two
  listeners *and* DNS. They are created and destroyed one by one, each step can
  fail, and only `rehydrate` at boot reconciles them.
* **One-time things.** Invite codes, device tokens and deliveries must be used
  once, although boxes retry and responses get lost.
* **Files and commands.** The box and its dashboard write files that must
  survive a crash between open, write and rename, and configure the kernel by a
  series of commands.
* **Two front ends and an API over one back end.** A session is resolved in one
  step and used in another; tabs share a cookie; every failure must lead to a
  page from which the customer can go on.
* **Tasks and locks.** The forwarder's rows, handles, counters and flow maps
  are shared by tasks on several threads, under separate locks; tasks end by a
  signal, an abort, an error or a timeout, in any order.

What each component must get right is in the run table below; every place where
this can go wrong is a hazard in `PROJECT.json`, at its line.

## Modules

| Module | Models | Composed with |
|---|---|---|
| `Provisioning` | provisioning, the peer table, the edge's listeners and DNS at the level of "which index", crash and boot | implements `Registry` |
| `Registry` | what provisioning promises: a table of machines that changes in single steps | instantiated by `Provisioning` |
| `MCProvisioning` | instances: two names that share a key, and two names with keys of their own | extends `Provisioning` |
| `ProvisioningProofs` | the TLAPS proofs | extends `Provisioning` |
| `Invites` | invite enrollment and the machine record it shares with provisioning | abstracts `allocate_machine` to its writes of the record |
| `MCInvites` | instances: one invite dialed with two keys; two invites of two accounts | extends `Invites` |
| `InvitesProofs` | the TLAPS proofs | extends `Invites` |
| `Accounts` | accounts, magic links, sessions, and the invite handlers behind a session | abstracts invites to their status and machines to their owner |
| `MCAccounts` | symmetry of requests and sessions | extends `Accounts` |
| `AccountsProofs` | the TLAPS proofs | extends `Accounts` |
| `Forwarder` | `run`, live forwards, accept loops, relays | run directly |
| `UdpFlows` | one UDP forward | run directly |
| `ForwarderProofs` | the TLAPS proofs about both | extends `Forwarder` and `UdpFlows`, which share no name |
| `Box` | the box's process, files, tunnel and claim, with the edge's side of an enrollment | composes `Invites`' operations, as atomic steps, with the box and a lossy network |
| `MCBox` | instance: seven ways a box may be configured | extends `Box` |
| `BoxProofs` | the TLAPS proofs | extends `Box` |
| `Edge` | the two binaries that run the control plane, their tasks, addresses, and DNS records | composes allocation and deletion, as store steps, with the DNS calls they and the reconcile loop make |
| `MCEdge` | instance: eight launches, addresses of two-bit bytes | extends `Edge` |
| `EdgeProofs` | the TLAPS proofs | extends `Edge` |
| `NixTree` | a configuration file as a tree, and what the parser promises to find, replace, insert and list in it | used by `Dashboard` and `NixConfig` |
| `NixConfig` | the parser's recursive walks over a document | extends `NixTree` and is checked against it |
| `MCNixConfig` | documents of up to two entries, on which TLC compares the two; a file with a set in two pieces and one with an inherit | extends `NixConfig` |
| `Dashboard` | sessions, the editor's save, the landing page | extends `NixTree` |
| `MCDashboard` | instance: four files in different styles, four forms | extends `Dashboard`, and `MCNixConfig` for its assumptions |
| `DashboardProofs` | the TLAPS proofs | extends `Dashboard` |
| `Portal` | a customer's browser on the edge's pages, the site's pages or the API | composes the operations of `Accounts`, `Invites` and `Provisioning`, as atomic steps, with the pages that lead to them |
| `MCPortal` | symmetry of addresses, sessions and links | extends `Portal` |
| `PortalProofs` | the TLAPS proofs | extends `Portal` |

### Provisioning

`rec`, `counter` and `listed` are the Redis keys; `route` is the kernel's peer
table (which index's tunnel IP a key owns); `listener` the bound ports per
index; `dns` the index the AAAA records name. A machine's `/128` and tunnel IP
are both computed from its host index, so the index stands for the pair. Each
handler `r` has a program counter `pc[r]` and locals `loc[r]`; an action is one
Redis command, one `wg` call, one bind or one DNS call of `allocate_machine`,
`rollback_allocation` or `delete`, in the order of the code. A wiring call may
fail (`Fault`), a handler may be cut off where it awaits (`Abort`: a Redis error
or a cancelled future), and the process may crash, with or without the host
(`Crash`), after which `Boot`, `Rehydrate` and `Serve` run. The constant
`Overlap` says which operations may run on one name at the same time; the code
itself excludes none. `heldBy` and `gaveBack` are history variables.

`allocate_machine` takes any key for any name. `KeysOf` is the environment: the
keys that callers present for each name, which may be shared between names, as a
refused approval does (see `invites_name_taken`). What is said of a machine's
peer is for names whose keys are presented for no other (`Private`), because the
kernel has one route per key; what is said of indices, listeners and the
registry is for any. One branch is left out: `delete` of a record that does not
parse (`mod.rs:733-744`), since no operation writes one.

`Registry` is the interface other components rely on: indices are reserved, once
and for one name; a machine is registered with an index reserved for its name,
gets a new key, and is released, in one step each; and the promise is void once
an index has been given back. `Table` in `Provisioning` instantiates it with
`entry <- rec`, `owner <- heldBy` and `void <- gaveBack`. `ImplementsRegistry` says
that every behaviour of provisioning is one of the registry, whatever operations
overlap. A rotation that overlaps a deletion brings the machine back, and the
registry's `Rotate` allows it; where operations on one name do not overlap
(`Serial`), a machine keeps its index for life and nothing is ever given back.

### Invites

`invite`, `delivery`, `machine` and `indexed` are Redis; `issued` numbers the
device tokens. A handler's GET, decision and SET are separate actions when
another handler can get in between. `allocate_machine` appears with its GET,
its SETNX (or rotation's SET) and its outcome; what it does to the counter, the
kernel and the listeners is `Provisioning`'s. SETNX and RPUSH are one action
here, and a failed allocation is an `Abort`. Handlers overlap in any way, on one
invite and on one machine: nothing in the code keeps them apart. A handler
remembers the status of the invite it read (`seen`). `KeysOf` is the environment,
the keys the boxes that dial an invite present.

`delivered` and `enrolled` are history variables, and so are the two sets that
say where the code's promises end. `spoiled` has the invites for which approvals
under two names overlapped, a dial wrote over a decision, or an approval was cut
off after it had created its machine. `stale` has the machines whose record was
written on an outdated reading, whose waiting token was overtaken by another
handler's, that were rotated by a refused approval, or whose handler was cut off
between record and delivery. No handler's course depends on them. The properties
say that these are the only ways to lose what they promise.

### Accounts

`account`, `link` and `session` are the Redis keys of `account.rs`; `invite` and
`machine` keep of an invite its owner and status and of a machine its owner's
UUID. One action is one Redis command or one mail transaction of a handler.
Signup, resend and forgot share the two steps that store and mail a link
(`SetLink`, `MailSent` or `MailFails`); verification and reset share the GETDEL,
the GET and the SET of the whole record (`Click`, `ClickGet`, `ClickSet`). A send
that is reported as failed may have arrived. The sweep of sessions in
`account_delete` follows SCAN's guarantee: what is there when it starts is found,
what comes later may be. `Abort` is a Redis error returned by `?` or a restart;
`Swallow` a failure the code logs or ignores (both listings, a machine's
deletion, the two DELs of the rollback). Passwords are left out: a login here is
one with the right password. An address is in its canonical form. The history
variable `overlapped` records whether two requests were ever in progress at
once: the code does not exclude it, and several properties hold only until then.

### Forwarder

A forward has a row, a serve task (which owns the socket) and, if it was added
at run time, a handle, which is that of the task that runs or of one that has
ended. Steps that take two locks are two actions: `AddBind` and
`InsertHandle`, `RemoveForward` and `RemoveRow`, `DecLoad` and `DecSub`. Static
forwards listen to the process's signal, live ones to a channel that `RunStop`
signals; `HasReceiver` is tokio's rule that a send without receivers changes
nothing. A bind ends in a socket or in an error, within `bind_timeout`. A task that
fails before its `add_forward` has registered its handle leaves that caller
`late`: its `InsertHandle` may land on the handle of a newer task. UDP
serve tasks are treated like TCP ones here; `UdpFlows` opens them up.

### UdpFlows

The read loop is one task, each flow has one relay task. Lookup, last-activity
update, spawn and insertion are separate actions; so are a relay's wait, write,
update, removal and the two halves of the decrement. Time passes in ticks; the
model assumes that the read loop, which does not await between spawning a relay
and inserting its flow, is not stalled there for a tick (`Tick`), and that a
read on a connected socket yields nothing before a datagram was sent on it.

### Box

The box is one process with several tasks. `pc` is where `run()` of `app.rs` is;
`fwd`, `dash`, `claim` and `stop` are its tasks and the shutdown channel; `en`
is the enrollment under way, at boot or from a claim. `keyFile`, `tunnelFile` and
`tokenFile` are the files in the state directory: opening one truncates it,
writing it is another step, and the process may die in between (`Crash`), after
which systemd starts it again (`Restart`). No file is ever synced, so a machine
that goes down (`PowerLoss`) may take any that was written since it came up; `cut`
has the files it took. `wg0` is the kernel interface, which
survives the process and not the machine; `BringUp` is one `ip` or `wg` command.
The edge's begin, poll, approve, deny, revoke, delete and re-arm are single
steps here; a call may be lost before or after the edge has done its part. The
owner may approve, refuse, revoke or delete at any time.

### Edge

`Launches` are pairs of a binary (`fortress-edge` or the site) and an
environment: `Boot` goes through the checks of `main` in their order. `api` and
`rec` are the two tasks, and `TaskPanicked` the `select!` that watches them.
Addresses are sequences of bytes of `ByteBits` bits, computed from the index as
`Subnet::host` does, so that the capacity of the smaller subnet is reached.
Allocation has its GET, its INCR, and its SETNX with the DECR of a lost race;
handlers overlap on one name, as nothing keeps them apart. `zone` holds both
records of a machine; `job` the operation each handler or the reconcile pass is
in, one store command or provider call per step. `gaveBack` and `raced` (names
deleted beside an allocation of the name or a pass that had them on its list) are
history variables. The resolver the pass asks
may answer wrongly, and any call may fail (`Fault`).

### Dashboard, NixTree and NixConfig

The parser is modelled twice. `NixConfig` has its walks as the code makes them:
`FindInAttrset`, `Descend` and `CollectChildKeys` recurse through a nested
document, and `Edited` is `set_attrpath` on top of them, including which of
several matching entries is taken and where it refuses. `NixTree` says what they
compute, without recursion: a file is a function from places (sequences of entry
numbers) to nodes with their full attribute path, and `FindValueNode`,
`InsertPoint`, `SetAttrpath` and `AttrsetKeys` are comprehensions over it. TLC
compares the two on thousands of documents (the assumption `WalksAgree` of
`MCNixConfig`, which it evaluates at the start of the run `dashboard`); `Dashboard`
and the proofs use `NixTree`. What is left out of both is text: an edit replaces the text
of one value or adds one entry. Strings are quoted by what `quote_nix_string`
does, which does not escape `${`: a text stands for itself, for one that is read
back as an interpolation, or for one that no longer parses.

Nix merges sets, so a file may spread one over several entries, and it counts
what an `inherit` binds, which the parser's walks pass over. `Tidy` says that a file
spreads no set and inherits nothing at, above or below a path the editor edits,
which is how files are usually written and what `Dashboard` assumes of the
operator's (`Whole`): the code does not hold up for other files, as
`SplitIsRejected` and `InheritIsRejected` show.

`Dashboard` runs requests side by side. A guarded request passes the gate in one
step and is handled in the next. A save reads the file to make its edits, reads
it again in `save_config`, writes a temporary file and renames it; the operator
may write the file at any point, and the process may die. The landing page
probes services whose cached answer is too old, `MaxProbes` at a time.

### Portal

One person uses one browser on one of three surfaces: the edge's pages, the
site's pages, or the JSON API. `page` is what the tab in front shows (with the
link it was opened with and the address in a hidden field), `req` one request
that has passed its session check and not acted yet, in this tab or another. A
form that needs no session is one step; one that does is two, and in between the
person may sign in or out elsewhere. Operations succeed, are refused or fail in
the store or the mailer, a deletion or an approval possibly half-way, and each
surface answers in its own way: a page, a redirect, a status. `World` is what
happens besides: links and sessions expire, boxes dial, passwords are forgotten,
all counted by `upsets`.

## Runs

| Run | Instance | Checks |
|---|---|---|
| `provisioning_overlap` | 2 names, 2 keys of which one is presented for both, 2 handlers, all overlaps, 1 crash, 1 fault | `NoSharedIndex`, `TunnelIsolation`, `ImplementsRegistry` |
| `provisioning_serial` | 2 names, 3 keys, one handler per name, 2 crashes, 1 fault, 1 abort | `NoOrphanListener`, `IndexedIsWired`, `EventuallyWired` |
| `invites` | 1 invite, 2 names, 2 keys, 2 handlers, 2 tokens, 1 abort | `DeliveredOnce`, `PendingTokenWorks`, `SingleUse`, `Burned` |
| `invites_name_taken` | 2 invites, 2 names, 3 keys, one handler | violates `OnlyItsBoxRotates` |
| `accounts` | 1 address, 2 requests, 2 UUIDs, 2 links, 1 abort, 1 ignored error | `VerifiedOnly`, `NothingLeftBehind`, `NoZombie`, `AccountStable` |
| `forwarder` | 1 static and 1 live forward, 2 callers, 2 connections, 1 failed bind and accept | `DrainedIsQuiet`, `CountsRelays`, `TableIsTrue`, `Stops` |
| `udp` | 2 sources, 2 flows, idle time 1 tick | `CountsFlows`, `EntryHasRelay`, `RemovesOwnEntry`, `IdleFlowEnds`, `StopEndsAll` |
| `box` | 7 configurations, 1 invite, 1 poll, 3 failures (lost calls, failing steps, kills, power losses) | `EnrollsOnce`, `KnownKeyIsStored`, `TunnelIsUp`, `TokenIsCurrent`, `ApprovedBoxEnrolls`, `ClaimEnds` |
| `edge` | 8 launches, 1 name, 2 handlers and the reconcile loop, indices up to 4, 4 events (a failure counts for two) | `AddressesDistinct`, `DeletedHasNoRecord`, `RecordsHeal`, `Supervised` |
| `dashboard` | 4 files, 4 forms, 2 requests at once and 3 in all, 2 tokens, 1 service, 1 edit by hand, 1 fault, 2 ticks | `FileStaysNix`, `SaveIsExact`, `SavedIsShown`, `GateHolds`, `DotIsRecent` |
| `portal_in` | 3 surfaces, 1 address, 2 links, 2 sessions, 3 upsets | `GetsIn` |
| `portal_acts` | 3 surfaces, 2 addresses, 1 link, 2 sessions, 1 invite and name, 2 keys, 1 upset | `ActsAsSignedIn` |

What the passing runs show. Under any overlap of handlers, up to the first DECR
of an index, the edge gives no two machines one address, routes a machine's
tunnel IP only to keys that were presented for that machine, and behaves like
the registry. (Who may present a key is another matter: an approval that is
refused has presented one for somebody else's machine.) With one handler per
name at a time (and different names in parallel) a crash anywhere is repaired by
the next boot for every machine in the index, no listener outlives its machine,
and an indexed machine is wired in the end. However the handlers of an invite
overlap, no token leaves the edge twice; a decision stands once nobody holds an
older reading of the invite; it makes machines under one name, and the token
that waits for its box is the one the edge will accept, but for the overlaps
and cut-offs that `spoiled` and `stale` record. Only verified addresses are ever
active or logged in; and as long as requests come one at a time, an account can
be deleted half-way without leaving sessions, machines or invites to nobody, a
signup whose mail fails leaves no account, and an account keeps its UUID and its
activation. In the forwarder, handles, rows, counters and sockets agree under
overlapping adds and removes until an accept fails at the wrong moment, and a
stop ends what it should. No UDP source is left with a flow that nobody answers.

A box whose invite is approved ends up running with its tunnel, whatever call is
lost, file torn or process killed on the way, unless the power fails and takes
its key; it never enrolls twice, tells the edge a key only once the key is in
its file, and never holds a token the edge has replaced unless a power loss took
the file that was written with it. The edge's DNS records come right in the end
for every machine that stays, and go with a machine that is deleted unless the
deletion overlaps an allocation or a pass; both edge processes end when a task
they supervise fails, and no two indices share an address. The dashboard never
leaves a torn file or one that binds an attribute twice, unless the file it was
given spreads a set over several entries or inherits what the editor edits; a
save changes what it was asked to and nothing else, and is shown back unless a
text has a `${`; a token that was logged out or has expired opens nothing. From
every state that failures, expiries and second thoughts can bring about, a
customer who goes on gets signed in, on all three surfaces, though from the
site's 404 page only by typing the front page's address; and a request changes
only what belongs to the account it was let in for, except that an approval
under a taken name changes the key of whoever's machine has it.

### Where the code and its comments disagree

`invites_name_taken` is a run that must fail: an approval under a taken name
rotates the machine that has it before it is refused. The finding in
`PROJECT.json` quotes what the code's documents say.

The other disagreements met on the way are the premises of the properties above.
Each can be reproduced by leaving the premise out:

* the DECR of a lost race can free the *winner's* index (`mod.rs:613`): check
  `IncrIsUnique` in `provisioning_overlap`;
* a crash between SETNX and RPUSH leaves a machine `rehydrate` never sees
  (`mod.rs:616`): drop `listed` from `IndexedIsWired`;
* `descend` follows the first entry that shares the path and does not look at the
  later ones (`nix_config_parser.rs:339`), although the comment at lines 294-296 says
  that a path an existing entry owns is refused: in a file with `fortress = { ... };`
  and `fortress.services = import ...;`, which Nix accepts, ticking a service makes a
  file that Nix rejects (`SplitIsRejected` in `MCNixConfig`). The proof of
  `FileStaysNix` found this: its invariant is not inductive without `Unsplit`, a part of
  `Tidy`;
* the comments at `mod.rs:620-623` and `768-772` say that a rollback frees the
  machine's name and its `/128`; only the name is freed. Nothing but a lost
  race DECRs the counter, so the index, and with it the `/128`, is never given out
  again. It could not be by a DECR: a rollback or a deletion that did so would
  violate `NoSharedIndex` and `ImplementsRegistry` (the mutants
  `RollbackRecordGiveBack` and `DeleteRecordGiveBack`);
* `invite_begin` can overwrite an approval or a denial (`pairing.rs:369`), although
  the comment at lines 120-122 calls both terminal: drop the second premise of
  `Burned`;
* one code makes two machines when it is approved under two names at once, when a
  stale dial reopens it, or when an approval is cut off before it burns the code
  and is repeated under another name (`pairing.rs:470-494`): drop `\ spoiled` from
  `SingleUse`;
* a re-arm writes back a copy of the machine's record (`pairing.rs:535-545`): it may
  undo a rotation or leave the hash of a token nobody is given; drop `stale` from
  `PendingTokenWorks`;
* a delete that overlaps an allocation or a reconcile pass of its name leaves DNS
  records (`mod.rs:640-649`, `:803`): drop `raced` from `DeletedHasNoRecord`;
* `remove_forward` may abort a task that has already ended and leave the one that
  serves (`forwarder.rs:525`): drop `late` from `ServingIsRemovable`;
* the box's key file is not synced (`tunnel.rs:84-91`): after a power loss the edge
  may know a key the box no longer has; drop `cut` from `KnownKeyIsStored`;
* `quote_nix_string` does not escape `${` (`nix_config_parser.rs:91-106`): a text with
  it becomes an expression of the file, although the comment at lines 1112-1116
  calls the editor one that "cannot emit free-hand Nix"; drop `Plain` from
  `SavedIsShown`;
* an `inherit` in the file is passed over (`nix_config_parser.rs:304-306`): ticking a
  service in a file with `inherit (x) fortress;` makes one that Nix rejects
  (`InheritIsRejected` in `MCNixConfig`);
* a login that overlaps the removal of its account leaves a session without an
  account, and an approval with that session panics (`account.rs:366`,
  `pairing.rs:462`): drop `~overlapped` from `NothingLeftBehind`;
* a UDP flow whose source keeps sending expires all the same (`udp.rs:159`):
  with `Idle = 2`, `Expire` happens at an `age` below `Idle`;
* a forwarder that cannot bind leaves the box's process running without it
  (`client/app.rs:453`, against the comment at line 465), and a dashboard that
  cannot bind is only logged;
* a crash between the two files of an enrollment leaves a box that is enrolled
  for good and has no device token (`client/pairing.rs:367-368`);
* `fortress-edge` runs on when its API port cannot be bound
  (`fortress-edge.rs:146`), although lines 199-201 say it is never half-alive;
* the poll budget of a box, described as 30 days, is 10 000 polls of five
  seconds, about 14 hours;
* on the site a failed verification or reset leads to a page that answers 404
  (`site/pages/auth.rs:346`, `:390`): the customer has to start over from `/`.

### Bounds

Two names and two handlers are enough for every race on a name with a bystander
to suffer from it. In `provisioning_overlap` one of the two keys is presented
for both names, so a rotation can take the other's peer; in
`provisioning_serial` three keys give one box a key to rotate to. `MaxCounter`
is one above `Capacity` where exhaustion is to happen. Crashes, faults and
aborts are counted because each at least doubles the states; two crashes let a
boot be interrupted. In `invites` one code has all the races between two of its
handlers, two names let it make two machines, and two tokens let a delivery be
re-armed; what two invites could do to each other's machines is in the proofs,
which are for any number. In `accounts` two UUIDs let an address be deleted and
signed up again, and two links a verification meet a reset or a resend. In
`forwarder` two connections let two decrements overlap, and two callers let an
add and a remove of one forward do so. In `udp` two flow identities let a
source's next flow start while its previous relay is still leaving; an idle time
of one tick suffices for a datagram to arrive between the start and the end of a
sleep.

In `box` one poll and three failures let an enrollment time out, a delivery be lost,
and a recovery be interrupted, by a kill or a power loss; five tokens are enough for one to be
free at every re-arm (`EnoughTokens`, which the proofs use too: every invite
may have one in a hash and one in a delivery, the box one in its file and one in
memory). In `edge` bytes of two bits make the tunnel net's three
hosts run out within four allocations, and carry into the second byte of the
other subnet; an address is compared with that of every other index, so one name
suffices, and two handlers overlap on it. `MaxEvents` bounds requests and failures
together. In `dashboard` two requests at once are a save against a save, a
logout or another landing page, and a third comes after them; the files write
the same paths nested, dotted and blocked. In `MCNixConfig` two entries with keys of
up to three names, over sets of two levels, are every way in which an entry can
match, precede or block another. In `portal_in` three upsets let a
link fail, its replacement expire and the account be deleted or its password be
forgotten; in `portal_acts` two accounts share a browser, which needs no more
than one invite and one machine to act on the wrong one.

`CHECK_DEADLOCK FALSE` appears where the system may really stop: all invites
used up and no handler running, the UUIDs and links of an instance used up, a
process that has shut down, a read loop that has returned.

### Fairness

`provisioning_serial`: a handler in progress takes its next step (the runtime
polls ready tasks), the edge boots again after a crash (systemd restarts it) and
boot proceeds. No fairness on new requests. `forwarder`: `run` proceeds, binds
end within `bind_timeout`, the drain within `shutdown_timeout`, serve tasks
react to a signal; nothing makes a peer close its connection. `udp`: tasks
proceed, time passes, and a branch of a `select` that is ready again and again
is taken in the end, because tokio's `select` picks at random; nothing makes a
source send or a destination answer.

`box`: boot, enrollment, binds and the drain go on (they wait for commands,
files, timers and calls to the edge), and systemd restarts a process that
failed; nothing makes the owner approve. That a call to the edge ends is an
assumption on the network: `reqwest::Client::new()` (`client/pairing.rs:169`) sets no
timeout, so an edge that accepts a connection and never answers would hold
an enrollment, and `ApprovedBoxEnrolls` and `ClaimEnds` are about behaviours without
one. `edge`: tasks and provider calls go on,
the reconcile loop comes round; its stop is strongly fair, since the `select!`
in the loop chooses at random among ready branches. `portal_in`: a request that
was let in is answered, and the person, who is not part of the code, is assumed
to go on: `GetsIn` is about behaviours in which from some point on the person
does only what `Proceed` describes, that is, opens the mail that has arrived,
submits the form in front that fits (register, log in, resend, forgot), or
follows a link towards it. What is checked is that the pages always offer such a
step and that these steps lead somewhere. The world may interfere as long as its
upsets last.

## Proofs

Each proof module shows invariants of one component for every value of its
constants: any sets of names, keys, addresses, invites, handlers or connections,
and any bounds. The argument is always the same: an inductive invariant (`IInv`,
`SerialInv`) that TLC confirmed on the instance of a run before it was proved, a
lemma per conjunct with a case per action, and a theorem that takes the property
out of it. What the conjuncts add is what the property leaves unsaid: what
handlers, files, lists and messages carry between two steps.

| Theorem | States | Hypothesis |
|---|---|---|
| `ProvisioningProofs`: `UniqueIndices`, `Isolation` | `NoSharedIndex`, `TunnelIsolation` | |
| `RefinesRegistry` | `ImplementsRegistry` | |
| `ListenersOwned`, `MachinesWired` | `NoOrphanListener`, `IndexedIsWired` | `Overlap = {}` |
| `InvitesProofs`: `NoTokenTwice`, `OneMachinePerCode`, `DecisionsFinal`, `PendingTokens` | `DeliveredOnce`, `SingleUse`, `Burned`, `PendingTokenWorks` | |
| `AccountsProofs`: `OnlyVerified` | `VerifiedOnly` | |
| `CleanDeletes`, `NoZombies`, `StableAccounts` | `NothingLeftBehind`, `NoZombie`, `AccountStable` | (`~overlapped` in the properties) |
| `ForwarderProofs`: `RelaysCounted`, `DrainIsComplete`, `TableTrue` | `CountsRelays`, `DrainedIsQuiet`, `TableIsTrue` | |
| `FlowsCounted`, `EntriesServed`, `OwnEntries` (of `UdpFlows`) | `CountsFlows`, `EntryHasRelay`, `RemovesOwnEntry` | |
| `BoxProofs`: `EnrollsOnlyOnce`, `KeyStored`, `TunnelComplete`, `TokenAccepted` | `EnrollsOnce`, `KnownKeyIsStored`, `TunnelIsUp`, `TokenIsCurrent` | |
| `EdgeProofs`: `DeletesRecords`, `DistinctAddresses` | `DeletedHasNoRecord`, `AddressesDistinct` | |
| `UniqueIndices`, `SubnetsGood` | `IndicesFit`, `SubnetsParsed`, on which the latter rests | |
| `DashboardProofs`: `FileIsNix`, `SaveExact`, `SavedShown`, `GateSafe`, `DotRecent` | `FileStaysNix`, `SaveIsExact`, `SavedIsShown`, `GateHolds`, `DotIsRecent` | |
| `SetExact` | what one `set_attrpath` does to the bindings of a file | `Tidy` file, a path of the editor |
| `PortalProofs`: `ActsForSession` | `ActsAsSignedIn` | |

Every module but `PortalProofs` and `DashboardProofs` also has `TypeCorrect`,
`Spec => []TypeOK`; in these two the types that are needed are part of `Invariance`.
The one hypothesis is the value of the constant that `provisioning_serial` checks
these two properties with; without it the code violates them. Everything else
a property needs is a premise in its own formula, in terms of the history
variables, and listed with the disagreements above.

### Provisioning

`NoSharedIndex` is not inductive: it says nothing of the indices that handlers
hold, and `TunnelIsolation` nothing of those. The inductive invariant `IInv` is

* `TypeOK`;
* `LocalsInv`: an idle handler has no locals, a busy one has a name, and the key
  an allocation carries was presented for its name;
* `RecordKeyInv`: so was the key of a record;
* `HeldInv`: as long as no index was given back, an index above the counter was
  never handed out, and wherever an index shows up (in a record, in a handler's
  locals, in the kernel's table) it is there for the name it was handed to,
  `heldBy[i]`, and in the kernel with a key presented for that name.

INCR hands out an index above all others, so it changes `heldBy` only where
nothing refers to it; all other steps copy an index from one place to another
under the same name. Each step is a case of `StepTypeOK`, `StepLocals`,
`StepRecordKey` and `StepHeld`. Nothing is assumed of `KeysOf` but its type. The
premise `~gaveBack` in the properties is needed: two overlapping allocations of
one name are the counterexample without it (`mod.rs:613`).

The refinement needs little more (`RefineInv`): a handler that is about to write a
record has an index (`CarriesInv`). `StepRefines` shows that a handler's INCR,
SETNX, SET and DEL are the registry's steps, whatever overlaps, and every other
step, crashes and boots included, is a stutter; the DECR is the registry's
`GiveBack`.

When operations on one name do not overlap, `SerialInv` adds that no index is
ever given back, that a name has one handler (`TurnsInv`), what that handler
knows of its record (`KnowsInv`: before its SETNX there is none, afterwards it is
the one it wrote or read), that what it unbinds stays unbound (`ListenerInv`) and,
for names whose keys are their own, how far it has wired its machine (`WiredInv`).
`StepIsLocal` shows that a handler touches its own name, index and keys only, so
that a step is about one machine. That a machine keeps its index for life
(`Serial` in the registry) comes from `KnowsInv`.

### Invites

`Well` has the types, what each handler's locals hold at each of its points
(`ControlInv`), and that an invite has a key its boxes present (`DialedInv`).
`TokenInv` follows a token from its issue through a handler's locals and the
delivery to the box that took it: it is in one of these places only
(`HeldInv`, `WaitingInv`), and an issued number is new (`FreshUnsent`). GETDEL is
atomic, so no overlap changes that.

`DecisionsFinal` needs only `Well`: a handler whose reading is a terminal status is
a poll or a re-arm, and neither writes the invite. For `OneMachinePerCode`, `One(c)`
says of an invite that is not spoiled that the approvals under way have one name,
that this is the name of what it has created, and that once it has created
something it is closed or an approval is about to close it. Reopening it
(`BeginSet`), leaving it open (`Abort`) or approving it under a second name meanwhile
is what spoils it.

`PendingTokens` is the hardest, since every write of the machine's record must be
accounted for. A token belongs to the invite it was issued for (`Own`). A
delivery is tied to its machine (`Tied`): the record has its token, or is `Foreign`,
that is, with a key of no box of this invite and a token that is not the
invite's, and so cannot come to match again. `PendingInv` says so of every
delivery, waiting or about to be made, unless the machine is `stale` or another
handler is delivering; `HolderInv` says that a box which rotates its key was given
the token it shows; `TiedKept` goes through the writes.

### Accounts

`VerifiedOnly` speaks of what is in Redis, and handlers write back what they read
some commands ago. `CarriedInv` says the same of what they carry: a record read as
active, a login past its status check and a verification past its GETDEL are
about a verified address. `HandlerInv` (a handler has the address, link or invite
its next step needs) and `LinkInv` (a link that can be followed has an address)
are what the types need.

The other three hold until requests overlap. `Serial` says that one request is
running (`Alone`) and what holds at each of its points (`PointInv`): the record a
signup may take back is its own and nothing refers to it (`SignupPoint`), the
link in the mail is for this account (`MailPoint`), the record written back is
the stored one (`RecordPoint`), and what a deletion has passed is gone while what
is left is on its lists (`DeletePoint`). `Reachable` is the strengthening of
`NoZombie` to states in which the signup is still at work. `overlapped` never
becomes false again, so nothing is needed of the states after it.

### Forwarder

`TableIsTrue` and `DrainedIsQuiet` are nearly inductive: what they need is that
a caller in the middle of an add or remove is about a live forward
(`CallerInv`), that a relay has a forward (`ConnInv`), and that live forwards
are signalled only by a `run()` that drains (`SignalInv`). The table's handle is
the running task's because only one task of a forward has its socket, and the
two ways to end up with another's are a task that ends (`Ended`) and a late
caller. `CountsRelays` uses finite cardinalities: a load sees the relay of the
loader itself, so the subtraction never wraps.

### UdpFlows

The two statements about the map need to know what happens between the spawn of
a relay and the insertion of its flow. The inductive invariant adds that a relay
which has not left is in the map under its source or is the one the read loop
inserts next (`OwnInv`), that the source of a flow under construction is not in
the map (`NoEntryInv`), and that the new relay cannot leave before the insertion
unless the signal fires: its sleep is the whole of `Idle`, and no answer can come
(`FreshInv`). The types need the counter (a subtraction happens only while the
subtracting relay itself is counted), so both are in one invariant. The
assumptions are that `Idle` is positive, that there are finitely many flow
identities, and `Tick`'s on stalls.

### Box

`EnrollInv` says who runs the enrollment and that it runs only before the tunnel
file is readable; that settles `EnrollsOnce` although both boot and a claim may
start one. `KeyInv` and `WgInv` say how far the key file and the interface are
at each point of `run()`; a power loss, which may take the key file, ends the
process too, so only what the edge knows is left to except. `TokenIsCurrent`
needs the edge's side: an invite makes one machine, and nothing anywhere names a
machine before its invite is approved (`MachineInv`); what a delivery, the box's
memory and its files say of a machine is what the edge accepts (`GotInv`), since
a re-arm replaces hash and delivery together, and happens only while the box has
nothing on disk. `TokenFree` counts the places of tokens to show that a fresh
one exists (`EnoughTokens`).

### Edge

The reconcile pass works on a list read earlier. `ListInv` says that a name on
it which did not race with its deletion still has its machine and is not being
removed; `RaceInv` and `UpsertInv` say the same of a handler's own upsert;
`RemoveInv` that a removal has no create ahead of it and that a record it is
done with is gone, however many removals of the name run; `CleanInv` is the
property. `ProcessInv` and `JobInv` tie tasks and handlers to the process.

`AddressesDistinct` rests on two more invariants: `IndicesFit` (no machine's index is
the edge's, and all fit both subnets, however the counter moves; and until an
index is given back no two machines or handlers have the same) and
`SubnetsParsed` (an edge that has a machine has parsed its subnets). What is left
is arithmetic: `HostDistinct` says that two indices which fit give two addresses.
`DigitsDetermine` proves it by induction over the number of digits: a number below
`2^(B * n)` is determined by its `n` digits of `B` bits. The induction is carried by
a set of numbers (`SetInd`, from the well-foundedness of `<`), since an induction
rule with a predicate parameter cannot be used; `PowSucc` and `PowAdd` derive what
is needed of `^`, which the provers know nothing of, from its definition.

### Dashboard

The first half is about trees. A tree's nodes bind less above than below
(`Ancestors`, by induction over the depth), and in an `Unsplit` file, of two
nodes, neither above the other, neither binds a part of what the other binds
(`Incomparable`): so Nix accepts it (`UnsplitEvaluates`). `ValueSet` and
`EntrySet` show what a replaced value and an added entry do to the bindings, and
together `SetExact`: the new binding, and all old ones that are not at or below
its path. This is where splitting matters: a second entry with a part of the
path would keep bindings that the edit never sees, and so would an inherit,
which the walks pass over: `Clear` says that none is near the edited paths. A
save applies several edits in turn. `ApplyIs` turns the recursive function of
`Apply` into a sequence of candidates, `ApplyExact` goes through it by
induction, and needs that no edit's path is at or above another's, which
`PathsApart` and `BuildDisjoint` show of `build_edits`.

The second half is about the process. `FileStaysNix` says nothing of the files
that are about to replace the present one, so `Inv` says of every save under way
(`SaveOK`) that its new file is `Tidy` and has exactly the edited bindings of the
file it read, and, as long as nobody else wrote the file (`clean`), that this is the
file on disk and the edits are those of the submitted form. `SessionsOK` ties a
session's expiry to its issue, `TokenOK` a request behind the gate to an issued
token; `CacheOK` says that a cached good answer is no newer than the last moment the
service was up, and `DotsOK` carries that into the requests. Each action has its
lemma. `GateHolds` and `SavedIsShown` are action properties: `OnlyGate` and
`OnlyRename` show which step can be the one they speak of, and `Shown` reads the new
file's bindings back through `Extract` (`ReadIs`, `ReadAfter`).

The assumptions are named in the modules: services and users have distinct names
(`Names`), forms are of strings (`FormShapes`), the operator's files are trees
without split sets or inherits of what is edited (`Shapes`, `Whole`), and the
attribute names are strings (`Literals`; no backend knows that a literal is
one).

### Portal

`ActsAsSignedIn` is an action property. `RequestInv` says that a request under way
names an account and, where it decides, an invite; steps of the person and the
world either leave the request alone or find none (`PersonKeeps`, `WorldKeeps`),
so that only the server's steps answer one, and each acts for the email stored in
the request and not for the cookie (`CreateActs`, `DecideActs`, `ApproveActs`,
`DeleteActs`, and for those that fail half-way `FailsActs`). An approval under a name
that is taken rewrites the key of the machine behind it, which is the exception
the property names (`Rekeyed`). An answer that refuses a request is shown only by
steps that change nothing else (`OkIsNoError` for the others).

### Only model-checked

* Liveness: `EventuallyWired`, `Stops`, `IdleFlowEnds`, `StopEndsAll`,
  `ApprovedBoxEnrolls`, `ClaimEnds`, `RecordsHeal`, `Supervised` and `GetsIn`. The
  prover does not handle fairness and `ENABLED`.
* That the parser's walks compute what `NixTree` says (`WalksAgree`):
  they are `RECURSIVE` operators, and the prover has no
  backend for a module with one. The theorems about the dashboard rest on `NixTree`.

## Not modelled

* Text: HTML, the wording of mail and logs, the JSON of the APIs, Nix source
  between the values an edit touches, string escapes (but for the missing one of
  `${`), invite codes and names character by character.
* The bytes relayed, password hashing, TTLs as durations (a key with a TTL may
  expire at any time), backoff delays, socket options.
* The admin page and its bearer token, which drive the same operations as
  `Provisioning` without a session.
* `logger.rs`, the catalog file, and deployment (Nix modules, Terraform, scripts):
  declarative data, without state that changes.

The share of the source that is left consists mostly of the repository's own unit
tests (more than a third of the lines of the Rust files), type and error declarations,
and markup.

## Plan

1. Proofs: the page of `Portal` has no type yet; a saved file that is split by the
   operator would need `SetExact` for the first of several owners.
2. A box with two invites for one key, whose re-arm finds the older machine
   (`pairing.rs:535`); `PendingTokenWorks` leaves it out (`Private`).
