# Seamless: TLA+ models, model-checking runs and proofs

Seamless is a reverse tunnel. A client behind a NAT opens an encrypted Seam connection to a public
relay and asks for a subdomain or a TCP port; the relay answers with a public URL and carries the
traffic of that URL to the client over multiplexed streams. This directory holds the TLA+ models
of the relay and of its client, the TLC runs that check them on small instances, and TLAPS proofs for all
instances. Paths below are relative to the repository root; `R/` stands for
`crates/seamless-relay/src/`.

## 1. Inventory

| Part | State | Operations | Interacts with | Hard behaviour | What makes it correct |
|---|---|---|---|---|---|
| Tunnel registry (`R/tunnel.rs`, tasks in `R/main.rs`) | map key → entry, port set, one disconnect channel per entry, listening sockets | register HTTP or TCP, serve, ping, clean up, expire, SIGTERM | admin API, ingress, clients | awaits between check and insert, cleanup racing a new owner, signals during a ping, early returns | one owner per name and port, nobody but the owner releases it, signals end tunnels |
| Rate limiter (`R/tunnel.rs` 178-215) | time stamps per address | `check_and_record` | `handle_client`, TCP passthrough | window boundary | no window sees more than the limit, no needless refusal |
| Store and identity (`R/store.rs`, `R/main.rs` 1407-1429, `R/admin.rs` 280-351, 1030-1053) | routes, Cloudflare settings, identity, in memory and on disk | load, save, create identity, create/update/delete route, save settings | ingress reads routes | crash between steps, failing disk, two saves at once | a store that loads, a stable identity, durable changes |
| Ingress (`R/ingress.rs`) | WebSocket gauge; reads the maps | route a request, forward, count | registry, store, custom domains | entry cloned out of the map and used later; two look-ups under two locks | a request reaches the owner of its name |
| Custom domains (`R/admin.rs` 1208-1295) | domain → key | set, remove | ingress | tunnel checked, then mapping inserted; mapping outlives the tunnel | a domain leads to the client it was set for |
| Tunnel controls (`R/tunnel.rs` 295-370, `R/admin.rs` 606-645, 1350-1412) | paused flag, token bucket | pause, resume, configure, check | ingress | non-atomic read and update of several atomics | limits and pauses hold |
| Backends (`R/admin.rs` 1450-1674, `R/tunnel.rs` 262-288) | list of backends, health flags, one task per add | add, remove, force a check, probe | tunnel entry | several watchers write one flag; tasks outlive the tunnel | the flag tells the truth in the end, no glitch takes a backend out |
| Access lists (`R/tunnel.rs` 40-170, 456-529, `R/denylist.rs`) | tokens, blocklist, denylist | check, SIGHUP reload | both doors | reload between two checks, unreadable files | nobody passes a list that refuses him, a failed reload keeps the list |
| TCP passthrough (`R/tcp_passthrough.rs`) | connection gauge | accept, check, forward | rate limiter, access lists | gauge on every exit path, half-closed connections | what is counted in is counted out |
| Client (`crates/seamless-client/src/main.rs`) | session, attempts | connect, register, serve, reconnect, give up | relay | reconnect racing the relay's cleanup | it serves again or exits for a reason |
| Audit log (`R/audit.rs`) | ring, channel, file, open date | emit, query, write, rotate | everything | contended ring, full channel, midnight, crash in mid-line | nothing lost, disordered or misdated but as designed |
| ACME and TLS (`R/acme.rs`, `R/tls.rs`, `R/main.rs` 1084-1227) | account, order, challenges, certificate and key files, acceptor | obtain, renew, load, SIGUSR1 reload | CA, Cloudflare, HTTPS ingress | two files written in place, failures at every call, polling | certificate and key match, renewal happens, the relay starts |
| Settings (`R/main.rs` 214-721, `crates/seamless-client/src/config.rs`) | the client's file | merge flags, files, defaults; `config init`, `config clear` | everything | which source wins, what a sequence of saves leaves | the documented precedence, nothing given is lost |
| Frames (`crates/seamless-common/src/lib.rs`) | none | write, read | client, relay | length limit, end of stream | what is read is what was written |
| GeoIP, Cloudflare API, metrics, logs, webhooks, dashboard | - | - | - | - | see section 8 |

The hazards, each at its line and with the properties that cover it, are listed in `PROJECT.json`.

## 2. Plan

1. `TunnelRegistry`: the shared state everything else turns around; abstract specification
   `NameLease` and refinement; invariants and refinement proved. Done.
2. `RateLimiter` and `RouteStore`: correctness as an argument about time and about crashes; both
   proved. Done.
3. `Ingress`: routing of a request through store, custom domains and tunnel map, pause and token
   bucket, the WebSocket gauge, and the admin operations on them; proved. Done.
4. `ClientRelay`: the client's reconnect loop composed with the registry; proved. Done.
5. `Admission` (access lists, SIGHUP and the passthrough, composed with the rate limiter),
   `AuditLog`, `Backends`; proved. Done.
6. `Acme` (order, renewal, certificate files, TLS reload); the algorithms: `Calendar`, `Expiry`, `Cidr`,
   `Settings` and `ClientConfig`, against reference definitions; all proved. Done.
7. `TunnelLimits`: by how much races exceed the limits on tunnels; proved. Done.
8. To do: a version of `HttpNameOwned` for a registry whose final remove compares entries.

Which module builds on which: `Admission` extends `RateLimiter`, `ClientRelay` and `TunnelLimits` extend
`TunnelRegistry`, `TunnelRegistry` is mapped to `NameLease`; the others stand alone. An `MC...` module
adds the bounds of an instance. Modules that are proved about use no `RECURSIVE` operator; the proofs
live in `...Proofs` modules of their own that extend them, those of `TunnelRegistry`, `TunnelLimits` and
`RateLimiter` with those of `ClientRelay` and `Admission`, and those of the five algorithms in
`AlgorithmsProofs`.

## 3. The modules

### TunnelRegistry

One `handle_client` task per connection, admin and public requests, the expiry task and SIGTERM.
Actions are cut at the code's awaits: between two awaits a task is atomic for the shared maps,
which are only reached through their mutexes.

| Model | Code |
|---|---|
| `tunnels`, `tcp_ports` | `TunnelMap`, `TcpPortSet`; an entry is represented by its connection |
| `listening` | who has the port bound, as the operating system sees it |
| `lock` | the tunnels mutex while it is held across an await (only the 409 answer does that) |
| `pc`, `key`, `reply` | where a handler is, what it registers, what its client was told |
| `link` | the control stream: up, stalled (no send window), down |
| `signalled` | `disconnect_tx` taken and sent |
| `holds` | `Arc` clones of entries held by requests: the disconnect channel closes with the last one |
| `HandshakeFails`, `Register`, `CheckPerIp`, `CheckCap` | `handle_client` |
| `RefuseName`, `InsertHttp`, `FindTaken`, `SendTaken` | `serve_http`, registration |
| `PickPort`, `RedrawPort`, `BindFails`, `Bind`, `Track`, `Publish` | `serve_tcp`, `bind_random_port` |
| `SendRegistered`, `RegisteredLost`, `Wake`, `ReadEof`, `PingTick`, `PingSent`, `PingFails` | answer and `select!` loop of both |
| `CloseListener`, `Untrack`, `Remove` | cleanup, in the code's order |
| `RequestStart/End`, `EvictOne`, `EvictIp`, `EvictSignal`, `EvictEnd` | `route_http`, `admin_disconnect_tunnel`, `admin_bulk_disconnect` |
| `Expire`, `Sigterm` | background tasks of `main` |

Abstractions: a subdomain drawn at random is any subdomain; which names the lists refuse is the
operator's choice, so any name may be refused; a tunnel's age is abstracted to "any set of entries
may expire"; logging, webhooks and byte counters are left out. A frame on a fresh control stream
fits its send window, so only pings can block.

### NameLease

The promise to clients in four phases: a name is leased to one client, and only that client's
session ends the lease. `TunnelRegistry` maps to it with `Lease == INSTANCE NameLease WITH ...`:
leases are the HTTP part of the map, a client's phase follows from its handler's stage, and
`open` is "SIGTERM not handled". A lease abandoned before it was confirmed (`Abandon`) is the
one leak the code has. The refinement holds with no expiry configured; expiry is what breaks it,
because the final remove does not compare entries.

### TunnelLimits

The registry with two history variables: the largest number of registrations that were ever between the
count of `--max-tunnels` and their insert at once (`crowd`), and the same for each address and
`--max-tunnels-per-ip` (`crowdOf`). The counts are taken under the mutex and used after it was released, so
the limits do not hold as they stand; what holds is how far they can be exceeded.

### RateLimiter

`check_and_record` as one step (it is one critical section), with the history of admissions so that
"no more than Max in any window" can be said about every window, not only the one the code looks at.
A queue element is represented by its position in that history.

### RouteStore

`save` step by step (snapshot, open and truncate, write, rename) over inodes, so that two saves that
share the temporary name interfere exactly as on a POSIX file system: a writer keeps its inode
through a rename, and text written over longer text leaves a tail. Disk faults may stop any step,
the process may die between any two, and a restart loads what is there. The history variable
`overlapped` tells whether two saves were ever in progress together. The crash is that of the process; a power
failure, where the missing fsync would matter, is not modelled.

### Ingress

`route_http` as the chain of look-ups it is: routes (`FindRoute`), custom domains or subdomain
(`Resolve`), tunnel map (`FindTunnel`), pause flag (`Gate`), limits (`ReadLimits`), bucket
(`TakeToken`, `RefuseToken`), then the copy. Each is a step, because each takes and releases a lock
of its own. Admin requests are cut the same way: `AdminFinds` clones the entry (or sees that the
tunnel is there), `SetPaused`, `SetCustomDomain` and the three stores of `set_ddos_config` come
later. Tunnels open under a free name and close at any time; who may do so is `TunnelRegistry`'s
subject. Tokens are counted in units of 1/`TicksPerSec`, so a tick refills `rps` units and the
arithmetic stays in the integers. The three atomics of a check are read in two steps; a pair of
limits that mixes an old rate with a new burst is not produced. Of the admin requests for pause, domain and
limits one is under way at a time, where the code runs any number; requests and tunnels interleave with each.

Two history variables carry the properties. `seen` records, for each request still deciding, every
answer the maps could have given since it arrived, and which tunnels were there and which entries
paused all the time. `quota` counts what a bucket let through since its limits took effect; it
restarts when a limit changes, and when a request applies limits it read before a change (the
code allows one such request per check under way, each of which can refill the bucket up to the
old burst).

Header parsing is abstracted to its result: a host, and whether the request asks for an upgrade.
`Lower` and `SubOf` keep the one conversion that matters: routes and custom domains ignore case,
`extract_subdomain` does not, so `S.base` reaches the tunnel `s` only through a custom domain.

### ClientRelay

One client process and the handlers that serve its connections: `main`'s loop (`EndOk`, `EndErr`,
`CtrlC`), `run_session` (`Connect`, `ConnectFails`, `GetRegistered`, `GetError`, `GetNothing`,
`SessionEnds`) and, unchanged, the actions of `TunnelRegistry` for its slots. The two sides notice the
end of a path independently: `link` is the relay's view, and once it is not "up" the client may give
the session up at any time while the relay's handler goes on. A session ends for the client only when
the whole connection does (`accept_stream` returns `None`): that needs the handler to have returned and
every request that holds the entry to be over, which `ClosedByRelay` says. The delay of the backoff is
abstracted to its passing; the count of attempts, its reset and `--max-retries` are kept. Names are
refused by lists only through `RefuseName`, so a refusal for good is one of the outcomes.

### Admission

The two doors of the relay and the SIGHUP task. A Seam connection passes deny list, `Register`, token,
rate limit and name (`handle_client`, `serve_http`); a passthrough connection deny list, GeoIP and rate
limit, and is then copied by a task of its own (`Count` to `JoinEnds`). Each check is a step, because
the lists may be swapped between any two. `ReloadAuth`, `ReloadBlocklist` and `ReloadDenylist` run one
after the other and read any contents, or a file that cannot be read, with the three different
reactions of the code. The deny list is the set of addresses its lines cover; `Cidr` has the matching.
The history variable `seen` records for each connection under way which list would have let it pass at
some moment since it arrived. Forwarding keeps, per connection, which ends are open and which
directions are still copied: `join!` waits for both. There is one passthrough listener, where main spawns one per
`--tcp-passthrough` (they share nothing but the limiter and the deny list, which the connections here share too), and
the relay has a token file: without one the check of the token lets everyone pass and its reload does nothing.

### AuditLog

`emit` in three steps (stamp, ring, channel), with the two ways into the ring: under `try_lock`, or by a
task of its own when the lock is held (`Query` or another emitter). The writer is cut at its awaits:
receive and compare dates, flush and close, rename, open, write. A write may fail with nothing, with a
part of the line or with the whole of it on disk. tokio's `File` writes behind, so an error is reported by the
next call on the handle: a line's by the write of its newline, a newline's by the write of the next event's
line, which is dropped in its place (`write_err`, `ReportError`), unless a rotation's flush passes over it. A
line without its end (a crash leaves one too) is what the next append is glued to; the clock passes midnight at any point and may be set back once. Events are numbered in the
order they are stamped; `day` is the date.

### Backends

The list of one tunnel's backends, the admin calls that work on a clone of its entry, and one task per
add, each probing all backends of the list it cloned at its tick and counting failures by itself. A
probe's answer and the store it leads to are separate steps, so a stale answer can overwrite a newer one.
The tunnel may end at any time; tasks and calls keep the list.

### Acme

`obtain_certificate` await by await, for main's first attempt and the renewal task's later ones: account,
order, challenges (TXT record or token, by `args.dns`), polls, finalize, download, clean-up, and the two
files, each truncated and then filled. While the CA is processing the order the download loop asks again, for
ever if need be (`DownloadPending`). A certificate whose write was cut short does not parse (`Torn`), or still
shows its expiry although rustls refuses it (`Cut`): `days_until_expiry` reads neither the end of the block nor
the rest of the certificate, so `needs_renewal` takes it for whole until it is due. Every call may fail (`CallFails`), the process may crash anywhere,
and SIGUSR1 reads certificate and key in two steps while they are being replaced. A pair is named by its
key, and `KeyPair::generate` yields a name that nothing else has. The CA is external: an order is ready
only when every announced challenge is where the CA looks for it, and may stay pending or become
invalid. The operator restarts with a self-signed certificate or with the files acme.rs writes.

### Calendar, Expiry, Cidr, Settings, ClientConfig

The sequential algorithms. Where the code has a loop, the module has a state machine that makes one turn of it
per step, so that what the loop computes is an invariant and not a recursive definition (`MCAlgorithms` runs one of
them in each behaviour):

- `Calendar`: `epoch_to_ymd` and `days_since_epoch` against a calendar that is walked day by day (`CalSpec`: a
  day number and the date it has).
- `Expiry`: the loop of `days_until_expiry` over the bytes of a certificate (`PassOver`, `TakeTime`). A
  certificate is what precedes the validity, the two times with their tags, and what follows.
- `Cidr`: the loop over the lines of a list (`ReadLine`), `parse_cidr`, `is_denied` and `ip_in_cidr`. A `u32` is
  the set of the positions of its 1 bits: `&` is the intersection and a shift moves every position and drops
  those that leave the width. The reference compares prefixes bit by bit.
- `Settings`: `load_file_config` and `apply_file_config` of the relay, for one setting, while the operator changes
  flag and files between starts.
- `ClientConfig`: the client's file through any sequence of `config init`, `config clear` and edits by hand, and
  what a client started then uses; `given` is the history of what was given last. A client started with
  `--config` reads another file by the same `Load`.

## 4. Runs

Passing runs:

| Run | Instance | Checks |
|---|---|---|
| `registry_names` | 3 clients from 2 addresses, 3 subdomains, limit 2 and per address 1, SIGTERM, no expiry | `HttpNameOwned`, `LimitsExceededByRacesOnly`, `NameNeverTaken`, `ImplementsLease` |
| `registry_endings` | 2 clients, 1 subdomain, 1 port, limits 1, 1 request task, expiry, SIGTERM, fairness | `LeaksUnconfirmed`, `OverwriteOnlyClosing`, `EvictionCompletes`, `DropFreesKey` |
| `client` | 1 client with 2 connections, a subdomain or a port, 2 retries, 1 request task, no expiry, fairness | `ExitJustified`, `ReadyMeansRouted`, `ServesOrExits`, `EndedTunnelNoticed` |
| `admission` | 1 Seam and 1 passthrough connection of one address, limit 2 in a window of 2, 4 arrivals, 1 SIGHUP | `LimiterExact`, `AdmittedByLists`, `PassGaugeExact`, `ForwardEnds` |
| `store` | 2 requests, 2 routes, 1 token, 2 identities, faults, crashes | `SerialLiveComplete`, `DurableWhenIdle`, `IdentityStable` |
| `ingress` | 2 requests, 2 names, 1 domain in two spellings, 2 entries, 3 changes, clock up to 2 | `GaugeExact`, `RoutedAsConfigured`, `PauseHolds`, `LimitHolds`, `NoRouteJustified` |
| `backends` | 2 backends and tasks, 3 failures, 1 admin call at a time, one backend that comes and goes | `UnhealthyBacked`, `ListWatched`, `HealthFollows` |
| `audit` | 2 emitters, 3 events, ring of 2, channel of 1, 3 days, 1 fault | `RingFaithful`, `FilesOrdered`, `LossAccounted`, `DatedAtMost` |
| `acme` | 2 domains, 2 polls, 2 days of life, 3 faults or crashes | `PairOnDisk`, `BootCompletes`, `RenewalHappens`, `PairHeals` |
| `algorithms` | all days to 2105; up to 4 bytes before the validity, times of 1 byte, at most 1 byte after them; 3-bit addresses in all forms, lists of up to 2 lines; 3 values, all contents of flag and files; 3 fields, 3 texts | `CalendarExact`, `ExpiryFound`, `CidrMatches`, `SettingsResolved`, `ClientSettingsKept` |

What they show beyond the sentence at each property: the names of the registry are safe as long as no
expiry is configured; a client that reconnects races with its own past, and the registry's check keeps the
two apart (`ReadyMeansRouted`); a client whose handler has ended stays in its session only as long as a
request holds the entry (`EndedTunnelNoticed`); lists of different ages never let anyone through whom all of them refused
(`AdmittedByLists`); the ring is in order except for events that were deferred (`RingFaithful`) and a
rotation never loses or repeats an event, only the channel, the disk and a crash do, and one failed write
costs up to three events (`LossAccounted`);
several watchers with private counters still agree in the end on a backend that stays up or stays
down (`HealthFollows`); a renewal that fails anywhere before the two writes leaves the pair on disk as it
was (`PairOnDisk`), and a pair that a failed write has separated is whole again at the latest when the
certificate that is there becomes due (`PairHeals`).

Runs that show where the code departs from what the repository says of it:

| Run | Says | The code |
|---|---|---|
| `access_denylist` | `R/denylist.rs:52`, "Errors are logged and the existing list is kept unchanged." | an unreadable file becomes an empty list |
| `client_gives_up` | `README.md:129`, "If the connection drops, the client reconnects automatically" | the 409 caused by the client's own old entry ends it for good |

More departures met while modelling, which have no run of their own:

- `R/tunnel.rs:777`: the tunnel count is read under the mutex and used after it was released, so
  registrations that pass together exceed `--max-tunnels` ("Global maximum simultaneous tunnels across
  all clients", `R/main.rs:344`); the per-address limit (746-753) has the same window. `TunnelLimits` says
  by how many.
- `R/tunnel.rs:1313-1316`: `serve_tcp` frees the socket before it removes its key, and the remove may hit
  the entry of the next owner of the port, whose tunnel then ends. An expired HTTP tunnel's remove (1122)
  does the same after `R/main.rs:1295` (the reason for the `~ExpiryOn` premise of `HttpNameOwned`).
- `R/tunnel.rs:1052`: the `?` after writing `Registered` skips the cleanup; the name stays taken
  (`LeaksUnconfirmed` says that this is the only way), although `docs/ARCHITECTURE.md:110` says
  "`handle_client` cleans up the subdomain".
- `R/tunnel.rs:1109`: with `--tunnel-keepalive 0` the ping has no timeout, and a disconnect signal never
  ends the tunnel of a stalled client ("the tunnel task cleans itself up", `R/admin.rs:565`);
  `EvictionCompletes` is checked with the default keepalive.
- `R/store.rs:69`: all saves share one temporary name; one truncates the file another is about to rename,
  and an empty or mixed store is left that does not load ("prevents corruption on crash", 68). The premise
  of `SerialLiveComplete` excludes exactly this.
- `R/tunnel.rs:1124`: "Remove custom domain mapping on tunnel close" removes a variable that is always
  `None`; a domain stays mapped to the name and leads to its next owner.
- `R/admin.rs:321`: `update_route` does not look for another route with the same domain, which
  `create_route` refuses.
- The 409 answer is written with the tunnels mutex held, where `docs/ARCHITECTURE.md:104` says "drop the
  guard before any await on the stream"; a TCP port in use is not answered 409 as `docs/PROTOCOL.md:115`
  says, the connection just ends.
- `R/ingress.rs`: chunked bodies are not "capped at the byte-copy layer in `forward_body_limited`"
  (230-232), which does not exist; the 30 s of the header read limit the whole header block, not an "Idle
  timeout" (158); the 429 of challenge mode announces 25 bytes and sends 20 (392-395).
- `R/tcp_passthrough.rs:219` says "cancel the other when either finishes", and 66 "using
  `copy_bidirectional`": `join!` waits for both copies and neither end is shut down, so a connection with
  one closed end stays (hence the premise of `ForwardEnds`).
- `R/audit.rs:64` says "chronological order (oldest first)": a deferred event stands behind later ones, and
  `query` returns the oldest matches, not the latest. A file that was opened yesterday by a process that died is
  appended to and rotated under the date it was opened again on; a clock set back renames onto an
  earlier rotation.
- `R/admin.rs:1636`: health tasks hold the list and not the tunnel, so those of a tunnel that ended with
  backends probe for ever. Every add starts one more task that probes all backends. `select_backend`
  (`R/tunnel.rs:414-440`) is never called, so the flags decide nothing yet.
- `R/main.rs:1225`: the receiver of renewed certificates is dropped at once; a renewed certificate is served
  only after SIGUSR1 or a restart. Certificate and key are overwritten in place: after a crash between the
  two, or in the middle of the first, `needs_renewal` may see a valid certificate, nothing is renewed until that
  one is due, and a start with `--tls-cert` fails. A torn `account.json`
  ends every later attempt. A failed attempt leaves its TXT records and tokens behind. The download loop
  (`R/acme.rs:201`) has no limit: a CA that leaves an order processing keeps main from its accept loop for
  ever, or the task from every later renewal (the second alternative of `BootCompletes` and its like).
- `R/acme.rs:446` says "find the second one (notAfter)": a byte 0x17 or 0x18 before the validity starts the scan
  inside serial number or issuer, and the second find is `notBefore` or no time at all; the certificate is then
  renewed every 12 hours. The premise of `ExpiryFound` excludes exactly this.
- `R/denylist.rs:11` says "Both IPv4 (`10.0.0.0/8`) and IPv4-mapped IPv6 (`::ffff:10.0.0.0/104`) are handled": a line
  in mapped form does not parse (119) and denies nobody. `CidrMatches` claims nothing of a list with such a line.
- `R/main.rs:164` says "CLI flags always override config file values.": a flag given with the default's
  value does not, and `SettingsResolved` claims nothing of that case. When no line of `--admin-allow-cidr` parses, everyone is allowed. `ClientConfig::default()`
  has `tls_verify = false` where the field's comment says "default: true".

Every property of a passing run has a mutant of a modelled operation (`...Unchecked`, `...Forgets`, and so
on, next to the operation) that TLC shows to violate it.

## 5. Bounds

- Three clients are needed for a closing owner, its successor and a competitor on one key, and for the limits: two
  of one address race, and one of another address tells the two limits apart. Three names let all of them in, so
  that both limits are exceeded. Names and the clients of one address are interchangeable, hence the symmetry;
  the liveness runs use none. `registry_names` has no request task (five minutes would not do), so that of its
  properties TLC sees nothing of admin disconnects; the proofs cover them, and in `client` a reconnecting client
  meets them (`ReadyMeansRouted`).
- One request task is enough for a stale `Arc` clone; it can play either role, again and again.
- The doors' clock runs over more than a window, so stamps expire, the boundary is hit and a queue refills;
  a limit of two distinguishes "one too many" from "any", and four arrivals reach it twice. One SIGHUP
  is enough: its three reloads may fall between any two checks.
- The client's two connections are its session and the one before it; a third would be a second old one. Its
  relay has no `--tunnel-max-age` (the default), because an expiry voids `ReadyMeansRouted`: what `ServesOrExits`
  and `EndedTunnelNoticed` say is said without expiry.
- The store has two identities to generate, so that a second first boot could announce the
  other one; three inodes are all that two saves can use at once (the store, the temporary file,
  and one that a writer still has open).
- The audit log's ring holds one event less than there are, its channel one, so both overflow; one fault and
  three events reach the bound of `LossAccounted`; three days
  make a rotation onto a later and, after the clock is set back, an earlier file.
- Two backends make two tasks that watch each other's; the limit of three failures is the code's own.
- Five key pairs are one more than files, acceptor and reload can refer to; two days of life and a margin of one
  make a certificate fresh, due and expired. Three faults are a write that is cut short, its repetition and one more.
- A certificate of four bytes before its validity holds a false tag, its length and what that length skips. Two
  lines of a list may overlap, contain each other or fail to parse; three bits have prefixes of every kind, and
  the proof is for every width. Two values beside the default tell two files apart.
- The ingress has two names, so that a custom domain can override a subdomain, and two entries, so
  that a name can be registered again; a domain in two spellings stands for a foreign domain too,
  since only the mapping can lead from it to a tunnel. Three changes are what the longest story
  takes (a tunnel and two configurations of its bucket, or a tunnel, its domain and its end),
  and each may fall between any two steps of two requests. Time matters to buckets only, so the
  clock moves once one is in use. Requests and entries are interchangeable, hence the symmetry.

Bounds are CONSTANTS; `MaxTime`, `MaxChanges`, `MaxRequests`, `MaxAccepts`, `MaxReloads`, `MaxEvents`,
`MaxFaults`, `MaxCalls`, `LastYear`, `MaxHead` and `MaxLines` are the ones that cut behaviours off. When they are
spent and nothing is under way, `Spent` stutters, so a deadlock of the relay would still be reported; only the
loops of `algorithms` may simply end.

## 6. Fairness

`FairSpec` assumes that the runtime keeps polling a task that can go on: weak fairness of a
handler's own steps, and of an admin request that has begun to signal. tokio's `select!` polls its
ready branches in random order, so a branch that is ready again and again is eventually taken:
strong fairness of `Wake` and `ReadEof`, because the handler leaves and re-enters the loop at each
ping. The ping timer ticks for ever. Nothing is assumed of clients, public requests, the operator,
links or the clock of the expiry.

`ClientRelay` lifts the same to the composition and adds the client's own steps: its runtime polls it, the
transport reports a path that is gone, and the 30 s timeout ends a handler that waits for `Register`.
`Admission` assumes that a copy whose input has ended is polled, `Backends` that calls and health tasks go on and
the interval ticks. `Acme` assumes that main and the renewal task go on, that every call returns in the end, that
days pass, and, for `RenewalHappens` and `PairHeals`, strong fairness of `PollReady`: a CA whose challenges are in
place does not leave every order pending for ever. It does not assume that the CA ever issues the certificate of an
order it has accepted: `Download` is not fair, and the three properties say "or an order is stuck for ever".
Failures are finitely many there.

## 7. Proofs

The first part of `ClientRelayProofs` proves `Spec => []RegistryInv`. The safety properties are not inductive by
themselves: who owns a key depends on the stage a handler is in. `StageFitsKey` says what a handler in
a given stage asks for, `EntryFitsHandler` that an entry's connection registered for that very key
and is in a stage between insert and remove (or was never confirmed), `ListenerOwned` that the
socket follows the stage, `HttpNameOwned` the converse for names. From them:
`NamesAreOwned`, `ListenersAreOwned`, `LeaksAreUnconfirmed` (for names from `EntryFitsHandler`; for ports, whoever
recorded one is the witness until it releases the record or loses its client), the action properties
`NamesAreNeverTaken` and `OverwritesOnlyClosing`, and `RegistryImplementsLease` (assuming no
expiry): the initial states map to initial states and each action to a lease step or a stutter.
Assumptions: names and ports are disjoint, `NoKey` and `AnyPort` are not keys, `NoConn` is no
connection, the limits are naturals. No set needs to be finite.

Its second part is about the limits, `LimitSpec => []LimitsInv`, from which `LimitsAreExceededByRacesOnly` follows.
The property bounds the entries, which is not
inductive: an insert adds one without looking at the limit. `LimitsInv` bounds entries and registrations under
way together. An admission that finds room makes the sum at most the limit less one plus those under way, which
`crowd` covers; an insert moves one from the second set to the first; everything else only takes away
(`Moves`, `MovesKeepLimit`). `HandlerMoves` classifies the steps of a handler, `NextCounts` the rest. That
both sets are finite is part of the invariant and no assumption.

Its third part proves `CSpec => []ClientInv` for the client composed with that registry. `ClientInv` contains
`RegistryInv`, which every step of the composition keeps because it is a registry step or leaves the
registry alone; `SlotsFit` says that the connections the client has dialled ask for its key and that the
others have done nothing, `AnswersFit` in which stages a handler that has answered can be, and
`SessionFits` what the client's phase says of the answer it got. `ReadyMeansRouted` follows: a handler that
has registered and not ended is in a stage where `HttpNameOwned` gives it the entry. `CTypeOK` also says
that the loop's counter of attempts is the number of consecutive failures, which is `ExitJustified`.
`ReconnectingLeavesOnlyUnconfirmed` carries `OrphansUnconfirmed`, the part about names, over to the composition. Assumptions: the
client's connections are connections, its keys keys, and the retries a natural.

The first part of `AdmissionProofs` proves `LimiterInv` inductive: stamps are chronological, the queue
contains every admission still in the window and nothing but admissions, at most Max of them. If
Max + 1 consecutive admissions lay within one window, the first Max would have been in the queue
when the last was admitted, which the check excludes. Assumptions: Max is a natural, the
window is positive. Its second part is about the two doors: `DoorsImplementLimiter` shows that every step of
`Admission` is a step of the limiter or leaves it alone, so what holds of the
limiter holds of both doors together (`DoorsKeepLimitExactly`). `AdmissionInv` joins what a stage has seen of the lists (`AdmittedByLists`) with the
exact set of counted tasks, which stays finite because each step moves one connection; a reload adds to
what has been seen and takes nothing back. Assumptions: the doors' connections are disjoint and every
connection has an address, a token or none, and a name or none.

`BackendsProofs` proves `BackendsInv` inductive. `UnhealthyBacked` alone is not: a backend that is added may
meet the counter that a task kept for it. `AddsAreNew` excludes it (a backend that was never pushed is
unknown to every task and every other call), `Cloned` says that a task that probes has something to
probe, and `Distinct` that no backend is listed twice, so that a removal removes it. `ListsAreWatched` rests on
`OwnTaskRuns`: the task that a push spawned runs as long as its backend is listed, because a task stops only
when nothing is listed and nothing is pushed twice. No set
is assumed finite; the limit of failures is positive.

`AcmeProofs` proves `AcmeInv` inductive. `PairOnDisk` needs `OrderSound`: from the CSR on
an attempt has a key, and once its certificate is written that is the certificate of that key.
Assumptions: the
domains are a sequence, five key pairs exist, the margin lies within the life of a certificate.

`AuditLogProofs` proves `AuditInv` inductive, part by part, each part from the ones before it.
`TypeOK`, `Distinct` and `WriterFits`: callers hold different events, and the writer's stage tells which
file it has open. `RingFits`: an event waits for the ring once, and what had been pushed when another was stamped
never waits again; a push therefore appends an event that may follow all that the ring has, and evicts one that
RingCapacity others have followed. `PipeFits`: callers, channel, writer and files hold different events, each
place only such as may follow the next one's. `DatesFit`: with a clock that is not set back, no line of the open
file is younger than the `Horizon` (the day it was opened, or the day whose name it is about to get), and every dated
file is older; so a rename never hits an existing file, which `FilesOrdered` and `Accounted` rest on.
`HurtBounded`: a line without its newline at the end of the file is a debt of one event, an error not yet
reported another, and the fault that caused them has paid for both in advance. Assumptions: ring and channel have a size, `None` is no number.

The first part of `AlgorithmsProofs` proves `CalSpec => []CalendarExact`, the comment "Accurate for the Gregorian calendar from
1970 onward" of `epoch_to_ymd`, for every day and not only up to the year of the run. The invariant is
that the date is a date and `DaysSinceEpoch(date) = number`; it is kept because both formulas count in years that
begin in March (`MarchYear`, `DayOfYear`, `DaysBefore`), where the day after a date is the next of its year or
the first of the next. That `EpochToYmd` inverts `DaysSinceEpoch` (`EpochInverts`) is shown by splitting the
year of an era into century, group of four and rest. Numbers are unbounded: the code's `i64` and `i32` hold
every day until the year overflows 31 bits.

Its other parts: `ExpiryIsFound` lays the bytes of a certificate out (`DerLaidOut`: which position holds which
byte) and follows the loop with the invariant `OnTheWay`: it is in the head and has found nothing, or stands
at the second tag with the first time, or has passed the second with both. A time is a whole stretch that the loop
skips, so its bytes may look like tags. `CidrIsExact`: `MaskIsPrefix` says that the shift of all ones by
`Width - len` is exactly the set of the top `len` positions, `PairMatches` that masking both sides compares
those, and `Parsed` that the pairs read so far come from the lines that parse. It holds for every width, 32
among them. `SettingsAreResolved` and `ClientKeepsSettings` hold for every set of values and fields; the
latter rests on the invariant that loading the file gives what was given last. Assumptions: the
width is positive, the markers (`Absent`, `Missing`, ...) are no values and differ.

`RouteStoreProofs` proves `IdentityInv` inductive with any number of concurrent saves: every text in
the hands of a save, and what the temporary name leads to while one may rename it, carries the
identity in memory; once announced, that identity is on disk and nothing else can get there.
`SerialInv`, relative to it, says that until two saves overlap the temporary file belongs to the one
save in progress; it gives `SerialSavesAreAtomic` and `SerialSavesAreDurable`. Assumptions: `None` is
not a domain, token, identity or inode, the boot save is no request, text that does not parse
is no store.

`IngressProofs` proves `IngressInv` inductive. None of the five properties is so by itself: they
speak of a request that has passed several look-ups, and follow from what each stage knows.
`Placed` says that the references a request and an admin request hold are real, `Watched` that
the history of a request still deciding covers the present, `LookedUp` what the earlier look-ups
have established. `Watched` at the moment of a look-up gives `LookedUp` and `PauseHolds` after it
and refutes an unjustified 502 (`TunnelsNotLost`). `Conserved` is the bucket's account: tokens left
and requests let through never exceed the burst plus the refill up to the last refill; time is
split there to carry it over a check. `GaugeExact` follows the set of upgraded requests through
every exit. Assumptions: `None` is no name, entry, host, domain or number, the limits are naturals,
`TicksPerSec` is positive, and connections are finitely many (for the gauge only).

Every safety property of a passing run is proved. Only model-checked: the liveness properties
(`EvictionCompletes`, `DropFreesKey`, `ServesOrExits`, `EndedTunnelNoticed`, `ForwardEnds`,
`HealthFollows`, `BootCompletes`, `RenewalHappens`, `PairHeals`), which need fairness and are out of the proof system's
reach. The two runs that show a violation are TLC's alone.

## 8. Not modelled

- Control frames: a length, a body and a limit on an ordered stream read by one task. Nothing interleaves; a
  malformed, late or missing frame is the failure that `HandshakeFails`, `HelloFails` and `GetNothing` model.
- Metrics and request logs: nothing reads them to decide. The two gauges that also go down are modelled.
- GeoIP and the Cloudflare API: remote or file look-ups without state; what they answer is an input of
  `Admission` and `Acme`. Webhooks are fire and forget, and the dashboard page only calls the admin API.
- `handle_incoming` and the copying of bodies: the copy is one step, so limits on its length, flow control
  inside it and byte counts are not states of the models.
- `select_backend`: dead code. The admin interface's mutual TLS and the parsing of flags: done once, at start.
- A power failure, where the missing fsync of store, audit log and certificates would matter.
- The Seam transport is external: the models use only that a stream can stall or end and that a path that is
  gone is noticed some time.
