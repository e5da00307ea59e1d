# A TLA+ model of masha-agent

masha-agent is a Go program a company runs on one machine of its own network.
It lets a cloud assistant call a small set of read tools on the company's
database (and, optionally, its ErpNext server), keeps a knowledge base of the
assistant in step with a local directory of documents, and shows a local panel
for onboarding and audit. This directory holds TLA+ modules for the parts of it
whose correctness is a matter of interleaving, failure and order, TLC
configurations that check them on small instances, and theorems about them
checked by TLAPS.

Paths below are relative to the repository. "Checked" means by TLC on the
bounds of a `.cfg`; "proved" means by TLAPS for every value of the constants.

    tlc -config MCSupervisor.cfg MCSupervisor      # one run
    tlapm SupervisorProofs.tla                     # the proofs of one module

## The system and its components

One process, `masha-agent serve` (`main.go`, runServe), holds almost everything;
`masha-agent tray` is a second process that starts it as a child and watches it.

    tray process                     agent process (serve)
    ------------                     --------------------------------------------
    tray.go  --+                     tunnel <--- cloud
               |  starts, kills        |
    supervisor.go ------------------>  toolserver --+-> registry -> mssql   -> DB
                                                    |           +-> erpnext -> ErpNext
                                     webui (panel) -+-> live manifest, audit
                                       |   apply / db connect -> manifest and
                                       |                         credential files
                                     documents: watcher -> syncer -> knowledge base

| Component | State | Operations | What makes it correct | Modelled in |
|---|---|---|---|---|
| Supervisor and tray (`supervisor.go`, `tray.go`) | current child, generation, shutdown flag; a monitor goroutine per child, sleeping respawns | Start, spawnAndWatch, scheduleRespawn, Restart, Shutdown | one agent at a time, never an unwatched one, none after the end | `Supervisor`, `OneChild` |
| Document sync (`internal/connector/documents`) | map file -> (hash, remote id), its file; watches, timer, one-element channel | SyncOnce, syncFile, removeFile, Run, LoadState, Save | the knowledge base becomes the directory; failures and crashes leak little and lose nothing | `DocSync` |
| Tool server (`internal/toolserver`) | none of its own | ServeHTTP | only tools of the manifest run, answers are audited | `ToolServer` |
| Database connector (`internal/connector/mssql`) | atomic pointer to the handle | Connect, AllowTool, Call, BuildQuery | no leaked or twice-used handle; a query obeys one manifest, an answer is that of its filters | `ToolServer`, `Answers` |
| ErpNext connector (`internal/connector/erpnext`) | credentials, write switch | Connect, AllowTool, Call | writes only when switched on; the connected one is the registered one | `ToolServer`, `Credentials` (Connect) |
| Live manifest, registry (`internal/live`, `internal/registry`) | atomic pointer; list of connections | Get, Set; Add, Get | readers see one whole manifest | `ToolServer`, `Credentials` (Add) |
| Audit log (`internal/audit`) | last hash, ring of 200, file | New, Record, Recent, Close | the chain tells of a loss, the window is the newest records | `Audit` |
| Stored settings (`main.go`, `internal/creds`, `internal/manifest`) | manifest file, credential files, their `.tmp`, the keychain | apply, dbConnect, erpnextConnect, writeManifestAtomic, Resolve, Save, Load | no half file; a restart brings back what was kept | `ConfigStore`, `SettingsRegister`, `Credentials` |
| Certificate (`internal/selfcert`) | two files | LoadOrCreate | the browser trusts it once | `Credentials` |
| Panel server (`internal/webui`) | sessions | try, onboard, db connect, login, read-only pages | as its callees; a session ends and stays so | `ToolServer`, `ConfigStore`, `Wizard`, `Session` |
| Onboarding (`internal/onboard`, `Validate`, `web/src/pages/Wizard.tsx`) | the page's candidate manifest, closed fields and tools, the request on its way | Suggest, Validate; load, add table, edit, advise, publish | only what was open on the page goes live; keys and names are unique | `Onboard`, `Wizard` |
| Panel application (`web/src`: `App.tsx`, `lib/api.ts`, `Login.tsx`) | token, authed, authRequired | status, login, health check, every request | a page without a session returns to the login | `Session` |
| Tunnel (`internal/tunnel`) | frpc process or in-process client, status | Start, Stop, Status, scan | the status follows the slot; nothing stays behind | `Agents` |
| Agent processes (`main.go`: runServe, serve) | two listeners, the context of the signal | start, listen, end | one serves at last; an orderly end is tidy | `Agents` |
| Expressions (`internal/expression`) | none | Apply, MaskText | masks that hide | `Answers` (not MaskText) |
| Service (`service.go`), configuration, openapi | | install, uninstall; read; format | | left out |
| The other pages of `web/`, packaging scripts | what they fetched; none | | | left out |

What is hard about it:

* Interleaving. The supervisor's lock is released around sleeps, waits and
  kills. net/http runs every request in a goroutine and neither apply, dbConnect
  nor erpnextConnect holds a lock. AllowTool and Call read the live manifest
  separately.
* Failure. Document sync makes up to four remote calls for one file and any of
  them may fail before or after taking effect; audit ignores the result of its
  writes; saving credentials may fail after they are live.
* Crash. The sync state is saved once per scan; the stored settings are written
  by three system calls, the certificate to two files, and credentials move from
  a file to the keychain; audit starts a new chain with each run. A killed agent
  leaves an frpc process, a slot at the edge and, until it is dead, two ports.
* Order and time. A debounce timer races the loop it wakes; the directory is
  watched only after the first scan; handlers may outlive the 5 seconds of
  Shutdown and record after Close. In the panel, answers arrive after the page
  has moved on: after further edits, another login, or when it is gone.

`PROJECT.json` lists these as hazards, at their lines, with the properties that
cover them.

## The modules

`X.tla` models a component, `MCX.tla` instantiates it for TLC, `XProofs.tla`
proves theorems about it; `PanelProofs` is about `Onboard`, `Wizard` and
`Session`, `CallProofs` about `Answers` and `Audit`. (`Session` and `Answers`
have names of their own for their `SessionSpec` and `CallSpec`, so that a module
can extend them beside another.) `Places` holds what three of them share, the
members that a loop picks from a sequence, in their order. Definitions carry the names of the code where TLA+
allows it, and `PROJECT.json` maps each to its lines. Next to some definitions
stands a variant of the same shape (`RestartSameGeneration` beside `RestartBegin`): a bug
a programmer could have written there, which no behaviour of `Spec` uses. It
shows that the property it is meant for would notice.

### Supervisor

Threads are program counters: the main thread (Start, systray.Run, onTrayExit,
exit), the menu goroutine (Restart and Quit, one click at a time), a monitor per
child blocked in Wait (`monitor[c]`, which captured `childGen[c]`), and sleeping
respawns (`sleeping[g]`, a bag, because the same generation could in principle
have several). Every region under `s.mu` is one action and `Process.Kill`, which
runs after the unlock, is another; so a spawn can fall between reading `s.cmd`
and killing it. A child is a name with a state: "running" until a kill is sent,
"killed" until it is dead. A name is reused when nothing refers to it.

The generation is what makes it work: Restart raises it, and whoever wakes up
with an older one gives up.

* `OneRespawnChain`: at most one thread may spawn for the current generation.
* `OneRunningChild`: at most one child runs that nobody has killed.
* `NeverUnwatched`: while it is not shutting down, some thread will bring the
  current generation to life again.
* `ShutdownKills`: after the flag is set no child runs but the one a shutting
  thread is about to kill. `BirthsAreCurrent`: an action property, a birth is
  always of the current generation.
* `ComesBack`, `ShutdownEndsChildren`: liveness.
* `IsOneChild`: it implements `OneChild`.

Of the invariants the run checks `OneRespawnChain`; the others are proved and
stand in the module as lemmas of the refinement.

### OneChild and Agents

`OneChild` is what Supervisor promises, without locks, goroutines, backoffs and
generations: at most one process that nobody has killed, a new one when there is
none, and none any more once it is closed. A killed process lives until the signal
takes effect, and its successor may be born before.

`Agents` is built on it: `Start`, `Kill`, `Dies` and `Exit` contain its actions,
and what it knows of processes is what `OneChild` allows. In each process runs
runServe: it boots, starts a goroutine per listener, starts the tunnel, waits for
a signal and ends in order. A port that is still held makes log.Fatalf end the
process. The tunnel is the sidecar (an frpc process, which survives its agent) or
frp's client inside; `client` is either, `state` what Status tells, `slot` the
edge's one place for this bundle. Kills, crashes, signals, breaks of the
connection, the end of frpc and another machine come at any step.

* `EndIsTidy`: an agent that ends on a signal has no frpc and no port left.
* `ServesAtLast`: unless somebody closes the tray, one agent serves both ports
  for good, although each may meet the ports of the one before it.
* `ConflictClears`: a conflict is not shown for good over a slot that nobody else
  holds. The exceptions are what the code does: a client that has ended (nobody
  starts it again), an orphan, another machine.

### DocSync

One goroutine, split wherever the world can change under it: each read of the
directory and each remote call is an action. In particular the hash
(`Visit`) and the text (`Extract`) come from two reads of the file. A content
stands for bytes, hash and text. A remote call takes effect or not, and the
caller sees success or error, independently (`Remove`, `Upload`, `Add`); the
entry, the removal of the old version and the upload keep the order of the code.
fsnotify queues an event, or overflows and does not; the timer and the
one-element channel are `armed` and `token`. Crash returns to the saved state
or, when that cannot be read, to an empty one.

Edits may bring an earlier content back; `restored` is the history of the files
they did so to.

* `QuietMeansExact`: a watcher at rest has made the knowledge base equal to the
  directory. This is where an edit between hash and text, or during a
  scan, would show. Its exceptions are real ones: an edit no event told of, an
  unreadable directory, any failed call or crash, and a file that looks unchanged
  (`LooksUnchanged`): edited between its hash and its text, it has an entry of the
  first content and the text of the second, and an edit has brought the first
  back. The run `docsync_restore` shows that one.
* `LeakBound`: documents no entry names are bounded by failed calls and crashes.
* `StaysMirrored`: a file whose current text is in the knowledge base stays
  there until it is edited, whatever fails. Excepted is a scan that has read
  another content (or none) and is overtaken by an edit that restores the one it is
  about to remove (`Overtaken`).
* `EventLeadsToExact`, `CrashHeals`: liveness, if remote calls are answered.

### ToolServer

A request is a goroutine that enters by the tunnel (ServeHTTP) or the panel
(try) and walks through AllowTool, the connector's Call (manifest, handle,
query, each read on its own), the audit record and the answer; `snap[r]` is the
manifest Call read and `hnd[r]` the handle. `Apply` replaces the live manifest
and connectors ping, swap and close handles in between. `log` is the sequence
of records; the audit module refines it.

* `RunsOnlyAllowed`: a query runs only for a tool of the very manifest whose
  masks shape its answer, even when AllowTool saw another.
* `AnsweredIsAudited`: an answer with a decision has exactly one record, saying
  the same; one without has done nothing.
* `HandlesAccounted`: no handle leaks, and the current one is open.

### ConfigStore and SettingsRegister

Two stores (manifest, credentials), written by the same three system calls:
open with truncation, write, rename. Inodes are explicit, so that a handler
which has opened `<path>.tmp` keeps it when another renames it. Any call may fail
and the agent may die between any two. The manifest is kept and then goes live;
credentials go live and are then kept. `SettingsRegister` is the abstract view:
two cells, kept and live, and nothing else; `ManifestIsRegister` and
`CredentialsAreRegister` are the refinements, with what a start-up would load as
`kept`. `NoHalfFile` says the file always loads.

Requests of one kind may meet, and then they share one `.tmp`: one may rename the
file the other has just truncated, or write into the file already in place. Two
histories tell where that was possible: `company` are the handlers that were at
work while another of their kind was, and `met` says of a store that some have
been since the last one that was alone from beginning to rename. What is promised:

* `NoHalfFile`: a store whose handlers have not met loads. So a lone save
  mends what others spoilt, whatever they left in `.tmp`, and no error or crash
  of lone ones leaves half a file.
* `ManifestIsRegister`, `CredentialsAreRegister`: the register has a flag `upset`,
  which is `met`. While it is set any value may be kept or live, and the save
  of a lone request settles it: then the manifest kept is the one of that request,
  the credentials kept are those live. What is live in an agent that does not
  run is what it would load (`Serving`).

### Credentials

Where ConfigStore has the system calls of one store, `Credentials` has the stores:
per key ("db", "erpnext") the environment, the keychain's entry and the legacy
file, with a file's write as one action. Each start probes the keychain, which may
have come or gone; Load looks into the store of that mode and, in keychain mode,
migrates what it finds in the file: Set, then Remove, either of which may fail,
also after it took effect. Then comes the certificate (TLS is on in this module):
two files, each truncated and then written, a crash or failure anywhere.
Between starts run the handlers that connect and save; erpnextConnect creates and
registers the connector if there is none, one action per access of the shared
variable. `kept` and `keptMode` are history: the newest value that a store took.

* `NothingIsLost`: the newest credentials are in the keychain or in the file.
* `StartFindsNewest`: Load returns them if the store is still of the kind they
  were kept in. Otherwise it may return older ones: the two are never compared.
* `CertificateStays`: every start that serves, serves the same certificate.
* `ConnectedIsServed`: after a connect was answered the registry has the connector
  that was connected, unless two requests both created one.

### Answers

What ToolServer leaves out of a call: BuildQuery, the rows, and the masks. A tool
is a list of filters (optional or not, of any of the six comparisons), a kind and
a limit; the database holds a finite table; SELECT TOP without ORDER BY returns
any choice. The loop over the filters picks the places of those that are given,
and the k-th of them has the k-th placeholder. A text is a sequence of
characters of four kinds. `CallInit` enumerates the inputs.

* `AnswerIsExact`: the answer is that of the filters that were given, each with
  its own argument, whichever optional ones are left out, and the limit cuts it.
* `MaskHides`: of the characters a mask is about one at least is hidden, no more
  than the kind allows are shown, and nothing that was not there.

### Audit

Runs share one file, and a new run may start while a killed one still lives.
Record runs under the mutex and is one action; its write is whole, partial or
missing, and a line appended to a partial one is garbled too. A hash is a pair
(run, number): it tells its record from all others.

* `LossIsNoticed`: a reader who follows the chain notices every record lost
  before another of its run, and raises no false alarm.
* `WindowIsTail`: Recent answers the newest records of its run, newest first,
  in the file or not; asked for some of one server's it answers the newest of
  those in the window and leaves none out.

### Onboard and Wizard

`Onboard` holds the pure part. A database name is a sequence of parts, words and
separators, and a manifest key the sequence of its words, which is what slug and
the "_" between words make of it; so the collisions the code must avoid are
there ("Note 2" and the second "Note" both want note_2). How a number is written
in a key is the constant `itoa`. A manifest is its entities by key and its set of
tools: neither Validate nor what is served asks for their order. Field and entity
expressions, tools with their select and filters, and Validate follow; the
manifest's name, label and database block are constants of the program.

`Wizard` is the page and the handlers it calls. The page's state is one variable
per useState hook that matters; an edit is one action; a request is sent, takes
effect at the agent, and is answered, in three steps, because the editor stays
usable in between. Every button that sends is disabled while a request runs
(`request`), edits and the steps are not. An answer may be lost, before or after
the agent acted, and leaving the page leaves an apply behind (`stray`) that may
still be handled after the wizard was opened again. `promise` and `unseen` are
history: what was open on the page when the manifest now live was sent, and
whether it went live without the page being told. The wizard is opened on a
connected database.

* `SuggestionIsExact`: one entity per table, one field per column, all keys
  different, and the result is valid, for a lone table and for the schema.
* `OnlyOpenedIsServed`: what the agent serves was open on the page at the click
  of publish, however the candidate changed while it was on its way.
* `UnmaskedOnlyByName`: of the columns the candidate has, only the operator makes
  one `Bare`, or an advice that names that very column; a table added or an advice
  about others, however late, does not. Bare is a column under anything but a mask:
  Apply returns a text unchanged if a format does not fit it, and an advice may
  name a format for a masked column (the bounds have one).
* `DiffIsTrue`: the review step compares with the manifest really live.
* `AssembleIsValid`: assemble keeps a valid candidate valid, but for two cases:
  no tool is left, or one names a closed field other than to return it (a filter
  compares it, or a count selects it). Then Validate refuses, nothing is served,
  and the page shows its error.

### Session

The agent's session table and one page. A token is "valid" until it expires,
is deleted when it is met expired or at the next login, and forgotten by a
restart, which may also bring or take the password. The page's requests are on
their way side by side (`inFlight`, health checks have places of their own) and
are answered in any order; each carries the token of the moment it was sent,
and each 401 drops the token of the moment it is taken.

* `OnlyStaleRefusalsLogOut`: the page drops the token of a valid session for one
  reason only, a refusal, arriving late, of a request it had sent with another
  token. In whichever order answers come, none of its own requests, no lost one
  and no restart does it.
* `BackToLogin`: a page that shows the application without a valid session comes
  back to the login. The health check does that, so it needs its timer.

## The runs

| Run | Bounds | Shows |
|---|---|---|
| supervisor | 3 child names, 3 generations, fair | no double birth, the refinement of OneChild, liveness |
| agents | 2 agents, 2 kills, 1 trouble, fair | tidy end, liveness; both modes and all configurations of the tunnel |
| docsync | 2 files, 2 contents and one that is skipped, any 2 edits (also back) and faults, 6 uploads, fair | the safety properties and liveness; 250 thousand states |
| docsync_purge | 2 files, an outage | `PurgesOnlyDeleted` fails |
| docsync_restore | 1 file, 2 contents, any 3 edits and failed calls | `UnchangedIsMirrored` fails |
| toolserver | 2 requests, 2 reconnects, 2 applies, 2 manifests, 3 tools | the safety properties; 1 million states |
| config | 3 applies, a connect, 2 failures, 2 restarts, a short value and a long one | no half file, both refinements; 1 million states |
| credentials | 3 starts, 2 connects, 2 faults, 2 values, with and without environment and keychain | the stores, the certificate, the registration; 2 million states |
| answers | 2 filters of 6 operators over 2 columns, every row, limits negative, 0, 1 and above the cap (2 rows by default, 3 at most); texts of 6 characters, of 10 digits | queries and masks; 590 thousand states |
| audit | 2 runs, 3 records each, a window of 2, 2 failed writes | the chain and the window |
| onboarding | 3 tables (2 of one name, 1 without columns), an empty manifest and one written by hand, 4 edits and requests, 2 openings; a mask, a format, an advice of each | the properties of the wizard; 650 thousand states |
| panel | 2 tokens, 2 health checks and 1 other request on their way, a restart, a reload, a lost request, fair | the properties of sessions; 50 thousand states |

Why these bounds are enough. Three generations give Restart two chances to meet
a monitor, a sleeper and a spawn of an older generation, with a name for a child
of each. Two agents are all that OneChild lets live with one kill on its way;
two kills let the successor of a killed one be killed too. Two files let one be
purged while the other is uploaded; two troubles give, for instance, an edit
between hash and text and the edit back, or a failed call and a crash before
Save, and the safety properties are proved for any number of each. `MaxUploads`
cuts off nothing: a first scan and the troubles need no more. Two requests and
two reconnects give every order of read, swap and close. Three writers of a kind
are two that meet and one that comes alone, before them, after them, or while
one of them has failed or was killed; connects save by the same calls, and one
is beside them (of more, the run would be too long: there is the proof). A short
and a long value let the rest of one show behind the other. Three starts let the
keychain come and go and come again, and a certificate be half made, made and
read; two faults fail the migration and what follows. Two optional filters are
the least in which one that is left out moves the other; ten digits are one more
than any mask keeps. The default limit of 2 and the cap of 3 stand for 100 and
1000 (`sqlgen.go`): constants of `Answers`, of which it asks that the default is
positive and under the cap; with four rows either can cut. Four edits and
requests suffice to add two colliding tables, close a field and publish, or to
publish, edit and publish again across two openings. Two health checks on their
way let a late one meet a new login.

### Where code and comments disagree

Two runs state what a comment says and show the code doing otherwise; their
findings in `PROJECT.json` quote the lines:

* `docsync_purge`: `sync.go:77` says that what is purged is no longer on disk. A
  directory that cannot be read for a moment is taken for an empty one.
* `docsync_restore`: `sync.go:106` leaves an unchanged file alone. Hash and text come
  from two reads; edited between them and then back, a file looks unchanged while
  the text in between stays in the knowledge base for good, without any failure.
  A failed upload behind the removal does the same: the entry keeps the old hash,
  and a content edited back is taken for pushed although its document is gone.

Others met on the way, without a run of their own:

* `main.go:160` says writeManifestAtomic leaves no half file. Of two applies that
  meet one may rename the file the other has just truncated (`NoHalfFile` without
  `~met`). `main.go:249` says apply writes and swaps live: of two that meet one may
  be live and the other kept. Either lasts until the next that comes alone.
* `llm.go:4` says the assistant only advises, and `generate.go:86` that the mask of a
  name goes before the format of a type. runAdvise (`Wizard.tsx:181`) writes an
  advised format over a mask, and Apply returns a text that is no date as it is
  (`expression.go:205`): the exception of `UnmaskedOnlyByName`.
* `Wizard.tsx:98` says adding a table keeps all other edits. The suggestion is made
  without looking at the candidate: a table of the same name in another schema
  replaces the first one's entity, its masks included (`Merge`).
* `tray.go:101-102` says onTrayExit can safely call Shutdown again. `Shutdown`
  (`supervisor.go:122`) returns at once when the flag is set although the other
  caller has not killed yet: when the desktop closes the tray during a Quit, the
  process exits and the child survives. `ShutdownEndsChildren` excepts that exit.
* `tunnel.go:25-26` leaves restarts of frpc to frpc. When the process exits nobody
  notices, the status stays what its last line said and nothing starts it again
  (`ClientEnds` in `Agents`).
* `tunnel.go:71` clears a conflict caused by a restart on the same machine. An frpc
  orphaned by a kill or by log.Fatalf keeps the slot, and the panel speaks of
  another machine for as long as it lives (`OrphanStep`).
* `selfcert.go:22-23` loads the files when both exist. A start that fails while
  it writes the key leaves both, and every later start ends in log.Fatalf
  until one is deleted (`CheckCertificate`). No start serves another certificate.
* `service.go:37-38` speaks of a Stop that waits; no command runs the service, its
  program's methods are dead code.
* `expression.go:108` says what is unknown is masked; an expression with an empty
  kind (`:email`) passes the value as it is (`Applied`, the word "").
* `toolserver.go:10` says every decision is audited; the answers 405 and 400 and
  the discovery of `openapi.json` leave no record.
* `audit.go:3-4` says every record is linked to the one before; the first of each
  run is linked to genesis, so that a reader cannot tell a lost tail of one run.
* `sync.go:123-124` says the old version of a document is removed first so that no
  duplicates pile up; when the removal fails the new one is uploaded beside it
  (`LeakBound` counts these).
* `webui.go:259` calls try read-only; with `MASHA_ERPNEXT_WRITE` set, AllowTool lets
  create_document pass (`ErpCall` in `ToolServer`).
* `audit.go:19` says the file holds every record; the result of the write is
  ignored (`NotWritten` in `Audit`).
* `Wizard.tsx:199` says assemble gives a valid manifest; see the exceptions of
  `AssembleIsValid`. `generate.go:6` says the same of Suggest; a schema without
  columns gives no tool and is refused.
* `api.ts:139` says a 401 brings App back to the login; a page whose
  `/auth/status` got no answer takes the panel for open, runs no health check
  and never shows the login (`App.tsx:51`). The same happens to an open page when a
  password is set later.
* `Wizard.tsx:3` promises a review of what will change; when the export of the live
  manifest fails the wizard goes on from nothing, and the review shows no
  removals although publishing replaces everything. After a publish the button
  does not come back, so later edits cannot be published without reopening.

### Fairness

* Supervisor: every goroutine of a living tray is scheduled, a sleep ends, the
  operating system ends a killed process, Wait returns for a dead one. A menu
  click, a crash of a child and the end of the tray are owed by nobody. A spawn
  may fail any number of times, so `ComesBack` asks for strong fairness of
  spawns that succeed: an executable that always fails is out of its reach.
* Agents: what the supervisor is shown to do (a birth follows, a killed process
  dies), the goroutines of runServe, frpc's own retries (`loginFailExit=false`), and
  the edge, which notices at last that a session is gone. Kills and troubles
  are bounded and owed by nobody; an orphan may live for ever.
* DocSync: the watcher goroutine, its loop and the timer are scheduled. The remote
  calls have no fairness: the client has no timeout (`main.go:391`,
  http.DefaultClient), so one that is never answered stops the scans for good.
  Both liveness properties have it as their hypothesis that calls are answered
  (`Answered`); that is the server's to give.
* Session: requests are handled and answered, and the ten-second timer fires
  while its effect is mounted. Losses, restarts and reloads are bounded, logins
  and operations are owed by nobody.
* The other modules state safety only.

## What is proved

All of the following needs nothing but the named assumptions on the constants.

`SupervisorProofs` proves, for any set of names and any number of generations:
`TypeCorrect`, `NoDoubleBirth` (`OneRespawnChain`), `SingleChild`
(`OneRunningChild`), `AlwaysWatched` (`NeverUnwatched`), `ShutdownIsFinal`
(`ShutdownKills`) and `BirthsCurrent` (`BirthsAreCurrent`), from two assumptions:
`NoChild` is not a name, and there is at least one generation. None of the five
is inductive: that a spawn finds no running child needs to know that the only
holders of a generation's right to spawn are its own threads, and that an older
generation has no right left. `IInv` adds `ThreadsInv` (what each thread holds at
each step) and `ChainsInv` (a running child is the current command and has a
monitor of the current generation, or Restart is about to kill it). The lemma
`SpawnFindsNoChild` is the heart of it: a thread about to spawn for the current
generation holds the only chain, so no child runs. `StepIInv` has a step per
action. `Refinement` follows: with `IInv`, every step is a step of `OneChild` or
a stutter, a spawn that starts being a birth because it finds no running child.

`AgentsProofs` proves `Types` (`TypeOK`, whose last conjunct says that a name
without a process holds nothing), `Tidy` (`EndIsTidy`) and `AgentsAreChildren`: the
processes of `Agents` obey `OneChild!Spec`, so that `Agents` is built on what
`Refinement` shows of the supervisor. `OrderInv` gives the order of the end: which
listeners are closed and what is left of the client at each step of runServe.

`ToolServerProofs` proves, for any number of requests, reconnects, manifests,
tools and applies: `TypeCorrect`, `OnlyAllowedRuns` (`RunsOnlyAllowed`),
`AnswersAudited` (`AnsweredIsAudited`) and `NoHandleLeak` (`HandlesAccounted`).
`RequestsInv` says what a request has decided at each step, and that from the
step where Call has read its manifest the tool is in it; `LogInv` that
there is no record before Record and one after it; `HandlesInv` that a handle is
fresh until its one swap, which is why two swaps never return the same handle and
no handle is closed twice.

`PanelProofs` proves every property of the wizard, for any schema, any names, any
manifest it may start from, any advice and any bounds: `WizardTypeCorrect`
(`TypeOK`), `SuggestionsAreExact` (`SuggestionIsExact`), `AssembliesAreValid`
(`AssembleIsValid`), `NothingClosedIsServed` (`OnlyOpenedIsServed`),
`ReviewIsTrue` (`DiffIsTrue`) and `MasksStay` (`UnmaskedOnlyByName`).

* `KeysAreUnique` is what the suggestion rests on: a key avoids those made before
  it. The keys are a recursive function, of which nothing can be shown by
  induction here; so `KeysOneByOne` and `KeysAreUnique` look at the least place
  that would be an exception. That uniqueKey finds a number at all is the
  pigeonhole principle: fewer keys are taken than there are numbers, and `itoa`
  writes different numbers differently (`UniqueKeyIsFresh`).
* `TypeOK` and `PageInv` are inductive together: every manifest that is live, read,
  edited or on its way is well formed, its tools told apart by their names, and
  nothing is on the page while it loads. `OpenInv` says of each apply on its way,
  awaited or not, that it exposes only what was open when it was sent, `DiffInv`
  that a manifest read or applied is the live one unless something unseen went
  live, `AddInv` that a table whose suggestion is on its way is not in the
  candidate yet.

Of `Session` it proves, for any number of tokens and places,
`SessionTypeCorrect` and `ValidTokensStay` (`OnlyStaleRefusalsLogOut`). Here the types
are inductive: they say of every token that is held, stored or on its way that it
was handed out, which is what a late answer needs. `RefusedInv` says that a session
whose token was refused is not valid, now or later.

`ConfigStoreProofs` proves, for any number of handlers, however they meet: `Types`,
`NoHalves` (`NoHalfFile`) and both refinements, `ManifestRegister` and
`CredentialsRegister`. `FilesInv` says that a path names a complete file unless
handlers have met, `NamesInv` that no two names share one, `MeetingInv` that a
handler not in company is the only one of its kind at work, and `HandlerInv` that
such a one has its store's `.tmp` open, knows what is in it, and has made nothing
but its own value live or kept. What a start-up would load then changes in Rename
alone, which is the register's step: an entry, or the settling of an upset one.

`CredentialsProofs` proves all properties of `Credentials` for any values, requests
and bounds: `Types`, `NoLoss`, `Newest`, `SameCertificate`, `Connected`. Three
invariants, each inductive with the types: `StoresInv` (the newest value is in the
store of the mode it was kept in, and Remove runs only when that is the keychain),
`CertificateInv` (a served certificate is the one in both files, and nobody makes
another), `ConnectorsInv` (who is about to register or has connected holds erpConn,
unless there was a race).

`DocSyncProofs` proves all its safety properties for any finite set of files, any
contents and any bounds: `Types`, `Leaks` (`LeakBound`), `RestIsExact`
(`QuietMeansExact`) and `MirrorsStay` (`StaysMirrored`).

* `LeakBound` itself is not inductive: an entry may name a document that an
  earlier failure has already left behind. `LooseInv` therefore bounds the
  documents that are neither solid (named by an entry, in the knowledge base, not
  about to be replaced) nor in hand between two calls; each of them has been paid
  for by a failed call, and a crash sets loose at most one per file.
* `RestIsExact` follows an edit to the scan that takes it. `QuietInv`: while nothing
  has failed, the knowledge base holds what the entries name and what is in hand
  (`DocInv`); and unless something is pending that leads to another scan (an event,
  the timer, the token), the directory is still what this scan has listed, and
  every file is recorded, at work or to be done (`ScanInv`). `TruthInv`: an entry
  with the hash of a file's content has the text of it, too, unless an edit has
  brought that content back. `RestIsRecorded` needs no such exception: whatever the
  edits, a watcher at rest has an entry with the hash of every file that has text,
  and that entry's document is the only one of the file.
* `MirrorsStay` rests on `StaleInv`: a document is only removed when its entry has
  another hash than the file, unless an edit has overtaken the scan.

`CallProofs` proves of `Audit`, for any runs, servers, window and failures,
`Types`, `Losses` (`LossIsNoticed`) and `Windows` (`WindowIsTail`). What a reader
sees is a statement about whole chains; `GapInv` replaces it by one about
neighbours (a lost record with a line of its run after it means that some line's
own predecessor is lost), which needs no induction along the chain. `WindowInv`
says which record stands at each place of the window. Of `Answers` it proves, for
any finite table, any tools, limits, arguments and texts, `Exactness` (`AnswerIsExact`) and
`Masks` (`MaskHides`). These, and the window of one server, need to know what a
loop picks from a sequence: `PickedInOrder` says that it takes the chosen places
one by one, in their order and all of them. It counts the places up to each
(`UpTo`), and the pigeonhole principle says that every number is met, so that no
induction over the sequence is needed.

Only checked, not proved: liveness, that is `ComesBack`, `ShutdownEndsChildren`,
`ServesAtLast`, `ConflictClears`, `EventLeadsToExact`, `CrashHeals` and
`BackToLogin`, because TLAPS does not reach fairness and ENABLED; and with them the
fairness that `OneChild!Spec` states: `Refinement` is about its safety.

## What is not modelled, and why

Text, JSON, SQL and HTML are data: a tool, a manifest, a content is a value.
`DocSync` keeps the directory flat: addRecursive and directories created later
are left out. Time is order only: the backoff, the debounce of 2 s and the
timeouts of HTTP clients are steps that happen at last. Opening a browser, the
tray's icons, logging, the panel's read-only pages and the packaging scripts
have no state to be wrong about. The language-model client is a request, its
advice a set of expressions. Of the wizard's last step, trying a live tool is
left out: it reads, and its late answers only show.

`Agents` takes what frpc prints as read at once: the pipe, its two scanners and
the window between a server's start and a Shutdown before it listens are left out;
Shutdown's five seconds for running requests are ToolServer's and Audit's matter.
`Credentials` takes a file's write as whole (ConfigStore has its calls) and TLS as
switched on. `Answers` leaves out LIKE, quoting of identifiers, formats of dates
and money, and MaskText, which finds patterns in running text.
`service.go` only installs: nothing calls the program it registers. Introspection
of either connector and the configuration read and change nothing.

## Plan

What is left, in order:

1. `DocSync` with subdirectories (addRecursive of directories that appear while
   the watcher runs).
2. Composition of `Agents` with `Credentials`: a restart while a connect is being
   saved, which each has on its own.
3. An abstract journal for ToolServer's `log`, implemented by `Audit`, and its
   proof by refinement.
4. Lemmas that DocSync's and the wizard's proofs have in common, in fewer steps.
