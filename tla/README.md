# FsTTY: specifications and proofs

FsTTY is a desktop SSH client for Windows: a Tauri program whose Rust back end
(`src/src-tauri/src`) keeps sessions, connections, terminals and file transfers, whose
window (`src/src`, React) draws them, and which also serves agents through a local MCP
server.  A separate Windows service, the credential broker (`src/src-tauri/broker`), keeps
the secrets.  This directory holds TLA+ models of the program, the TLC configurations that
check them and TLAPS proofs about them.

Contents: [inventory](#1-inventory), [plan](#2-plan), [modules](#3-the-modules-and-the-code),
[runs](#4-the-runs), [fairness](#5-fairness), [proofs](#6-proofs),
[findings](#7-findings-and-observations), [limits](#8-what-is-not-shown).

Paths below are relative to `src/src-tauri/src` unless they start with `broker`, `network`
or `ui` (= `src/src`).

## 1. Inventory

| Component | State it keeps | Operations | What is hard, and what must hold | Modules |
|---|---|---|---|---|
| **Lightweight mode, bridges and transaction** (`services/lightweight_mode_service.rs`, `ui/features/lightweight`, `TerminalPane.tsx`) | a bridge per terminal (attached, paused, detached, dead; held output, screen parser), one transaction, the preserved terminals, a shared memory budget | begin, append snapshot chunks, commit, abort, 60 s time-out, attach, finish the restore; every output and end of a terminal | terminals keep emitting while the window is handed over; a commit is for all terminals or none. No output lost, repeated or reordered; nothing stays held back | `LightweightMode`, `TerminalStream` |
| **Lightweight mode, configuration file** (same file) | three files, the value in memory, a trust flag | load, save (seven file operations) | any operation fails, the process dies between any two. The last saved value survives | `LightweightStore` |
| **GUI lifecycle** (`gui_lifecycle.rs`, `lib.rs`) | phase of the program, activation slot, window, `window_destroying` | activate, exit, shutdown, destruction by lightweight mode | event loop, activation and commit interleave. No dead window shown, no exit nobody asked for, no slot lost | `GuiLifecycle` |
| **Transfer jobs** (`services/transfer_job_service*`, `ui/.../sessionTransferJob.ts`) | jobs with summaries, download slots, pending decision, window subscription | start, attach, resolve, cancel, acknowledge, shutdown; workers of a batch | five workers, one conflict shown at a time, answers that name no file, a window lost and opened again, tasks that outlive their jobs | `DownloadBatch`, `TransferJobs` |
| **File transfers of a connection** (`services/connection_manager/transfer.rs`) | table of transfers, files on both sides | upload, download, cancel | limits, a cancellation before registration, replacing a file in steps that fail | `FileTransfer` |
| **Connection manager** (`services/connection_manager.rs`, `authentication.rs`, `terminal_io.rs`) | attempts, registry (two tables), host keys, challenges; per channel: batches, queues, tasks | connect, disconnect, update, delete, trust and forget a host key; terminal input, output, resize, exec | a server answers late or never; a `select` drops an attempt anywhere; keys change between question and answer; one direction of a channel must not stop the other | `ConnectionManager`, `SshChannel` |
| **Remote files** (`connection_manager/remote_files.rs`, `mcp/search.rs`) | the directories of the server, one search | list, create, rename, move, delete a tree, write a file as a whole; search a file in windows | a check (busy, name free) that is old when it is used, names that mean other entries, a tree another program changes, a file that grows | `RemoteFiles` |
| **Device metrics** (`services/device_metrics_service.rs`) | a task and a window of samples per connection | start, sample, read, stop | an answer after the stop; two starts; counters that are reset | `DeviceMetrics` |
| **MCP server and connection cache** (`mcp.rs`, `mcp/*`, `mcp_runtime.rs`) | leases, idle deadlines, gates, the listener; copies of the program | tool calls, idle expiry, server start and stop | a connection in use must not be closed; rights change while a call waits; commands of two windows | `McpConnections`, `McpAccess`, `McpConfiguration`, `McpRuntime` |
| **MCP transfer tickets** (`mcp_transfer*`) | tickets with expiry and use | issue, upload, download, clear, finish | an upload once, a client that goes away in the middle | `McpTransfers` |
| **MCP command policy** (`mcp_command_policy*`) | rules of a group | split and judge a shell command | no part of a command escapes the rules | `CommandPolicy` |
| **Broker: store and service** (`broker/src/store.rs`, `service.rs`, `proxy.rs`, `services/broker_service.rs`) | sealed records with revisions, tickets of changes, logged-in connections | stage, review, approve, delete, connect, carry channels | the elevated window outlives the desktop; records change under a login | `CredentialBroker`, `BrokerConnection`, `ChannelBridge` |
| **Broker: installation and update** (`broker/src/installation*`, `update.rs`) | programs, service, registration, journal, copies; a staged package | deploy, uninstall, recover; stage, verify, run; close the desktops; replace a file | a crash between any two steps, process identifiers used again, names exchanged | `Installer`, `AppUpdate`, `DesktopShutdown`, `ProgramFile` |
| **Sessions and credentials** (`services/session_service*`, `credential_service.rs`) | session file, secrets in chunks, order and groups | create, update, delete, move | two places change together, and any access fails | `Sessions`, `CredentialVault`, `StoreFile`, `Workspace` |
| **Settings** (`services/settings_service.rs`, `commands/settings_commands.rs`) | settings file, permission database | save with roll-back, migrate | several processes write one file | `SharedSettings`, `McpConfiguration`, `StoreFile` |
| **Application update** (`services/app_update_service.rs`) | the pending update | check, download, install | one at a time | `AppUpdate` |
| **Local terminals** (`services/local_terminal_service/*`) | starts, hosts, pipes, profile files | start (also elevated), cancel, stop, output, exit | UAC answers late, queues are full, files are shared by their share modes alone | `LocalTerminal`, `LocalHost`, `ShellProfile` |
| **Command history** (`services/command_history_service.rs`) | rows, deduplication | record, import, page, clear | pages over a table that changes | `CommandHistory`, `LocalHost` |
| **Local agent setup** (`local_agent_setup*`) | files of the agents | configure, repair, remove | the agent writes the same file | `AgentSetup` |
| **Outbound proxy client** (`network/src/lib.rs`) | one stream | HTTP and SOCKS5 handshakes | pieces of any size, no byte of the server lost | `ProxyTunnel` |
| **Window session state; user interface; Windows dialogs and calls; logging, paths** | | | no protocol of their own, or the operating system's | not modelled, see §8 |

How the parts meet: the window calls Tauri *commands* and receives *channels* (terminal
output, job summaries); the connection manager owns the network and lends connections to
terminals, transfers and the MCP cache; lightweight mode stands between terminal tasks and
window channels and, through the activity lock, keeps connects, commits and window
activations apart; the GUI lifecycle decides when the window and the process end.  In the
Windows build secrets are with the broker service: `CredentialBroker` models that build,
`CredentialVault` and the secret half of `Sessions` the one without it.

`PROJECT.json` lists all components with their state, and under `hazards` the places
where the code is exposed, each with the properties that would catch it.

## 2. Plan

In order of importance; every step below is done.

1. `TerminalStream` (abstract), `LightweightMode` (refines it): output across the destruction
   of the window.  `LightweightStore`, `GuiLifecycle`: what the mode rests on.
2. `ConnectionManager`, `SshChannel`: attempts, cancellation, host keys; the channels.
3. `DownloadBatch`, `FileTransfer`, `TransferJobs`, `RemoteFiles`: what is moved and changed
   through a connection.
4. `StoreFile`, `CredentialVault`, `Sessions`, `Workspace`: what has to survive.
5. `CredentialBroker`, `BrokerConnection`, `ChannelBridge`; `Installer`, `AppUpdate`,
   `DesktopShutdown`, `ProgramFile`: the broker, and how programs are replaced.
6. `McpConnections`, `McpAccess`, `McpTransfers`, `McpConfiguration`, `McpRuntime`,
   `AgentSetup`, `SharedSettings`, `CommandPolicy`: agents.
7. `LocalTerminal`, `LocalHost`, `ShellProfile`, `CommandHistory`, `DeviceMetrics`,
   `ProxyTunnel`.

Theorems, in the same order; proved are those of `LightweightStore`, `StoreFile`, `GuiLifecycle`,
`LightweightMode` (output and refinement included), `ConnectionManager`, `DownloadBatch`,
`FileTransfer`, `McpConnections`, `McpTransfers`, `SshChannel`, `CredentialBroker`,
`CredentialVault`, `Sessions`,
`SharedSettings`, `AppUpdate`, `Installer`, `ProgramFile`, `DesktopShutdown`, `LocalHost`,
`ShellProfile` and `CommandHistory` (§6).  Still to prove, in the order of their weight:

- `RevokedRefused` and `RootsRechecked` of `McpAccess`: a call has its right until it works;
- `ServerAgrees` of `McpConfiguration`, the safety of `TransferJobs`.

The modules are written for this: parameters are constants, every action is one operation, and no
operator is `RECURSIVE`, except in `CommandPolicy`, which only TLC evaluates.

## 3. The modules and the code

Each component has a module of its own; an `MC…` module instantiates one or several of them with
the values TLC needs.  Proofs are in `LightweightModeProofs`, in `DurableStateProofs` (about the
components of `MCDurableState`, whose sets and bounds are constants), in `DesktopProofs` (the same
for `MCDesktop`), at the end of `MCAgents` (about three of its components, whose sets and bounds
are its constants), and otherwise at the end of the component (`ConnectionManager`,
`DownloadBatch`, `FileTransfer`, `CredentialBroker`).  Definitions keep the names of the source
where they have one. Operators such as `PendingNewestFirst` or `RegisterLate` that no action uses
are wrong variants of the operator after them, made the way a plausible slip in that code would:
each property is known to fail for one of them, those of `PROJECT.json`; of a property that joins
several statements, every statement was broken by a variant of its own.

**Lightweight mode.**  In `LightweightMode` output is a sequence of units, the *n*-th unit of a
terminal being the number *n*; limits count units.  `bridge[t]` is
`LightweightTerminalBridge.state`, `tx` the transaction, `op` the call that holds the
runtime lock with the bridges it has still to visit (`Pause`, `Detach`, `Undo` are one
iteration each, because output arrives between them), `stream[t]` the FIFO channel to the
window with its barriers, `gui` the part of `lightweightMode.ts` and `TerminalPane.tsx`
that enters the mode and restores.  `EmitData` and `EmitEnd` are `emit_data` and `emit_end`
in all four bridge states.  `UserView` says, through `INSTANCE TerminalStream WITH …`, that all
this looks to the user like one plain stream per terminal.  `LightweightStore` has one action
per file operation of `persist`, each of which may fail, `Crash` at any point, `Load`
afterwards; `kept` remembers what the last finished operation left, `split` the failed saves
that leave memory ahead of the disk on purpose.  `GuiLifecycle`: `task` is the one activation
that has the slot, `txn` the commit of lightweight mode as far as it touches the window,
`ExitEvent` and `Destroyed` what the event loop handles; `tray` decides whether the mode may be
entered, `restore` is what the page of a restored window has still to finish (it asks for the
mode once, calls finish when its terminals have loaded and again when the user retries a failure).

**Transfers.**  `DownloadBatch`: `worker[w]` walks through `run_download_queue`; `summary` is the
job's summary, `channel` the events it causes, `ui` the subscription of
`sessionTransferJob.ts`, which identifies a conflict by batch index and file name, `call` a
resolve call under way.  `TransferJobs`: the registry of all jobs, their registration in three
steps, cancellation by the user, by the end of a connection or of a page, and the shutdown;
cancelling all jobs of a connection is one step.  `FileTransfer`: `table` is the map of
`begin_transfer`, `task[t]` the steps of a file from the temporary file to the clean-up; all
transfers write the same name, the interesting case; the content of a file is the transfer
that wrote it.  `replaced` and `faults` are history: which contents a local rename replaced, how
many operations failed.  `RemoteFiles`: the tree maps paths to entries with an identity;
`task` is an operation of the file browser or the agents' write, one request to the server at
a time, `busy` the transfer whose presence refuses it, `foreign` what other programs did;
`scan` is one search of an agent, window by window, in `log`, a file that others append to.

**Connections.**  `ConnectionManager`: an attempt is one call of `connect` or `connect_headless`
and lends its name to its connection and its challenge.  The `select` of both is the pair
`Interrupt` (drop it wherever it waits) and the ordinary step; `Outcome`, `Cleanup`, `Finish`
are the code after it; the commands (disconnect, update, delete, trust, forget) keep the order
of their steps, since attempts run between them.  `SshChannel`: one channel, of a terminal, a
sample or a command; two requests whose answers may come after the first output, then
`run_terminal_reader` (batches that a full buffer or a timer sends) beside
`run_terminal_writer` (input and resizes from a bounded queue, a window the server may close).
"exit" stands for status, signal and end of file.  `DeviceMetrics`: the task of a connection;
of a sample only the received bytes are there, since the other values are missing together
and compared with nothing.  `ProxyTunnel`: every byte class of an answer, arriving in any
pieces, with the bytes of the server directly behind it.

**Durable state.**  `StoreFile` is the save protocol of two files that differ in loading and in
undoing.  `CredentialVault` the some twenty accesses that replace a key in chunks.  `Sessions`
the operations that touch both, with every access failing and crashes in between.
`Workspace` the order that is repaired whenever it is used.

**Broker.**  `CredentialBroker` has the records of one user, the tickets of staged changes, the
elevated windows that approve them and the desktop's operations with the older copies they move.
A key is observed with the target it was probed at; the second pass over a group is merged per
item; a migration imports an old copy, or a private key from a file of its own.
`BrokerConnection` and `ChannelBridge` are a connection and one of its channels.

**Programs.**  `Installer`: the steps of `deploy_inner`, `uninstall` and `recover_locked` over one
directory, with journal and copies; the credential database is the number of changes saved in
it.  `AppUpdate`: a desktop that stages, an elevated helper that verifies, asks and runs; the
directory of the stage is all they share.  `DesktopShutdown` and `ProgramFile`: the two places
where a name (a process identifier, a path) may mean something else than a moment ago.

**Agents.**  `McpConnections`: `entry` is the cached connection with its users, `watcher[k]` the
task that closes it, `gate` and `operation` the two locks of a call.  `McpAccess`: one call, check
by check, between edits of settings, groups and rights, each of which takes several steps; a
decision of the policy is free.  `CommandPolicy`: the splitter of `shell.rs` and the matcher as
functions over sequences of characters.  The reference beside it reads the same text the way bash
does, first as words and operators (`Reading`: longest operator first, quotes inside of words,
continued lines, comments where a word may start, `nested` for whatever would run commands of its
own), then as simple commands, each the set of its places in the text (`Commands`).  The scan
records the places of its segments, and the two are compared place by place (`Seen`); five kinds
of text they differ in are named and excepted (`ForeignComment`, `EscapedArrow`, `HiddenKeyword`,
`Joined`, `QuotedExpansion`; see §7).  `McpTransfers`: tickets and the handlers that use them.
`McpConfiguration`: the commands of the settings page and of the list of sessions, step by step,
over settings, rights, token and listener.  `SharedSettings`: the desktop and the programs of
agents over one file and one database.  `AgentSetup`, `McpRuntime`: the file of an agent and the
program it names.

**Local shells.**  `LocalTerminal`: a start from its reservation to its registration, against
cancellation, UAC and a desktop that dies.  `LocalHost`: the threads of the host between the
console and the pipe, which is one queue with that of the host, and the thread that writes
accepted commands.  `ShellProfile`: the files of a profile, safe by share modes alone.
`CommandHistory`: rows, deduplication, imports, pages.

## 4. The runs

`tlc -config X.cfg M` with the module and configuration of each row of `PROJECT.json`.

Several runs are *unions*: components that share no state are instantiated side by side, a
variable `component` chosen at the start says which of them moves, and the others stay in one
fixed initial state.  The states of a union are the sum, not the product, of those of its
parts, and its properties are those of the parts.  Liveness under the parts' own fairness stays
valid: in the initial state of a component none of its fair actions is enabled, so the
fairness of the parts that do not move asks nothing.

| Run | Instance and bounds | What it shows |
|---|---|---|
| `lightweight_group` | 2 terminals, 1 transaction, 2 units each, limits 2 and 4, screen 1, the channel of one terminal may fail | `DetachedTogether`: with the window gone every live terminal is preserved and none is half detached; `HeldByTransaction`: outside a call only a live transaction holds a terminal; `WithinBudget`. Two terminals are needed for one to fail while the other succeeds; the limits are reached by the second unit |
| `lightweight_user` | 1 terminal whose channel may break, 2 transactions, 4 units in the first and 3 once the second has begun (`Bounded`), limit 3 | `OutputIntact`: all output once, in order, the end last, on every way it takes; the refinement `UserView`; `Progress`: holds end, due output is shown. Three units tell apart snapshot, held and later output, the fourth overflows |
| `desktop` | 3 windows; 2 starts of 1 tab; 1 shell with 2 outputs and queues of 1; 2 commands, 3 times (one before 1970), 3 rows, pages of 1; 2 hosts of 1 profile | `FreshWindow`, `NoWindowOnExit`, `ExitOnlyOnRequest`, `Recovers` (exits end, slots are freed, destructions end); `ShellsEnd` (cancelled starts leave nothing, hosts nobody has are reclaimed, every start ends, exits are told, a drain of the history waits for what was accepted); `ShellsWhole` (the exit comes last, a shell runs on its own files); `HistoryWhole` (one row per command, complete pages). Queues of 1 make every place where a thread can block block. That 1024 cancelled requests are remembered is a bound this instance does not reach |
| `download_batch` | 2 workers, 3 files, 2 slots (1 may belong to others), 2 windows, in three scenes: unattended with cancellation, a lost session or a panic; attended with 2 files left; cancelling with 1 left and a window that comes and goes | `SummaryTrue` (counters add up, completed means all files, the shown conflict is waited for), `OverwriteApproved`, `BatchesEnd`. Two workers reach a conflict together; the scenes cut only combinations of a panic with a window |
| `connection_manager` | 1 terminal and 1 headless attempt, 2 commands, 1 session, 2 hosts (one known), 2 keys | `DisconnectWins`, `CancelledLeavesNothing`, `VerifiedHost`, `CancelledEnds`. A second session would share nothing with the first but the tables, whose entries are by attempt; the theorems hold for any number |
| `remote_work` | 2 transfers (symmetric) over 2 connections, 2 faults, 1 foreign file; 2 jobs of 2 tabs sharing tab or connection, 1 slot; a tree of 2 names to depth 3, 2 operations, 1 entry of another program; a file of up to 5 lines, windows of 2 and 4, up to 2 matches with 0 or 1 lines after; 1 connection with 1 interface, a clock up to 4, a window of 1 interval and so 2 samples (121 = 600 s / 5 s + 1 in the code); all answers of proxies, heads of up to 11 bytes | `FilesTidy` (no leftovers, the name stays, limits, early cancellations), `FilesKept` (no content lost, also by a kill at any moment; a search that goes on gets further), `TasksApart` (one transfer per tab and connection, exits clean, a stopped task stays stopped, curves are true; the browser deletes what was asked for, a file is written whole, a search in several calls shows all it found), `TunnelClean` (the first byte read is the server's, passwords only when asked). Depth 3 has a directory with a directory in it, whose deletion another program can disturb; windows of 2 and 4 end inside and behind a match |
| `durable_state` | mode: 3 values and every content of 3 files at the start; file: 2 values; vault: keys of 1 and 2 chunks, 3 accounts; 2 sessions, 1 secret of each kind, at most one left half changed (`FewSpoiled`); 2 remote and 1 local session in 3 groups; 2 desktops, 2 helpers, 2 packages; the desktop and 1 agent with 1 save and 1 crash over settings with old rights; 2 versions, 1 error and 1 crash, 2 saves; 3 processes, 2 identifiers; 3 file objects | `RestartKeeps`, `MemoryMatches`, `SavesLast` (what was saved last is there, a moved session lands where it was dropped), `SecretsWhole` (after an answer a key is old or new, nothing is left, secrets fit their session and go back with it), `UpdateOnce`, `RightsMoveOnce` (rights of an old file reach the database once, and no late process takes an edit back), `InstallationWhole` (one version or repeatable; files are replaced where they were verified and as a whole; only desktops are closed, and all of them), `InstallationKeeps` (credentials return only to what this upgrade found, other names of a file keep what they refer to). One error and one crash reach every pair of a failing step and an interrupted recovery |
| `mcp_configuration` | 2 windows (symmetric), 1 list, 2 groups, 2 ports, 2 tokens, 2 faults; 2 saves of the agent; 2 versions; 1 call between 2 edits over 2 groups; all commands of up to 3 characters of 23 classes, where `!` stands for the words the code refuses, and of up to 5 from each of four sets (quotes and expansions; comments and blanks; redirections; continued lines); patterns of up to 4 | `ConfigurationAgrees` (settings, rights and server agree or are as before; nobody takes back what another wrote), `AgentUsable` (its file has the present address and keeps what others wrote, and names a copy that runs), `CallsChecked` (a right taken back since the call began is refused, roots are looked up again, locks return; every simple command of the reference is in a segment of its own that the rules allow, but for the five named kinds of text, and patterns match as they mean). Five characters hold a command, a quote, escape or comment, what it protects, an operator and a command behind it |
| `credential_broker` | 1 session with 3 targets (one with a key file), or a group of 2 with one target; 3 tickets, 2 revisions, 1 fault (expiry, restart, death) anywhere | `RecordsTrue` (keys fit their hosts, old copies are tracked), `SecretsMove` (old copies are used once, a session goes after its credentials). A third target tells "the one before" from "any other". Deadlock is checked |
| `agents` | 2 calls, 2 connections; 2 links (at most 1 active transfer), 2 handlers; 3 revisions, 2 channels; windows of 2; 1 channel with 3 outputs, batches of 2, queues of 1 and 2, 1 input, a server window closed at first | `LeasesKept` (leases are counted, nothing used is closed, nothing cached is replaced), `AgentsServed` (an upload succeeds once, output is in order, the exit after it, a cut is told), `AgentsEnd` (idle connections, cleared links, channels of samples, stale logins and left channels end; neither direction stops the other) |
| `gui_lifecycle_retry` | `FinishWhileEntering` | **violation** of `ExitOnlyOnRequest` (finding 2) |
| `lightweight_retry` | no `DrainBeforeRetry` | **violation** of `SnapshotDrained` (finding 1) |

All runs but `credential_broker` disable the deadlock check: the bounded lives of their
components end (all windows used, all transfers done, all commands called), and what must go
on is stated as liveness.

Assumptions on the environment are constants or stated at the action: `DrainBeforeRetry` (a
new attempt to enter lightweight mode starts after the barriers of the last were read;
without it, finding 1), `FinishWhileEntering` (finding 2), in `DownloadBatch` that a worker
takes a decision that is there before a new window opens (`OpenWindow`), in `SharedSettings`
that the database opens.

## 5. Fairness

Weak fairness only for what the program's own scheduler runs: Tokio tasks that are ready,
threads of the host, timers, Tauri's event loop, delivery of events to an open window.  Strong
fairness where the code waits for a lock that is granted in order: `AwaitGuard` (Tokio's
`RwLock` queues its readers, and transactions only try), `AcquireSlot` and `ShowConflict`
(Tokio's semaphore and mutex are first come, first served).  No fairness for the user, for
servers, for other programs or for the remote shell, with one exception: the part of
`BatchesEnd` about a batch with somebody at the window, in the two scenes that say so.
`ConnectionManager` asks fairness of the attempts' own steps only; `Handshake`, `Login` and
`Confirm` may wait for ever, and that is the point of `CancelledEnds`.  `LocalTerminal` has no
fairness for UAC, `ShellProfile` none for the programs that hold a file, `SshChannel` none for
the server, whose window may stay closed; its exec requests have the deadline of the code.
Transfers in `DownloadBatch` are assumed to end (they do when the connection does).

## 6. Proofs

All checked by `tlapm` (SMT, Zenon, LS4 for the temporal steps) for every value of the
constants that satisfies the modules' assumptions.  In each module an invariant `Inv` is
shown to hold initially and to survive each action, one lemma per action; the theorems
follow from it.

| Theorem | Argument |
|---|---|
| `LightweightModeProofs!TypeCorrect` | `TypeOK` is inductive. It contains the one fact that is not about types, that the window never shows more than was sent, which makes `SubSeq` well typed |
| `LightweightModeProofs!HoldsReleased`, `GroupDetached` | `HoldInv`: a bridge that is held, paused or detached with its fallback belongs to the transaction that is there, carries its token, and a roll-back has still to visit it; `GroupInv`: while a transaction is there, no connection is being made and its group contains every live terminal, which is what makes the destruction of the window safe for all of them. Neither theorem is inductive alone: `DetachedTogether` needs to know before the commit that the group is complete, `HeldByTransaction` that a roll-back in progress misses nobody. Most steps are instances of one lemma, `QuietStep` |
| `LightweightModeProofs!OutputComplete`, `SnapshotsDrained`, `LooksLikeStreams` | `OutputInv`: for every terminal, what was sent and what its bridge holds are together the whole output (`Whole`), and so are the log and the screen of a detached one (`Folded`); a paused terminal has at most one barrier, the last message of its channel (`Barrier`), and before the pause there is none.  Hypothesis `DrainBeforeRetry`, which the run `lightweight_retry` shows to be needed.  `LooksLikeStreams` maps every step to a step of `TerminalStream` or a stutter |
| `LightweightModeProofs!BudgetKept` | `WithinBudget` is inductive beside `TypeOK`, but it compares a limit with a sum over all terminals, a fold. `UsedSums` shows that the fold is such a sum (a recursive function on the sets of terminals, which exists for finite ones), `SumsGrow` that it grows by at most what one share grows by; both by looking at a smallest set on which they fail (`LeastSet`). Then every action adds to no share (`NothingGrows`) or to one, after it has compared the sum with the limit (`OneGrows`) |
| `DurableStateProofs!StoreTypeCorrect`, `StoreKeepsValue`, `StoreMatchesMemory` | `KeptInv` says for every step of a save which of the three files a restart would use; a trusted primary that does not parse has no good backup to replace, an untrusted one leaves the backup alone; while there is no primary the temporary file holds the new value; only `Commit` changes what a restart loads |
| `DurableStateProofs!RightsAreMovedOnce` | `RightsInv`: until the database has the rights, the file is the old one and every process that runs has read it and is before its first save, because a process migrates before it saves anything. The rest are action properties that follow from the steps |
| `DurableStateProofs!UpdateRunsOnce` | `UpdateInv`: tickets are numbers already issued (`TicketsInv`); a verified helper's ticket is that of the staged package, which runs under a claim, alone, and has not run while there is no claim; while a package is received there is none to run (`ClaimInv`); what was run stays with the helper that ran it (`RunInv`) |
| `DurableStateProofs!InstallationIsWhole`, `InstallationKeepsOthers` | Three components, each with its invariant. `PackageInv`: `JournalInv`, a journal is there in the steps that need it, describes one version and has every copy a recovery reads; `StepInv`, what each step of an installation, a recovery or an uninstall has changed so far. `ProgramInv`: from the check of the directory on the guard keeps it as it is (`GuardInv`); a name never refers to a half-written file (`NameInv`), and the temporary file has no other name (`TempInv`). `ClosingInv`: an identifier belongs to one live process (`NamedInv`); before the answer of the person there is nothing to terminate (`AskInv`); the last scan misses no desktop that ran when it began (`ScanInv`) |
| `DurableStateProofs!SavedFilesAreKept` | `FileInv`: a trusted primary is the last version or gone; as long as the primary is not trusted the backup is the last version (`LastInv`); the steps of a save know whether there is a primary and a backup (`PlaceInv`); after the only backup was renamed, what a restart finds under the primary is still the last version, but the next save does not trust it (`SpentInv`, the case `LastVersionExists` fails in). It is the half of `SavesLast` about files |
| `DurableStateProofs!SecretsAreWhole` | `VaultInv`: the accesses that are left are the end of the list of the request (`Rest`), and the account of every access before that has what it leaves there (`Written`, `Deleted`, `DeletedAll`), so at its end a list has left exactly the key it was made of, without a chunk of another. A crash or a roll-back that fails as well may leave a damaged key, of which nothing is claimed until the next request. `SessionInv`: the file has the sessions of the memory and may lack a queued deletion only (`ListInv`); a secret fits its session (`FitInv`) and has one, or is queued (`OwnedInv`), unless it is of the call that runs or of a session whose roll-back failed as well; `Progress` says for every step of a call what it has made of its session's secrets, `WipeInv` what a deletion has left, `UndoneInv` that a failed call's are as they were |
| `DesktopProofs!GuiTypeCorrect`, `ActivationShowsPresentWindow`, `ExitShowsNoWindow`, `ShutdownOnlyOnRequest` | `TaskInv`: an activation behind the guard excludes transactions, so the window it prepared cannot be destroyed; `TxnInv`: the mode is saved and the destruction announced before it is submitted; `FinishInv`, needed by the last theorem only, whose hypothesis is `FinishWhileEntering = FALSE` |
| `DesktopProofs!ShellsStayWhole` | Two components. `ShellInv`: places are counted through every stage between the shell and its tab; the console has what the reader has not read (`InConsole`), the hand of the reader its last output with the command before it (`InHand`), and the queue goes on, place by place, where what is shown ends (`InQueue`); the threads of the host end one after the other, each with nothing left to do (`InOrder`). `ProfileInv`, for any number of hosts that share the settings: nobody else takes a file that a host reads (`Shared`), so that a setting once compared stays as it was (`Compared`) until all are installed (`Installing`), and another program reaches an own file only between its two handles (`OwnHeld`) |
| `DesktopProofs!HistoryStaysWhole` | `HistoryInv`: rows have different identifiers below the next, one per command if duplicates are dropped (`Single`); what was there all along is listed or lies behind the cursor (`PagesKeep`). The lemmas are about pages: in a finite table the order by time and identifier has a first and a last row, and the last row of a full page is before everything that is not on it. They are the least-number principle (`WFMin`) on the number of rows before or behind one |
| `ConnectionManager!ConnectionTypeCorrect`, `DisconnectedStaysOut`, `CancelledIsGone`, `OnlyVerifiedHosts` | `TidyInv`: what an attempt owns at each step, and that it finds again what it registered; `SeenInv`: an attempt a disconnect has seen is cancelled while it can still register, and if it is registered the command still has to drop it; `KeyInv`: every known key, and the key of every attempt past the check, was known at the start or confirmed by a finished command for an attempt to the same host |
| `DownloadBatch!SummaryIsTrue`, `OnlyApprovedOverwritten` | `BatchInv`, of three parts. `CountInv`: every file is with the queue, with one worker, or counted once. `AnswersInv`: of the workers that have a conflict one has the turn, and it is the one the summary shows; the question at the window and the answer of a call are about the conflict of the summary, still undecided; an event on its way is so too or repeats what the window has handled. `ApprovedInv`: a worker that may overwrite has a decision given for its own file.  The second theorem excludes panics: a worker that dies with its conflict leaves a decision behind, and TLC has the counterexample |
| `FileTransfer!TransfersTypeCorrect`, `FilesLeftTidy`, `ContentsKept` | `FilesInv`: `OwnInv`, what a transfer owns at each step (its temporary file, its backup, nothing after the end); `TableInv`, the table has the transfers that run and respects the limits; `ContentInv`, only a transfer that succeeded has its content under the name; `NameInv`, while the name is empty somebody still holds a backup of it, for up to one failure; `EarlyInv`, a transfer cancelled before its registration passes no later check.  `ContentsKept` looks at two states: what disappears in a step was replaced by a transfer that may, or as `LossAllowed` says |
| `CredentialBroker!BrokerInductive`, `RecordsAreTrue`, `SecretsMoveOnce` | `BrokerInv`: `DesktopInv`, what the desktop knows at each step of an operation; `PendingInv`, what is staged is about a revision its record has or had, and a key that was observed belongs to the target of that revision; `RemovalInv`, the ticket a removal waits for deletes all its credentials or can no longer be approved.  Without the last, windows left by an earlier desktop could approve something else in its place |
| `MCAgents!LeasesAreKept` | `CacheInv`: the two locks of a call are held by it and by no other; a call has a lease in exactly the steps between `acquire` and `release`; the cached connection is watched and no call closes it |
| `MCAgents!AgentsAreServed` | Two components. `LinkInv`: a ticket of an upload that may still begin has no handler and stored nothing (`Exclusive`), and the one handler of a ticket whose file was stored knows of it and only finishes (`StoredOnce`). `ChannelInv`: what a terminal has shown and batched, followed by what is kept and on its way, is all that was printed while the connection lives (`Whole`); wherever an exit is in the queues, what precedes it completes the output (`Flow`), which also holds after the connection broke and lost the rest, and is why the window may be told of the exit (`Told`); what a command has shown and will get is counted against what was printed, less exactly when something was cut (`CommandKept`). Most actions are instances of `ChannelMoves`, `ChannelQuiet` or `ReaderMoves`. What a sequence of messages brings is computed by a recursive function (`FlattenSeq`); that it exists, and how it grows at either end, follows from the least-number principle (`RunsExists`, `OfAppend`, `OfFirst`) |

`DisconnectWins` is not inductive: it says nothing about an attempt that is still waiting
for its server.  `SeenInv` closes the gap and rests on the lock of the attempts: reading
`cancelled` and entering the registry are one step (`register_connection_if_current`), and so
are cancelling the attempts and listing the connections (`disconnect_session`).

The proof of `ContentsKept` changed what is claimed.  An earlier `NothingLost` allowed a local
content to disappear only in a rename over it; the proof stopped at the return of a backup, and
TLC confirmed with three downloads of one name that a failed one may put the file of another
back over what came meanwhile.  `LossAllowed` now has this case (`PutsBack`), and says of it
that the user's own file goes in this way only after an operation has failed.

Assumed are the `ASSUME`s of the modules, all about the instance: constants are numbers where
bounds are meant, names of different kinds differ (an absent or damaged secret is none, and no way
to authenticate; a missing or broken file is no content of one; the other program is no host, and
`None` neither a host nor a row), settings are a sequence of names, times are integers and a page
has at least one row, a key has at most `MaxChunks` chunks, sets of terminals, workers and calls
are finite, a link is for a download or an upload and `None` is no link, a batch has at least one
unit, a program's file has at least one object.  The hypotheses `DrainBeforeRetry`,
`~FinishWhileEntering` and "no worker has panicked" are in the statements of the theorems that
need them.

Only model-checked, and why:

- liveness, since `tlapm` has no rule for fairness and `ENABLED`: `Progress`, `Recovers`,
  `ShellsEnd`, `BatchesEnd`, `CancelledEnds`, `AgentsEnd`;
- the order of sessions in `SavesLast`, which is sorted, and the search of `FilesKept` and
  `TasksApart`: they need induction over data by a rule that takes an operator, which is out of
  the provers' reach, as is what `CommandPolicy` and `ProxyTunnel` compute for inputs of every
  length (the least-number principle, which takes a set, was enough for the shared budget, the
  pages of the history and the messages of a channel);
- all that is not in the table above: the other modules have invariants that TLC checks and
  no theorem yet (§2 has the order).

## 7. Findings and observations

1. **Snapshot taken too early after a retry** (`lightweight_retry`).  A barrier is an empty
   message, and the window takes any empty message for the one it waits for
   (`consumeLightweightBarrier` in `TerminalPane.tsx`).  After an aborted attempt whose barrier
   is still in the channel, a retry lets the old barrier pass for the new one; output between
   the two is neither in the snapshot nor in the held buffer, against
   `doc/lightweight-mode.md:6`.
2. **Exit through the finish of a restore** (`gui_lifecycle_retry`).  A window restored from
   lightweight mode calls `finish_restore` when its sessions and terminals have loaded, or when
   the retry button of a failed restore is used (`ui/features/lightweight/useLightweightRestore.ts:28`,
   `ui/features/sessions/Workspace.tsx:337`); nothing keeps it from doing so while the mode is
   entered again.  The call waits for the runtime lock behind the commit, then saves
   `active = false` for a window that is being destroyed; the loss of the last window then ends
   the process, which `lib.rs:82` says it never does.  In the trace the program starts in
   lightweight mode with a tray, an activation creates the window, its page finds a restore to
   finish, the mode is entered again and saved, and only then the first finish is called.

The models also contain statements that a comment or a document makes and that do not hold.
They are defined next to the properties, with the quotation, and are in no configuration; put
the name into the configuration of the module to see the counterexample.

| Formula | Promise | What happens |
|---|---|---|
| `MCMcpConfiguration!RevokedStays` | `src/README.md:47`, saved rights hold from the next request on | the undo of a command of the session list writes the table it read before another command saved |
| `MCMcpConfiguration!EveryCommandSeen` | `mcp_command_policy/shell.rs:570`, quotes, escapes, comments and redirections are not split wrongly | the scan differs from bash in the five named kinds of text: a `#` behind a carriage return or a blank of Unicode starts no comment; an escaped arrow before `&` or `\|` redirects nothing; a reserved word may end at a redirection or a continued line, or begin behind one; a continued line may lie inside of an operator; quotes inside of `${ }` may hold its end |
| `MCRemoteWork!SearchFinds` | `src/README.md:41`, a search in several calls finds every line with the text | a match among the lines shown after the last match of a call is shown but not named, and the next call goes on behind these lines |
| `MCRemoteWork!RateOfOne` | a rate is of one interface (`parse_network` reads whichever one the default route names) | it compares two interfaces when the route moved between the samples |
| `MCDurableState!LastVersionExists` | `session_service/persistence.rs:82`, the last trusted version is never lost | after a failed commit the backup is the primary but not trusted; the next save deletes it before its own commit |
| `MCDurableState!CommittedStays` | `installation/transaction.rs:383`, a failed cleanup takes nothing back | the journal is removed first; if that fails, the next operation restores the old version |
| `MCDurableState!SavedStays` | `src/README.md:164`, a switch takes effect at once and is saved | a program of an agent that migrates the settings file writes an older version of it |
| `MCAgents!LinksRetryable` | `mcp_transfer/http.rs:636`, retry while the link is valid | a handler dropped between begin and finish leaves its ticket active |
| `MCAgents!TailShown` | `terminal_io.rs:333`, the end comes after the last batch | the writer ends first and the reader is dropped with its batch |
| `MCAgents!DisconnectEnds` (with `MaxTyped <- 2`) | a disconnect ends the terminal | its request waits in a full queue behind input the server does not read |

Also seen: a worker of a batch keeps its slot while it waits for the user, so that as many
conflicts as slots stop every download, against the comment at `download_batch.rs:310`.  And
three places where the code allows what nobody wants and no property can hold, recorded as
hazards with a note: two downloads to one local name that find no target both rename to it; a
session read before its attempt begins survives a change of the session (outside the
broker build); a decision may reach the next file if a second page answers a conflict that is
already answered.  Three downloads of one name may end with the file of another put back by the
one that failed (`PutsBack` in `FileTransfer`); an operation of the file browser that has passed its
check for running transfers goes on beside one that starts now; and the temporary file of
the agents' write stays behind when its directory is moved meanwhile.

## 8. What is not shown

- Bytes, encodings, ANSI sequences, chunk sizes and hashes are abstracted to units and
  values, except in `CommandPolicy` and `ProxyTunnel`, whose characters and bytes are classes.
- The reference of `CommandPolicy` is bash as the repository's tests take the shell of the server,
  without aliases, history and the words an option of it changes; control characters other than
  the line feed, the carriage return and the tabulator are not typed.  `QuotedExpansion` takes
  more characters than the run types; it was found by evaluating `Seen` on longer texts.
- Smaller simplifications: `Used` of `LightweightMode` does not count what `append_snapshot`
  has reserved for the viewport, so its terminals have more room than those of the code, and a
  bridge whose attach failed stays in the budget, which the next `begin` of the code makes
  anew, so they have less; `Upload` takes all chunks of a snapshot in one step.
  `BrokerConnection` takes closing the desktop's side to return at once
  (`broker/src/proxy.rs:261`).  `McpRuntime` has no copy with a wrong hash, since its copies are
  renamed as a whole.
- Authentication is success or failure; the methods and their messages are not modelled.
- Times (60 s, 55 s, 30 s, 3 s, idle and ticket times) are nondeterministic: a time-out may come
  at any moment, and under fairness it comes.  `DeviceMetrics` alone has a clock.
- File systems: a rename is atomic and replaces its target locally, and fails on an existing
  target over SFTP; an interrupted write leaves a file that does not parse or a partial
  file.  Loss of data the operating system has acknowledged is not modelled.
- Windows: access control lists, signatures and the service manager are answers of yes or no;
  the dialogs (`broker/src/admin/dialog.rs`) and the wrappers of system calls are not modelled.
- The page: tabs, reconnecting and everything that is drawn.  It is one thread, and the parts
  that race with the back end (capture and restore, the subscription to a job, the retry
  button) are in the modules of those.
- `Workspace`, `CommandHistory` and the others of a union are checked on their own: that the
  session list and the order are one file is in `StoreFile` as one value.
- Export of the history, the contents of listings of remote files, owners and permissions of
  what is written there, the search for installed
  shells, resizing of local terminals, the texts and schemas of MCP tools, validation of
  fields, themes, shortcuts, logging and paths.
