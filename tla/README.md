# A verification project for go-deployer

go-deployer is two programs in one repository. The *embedded deployer* is a library: a web
service links it and gets a dashboard that builds or downloads a new version of the service,
starts it next to the running one on the same port (`SO_REUSEPORT`) and retires the old one.
The *control plane* is a server to which *agents*, linked into any number of services, hold
WebSocket connections; its dashboard sends them deploy, restart, rollback, kill, exec and
terminal commands and streams their logs back.

This directory holds TLA+ models of the parts of both where the difficulty lies in what happens
at the same time, TLC configurations that check them on small instances, and theorems proved
with TLAPS for every value of the constants.

## 1. Inventory

| Component | State | Operations | Interacts with |
|---|---|---|---|
| Instance cluster (`deployer.go`, `platform_unix.go`) | process table, port, `<metadataDir>/<pid>.json` | heartbeat, `/status`, `/kill`, `Cleanup`, start of a new binary | other instances through the kernel and the directory only |
| Pipelines (`deployer.go`, `frontend.go`) | `deployMu`, `frontendMu`, `logChan`, `frontendLogChan` | `deploy`, `deployFromURL`, `buildFrontend`, `deployLogs`, `buildLogs` | pages open a stream, then post; commands of the shell |
| Frontend swap (`frontend.go`) | `dist`, `dist-new`, `dist-old`, `frontend-build.json` | copy, swap, recovery, removal | all instances share the directories |
| Windows supervisor (`platform_windows.go`) | `childPID`, `child.pid` | kill old child, start new one | children, whatever has their pid, the deployer's next life |
| Configuration and git (`deployer.go`) | the checkout | clone, fetch, branches, commits | pipelines use the same checkout |
| Agent: binaries (`agent/agent.go`) | the target directory, `deployMu` | deploy, rollback, cleanup | agents of other instances on the host |
| Agent: connection (`agent/agent.go`) | `conn`, back-off | connect, register, one goroutine per command, `sendMsg` | hub |
| Agent: exec, restart, kill, completion (`agent/agent.go`, `shellsplit.go`) | none of its own | run, signal, split arguments, complete | shell, kernel |
| Terminals (`agent/ptyhandler.go`, `pty_windows.go`, `hub.go`, `server.go`) | `ptySessions`, `ptySubs`, the line being typed | start, input, resize, close, forward, log | browser, agent, hub |
| Hub: log subscriptions (`controlplane/hub.go`, `server.go`) | `logSubs`, channels | subscribe, unsubscribe, publish, janitor, SSE handler | API handlers, read loops, browsers |
| Hub: registry and requests | `agents`, `pendingRequests` | register, deregister, `SendRequest`, `deliverResponse` | agents, API handlers |
| Hub: resource subscriptions | `resSubs`, `resCount` | subscribe, unsubscribe, notify; start/stop commands | agents, browsers |
| Control plane: certificates, CDN, login (`server.go`, `cert.go`) | the certificate's two files, `cdn/<service>/`, a salt | load or generate; delete, clean up, serve files | agents pin the fingerprint and download by salted hash |

What is hard in it, and what makes each part correct:

- **Instances.** Nothing but the directory and `lsof` tells instances about one another, and each
  reads them at a time of its own. Correct means: the port is never emptied by kills; what
  listens can be managed; what is dead disappears from the dashboard; nothing else is signalled.
- **Pipelines.** A log line is a blocking send, so a deployment depends on somebody reading.
  Correct means: a run that starts ends and releases its mutex; a verdict is its last word.
- **Binaries.** A mutex per process protects a directory that several processes use, and a
  download takes minutes. Correct means: a version's name denotes a complete file; no partial
  file is executed; a failed deployment leaves something to go back to.
- **Terminals and requests.** A page, two goroutines of the control plane, a read loop per connection and
  a goroutine per command of the agent meet over connections that come and go. Correct means: a key is heard
  once, by its own shell; output is shown once and in order; whoever ends a session, its terminal is
  closed once; a request gets its own answer or fails; one page's terminal does not stop the others' answers.
- **Windows supervisor.** It replaces its child and may die in between. Correct means: one child at a
  time, and the next life finds it.
- **Control plane.** Agents hold a fingerprint for good, the files behind it are written one after the
  other. Correct means: a death at any step changes no fingerprint that was given out.
- **Frontend swap.** Two moves and a removal replace a directory that is being served, a failed move is undone by another, and
  `mv` does something else when the target exists, which every request that deploys anything sees to (`mkdirAll`). Correct means:
  no part of a build is served, a failed swap leaves what was served, and no complete build is lost.
- **Resource figures.** The commands that start and stop reports are sent after the lock is released and handled in any order, over
  connections that come and go. Correct means: an agent reports exactly while somebody watches, and who watches sees it.
- **Log streams.** Subscription, publication, expiry and departure run in different goroutines
  and meet in a table. Correct means: a stream ends; a channel is closed once and by somebody;
  first lines find a channel.

`PROJECT.json` lists the hazards with their lines and the properties that cover them.

## 2. Modules

| Module | Contents |
|---|---|
| `Instances` | the processes of a service on a host, `/status`, `/kill` |
| `Pipeline` | deployments, their mutexes and log channels, and the pages |
| `Deployments` | what `Pipeline` promises to those who click; `Pipeline` implements it |
| `AgentBinaries` | the binaries of a service on a host, deploy and rollback by several agents |
| `HubLogs` | the hub's log subscriptions with API handlers, agents, streams and the janitor |
| `Frontend` | the directories of a frontend build: copy, swap, recovery, removal |
| `HubResources` | subscriptions to resource figures, agents that register, report and reconnect |
| `AgentLink` | an agent's connections with the terminals and requests that go over them |
| `RemoteSession` | what `AgentLink` promises to pages and callers; `AgentLink` implements it |
| `Supervisor` | the deployer on Windows, its child, the pid in memory and in the file |
| `ControlPlane` | starts and deaths of the control plane, its certificate, an agent with the fingerprint |
| `ShellWords`, `InputLogger` | the pure functions `splitArgs` and `ptyInputLogger.feed`, with reference definitions |
| `Instances_proofs`, `Pipeline_proofs`, `AgentBinaries_proofs`, `HubLogs_proofs`, `Frontend_proofs`, `AgentLink_proofs`, `HubResources_proofs`, `Restarts_proofs` (of `Supervisor` and `ControlPlane`) | theorems and proofs |
| `MCInstances`, `MCPipeline`, `MCAgentBinaries`, `MCHubLogs`, `MCFrontend`, `MCHubResources`, `MCAgentLink`, `MCSupervisor`, `MCControlPlane` | instances for TLC |

`HubLogs`, `HubResources` and `AgentLink` are three views of the same hub and agents: the tables they are about
are disjoint and have locks of their own. Each has the registry and the connections as far as its tables depend on them.

### Instances

`proc`, `bound`, `meta` are the process table, the listening sockets and the metadata
directory. A `/kill` handler has three steps that matter (`KillCount`, `KillPermit`,
`KillAccept`), for each reads or writes something shared; the goroutine that sleeps 500 ms is an
element of `pending`, and the signal arrives in one of the three `Signal...` actions, by whether
the service has a handler (`examples/fullstack`) or none (`examples/basic`), or the target is no longer
an instance. `/status` lists the port, then reads the directory, then removes stale files one by one. A
heartbeat may come at any time until the process is gone, after `Cleanup` too. A pid is used by one
instance at most; an unrelated program may take it over (`Recycle`) and may then be signalled (`"shot"`), for the file
outlives the process: ARCHITECTURE.md:291-292 excludes that and the code does not. The parse of the pid, the
JSON contents and the HTTP answers are left out. The last-instance check of a request and its
target are as in the code: a request may name any pid, the process that serves it included.

### Pipeline and Deployments

A click makes a stream and a POST, which the kernel gives to any of the `Servers`. The handler
is `Accept` or `Refuse` (`TryLock`); the goroutine walks through the stages of its `Program`, and
each stage is an announcement, some output and a success or failure, with the sends that the code
makes (several lines in a row with no effect in between are one). `Receive` is `streamLogs`: it
takes messages of *any* run from the channel of its process and ends with the first `EOF` or
`ERR`. It does not watch the client, so a page that is closed changes nothing. A command that
never ends is outside the model. The network error path of the pages (the POST is never
answered) is outside as well: there, too, the server keeps its stream.

`Deployments` forgets stages, lines, mutexes and channels. A click is asked, begun or refused, a run comes to a verdict and then makes
room, and a stream may be told the verdict of any run of its process and side that nobody has been told. The refinement mapping takes the state of a
run from where its goroutine is (`State`) and what a page was told from `told` (`Shown`); that a click is refused only while a run goes on is where
the mutex, which `Deployments` does not have, must be tied to the runs.

### AgentBinaries

Names refer to files (inodes), so that a rename and a write through an open descriptor are told
apart. A deployment is `StatTarget` (stat and removal of the `.old` name), `SetAside`, the request,
`OpenTmp` (removal and creation of the temporary name in one step), `Copy`, `CopyEnds` or
`CopyFails`, `Place`, `Start`, `Clean`. When the rename of `SetAside` fails although
the file is there, the code removes it, the only good copy perhaps, before the download has begun (`SetAsideFails`, agent.go:415-417);
`MaxFaults` bounds how often. `clashed` is a history variable: two agents have been between stat and rename of one name at the same
time. `written` orders files by modification time; rollback and
cleanup take every name with the service's prefix, with `.old` and `.downloading`. A listing of the
directory with its sort and removals is one step. The kernel refuses to execute a file that is open
for writing (Linux). The names that earlier services or operators put there are left out.

### HubLogs

`logSubs` maps an id to the channel registered for it, `chans` holds every channel ever made, for
handlers keep using channels that are no longer registered. `publishLog` is two steps, the lookup
under the lock and the send without it. `Expire` is the janitor: it may come as soon as there is a
subscription, for neither the age nor the speed of agents is modelled. An agent that is not
connected goes on with its work and its lines are lost. `StreamOpen` needs the API handler's answer,
which carries the id; a browser whose EventSource reconnects is another stream of the same id.

### Frontend

`dir` says what is under the names `dist`, `dist-new` (`"new"`) and `dist-old` (`"old"`): nothing, or the
files of a version, all of them or not, and the directories that a move has put inside, empty or not (`inner`); `has` says that a
complete build is somewhere in the tree. `mv x y` moves `x` *into* `y` when `y` is there, and fails when `y` already holds a
directory of that name that is not empty. A copy and a removal take a while and may be interrupted; a move is one step.

`mkdirAll` makes an empty `dist` wherever it finds none. A build calls it before its first step (`Build`), and `New`, `deploy`
and `deployFromURL` call it in the same process or another while a swap goes on (`Mkdirs`, which may come at any moment; no lock
keeps it away). `mkdirAll` drops its errors, so a build may also find no `dist`; `Init` has either. So an empty `dist` is what the first
build sets aside, what is served after a crash between the two moves, and what may be in the way of the second move or of the
recovery. Such a `Mkdirs`, between the moves, is counted in `races`. The steps between `mkdirAll` and the copy (git, npm) work in the checkout;
when one fails, the build has done no more than `Mkdirs`. `frontend-build.json` is a step without contents. `placed` is the version
that was last moved to its place. `Troubles` says how many crashes, commands that fail of themselves and races
may come together. One process builds at a time. Between the two moves there is no `dist`, although
ARCHITECTURE.md:156 says that the directory always exists; the command shows it, and no run is spent on it.

### HubResources

`list`, `array` and `resCount` are `resSubs` and `resCount` of one service. The list is a Go slice: `append` writes
into the array while there is room and otherwise copies to a larger one (`Growth` says how large, in the run twice as large; the
proofs allow any larger capacity), a removal shifts the elements in place, and
`notifyResourceSubs` walks through a copy of the *header* (`note`), so it may skip a channel, notify one twice, or send
to a channel that was closed (`NotifyPanics`: net/http recovers, the deferred function
deregisters the agent and closes its connection). Dashboards come and go at any moment. The start and stop commands are sent one by one after the lock
has been released; `cmds` is a set, for the goroutines of an agent handle commands in any order. A connection
that is lost takes any of its unread commands along. `agents` is the registry with one key per agent, `server`
the handlers of all its connections, the old ones whose deferred deletion is still to come
included; an agent that dials gets the first connection that nobody holds, for they are alike. Streams are numbered in the order
in which they subscribe (no other difference between them). `adrift[a]` is a history variable: when reporting was last turned on or off, `a` was not
connected or a command to the contrary was on its way to it, or it has lost its connection since. For these agents the code
promises nothing, until reporting is turned on or off again. The figures
themselves are reduced to whether a stream has shown the latest (`news`). A send that blocks
because an agent does not read, the ping and the back-off (a delay of any length) are left out.

### AgentLink and RemoteSession

Connections are numbered in the order in which the agent makes them. `up[c]` is everything that the agent has sent
over `c`; `read[c]` says how much of it the hub's read loop has taken, and `busy[c]` that it is passing on the last
of it: the loop writes to pages itself, so an open page that takes nothing stops it (`AtPage`). Down the connection go
`orders`, `keys` and `questions`; they are sets, because the agent handles every command in a goroutine of its own and may take
them in any order. The hub's side of a terminal keeps the connection it was opened over (`ac`), the agent sends
over the one it has (`conn`): after a reconnection output reaches the page again while keys and the close do not. The old
read loop may still be passing on a message while the new one has begun; two writes to one page panic
(`WritePanics`), which ends the loop. `SendRequest` and its answer are in the same module, for they share the read loop.

Both implementations of terminals are covered: `unix` is chosen at the start from the constant `Builds`. On Windows the close of the
pseudo console ends the process (`CleanupPty`). On Unix the kernel hangs up when the last reference to the terminal has gone, and `Fd`, which
the resize uses, takes the file out of Go's poller, so that `Close` no longer ends the reader's `Read` and the reference stays
(`blocking`). Every page resizes its terminal on opening (terminal.html:80 and 92), so on Unix the shell of a page that is closed
lives on until it ends by itself, against server.go:299 ("Browser disconnected, close PTY"). `LeftTerminalsClose` says what holds of these
terminals too, that they are taken out of the table and closed, and that the shell ends with all others; TLC refutes it as
soon as the disjunct `s \in blocking` is taken out. `CleanupPty` takes the session out of the table and closes its terminal
in one step; the code does the second after it has released the lock, and the short time in which a terminal that is in no table is still open is not shown.
What a page types and what it is shown have no contents; sizes are left out. `Loads` says which terminals and
requests are used together in a behaviour.

`RemoteSession` forgets connections, loops and goroutines. The refinement mapping takes for `written` the places in
`up` that hold output, for `shown` what the page has got of these, for `reply` the requests that the agent has handled, and for
`request` whether the caller still waits (`Written`, `Displayed`, `Known`). Keys and output may be lost in it, and
keys may change places, for the code lets both happen.

### Supervisor

`platformStart` step by step: the pid from memory or file (`Tracked`), the kill of *whatever* has that pid, up to
five seconds of wait (`Wait` may come before the process has gone), the start, the pid in memory (`Record`), and the write, which
truncates first and may fail. The deployer may die at each step. A child that cannot listen exits. `orphans` are children whose
deployer died before their pid was in the file: they are the exact exception to `ChildrenTracked` and `OneChild`.
The log lines are those of `Pipeline` and left out here, so `DeploymentsEnd` presumes that somebody reads them.

### ControlPlane

A start loads the key pair or makes a new one and writes both files, each truncated first; any step may be the last of a
life (`PlaneCrash`), and a failing write ends the program. `pinned` are the fingerprints that have been logged for agents to be given.
The files that exist can be read, and finished writes are not undone by a loss of power.

### ShellWords and InputLogger

Both are folds over characters, in modules without state. `ShellWords` is checked against three reference definitions (words in
quotes come back, blanks separate, an open quote reaches to the end), `InputLogger` against a definition that says for every
position of the input whether its character still stands when Enter, `^C` or `^D` is hit. The checks are the named assumptions of
`MCAgentBinaries` (`SplitArgsQuoted`, `SplitArgsBlanks`, `SplitArgsUnclosed`) and `MCAgentLink` (`LoggerLines`, `LoggerDeletes`,
`LoggerEscapes`, `LoggerWords`), which TLC evaluates for all inputs up to a length of 2 to 8 characters before it
explores the run. They are stated of functions, not of behaviours, and are in no run's list of properties.

## 3. Runs

Bounds are small because the code is symmetric in what they bound: each is the least at which
the case that the property is about happens.

| Run | What it shows | Bounds |
|---|---|---|
| `instances_patient` | kills that do not overlap never empty the port; listeners become manageable; ghosts are collected | 3 pids (killer, target, newcomer), 1 kill in flight, 1 crash, pids may be reused |
| `instances_kill` (violation) | two overlapping kills stop the service | 3 pids, 2 kills, no crash |
| `pipeline_one` | with one process every run ends, its verdict is its last message, as many streams are left as runs are to be heard, and `Deployments` is implemented | 2 clicks of any of the 3 jobs, channel of 2 for 100, 1 line of output per command |
| `pipeline_two` (violation) | with two processes a run may block for ever | 1 click, 2 servers |
| `agent_deploys` | whatever agents are told, final names stay whole and a good copy is kept, with the exceptions below | 2 agents, one of which is told either version and the other one of them, 3 downloads, 1 crash, 1 rename that fails, `Keep` 2 for 5 |
| `agent_rollback` (violation) | a rollback runs the leftover of a crashed download | 2 agents with different file names, 4 downloads, 1 crash, `Keep` 3 |
| `frontend` | no part of a build is served, a failed swap is undone, a complete build is always left, no older version is served after a newer one | 2 versions, up to 3 crashes and 2 races with `mkdirAll`, or 1 failing command |
| `resources` | the list is exact while its copies go stale, the registry survives overlapping connections, agents report exactly if watched unless they are adrift, new figures are shown | 1 agent, 2 overlapping connections, 3 streams (a skip needs three), 1 loss besides those after a panic |
| `hub_logs` | channels are open iff registered, first lines find one, streams end | 1 request, 2 agents, 2 streams, channel of 1, 1 line per agent |
| `agent_link` | terminals are released once, pages see things in order, terminals of closed pages are closed, messages are passed on, and `RemoteSession` is implemented | 1 terminal or 2 requests, 2 connections (one lost, one overlapping), 1 key, 1 piece of output per connection, both builds |
| `supervisor` | children are tracked through deaths of the deployer, one at a time; deployments end | 3 pids, 3 deployments, 2 deaths (two orphans), 1 foreign program |
| `control_plane` | the fingerprint is stable, agents come back | 4 starts |

Some properties name the exception under which the code breaks its promise, and each exception is one that TLC needs:

- `FinalNamesWhole` and `GoodCopyKept` except two agents that have been deploying one name at once (`clashed`), which happens whenever a
  deployment goes to an old and a new instance that share a host. `NamesWhole` in the place of `FinalNamesWhole` in `agent_deploys.cfg` is
  violated in nine states, against agent.go:296-299 ("a partial download can never be mistaken for a good binary").
- `GoodCopyKept` also excepts the cleanup and the rename that fails (agent.go:415-417).
- `WatchedReport` excepts the agents that are adrift. Without the exception, and with `MaxLosses = 0`, it is violated in 11 states, against
  hub.go:225 and 244: a dashboard opens and closes, and the stop overtakes the start.
- `LastIsServed` asks that `dist` is there and complete only as long as no crash and no race has hit a swap. After a crash between the two moves an empty
  `dist` is served once a request has called `mkdirAll`. After a race, `mv dist-new dist` moves the build *into* the empty `dist`, `rm -rf dist-old`
  removes what was served before, and the log says "SUCCESS (zero-downtime deployment)" (frontend.go:211) while `dist` has no files but that directory.
  `NeverLost` says that the build is still to be found there.
- `LeftTerminalsClose` excepts the shells of terminals in blocking mode (see AgentLink above).

Two conditions are choices of constants. With `Troubles <- Rough` in `frontend.cfg` (a crash and a command that fails) a
crash leaves a `dist-old` which the recovery of a later swap takes for the directory it has moved aside, and
`RecoveryRestores`, `DistWhole` and `LastIsServed` are violated; with `Troubles <- Raced` (a race and a command that fails) the recovery
moves `dist-old` into the empty `dist`, and `RecoveryRestores` is. `Patient` in `Instances` restricts the *environment*: a kill is sent when the one before has run its
course. With it the last-instance rule is an invariant (and a theorem); `instances_kill` drops it.

In `agent_link` the order in which a page sees two pieces of one connection's output does not come about, with one
piece per connection, but that of a piece, an error and the close does; the theorem is about any number. A second piece makes
the state space too large for a run of minutes.
`MaxCrashes` and `MaxDownloads` bound counters that only grow; a channel of 2 fills as one of 100
does, for every job sends more than 2 lines; with `Keep = 2` three downloads make the cleanup
delete something, which five would need six for. Deadlock is checked for `Frontend` only, for every other model may stop:
when all streams have come and gone,
when all clicks have been made, when the bound on downloads is reached, when no process is left.

**Fairness.** `Instances`: the heartbeat loop runs as long as the process, and an open dashboard
polls `/status` every three seconds. `Pipeline`: goroutines are scheduled, requests arrive, the
commands of a stage end, and a server goes on reading for its streams. `HubLogs`: the janitor's
ticker runs for ever and every subscription gets old, handlers are scheduled, and a browser that keeps its
stream open takes what is written to it (a write that blocks for ever is outside the model); nothing is assumed of agents, and no browser has
to open a stream or to leave. `HubResources`: a stream that has a notification shows it, an active agent reports and its read loop
walks through the list; no dashboard has to leave, no command to arrive and no agent to return. `AgentLink`: read loops go on (but a write to an
open page may take for ever), a handler notices that its page has gone, the goroutine of a close is scheduled and the kernel hangs
up; nothing makes agents connect, pages read or shells end. `Supervisor`: `platformStart` goes on; no process has to
end and no deployer to return. `ControlPlane`: a start goes on while the process lives, the agent dials again and again
(its back-off is at most 32 s). `AgentBinaries` and `Frontend` have safety properties only.

## 4. Proofs

- `Instances_proofs!TypeCorrect`: the type invariant is inductive as it stands.
- `Instances_proofs!LastInstanceProtected`: `Patient => (Spec => []LastInstanceStanding)`. The
  property is not inductive: whether the port can be emptied depends on who is about to leave. The
  invariant `IInv` says that as long as nobody has crashed there is *one* departure at a time (a
  request, a pending signal or an exit: `OneAtATime`) and that for each of them another process
  listens (`SurvivorLeft`). `KillCount` establishes the second part, for two listeners are one more
  than the target (`AnotherElement`); nothing but the departing process stops listening meanwhile.
- `AgentBinaries_proofs!TypeCorrect`, for whatever agents are told: a write moves a file to the end of the order of modification times and
  loses or doubles none (`TouchedKeeps`), a file that is created has a number that was not used (`Numbered`, `AppendedNewest`), and no removal or
  rename gives a file two names (`DirKept`).
- `AgentBinaries_proofs!WholeRunsAlone`: the property that `agent_rollback` refutes holds for an agent that is alone in its directory and
  is not interrupted (`Alone`, `MaxCrashes = 0`). While it does not copy, every file is complete (`RestWhole`), and a rollback waits for the
  deployment. A crash or a second agent is thus what it takes.
- `AgentBinaries_proofs!FinalNamesAreWhole`, whatever agents are told: as long as no two of them have been deploying one name at
  once, each name is prepared by one agent (`Apart`), the temporary name of a version refers to the file of the one that
  downloads it, and to a complete file between the end of the copy and the rename (`TmpIsMine`). `Deploy` either keeps that or sets `clashed`,
  after which the property asks nothing.
- `AgentBinaries_proofs!GoodCopiesAreKept`: each step but `Clean` and `SetAsideFails` keeps a good copy of every
  version; uses the same invariant, for `Place` overwrites a good copy with a good one.
- `HubLogs_proofs!OpenChannelsAreRegistered`: nothing tells from `RegisteredIffOpen` alone which channel
  a handler closes, so the invariant `IInv` ties the table to the channels (`Table`: what is registered
  for a request is an open channel of that request, and nothing else is open), and says what agents, lines
  between lookup and send, and streams hold (`CommandsOK`, `PubOK`, `StreamsOK`).
- `HubLogs_proofs!EarlyLogsAreKept`: from the same invariant with `Begun` (who has a command belongs to a
  request that has been asked) and `Covered` (such a request is registered, or one of its channels has
  been closed). `Covered` is kept because channels are only added and never reopened (`Grows`).
- `Frontend_proofs!ServedIsWhole`, `BuildsAreNotLost`, `LastPlacedIsServed`, `SwapsAreUndone`: whatever number of times the host goes
  down and another request's `mkdirAll` comes between the moves, or when one command fails of itself, but not both (`MildTroubles`: the
  troubles of the run and those with more crashes and races). The invariant is the three properties (`DistWhole`, `NeverLost`, `LastIsServed`) and says besides what `dist` is at each step compared with what the
  build found, that a failed swap has either left `dist` alone or, by the one command that failed, set it aside
  whole, and that there is no `dist-old` between two builds while nothing has gone wrong, so that what the recovery
  finds then is what this build has moved (`SetAside`). `TypeCorrect` needs no assumption about troubles: what is about to be
  placed is complete, and nothing but an empty `dist` is in its way. That `MildTroubles` is needed shows section 3.
- `Pipeline_proofs!RunsAreRead`: a counting argument. The invariant says that messages of a channel are of runs of
  that channel, that a verdict in it is of a run that has ended and that nobody has been told (`Said`), and that a stream is opened with its run and ends
  by a verdict (`Heard`). A click then adds a stream with each run, and a verdict that is read takes one of each
  away, whichever stream reads it: the numbers are compared, never who reads whom. It needs one process, since both belong to one channel.
  `VerdictsAreLast` is part of the same invariant, for any number of processes.
- `Pipeline_proofs!PipelineKeepsPromise`: `Pipeline` implements `Deployments` for any number of processes, of which `pipeline_one` has one. Two facts are
  added to the invariant: the mutex is held by a run that is active (`Held`), so that a refusal has its reason in `Deployments` as well
  (`BusyHolder`), and a run has its verdict from when it has said it, which is what messages of it say (`Judged`). A line, a stage and the opening of
  a stream are stutters; the verdict that is read is one that nobody has been told, by `Said`.
- `AgentLink_proofs!TerminalsAreReleased`, `PagesSeeOrder` and `LinkKeepsPromise`: one invariant (`IInv`) says that a handler orders one
  shell (`StartOnce`), that a key is either on its way or heard (`KeysOnce`), that a page shows what has been read but not what is being passed on
  (`ShownRead`), that nothing about a terminal follows its close (`CloseLast`), and that answers are replies to
  questions asked once (`Replies`, `Questions`). `LinkKeepsPromise` then maps every step of `AgentLink` to one of
  `RemoteSession` or to a stutter, for both implementations of terminals and whatever the bounds.
- `HubResources_proofs!ListIsExact`: streams are numbered in the order of their subscription, so the list is sorted, and a sorted list of streams
  cannot be longer than there are streams: `append` always finds room or a larger array. A removal shifts what comes after it and keeps the
  order. The copies that handlers walk through reach no further than what has once been written, so that a send goes to some stream, open or
  closed, and never beyond the array. `RegistryIsCurrent`
  is inductive with the types, for the deferred deletion compares the connection before it deletes.
- `HubResources_proofs!WatchedAgentsReport`, whenever dashboards come and go: `WInv` says that an agent which is not adrift is
  connected to a read loop that runs (`Served`), that no command to the contrary is on its way to it or going to be sent (`Pending`, `Unwanted`), and that it does what the
  count asks for or will be told (`Coming`, `Wanted`). `adrift` is set at the two steps that change what is wanted and at those that lose a connection;
  that nothing else can break the three facts, registrations, late deregistrations and commands in any order included, is the proof.
- `Restarts_proofs!ChildrenAreTracked`, `OneChildAtATime`: the invariant says at each step of `platformStart` which pids are known where.
- `Restarts_proofs!FingerprintIsStable`: before anything is pinned the files may be anything; afterwards both are halves of the pinned
  pair, and nothing writes them again.

The assumptions are those of the modules (`PidsAssumption`, `EnvironmentAssumption`, `AgentBinariesAssumption`,
`HubLogsAssumption`, `HubResourcesAssumption`, `VersionsAssumption`, `TroublesAssumption`, `JobsAssumption`, `PipelineAssumption`, `AgentLinkAssumption`,
`SupervisorAssumption`, `ControlPlaneAssumption`), the environment's `Patient` (of `Instances`), `Alone` (with no crash) and `MildTroubles`, and nothing else.

Only model-checked: all liveness properties (liveness under fairness is outside the prover's reach here). Every type invariant and every other safety property of a
passing run is a theorem. What `splitArgs` and `feed` compute for
every input would take an induction over sequences, which the prover cannot instantiate: short inputs are checked.

## 5. What is not modelled, and what comes next

In this order:

1. `Frontend` with two processes that build in the same directories, for `frontendMu` is one per process. The state becomes one
   record per builder, and the proofs of `Frontend_proofs` hold only for one.
2. Which version runs, so that a second rollback can be spoken of (it starts the version that runs).
3. Two terminals and more output at once in `agent_link`, which the theorems cover and TLC does not in minutes.
4. Contents of terminal output: a read that ends in the middle of a character.

Left aside: the files of the CDN, whose operations are single calls of the file system: the cleanup lists a directory and removes all but the newest
ten by name, so that a file uploaded again under an old name meanwhile goes as well, and the code promises nothing about that; the login, which keeps no state; HTML and CSS; the listings of the CDN; the configuration and the git queries, straight-line calls
whose state is git's; what exec, restart and kill do on the host, which is the shell's and the kernel's (their log traffic is
that of `HubLogs`); Windows paths of the agent's process start, which do what the Unix ones do by other means.

Three more limits of the code are outside every property because it promises nothing there: the first verdict of a broadcast ends the stream of
all its targets (server.go:714), a download name does not survive a restart of the control plane (server.go:44; the download then fails
as others do), and the back-off of an agent is never reset, so that a lost connection may be followed by a wait of 32 seconds (agent.go:109).
