# rkcockpit: TLA+ verification project

rkcockpit is a management portal for ARM boards: one Python process (standard
library only) that serves a web page and an HTTP API, and reaches every board
through OpenSSH, adb or the local shell. It is a heavily threaded program: a
bounded pool of HTTP workers, one thread per running job, per log follower, per
monitored board and per audit recorder, all sharing in-memory registries that
are guarded by a lock each. This directory holds the specifications of the
parts whose correctness depends on how those threads interleave, the TLC
configurations that check them, and the TLAPS proofs.

## 1. Inventory

| Part | State | Operations | What is hard |
|---|---|---|---|
| SSH transport scheduler `host/transport/scheduler.py` | active and waiting counters in total, per device and per device for background work; waiter queues per workload and device; round-robin order; foreground streak | `acquire`, `Lease.release`, `remove_device`, `stats` | grants, deadlines, removals and releases race for a waiter; one condition variable; limits; fairness between workloads and devices |
| SSH transport `host/transport/ssh.py`, `ssh_control.py` | child processes, each owning a scheduler lease | `exec`, `open_cmd`, `download`, `upload`, `ScheduledPopen.*` | a lease must outlive its child, on every exit path |
| Known hosts `host/transport/ssh_known_hosts.py`, `tools/pin_ssh_host.py` | a file of confirmed keys | `discover`, `pin_key` | read, look and replace without a lock; killed runs |
| Other transports `host/transport/{adb,local,base,factory}.py`, `host/core/pathguard.py` | none | exec and file operations | mostly I/O |
| Exec jobs `host/task/execjob.py`, `host/task/output_buffer.py` | job table per device, global slot semaphore, ring buffer of output | `run`, reader thread, `poll`, `kill`, timer, `close` | purge of finished jobs, slot accounting, close racing open_cmd, cursors into a ring |
| File transfers `host/task/transfer.py` | job list, thread pool | `submit`, `_run`, `cancel`, `list`, `close` | trimming of running jobs, cancel against start, close against running work, uploads without a time limit |
| Upload spool `host/task/spool.py`, `_fs_upload` of `legacy.py` | reserved bytes and uploads, spooled files, a lease per upload | `acquire`, `release`, the request, its job's cleanup | hand-over of file and lease to a job, an error after it, a removal that fails |
| Deployments `host/task/deployjob.py` | plans, jobs, progress and cancel flags per device | `plan`, `start`, `_run`, `cancel` | cancel against the next stage, one deployment per device |
| Audit recorder `host/audit/recorder.py` | bounded queue, pending count, ring, a file per day (shard) | `record`, writer thread, `close`, `query`, `_prune` | close against record, partial writes and retries, ring and shards read while both change, midnight |
| HTTP server `portal/server.py` | request queue, worker threads, active requests | `process_request`, worker loop, `drain`, `server_close` | admission bound, drain against idle workers |
| SSE hub `portal/sse.py` | connections in total and per kind | `add`, `remove`, `broadcast`, `heartbeat` | caps, double removal |
| Discovery `portal/portal.py`, `host/discovery.py` | cached result, rules and their file | refresh loop, `get`, `set`, import | overlapping refreshes, stale lists, two imports, rules in force that could not be saved |
| Host `host/api/handlers/legacy.py` (HostApi) | device transports, exec stores, cleanup callbacks | device add, update, delete; shutdown order | deletion and shutdown against running requests |
| Device registry `host/device/store.py` | devices and their file | add, update, delete, save, load | save after restart |
| Groups and keys `host/device/{groups,keys}.py` | groups, keys, their files | create, update, delete, generate, save, load | two saves through one temporary file; references collected before the lock; crashes between steps |
| Log centre `host/service/logcenter.py`, `handlers/logcenter.py` | a line buffer and a follower per source | `follow`, follower threads, `unfollow`, `close`, streams | replacing a follower, byte budget, lost or repeated lines, killing journalctl |
| Monitor `host/task/sampler.py`, `host/service/monitor.py`, `handlers/monitor.py` | one sampler thread and a ring per board | `start`, `stop`, `collect_now`, streams | restart of a stopping sampler, samples out of order, samplers started for a deleted board |
| Agent sessions `host/api/handlers/agent.py`, `agent_stream.py`, `host/service/llm.py`, `host/agent/tools.py` | sessions with message history, a lock each; permits | create, delete, chat, stream | history shape after trimming and aborts, a worker that outlives its stream, trimming without a lock, tools without a time limit |
| Probes `host/service/{diag,peripherals}.py`, `handlers/diag.py` | caches of ten seconds; two permits for camera tests | probes with fallbacks, `stream_test` | two probes at once behind one cache; permits on every path |
| Processes and system information | - | one command each | parsing |
| Auth and metrics `host/core/{auth,metrics}.py` | counters, token | check, count | - |
| Browser front end `static/`, install scripts `deploy/`, benches `tools/` | - | - | outside the threaded core |

The parts interact by direct calls under their own locks: a request runs in an
HTTP worker, which takes a transport from HostApi, which takes a lease from the
scheduler before it starts an ssh child; jobs own transports of their own;
every operation that changes something records an audit event; an event stream
occupies its worker and a place in the hub; shutdown drains the HTTP server (for
at most five seconds), closes the services, the jobs and the exec stores, then
the audit recorder.

### What makes each part correct

- **Scheduler.** Its counters equal the calls they stand for, whatever grants,
  deadlines, removals and releases race; the five limits hold; no grantable
  waiter is left behind when the lock is let go; no wake-up is lost; background
  work is not bypassed for ever.
- **SSH transport.** A lease covers the whole life of its ssh process on every
  path, so the scheduler's limits bound real processes; a killed call gives its
  lease back.
- **Known hosts.** A host has one key, and a key that was reported as pinned is
  in the file, whichever runs were killed.
- **Audit.** `close() == True` means that every accepted event is on disk and
  nothing is written later; what is on disk stays readable; a queued event
  reaches the disk; a query of some days shows every recorded event of theirs or
  as many others as the ring holds, one without a window the ring and today's.
- **Transfers, commands, deployments.** `close() == True` means no process is
  left (but for transfers that a long list has crowded out); slots, cleanups and
  tables stay exact; a cancel is never reported as a success; everything that
  must end does.
- **Upload spool.** What the limiter has reserved covers the uploads that hold a
  lease; a spooled file is covered by a lease unless its removal failed; only a
  transfer that waits or copies keeps its lease.
- **Output ring.** A poller never sees part of a character and is never refused
  a cursor it was given.
- **HTTP server.** An admitted request always has an idle worker and is handled
  if nobody closes the server; a drain that reports success has left no handler
  running.
- **Registry and host.** An acknowledged change survives restarts; nothing hangs
  on a deleted board or a closed host.
- **Groups and keys.** The file is what the memory says whenever no save is
  under way; a listed key has its files, also after a crash.
- **Log centre and hub.** A line that arrives between two commands is not lost;
  a stream gets what its follower pushes, in order and once; a line is pushed a
  second time only where a round had read beyond its count; a stopped follower
  ends and its journalctl with it; the hub's counts are those of its streams.
- **Monitor.** Samples of a board are in the order of their times, by one
  thread; a sampler that was told to stop ends, and so does each one that is
  started for a deleted board, however often that happens.
- **Discovery.** A result shows what its rules let pass; it catches up with the
  rules; the file holds the rules in force once they could be saved; one import
  does not add an address twice.
- **Agent sessions.** What is sent to the model is a conversation it accepts and
  holds the user's question; permits and places in the hub are returned; a write
  tool that ran is audited; a turn ends although the worker before it may not,
  unless a tool of its session's chat is stuck.
- **Probes.** What a request gets is not older than the cache's time, and an
  error is not cached; a camera test gives its permit back and is audited once.

## 2. Modules

Modules, in the order they were written. The modules with theorems come last.

| Module | Models | Composed with |
|---|---|---|
| `Admission` | what the scheduler promises: leases within limits | abstract specification of `TransportScheduler` |
| `TransportScheduler` | `host/transport/scheduler.py` | implements `Admission` |
| `SshChannels` | `host/transport/ssh.py` | extends `Admission` for its leases |
| `KnownHosts` | `host/transport/ssh_known_hosts.py`, `tools/pin_ssh_host.py` | - |
| `AuditRecorder` | `host/audit/recorder.py` | - |
| `TransferJobs` | `host/task/transfer.py`, `host/service/fs.py`, the loops of `ssh.py` | - |
| `HttpServer` | `portal/server.py`, shutdown of `portal/portal.py` | - |
| `ExecJobs` | `host/task/execjob.py` | - |
| `OutputBuffer` | `host/task/output_buffer.py` and its poller | - |
| `DeployJobs` | `host/task/deployjob.py` | uses what `TransferJobs` promises of a cancelled job |
| `HostRegistry` | `host/device/store.py`, `handlers/legacy.py`, the monitor's service and samplers | - |
| `SseHub` | `portal/sse.py` | - |
| `LogCentre` | `host/service/logcenter.py`, `handlers/logcenter.py` | extends `SseHub` |
| `Monitor` | `host/task/sampler.py`, `host/service/monitor.py`, `handlers/monitor.py` | extends `SseHub` |
| `GroupStore` | `host/device/groups.py`, `handlers/groups.py` | - |
| `KeyStore` | `host/device/keys.py`, `handlers/keys.py`, `key_ref` of `store.py` | - |
| `UploadSpool` | `host/task/spool.py`, `_fs_upload` of `handlers/legacy.py` | uses what `TransferJobs` promises: the cleanup of a job runs once |
| `Discovery` | `DiscoverCache`, `RulesStore` and the import of `portal/portal.py`, `host/discovery.py` | - |
| `Tables` | tables that remember an order: `_SESSIONS`, `_order` | extended by `TransferJobs`, `AgentSessions` |
| `AgentSessions` | `handlers/agent.py`, `agent_stream.py`, outcomes of `host/service/llm.py`, `run_tool_call` | - |
| `Probes`, `CameraTests` | `host/service/diag.py`, `peripherals.py`, `handlers/diag.py` | - |
| `DataLemmas` | induction over the natural numbers; lemmas about `Tables` | extends it |
| `TransportSchedulerProofs`, `HostRegistryProofs` | theorems of the module of that name | extend it |
| `BoardProofs` | theorems of `SshChannels`, `CameraTests`, `KnownHosts`, `Probes`, `DeployJobs`, `OutputBuffer` | extends them |
| `StreamsProofs` | theorems of `ExecJobs`, `Monitor`, `LogCentre` and `SseHub` | extends them and `DataLemmas` |
| `PortalProofs` | theorems of `HttpServer`, `GroupStore`, `KeyStore`, `AgentSessions` | extends them and `DataLemmas` |
| `TransfersProofs` | theorems of `TransferJobs`, `UploadSpool` | extends them and `DataLemmas` |
| `BackgroundProofs` | theorems of `AuditRecorder`, `Discovery` | extends them and `DataLemmas` |
| `MC...` | the instances TLC runs where a `.cfg` alone is not enough | extend the module they instantiate |
| `MCBackground`, `MCBoard`, `MCPortal`, `MCServices` | several parts in one run of TLC | extend the modules of the parts |

Common conventions. A critical section of a lock is one action unless another
thread can see into it; an unlocked access that another thread can tell apart is
an action of its own. A handler that takes several locks has one action per
lock. A dictionary without an entry is a function with a default value. Clocks
are left out: a deadline may pass, and an entry may grow old, at any moment.
SIGTERM may be ignored, so sending it changes nothing; SIGKILL is followed by
the end of the process. Definitions named as "Fault" or "Slip" in their comment are not
part of a specification: they are plausible mistakes in the definition that
follows them, kept so that each property can be seen to fail when the code is
wrong.

**TransportScheduler.** All scheduler state as variables. Every method runs
under the condition lock; a method up to its call of `_grant_locked` is one
action (`Acquire`, `TimeOut`, `Release`, `RemoveDevice`, ...), the loop of
`_grant_locked` is one `Grant` step per waiter with the lock held, and `EndGrant`
is where the lock is let go. `asleep` and `notify` model the condition variable:
a call goes to sleep only while queued, and only a `notify_all` or its deadline
wakes it. `_foreground_streak` saturates at `FOREGROUND_BURST` (the code only
compares it with that). `bypassed` is a history variable. Totals, peaks and
wait-time samples are left out: no decision reads them.

**Admission / SshChannels.** `Admission` has a function from calls to leases and
the actions `Open` and `Close`. `SshChannels` adds, per call, the ssh child
(alive, zombie or reaped), the thread that owns the call, the stderr reader of a
transfer, and the threads that share a `ScheduledPopen`. `exec`, the transfers
and `open_cmd` have one action for each step at which they may fail. The
composition is by refinement: the scheduler implements `Admission`, and
`SshChannels` relies on nothing else of it.

**AuditRecorder.** Events move through stages: accepted, queued or overflowing,
taken, holding `_write_lock`, written, finished. The ring, the queue, `_pending`,
the writer and the shards (for each day a sequence of whole lines and torn heads)
are variables; `close` has a step per wait. An event has the day of its time, and
midnight may come at any moment, also between the time and the acceptance. A query
takes the ring and then the shards of its window's days, or only today's without
a window (`recorder.py:358`). That the ring holds at least as many events as may be
pending (5000 against a queue of 4096) is not assumed; an event that the ring drops
while its write is pending is missing from queries until it is written. A write may fail, be short, or (with `MayTear`) fail
after part of the line. A crash loses the memory and keeps the file; the next
process starts with an empty queue.

**TransferJobs.** Where each job's thread is, its status, the list of kept jobs,
its process, the flags `cancelled` and `proc`, the number of calls of its
cleanup, and how far `close` is. `Submit` includes the trimming of old jobs, and
`forgotten`, a history variable, has the running ones it cut off;
`Cancel` and the steps of `close` interleave with every unlocked step of `_run`.

**HttpServer.** The accepting thread, the work queue, the slots, the count drain
waits for, each worker's place in its loop, and main's order of shutdown, which
stops accepting, closes the server and drains.

**ExecJobs.** Several stores share one semaphore. A call of `run` takes a slot,
registers (with the purge of old finished jobs, whose choice is
nondeterministic), opens its process and shows it; a reader, a timer and any
number of killers act on it; `close` stops a store.

**OutputBuffer.** Bytes are abstracted to their role in UTF-8, so that the
decoder's and the ring's arithmetic at character boundaries is exact. `Read`
appends a chunk of any split, evicts and realigns; `Poll` sends back the last
cursor.

**DeployJobs.** One plan, started again and again. A run's stages, its verdict,
the entry of `_progs`, the published transfer and the cancel flag are variables;
`Cancel` is two steps, as the code reads `_tjob` after it has set the flag.

**HostRegistry.** The boards in memory, `devices.json`, exec stores, samplers,
the monitor's service, the cleanup callbacks, the handlers of the requests under
way, main's close of the host, and restarts. A password is absent, text (as it
came over HTTP) or bytes (as `_load` leaves it); `save` fails on bytes. Changes
include the save they end in. Objects (exec stores, samplers) are named by the
request that made them. `agreed` is a history variable: what the last change of
a board left in the file if it was answered with success.

**SseHub, LogCentre, Monitor.** The hub is its set of connections and the
counters per kind. A follower of a file is at one of the two commands of its
poll (`wc -l`, then `tail`), between which the board may write or rotate; one of
the journal starts journalctl, makes it known, and blocks in `readline`. `stop`
is two steps with the service's lock held: the flag, then the kill of what is
known. What a buffer holds are pushes; which line of the board's log a push was is
remembered in a history variable (`pushed`), since the read may go beyond the
count and the next round then pushes the same lines again. The byte count is kept
as the code keeps it. The monitor has one entry per sampler object and one per
thread, so a thread of a stopped sampler and a request that starts it again can
be told apart; time stamps grow with each collection, whose transport is made at
its start (`sampler.py:162`), so that it may succeed although the board is deleted
meanwhile. A sampler is started by the pages' requests, which look for the board
first, and by the agent's monitor tool, which does not (`agent/tools.py:145`).

**GroupStore, KeyStore.** A save is open, write, rename, on files that are named
by inodes: two saves that overlap write the same temporary file, as the code's
`remove_device` saves outside the lock. A crash keeps the files and loads them.
Generation of a key runs ssh-keygen, lists and saves in one step each; deletion
collects references, deletes, saves and removes the files.

**UploadSpool.** A request reserves, spools the body, hands file and lease to a
job and answers; each step may fail, and the error path removes the file and
releases the lease. The job opens the file, copies for as long as it takes, and
cleans up. A removal may fail and is not retried; the name of a file may go while
the job has it open. `release` looks at its flag and sets it in two steps, as it
has no lock of its own.

**Discovery.** A refresh reads the rules and the boards, probes, and stores; the
loop and requests refresh at the same time. A change of the rules is two steps
under the lock: in force, then saved, which may fail; the process may die at any
point and starts from the file. Boards are added by hand at any address, also
twice. An import works on a list of boards
that it read once. The devices a search is given are records that say whether
they are dictionaries, because the search looks at that.

**AgentSessions.** A turn is one chat or stream. Its handler holds the session's
lock; the loop of a stream runs in a worker that may live on when the handler
has let the session go. A message is its role, its turn and which call it makes
or answers; trimming works on those. `_trim_session` reads what is left of a
history in one step and assigns it in another, any number of times, as it has no
lock against a worker that the session's lock no longer waits for. The model service raises, answers or asks
for tools; a write to the browser may fail wherever the code writes.

**Probes, CameraTests, KnownHosts.** A probe has a chain of sources, a result
per command and a decision per source, taken from the code of each kind; ages
stand for times. A camera test is one action per command on the board, each of
which may raise. A run of the pinning tool reads, looks again, writes and
replaces, and may be killed between.

**Composites.** `MCBackground`, `MCBoard`, `MCPortal` and `MCServices` put parts
that share no state into one run: a behaviour belongs to one part, chosen at its start, and
the variables of the others keep their initial values. Nothing is proved or
checked about an interaction of these parts; what is gained is one instance, one
list of properties and one configuration per side of the program. The fairness
of a part is stated for the behaviours in which it moves. Parts that do interact
are composed in the modules themselves: `LogCentre` and `Monitor` with the hub,
`SshChannels` with the admission of leases, `HostRegistry` with stores, samplers
and the monitor's service.

## 3. Runs

`cd tla; tlc -workers 2 -config X.cfg M`, with `X` and `M` from `PROJECT.json`.

| Run | Instance | Shows |
|---|---|---|
| `scheduler_safety` | 4 calls, 2 devices, 2 leases, 3 waiters; `Spec`, symmetric | `StateExact`: types, counters, queues and round robin agree; `NobodyForgotten`: work conserving, no lost wake-up, bounded bypass; `ImplementsAdmission` |
| `scheduler_fair` | 3 calls, 2 devices, one lease in total; `FairSpec` | no queued call starves as long as leases come back |
| `board` | 2 ssh calls, 2 threads on a stream, one lease; 8 bytes of output through a ring of 5 in chunks of up to 6; 2 runs of a plan; 2 probing requests; 3 camera tests, 2 permits; 3 runs of the pinning tool | a lease covers its process, killed calls give it back; whole characters, accepted cursors; a run's outcome agrees with its stages, one run at a time, flagged runs end; fresh answers; exact permits; pins kept |
| `background` | 3 events on 2 days, a queue of 1, a ring of 2, 2 failures, 1 crash; 1 address, the loop and 2 requests, 1 change of rules, 1 fault, 1 board by hand | `CleanClose`: pending count and what a clean close means; `QueryAnswers`, with every window and without; the shards only grow; queued events reach them; discovery consistent, results catch up |
| `transfer_safety` | 2 uploads, 1 download, a pool of 2, 2 kept jobs | one cleanup per job, close leaves no process, except for a job that was crowded out; cancel honoured; uploads end after close |
| `exec_safety` | 3 calls of run, 2 slots, a table of 2 | slots exact, active jobs known, close leaves no process; commands end |
| `host_safety` | 2 saved boards, 3 requests, 1 restart | exec stores accounted for; acknowledged changes survive; close stops all |
| `portal` | 4 requests, 2 workers; 2 followers, 1 stream, 2 lines, rotations; 2 editors, 3 edits; 2 clerks, 2 keys, 1 board | server consistent, admitted requests handled; logs faithful, followers stop; groups saved; keys usable |
| `services` | 2 samplers, 2 threads, a page and the agent's tool; 2 uploads; 2 sessions, a chat and a stream | samples in order, samplers end; spool accounted for, only transfers keep leases; agent state consistent, histories well formed, turns end |
| `deploy_orphan` | 1 run | **violated**, see findings |
| `host_restart` | as `host_safety` | **violated**, see findings |
| `discovery_saved` | 2 addresses, 2 requests | **violated**, see findings |

Bounds. Each is the smallest at which the case it is about happens. Two devices
and four calls give the scheduler a full queue, a granted and a queued call of
each workload, and a removal among them. `FOREGROUND_BURST` is 1 or 2, so bursts
end. A queue of one event overflows at the second. The pool of two with three
jobs leaves one queued while close cancels it; finished jobs are trimmed by
their age, and with `MaxKeep = 2` a third job crowds out a running one. The code
has 4 threads and keeps 50, so that this takes 47 transfers that ended while
one ran; the theorem has no such bounds. Two days separate the shard of an event
from today's. Two workers and four requests fill
the slots and refuse one. The ring of five bytes is crossed by every character
width and by chunks larger than itself. Three requests give the host a deletion,
a request that races with it and a third (a restart's worth of changes, or a
second board). Two lines and `MaxNew = 1` make a poll skip a line, and a line
arrive between count and read. Two uploads of size 1 or 2 with 3 to reserve
refuse one of two large ones. `MaxMessages = 3` trims a turn with one tool call
in its middle, and `MaxSessions = 1` evicts a session under its turn. One permit
for the model service is fought over by two turns. In `portal` the hub
has one place in all and in `services` one of each kind, so that a stream is
refused by the total in one run and by its kind in the other.
Three testers for two permits turn one away. Bounds named `Max...` that have no
counterpart in the code (`MaxFailures`, `MaxCrashes`, `MaxRestarts`, `MaxBytes`,
`MaxChunk`, `MaxWritten`, `MaxEdits`, `MaxJobs`, `MaxInodes`, `MaxTime`,
`MaxDays`, `MaxRules`, `MaxFaults`, `MaxByHand`, `MaxCalls`) only cut the state space.
Deadlock is checked for the scheduler, whose calls start over for ever; the
other models come to rest when their jobs, events or requests are used up.

Fairness. Weak fairness is given to steps of threads that are runnable: they
depend on the operating system's scheduler only. Strong fairness is given to
steps that need a lock others take in between (`Return`, `Release` of the
scheduler, `Lock` of the recorder): a thread that finds a lock free again and
again gets it. None is given to what the outside decides: deadlines of callers,
cancels, closes, crashes, the end of a process that was not killed, a read or
write of a pipe whose process lives, the end of an HTTP handler, the lines of a
journal, the start and the copy of a transfer that holds a spool lease, the tools
of the agent, and the worker of an agent stream. An upload writes to its process
and waits for it without a time limit (`ssh.py:437-445`), and `fs_write` of the
agent is one (`agent/tools.py:287`), so `LeasesReturn` and `TurnsEnd` say that all
else ends: in the end a lease is held only for a transfer that waits or copies, and
a turn goes on only in a session in which a chat is at a tool. Processes
that were sent SIGKILL die. In `ExecJobs` the timer fires, as it is a thread of
the program; in `HostRegistry` and `Monitor` a sampler comes back after each
interval, as its commands have a time limit, and so do those of a log follower;
in `Discovery` the loop wakes and a search ends, as each probe has a time limit;
in `AgentSessions` the calls of a chat to the model service end by their time
limits, and a stream's handler by its own. That in `TransportScheduler` every
holder releases is a condition, not a fact: `exec` has a time limit, a
transfer and the reader of `open_cmd` (a log follower's journalctl, a command
until its timer) have none of their own. `NoStarvation` says that the
queues starve nobody if the holders come back; a caller whose leases are all
held by stalled transfers waits for its own deadline.

## 4. Findings

- `deploy_orphan`: `DeployJobStore.cancel` sets the flag and then reads `_tjob`
  (`deployjob.py:353`), while the run may leave its loop because of that flag
  and remove `_tjob` (`:298`). Then nobody cancels the transfer: the run is
  reported as cancelled while the file is still being written.
- `host_restart`: `_load` keeps a password as the bytes `b64decode` returns
  (`store.py:47`); `save` calls `pw.encode` on it (`:68`) and raises. After a
  restart with one stored password, every add, update and delete of any board
  changes the memory, not the file, and is answered 500.
- `discovery_saved`: `_ssh_hosts` hands the addresses of saved boards to the
  search as strings (`portal.py:176`), and `ssh_candidates` takes only
  dictionaries (`discovery.py:178`): saved boards are not probed, although
  `README.md:94` lists them among the candidates.

Where a stronger wish than the code promises fails, the module states it too,
and TLC gives a counterexample. These document the limits of the properties
above. "Instance of" means the named configuration with its properties replaced
by this one; the last rows need constants of their own, and `QuestionAlwaysKept`
the sets `Sessions = {s1}`, `Chats = {c1, c2}`.

| Wish | Module | Instance of | Violated because |
|---|---|---|---|
| `ReservedSlotsReachable` | `TransportScheduler` | `TransportScheduler.cfg` | both workloads share the wait limits: queued background calls make a grantable foreground call be refused |
| `AcceptedVisible` | `AuditRecorder` | `Background.cfg` | the ring drops an event that is still queued |
| `ExecAddressCurrent` | `HostRegistry` | `HostRegistry.cfg` | an exec store keeps the address its board had when the store was made |
| `CancelReported` | `DeployJobs` | `Board.cfg` | a cancel that comes after the last stage is answered with success, and the run is done |
| `NeverOlder` (action property) | `Probes` | `Board.cfg` | a slow probe stores what it read over a newer answer |
| `CameraNotShared` | `CameraTests` | `Board.cfg` | the capture service may start after the test looked for it |
| `PinnedStays` | `KnownHosts` | `Board.cfg` | two runs of the tool overlap and the later one replaces the other's file |
| `NobodyStranded` | `HttpServer` | `Portal.cfg` | a request admitted between a worker's time-out and its look at `_workers_closing` may be left in the queue at shutdown |
| `NeverTorn` | `GroupStore` | `Portal.cfg` | `remove_device` saves outside the lock: one save renames the file another is writing, and a crash leaves it torn |
| `GroupBoardsExist` | `GroupStore` | `Portal.cfg` | boards are checked before the lock: one that is deleted in between stays in the group |
| `NoDanglingKey` | `KeyStore` | `Portal.cfg` | references are collected before the lock: a board may take the key in between |
| `StartedMeansRunning` (action property) | `Monitor` | `Services.cfg` | `start` finds the thread of a stopped sampler alive in its last collection and starts none |
| `SpoolExact` | `UploadSpool` | `Services.cfg` | the error path and the job's cleanup release one lease at the same time |
| `JobFindsFile` | `UploadSpool` | `Services.cfg` | the answer fails after the hand-over, and the error path removes the file the job is about to read |
| `ImportedOnce` | `Discovery` | `Background.cfg` | two imports at once each add the address |
| `RefusedRulesUnused` | `Discovery` | `Background.cfg` | `set` assigns `_rules` before `save` may raise (`portal.py:144-146`): the request is answered with an error and its rules are in force |
| `DiskReserved` | `UploadSpool` | `Services.cfg` | the error path removes the name and releases the lease of a file that its job has open, or a removal fails (`legacy.py:656-662`, `676-681`) |
| `QuestionAlwaysKept` | `AgentSessions` | `Services.cfg`, see above | a worker left behind by its stream trims: it reads a slice, the next chat appends its question, the worker assigns the slice (`agent.py:228-235`, `agent_stream.py:90`) |
| `HistoryAlwaysWellFormed` | `AgentSessions` | `Services.cfg` | a stream that is cut short leaves calls without answers, or a worker that outlives it appends behind another turn |
| `BackgroundServed` | `MCSteadyLoad` | `TransportSchedulerStarvation.cfg` | background grants to another device end the foreground burst, so with two leases one device's background work may wait for ever |
| `CleanCloseKeepsAll` | `AuditRecorder` | `AuditRecorderTorn.cfg` | a write that fails part way leaves a torn head and the retry continues that line (`recorder.py:178`) |
| `CloseReapsAll` | `TransferJobs` | `TransferJobsTrim.cfg` | trimming by number drops jobs that still run (`transfer.py:96`), and close, which by its docstring (`:139`) reaps every active process, does not see them |
| `CursorAccepted` | `OutputBuffer` | `OutputBufferBytes.cfg` | for output that is not UTF-8 `snapshot` may return a cursor that it refuses later (`output_buffer.py:82` against `:62`) |
| `BufferHoldsTail` | `LogCentre` | `LogCentreBytes.cfg` | the full deque drops a line without subtracting its bytes (`logcenter.py:48`), so ever fewer lines fit |

What the checked properties leave out on their account: `background` has
`MayTear = FALSE`; `BufferFaithful` is checked for UTF-8 output; `LogsFaithful` says
nothing of how many lines a buffer keeps; `ProbesFresh` bounds the age of an answer
and allows an older one after a newer; `ChangesSurvive` excepts a board from an
attempt that failed to the next acknowledged change; `AdmittedIsHandled` excepts a
server that is being closed. By a history variable, and only from then on,
`GroupsSaved`, `KeysUsable`, `PinsKept`, `SpoolAccounted` (its counters),
`DiscoveryConsistent` (imports, and the file from a failing save to the next good
one), `JobsConsistent` (jobs that were crowded out) and `HistoryWellFormed`
(sessions whose stream was cut short) except the behaviours in which the race or
the failure of the table has happened.

## 5. Proofs

`tlapm XProofs.tla`. All theorems hold for every value of the constants that
satisfies the named assumptions of the modules, which TLC evaluates on its
instances: limits are natural or positive (`LimitsAssumption`, `HubAssumption`,
...), calls, devices, requests, workers and commands are finite where they are
counted, and the marker values (`Free`, `NoLease`, `Nobody`, `NoSampler`, `Torn`,
`Nil`, ...) are none of what they mark. Assumptions of another kind are named
below. Every invariant that is called inductive holds initially and is kept by
every step, with one lemma per action and, where an action disturbs several
parts, one step per part.

**DataLemmas.** Several properties are about what a loop of the code makes of a
list of any length: filtering a table, yielding the events of ring and file,
pushing the lines of one poll. The library's induction theorems take an operator,
which no installed prover can instantiate. `SetInduction` states induction for a
*set* of numbers and is proved from the well-foundedness of `<`; a statement to be
proved by it is written as the set of the numbers it holds for. `Iteration` turns
it into a definition principle: steps given as functions can be taken one after
the other, so a recursive function of a module has a value that follows its
equation. From the two, `WithoutFacts`: what is left of a table has no key of those
that went and all others, each once. The models write their loops as recursive
functions for this.

**TransportSchedulerProofs.** `Accounting`, the queues and `WorkConserving` are
not inductive on their own: that a counter is right after a grant needs the
granted call to be in exactly the queue it is taken from, and that needs the
types. The inductive invariant is their conjunction with what holds while the
lock is held: between the first change of a method and `EndGrant`, waiters that
can be granted may be queued and settled ones asleep (with `notify` set). The
proof has one lemma per action, lemmas about removing an element from a sequence
without duplicates, and cardinality lemmas for one call entering or leaving a
set. From it: `StateAlwaysExact` (the types, `Accounting` and `WaitersExact`),
`LimitsRespected`, `NobodyWaitsInVain` (`WorkConserving`, `NoLostWakeup` and
`BoundedBypass`), and `RefinesAdmission`, that
the scheduler implements `Admission` under the mapping that gives each holder
its request as its lease: a grant is `Open`, a release is `Close`, all other
steps stutter.

**HostRegistryProofs.** Two invariants. `IInv` is about memory and file: a board
that is `agreed` has its record in the file and a board in memory that agrees
with it. The point of the proof is `save` after a change of *another* board: it
writes all boards, and writes back the same record for each agreed one
(`SavedBack`), since a board whose password it could not write makes the whole
save fail. `OInv` is about ownership: a store in the table belongs to its board
and was made by an exec request, an open store is in the table or in the hands
of one deletion, a running sampler is in the table of samplers, and no request
comes to start a sampler before the service is registered with close, or closed
(`ServiceKnown`). From them `ChangesSurvive`, `StoresAccountedFor` and
`CloseStopsAll`.

**BoardProofs**, about what is shared by the requests for one board.

- *Ssh channels.* `LeaseOutlivesChild`. Only `Open` and `Close` change leases. The
  invariant adds that a call past the point where it got its lease and before the
  point where it gives it back has one, and that a thread which saw its wait return
  left no live process behind. With the scheduler's limits on leases
  (`LimitsRespected`) this bounds the processes.
- *Camera tests.* `PermitsExact`: the permits and the tests inside the semaphore
  add up to the limit. A place inside it may be left in many ways, so the
  invariant gives each place what a test must have there (`TestOK`), and one
  lemma, `OneTest`, shows that a step which takes and returns permits as the
  place changes keeps the sum.
- *Known hosts.* `PinsAlwaysKept`. The invariant is guarded by `~raced`, the
  history variable that says whether a run replaced another file than the one it
  had read. Without such a race the file only grows, so what a run has read is
  still there, and the host it did not find is not in it (`ReadStays`); `Replace`
  then adds the first line of a new host. A run that is killed stops between any
  two steps.
- *Probes.* `ProbesAlwaysFresh`. The bound on an answer's age is not inductive
  without a bound on the age of a reading at each place on its way: a probe under
  way holds nothing older than itself, an entry nothing older than its own age
  plus one probe, and time makes all of them older together. The life of an entry
  is taken to be positive (ten seconds in the code).
- *Deployments.* `RunsAlwaysConsistent`. The place of a run determines how far
  its stages are (`StagesOK`), what has been decided (`VerdictOK`), what is
  published (`StateOK`) and what its last transfer may be (`TransferOK`); the run
  that is published as running is the one the plan refers to (`RunningIsJob`), so
  there is one. A plan has a stage, as `plan` refuses an empty list of files.
- *Output of a command.* `OutputAlwaysFaithful`, for output in UTF-8 and a ring
  of at least four bytes (the code's is 512 KiB). That an answer begins and ends
  between characters does not last by itself: the end of the output is such a
  position only until a continuation byte arrives. The invariant uses the
  positions that stay so (`Firm`): a byte follows that does not continue a
  character, or nothing follows and no character has been begun. The head of the
  ring, the cursor and both ends of an answer are firm. The lemmas under it: of
  four bytes of a text one begins a character, so the cut moves by three at most
  (`CutFact`), and what the decoder withholds after looking at four bytes is what
  all the bytes would say (`WithheldFact`).

**PortalProofs**, about the portal's own state.

- *Server.* `ServerAlwaysConsistent`. The counters are numbers of sets: free slots
  and the requests that hold one add up to the number of workers, and so do free
  slots, the queue and the workers that have a request. The two sums together say
  that a worker is idle whenever a request is queued. A worker's request is as far
  as the worker is and no other worker has it (`JobsOK`), which is what makes a
  step of a worker change each sum by one.
- *Groups.* `GroupsAlwaysSaved`. While the file is trusted, a save that is
  under way is alone, the temporary file it writes is its own and holds the
  groups when it is renamed (`AloneOK`), and `groups.json` holds what was last
  acknowledged. Trust ends, in the model as in the property, where two saves
  overlap or one fails.
- *Keys.* `KeysAlwaysUsable`. A request inside a critical section holds the lock
  (`LockHeld`), but the files of a deleted key are removed without it. What makes
  this safe is `KeyInHand`: the key is then in neither list and no other request
  is making or removing it, since random ids are taken not to repeat. Without a
  race (`raced`) a board that refers to a key was seen by the request that is to
  delete it (`BoardsSeen`). A crash returns memory to the file and ends all
  requests.
- *Agent sessions.* `AgentAlwaysConsistent`: the place of a turn's handler and the
  place of its loop determine each other as far as the code does (`TurnOK`: a chat
  works only while its handler holds the lock, a stream's worker may live on), a
  lock is held by a turn of its session, and permits and hub are the numbers of
  turns at those places. `HistoryAlwaysKept` needs more than the property says:
  that calls are answered in place and completely is not kept by the step that asks
  for tools. The invariant (`SessionOK`) says that answers follow their ask in order
  (`InPlace`), and that only the turn which holds the session may have calls open,
  exactly as many as it still has to run (`OpenCalls`); without such a turn none is
  open (`Settled`). Trimming keeps a tail that begins at a question, and never goes
  behind the last one (`LastQuestion`), so it cuts no round in two. It has two
  steps and no lock; but as long as no stream of the session was cut short, only the
  turn that holds the session's lock works in it (`TurnIn`, `OneTurn`), so what a
  turn has read to put back is still what it would read. For a session in which a
  stream was cut short nothing is claimed.

**TransfersProofs.**

- *Transfers.* The status of a job is settled exactly while the job is in one of
  the places behind `_run`'s last critical section or in the hands of `close`
  (`PlaceOK`), and its cleanup has been called exactly when that place is left
  (`CleanupOK`). From it `CancelAlwaysHonoured`, `EndedJobsCleanedOnce` and the
  action property `SettledStays`: nobody changes a settled status. The order of
  the list and its trimming play no part in these three.
- *Close of a store.* `StoreAlwaysConsistent`, for any number of jobs and any
  `MAX_KEEP`. `close` sees only what the list sees, so the invariant (`JobsInv`) adds
  that the list has each job once, that a job between `submit` and its result is
  running and listed or was cut off (`forgotten`), and that its process lives only
  while its function runs (`JobOK`). `close` then leaves no listed job queued and
  says True only when none runs (`CloseOK`). A running job is cut off only when the
  list would be longer than `MAX_KEEP`, so more jobs than that have been submitted.
- *Upload spool.* `SpoolAlwaysAccounted`. Request and transfer share a lease; the
  invariant says which of them may still give it back and who has removed the file,
  or tried to (`UploadOK`), and that the
  counters are those of the leases that are held as long as none was released
  twice. The reserved bytes are a sum, which is not computed here by a fold:
  the invariant says that a function with the two laws of a sum (nothing for
  weights of 0, one weight more for one element more) has `reserved` as its
  value, and a step changes that function along with one weight.

**StreamsProofs**, about commands and about what is streamed to the browser.

- *Commands.* `CommandsAccountedFor`. The place of a call determines whether
  it holds a slot, whether it counts as running, whether the table of its store
  knows it and whether its process may be alive (`CallOK`). The purge of finished
  jobs never takes one that runs, which keeps the table complete, and a call that
  comes after a store was closed is refused before it opens a process (`ClosedOK`).
- *Monitor and hub.* `SamplesAlwaysInOrder`. A sampler has one thread at most, and
  what it is collecting is newer than all of the series (`ThreadsOK`); a stream
  has sent nothing newer than the series of the board's sampler ends with
  (`WatchesOK`), which also holds when the sampler is replaced, as the new one
  starts later. The hub's counts per kind are the numbers of its connections.
- *Log centre.* `LogsAlwaysFaithful`. Between the count and the read of a poll the
  board may write or rotate, so the invariant gives each place of a follower what
  it knows of the file (`CountedUpTo`): all lines up to the last one taken are
  accounted for, and what was counted is there unless the file was rotated since.
  A stream's cursor is never ahead of its follower, and while the buffer has
  dropped nothing the stream has got all that lies between its first line and its
  cursor (`ReadUpTo`). A poll pushes any number of lines; that this only makes the
  buffer grow, by no more lines than are pushed, and leaves place and flags of the
  follower alone is proved by induction over the lines (`Pushed`). That two pushes
  of a line are one beyond its count and one of a round that counted it rests on
  where the next round begins: no line up to there was pushed as counted twice. The part about
  followers (`NoFollowerForgotten`) is inductive with the types.

**BackgroundProofs.**

- *Audit recorder.* `CleanCloseKeepsEvents`, for writes that leave nothing behind
  when they fail (`MayTear` false; with it the property fails, see findings).
  `pending` is the number of events on their way; the queue holds some of them,
  each once. `close` stops accepting before it waits for 0, so that from then on
  no event is on its way (`AuditClose`), and then the queue is empty and the lock
  free. An event whose write is over is on disk or is counted in `unpersisted`,
  and a crash loses what was counted (`AuditDisk`). `DiskAlwaysKept`, an action
  property for every value of `MayTear`: only the line of the write under way is
  ever replaced or removed, and that one had no end (`AuditFile`).
  `QueriesAlwaysAnswer`, again for `MayTear` false: an event on its way is in the
  ring unless the ring is full (`RingInv`), one whose write is over is in the shard
  of its day. A query yields first the ring and then the shards, one after the
  other and newest first; by induction over a source, and over the shards, an answer
  only grows, gives each event once, and in the end gives every event of the window
  that a source has or is full. Without a window nothing of the ring is left out:
  if the ring is full, so is the answer; else what is on its way is given by the
  ring, and what was written today by today's shard.
- *Discovery.* `DiscoveryAlwaysConsistent`. The version of the rules grows; a
  request notes it when it insists on a new search, a search reads rules that
  are no older, and an answer is no older than its search (`VersionsOK`). The lock
  is held from the assignment of the rules to the end of their save, so nobody reads
  rules whose fate is open, and a restart ends all searches along with the rules
  that were not saved. An import that runs alone knows every address it or its predecessors have added
  (`ImportsOK`).

Every invariant that a passing run checks is stated by a theorem. Only
model-checked are the liveness properties, as fairness and `ENABLED` are beyond
the prover, and the properties that a run expects to be violated. What a sum is
(the reserved bytes of the upload spool) is stated by its two laws and not proved
of a recursive definition.

Conditions of theorems. `CleanCloseKeepsEvents` and `QueriesAlwaysAnswer` assume
that a failing write leaves no part of a line, `OutputAlwaysFaithful` that the
output is UTF-8 and the ring has four bytes at least. Each condition is met by the run that checks the
property, and is needed: `CleanCloseKeepsAll` and `CursorAccepted` fail
without it (section 4), and `QueryAnswers` fails for `MayTear` when a crash
empties the ring after a torn line was completed by its retry
(`AuditRecorderTorn.cfg` with `MaxCrashes = 1`). All other theorems assume nothing
beyond the modules' assumptions.

## 6. Plan

All modules of the inventory that keep state shared between threads are written,
and their invariants are proved. What is left is modelling: the retention of old
audit files against the writer, the run of a command on a group of boards, and the
cached state of a board (`set_state`).

## 7. Not modelled

Parts without state shared between threads, or whose work is parsing and I/O:
the adb and local transports, path checks, the parsing of the probes' output,
processes and system information, authentication, metrics, the browser pages,
the installer, the benches. Inside modelled parts: argument vectors and the
control socket of ssh; names, byte counts, messages and statistics; the other filters
of an audit query, times within a day and the pruning of its files (no day of the
model is older than the retention); the validation of a
deployment plan; owners and modes of the known-hosts file; failures of the file
system while `devices.json` is written, and the cached state of a board; the
agent's tools beyond read or write; that another thread may append while
`_drop_oldest_round` walks a history; running a command on a group; six
peripheral probes of one command that decide as `i2c` does.
