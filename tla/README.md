# A verification model of checkmk-agent-demo-generator

The repository simulates an estate of monitored hosts for Checkmk: every
simulated host is a small process that answers agent polls, a delivery shell
carries their output and runs a scripted cross-host incident ("the cascade"),
an SNMP simulator plays the network devices, and setup scripts configure the
monitoring site. This directory holds TLA+ models of the parts of it whose
correctness depends on interleavings, crashes and time, and of what the
simulated hosts tell the monitoring; the TLC runs that check them; and proofs
about them.

## Inventory

### Delivery shell and cascade: `deploy/piggyback/serve.py`

* **State** The `Cascade` object: `active`, `started_at`, `fired` (step key ->
  time) under one lock; the state file `CASCADE_STATE_FILE`; the child
  processes; the agent files of datasource mode.
* **Operations** `start()`, `heal()`, the scheduler thread's `_loop` / `_tick` /
  `_fire`, `_save`, `load`; spawning children and the fleet manager; fetching
  agent output; `write_agent_files`; the control panel.
* **Interactions** HTTP calls to the children (`Child.toggle`, 3 s timeout), TCP
  to their agent ports; panel requests run in threads of their own, beside the
  scheduler; a restart calls `load()` before the scheduler starts.
* **What is hard** Toggles are sent outside the lock; the due list outlives the
  lock under which it was made; snapshots are written after the lock is
  released, all to one temporary path; calls fail; the shell can die anywhere.
* **Correct when** steps go out once per run, in causal order, after their delay;
  heal leaves the participants healthy; an armed run completes, across restarts.

### Simulated hosts: `hosts/*/serve.py` (ten scripts)

* **State** The incident (`_state`, `_state_since`, `_degraded_since`,
  `_broken_since`, `START`) under `_state_lock`; some hundred `Counter` objects
  with a lock each; gauges; `STATE_FILE`.
* **Operations** `set_state`, the watchdog that escalates degraded to broken,
  `build_agent_output` (samples every counter), `save_state` after every poll and
  toggle, `load_state` at boot.
* **Interactions** Agent polls from the site, from the shell and from its file
  writer; toggles from the shell, the panel and the host's own page; one thread
  per connection.
* **What is hard** Check-then-act in the watchdog, saves that overlap, polls that
  overlap in the counters, crashes between output and save, the wall clock.
* **Correct when** timestamps and state tell one story, counters never go
  backwards and keep the CPU tick budget, toggles and uptime survive restarts.

`db-postgres-01`, `db-postgres-02`, `app-worker-01`, `app-redis-01`,
`mail-relay-01` and `fileserver-01` share the incident code; `payment-api` has
`set_broken` with two states and no watchdog; `win-dc-01` keeps three more
incident fields; `web-frontend-01` and `backup-01` have no incident.

### SNMP: `snmp/snmpserver.py`, `snmp/netsim.py`

A BER codec, an ordered table with GET, GETNEXT and GETBULK, worker threads on
one socket; devices with the same three states and counters, replayed walks
whose dynamic rows are patched, a walk writer or a 15 s table cache, a watchdog
and a state file. Hard: the cache against "take effect on the very next poll",
tables patched while they are read, renders that overlap. Correct when GETNEXT
visits every row once in order and a walk is one snapshot.

### Monitoring setup: `deploy/cmk_setup.py`

Folders, hosts, parents in topological order, rules, business intelligence,
discovery, activation, a fingerprint that skips discovery, and teardown, through
the site's REST API. State is the site's. Hard: any call may fail, a run may stop
anywhere, another run may follow. Correct when a rerun converges to the same
configuration, prune and teardown remove only what setup made, and a matching
fingerprint means that nothing is missing.

### Lifecycle: `estate.py`; fleet: `fleet/serve.py`, `fleet/profiles.py`

* **State** None of its own between commands but files: the pid files of shell and
  simulator, and the hash of the code a native simulator was started from
  (`NETSIM_SIGFILE`). What runs is asked of the panels.
* **Operations** `up`, `down`, `replace` start and stop shell, simulator and
  setup, natively or in containers; `status`, `toggle` and `cascade` pass requests
  on to a panel.
* **Interactions** SIGTERM to a pid, `/admin/shutdown`, docker or podman; the port
  a process holds keeps a second one out.
* **What is hard** A silent panel looks like no panel; the pid file may be missing
  or old; an old process may still be going when its successor starts; the code may
  change between a look and a start; a command may be cut off between two steps.
* **Correct when** an `up` leaves one current process of each kind, keeps a running
  one that is as good, and a `down` leaves none.

The fleet process serves some three hundred uneventful hosts with a roster
expanded from classes and a periodic saver. `snmp/curate_walks.py` is an offline
text filter.

## Modules

| module | models | extended or used by |
|---|---|---|
| `StateFile` | the save idiom: `<file>.tmp`, dump, rename, load, with overlapping savers | instantiated by `Cascade`, `HostAgent`, `AgentCounters`, `Netsim` |
| `Cascade` | class `Cascade` with panel threads, scheduler, children, restarts | `MCCascade`, `CascadeProofs` |
| `HostAgent` | one host's incident, watchdog, saves, restarts | `MCHostAgent`, `HostAgentProofs` |
| `AgentCounters` | one host's CPU counters, polls, saves, restarts | `MCAgentCounters`, `AgentCountersProofs` |
| `Setup` | `setup()` and `teardown()` of `cmk_setup.py` against the site, with failing calls and several runs | `MCSetup`, `SetupProofs` |
| `BerCodec` | the BER codec of `snmpserver.py` on bytes, and BER as the polling side has it | `Snmp` |
| `OrderedWalk` | what a walk promises (abstract specification) | refined by `Snmp` |
| `Snmp` | the responder's worker threads over one cached table, a poller, a network that loses | `MCSnmp` |
| `AgentMath` | gauges, ramps, levels and the noise of all answers | the host modules, `Netsim` |
| `AppRedis`, `AppWorker`, `FileServer`, `MailRelay`, `PostgresPrimary`, `PostgresReplica`, `PaymentApi`, `WinDc`, `WebFrontend`, `BackupHost` | `build_agent_output` of one host each: its readings of the incident, the figures with levels, what must add up | instantiated by `Hosts` |
| `Hosts` | a host's story, polls that read it piece by piece, watchdog, clock | its configurations give the constants themselves; `HostsProofs` |
| `Netsim` | the two incident devices of `netsim.py`, walk writer, watchdog, saves, restarts | `MCNetsim`, `NetsimProofs` |
| `Delivery` | shells that follow one another, their children, ports, agent files, polls | `MCDelivery`, `DeliveryProofs` |
| `Estate` | `up`, `down` and `replace` for the SNMP simulator, native and as a container | `MCEstate`, `EstateProofs` |

How they fit together: `Cascade` runs inside a shell of `Delivery`; each child of
`Delivery` is a host whose incident and file are `HostAgent`, whose counters are
`AgentCounters` and whose answer is one of `Hosts`; `Netsim` and `Snmp` are the two
halves of the simulator whose processes `Estate` starts and stops; `Setup` is what
`estate.py` runs last. Each module abstracts what its neighbours detail and says so
in its heading.

The state variables carry the source's names where TLA+ has them free:
`active`, `fired`, `due`; `run` stands for `started_at`; `inc` is the record of
the incident globals; `cnt.acc` and `cnt.last` are the counters' fields. A `pc`
says where each thread is; its labels name the gaps between two locked blocks.

Each locked block of the source is one action, and so is each call made outside
a lock: an HTTP toggle, opening the temporary file, the dump, the rename.

* `Start`, `HealClear` are the locked blocks of `start()` and `heal()`;
  `HealHost` is a round of heal's loop; `TickScan` makes the due list,
  `FireToggle` and `FireMark` are the two halves of `_fire`; `SaveSnapshot`,
  `SaveOpen`, `SaveDump` (or `SaveRaises`), `SaveReplace` are `_save`;
  `Restart` ends the process anywhere and runs `load()`.
* `Toggle`, `WatchState`, `WatchAge`, `WatchEscalate`, `Poll`, and the same four
  save steps are a host. `WatchState` and `WatchAge` are the two reads in the
  watchdog's condition, each under the lock for itself.
* `Poll` reads the shared `now`, `Integrate` and `Stamp` are the two assignments
  of `sample_exact` with the counter's lock held between them, `ReadAcc` and
  `ReadLast` are the unlocked reads of `save_state`.
* `Setup` is sequential: one action per REST call or per round of a loop that
  makes one call, `pc` the place in the script, `todo` what the current loop has
  left. `Call` is a call whose status is checked (an error ends the run, and the
  site may or may not have applied the call when its answer was lost), `Tolerated`
  one whose error status is passed over (`Ignored` when no property tells it
  apart). `InSync` excuses by name what the code does not repair: `disturbed` is set
  by a run that dies before its last activation and by a removal that passes over
  the error of deleting the folder, and is set again, to whether netsim answered
  only one of the two times, when a run writes its fingerprint, so that a full run
  wipes out what died before it; `missed` are the hosts that the bulk
  discovery of that run passed over; `activated` says that the last activation did not
  overrun its deadline, fail or lose its answer. `cfg` is the site's configuration with
  pending changes, `live` what was activated last. That a site refuses a host
  with a missing parent, and refuses to delete a parent, is external, taken from
  the comments of the script.
* `Snmp`: `Recv` takes a datagram and unpacks it; `Lookup` is `table_for`'s look at the
  cache, `Build` and `Install` its first build, `Reload` the cached entry, `Sample`
  and `Patch` the refresh in place, row by row, without a lock; `Bind` is one round
  of the loops in `handle_message`, `Send` the reply, `Drop` what is refused.
  `StartWalk`, `Accept`, `Retry`, `GiveUp` are the poller and `Lose` the network, all
  external. Requests and replies are bytes, encoded by the code's functions and read
  by the poller's.
* `Hosts`: `Toggle` is `set_state`; `Begin`, `Read`, `Answer`, `Deliver` a poll, which reads
  the incident as often as `build_agent_output` of that host does, a toggle between
  any two; `Escalate` the watchdog, `Clock` a step of time. A host module's `Services`
  are the levels the checks make of its answer, its `Parts` what must not exceed
  what, its `Rates` what its counters are fed.
* `Netsim`: `Toggle`, `Escalate`, `Round` are a panel request, the watchdog and the render
  loop; `Acquire`, `Read`, `Render` (or `WriteFails`) are `write_walks` under
  `_WRITE_LOCK`, device by device; the save steps are those of the hosts; `Shutdown`,
  `Stop`, `Start` end and begin the process.
* `Delivery`: `Up`, `Down`, `Signal` are what `estate.py` does to a shell; `Fork`, `Keep`
  (the handle of the child is assigned), `WaitReady`, `AskRoster`, `Bind`, `Terminate`
  and `End` are `main()` with its finally clause; `MakeDir`, `Fetch`, `Open`, `Fill`,
  `Rename`, `PassEnds` are `write_agent_files`; `Poll`, `Block`, `Answered` an agent poll.
* `Estate`: the actions are the steps of `netsim_up` (`Shell`, then `Ask`, or `Clean` and
  `Run` for a container, and `Ready`), of `_netsim_up_native` (`Ask`, `Clear`, `Spawn`,
  `WritePid`, `Sign`) and of `netsim_down` (`Remove`, `Kill`, `Stop`); `Cut` interrupts the
  command; `Bind`, `Exit`, `Dies`, `BoxBoots`, `BoxRestarts` are the responders.

A definition marked "Mutant" is a wrong variant of the definition after it (a
dropped guard, a swapped order, a missing reset). No specification uses it; put
in place of the right one it makes the property listed with it in `PROJECT.json`
fail, which shows that the property depends on the code it is about.

### What is abstracted

* Wall-clock times of one locked block are one instant; a run's age and a
  host's clock advance in units much longer than a block.
* `started_at` is a run number with an age that saturates past the last delay.
* A dump replaces a file's content in one step when the buffer is flushed. What
  two dumps into one inode leave is nondeterministic between the later dump and
  an unparseable mixture, when the earlier one can be longer. Flushes in several
  chunks, and the loss of pages by the operating system, are not modelled.
* A toggle fails before or after the child applied it; one that the child
  applies after the caller's timeout is not modelled.
* Of the CPU fields, user, system and iowait are one busy counter. The
  truncation to whole ticks is kept (`Unit`).
* The cascade is modelled with `CASCADE_STATE_FILE` set; without it `_save` and
  `load` do nothing.
* `Setup`: a host's attributes are its parent and one of five kinds of agent; a
  rule exists or not. Subfolders, the healing before discovery, changed ports and
  rule values, the legacy stored walks and foreign changes are left out, and the
  estate has a folder of its own. The netsim panel lists all devices or does not
  answer. A panel that does not answer when setup() begins ends it without effect.
* `Delivery`: a host's answer is the process that gave it and the number of toggles that
  process knows of. A child's connection that ends is the end of its answer (228-233), so
  that a child which ends while it sends leaves the beginning of one (`EndsMidway`); the
  fleet manager says how long its answers are, and the `IncompleteRead` of one that ends
  is not among the errors caught at 329: it loses the poll, ends the writer thread or, at
  boot, leads to the finally clause (`Lose`, `AskRoster`). A process that starts knows as
  much of the toggles before it as its state file, which may lag behind as far as it
  likes (`known`); what is in that file is the matter of `HostAgent` and `StateFile`. The
  shell's own section, which needs no child, and the panel's pages are left out. All that
  goes wrong (a late or dying child, a failing write) shares the bound `MaxFails`.
* `Snmp`: one device; the value of a changing row is the instant it was sampled at,
  since all that is used of a counter is that it grows.
* `Hosts`: whole numbers and hundredths, time in minutes, the noise at its corners, where
  the extremes of sums of monotone terms are; only figures a check has levels for.
* `Netsim`: the two devices that have an incident; for their rows stand the alarms the
  interface and CPU checks make of them.
* `Estate`: code versions only move forward (an edit that is taken back is a new
  version), SIGTERM works at once, a pid is not used twice, docker is external.
* Text, log lines and pages are left out.

## Runs

All are small instances; every bound is a constant of its module. Deadlock is
checked where loops or status requests keep the system able to step (`Cascade`,
`HostAgent`, `AgentCounters`, `Hosts`, `Netsim`). `Setup`, `Snmp`, `Delivery` and `Estate`
stop when the runs, walks, shells or commands are used up and everything has ended,
so their configurations switch the deadlock check off.

| run | instance | what it shows |
|---|---|---|
| `Cascade_threads` | 2 steps over 2 hosts, 2 panel threads, 2 starts, 1 heal, 1 failed toggle | no step is sent twice in a run (`SentOnce`); after a heal every unhealthy participant has a named cause (`HealSticks`) |
| `Cascade_story` | 3 steps over 2 hosts, 1 panel thread, 1 start, 1 heal, 1 manual toggle, 2 crashes of the shell | no step is marked before it was sent (`FiredWasSent`), armed goes with a start time everywhere (`ArmedHasStart`), causal order and final outcome across restarts (`CausalOrder`, `OutcomeReached`), an armed run completes or is disarmed (`ArmedRunEnds`) |
| `HostAgent_threads` | 2 request threads, watchdog with delay 2, 2 toggles, 1 poll, 1 crash, starting degraded | state and timestamps agree everywhere (`StoryConsistent`), an early escalation was overtaken (`LateEscalation`), the file survives restarts while requests did not overlap (`SavedIsCurrent`), no host stays degraded (`DegradedEscalates`) |
| `AgentCounters_serial` | 1 poller, 3 polls, 1 toggle, 2 redeploys, 2 busy rates | emitted counters are monotone and keep the budget, across redeploys (`EmittedMonotone`, `BudgetExact`) |
| `AgentCounters_threads` | 2 pollers, 2 polls, 1 crash, 1 backward clock step | counters never decrease, no interval is dropped (`CounterMonotone`, `NothingLost`) |
| `Setup_reruns` | 4 hosts and the shell, 3 runs over 3 command lines (self-hosted, cloud with `--force`, removal), 2 roster changes, 1 netsim stop or start, 1 failing call | no host is refused for its parent (`ParentsFirst`), a run that ends repairs what earlier ones left (`RerunRepairs`), a matching fingerprint means a configured, discovered and active estate, also after runs that failed or died, but for causes named below (`InSync`), a removal without failures leaves nothing (`RemovalComplete`), every run ends (`RunEnds`) |
| `Snmp_walk` | 2 workers, 4 rows with sub-identifiers of one to three bytes, texts of 127 and 128 bytes and a binding of 256, request ids from 126 on, walks by GET, GETNEXT, GETBULK, a SET, a foreign community; TTL 1, 1 walk, 1 retry, 1 loss | a walk is an `OrderedWalk` (`WalksInOrder`, the refinement), replies are BER (`RepliesOnWire`), a table is as fresh as its TTL unless refreshes overlap (`FreshWithinTtl`) |
| `Hosts_stories` | all 10 hosts, steps of 2 minutes up to 22, 2 toggles, one of them within a poll | the checks show the documented levels of the state, or where the code departs from them those that `Departs` names (`StoryTold`), figures add up and no rate is negative (`Sane`), a torn answer is no worse than its parts (`TornMild`), levels do not improve during an incident (`NoRelief`), an incident ends in its alert (`AlertComes`) |
| `Netsim_walks` | 2 devices, 1 panel thread, both transports, escalation after 1 minute, 1 toggle, 1 failing write, 1 stop | an answered toggle is in the walk file (`ToggleShown`), walks raise the documented alarms (`AlarmTold`), no file goes back (`FilesForward`), a process that stays catches up (`CatchUp`) |
| `Delivery_shells` | 2 shells; piggyback with 1 child and the fleet manager with 1 host, datasource with the child alone, and with the manager where the child's script is missing; 1 toggle with agent files, 1 fault, 1 signal | an answer lacks only silent hosts, has the beginning of a block only of a child that ended, and is lost only to a manager that ended (`BlocksComplete`), children end with their shell (`Reaped`), an agent file is a whole answer or what an ended child left, and no older than an answer of the same process was (`AgentFilesWhole`), a toggle gets into its file while its child, a shell and its writer stay (`ToggleFiled`) |
| `Estate_commands` | 3 commands of `up`, `down`, `replace`, both runtimes, 2 scales, 1 edit of the code, 1 fault (a cut, a death, a lost answer), 3 pids | a `down` leaves nothing (`DownStops`), what an `up` leaves is current (`UpIsFresh`), an unchanged `up` keeps the responder (`ServiceKept`), commands end (`CommandEnds`) |

Why the bounds are enough to be interesting. Two requests in flight beside the
scheduler are what an overlap of saves, a stale due list or a torn file needs,
and two starts make a run that is overtaken by the next. Two steps make a due
list with a rest; three steps over two hosts let a host be degraded first and
broken last, as the repository's script does, and two crashes let a step be
repeated after a repetition. The delay of two units lets the watchdog's looks
and a change fall into different instants. Three polls make two emitted
differences, so that an error may also cancel out or accumulate. Requests stop
early enough for the clock's last instant not to cut off what they started
(guards `now + AutoBreak <= MaxTime`). Three runs of setup are one to build, one to
change, fail or remove, and one that meets the result; the four hosts have a chain
of three (core, hypervisor, virtual machine), and with all four pending the
discovery is the bulk job (`BulkSize` 3 instead of 10), with fewer it is not.
Two workers are what two refreshes of one table need, and one row before and one
behind it show whether a walk skips or repeats; the four OIDs have the boundary
values of the encoding (127, 128, 300, 16384), the texts and the bindings those of the
lengths (127 and 128, where the long form starts, and 256, where it takes a second byte), and the
request ids pass 128, the first integer that needs a sign byte. `IntegerEdges`, an
assumption of `MCSnmp` that TLC evaluates, compares `enc_int` and `dec_int` with BER at the
edges of one, two and three bytes, of either sign. Twenty-two minutes hold every host's
escalation (18 or 20) and the end of every ramp. The walk writer is contended by the
panel thread, the watchdog and the render loop at once. Two shells are an old one that
is still going and its successor, with a child of the first left over; three commands
are one that starts a responder, one that replaces, misses or removes it, and one that
meets the result; with a second fault the run also passes (716,686 states), which
takes longer than it teaches.

`SavedIsCurrent` is stated for executions in which no
two threads have worked at once (the history variable `overlapped`): with an
overlap an older snapshot may be renamed over a newer one. `OutcomeReached` is stated
for a story that was started once and in which nobody healed, toggled by hand or lost
a call, but with restarts anywhere. `CausalOrder` counts a step that an older due list
has marked in a later run (`Cascade_rearm`, below) as done there: the history variable
`carried`. `FreshWithinTtl` has the like in `overlap`, and the properties of
`Estate` in `blind`: some command took a responder that lived but did not answer for
none, which the code cannot tell apart (a panel request that is lost, one that still
boots, one that is deaf for longer than the command waits). What remains is that
nothing else deceives it: no missing or old pid file, no edit, no cut.

### Where the code does not keep its documentation

One run ends in a counterexample, which is its expected result: `Cascade_heal_stops`.
`_tick` has its due list; `heal()` runs to its end; the rest of the list is fired at
the healed hosts (piggyback/serve.py:598, against 513).

Further disagreements have a configuration each that is run by hand (`tlc -config
X.cfg` on its `MC` module, `Hosts_documented` on `Hosts`) and ends in a counterexample too:

| configuration | what happens |
|---|---|
| `Cascade_rearm` | `start()` between two steps of a due list: the old list's step is marked in the new run, which then skips it (582, against 511-512) |
| `Hosts_documented` | an answer shows what `STATE_META` says, and there is one (`AsDocumented`); violated by each of the four hosts alone, and by no other. `fileserver-01` degraded is 86 % full and WARN ("NOT enough to trip the 80/90 % magnitude levels", serve.py:130; "still under the 80 % level", 1045; "magnitude still GREEN/edging", 1056). `mail-relay-01` degraded defers 18 mails and is WARN from 10 on ("still OK/green (< 20)", 990, and 20). `app-redis-01` healthy or degraded commits memory that wobbles around its limit ("STAYS GREEN", 413; "the host's Linux Memory stays GREEN", 1088). `app-worker-01` broken formats a float with `:02d`: the poll raises and nothing is answered (750, against "Memory CRIT", 940) |
| `Estate_replicas` | a native `up --replicas 2` after `up` keeps the running responder with its one access switch (estate.py:422, against 51) |
| `AgentCounters_stale` | a toggle's save taken during a poll wins over the poll's: after a redeploy at rest counters go backwards (1083-1089, against 1064-1068) |
| `Setup_insync` | a run for a smaller roster prunes a host and dies; with the larger roster again the old fingerprint matches and the missing host is not noticed (cmk_setup.py 1304, against 1218-1220) |
| `Snmp_backwards` | a refresh that sampled earlier patches later: the poller sees a counter go back ("a backwards counter would wreck the if64 rates", netsim.py:91) |
| `Delivery_leak` | SIGTERM between the fork and the assignment of the handle leaves a child behind ("so a kill during startup can't leak them", serve.py:1165-1166) |

Seen in the source while modelling, without a configuration:

* Hosts: the watchdog may break a host that was healed after its check
  (db-postgres-01 1927-1928, against 1918-1923; `LateEscalation` names the cause);
  `mail-relay-01`'s `tcp.synsent` may be -1, and after some five days broken its spool is
  over the level of 80 % and after more than six it exceeds its disk ("even a big backlog
  is well under the 80/90 % df levels", 341), which is why `HostsAssumption` ends a story
  at five days;
  `backup-01` does not use its `CPU_BUDGET` (42); `db-postgres-01`'s temperature goes
  from 30 to 38 in 3.6 minutes, the README says 33 to 38 in two to three, and its docstring
  says "SMART Stats CRIT" of the degraded state (17) where `STATE_META` says "stays GREEN"
  (1701): the code, and `Told`, go with the latter.
* `snmpserver.py`: `enc_int` says "minimal two's-complement" (74) but sends -128 and -32768
  in one byte more than they need; `IntegerEdges` names the two.
* `netsim.py`: `sysUpTime` can go back across restarts; one failing walk write ends the
  watchdog thread; in the live transport a toggle writes walk files into the working
  directory; a kill between `write_walks` and `save_state` lets counters go back; the
  `continue` for a device without a model leaves `next_index` where it was.
* Shell: a child that ends in the middle of an answer leaves a truncated one, which is sent
  as its block or renamed into place as its agent file, though "a half-written file is
  never cat'd" (768) (`cut` in `Delivery`); a fleet manager that ends after the headers of
  an answer costs the whole poll, and with agent files the writer thread (329); a second
  signal inside the finally clause skips the remaining children; a failing `os.makedirs` ends the agent file writer for good; a child that is later than
  15 s misses the first file pass, while `estate.py` goes on to discovery (1199-1201).
* `cmk_setup.py`: after self-hosted, cloud mode leaves the shell without an address and
  under the datasource rule (1362 and 1408, against 509-511).
* `estate.py`: `down --runtime native` against a container has its restart policy start
  it again ("Stop netsim in EITHER form", 468); `_pid_kill` removes the pid file without waiting for the process, so
  that `replace` overlaps two shells (modelled in `Delivery`); a pid of an old file may
  be somebody else's by now; a running native shell is kept whatever scale, mode or
  replicas were asked for; a panel query that is lost makes `up` sign for a responder
  it did not start, and later ones keep the stale one (`blind` in `Estate`); an `up`
  that is cut while its responder boots, and run again, can leave the first one's
  scale.

### Fairness

`Cascade_story`, `HostAgent_threads`, `Setup_reruns`, `Hosts_stories`, `Netsim_walks`, `Delivery_shells` and `Estate_commands` assume it. The
setup script and the commands of `estate.py` go on: their requests have timeouts and
their polls deadlines. The scheduler, the watchdogs, the render loop and the file writer
are endless loops of daemon threads with a fixed sleep: weak fairness of their steps.
A request's thread runs to its end, since every call it makes has a timeout: weak
fairness of its steps. A process that starts or was told to
stop does so. Time passes; in `Hosts` and `Netsim`, where a step of the clock waits
until polls and writes are through, this is strong fairness: they take less than a
step. Nobody has to send a request, toggle, poll, signal or edit, datagrams need not
get through, and failures and crashes need not happen. That threads do not block one
another for ever is part of the deadlock check where it is on.

## Proofs

TLC checks instances; the following hold for every value of the constants that
satisfies the modules' assumptions (step tables of the right type and in order of
delay, as `CASCADE_STEPS` is, natural bounds, `Ticker` and `Watchdog` not request
threads, rates within the budget, rosters without repetition, stories of 20 minutes to
five days). Three assumptions of `Snmp` say what recursive definitions compute, which
TLC evaluates for its instances and the provers cannot derive: `SortAssumption`, that
`sorted()` returns a sequence of exactly its argument's elements; `TableAssumption`,
that a table is its rows in the order of tuples, those below the base one after
another; `CodecAssumption`, that the decoder reads what the polling side packed.
Nothing is assumed of how a reply is made, of `AfterIn`, of the loops of
`handle_message` or of the refresh. Eight modules hold the theorems. Those about `Snmp`
are the last two sections of `NetsimProofs`: it is `netsim.py`'s other transport.

| theorem | argument |
|---|---|
| `CascadeProofs!TypeCorrect`, `HostAgentProofs!TypeCorrect`, `AgentCountersProofs!TypeCorrect` | one lemma per group of actions; the files by the lemmas `File...` of each module, one for each operation of `StateFile` |
| `SetupProofs!TypeCorrect` | strengthened by `RosterRead`: a running setup() holds a roster of servers, since a fingerprint is made from it |
| `SetupProofs!ParentsFirstAlways` | strengthened to `ParentsInv`: while hosts are created, what the current loop is through with exists at the site; the next host's parent is never among those left |
| `CascadeProofs!ArmedHasStartAlways` | the files can only hold what some save dumped (`FileSaveFrom`), and every snapshot is taken where `active` and `run` agree |
| `CascadeProofs!HealSticksAlways` | inductive as stated, given the types; each action either leaves a settled host alone or names the cause |
| `HostAgentProofs!StoryConsistentAlways` | strengthened to `StoryInv`: also files without a dictionary carry a consistent one, so that the set of consistent dictionaries is closed under the save steps and only grows with time |
| `HostAgentProofs!LateEscalationAlways` | strengthened to `LateInv`: what the watchdog knows after each of its reads, and that its last look is not in the future |
| `AgentCountersProofs!CounterMonotoneAlways` | an action property: only `Integrate` changes `acc`, by a product of two naturals |
| `AgentCountersProofs!NothingLostAlways` | strengthened by `Reached`: a thread about to stamp a counter has integrated up to its own time, and other threads only add |
| `CascadeProofs!FiredWasSentAlways`, `SentOnceAlways` | `SentInv`: what memory, a snapshot or a file has as fired was sent (so a restart loads nothing unsent); `OnceInv`: before the first crash what was sent of the current run is marked, or is the step in the scheduler's hand |
| `CascadeProofs!CausalOrderAlways` | `OrderInv`: what any `fired`, in memory, a snapshot or a file, says of a run was sent or marked in it (`Done`), so that a due list that starts where `fired` stops never leaves a gap |
| `CascadeProofs!OutcomeReachedAlways` | `OutcomeInv`: while the one start is undisturbed, every `fired` a restart can load is a beginning of the story and no longer than the one in memory (`RecordInv`), and each host is where a step put it that is not before any recorded one (`HostInv`) |
| `HostAgentProofs!SavedIsCurrentAlways` | strengthened to `CurrentInv`: until two threads work at once at most one is busy, and its save takes what memory holds to the temporary file, which nobody else has open, and from there to the file |
| `AgentCountersProofs!EmittedMonotoneAlways` | one poll at a time: `EmittedInv`: at rest the file holds the counters, what a poll has sampled are the counters, and these are not behind what was received |
| `AgentCountersProofs!BudgetExactAlways` | also with a clock that is not set back: `BudgetInv` adds that both fields are sampled at the same instant (`Level`) and that their sum, less what was received, is the budget of the time between up to the two dropped fractions (`Reckon`) |
| `SetupProofs!RerunRepairsAlways`, `InSyncAlways`, `RemovalCompleteAlways` | `SiteInv`: at each place of the script what lies behind it fits the plan (`Repairing`), what a removal has passed is gone (`Leftover`), and a fingerprint that is stored belongs to the configuration, but for the causes that `InSync` names (`Synced`) |
| `DeliveryProofs!OneWriterAlways`, `AgentFilesWholeAlways` | the ports are a mutual exclusion of the file writers: whoever is in a pass belongs to the shell that holds them. Hence the temporary file, whose name is fixed, has one writer, and what it fills it with is not older than the file it replaces; a process is spawned once (`Unmade`) and ages in one direction (`Ages`), so that no content is ahead of its process (`From`) and what an ended child left stays that (`Answer`) |
| `DeliveryProofs!ReapedAlways` | what main has in `handle` and has not yet terminated is in the rest of the finally clause's list |
| `DeliveryProofs!BlocksCompleteAlways` | the hosts of a poll are split between answered, begun, silent and still to ask, for the roster of the shell that holds the ports (`PollInv`); a manager that is gone stays gone, so that each pays for one lost answer at most (`LostInv`) |
| `NetsimProofs!FilesForwardAlways`, `ToggleShownAlways` | whoever holds the write lock renders the device at hand from a version between that of its file and that of the device; the devices it is through with are at least as new as the change it came for |
| `NetsimProofs!AlarmToldAlways` | strengthened to `AlarmInv`: what a renderer has read of a state that is still the newest is that state, and the alarm follows from state, age and traffic by arithmetic |
| `NetsimProofs!FreshWithinTtlAlways` (of `Snmp`) | strengthened to `LiveInv`: as long as no two refreshes overlapped, a refresh finds the entry as it read it, its rows are patched or still to do, and no entry is older than it says |
| `NetsimProofs!WalksInOrderAlways` (`Snmp` implements `OrderedWalk`) | strengthened to `OrderInv`: what a worker has bound of a request are the rows after the name it was asked from (`Bound`; `AfterAt`: bisect_right finds the next row), an answer on the wire to the request that is waited for is such a chain, and the poller asks from the last row it has; a poller with an id for each answer never takes an old one for its own. Then every step of `Snmp` is `Begin`, `Arrive`, `Abandon` or a stutter (`WalkStep`) |
| `HostsProofs!StoryAlways` | the inductive invariant `StoryInv`: the state of a story goes with its time stamps (`Consistent`), and the readings of a poll are such stories in the order of time: a later one has a stamp of its own or that of the earlier one (`Follows`), since a poll takes no time of the clock |
| `HostsProofs!SaneAlways` | whatever is read, the answer adds up (`...Fits`, a lemma for each host): maxima and minima of the scripts keep the parts below their wholes, noise and all |
| `HostsProofs!StoryToldAlways` | a ripe story is seasoned (`Seasoned`): its ramps have reached their ends, where the levels of the host (`...Shows`) are those of `Told`, or of `Departs` where the code does not keep them (`...Told`, `ToldOf`, `ShownOf`); what the broken `app-worker-01` makes of its readings is never an answer (`MuteTells`) |
| `HostsProofs!NoReliefAlways` | an action property: a step that does not heal goes on with the story (`Onward`), and the pressure and the figures made of it do not fall (`...Onward`), for every noise |
| `HostsProofs!TornMildAlways` | for each service a reading is named whose own answer is no better than the torn one (`...Torn`), by `Follows`; the maximum over all stories that were read is at least that (`WorstIs`) |
| `EstateProofs!DownStopsAlways`, `UpIsFreshAlways`, `ServiceKeptAlways` | the inductive invariant `EstateInv`: the panel's port has one holder (`OnePort`), a command is where its runtime lets it be (`Phases`), and as long as no command was deceived at most one native responder lives, of code not older than the signature on file (`Current`), and one that is being stopped is unfit (`Unfit`): of another scale, another code, or behind a container |

The theorems about `Hosts` say more than its run: this takes stories to minute 22 in
steps of two minutes with two toggles, one of them in an answer; they hold for steps of
any length, any number of toggles and a toggle between any two readings. What the run
has besides is `AlertComes`. The figures of the ten scripts are literals of up to eight
digits, with which Zenon cannot count, so that the leaves of `HostsProofs` name the
prover. The bound of five days was found by the proof of `MailFits`, which fails without
it for the spool of the mail relay.

The invariants are stronger than the properties since these are not inductive: that
`down` leaves nothing needs that at most one responder could answer, which needs that
no command starts one while another lives; that agent files do not go back needs who
may write.

Type correctness of `Cascade`, `HostAgent`, `AgentCounters` and `Setup` is a theorem of its own and
is not repeated in their runs.

The premises of the two theorems about emitted counters, `OneAtATime` and `MaxSteps = 0`,
are those of the run `AgentCounters_serial`: the monitoring polls a host one poll at a
time, and a redeploy comes when the agent is at rest. They are needed: with a second
poller a delayed save or a delayed answer is older than what was received, and when the
clock is set back no counter gives back what it got for the time that is repeated.

Only model-checked: the liveness properties (fairness and ENABLED are out of the
prover's reach) and `RepliesOnWire` (the codec's recursive functions over bytes need
induction over data). `MaxTime`, `MaxRuns` and the other bounds are constants of the modules, so the
theorems hold for every bound (`Oldest` up to five days).

## Plan

Done, in this order: `StateFile`, `Cascade`, `HostAgent`, `AgentCounters`, `Setup`; `Snmp` with
its codec and the abstract walk; the ten hosts; `Netsim`; `Delivery`; `Estate`; the
theorems about the hosts and about walks. What is left, most important first:

1. Setup: "a completed run leaves the planned configuration" as an abstract
   specification that `Setup` refines; `TopoOrder` as an operator (parents before
   children, every device once, cycles broken); subfolders and rule values.
2. Composition of `Cascade` with `Hosts` in place of its abstract `host` states.
3. The steady devices of `netsim.py` and its replayed walks; the roster expansion and
   the profiles of the fleet as operators.
4. The shell's container under `estate.py`.

## Not modelled

The text of the agent sections and of the pages, inventory rows without levels, the
profiles of the fleet and its roster expansion, the steady devices and the replayed
walks, the walk anonymiser (an offline text filter), the shell's container and the
commands `status`, `toggle` and `cascade`, which pass a request on: they carry no state
that another step depends on, are input and output only, or are planned above.
`PROJECT.json` lists the parts with their status, and the hazards no property covers
with the reason.
