# A formal model of verwalter

verwalter runs on every node of a cluster. The nodes elect a leader; the leader
gathers the schedules of its peers, runs a scheduler program over them and
publishes a new schedule; every other node copies it; and every node renders
the configuration of the roles that the schedule gives it. This directory has
TLA+ modules of those parts, TLC configurations that check them on small
instances, and proofs that TLAPS checks.

Paths are those of the repository: `src/daemon/fetch.rs` is the fetcher. Short
names such as `fetch.rs:266` are files of `src/daemon/`, unless the part has a
directory of its own in the table.

## 1. Inventory

| Part | Code | State it keeps | Operations | Talks to |
|---|---|---|---|---|
| Leader election | `src/daemon/elect/machine.rs`, `network.rs` | `Machine`: Starting, Electing, Voted, Leader or Follower, with an epoch, votes and a deadline | `time_passed`, `message` | the other nodes by UDP (ping, pong, vote); hands an `ElectionState` to the shared state and a message to the fetcher |
| Election state | `elect/state.rs` | what the rest of the daemon sees of the machine | `from` | all readers of the shared state |
| Shared state | `src/daemon/shared.rs` | election, peers, fetch state, last known / stable / owned schedule, parents, actions, failed roles | one method per operation, each under one lock | every task and thread |
| Fetcher | `src/daemon/fetch.rs`, `failures.rs` | `Fetch`: Unstable, StableLeader, Prefetching or Replicating; a blacklist | `poll_messages`, `poll_state`, `poll_futures` | the election (channel), peers (HTTP), the shared state |
| Scheduler thread | `src/daemon/scheduler/main.rs` | a `LeaderCookie`, inotify watches, the program and the runtime it has loaded | the loop: cookie, refresh, reload, run, publish | the shared state; the scheduler program; the configuration on the disk |
| Actions of the users | `src/daemon/frontend/api.rs`, `incoming.rs` | one channel per pending action | `push_action`; the answer | the shared state |
| Query thread | `src/daemon/query/` | a `Responder` for the current schedule | `NewSchedule`, `ForceRerender`, queries | slots from the shared state and to the apply thread |
| Apply thread | `src/daemon/apply.rs` | the last schedule it applied | `run`, `apply_schedule` | `verwalter_render`, the deployment log, failed roles |
| Backups | `apply.rs` (`maintain_backups`), `fs_util.rs` | `schedule.json`, hourly, daily and weekly snapshots | save, snapshot, prune | the disk |
| Deployment log | `indexed_log/src` | segments, `latest` links, an index | `deployment`, `role`, `action`, `changes` and their `Drop`s | written by the daemon and by `verwalter_render` |
| verwalter_render | `src/render/` | files of the roles | templates, then a list of commands | the deployment log, the files, services |
| Programs (wasm, lua) | `wasm.rs`, `scheduler/wasm.rs`, `luatic.rs`, `query/wasm.rs` | an instance, and whether it has failed | `json_call` | scheduler and query threads |
| Frontend | `src/daemon/frontend/` | connections, their subscriptions, an index of them | frames of browsers, triggers; reads and formats the shared state | browsers; triggered by the shared state |
| Watchdog | `watchdog.rs` | alarms | ends the process | |
| Start-up, names, ids, metrics | `main.rs` and small files | options | wiring | |
| Configuration | `verwalter_config/src` | | reads files | scheduler, render |
| Web interface, examples, packaging | the rest | | | |

What is hard about each, and what makes it correct:

* **Election**: packets are lost, doubled and reordered, votes are sent once,
  peer lists differ and change under a count, and a node forgets its vote when
  its list is out of date or it restarts. Correct: an epoch has one leader;
  votes are cast once and counted as cast; followers agree; leaders of joined
  partitions do not both stay.
* **Shared state, fetcher, scheduler thread**: the election and the fetcher are
  tasks of one event loop, the scheduler is a thread. Everything it read may be
  out of date when it publishes; messages to the fetcher describe states that
  are over; requests fail or answer late. Correct: nobody but the present
  leader serves a schedule or actions; a follower only calls stable what is of
  its leader, and gets it in the end; a leader publishes in the end; every
  action is answered once by a run that has seen it.
* **Query and apply**: slots replace what was not taken, calls fail and are not
  retried, templates change, the process ends at any time. Correct: when the
  threads are idle the node shows the last schedule, or shows what failed.
* **Reloads**: directories are replaced and made while the scheduler thread adds
  watches and reads files one by one; programs trap; errors outlive the
  leadership they belong to. Correct: what is in use is what is on the disk, or
  will be read again; no schedule comes from an instance that has trapped.
* **Websockets**: triggers are merged, and threads write to the state between
  two reads of one answer; a subscription is kept in two places. Correct: what a
  subscriber has been sent is the state, or another answer will come.
* **Deployment log, render, backups**: two processes write one after the other,
  each can die between any two system calls, and the next life finds what is
  left. Correct: the index points to what it says and nests; a successful
  rendering repairs what a failed one left; services are reloaded; a backup
  stays what it was.

The full list of hazards, each at its line and with the properties that would
catch it, is in `PROJECT.json`.

## 2. Plan

In this order, the most important first; an item is done unless it says "later".

1. `Election` with its abstract specification `LeaderPerEpoch`; theorems on
   both in `ElectionProofs`.
2. `SharedState`, then `Fetcher` (extends it) and `Daemon` (extends both);
   theorems in `FetcherProofs` and `DaemonProofs`.
3. `Pipeline`, with `PipelineProofs`.
4. `DeploymentLog`, `RoleFiles` and `Backups`, composed by `Deployment`; theorems in
   `DeploymentProofs` (types, files, backups) and `DeploymentLogProofs` (the log).
5. `Frontend` with `FrontendProofs`, `Reload` with `ReloadProofs`, `Variables`.
6. Later: `Deployment` as an implementation of the apply thread of `Pipeline`
   (each role of a task ends rendered or failed, a crash loses the task); the
   remaining commands of `verwalter_render`; a query program that renders only
   the roles that have changed.

`ElectionState` is the interface of items 1 and 2: `Election` proves
(`ElectionViews`) that what it shows of itself only changes as `Succeeds` allows, and
`Fetcher` lets its environment change in exactly these ways.

## 3. Modules

| Module | Models | Variables |
|---|---|---|
| `ElectionState` | `ElectionState`, and which of them may follow which | |
| `Election` | `Machine` of every node and the network between them | `state`, `epoch`, `votesForMe`, `neededVotes`, `peer` per node; `msgs`; `amnesia` (history) |
| `LeaderPerEpoch` | the promise of the election | `led`, `forgotten` |
| `SharedState` | the methods of `SharedState`, as operators | `election`, `fetch_state`, `peers`, `last_known`, `stable`, `owned`, `parents`, `actions`, `reply` |
| `Fetcher` | `Fetch`, with the end of the election's poll and cantal as environment | `queue`, `fetch`, `pc`, `gathered` and `told` (history) |
| `Daemon` | the event loop with the scheduler thread and users | `thread`, `cookie`, `second`, `lost`, `amnesia`, `harvest` (history) |
| `Pipeline` | the query and apply threads and their slots | `schedule_rx`, `requests`, `responder`, `apply_rx`, `job`, `failed_roles`, `rendered`, `templates`, five of history |
| `DeploymentLog` | `indexed_log` | `now`, `latest`, `leftovers`, `index`, `logs`, `files` |
| `RoleFiles` | `SplitText` and `Condition` | `dir`, `loaded`, `pitched` |
| `Backups` | `schedule.json` and `maintain_backups` | `saved`, `snapshots`, `tmp`, `shared`, `listed` |
| `Deployment` | one task of the apply thread and its `verwalter_render`, call by call | `ops`, `task`, `last_id`, `prev`, `outcome`, three of history |
| `Frontend` | websockets, their subscriptions, triggers and answers | `status`, `writes`, `triggered`, `connections`, `ids`, `index`, `todo`, `answer`, `shown` |
| `Reload` | watches, loads and reloads of the scheduler thread, the wasm instance, errors by domain | `disk`, `present`, `watched`, `events`, `pc`, `towatch`, `toread`, `seen`, `program`, `runtime`, `instance`, `cookie`, `is_leader`, `is_stable`, `errors`, two of history and a count |
| `Variables` | `merge_vars` over itertools' `kmerge` | `layers`, `cur_vars` |
| `MCElection`, `MCFetcher`, `MCDaemon`, `MCPipeline`, `MCDeployment`, `MCFrontend`, `MCReload`, `MCVariables` | values of the constants for TLC | |
| `ElectionProofs`, `FetcherProofs`, `DaemonProofs`, `PipelineProofs`, `DeploymentProofs`, `DeploymentLogProofs`, `FrontendProofs`, `ReloadProofs` | theorems | |

An operator or action has the name of the function it stands for where the code
has one. Each is one action or operator per handler; definitions with a
comment "Mutant" are used by nothing: each is a plausible bug with which a
property fails, paired with that property in `PROJECT.json`.

### Election

The network is a set of packets that only grows, and a receiver may take any
of them any number of times: that is loss, duplication and reordering at once.
Deadlines are left out: `TimePassed` may happen at any time, so every order of
timeouts is covered. `Infos` gives each node the peer lists it may have, and
each step picks one; a list has all hosts and those that report directly
(`UNRESPONSIBLE_PEER_TIMEO`), which is what `minimum_votes` counts.
`Restart` and `waiting_hosts` forget epoch and vote; `amnesia` is the highest
epoch that any node has forgotten, and the code promises nothing about the
epochs up to it. Schedule stamps and error counts in packets are in `Fetcher`
(a leader's pings carry its own schedule, votes and pongs the last known one).

### Shared state, fetcher and daemon

A method of the shared state takes the lock for all it does, so it is one
operator. A schedule is its hash and its origin. `Fetcher` has the steps of a
poll from `Wake` to `Publish` (the assignment to the `fetch_state` cell at its
end): the tasks of the event loop do not run in between, the scheduler thread
does. A new leader takes the lock twice, to reset the stable schedule
(`OnNewLeader`) and to read the last known one (`StartPrefetch`), and the
scheduler may publish in between. `told` is what has been reported to the node
since it leads and until its prefetch is over, and `harvest` what that prefetch
has gathered, until a schedule is published or the leadership is lost; no action
reads them. `ElectionPoll` is a poll of the election that ends in any permitted
state, with at most one packet; a poll with more packets is the same as several
of them with role messages in between, which the fetcher takes as repetitions.
A difference in timestamps or error counts, which also makes a stamp news, is
the choice `differs`. An election that is reset shows itself as `blank` before
anything else, since the deadline of `Starting` is in the future. The blacklist
expires between polls. A scheduler program is an input: it fails, or returns a
schedule and values for any of its actions. Left out of `SharedState`: debug
information, metrics, errors by domain (`Reload`), triggers (`Frontend`) and the
responder's slot (`Pipeline`).

### Pipeline

One step is one round of the query thread or one step of the apply thread.
The query program may be a wasm one or the built-in `compat.rs`; initialisation,
calls and the render of each role may fail. `compat.rs` is modelled as it is:
its list of all roles has the keys of `vars.roles` (compat.rs:81-85), which are
taken to be names other than those of roles that are assigned but not
described. A program is taken to render all roles of the node. Three
variables record the errors that the code only logs and does not retry
(`query/mod.rs:186`, `apply.rs:129`): `withheld` has the schedules that were not
handed over, each until it is; `refused` is set by a `ForceRerender` that failed, until
something is handed over; `aborted` by a task that was given up, until the next.
The properties excuse what these leave undone, and nothing else. The renderer
ends with the daemon, as in Deployment.

### Deployment

Both programs are sequential: `ops` is the list of what each has still to do,
with what `Drop` adds on an early return. A process may die before each
operation; `MaxFaults` bounds failures, aborts and deaths together. What is on
the disk stays. A tick of the clock is a day; positions are rows, and only rows
that the index points to exist. `raceless_symlink` is two steps, the temporary
link (with the removal of an old one) and the rename. A role has one
`.render.yaml` with a `SplitText` and a `Condition` on one directory. A section
is visible, cut short, from its rename until its writer is dropped. Snapshots
are the same file as `backup.tmp` until that is removed; they are linked one kind after
the other, in the order of the code (`Snapshot(i)`). Old snapshots are
deleted in any order of the kinds, and without errors. The children of the
daemon are taken to die with it, as `systemd.service` does with its default kill
mode; the watchdog's exit alone does not end `verwalter_render`, and under
`upstart.conf` it may live on. The crash mutant shows what depends on it. Dry runs are left out.

### Frontend

A field of the status is the number of the write that has changed it last, so
an answer is a set of numbers that may be of different moments. The event loop
does one thing at a time: the frames of the browsers, a trigger, the election
and the fetcher; but an answer is read field by field (`status.rs` takes the
lock once for each), and the scheduler and apply threads write in between. All
triggers in the channel are one (`channel.rs:47`): `triggered` is a Boolean.
What is sent is received in order and shown, as long as the id is subscribed.
The answer to a query is shown just as one to a trigger, if its id is subscribed.
`Write` stands for the methods of the shared state that change the status; those
whose writes are of the same shape, one field and a trigger, such as `set_peers`,
`mark_role_failure` and `update_role_list`, have no field of their own. A query
whose request cannot be parsed panics the event loop (`dispatcher.rs:99`, `expect`);
that is not modelled, queries are well-formed.
The public state of the fetcher has no trigger (`fetch.rs:190`); it is shown when
the next poll of the election triggers, whether that has changed anything or not.

### Reload

The directories are `scheduler`, `runtime` and a version in it; each has one
file, with the number of its last edit. The walk of `watch_dir` adds a watch
before it lists a directory (`MayWatch`), the reload reads file by file, and the
disk changes in between, directories with all that is in them included. A watch
is of an inode: it does not come back with a directory of the same name. A read
of inotify gets some of the events or all, 8192 bytes at a time. A cookie is
given to a leader whose fetcher has published `StableLeader` (`is_stable`). `cookie` is
that of the present epoch or of one that is over; as a reset may bring the epoch
back, it may become one of the present epoch again. The election sets
`is_leader` and removes the errors of followers, and `PublishState` may change
`is_stable` at any time while the node leads, whatever it was in an earlier
leadership. Alarms and failed first loads end the process, which starts again with empty memory. What the runtime has that
cannot be parsed is not kept as an error (`main.rs:193`), so only the program may be refused.
An instance has trapped or not, and is marked as failed or not; a run is one step, and
each of the four exports it calls, `alloc`, the function and `dealloc` twice, may trap
or return something else, with what its own branch does about it (`AllocFails`,
`FreeFails`, `CallFails`, `FreeResultFails`).

### Variables

A binary heap of iterators, each of a layer, as itertools' `kmerge` has it; a value
is the number of the layer it comes from. There are no steps but the call.

## 4. Runs

Each run finishes within five minutes with two workers.

| Run | Instance | Checks |
|---|---|---|
| `election` | 4 nodes, full lists, epochs up to 2, nothing forgotten | `TypeOK`, `AllegianceAgrees`, `VoteOncePerEpoch`, `ImplementsLeadership` |
| `election_resets` | 2 nodes, epochs up to 3, of which 2 may be forgotten | `OneLeaderPerEpoch`, `LeadersAreElected`, `PongsReachTheirLeader`, `ViewsSucceed` |
| `election_merge` | 3 nodes that each elect themselves | `LeaderIsHeard` |
| `fetcher` | a node and a peer that lead in turn, 2 hashes, resets | `ReplicaHasTarget`, `StableIsOfLeader`, `TargetMeansUnstable`, `BooksAreExact`, `FollowerCatchesUp` |
| `daemon` | led epochs 1 and 2 with a peer in between and resets, 2 actions, 2 seconds, 1 id a second | `DaemonTypeOK`, `OnlyLeadersServe`, `PendingIsHeld`, `PublishInLeadership`, `AnswersAreInformed`, `ParentsAreKept` |
| `daemon_fair` | a new node that wins and loses a leadership, a peer with a schedule, 1 action | `LeaderPublishes`, `ActionsAreAnswered` |
| `pipeline` | 2 schedules, 2 roles, of which one schedule has one, 1 change of the templates | `Converged`, `RerenderIsHonoured`, `LatestIsApplied` |
| `deployment` | 2 deployments, 2 schedules, 2 roles, 2 sections, 2 days, 1 fault | `TypeOK`, `PointersAreTrue`, `IndexIsWellFormed`, `FilesAreRendered`, `ConditionIsHonoured`, `SnapshotsAreKept`, `DeploymentEnds` |
| `frontend` | 2 connections, 2 ids, 1 change of the status | `IndexIsExact`, `NoChangeIsLost`, `SubscribersCatchUp` |
| `reload` | 2 changes of the configuration, three trees to start from | `NoChangeIsMissed`, `RefusedIsShown`, `RunsAreClean`, `ConfigIsUsed`, `FollowersAreQuiet` |
| `daemon_stale`, `variables` | see Findings | violated |

The type invariants of `Fetcher`, `Pipeline`, `Frontend` and `Reload` are theorems and
have no run of their own.

Why the bounds are enough for what they are to show:

* Four nodes, since with three the vote of any one other node elects: a lost or
  competing vote only matters when three votes are needed. Two epochs give an
  election, a failed one, a new one and packets of the old one. Lists that
  differ, more nodes and more epochs are covered by the theorems.
* Two nodes suffice for resets: a node that forgets, and one that remembers and
  still has its packets. Packets of an epoch beyond the forgotten ones need
  `MaxEpoch` 3.
* In `fetcher` the peer has two schedules of its own and one that the node itself
  has made, of the same hash as one of them: an answer or a stamp may be of
  another hash or of the leader before, which is the node. That more than one
  peer leads is covered by the theorems. A stamp that is lost, a request that
  fails and a leader that is reset are all possible with one peer.
* `MaxQueue` bounds how many messages are queued when another poll of the
  election comes. In `fetcher` it is 0, so that a poll, with up to two messages,
  comes when the queue is empty, since with 1 the liveness property takes longer
  than five minutes; `daemon` has 1, and the theorems have no bound.
* One id a second and two actions use up the ids of a second, in the next an
  id is used while a cookie names the old one, and within one second an id
  that was answered is used again. The daemon run has no schedules of peers,
  which `fetcher` and `daemon_fair` have.
* In `pipeline` publications, rerenders and crashes are unbounded; only the
  templates have a bound, as a version newer than the last rendered one is all
  that is told apart.
* In `deployment` the first deployment meets the fault and the second must
  cope with what it left; the clock may tick in any of them, and logs rotate
  after three rows, in the middle of a role. The logs have links of the day
  before, or none, as on a new installation. Deadlock is not checked because the ids run out.
  Two faults with two deployments, and one fault with three, were also checked
  for the safety properties of the log and the files, by the same modules.
* In `frontend` one change is enough to be lost: an answer is of before or after it
  field by field. More writes, with the safety properties, are covered by the theorems.
* In `reload` two changes bring a directory and edit a file in it, move one away and
  back, or bring a program that is refused and then one that loads. The theorems
  have no bound for the safety properties.
* In `variables` two keys and two fields: one for the value, and one that comes
  before it in the order of the keys.

### Fairness

* `LeaderIsHeard`: a ping that is repeated every `HEARTBEAT_INTERVAL` is
  received in the end. No timeout is assumed to happen or not, and no packet
  that is sent once to arrive.
* Fetcher: a task is woken for its messages and timers (weak), every poll gets
  to its end, each branch of a poll is taken again and again while its timer
  has elapsed (strong: a poll may come too early any number of times). The
  follower's run also assumes that the leader can be reached again and again
  and announces a schedule with a new timestamp again and again, since its
  scheduler runs every five seconds.
* Daemon: the fetcher's fairness without any assumption on the connections of a
  prefetch; the scheduler's loop goes on, and the program does not fail for ever
  (it is tried again every time). Without the last, `LeaderPublishes` cannot hold.
* Pipeline: the query thread takes schedules and requests in turn (`select`),
  the apply thread takes its tasks and goes through the roles; calls may fail.
* Deployment: a task goes on (weak). Nothing makes it fail or die.
* Frontend: an answer that is begun is finished (weak); the loop gets to the
  channel and to the poll of the election, which is woken by a timer, again and
  again (strong, as other tasks may come first any number of times).
* Reload: the thread goes on; its program, tried every second, does not fail for
  ever; the election of a follower is polled; and alarms do not go off for ever.

That an election succeeds in the end is not stated: it depends on the random
length of the deadlines, which no fairness expresses.

## 5. What the passing runs show, and under which excuse

* One leader per epoch, one vote, agreement, for epochs that
  no node has forgotten; and, for all epochs, votes are counted where they were
  cast, and who pings has been elected by a majority. A pong never reaches a node
  it was not meant for, so
  the arms "something wrong with other peers" run only after a reset.
* A stable schedule is of the present leader once the fetcher's messages are
  taken; a follower that knows of a newer one does not offer the old one, and
  ends up with the newer, although stamps are lost in between. A prefetch waits for
  just what it has been told of and does not have, and asks only those who have it,
  **but** what is reported before or in the poll that makes the node the leader
  is lost (fetch.rs:266, `told`).
* What a prefetch has gathered is not lost before the leadership publishes, when runs
  fail or its cookie is taken early.
* Only leaders own schedules or hold actions, although the scheduler publishes
  late; a schedule is published in the leadership its input was gathered in
  (the epochs compare equal only after a reset); each accepted action is
  answered by a run that had it, or dropped.
* Each role of the node is rendered from the last schedule or shown as failed,
  with the templates of the last rerender, unless an error was only logged.
* Index entries lead to their rows, in two writers' hands, over rotation, day
  change and death; entries of a deployment are in one index, nested and closed.
* After a successful rendering the files are those of the schedule. The service
  has loaded them **unless** an earlier rendering changed the directory and did
  not get to its `Condition`: then the next one sees no difference and does not
  reload (`interrupted`, condition.rs:77).
* A deployment ends **unless** a crash has left `latest.tmp` in a directory
  without `latest`: then `raceless_symlink` repeats for ever, in every life
  (`Stuck`, fs_util.rs:26).
* What a browser is shown is the state or on its way, in spite of merged triggers
  and torn answers; the fetch state, which has no trigger, comes with the next
  poll of the election. The two places in which a subscription is kept agree.
* The scheduler runs what is on the disk or will reload it, **unless** a directory
  was missing when the daemon started: `config_dir` itself is not watched before
  the first event (main.rs:102, `Deaf`). A program that was refused shows as an
  error, **unless** leadership was lost since (shared.rs:326, `forgotten`).
* Snapshots are only replaced by newer ones, **unless** a crash or an error
  came between a link and the removal of `backup.tmp`: then the next snapshot
  truncates the last (apply.rs:226).

The excuses are the exact conditions under which the property fails in
the code; the runs show that there are no others within the bounds.

## 6. Findings

* `daemon_stale` (shared.rs:343): a leadership lost and won again between two
  polls of the fetcher is combined with the `StableLeader` of the old one, and
  the scheduler runs without a prefetch.
* `variables` (compat.rs:124): the values of a key come in the order of a heap that
  compares only the keys. With `vars = {a, port}` and `roles.R = {port}` the general
  `port` is taken, with `vars = {port}` that of the role.

Seen while modelling, without a run of their own:

* machine.rs:346: with `--allow-minority-cluster`, a node that needs only its own
  vote has it when the election starts, but votes are compared with the number
  needed only when another vote arrives. It starts one election after the other.
  No property says that it comes to lead; main.rs:219 and changelog.rst:122 say it should.
* fetch.rs:266: the stamps of voters reach the fetcher before the leadership
  does, are ignored, and are not repeated: a prefetch can end without the
  schedules of those who voted.
* status.rs:203: `needed_votes` returns `num_votes_for_me`.
* scheduler/main.rs:193: the errors of the runtime metadata are never shown, as a TODO says.

* wasm.rs:84: a program that has trapped is instantiated again without its init, so the
  responder fails until another schedule comes (`refused`); no property says that it recovers.

`Converged` only speaks of the roles of the schedule. A role that fails in the
old schedule after the new one has been handed over stays in the failed roles
(shared.rs:406), which is listed as a hazard.

## 7. Proofs

TLAPS checks every leaf of the following, for all values of the constants.

`ElectionProofs`, for any number of nodes and epochs. Assumptions:
`NodeAssumption`, `InfosAssumption`, `OptionsAssumption` of `Election`; and,
stated in the theorems themselves, `MajorityInfos`: every peer list a node may
have requires the votes of more than half of the cluster, and the debugging
option that forces leaders is off.

* `TypeCorrect`: the type invariant, without `MajorityInfos`.
* The inductive invariant `IInv` is the conjunction of the type invariant with
  facts about packets that will never be taken back: votes are of epochs the
  voter has reached (`VotesInThePast`); one vote per node and epoch; what a
  candidate counts has been cast; a node that has pinged has been elected
  (`PingsElected`) and a leader has pinged; a follower's leader has pinged; a
  pong answers a ping; and a node that has pinged leads until it leaves the
  epoch. `OneLeaderPerEpoch` is not inductive by itself: two leaders are
  excluded because both were elected by majorities, whose common voter
  (`VoteOncePerEpoch`) has voted once. Each fact is restricted to epochs above
  `amnesia`, and `Forget` preserves them because it raises it.
* `LeadersAreElected` (`CountsAreHonest`) is a part of `IInv` and speaks of all epochs, the
  forgotten ones too: the packets of a vote stay, whatever the voter forgets.
* From `IInv`: `VotesAreFaithful`, `LeaderIsUnique`,
  `FollowersAgree`, `PongsAreSolicited`.
* `ElectionImplementsLeadership`: the initial states map to those of
  `LeaderPerEpoch`, and each step to `Lead`, `Forget` or a stutter.
* `ElectionViews`: what the daemon sees changes as `Succeeds` says, also without
  `MajorityInfos`.

`PipelineProofs`, for any schedules, roles and number of template changes;
assumptions `RolesAssumption` and `TemplatesAssumption`. `PipelineInv` adds to
the types that requests ask for templates that exist, that the last schedule is
in the slot, with the responder, or withheld (`Offered`), and that each role of
a responder's schedule is rendered, failed, in the task waiting or in the
job (`HandedOver`). `PipelineTypes`, `PipelineConverges` and
`RerendersAreHonoured` follow.

`FetcherProofs`, for any nodes, views and schedules; assumption `SelfAssumption`
and those on the constants in `SharedState` and `Fetcher`.

* `FetcherTypes`, over the types of the messages and of each variant of `Fetch`.
* `StableIsOfLeader` says nothing while messages are queued, so it is not
  inductive. `QueueInv`: with an empty queue the fetcher agrees with the election;
  otherwise the last message tells the role of the present one. `StableInv`: each
  stable schedule is of the leader the fetcher works for (the node's own, if it
  leads or prefetches), or of one a queued message will tell it of. Together
  they give `StableIsTheLeaders`.
* `TargetInv`: a replica with a target and a stable schedule beside it, which is
  what this node's scheduler has just published, has the message that it leads in
  the queue. Gives `WaitingIsUnstable`.
* `UnreachableIsNot`: that a replica waits for an answer only while it has a target is
  inductive with the types.
* `BooksInv`: a report is what the node has been told of (`told`), handled (waited for
  or had, `Handled`) or still queued behind the message that it leads (`Coming`); a
  leader whose messages are of a leadership that is over (`Stale`) owes nothing, and
  one that goes from one epoch to another without losing `StableLeader` gathers
  nothing (`Skips`). `BooksAreExact` is what is left with an empty queue. Gives
  `PrefetchIsExact`.

`DaemonProofs` reuses the fetcher's invariants: each is kept by the steps of the
scheduler thread, which may come between any two steps of a poll
(`DaemonStableIsTheLeaders`, `DaemonWaitingIsUnstable`, `DaemonPrefetchIsExact`).

* `LeadersServe` is inductive with the types.
* `HarvestInv`: while a gathering is owed the node leads, and the gathering is what the
  shared state has, or that is empty and a cookie of the present epoch has it. A new
  gathering only comes with a prefetch (`LoopParents`). Gives `GatheredIsKept`.
* `HeldInv`: the reply of a request is pending just while its channel is held, and
  a request has one id. Gives `RequestsAreHeld`.
* `LeadershipInv`: until the leadership of a cookie is `lost`, the node leads in
  the cookie's epoch and the cookie's actions are still there; then its epoch has
  been forgotten in a crash (`amnesia`), or the election is past it. Gives `LeadershipsPublish` and `AnswersHaveBeenInput`.

`FrontendProofs`, for any connections, ids and writes. `IndexAgrees` is inductive
with the types and `NoIdsAreLeft` (a connection that has ended leaves no ids).
`ChangesAreNotLost` needs it, because a trigger looks at the index, and
`StaleIsTriggered`: a field that changed after an answer read it has left a trigger.

`ReloadProofs`, for any number of changes.

* `TrapIsMarked`: an instance that has trapped is marked. Gives `NoRunIsTrapped`.
* `ShownInv`: but while it reads the directory of the scheduler, the thread runs
  the program it has seen there, or shows an error, or lost its leadership after a
  refusal, which forgets the error. Gives `RefusalsAreShown`.
* `NoticeInv` adds two parts to `NoChangeIsMissed`, which is not inductive.
  `WalkInv` is the order of the walk: it goes down the tree, from the root unless
  it is the first, and at the first start files of directories not yet watched are
  yet to be read. `HeardInv`: each directory is still to be watched, has an event
  pending, is deaf or below one that is, or changes there are heard: it is watched,
  or it is not there and its parent is watched or not there. Gives `ChangesAreNoticed`.

`DeploymentProofs` and `DeploymentLogProofs`, for any schedules, roles, sections, kinds of
snapshots, days and faults; assumptions `LogAssumption`, `SectionsAssumption`,
`BackupsAssumption`, `DeploymentAssumption` (`RoleOrder` lists each role once). None of
the five properties is inductive: what the disk holds only makes sense together with
what the two programs still have to do.

* `Control` says which lists of operations can be left: `ControlOf` names the places of
  the daemon (`Indexing`, `Opening`, ... `BackingUp`) and of its renderer (`Opens` ...
  `Failing`), and that the renderer only runs while the daemon waits for it at the
  `RoleFinish` of the same role. It is inductive with the types (`TypeInv`), and each
  other invariant has one case for each place. Gives `DeploymentTypes`.
* `BackupInv`: without a fault, `backup.tmp` has links only while they are made. So the next
  backup, which truncates it, does not write to a snapshot: `DeploymentKeepsSnapshots`.
* `RoleInv`. `RenderedOf`: after i sections the directory holds the last of those
  sections for each name, apart from the one name that is not flushed yet
  (`Written`), and nothing else once it has been cleaned. `LoadedOf`: the service has
  what is in the directory, or, between pitch and condition, what was
  pitched; or the role is `interrupted`. Gives `DeploymentRenders` and `DeploymentReloads`.
* `LogInv`. `IndexInv`, about the index alone: ids are in use (`EntryIds`) and in one
  day's index (`OneIndex`), entries are `Sorted` by id and then by a rank
  computed from role and marker, each follows the one before it (`Nested`), deployments
  that are over are closed (`Closed`), and each row has its entry (`RowsHaveEntries`).
  `Logged`, about the deployment under way: what the next operation `Knows`, that is, which entry is the last,
  that it is in the index both writers have open, and, before a row, that its place
  is the end of the open file. A row is only in one place because its entry is,
  and entries of one deployment differ in rank: `DeploymentPointers`. Neighbours in the
  index of one deployment are neighbours among its entries, as the index is
  sorted: `DeploymentIndex`.

Only model-checked: all liveness
(`LeaderIsHeard`, `FollowerCatchesUp`, `LeaderPublishes`, `ActionsAreAnswered`,
`LatestIsApplied`, `DeploymentEnds`, `SubscribersCatchUp`, `ConfigIsUsed`,
`FollowersAreQuiet`), as TLAPS proves no liveness under fairness here; and
`Variables`, whose operators are recursive. Every other property that a passing run checks
is stated by a theorem.

## 8. Not modelled

CBOR and JSON encodings, lengths of deadlines, metrics; the parsing of the
configuration and its place in the metadata; I/O errors of the deployment log
itself (they are collected and the writing goes on), rows without an index
entry and text that a `LineWriter` still buffers; template engines; the
commands `Copy`, `Cmd`, `Sh`, `RootCommand`, `CleanFiles` and `PeekLog`; the lua
engine, whose stack grows with each failed run (execute.rs:31), and the host
functions of wasm; dry runs; the routes of the frontend, its pages and files;
the watchdog's timers. `PROJECT.json` has the reason for each part.

## Running it

    tlc -config Election.cfg MCElection      # and the other runs of PROJECT.json
    tlapm ElectionProofs.tla                 # and the other *Proofs modules
