# TLA+ models of the UAV swarm simulation

This directory models and verifies the program of this repository: an ns-3
simulation of a swarm of UAVs (`src/scratch/non-ideal`), the parts of ns-3 it
runs on, and the Rust tool that searches for good parameters by running the
simulation over and over (`src/parameter_optimizer`). Paths below are relative
to the inner `src/` directory of the repository.

## 1. Inventory

### The parts and how they interact

```
 main.cc --schedules--> event engine --runs--> UAV (one per node) --beacons--> UDP/ARP/WiFi --> UAV
    |                                            |  ^
    | LogPositions, SetColor                     v  |
    v                                         WaypointMobilityModel
 positions file (csv) <--- read by --- position parser <--- parameter search (threads)
          ^                                                      |  starts the simulation
          +---------------- Visualizer                           +---> output-*.json, plots, out/
```

| Part | State | Operations | What makes it correct |
| --- | --- | --- | --- |
| **Event engine** (`default-simulator-impl.cc`, `map-scheduler.cc`, `scheduler.h`) | queue of events under keys (time, uid), current time and uid, next uid, stop flag, events handed in by other threads, events at destruction, count of unscheduled events | Schedule, ScheduleWithContext, ScheduleDestroy, Cancel, Remove, IsExpired, Run, Stop, Destroy | events run in key order, time never goes back, no event is lost or run twice, IsExpired is right |
| **UAV application** (`uav.cc`) | role, velocity, knowledge of the peers (`m_swarmData`), send and receive counters, pending events | StartApplication, Send, HandleRead, Calculate, Cyberattack | both event chains stay alive and single; knowledge only gets newer and never exceeds what was sent; the central node is an anchor; NaN has a source |
| **Driver** (`main.cc`) | the csv stream, the order of set-up | main, LogPositions, SetColor | the stream is open whenever it is written; the file holds exactly the frames before the duration; the run ends |
| **Mobility** (`waypoint-mobility-model.cc`) | current point, next waypoint, list of waypoints, velocity | AddWaypoint, Update, GetPosition | each Calculate finds the node where the last one sent it; no abort; reads stay on the leg |
| **Radio path** (UDP, ARP, WiFi of ns-3) | beacons under way; per peer an ARP entry with state, retries and waiting packets; one shared timer | deliver, lose, delay; Lookup, Receive, HandleWaitReplyTimeout, Flush | order per pair of nodes; no packet waits for ever; the fatal errors are unreachable |
| **Parameter search** (`optimization.rs`) | RUNNING, LOWEST_ERROR, mutex STATE with results, files in `out/` | runner loop, analysis, Ctrl-C, join, save, plot | the best run is exported; bounded overshoot of the limit; it stops; results are not lost without cause |
| **Position parser** (`position_parser.rs`) | frames, one cursor per UAV | parse, pos_at_time | frames hold what was written; answers interpolate; no panic |
| **Range smoother** (`util.rs`) | two loop counters, limits | new | indices in bounds; limits cover the list; the loops end |
| **Visualizer** (`vis.py`) | rows, a search cursor per UAV, simulation time, count of finished UAVs | search, next pass, quit | cursors find the rows around now; no index error; a graph is made of the whole file |
| **Launcher** (`main.rs`, `git.rs`) | the directory of the simulation: clone, work tree, configuration, build | clone, rev-parse, checkout, configure, build | what is searched was built from the wanted commit, whatever earlier launches left |
| `gen_graphs.py`, `pcapreader.py`, `scratch/test.cc`, the rest of ns-3, waf, bindings, archives | | | not modelled: plotting, printing, third-party or binary |

### Hard behaviour

* *Order at one instant.* Nothing but the tie rule of the queue and the order of
  the calls in `main` makes the first log come before `SetColor` writes through
  a pointer that this log sets. The stop and a log may be due together.
* *Chains of events.* Send, Calculate and LogPositions schedule themselves
  again; each must stay alive exactly once, and the run still has to end.
* *An unreliable radio without sequence numbers.* A beacon replaces everything
  known about its sender.
* *Numbers that are not finite* spread from velocity to waypoint to beacon to peer.
* *One timer for many.* The ARP timer is started by one entry and serves all, while
  requests and replies are lost, late or answered twice.
* *Leftovers.* A launch killed in the middle of a git or waf command leaves a tree that the next one
  takes for its own, or that git refuses to touch.
* *Threads.* Other threads hand events to the engine through a list whose emptiness is read without
  its mutex. LOWEST_ERROR is read, compared and stored without a lock; a panic
  inside the lock poisons it for everybody; Ctrl-C comes at any time.
* *Cursors.* `pos_at_time` and `WaypointMobilityModel::Update` both move their
  state when they are asked a question.

`PROJECT.json` lists each hazard at its line with the properties aimed at it.

## 2. Modules

| Module | Models |
| --- | --- |
| `EventQueue` | the order on event keys (`EventKey::operator<`), the next key (`RemoveNext`), `IsExpired` |
| `EventEngine` | abstract specification: an engine that runs any pending first key and adds any later keys under fresh uids |
| `Simulator` | the engine itself: the main thread in and out of Run, other threads, cancelled and removed events, destruction; refines `EventEngine` |
| `SimulatorProofs` | its invariant, what IsExpired tells, and the refinement; then what `EventEngine` itself promises |
| `Swarm` | the whole simulation: driver, applications, radio path, on the event queue; refines `EventEngine` |
| `SwarmProofs` | type correctness, the invariant of the event loop, no crash, one chain, the refinement, what beacons under way and beliefs are true of, and the frames of the positions file |
| `Link` | abstract specification: packets per destination go out in order, each at most once |
| `ArpCache` | address resolution of one node; refines `Link` |
| `ArpCacheProofs` | its invariant, each safety property, and the refinement |
| `Optimizer`, `OptimizerProofs` | the parameter search and its theorems; `OptimizerProofs` also holds those about `RangeSmoother` |
| `Launcher`, `LauncherProofs` | the start of the optimizer, over launches that are killed, and its theorems |
| `Keyframes` | exact linear interpolation, with fractions as (num, den) |
| `PositionParser`, `PositionParserProofs` | parse and pos_at_time, and their theorems |
| `Waypoint`, `WaypointProofs` | the mobility model of one node, with its callers, and its theorems |
| `Visualizer`, `VisualizerProofs` | the playback loop of `vis.py` and its theorems |
| `RangeSmoother` | the nested loops of `RangeSmoother::new`, whose results the search uses as colour limits |
| `MC*` | the instances that TLC checks, and the statements of docs and tests that runs find violated |

Operators preceded by a comment that starts with "Faulty:" are never used by a
specification. They are the plausible bugs (a dropped guard, a swapped order)
that show that each property can fail; `PROJECT.json` pairs them with properties.

### How `Swarm` corresponds to the code

One action is one event of the loop of `DefaultSimulatorImpl::Run`, run to its
end as the single thread of the program does, or the arrival of one beacon.

| Action | Code |
| --- | --- |
| `Init`, `Setup` | everything `main` does before `Simulator::Run`: one Initialize event per node (scheduled by `nodes.Create`), then Stop, then LogPositions; uids start at 4 |
| `Initialize` | `Application::DoInitialize` schedules StartApplication at 0 (central) or 1 s (peripherals) |
| `StartApplication` | binds the socket, schedules the first Send and Calculate, colours the central node, arms the attack on address .2 if `ShouldDoCyberAttack()` |
| `Send` | the assertion on `m_sendEvent`, a beacon to every address including its own (see findings), the next Send |
| `Deliver`, `HandleRead` | a link is a queue (`AfterArrival`, an assumption on the lower layers); any element may arrive, those before it are lost; an unbound node drops it; own beacons are ignored; otherwise the entry is overwritten |
| `Calculate` | the forces of the entries, one integration step, the next Calculate |
| `Cyberattack` | the role changes and a colour is written |
| `LogPositions`, `Stop`, `Finish` | the csv file, `m_stop`, and the flush after `Destroy` |

A crash (null stream, failed assertion) sets `fault`, after which nothing runs.
Positions and velocities are reduced to *at rest*, *moving*, *not finite*: that is
all the control depends on. A division by a zero distance is nondeterministic
wherever there is a peer that exerts a force. `CyberAttack` is a constant because
the function is compiled to return `false`: the run takes it as true, which contains
the behaviour of the other case up to the attack. The mobility
model's own Update events are in `Waypoint`, and those of the lower layers are
behind `Deliver`: they use up uids between those of the model but never change
the order among the modelled events.

### The other modules

`Optimizer`: one step is one access to shared state by one runner, by the main thread
or by the Ctrl-C handler. A runner goes through *loop, ask, simulate, analyse,
record, load, compare, copy* (`run_thread`, `run_analysis`); the separate *load* and
*compare* steps are the two accesses to LOWEST_ERROR. A sampler, a simulation or an analysis
may fail, a parse may panic, a score may be NaN, a copy may fail; a panic under the
lock sets `poisoned`. The sixth Ctrl-C kills the process.

`PositionParser`: the file is written row by row as `LogPositions` writes it, then
parsed and queried. The linear search is in closed form (the first frame at or after
now that knows the UAV). Queries come as `get_error` makes them: rounds over all UAVs at one
time, times never decreasing.

`Waypoint`: the loop of `Update` is in closed form as well; `Calculate`, `GetPosition` and
the scheduled `UpdateEvent` interleave at each instant in every order the queue allows.

`Visualizer`: one step is the search for one UAV, the end of a pass or the user's exit. The order in which
Python lists a set is arbitrary, so any UAV may be the first, which the search for the central one skips.
On the screen any time may go by between two passes; without it a fixed step.

`RangeSmoother`: one step is one iteration of the inner loop or one push.

`Simulator`: the main thread is in one of the places of `pc`: outside of Run, in `ProcessEventsWithContext`
(*process* before the flag is read, *insert* after the mutex is given back), at the head of the loop, in a
handler, in Destroy or in a handler of Destroy. Wherever its code may be, another thread can hand in an
event (`ForeignSchedule`, atomic because both its writes are under the mutex); `Skip` and `Swap` are the two outcomes of
reading the flag. An `EventImpl` is a number; `over` remembers which are done, and an identifier
(`EventId`) is a key with that number. Calls the code returns from at once (Cancel or Remove of an
expired event) are stutters. `ScheduleNow` is `Schedule(0)`.

`ArpCache`: `Lookup` has one disjunct per branch of the code, `HandleWaitReplyTimeout` changes all waiting
entries at once, `Flush` is the callback of a link change. The radio may hold back or lose
any request and reply, and an answer may arrive for a request given up long ago. The history variable `since` is when an entry began to wait.

`Link` is what `Swarm!AfterArrival` assumes of the lower layers: `ArpCache` shows that the one layer
that stores packets keeps their order. It puts the packets that waited into the link at once, where the code
looks the peer up again for each: within one event the entry stays alive, so nothing comes between.

`Launcher`: one step is one command of `main`, `setup_repo` and `run_waf_command`. A command may fail, or the launch
be killed with it (`Interrupted`), and leaves a partial clone, a torn work tree, configuration or build. Of a clone or checkout that
is cut off, `blocked` keeps what makes git refuse later checkouts: `index.lock`, or half written files that the index takes for
local changes; nothing in the code removes them. Between launches people check out other commits, having cleaned up, or remove the
directory. Edits that they leave uncommitted are not modelled. `GitRefuses` and `WafRefuses` are the commands that fail because of what they find, `Fail` those that fail of themselves. `CurrentHash` is the empty string, because
`run_git_command` reads the output of a process whose output is not piped. `clean` and `gitCut` are history variables.

## 3. Runs

| Run | Bounds | Shows |
| --- | --- | --- |
| `swarm` (339,318 states) | 2 peripherals, one of which announces a false role, 4 ticks, at most two beacons per link | no crash; one Send and one Calculate per started node; beacons conserved, in order and true of their sender, no node believes anything of itself, the central node at rest (`RadioInv`); NaN has a source; knowledge only gets newer; the positions file holds exactly the frames before the duration, each once and in order; the loop implements `EventEngine`; the run ends |
| `simulator` (1,466,416) | 4 events, delays 0 and 1 | the assertions of the engine hold, every event is in exactly one place and counted (`SimulatorInv`); `IsExpired` is right about every identifier; the engine implements `EventEngine` |
| `arp` (610,588) | 2 peers, 3 and 1 packets, queue of 2, one retry, 7 ticks of half a timeout | unreachable code is unreachable; the timer serves every waiting entry; packets wait only behind waiting entries; a peer is given up in time; packets keep their order (`Link`); none waits for ever |
| `optimizer` (820,158) | 3 runners, limit 2, scores on both sides of the initial LOWEST_ERROR, the second press of Ctrl-C kills | best run exported; bounded overshoot; runners end for a reason; results lost only through a panic over a sampler, under the lock; under fairness the search stops once told to, except over an empty list |
| `optimizer_empty` (violated) | as `optimizer` with 1 runner | finding: interrupted before the first result, it never ends |
| `launcher` (3,226) | 2 commits, 4 launches | with `--use-git` the search runs on a build of the wanted commit, configured for it; a launch whose commands do not fail of themselves is stopped only if git was cut off since people last cleaned up |
| `parser` (1,033,418) | 2 UAVs, 5 rows, frames 2 ticks apart, rounds of queries up to 3 apart | no panic; cursors on frames that know their UAV, no extrapolation (`CursorInv`); frames are what was written; exact on key frames |
| `parser_first` (violated) | as `parser` | finding: first row lost |
| `smoother` (2,968) | 1 to 12 ranges, 1 to 14 values | limits cover the list, each from its own share; the loops end |
| `waypoint` (708) | 3 positions, up to 4 Calculates | no drift; at most one waypoint ahead, reads on the leg (`WaypointInv`) and approaching its end |
| `visualizer` (94,510) | 2 UAVs, 4 rows, 4 frame times, cap of 4 ticks | cursors on rows of their UAV (`PlaybackInv`) that a full search would find; a graph is made of the whole file, and is made if the file is no longer than the cap |
| `visualizer_long` (violated) | 2 UAVs, 3 rows | finding: playback without end |

**Why the bounds are enough.** Two peripherals give every pairing of roles (central with
peripheral, peripheral with peripheral, a false central with a third node); two
beacons per link are the least at which an older one can overtake. The intervals are
chosen so that Send, Calculate, log and stop meet at one instant and also miss each other.
`MaxUid` = 60 is never reached: no state of `swarm` has handed out uid 40, and
`Terminates` would fail if the run stopped there.
Four events of `simulator` are one that runs, one that it removes or cancels, one that comes from another
thread meanwhile, and one at destruction. In `arp` the second entry can begin to wait between two
timeouts of the timer that the first one started, one peer gets more packets than its queue holds, and
the time suffices for an entry to be answered, expire, and be given up.
With three runners and a limit of two there is a runner past the limit, one at it and
one comparing a stale LOWEST_ERROR. Four launches are one that is interrupted, one that finds what it left, and two
with other options or other commits between them. Two UAVs and five rows allow a UAV that is
missing from a frame, two complete frames, and a first row that is lost. The product
steps times length of `smoother` covers lists shorter than, equal to and longer than the
number of ranges. A node of `waypoint` starts two ticks in, so it has arrived once
before its first Calculate, as the peripherals have.

**Deadlock** is checked in all runs but `parser`, `parser_first` and `waypoint`, whose
inputs (rows, time) are bounded and where a panic or abort ends the program. Elsewhere ending is an explicit
stuttering action, and a launcher can always be left for its directory to be removed.

**Symmetry** of the runners is not used, because `optimizer` checks a liveness property.

**Fairness.** `Swarm`: weak fairness of `Step`, because `Run` keeps taking events while there
are any; nothing forces any particular beacon to arrive. `ArpCache`: weak fairness of the timeout and the
clock together, for the same reason; no request or reply has to arrive. `Optimizer`: weak fairness for each runner and
for the main thread, which the operating system schedules; that a simulation ends is
`Swarm!Terminates`; nobody is obliged to press Ctrl-C. `RangeSmoother` and
`Visualizer`: one thread in a loop; the user need not quit. `Simulator` and `Launcher` state no
liveness: handlers and commands may take for ever.

## 4. Findings

Each is a run that TLC finds violated; `PROJECT.json` quotes the sentence that disagrees.

1. **A search interrupted before its first result hangs** (`util.rs:90`): with an empty
   list the inner loop never ends.
2. **The first row of each positions file is lost** (`main.cc:85`): the header has no
   newline and the parser skips the first line. The central node is missing from the first frame.
3. **`--graph-only` never ends on a file longer than 25 s** (`vis.py:407`): simulation time
   stops there, the loop waits for the last row.

Observations without a run of their own:

* *A node sends to itself* (`uav.cc:257`). The comment below says it does not, but an
  `Ipv4Address` never equals the `InetSocketAddress` of `GetSockName`. `Send` of the model
  counts that beacon too; `HandleRead` drops it, so only the counter is off, and
  `RadioInv` holds.
* *A waypoint leg starts with a jump* (`waypoint-mobility-model.cc:134`). Arriving sets
  `m_next.time` to -1 s, which the next leg takes for its departure. At the waypoints
  positions are exact (`IntegratesExactly`); between them the node does not move with
  the constant velocity that the header promises, but it stays on the leg (`OnLeg`).
* *The parser's cursor can rest on an older frame* (`position_parser.rs:198`) than the
  last before now when queries jump over a frame, as `get_error` does with steps
  of 0.1 s over a log of 50 ms. The answer is then interpolated over a longer span, and still lies
  between two samples (`WithinCursor`).
* *The visualizer can take another node for the central one* (`vis.py:202`): the search starts at index 1, so the first
  element of the set is never considered. `Visualizer` makes that choice as the code does, but no property depends on it.
* *A full ARP queue drops the new packet* (`arp-cache.cc:432`), where the comment above says that it replaces
  the one that waits. Order is kept either way; `UpdateWaitReply` follows the code.
* *git is always asked to check out and waf to configure* (`git.rs:72`): the hash read back is
  the empty string. This is what repairs a tree whose configuration was interrupted: with the hash read
  (the mutant of `SearchesWanted`) the next launch would build on the torn configuration.
* *A clone or checkout that was killed is never repaired* (`git.rs:46`, `git.rs:56`): the directory exists, so no later launch clones
  again, and a plain `git checkout`, without `-f` or a reset, is refused over `index.lock` and half written files. Every later
  launch with `--use-git` fails until someone cleans up. `FailsForReason` says that nothing else left behind stops one: neither a
  configuration or build that was interrupted, nor launches without `--use-git`, nor other commits.
* *A duration of zero* (`main.cc:262`), which the command line accepts, stops the run before the first log, and the flush of line 276
  has no stream. `NoFault` makes this one exception.
* *An event of another thread can stay behind* (`default-simulator-impl.cc:202`): handed in
  after the last look at the flag, it is neither run nor counted when Run ends, and the assertion
  about lost events does not see it. The next Run or DoDispose takes it over; `SimulatorInv` counts it as still in the list.

## 5. Proofs

All theorems are proved for every value of the constants allowed by the named
assumptions: any number of peripherals, peers, events, launches and commits, any positive intervals
and timeouts, any duration, any finite set of runners, any limit and any scores, any file and any times between passes of the visualizer,
a positions file of any length and any times of queries, any number of ranges over a list of any length.

* **`SwarmProofs`.** `LoopInv` is the inductive invariant:
  `TypeOK`; `Ordered` (pending events are still to come, each under its own uid);
  `Chains` (at most one event of each chain per node, "boot" before a node is bound and
  "send"/"calc" after); `SendEventCurrent` (`m_sendEvent` is the key of the pending
  Send); `LogFirst` (while the file is closed, the first log precedes every event that
  writes to it); `NoFault`. Neither `NoFault` nor `OneChain` is inductive alone: that
  SetColor finds the file open needs the order of uids at time zero (`LeadsWriters`), and that the assertion of
  Send holds needs `m_sendEvent` to name the event that is running, which needs the
  uniqueness of the chains. Each action has its lemma. From `LoopInv` follow
  `SwarmTypeCorrect`, `SwarmLoop`, `SwarmNoFault` and `SwarmOneChain`, and, since the
  step simulation needs the order of the queue, `SwarmImplementsEngine`: the keys of the
  swarm's queue behave as `EventEngine` says, so its theorems carry over.
* **`OptimizerProofs`.** `SearchInv` adds to `TypeOK`: `ExportInv` (everything LOWEST_ERROR
  ever held is recorded and delivered, and a best score not yet delivered is still
  being compared), `CountInv` (results plus runners that can still record stay below the limit plus
  the number of runners), `EndInv`, `PoisonInv`. The race on LOWEST_ERROR is harmless because a stored or
  loaded value always belongs to a recorded run that is delivered: no runner turns away from
  the best score for a value that does not have an equally good file. From it follow the type
  theorem, `OptimizerBestExported`, `OptimizerBoundedOvershoot`, `OptimizerEndsForReason`
  and `OptimizerLossNeedsPoison`.

* **The radio, in `SwarmProofs`.** `RadioInv` joins what is under way and what is believed: along a link sequence
  numbers rise, lie above what the receiver knows and up to the counter of the sender (`InFlight`);
  every role and every lost velocity on the way or believed is still true of its sender (`Truth`); nothing sound
  follows a bad beacon (`BadStays`); there is no link from a node to itself; the central node rests. It is
  carried in a form stated pair by pair (`PairwiseInv`), because an arrival or a Send changes the
  entries of one pair or one row. With it are proved `SwarmKnowledgeMonotone` and
  `SwarmBadHasSource`, for which `PairwiseInv` also holds where bad velocities come from; without `InFlight` a late beacon could undo a newer one.
* **The positions file, in `SwarmProofs`.** `SwarmFramesComplete` rests on `FramesInv`: exactly one log is pending, the k-th
  (`Logged`), the frames in the file are the instants before it, all of them before the duration, and once the stop has run the
  pending log is not before the duration; the lines are sorted, frames strictly, and none is later than now. A log that runs is before the
  duration, even when both are due together, because the stop was scheduled first and so has the lower uid: the step needs
  `Ordered` from `LoopInv` and the rule for ties of the queue. Multiples of the interval and remainders are put together by
  `Quotient` and `InstantsRise`.
* **`ArpCacheProofs`.** `ArpInv` adds to the checked properties: the timer that runs is due within one timeout (`TimerAhead`), only
  waiting entries have retries (`RetriesWhileWaiting`), and the packets that wait follow those that
  are out (`QueueOrder`). That no waiting entry expires, on which `ArpNeverFaults` rests, is
  `TimerServesAll`: each timeout of the shared timer refreshes every waiting entry.
  `ArpKeepsOrder` is the refinement to `Link`.
* **`SimulatorProofs`.** `SimulatorInv` says that each event is in exactly one of five places (`Accounted`), that
  `m_unscheduledEvents` is the size of the queue (`Counted`), that what is pending is still to come
  (`Ordered`), that the flag is set exactly when the list is empty (`NoneHidden`), and that an identifier
  is the queue's own key until it has passed or was cancelled (`IdTrue`). The last is what makes Remove
  safe, since it asks only `IsExpired`; `Accounted` is what keeps an identifier from naming
  two events. The lists are handled by lemmas about Append, Tail and the removal of one element.
  `SimulatorImplementsEngine` is the refinement to `EventEngine`. Of `EventEngine` itself the module proves that
  an engine that takes the first key never has an overdue event (`EngineSafe`) and runs events in key order
  (`EngineInOrder`); `Swarm` and `Simulator` both implement it, so both inherit this.
* **`LauncherProofs`.** `LauncherInv` says how far the tree is at each command, and that git only refuses what git left
  (`gitCut`). `LauncherSearchesWanted` and `LauncherFailsForReason` follow, because each launch that git lets through the checkout
  configures again: what an interrupted waf left is replaced before it can be built or searched.
* **`VisualizerProofs`.** The inductive invariant adds to the three checked properties that the file is `Sorted` and that each
  cursor is `Safe`: no later than any row of its UAV, or on one of them that has passed. Then a search from
  the cursor misses nothing: rows before it have passed, and are no later than the row it is on
  (`SearchSees`), so it finds what a full search would (`SearchFinds`); the cursor it leaves is safe again because time
  only goes on. `VisualizerPlayed` needs finite sets: a count of finished UAVs equal to the count of all means all of them.

* **The range smoother, in `OptimizerProofs`.** `SmootherInv` says that the search for a limit has not passed one (every index of the
  inner loop so far gave the same source index) and bounds each limit from both sides by the source index of its range.
  The arithmetic is a handful of lemmas on products and quotients (`Division`, `Scale`, `Unscale`, `IndexRises`), from which
  `SmootherCoversAll` and `SmootherOwnShare` follow.
* **`WaypointProofs`.** The mobility model is always in one of three forms: at rest (`Resting`), at rest with a waypoint just added
  (`Planned`) or on its way (`Moving`), and then at exactly the place of the leg for the time it was last looked at (`OnTheWay`). The inductive invariant
  says which form goes with which time, and `ReadWas` where a read position was. Each call of `Update` keeps the form, whoever makes it
  (`UpdateKeepsForm`): from a place on the leg one arrives at the place for now, because velocity times time adds up
  without rounding in fractions. `WaypointIntegrates`, `WaypointInvariant` and the action property `WaypointApproaches` follow;
  the last two also need that a place on the way lies between the ends and nears the one ahead (`WayUp`, `WayDown`).
* **`PositionParserProofs`.** While the file is read, the invariant says that every frame is at least `LogInterval` before the row
  read last and that what the map holds was written at that row's time (`ReadInv`); while it is queried, that each cursor is of
  one of three kinds with respect to the time of the last query for its UAV (`CursorFits`: before the first sample, between two, after the last). `Spaced`
  keeps frames `LogInterval` apart. `QueryAnswers` splits a query into the three ways it can be answered, with the closed form of the search
  justified by a least and a greatest index (`Least`, `Greatest`, from well-foundedness of the naturals). Then the assertions of
  pos_at_time hold (`ParserNoPanic`), answers at key frames are exact and others are not extrapolated (`ParserCursors`, by `BetweenSamples`),
  frames hold what was written (`ParserFaithful`), and a UAV asked for again before a whole frame has gone by is answered by the
  reference (`ParserExact`): a sample skipped between two queries would be `LogInterval` after the sample the search starts from. The assumption that
  no address is the string "none" keeps the model's empty answer apart from a real one.

**Only model-checked.** Liveness (`Terminates` of `Swarm` and of `RangeSmoother`, `Stops`, `Resolved`, `ShortFileEnds`) is beyond the prover. Every
invariant, action property and refinement that a passing run checks is also a theorem.

## 6. Not modelled, and why

The magnitude of forces and the damping (floating point); WiFi back-off,
collisions and retransmission (seen as loss and delay); permanent ARP entries, which nothing adds; stop times,
since `main` sets none; SetScheduler and contexts of the engine, and the wrap of its 32-bit uid
after four thousand million events; the TPE sampler and the error formula (a score is any member of a
set, or NaN); temporary files, which no other runner reads; command lines; drawing. `gen_graphs.py` and `pcapreader.py` are
straight-line statistics and printing, with no state to check.

Nearly all lines under `src/` are the rest of ns-3, a vendored framework, and its generated Python
bindings (`bindings/modulegen__gcc_*.py`). The program takes few paths through it; those that keep
state (engine, start-up, mobility, ARP) are modelled, and no model of the program could cover a notable share of the tree.

## 7. Plan

Built, in this order: the event queue and `Swarm` (the core) with its proofs, `Optimizer` with its proofs,
`PositionParser`, `RangeSmoother`, `Waypoint`, `Visualizer`, then `ArpCache`, `Launcher` and `Simulator` with their
proofs, the proofs about the radio and the visualizer, and last those about the range smoother, the mobility model, the
position parser and the positions file.

What could follow: `Swarm` over several `ArpCache` instances
in place of its links, which needs a smaller swarm to stay within TLC's reach.
