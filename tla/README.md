# bsh-iputils in TLA+

Specifications of the concurrent and timing-sensitive parts of this repository,
the TLC runs that check them, and TLAPS proofs of the properties that matter
most. `PROJECT.json` lists components, runs, seeded faults, the map from
definitions to source lines, hazards, findings and theorems.

## 1. The system

| Part | State | Operations | What is hard |
|---|---|---|---|
| ping engine (`ping/ping_common.c`, `ping.c`, `ping6_common.c`, `ping.h`) | tokens, counters, 16-bit window, duplicate table, timers | `pinger`, `main_loop`, reply and error-queue handlers, `__schedule_exit` | pacing, wrap of the sequence space, an error seen both by the sender and on the queue, ending |
| arping (`arping.c`) | counters, unicast switch, two timerfds, signalfd, socket queue | `send_pack`, `recv_pack`, `event_loop`, `finish` | descriptors ready together, missed expirations, ending |
| tracepath (`tracepath.c`) | ring of probe records, MTU, hop | `probe_ttl`, `recverr`, main loop | late errors, reuse of slots, 8-bit TTL |
| clockdiff (`clockdiff.c`) | four time stamps, two minima, sequence numbers | `measure`, `measure_inner_loop` | midnight, asymmetric delays, loss |
| libbrightlink client (`brightlink.c`) | socket, session, pin, error text | `bl_register`, `bl_geo_get`, connect, free | time-outs against late answers, bridge restarts and key changes |
| pin store (`pin_store_file.c`) | live file and `.new` file | load, save, erase | death between two system calls, two tools at once |
| position source (`brightlink_glue.h`, `brightspace.h`) | position, source, tag, reason | options, bridge, geoIP, annotation | priority, falling through on failure |
| bping, btraceroute, bmtr, baudit | anchors; hop table, samples, cycles | argument loop, verdicts; child traceroute and ping, tables, SIGINT | table limits, sample ring, interrupts in the middle of a cycle |

ping, arping, tracepath and clockdiff are single processes that interact with
the kernel's timers, sockets and error queues. The b* tools call libbrightlink
through the glue; the library talks to a bridge over a Unix socket and keeps the
bridge's key in the pin store, which several tools share.

## 2. Modules

| Module | Models |
|---|---|
| `PingEngine` | one ping run: every outcome of a send, replies, duplicates, ICMP and local errors, timers, signals. `IcmpError6` and `NotOurs6` are IPv6's handlers; `AckErrors` tells the two apart |
| `BrightLink` | one client handle and the bridge it talks to |
| `GeoTool` | extends `BrightLink`: runs of a b* tool over one pin file, each parsing its arguments, calling the glue, which calls the client, and printing a position and a verdict |
| `PinStore`, `PinRegister` | runs sharing the pin file, system call by system call; the abstract trust-on-first-use register |
| `HopTool` | the hop table of btraceroute and bmtr, bmtr's probe cycles, statistics and SIGINT |
| `Tracepath` | probes, error queue and path |
| `Clockdiff` | one measurement against a remote clock |
| `Arping` | the event loop, one handled descriptor per step |
| `Descent` | the lexicographic order in which `WindsDown` and `NeverSpins` compare what is left to do |
| `MC*` | values for TLC |
| `*Proofs` | theorems |

Variables and actions carry the source's names where they have one. Operators
commented "Faulty variant" are plausible mistakes, used to see that each property
can fail; no specification uses them.

- The command line of a run is chosen in `Init` (`Arping`, `HopTool`) or when a
  tool is started (`GeoTool`), from a set of command lines.
- One pass of `poll()` in `Arping` takes a snapshot of the ready descriptors and
  the handlers run in the order of `pfds`, so time, packets and errors may come
  between two handlers.
- In `Tracepath` the probes under way are a set: each has its own age, and a probe
  as old as `MaxAge` is never answered any more. `fifo`, chosen in `Init` from
  `Orders`, says whether the path keeps the order of answers.
- In `GeoTool` a position is its origin, and an anchor says whether its ring
  contains the target: the distances are floating point.
- In `HopTool` a line of traceroute is a hop with or without a host and a time, or
  a line without a hop number; a child ping answers, is lost or is interrupted.
- `inTime` (Arping), `refused` and the sent TTL of a line (Tracepath), `answered`,
  `top`, `lapsed` (PingEngine), `st`, `pinRead`, `posKey`, `self` (GeoTool), `heard`
  and `answers` (HopTool) are history: no guard of the program reads them.

## 3. Runs

| Run | Shows |
|---|---|
| `client_safety` | answers stay paired with requests, sessions belong to the pinned key, pins are never replaced |
| `client_reregister` (violation) | after a "session expired" refusal the client does not register again |
| `pin_one_run` | the live pin file is whole at every instant and the store refines `PinRegister` |
| `pin_two_runs` (violation) | two first runs share the `.new` file, and one renames what the other is still writing |
| `ping_count` | five probes in a sequence space of four, so that it wraps: rate, single counting, exact window, count limit, armed exit, termination |
| `ping_deadline` | termination with `-w`, `-q` and IPv6's treatment of errors |
| `tracepath_orders` | hop numbers belong to their probes, answers in order give the path's MTU, and the trace ends, with answers late, lost, twice and out of order; with answers in order every step brings its end nearer |
| `clockdiff_midnight` | estimates within half the best round trip across midnight, a peer is given up after exactly `TRIALS + 1` silent messages, `measure` returns |
| `arping_usual` | five command lines: never more than count probes, one answer with `-D`, no broadcast after an answer, an event loop that never spins, and arping ends |
| `geo_runs` | two runs of each b* tool while the bridge stops, restarts or changes its key: the first source given wins, the tag tells geoIP from exact positions, positions come from the pinned key, baudit's verdict follows from its anchors, the arguments bound the steps of a run, and runs end, also by SIGPIPE or with an unreadable pin |
| `geo_both` (violation) | with `--my-ecef` and `--my-coord` together the latter wins, against the documented priority |
| `hop_usual` | `-m` and `-c` below, at and above their limits: table bounds, the route kept, exact statistics, comparable cycles, truthful rows, loops that wind down, and an end after SIGINT |

A violation run is a place where the code and a text of the repository disagree;
`PROJECT.json` quotes the text.

### Other disagreements

These properties, defined in the modules, state what a text says and fail in the
same way. They have no run of their own; each is reproduced by checking the
property with the constants of the run named, changed as shown.

| Property | Text | Constants | What happens |
|---|---|---|---|
| `BrightLink!ErrorTextFresh` | `brightlink.h:161-165` | `client_safety` | `bl_register` on an active session keeps an old refusal's text |
| `BrightLink!Survives` | `brightlink_glue.h:18-19`, `BSPACE.md:93` | `client_safety`, `SigpipeIgnored = FALSE` | writing to a bridge that has stopped raises SIGPIPE: the tool dies instead of falling through to geoIP |
| `PinStore!NoSilentDowngrade` | `packaging/pin-format.md:61-62` of libbrightlink | `pin_one_run`, `V2Files = TRUE` | a version 2 file counts as no pin and is overwritten |
| `PingEngine!FloodLimited` | `ping_common.c:275-276` | `ping_count`, `SeqMod = 8`, `NPackets = 12`, `Preload = 1`, `Interval = 0`, `MaxAge = 7`, `MaxFaults = 0` | with half the space outstanding the flood is no longer held back |
| `PingEngine!StopsAfterCount` | `doc/ping.xml:201-202` | `ping_count`, `SeqMod = 8`, `NPackets = 2`, `Preload = 1`, `MaxAge = 7`, `MaxFaults = 2` | one oversized probe is counted as two errors |
| `PingEngine!Terminates` | `doc/ping.xml:757-763` | `ping_count`, `SeqMod = 8`, `NPackets = 2`, `Preload = 1`, `Interval = 0`, `Timing = FALSE`, `MaxAge = 7`, `MaxFaults = 0` | no timer is armed after the last probe of a flood |
| `Tracepath!PmtuDetected` | `doc/tracepath.xml:183` | `tracepath_orders`, `MaxHops = 3`, `StartMtu = 6`, `Orders = {FALSE}`, `Echoes = {"full"}`, `MaxAge = 4`, `MaxFaults = 0` | a late error raises the MTU again |
| `Tracepath!HopsExact` | `doc/tracepath.xml:183-184` | `tracepath_orders`, `MaxHops = 5`, `StartMtu = 5`, `Orders = {TRUE}`, `MaxFaults = 0`, `Links <- Wide` | the last slot is written and never looked up |
| `Tracepath!Terminates` | `doc/tracepath.xml:131-132` | `tracepath_orders`, `Slots = 2`, `TtlMod = 4`, `MaxHops = 3`, `Tries = 1`, `StartMtu = 4`, `IPv6 = TRUE`, `Orders = {TRUE}`, `Echoes = {"none"}`, `MaxAge = 1`, `MaxFaults = 0`, `Links <- Wide` | the 8-bit TTL wraps when max_hops is its largest value |
| `Clockdiff!DownAfterTrials` | `clockdiff.c:383-384` | `clockdiff_midnight`, `MaxFaults = 0` | one message more than TRIALS goes unanswered |
| `Arping!WaitsForCount` | `doc/arping.xml:101-105` | `arping_usual`, `Options <- CountAndDeadline`, `Late = FALSE`, no signals or faults | with `-w` the count still ends the run by probes sent |
| `Arping!StopsAfterCount` | `doc/arping.xml:99-100` | `arping_usual`, `-c 2`, no signals or faults | expirations read together count as probes |
| `Arping!Terminates` | `doc/arping.xml:99-100` | `arping_usual`, `-c 2 -i 0`, no signals or faults | a timer of 0 is disarmed |
| `Arping!NoLostConflict` | `doc/arping.xml:114-115` | `arping_usual`, `-D -w 2`, no signals or faults | an answer queued behind another packet at the timeout is not read |
| `GeoTool!TagNamesSource` | `BSPACE.md:85-89` | `geo_both`, `Commandlines <- Plain` | a bridge position in ECEF form alone is tagged `[ecef]` |
| `GeoTool!SelfIsAnchor` | `BSPACE.md:366-367` | `geo_both`, `Commandlines <- ManyAnchors` | with a full anchor table the tool's own measurement is left out |
| `HopTool!Rolling` | `BSPACE.md:307` | `hop_usual`, `Commandlines <- Long` | only the samples are a window; minimum, mean and loss are of the whole run |

"No signals or faults" is `MayInterrupt = FALSE`, `MaxFaults = 0`; the options
shown for `Arping` are records like those of `MCArping`. `NoLostConflict` is a
narrow window and counts only answers that reached the socket before the timeout.
`HopsExact`: with the lookup extended to the last slot the configuration shown has
no counterexample, which places the cause there; but with a fault admitted it is
also violated for another reason, an error whose slot was already released.

Without a property: `BSPACE.md:323` gives bmtr's `-i` a default of 1, `bmtr.c:329`
one of 2.

### Bounds

Arrays and number spaces are scaled, keeping the relation that matters: the
sequence space is 4 or 8 instead of 65536 with a window of half of it, `his` has 4
slots instead of 64, TTLs are modulo 8, a day is 16 ticks, `hops[]`, `samples[]` and
`anchors[]` have room for two. Two to five probes, calls, cycles or packets, two
runs of a tool, one or two faults and a handful of ticks let every counter reach
its limit, every timer expire before, with and after an answer, and every array be
filled, exceeded or reused. The command lines of `MCGeoTool` and `MCHopTool` are
chosen so that every branch of the argument loops is taken, and `-m`, `-c` and
`--anchor` lie below, at and beyond their limits.

### Fairness

The program's own steps are weakly fair: a runnable process is scheduled, and its
blocking calls end (`SO_RCVTIMEO` in the client, one second in `data_wait`, `-W 1`
of bmtr's child ping, the hop limit of its traceroute). Timers are fair because
the kernel delivers them; in `PingEngine` time is strongly fair, as replies may keep
interrupting the wait. Nothing is assumed of the network, the bridge, the user or
the peers: no bridge need answer and nobody need press Ctrl-C. In `Arping` time
stops at `MaxTime`; it lies beyond the timeout and beyond count intervals, so a fair
run has time to end. With `-i 0` no timer is armed and the bound plays no part.

## 4. Proofs

| Module | Theorems | Argument |
|---|---|---|
| `BrightLinkProofs` | `TypeCorrect`, `AnswersPaired`, `SessionsSound`, `PinIsFrozen`, `PinIsContinuous`, `CallsShrink` | `Pairing` is not inductive: a time-out must also find the socket closed. `IInv` adds that at most one exchange is open and that the key checked against the pin is the one in use. `PinIsContinuous` assumes the store can be read. `CallsShrink`: the commands of a call come in one order, none twice. |
| `PinStoreProofs` | `TypeCorrect`, `LiveFileWhole`, `StoreRefinesRegister` | What a run has written follows from where it stands, and a run saves only if it found no pin. The last two assume one run at a time; with two, `pin_two_runs` refutes them. |
| `PingEngineProofs` | `TypeCorrect`, `RateLimited`, `CountRespected`, `ExitIsArmed`, `InFlightIsExact`, `AccountingExact` | `RateInv` relates tokens to time since the last send; `WindowInv` and `CountInv` relate 16-bit values to unbounded ones, from lemmas on residues. `ExitIsArmed` assumes a positive interval and linger, the last two that replies are less than a sequence space late. All hold for IPv4 and IPv6 error handling. |
| `GeoToolProofs` | `ToolTypeCorrect`, `TagsTell`, `PositionsTrusted`, `FirstSourceUsed`, `VerdictsHonest`, `RunsShrink`, `ToolsUseClient`, `ClientSound` | `GeoInv` ties where main stands to what the client may be doing, follows source, tag and reason of the position through glue, geoIP and annotation, and keeps the client's pin, while it is asked, equal to the one the run read. `FirstSourceUsed` and `VerdictsHonest` relate the outcome to the whole argument list: `LineInv` says what position and anchors are after the first `At` arguments, and one more argument keeps it, whatever the list. `FirstSourceUsed` excludes two kinds of command line (`OneSource`): `--my-ecef` together with `--my-coord`, where `geo_both` refutes the property, and a zero vector that no later `--my-ecef` replaces, which sets `have_my_ecef` without giving a position, so that bping prints a chord from it. `VerdictsHonest` counts anchors with the cardinality of the set of their places. `RunsShrink` puts `CallsShrink` into the run that makes the call. `ToolsUseClient` shows that a tool takes only steps of the client's own specification, or replaces a process that SIGPIPE ended, and `ClientSound` that the client's invariants survive both. |
| `HopToolProofs` | `TypeCorrect`, `StaysInTable`, `TableIsRoute`, `CyclesCompare`, `StatisticsExact`, `RowsTellTruth`, `LoopsWindDown` | The table is what traceroute printed, cut at its size; within a cycle, hops before the current one have one probe more than those behind it. For the statistics, one more sample keeps the bounds on sum and sum of squares (`SumBelow`, `SumAbove`, `SpreadGrows`) and writes the one ring slot whose sample is no longer among the latest (`OtherPlace`, `WindowNext`). For the rows, `ScreenInv` says that, once a cycle is complete, what is drawn has exactly the rows of the table. For `LoopsWindDown`, see below. |
| `ArpingProofs` | `TypeCorrect`, `CountKept`, `FirstAnswerEnds`, `NoBroadcastAfterAnswer`, `LoopNeverSpins` | `sent <= total_expires`, and the loop ends when that reaches the count; after an answer either the loop is leaving or probes are unicast. `LoopNeverSpins` needs that a signal or an expiration `poll()` reported is still unread when its turn comes. |
| `ClockdiffProofs` | `TypeCorrect`, `EstimatesAccurate`, `GivesUpWhenSilent`, `MeasureNeverSpins` | Each minimum is the offset, seen from its side, plus a delay that is not negative, and the two add up to no more than the best round trip. The lemmas `NearestIs` and `NearestBack` show that midnight does not matter if offset and round trip fit in half a day. `MeasureNeverSpins` needs that the net is finite and that an answer to a message of the same instant cannot have crossed midnight. |
| `TracepathProofs` | `TypeCorrect`, `ErrorsAttributed`, `PathMtuFound`, `MtuNeverGrows`, `TraceWindsDown` | A slot whose probe is under way or on the error queue still holds that probe's TTL: it lies less than a whole turn of the ring behind. `ErrorsAttributed` assumes `MaxAge + MaxFaults < Slots`, i.e. no answer is as many probes late as the ring has slots; the code has 64. For the MTU, on a path that keeps the order of answers (`PathInv`): later probes are no larger than earlier ones and no smaller than what those will bring, so what is queued and what is still to come never raises the MTU; and a probe that reached the target fitted every link. No assumption on `Slots` or `MaxAge` is needed. `TraceWindsDown` builds on the same invariant. |

They hold for all values of the constants that the modules' assumptions admit. The
`TypeOK` of every module but `GeoTool` has a proof and no run.

### What is left to do

Liveness is out of the prover's reach, but what it rests on is not. Six theorems
say that the steps of a loop make a measure less:

| Theorem | Measure | Steps that make it less |
|---|---|---|
| `LoopsWindDown` | stop flag, phase of main, rounds left, turns left in the round | every step of btraceroute, of bmtr with `-c`, of bmtr after SIGINT |
| `TraceWindsDown` | hops left, old and new MTU, tries left at the hop, errors under way or queued, sends left | every step, the network's included, if answers come in order and the TTL cannot wrap (`MaxHops < TtlMod - 1`, or IPv4, where a TTL of 0 is refused) |
| `LoopNeverSpins` | `exit_loop`, signal, expiration, queue, socket error, place in the pass | every step of `event_loop()`; only timers, packets, errors and signals give it more to do |
| `MeasureNeverSpins` | failures and duplicates to come, messages under way when the clock ticked last, answers waited for, messages until the next answer, place in the loop | every step of `measure()`; only the clock gives it more to do |
| `CallsShrink` | steps left of the call, at most 8 | every step of the call; only the next call makes it greater |
| `RunsShrink` | steps left of the run, at most the number of arguments and 15 | every step of the tool and its client; only the next start makes it greater |

The first four measures are tuples, compared by `LexLess`; the last two are
numbers. That neither order has an infinite descent is not a theorem here (it is
induction), but is well known. `TraceWindsDown` needs room
for the TTL: without it an IPv6 trace may go on for ever (section 3). For a path that
reorders answers only TLC shows that the trace ends. These theorems say
that a loop cannot run on, not that it is not stuck: that the next step is always
possible and is taken is what the runs check as `Ends`, `Terminates` and `RunEnds`
under the fairness above.

Only model-checked:

- all liveness (fairness and ENABLED are out of the prover's reach), and for ping
  also what it rests on: `main_loop` goes round once more for every packet that is
  not its own, so no measure of ping's state falls until time has passed.

Every invariant and every action property a passing run checks has a theorem,
`FirstSourceWins` under `OneSource`. `StatsExact` bounds bmtr's sum
and sum of squares and does not say that they are the sums of the answers: that is
a recursive function of the list, and needs induction over data.

## 5. Not modelled

- Option parsing of ping, arping, tracepath and clockdiff, name resolution,
  formatting, colours and JSON: sequential, no state that outlives a call.
- Packet layout and checksums; node information queries and MD5.
- Cryptography, of which the models use only who holds which key; the memory pin
  store, a test double; the test bridge.
- Floating-point geometry (chords, bounds, standard deviation) and the geoIP lookup
  itself, of which the models keep that it succeeds or fails.
- ping's adaptive interval (`-A`), which is smoothed floating-point arithmetic, and
  IPv4 record-route and time-stamp options.
- poll() and timerfd reads that fail on a ready descriptor.
- bclockdiff, whose own code is options and output around `measure`.

What remains open within the parts modelled is a common abstract specification of a
probing tool (at most count probes, each answered at most once) that `PingEngine`
and `Arping` both refine.
