# A TLA+ model of NetSense

NetSense is a deep packet inspection engine in C++: it reads a capture file, classifies each
flow by the names its payloads carry, drops the flows that a rule matches and writes the
packets of the others to a second file. It comes as a multi-threaded program (dpi_mt.cpp) and a
single-threaded one (main_simple.cpp). This directory holds TLA+ specifications of both, from
the bytes of the input file to those of the output file, the TLC configurations that check them
on small instances, and proofs that TLAPS checks for every instance. File and line numbers
refer to the repository.

Contents: [the system](#1-the-system), [modules](#2-modules), [runs](#3-what-is-checked),
[fairness](#4-fairness), [proofs](#5-what-is-proved), [findings](#6-where-code-and-documentation-disagree),
[what is left out](#7-what-is-not-modelled), [plan](#8-plan).

## 1. The system

```
main thread            LB threads             FP threads                 output thread
 reader loop  --push-->  run()     --push-->   run(), processPacket  --push-->  write
 (PcapReader,            hash%FPs              flow table, rules      (output callback)
  PacketParser)          |                     |
      hash%LBs           input_queue_          input_queue_            output_queue
```

Every arrow is a `ThreadSafeQueue`. A push into a full queue blocks, so pressure moves back to
the reader. At the end of the file the main thread drains and stops the stages from front to
back, joins every thread and prints the report.

| Component | State it keeps | Operations | How it interacts |
|---|---|---|---|
| `ThreadSafeQueue` (include/thread_safe_queue.h) | `queue_`, `shutdown_`, one mutex, two condition variables | `push`, `tryPush`, `pop`, `popWithTimeout`, `shutdown` | shared by the threads of two stages |
| Load balancers (load_balancer.cpp) | input queue, `running_`, `packets_received_`, `packets_dispatched_` | `run`, `selectFP`, `stop`, `getLBForPacket` | pop from their queue, push to an FP queue |
| Fast path threads (fast_path.cpp) | input queue, `running_`, flow table, counters | `run`, `processPacket`, `checkRules`, `updateTCPState`, `stop` | own their table, share the rules, call the output callback |
| Connection tracker (connection_tracker.cpp) | `connections_`, three counters | `getOrCreateConnection`, `classifyConnection`, `blockConnection`, `updateConnection`, `cleanupStale`, `evictOldest` | called by one FP thread only |
| Rule manager (rule_manager.cpp) | four sets of rules and a vector of patterns, each category behind a `shared_mutex`; a rules file | `block*`, `unblock*`, `shouldBlock`, `saveRules`, `loadRules`, `clearAll` | changed by the main thread, read by every FP thread |
| Main and output thread (dpi_mt.cpp) | position in the file, `output_queue`, `output_running`, atomic totals | reader loop, `waitForQueueDrain`, ordered shutdown, report | starts, stops and joins everybody |
| Shared types, classifier (types.h, types.cpp) | `Connection` | `sniToAppType`, `FiveTuple::reverse` | pure |
| Packet parser (packet_parser.cpp, platform.h) | an offset into the frame, the reused `ParsedPacket` | `parse` | called by the reader loop of either engine |
| Name extractors (sni_extractor.cpp) | an offset into the payload | `SNIExtractor::extract`, `HTTPHostExtractor::extract`, `DNSExtractor::extractQuery` | called by FPs and by the loop of main_simple.cpp |
| Capture reader (pcap_reader.cpp) | file position, byte order, global header | `open`, `readNextPacket`, `close` | called by the main thread |
| Single-threaded engine (main_simple.cpp) | its own flow map, rules and counters | one loop | shares parser, extractors and `sniToAppType()` with the other |

**What is hard, and what makes each component correct.**

* *Queue.* `notify_one` may wake a thread that is not the one that gets the item, `shutdown`
  notifies without the mutex, and a deadline races a push. Correct means: no sleeper is left
  behind beside an item or a free slot, nobody sleeps through a shutdown, and callers see a
  FIFO that leaves an item out only when it is full or closed.
* *Pipeline.* Four kinds of threads, bounded queues, joins, drains that give up after two
  seconds. Correct means: the packets of a flow stay in order, no packet vanishes on the way or
  is written twice, no stage pushes into a closed queue, the run ends, and the report adds up.
* *Flow table and fast path.* One `state` field is written by the TCP tracking, the
  classification and the rules, while eviction and cleanup forget entries. Correct means: a
  decision is not taken back by a later flag or payload, the packet that shows a blocked name is
  itself dropped, addresses and ports stay blocked whatever the table forgets, and each
  counter counts exactly what happened to the entries.
* *Rules.* Four locks are taken one after the other by readers and writers alike, and rules go
  through a text file that a process may leave unfinished. Correct means: every answer is
  explained by rules that were there, and what was saved comes back.
* *Frames.* Lengths in the headers, three deep in a Client Hello, move offsets that later reads
  trust, and the start of the payload is computed in three places. Correct means: no read leaves
  the frame, the three places agree, a name is found whole or not at all, and every loop ends.
* *Files.* A capture may come from a host of the other byte order, end anywhere or be damaged.
  Correct means: the whole records in front of the damage are inspected and nothing else, and
  the output is a capture again.
* *Two engines.* They decide about the same flows with logic of their own. Correct means: the
  same verdict for the same packets and options, but for differences one can name.

The full list of hazards, each with its line and the properties that would catch it, is in
`PROJECT.json`.

## 2. Modules

Names are those of the source. Each action is one critical section or one step of a thread
between two points at which others can interfere.

**`ThreadSafeQueue`** models the queue at the grain of its critical sections. `ppc` and `cpc`
say of each thread whether it is outside the queue, asleep on a condition variable (`"wait"`),
awake but still after the mutex (`"wake"`) or past its deadline (`"expired"`). `PushBody` and
`PopBody` are the bodies of the calls from the evaluation of the predicate on and are used both
for a fresh call and for a return from a wait. `NotifyOne` picks any sleeper. `Shutdown`,
`NotifyAllEmpty` and `NotifyAllFull` are the three parts of `shutdown()`, of which only the
first holds the mutex. Spurious wakeups and timeouts can occur at any time. **`BoundedFifo`**
is what callers may rely on: one step per call, no mutex, no sleepers.

**`Pipeline`** composes the reader, the LBs, the FPs, the output thread and the shutdown of
`main()`. A queue operation is one step there, which `ImplementsBoundedFifo` justifies, and a
push waits for room or for a shutdown. `mpc`/`mi` are the main thread's position and loop
index, `lpc`, `fpc` and `opc` those of the workers. A packet is its position in the capture, so
its flow is `capture[p]`. `FPDrop` and `FPForward` leave the decision open.
**`PacketFilter`** is the abstract engine: it reads, decides each flow's packets in order, and
writes what it forwarded, per flow in order.

**`ConnectionTracker`** gives the methods of the flow table as operators on a table (a function
from tuples to `Connection` records). **`FastPath`** is one FP thread over such a table:
`DropBlocked` is the fast exit, `Examine` is the rest of `processPacket()` (look up or create
with eviction, `updateConnection`, TCP state, inspection, rules), `Account` the counters and
the periodic cleanup of `run()`, `IdleCleanup` the cleanup after an idle 100 ms. What the
extractors find in a payload comes with the packet: a name, which on port 80 may be the empty
one (`Host: :80`, sni_extractor.cpp:338-344), nothing recognisable (`"opaque"`), too little
for a request (`"short"`) or no payload. **`FlowHistory`** adds what an observer of the wire
remembers and the table does not, to state what the documentation says of flows and not of
entries. **`FlowStatistics`** adds a tally of the entries, kept from what is seen of them and
not from where the code counts: which entries were classified since they were made or closed
(`known`), how often that came about, and how many entries were forgotten, blocked or not. The
instance of `TwoEngines` keeps the tally beside both engines.

**`AppTypes`** has the applications and the names they are printed, saved and loaded by, used
by the instances of `RuleManager` and by **`Classifier`**: `sniToAppType()` as the ordered list
`Services` of applications with their keys, with the keys and the order of types.cpp, tried on
the lower-case form of a name; `Hits` are the services a name shows a key of, and the first one
answers. **`Classification`** puts `FastPath` and `Classifier` together
(`AppOf` of the fast path is `SniToAppType` there) and states what an entry's application says
of the name beside it.

**`RuleManager`** models the four categories and their locks. `Check` is one category of
`shouldBlock()` under its lock, so that rules can change between two checks. `ClearIPs` to
`ClearPorts` and `SaveOpen` to `SavePorts` are the critical sections of `clearAll()` and
`saveRules()`; `loadRules()` applies one line per step, each of which is a `block...()` call of
its own; it passes over an empty line and takes a line that begins with a bracket for the
header of a section (`LoadDomain`). `Restart` ends the process at any moment. Inside
`saveRules()` it leaves one of `TornFiles` behind: the text goes through a buffer that may have
been written out anywhere, so of the section in hand some lines are there and the last of them
may be cut, into another rule perhaps (`Cut...`: the pattern `*.t` into the exact name `*`, a
port into a shorter number). The conversions are modelled by what they
do: octets for addresses, `AppName` (`AppTypeToString` in the instance) for applications, lower
case for names. The variables `always` and `ever` record for each call which categories had a
rule throughout it and at some moment of it; `saved` records the rules of the last complete
save, and no later save takes them away, `whole` whether the file is the one of that save, and
`clean` whether anything but `loadRules()` touched the rules.

**`FrameBuffer`** is a frame, as a sequence of octets, and the offset of the code that walks
over it; `touched` remembers how far it has read. **`PacketParser`** has one action per header
of `parse()`, **`NameExtractors`** the TLS, HTTP and DNS extractors, one action per length field
or turn of a loop: the same `offset`, the same comparisons, the same exits. **`Inspection`**
takes a frame through both: `Begin` is the reset of the reused `ParsedPacket`,
`JobPayloadOffset` and `calculatePayloadOffset` are the two engines' computations of the
payload, `FastPathTries` and `SimpleTries` their choices of extractors. `engine` says whose
code runs. **`RequestFormats`** says what a well-formed request is apart from the code that reads
it: the octets of a frame beside the places of its parts (each extension up to the server name,
the Host field and its value, each label) and the name it was sent for, as the RFCs have them.
Where a standard leaves more open than the extractors take, it says so with a condition: nothing
that reads as `host:` stands before the Host field, no blank follows its value within the line,
and `Inspection` asks for one of the methods of sni_extractor.cpp:280. **`Messages`** puts such
frames together for TLC, as generate_test_pcap.py does.

**`CaptureFile`** is `PcapReader` over a file of octets. A header field is kept as its octets in
the memory of a little-endian host, so that `maybeSwap` reverses it and writing it to a file
concatenates it. **`CaptureCopy`** composes reader, `Inspection` and the writing of what is
forwarded: at once in main_simple.cpp, by the output thread from jobs in any order in
dpi_mt.cpp. Whether a frame is forwarded is free there. A capture is given with what was captured
in it and where its records start (`capture`, `starts`); `read`, `written` and `placed` record
which records were read and written, and where these start in the output, for the properties.

**`SimpleEngine`** is the loop of main_simple.cpp over its flow map, rules and counters, for
packets given as to `FastPath`. **`TwoEngines`** gives the same packets and the same `Options`
(the arguments of the command line) to `SimpleEngine` and to one `FastPath` thread. `apart`
collects the flows that met something the two are known to treat differently.

**`Counting`** is the sum of a family of counters, `Total`, which the two reports are stated
with: the number of units counted, so that a step that adds one adds one element.

`MC...` modules hold the constants of the TLC instances (`MCTraffic` the packets and rules of
the fast path), `...Proofs` modules the theorems. Definitions marked *Fault* are variants with
a plausible mistake; they are used only to show that each property can fail.

## 3. What is checked

Every property of a passing run was also seen to fail when the definition `PROJECT.json` names
beside it is replaced by its faulty variant.

| Run | Instance | What it shows |
|---|---|---|
| `QueueSafety` | 2 producers, 2 consumers, 1 closer (any number of shutdowns), 2 items, 2 slots | `TypeOK`, `NoLostWakeup`, `ShutdownReachesWaiters`, `ImplementsBoundedFifo` |
| `QueueLiveness` | 2 producers, 2 consumers, 1 closer, 2 slots | `ShutdownReleasesEveryone`, `TimedPopReturns`, `BlockedPushReturns` |
| `PipelineTwoLBs` | 2 LBs with 1 FP each, queues of 1, captures of up to 3 frames | `TypeOK`, `Conservation`, `NoPushIntoShutQueue`, `LossOnlyByTimeout`, `ReportConsistent` |
| `PipelineOrder` | 1 LB with 2 FPs, the same captures and one of 6 packets of one flow | `ImplementsPacketFilter`, `Termination` |
| `TwoEngines` | 5 flows, a table of 2, 4 packets, 1 tick, 3 sets of options | of the fast path `TypeOK`, `MatchingEntriesBlocked`, `ForwardedIsAllowed`, `AppFitsName`, `CountersAgree`, `BlockedIsFinal`, `LifecycleForward`; of both engines `EnginesAgree`; of the single-threaded one `ReportAddsUp` |
| `CaptureCopy` | some 2400 files of up to 3 records, both engines | `InBounds`, `OffsetsAgree`, `WellFormedIsFound`, `CutHelloHasNoName`, `LabelsAreWhole`, `ReadsWhatWasCaptured`, `NativeOutputIsCapture`, `InspectsFrames`, `EveryStepAdvances`, `CopyEnds` |
| `Rules` | 1 reader and one rule of each category, or none and rules of every kind; at most 2 in force, files cut anywhere | `TypeOK`, `VerdictExplained`, `RestoredAsSaved` |
| `PipelineIdleFP`, `FlowOnceBlocked`, `FlowLongestKey`, `FlowHandshake`, `SwappedCopy` | see section 6 | one statement of the documentation each, which the code contradicts |

**Why these bounds are enough to be interesting.**

* *Queue.* A lost wakeup needs two sleepers on one side and a thread that overtakes the woken
  one; two threads on each side and two slots give all of it. In `QueueLiveness` the items are
  alike, which is all that matters for who waits; two producers are the FP threads at the
  output queue, and each side has a thread to steal what a woken one came for.
* *Pipeline.* With queues of one slot every push can block. Two LBs exercise the loops of the
  shutdown and two chains that end at different times; one LB with two FPs makes two threads
  compete for the output slot. The captures have two flows interleaved, bursts of one flow, a
  frame the reader skips between two packets of a flow, and no frame at all. Six packets of one
  flow are what its chain can hold (three queues, and the hands of LB, FP and reader), so that
  the pressure reaches the reader.
  In the code the queues have 10000 and 50000 slots (load_balancer.cpp:38, fast_path.cpp:26,
  dpi_mt.cpp:354); the model's `LBCap`, `FPCap` and `OutCap` are those bounds.
* *Flows and the two engines.* A table of two entries (`MaxConnections`) against five flows makes
  every second creation evict. `CleanupInterval` = 3 and `IdleLimit` = 0 stand for 10000 packets
  and 300 s (fast_path.h:144, fast_path.cpp:95); `MaxPackets` and `MaxTime` bound the run so that
  a flow can be seen, classified, blocked, forgotten and seen again. One HTTPS flow carries every
  combination of handshake, payload and closing flags; of the two names it shows one has keys of
  YouTube and of Google and capitals, the other has no key. The HTTP flow has a Host header with
  a name, an empty one, or none; DNS comes over UDP and TCP, and a Client Hello over UDP. The
  options are an application; an address, a port, a name that either engine matches and one that
  is only a substring; and an application that does not exist. To
  keep the run short each comes with a part of the packets (`Coming`), and every packet with
  some: the SYN-ACK and the FIN are left out with the application, the HTTP flow, the payload too
  short for a request and the empty datagram with the addresses, and with the application that
  does not exist there are DNS over UDP and the HTTPS flow, the latter without payloads that show
  no name.
* *Frames and files.* Seven requests (a name first or last among the extensions, a session,
  IP and TCP options, headers, a port or blanks beside the host, queries and replies) are given
  whole, cut after every byte, and with each byte that steers the code set to 0, 1, 64 and 255.
  Files of two records are cut after every byte, in both byte orders, or have a length that is
  too large or no magic number. One wrong byte at a time reaches every exit of the code; the
  theorems of section 5 cover any bytes at all.
* *Rules.* The instance is two in one (`asking`). In the first a thread asks while one rule of
  each category comes and goes, all of which match the query, the name only in lower case; two
  rules in force leave the one that matched first for the other to take over, and single rules
  are saved meanwhile. In the second nobody asks, and there are addresses, applications and names
  that become another rule when their line is cut, two patterns, an empty domain and one that
  begins with a bracket. `MaxRules` = 2 allows a pattern to be blocked twice or a file of one rule
  to be loaded twice. What a single line is cut into does not depend on how many others stand
  before it.

**Deadlock** is checked in every run but `CaptureCopy` and `SwappedCopy`, whose program ends
with its file (`CopyEnds` says that it ends nowhere else). `Pipeline` has the step `Finished`
for a `main()` that returned; in `TwoEngines` and the `Flow...` runs the idle cleanup is always possible, in the others a new
call.

**What the less obvious properties mean.**

* `NoLostWakeup`: while a consumer sleeps there are at least as many awake consumers as items,
  and while a producer sleeps there are at least as many awake producers as free slots.
* `Conservation`: from the moment it is read every TCP or UDP frame is in exactly one place: in
  the reader's hand, a queue, a worker's hand, dropped, or in the output file, also while stages
  are being stopped and after a drain gave up.
* `LossOnlyByTimeout`: the drains look only at queues, not at the packet a worker has in its
  hand; that this is enough depends on `stop()` joining the worker. Only a drain that gives up
  loses packets.
* `ReportConsistent`: the printed totals agree with the output file and with the counters of
  the threads, and differ from what was dispatched by exactly what was left in the FP queues.
* `ImplementsPacketFilter`: flows stay in order through three stages of threads, because LB and
  FP are functions of the flow.
* `AppFitsName`: an entry's application and name are written by different branches of
  `inspectPayload()`, and a name may show keys of several services; the application is always
  one the name beside it shows, and never the owner (Google, Facebook) of another one it shows.
  A name without a key means HTTPS on port 443; on port 80 the code says HTTPS too, against its
  documentation (section 6), so the property says nothing there.
* `CountersAgree`: entries come and go by eviction, cleanup, closing and re-creation, and each
  counter is bumped in a place of its own. `totalSeen` is what is in the table and what was
  forgotten, `blocked` what is BLOCKED there and what was when it was forgotten, and
  `classified` counts an entry once, and once more each time it was closed and is classified
  again. The last clause is what the code does and more than its documentation says (section 6).
* `BlockedIsFinal`: an entry that is BLOCKED stays as it is, FIN and RST included, as
  types.h:189 has it. Two other places say that FIN and RST close it (section 6).
* `ImplementsBoundedFifo`: callers see a FIFO. A closed queue still hands out what it holds, by
  either kind of pop, which the output thread relies on (dpi_mt.cpp:400, :510); the comment on `shutdown()` says
  otherwise of one kind (section 6).
* `VerdictExplained`: `shouldBlock()` is not atomic, and an answer may match no single state of
  the rules. What holds is that it forwards only if no category had a rule throughout the call,
  and blocks for a category that had one at some moment, with no category of higher priority
  having one throughout.
* `RestoredAsSaved`: when a load is done and nothing but loads changed the rules since the
  start, the rules are those of the last complete save, wherever the process ended before,
  provided that no later save was begun and not finished. That proviso is a defect of the code
  (section 6). The text does not give back an empty domain, nor what shares a
  section with a domain that begins with a bracket; `Restored` says what is left then.
* `BlockedPushReturns`: a condition variable promises no order, so a producer can be overtaken
  again and again at a full queue. What holds is that one that stays in `push` has others that
  push for ever in front of it; the reader and each LB are the only producer of their queues.
* `InBounds`: no byte behind the end of a frame is read, whatever its lengths say. The parser
  checks a header length before it follows it, the extractors each length field and turn.
* `OffsetsAgree`: `parse()`, `buildPacketJob()` and `calculatePayloadOffset()` each follow the
  header lengths; where one forgot options, the extractors would look beside the payload.
* `WellFormedIsFound`, `CutHelloHasNoName`, `LabelsAreWhole`: the name of a well-formed request
  is found, the one that was sent and no other, and a frame that is one is never skipped;
  of a segment to port 443 that is shorter than the TLS record it begins with no name is
  returned, a part of which no rule would match; of a DNS question labels may be returned of
  which the last are missing, but each lies whole in the payload, from the first on. The last two
  are said of the octets of the frame alone, so they speak of any frame.
* `EveryStepAdvances`: `StepsLeft` bounds the steps the inspection of a frame still takes, 2n + 21
  for n bytes, and each step makes it smaller. A loop whose length field is zero, or two stages that
  hand an offset to each other, would break it; `CopyEnds` adds that the steps are taken.
* `ReadsWhatWasCaptured`, `NativeOutputIsCapture`, `CopyEnds`: the reader hands out the whole
  records in front of a cut or a bad length, with the lengths and times of the capture in either
  byte order, and no others; what is written is a capture of the forwarded records; nothing in
  the file makes the copy run for ever. dpi_mt.cpp:415 writes the captured size as the size on
  the wire, since a job does not carry it, and the property says so.
* `InspectsFrames`: `CaptureCopy` implements `Inspection` over single frames, so what is proved
  there of any frames holds of those in a file.
* `ReportAddsUp`: the breakdown of main_simple.cpp counts each decided packet for one
  application although a flow's application changes on the way.
* `EnginesAgree`: on a flow that met none of what follows, the two engines come to the same
  verdict, and to the same application and name if it is allowed. `Distinguishes` lists what the
  engines treat differently, and without any one line of it the property fails:
  `--block-port` exists in dpi_mt.cpp only; a domain is a substring for one engine and a pattern
  for the other (and an empty one, which no instance has, see section 5); dpi_mt.cpp:342 blocks
  `UNKNOWN` for an application it does not know, which concerns the flows that are still unknown
  after a packet and no other; the fast
  path asks for ports but not for the transport (a Client Hello over UDP, DNS over TCP); it
  settles a flow by its port when the payload is too short for a request, as the other does for
  an empty datagram; a DNS message without a name settles the flow in the fast path only; a
  closed entry is classified again; and only the fast path forgets flows.

## 4. Fairness

`FairSpec` of `Pipeline` has weak fairness for each thread: the operating system runs a thread
that can go on. A thread that waits in `push` can go on only when there is room, and nothing is
assumed about the order in which waiting threads are served. `DrainTimeout` has no fairness, so
`Termination` does not rest on a drain giving up. The queue's `Fairness` has weak fairness for
threads that are awake and for the steps of `shutdown()`, and strong fairness for `Timeout`:
the deadline of `wait_for` is a point in time and is not put back by wakeups that find nothing
(thread_safe_queue.h:172 uses the form with a predicate, which computes the deadline once).
`WorkerSpec` adds that the worker loops call `popWithTimeout` again (load_balancer.cpp:123,
fast_path.cpp:84). `CopySpec` has weak fairness for the reading thread and for the writing one:
neither waits for anything but its input. The safety runs use no fairness.

## 5. What is proved

The theorems hold for every value of the constants that satisfies the named assumptions of the
modules: any number of threads (finite for the counting arguments about wakeups), queues with
at least one slot, at least one LB and FP, any hash, captures, packets, rules and table size, any
frames of any octets, any capture files. Some assumptions say what the code does before or
beside the modelled part, or what a definition may be given; TLC evaluates all of them.

* `TransportAssumption` (`TwoEngines`): packets are TCP or UDP, as both main loops pass over any
  other (dpi_mt.cpp:455, main_simple.cpp:423).
* `ClassifierAssumption` (`Classification`): `NoHost` is the empty string, and the `AppOf` of
  the fast path is `SniToAppType`. `FastPathAssumption` adds that a name that was found is empty
  only on port 80: only the Host header can be (sni_extractor.cpp:338-344), as a server name or a
  question without a byte counts as none (:180, :418).
* `CapturesAssumption` (`CaptureCopy`): what it is for a file to hold records: a header and the
  whole records one behind the other, in one byte order, and behind the last of them no further
  one, or a file without a header and no record. It asks nothing of what follows the last whole
  record, so it has files that are cut or damaged anywhere.
* `RequestsAssumption` (`Inspection`): `Requests` are well-formed as `RequestFormats` has it;
  they have any number of extensions and labels, headers of any length, and any options. It is
  about what `WellFormedIsFound` speaks of and not about `Frames`, which are any octets.
* `AppNameAssumption`, `IPsAssumption` (`RuleManager`): applications have names of their own,
  as appTypeToString() gives them, and an address has 32 bits. `CutsAssumption`: the sets of
  rules hold what a cut line of theirs reads as, since a call could make these rules too. Names
  are single lines, and no domain is spelled like one of the four headers of the file.

| Module | Theorem | Property | The argument |
|---|---|---|---|
| `ThreadSafeQueueProofs` | `TypeCorrect` | `TypeOK` | inductive as it stands |
| | `WakeupsSuffice` | `NoLostWakeup` | inductive with the types: each step moves the number of items and the number of awake threads together; rests on lemmas on the cardinality of `Awake` under `NotifyOne` |
| | `ShutdownFindsEveryone` | `ShutdownReachesWaiters` | inductive: nobody starts to sleep once the flag is up |
| | `QueueImplementsFifo` | `ImplementsBoundedFifo` | each action maps to one abstract call or a stutter; with the types a push refused by an open queue found `MaxSize` items |
| `PipelineProofs` | `TypeCorrect` | `TypeOK` | one lemma per thread and group of variables |
| | `NoPushIsRefused` | `NoPushIntoShutQueue` | strengthened by `StopOrder`: which stages have ended at each step of the shutdown, needed because the guard of a join speaks of one thread and the property of all |
| | `NoPacketIsLost` | `Conservation` | `PacketInv`, see below |
| | `EngineImplementsFilter` | `ImplementsPacketFilter` | refinement: `PacketInv` gives the guard of the abstract step, that no earlier packet of the flow is undecided or unwritten |
| | `OnlyTimeoutsLose` | `LossOnlyByTimeout` | strengthened by `DrainOrder`: what is empty, and who has ended, at each step of the shutdown unless a drain gave up |
| | `ReportAgrees` | `ReportConsistent` | strengthened by `Tallied`: each counter counts the packets that have come past it, so that what the LBs dispatched is what is behind them |
| `FastPathProofs` | `TypeCorrect` | `TypeOK` | strengthened by the table being finite, which the bound on its size needs |
| | `RulesAreApplied` | `MatchingEntriesBlocked` | the rules see the entry as inspection left it, and every other step keeps or removes entries |
| | `BlockedForGood` | `BlockedIsFinal` | action property: the fast exit leaves the table alone |
| | `LifecycleIsForward` | `LifecycleForward` | action property, from the lemma on what one packet does to one entry |
| | `AddressRulesHold` | `ForwardedIsAllowed` | addresses and ports are part of the tuple, so the argument does not depend on the table |
| | `StatisticsAgree` | `CountersAgree` | strengthened by `StatisticsInv`: every entry that is CLASSIFIED is in `known`, and none that is NEW, ESTABLISHED or CLOSED (`KnownEntries`), so that the state the code asks for tells what the tally knows; then one lemma each on what a packet, an eviction and a cleanup add to either side |
| | `NamesFit` | `AppFitsName` | strengthened by `NamesClassified`: the application is the one `SniToAppType` gives for the name, whatever step wrote it; then a lemma on the ordered list of services |
| `TwoEnginesProofs` | `BreakdownAddsUp` | `ReportAddsUp` | strengthened by `SimpleInv`; each packet that is decided adds one to one application of the breakdown |
| | `EnginesDoAgree` | `EnginesAgree` | strengthened by `Shared` and `FlowsAlike`, see below |
| `RuleManagerProofs` | `TypeCorrect` | `TypeOK` | strengthened by the type of the file, cut ones included, and of the lines still to load; rests on `IPRoundTrip`: `parseIP` undoes `ipToString` |
| | `AnswersAreExplained` | `VerdictExplained` | strengthened by `CallOK`: what a call in progress has gone past had no rule throughout, what had a rule throughout still has one |
| | `SavedComesBack` | `RestoredAsSaved` | strengthened by `SaveInv`: a file written so far says what is in force, a `whole` one is the text of `saved`, and during a load what was saved is in force or among the lines left, but for what the text does not give back |
| `InspectionProofs` | `ReadsStayInside` | `InBounds` | strengthened by `Headers`, what the parser has behind it at each step, and `Payload`: what is handed to an extractor ends with the frame, and the extensions within it. The walk of a Client Hello is relative to the payload, so a bound on `offset` alone is not kept |
| | `PayloadsAgree` | `OffsetsAgree` | from `Headers`: where the parser stops is where the header lengths lead |
| | `CutHellosAreSilent` | `CutHelloHasNoName` | strengthened by `HelloOnly`: the octets of such a frame choose the TLS extractor and no other, and `isTLSClientHello()` refuses it; what the parser chose is kept as `Protocols` |
| | `LabelsStayWhole` | `LabelsAreWhole` | strengthened by `QuestionOnly`: while labels are read, those in `name` lie whole in the payload and `offset` stands behind the last; a label that is added begins where the dot of the name stands, so the set of beginnings grows by the length of the name |
| | `RequestsAreFound` | `WellFormedIsFound` | strengthened by `WalkInv`, see below |
| | `InspectionAdvances` | `EveryStepAdvances` | action property, from the invariant of `ReadsStayInside`: every turn of a loop moves `offset` on, the stages between come in one order, and a payload gets at most two extractors |
| `CaptureCopyProofs` | `RecordsAreRead` | `ReadsWhatWasCaptured` | strengthened by `ReaderInv`, see below |
| | `CopyIsInspection` | `InspectsFrames` | refinement: each step on a frame is a step of `Inspection`; `ReaderInv` gives that the frame of `Begin` is one of `Frames`. `CopyReadsStayInside` and `CopyFindsNames` draw the conclusions: no record makes a read leave its frame or keeps the engine busy for ever, and names are found as above |
| | `CopyIsCapture` | `NativeOutputIsCapture` | strengthened by `OutputInv`: the jobs are those of records, each record written lies where `placed` says, and the next one starts where it ends; what lies in the output lies there whatever is appended |

**Where a packet is.** `Conservation` and the order of flows are not inductive: a queue that
held a packet twice, or a later packet of a flow in front of an earlier one, would satisfy both
until the next step. `PacketInv` names the packets at each place (`InLBs`, `LBHands`, `InFPs`,
...) and those that have come at least so far (`Queued`, `Routed`, ..., `Taken`). It says that
these places are apart from each other and hold all that was read (`Everywhere`, `Apart`), that a
thread holds only packets the hash sends to it, in the order of the capture (`LBOwns`, `FPOwns`,
`OutOwns`), and that a packet that has come so far has been overtaken by none of its own FP
(`InOrder`). `FPOf` makes it work: the FP of a packet is a function of its flow.

**Why the engines agree.** The two programs keep different things of a flow, so that the property
needs a relation between the entry of one and the flow of the other, for every flow that is not
`apart`: the entry was not forgotten (`Shared`), and is either `BLOCKED` with a blocked flow or
has its name and application (`FlowsAlike`), with a state that says of the entry what
`classified` says of the flow. A packet then goes through the stages of both side by side:
tracked, inspected, matched. Writing it down found a difference that the instances of TLC do not
contain: an empty pattern given to `--block-domain` is a substring of every name
(main_simple.cpp:121), also of the empty one of a flow without a name, while the fast path asks
only when there is a name. `PatternsDiffer` has it now.

**Where the reader is.** That the records come out right is not inductive: it says nothing of
the position. `ReaderInv` does: between two packets the reader stands where the next record starts
(`AtRecord`), with the byte order of the file, and from there on the octets are those of the
record, each field turned round when the orders differ; turning it round once more gives it back
(`SwapTwice`), and two octets give the length that was written (`LengthFits`). Where no record
starts, the header, the length or the data is missing, so `HasPacket` is false and the loop ends
there and not before.

**Where the walk is.** `WellFormedIsFound` speaks of the end of a walk over lists of any length,
and says nothing of the way. `WalkInv` says for a frame that is a well-formed request where the
engine stands: its headers lead the parser to the request's transport and payload, its port and
protocol choose the extractor of its kind as the first one in either engine, and this one stands
at a place of the request, the field, extension, byte or label that it looks at next. Each turn of
a loop goes from one place to the next, and no other exit of it is open: an extension in front of the
server name has another type, no "host:" precedes the Host field, a label is not empty. At the
last place the octets taken for the name are those that spell it. The name of a DNS question grows
with its labels, so there the invariant also says that it is the beginning of the one sent.

Only model-checked: everything under fairness (`Termination`, `ShutdownReleasesEveryone`,
`TimedPopReturns`, `BlockedPushReturns`, `CopyEnds`), which is outside what the prover does. Every
other property of a passing run is stated by a theorem.

## 6. Where code and documentation disagree

Each of these runs checks one sentence of the repository and finds a behaviour of the code that
contradicts it.

* `PipelineIdleFP`: the README has the load balancers distribute work across FPs. LB and FP are
  remainders of the same hash (load_balancer.cpp:192, :357); with the default of 2 LBs and 2 FPs
  each, every LB uses only one of its FPs.
* `FlowOnceBlocked`: types.h:189 says "once blocked, always blocked", and
  connection_tracker.h:141 has `cleanupStale()` remove connections that were not seen for a
  while. The fast exit for blocked flows returns before `updateConnection()`, so a blocked flow
  that is still sending is removed as idle, and forwarded until a name is seen again.
* `FlowLongestKey`: types.cpp:133 wants specific patterns before general ones. `x.com` and
  `t.co` (:193) are looked for anywhere in a name and before the services below them, so
  `www.netflix.com` and `www.microsoft.com` are taken for Twitter.
* `FlowHandshake`: types.h:156 says ESTABLISHED means a complete handshake. The SYN-ACK travels
  on the reversed tuple and sets its flag on an entry of its own, so no real handshake leads
  to ESTABLISHED.
* `SwappedCopy`: main_simple.cpp:366 and dpi_mt.cpp:318 promise a valid capture as output. Of an
  input of the other byte order `open()` swaps the fields of the global header but not the
  magic number (pcap_reader.cpp:96), and both engines write that header in front of records in
  their own order: a reader of the output swaps what is right already, and stops at the first
  record. `NativeOutputIsCapture` shows that the output for any other input is
  in order.

Statements that the models contradict as well, without a run of their own:

* thread_safe_queue.h:193 says that after `shutdown()` "popWithTimeout() returns nullopt
  immediately", in contrast to `pop()` (:192), and :157 that it returns nullopt "on timeout or
  shutdown". It does so only when the queue is empty (:176), and the output thread relies on
  that: it writes what its queue still holds (dpi_mt.cpp:400, :510). `BoundedFifo` has a closed
  queue deliver what it holds.
* types.h:114 says HTTP is "plain HTTP (port 80, detected via Host: header)", :115 and
  types.cpp:285 that HTTPS is encrypted traffic. `sniToAppType()` answers HTTPS for any name it
  does not know (types.cpp:286), so an HTTP flow to an unknown host becomes HTTPS, and
  fast_path.cpp:299 tests the answer against HTTP, which it never is. `AppFitsName` is about
  port 443.
* connection_tracker.cpp:192 says "Only classify once", :179 "Called once", and
  connection_tracker.h:117 "No-op if connection is already classified (first result wins)". FIN
  or RST makes a classified entry CLOSED, and `classifyConnection()` (:193) takes a closed one
  again: its name is overwritten, and `classified_count_`, which connection_tracker.h:169
  says counts connections, may exceed `total_seen_`. `CountersAgree` counts it that way.
* fast_path.cpp:373 says "any state + RST → CLOSED immediately", connection_tracker.h:133 marks
  CLOSED on FIN and RST, and the diagram at connection_tracker.h:17-29 leads from BLOCKED to
  CLOSED on either. The fast exit (fast_path.cpp:152) returns before the flags are looked at, so
  a blocked entry stays BLOCKED (`BlockedIsFinal`), as types.h:189 has it: "once blocked, always
  blocked".
* rule_manager.h:32-33 saves rules "so rules survive engine restarts". `saveRules()` empties the
  file before it writes (rule_manager.cpp:389), so a process that ends inside it has lost the
  rules of the complete save before, and may leave a line that reads as another rule.
  `RestoredAsSaved` excepts exactly that.
Other observations:

* An application name on the command line that is not known is blocked as `UNKNOWN`
  (dpi_mt.cpp:342), which drops each flow at its first packet. It is in the options of `TwoEngines`.
* A Host header that is empty up to its colon (`Host: :80`) gives the empty name
  (sni_extractor.cpp:338-344, main_simple.cpp:493-498), and both engines settle the flow with it:
  classified as UNKNOWN, without a name, for good. The empty name is among the payloads of
  `TwoEngines`, where the engines agree on it.
* `loadRules()` skips empty lines (rule_manager.cpp:461) and takes a line that begins with a
  bracket for a header (:465), so `blockDomain("")` is not restored, and a domain that begins with
  a bracket takes the domains behind it along. `RestoredAsSaved` says what remains.
* dpi_mt.cpp:481 drains "so no packets are lost", and `waitForQueueDrain()` gives up after two
  seconds (:106). `LossOnlyByTimeout` says that this is the only loss.
* sni_extractor.cpp:12 wants nothing returned when a length is out of bounds; the labels a DNS
  question showed before that are returned (:405), which `LabelsAreWhole` says.

## 7. What is not modelled

* `QUICSNIExtractor` and `extractExtensions()`, which neither engine calls.
* Hosts that are big-endian themselves, and the conversions of platform.h beyond 16 bits: they
  touch sequence numbers, which decide nothing.
* Failures of the disk while frames are read or written.
* The names inside a `TwoEngines` payload: it is whole there, and what a pattern matches is part
  of the options. The bytes are the matter of `CaptureCopy`.
* `--lbs 0` and `--fps 0`, which end the program at its first packet (load_balancer.cpp:193).
* Time is a counter in `FastPath` and a free choice elsewhere: a timeout can happen whenever
  the thing waited for has not.
* A rules file that somebody else wrote, lines that are no rule, and rules files that cannot be
  opened (both functions then return without a change).
* Two main threads: rule_manager.h:16 gives the changes of the rules to one.
* Statistics that are only read (`getStats`, the classification report, `Flow::bytes`,
  `GlobalConnectionTable`), printing, and `main.cpp`, which only prints packets.
* Restarting a stage after `stop()`; no caller does.

## 8. Plan

Done: the two engines, from file to file, and proofs about the queue, the pipeline, the fast
path, the classifier, the rules, the parser with the extractors, the two engines side by side,
and the files they read and write. Left:

* Both directions of a connection over `LBOf` and `SelectFP`, the global table and its report.
